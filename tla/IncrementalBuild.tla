-------------------------- MODULE IncrementalBuild --------------------------
(***************************************************************************)
(* Incremental compilation of one unit by scarb processes that share a     *)
(* target directory (src/scarb/src/compiler/repository.rs, incremental/    *)
(* compilation.rs and fingerprint.rs).  A build hashes the sources, loads  *)
(* the cache of every component whose digest file holds the new digest,    *)
(* compiles, and saves digest and cache of the others.  No lock covers a   *)
(* build: a save holds the lock of the digest file (create_rw, which       *)
(* truncates before it locks), and nobody locks to read.                   *)
(*                                                                         *)
(* A digest, and the content of a cache, is the version of each source it  *)
(* was made from: hashing is injective.  The identifier that names a       *)
(* component's files leaves source checksums out (Fingerprint::id), so all *)
(* versions of a component share one digest file and one cache file.       *)
(***************************************************************************)
EXTENDS Naturals

CONSTANTS Build,      \* scarb processes, each building again and again
          Component,  \* the components of the compilation unit
          Reach,      \* the components a component's digest visits
          Edited,     \* the components whose sources are edited
          Version,    \* versions of a source
          MaxBuilds,  \* bounds the builds started
          MaxEdits,   \* bounds the edits
          MaxFaults,  \* bounds the failed saves, failed builds and kills
          MaxEvents,  \* bounds edits and faults together
          Nothing,    \* no version: not reached, or the cache is missing or empty
          NoDigest,   \* the content of a digest file, missing or empty
          NoBuild     \* a lock nobody holds

ASSUME ConstantsAssumption ==
    /\ Reach \in [Component -> SUBSET Component]
    /\ \A c \in Component : c \in Reach[c]
    /\ Edited \subseteq Component
    /\ MaxBuilds \in Nat /\ MaxEdits \in Nat /\ MaxFaults \in Nat
    /\ MaxEvents \in Nat
    /\ Nothing \notin Version
    /\ NoDigest \notin [Component -> Version \cup {Nothing}]
    /\ NoBuild \notin Build

VARIABLES
    source,    \* the version of each component's source on disk
    digest,    \* the content of each digest file
    cache,     \* the content of each cache file
    lock,      \* the build that holds the lock of each digest file
    pc,        \* the phase of each build
    stage,     \* the progress of each build with each component
    hashed,    \* the digests of the build: Fingerprint.digest, set once
    compiled,  \* what the build has compiled each component from
    started,   \* the builds started so far
    edits,     \* the edits so far
    faults,    \* the faults so far
    disturbed, \* history: builds with stale or moving input
    spoiled    \* history: components whose last save was cut or disturbed

vars == <<source, digest, cache, lock, pc, stage, hashed, compiled,
          started, edits, faults, disturbed, spoiled>>

(* What a component is made of: versions of the sources it reaches.        *)
Content == [Component -> Version \cup {Nothing}]
Of(c, all) == [x \in Component |-> IF x \in Reach[c] THEN all[x] ELSE Nothing]
Hollow == [x \in Component |-> Nothing]

Saving == {"check", "stale", "waiting", "marked", "writing", "done"}
Stage == {"idle", "unread", "cached", "dirty"} \cup Saving

TypeOK ==
    /\ source \in [Component -> Version]
    /\ digest \in [Component -> Content \cup {NoDigest}]
    /\ cache \in [Component -> Content]
    /\ lock \in [Component -> Build \cup {NoBuild}]
    /\ \A b \in Build, c \in Component :
          lock[c] = b <=> stage[b][c] \in {"marked", "writing"}
    /\ pc \in [Build -> {"off", "loading", "saving"}]
    /\ stage \in [Build -> [Component -> Stage]]
    /\ hashed \in [Build -> [Component -> Content]]
    /\ compiled \in [Build -> [Component -> Content]]
    /\ started \in 0..MaxBuilds
    /\ edits \in 0..MaxEdits /\ faults \in 0..MaxFaults
    /\ disturbed \subseteq Build /\ spoiled \subseteq Component

Blank == [c \in Component |-> Hollow]

Init ==
    /\ \E v \in Version : source = [c \in Component |-> v]
    /\ digest = [c \in Component |-> NoDigest]
    /\ cache = Blank
    /\ lock = [c \in Component |-> NoBuild]
    /\ pc = [b \in Build |-> "off"]
    /\ stage = [b \in Build |-> [c \in Component |-> "idle"]]
    /\ hashed = [b \in Build |-> Blank]
    /\ compiled = [b \in Build |-> Blank]
    /\ started = 0 /\ edits = 0 /\ faults = 0
    /\ disturbed = {} /\ spoiled = {}

At(b, c, s) == pc[b] = s[1] /\ stage[b][c] = s[2]
Go(b, c, s) == stage' = [stage EXCEPT ![b][c] = s]

(* Mutant of Digest: the digests of the dependencies are left out.         *)
Digest_OwnSource(c) ==
    [x \in Component |-> IF x = c THEN source[x] ELSE Nothing]

(* Fingerprint::digest of a component as its sources are now.              *)
Digest(c) == Of(c, source)

(* UnitFingerprint::new: all sources are hashed before any cache is loaded *)
(* and the digests are kept for the rest of the build.                     *)
Hash(b) ==
    /\ pc[b] = "off" /\ started < MaxBuilds
    /\ started' = started + 1
    /\ pc' = [pc EXCEPT ![b] = "loading"]
    /\ stage' = [stage EXCEPT ![b] = [c \in Component |-> "unread"]]
    /\ hashed' = [hashed EXCEPT ![b] = [c \in Component |-> Digest(c)]]
    /\ disturbed' = disturbed \ {b}
    /\ UNCHANGED <<source, digest, cache, lock, compiled, edits, faults, spoiled>>

IsFresh(b, c) == digest[c] = hashed[b][c]

(* load_component_cache: a fresh component gets its cache file, read by    *)
(* the compiler later.  It may be in the middle of another build's save.   *)
Load(b, c) ==
    /\ At(b, c, <<"loading", "unread">>)
    /\ Go(b, c, IF IsFresh(b, c) THEN "cached" ELSE "dirty")
    /\ disturbed' = IF IsFresh(b, c) /\ (c \in spoiled \/ lock[c] # NoBuild)
                    THEN disturbed \cup {b} ELSE disturbed
    /\ UNCHANGED <<source, digest, cache, lock, pc, hashed, compiled, started,
                   edits, faults, spoiled>>

(* What the compiler has of each component: its cache, or else its source. *)
Input(b) == [x \in Component |->
    IF stage[b][x] = "cached" THEN cache[x][x] ELSE source[x]]

(* The compiler: a cached component is what its cache holds, another one   *)
(* is compiled from its source and what the compiler has of the others.    *)
Compile(b) ==
    /\ pc[b] = "loading"
    /\ \A c \in Component : stage[b][c] # "unread"
    /\ pc' = [pc EXCEPT ![b] = "saving"]
    /\ compiled' = [compiled EXCEPT ![b] = [c \in Component |->
          IF stage[b][c] = "cached" THEN cache[c]
          ELSE Of(c, Input(b))]]
    /\ stage' = [stage EXCEPT ![b] = [c \in Component |-> "check"]]
    /\ UNCHANGED <<source, digest, cache, lock, hashed, started, edits, faults,
                   disturbed, spoiled>>

(* A task ends; what it has read of the fingerprint and of the database is *)
(* not read again.                                                         *)
End(b, c) ==
    /\ Go(b, c, "done")
    /\ hashed' = [hashed EXCEPT ![b][c] = Hollow]
    /\ compiled' = [compiled EXCEPT ![b][c] = Hollow]

(* save_component_cache, one task of each component: the file is read      *)
(* again, for another build may have saved in the meantime.                *)
FindFresh(b, c) ==
    /\ At(b, c, <<"saving", "check">>) /\ IsFresh(b, c)
    /\ End(b, c)
    /\ UNCHANGED <<source, digest, cache, lock, pc, started, edits, faults,
                   disturbed, spoiled>>

FindStale(b, c) ==
    /\ At(b, c, <<"saving", "check">>) /\ ~IsFresh(b, c)
    /\ Go(b, c, "stale")
    /\ UNCHANGED <<source, digest, cache, lock, pc, hashed, compiled, started,
                   edits, faults, disturbed, spoiled>>

(* create_rw of the digest file truncates it before it asks for the lock.  *)
OpenDigest(b, c) ==
    /\ At(b, c, <<"saving", "stale">>)
    /\ digest' = [digest EXCEPT ![c] = NoDigest]
    /\ Go(b, c, "waiting")
    /\ UNCHANGED <<source, cache, lock, pc, hashed, compiled, started,
                   edits, faults, disturbed, spoiled>>

(* Mutant of WriteDigest: the lock is dropped once the digest is written.  *)
WriteDigest_Unlocks(b, c) ==
    /\ At(b, c, <<"saving", "waiting">>) /\ lock[c] = NoBuild
    /\ digest' = [digest EXCEPT ![c] = hashed[b][c]]
    /\ Go(b, c, "marked")
    /\ UNCHANGED <<source, cache, lock, pc, hashed, compiled, started,
                   edits, faults, disturbed, spoiled>>

(* Digests have one length, so this one replaces what another build wrote. *)
WriteDigest(b, c) ==
    /\ At(b, c, <<"saving", "waiting">>) /\ lock[c] = NoBuild
    /\ lock' = [lock EXCEPT ![c] = b]
    /\ digest' = [digest EXCEPT ![c] = hashed[b][c]]
    /\ Go(b, c, "marked")
    /\ UNCHANGED <<source, cache, pc, hashed, compiled, started,
                   edits, faults, disturbed, spoiled>>

(* Builds that have loaded this cache find another one when they compile.  *)
OpenCache(b, c) ==
    /\ At(b, c, <<"saving", "marked">>)
    /\ cache' = [cache EXCEPT ![c] = Hollow]
    /\ Go(b, c, "writing")
    /\ disturbed' = disturbed \cup {o \in Build : stage[o][c] = "cached"}
    /\ UNCHANGED <<source, digest, lock, pc, hashed, compiled, started,
                   edits, faults, spoiled>>

Free(b, c) == lock' = [lock EXCEPT ![c] = IF @ = b THEN NoBuild ELSE @]

WriteCache(b, c) ==
    /\ At(b, c, <<"saving", "writing">>)
    /\ cache' = [cache EXCEPT ![c] = compiled[b][c]]
    /\ spoiled' = IF b \in disturbed THEN spoiled \cup {c} ELSE spoiled \ {c}
    /\ End(b, c) /\ Free(b, c)
    /\ UNCHANGED <<source, digest, pc, started, edits, faults, disturbed>>

Fault ==
    /\ faults < MaxFaults /\ edits + faults < MaxEvents
    /\ faults' = faults + 1

(* A save fails on an error (the task panics), or writes no cache because  *)
(* generate_crate_cache fails, which is no error.  The digest stays.       *)
CutSave(b, c) ==
    /\ pc[b] = "saving" /\ stage[b][c] \in Saving \ {"done"}
    /\ Fault
    /\ spoiled' = IF stage[b][c] \in {"marked", "writing"}
                  THEN spoiled \cup {c} ELSE spoiled
    /\ End(b, c) /\ Free(b, c)
    /\ UNCHANGED <<source, digest, cache, pc, started, edits, disturbed>>

Leave(b) ==
    /\ pc' = [pc EXCEPT ![b] = "off"]
    /\ stage' = [stage EXCEPT ![b] = [c \in Component |-> "idle"]]
    /\ hashed' = [hashed EXCEPT ![b] = Blank]
    /\ compiled' = [compiled EXCEPT ![b] = Blank]
    /\ UNCHANGED <<source, digest, cache, started, edits>>

(* Every task has ended: so does the build.                                *)
Finish(b) ==
    /\ pc[b] = "saving" /\ \A c \in Component : stage[b][c] = "done"
    /\ Leave(b)
    /\ disturbed' = disturbed \ {b}
    /\ UNCHANGED <<lock, faults, spoiled>>

(* The process is killed in any phase, or loading or compiling fails.      *)
Stop(b) ==
    /\ pc[b] # "off" /\ Fault
    /\ Leave(b)
    /\ lock' = [c \in Component |-> IF lock[c] = b THEN NoBuild ELSE lock[c]]
    /\ spoiled' = spoiled \cup
          {c \in Component : stage[b][c] \in {"marked", "writing"}}
    /\ disturbed' = disturbed \ {b}

(* The user edits a source, at any time, and may edit it back.             *)
Edit(c, v) ==
    /\ v # source[c]
    /\ edits < MaxEdits /\ edits + faults < MaxEvents
    /\ edits' = edits + 1
    /\ source' = [source EXCEPT ![c] = v]
    /\ disturbed' = disturbed \cup {b \in Build : pc[b] = "loading"}
    /\ UNCHANGED <<digest, cache, lock, pc, stage, hashed, compiled, started,
                   faults, spoiled>>

Next ==
    \/ \E b \in Build : Hash(b) \/ Compile(b) \/ Finish(b) \/ Stop(b)
    \/ \E b \in Build, c \in Component :
          \/ Load(b, c) \/ FindFresh(b, c) \/ FindStale(b, c)
          \/ OpenDigest(b, c) \/ WriteDigest(b, c) \/ OpenCache(b, c)
          \/ WriteCache(b, c) \/ CutSave(b, c)
    \/ \E c \in Edited, v \in Version : Edit(c, v)

Spec == Init /\ [][Next]_vars

-----------------------------------------------------------------------------

(* A digest stands for the cache beside it once no save is under way,      *)
(* however the saves of several builds interleave: only a save cut between *)
(* its two files, or made by a disturbed build, leaves a digest whose      *)
(* cache is another one (save_component_cache holds the digest's lock).    *)
DigestStandsForCache ==
    \A c \in Component :
        lock[c] = NoBuild /\ digest[c] # NoDigest /\ c \notin spoiled
            => cache[c] = digest[c]

(* An incremental build compiles what a build from nothing would: every    *)
(* component from the present sources of all it depends on, whatever is in *)
(* the caches, unless its input moved after it was hashed.                 *)
CompilesPresentSources ==
    [][\A b \in Build : pc[b] = "loading" /\ pc'[b] = "saving"
                            /\ b \notin disturbed
          => \A c \in Component :
                compiled'[b][c] = Of(c, source)]_vars
=============================================================================
