----------------------------- MODULE Extraction -----------------------------
(***************************************************************************)
(* protected_run_if_not_ok (src/scarb/src/flock.rs) around the extraction  *)
(* of a package archive (core/registry/package_source_store.rs) or of the  *)
(* standard library (sources/standard_lib.rs): several scarb processes     *)
(* want one directory, one of them fills it under the package cache lock   *)
(* and marks it with a `.scarb-ok` file, and all read it without the lock. *)
(* A killed build is started again.  The lock is that of ProcessLock,      *)
(* which AdvisoryLock implements.  `scarb cache clean` removes the whole   *)
(* cache under that lock, the lock file itself included.                   *)
(***************************************************************************)
EXTENDS Naturals

CONSTANTS Process,   \* running instances of scarb
          Cleaners,  \* those that run `scarb cache clean`
          File,      \* what the directory is made of
          MaxCrashes \* how many times a process is killed

ASSUME ConstantsAssumption == Cleaners \subseteq Process /\ MaxCrashes \in Nat

VARIABLES
    pc,     \* the progress of each process
    users,  \* the processes that hold the package cache lock
    files,  \* the files that are on the disk, whole
    left,   \* the files each process still has to extract
    ok,     \* `.scarb-ok` is there
    trampled, \* history: files came or went without the lock under a build
              \* or a reader
    crashes \* how many times a process was killed

vars == <<pc, users, files, left, ok, trampled, crashes>>

Lock == INSTANCE ProcessLock
            WITH Task <- Process, ProcessOf <- [p \in Process |-> p]

(* `idle` is a process that has nothing to do here.                        *)
Ended == {"done", "failed", "killed", "idle"}
Outside == {"start", "waiting", "reading", "orphan"} \cup Ended
Inside == {"entered", "wiping", "extracting", "marked", "cleaning"}

TypeOK ==
    /\ pc \in [Process -> Outside \cup Inside]
    /\ users \subseteq Process
    /\ files \subseteq File
    /\ left \in [Process -> SUBSET File]
    /\ ok \in BOOLEAN /\ trampled \in BOOLEAN
    /\ crashes \in 0..MaxCrashes

Init ==
    /\ pc = [p \in Process |-> "start"]
    /\ users = {}
    /\ files = {} /\ ok = FALSE
    /\ left = [p \in Process |-> {}] /\ trampled = FALSE
    /\ crashes = 0

Go(p, place) == pc' = [pc EXCEPT ![p] = place]

(* The first check, without the lock.                                      *)
CheckOk(p) ==
    /\ pc[p] = "start" /\ p \notin Cleaners
    /\ Go(p, IF ok THEN "reading" ELSE "waiting")
    /\ UNCHANGED <<users, files, left, ok, trampled, crashes>>

(* Mutant of Acquire: the body runs without the lock.                      *)
Acquire_NoLock(p) ==
    /\ pc[p] = "waiting"
    /\ Go(p, "entered")
    /\ UNCHANGED <<users, files, left, ok, trampled, crashes>>

Acquire(p) ==
    /\ pc[p] = "waiting" /\ Lock!Enter(p)
    /\ Go(p, "entered")
    /\ UNCHANGED <<files, left, ok, trampled, crashes>>

(* Mutant of CheckAgain: no second check under the lock.                   *)
CheckAgain_Skipped(p) ==
    /\ pc[p] = "entered"
    /\ Go(p, "wiping")
    /\ UNCHANGED <<users, files, left, ok, trampled, crashes>>

(* The second check: the lock is dropped if the work is done.              *)
CheckAgain(p) ==
    /\ pc[p] = "entered"
    /\ IF ok THEN Go(p, "reading") /\ Lock!Leave(p)
             ELSE Go(p, "wiping") /\ UNCHANGED users
    /\ UNCHANGED <<files, left, ok, trampled, crashes>>

(* recreate: the directory is emptied, file by file, and made again.       *)
Wipe(p) ==
    /\ pc[p] = "wiping"
    /\ \/ \E f \in files : files' = files \ {f} /\ UNCHANGED <<pc, left>>
       \/ /\ files = {} /\ left' = [left EXCEPT ![p] = File]
          /\ Go(p, "extracting") /\ UNCHANGED files
    /\ UNCHANGED <<users, ok, trampled, crashes>>

(* unpack_in, or extract_with_templating, of one entry.                    *)
Extract(p) ==
    /\ pc[p] = "extracting"
    /\ \E f \in left[p] : /\ files' = files \cup {f}
                          /\ left' = [left EXCEPT ![p] = @ \ {f}]
    /\ UNCHANGED <<pc, users, ok, trampled, crashes>>

(* mark_ok.                                                                *)
Mark(p) ==
    /\ pc[p] = "extracting" /\ left[p] = {}
    /\ ok' = TRUE
    /\ Go(p, "marked")
    /\ UNCHANGED <<users, files, left, trampled, crashes>>

Release(p) ==
    /\ pc[p] = "marked" /\ Lock!Leave(p)
    /\ Go(p, "reading")
    /\ UNCHANGED <<files, left, ok, trampled, crashes>>

(* Mutant of Fail: the lock is not given back on the error path.           *)
Fail_KeepsLock(p) ==
    /\ pc[p] \in {"wiping", "extracting", "cleaning"}
    /\ Go(p, "failed")
    /\ UNCHANGED <<users, files, left, ok, trampled, crashes>>

(* Any of the steps returns an error: the guard is dropped, what was done  *)
(* stays on the disk.                                                      *)
Fail(p) ==
    /\ pc[p] \in {"wiping", "extracting", "cleaning"} /\ Lock!Expel(p)
    /\ Go(p, "failed")
    /\ UNCHANGED <<files, left, ok, trampled, crashes>>

(* An error elsewhere in the command drops the future of an extraction,    *)
(* and the guard with it; the blocking thread goes on, and scarb waits for *)
(* it before it exits (package_source_store.rs:91).                        *)
Abandon(p) ==
    /\ pc[p] = "extracting" /\ Lock!Leave(p)
    /\ Go(p, "orphan")
    /\ UNCHANGED <<files, left, ok, trampled, crashes>>

(* Unpacking an entry replaces a file that is there.                       *)
ExtractAbandoned(p) ==
    /\ pc[p] = "orphan"
    /\ \/ \E f \in left[p] \cap files : files' = files \ {f} /\ UNCHANGED left
       \/ \E f \in left[p] \ files : /\ files' = files \cup {f}
                                     /\ left' = [left EXCEPT ![p] = @ \ {f}]
    /\ IF ok \/ users # {} THEN trampled' = TRUE ELSE UNCHANGED trampled
    /\ UNCHANGED <<pc, users, ok, crashes>>

EndAbandoned(p) ==
    /\ pc[p] = "orphan" /\ left[p] = {}
    /\ Go(p, "failed")
    /\ UNCHANGED <<users, files, left, ok, trampled, crashes>>

(* The caller has read the directory.                                      *)
Finish(p) ==
    /\ pc[p] = "reading"
    /\ Go(p, "done")
    /\ UNCHANGED <<users, files, left, ok, trampled, crashes>>

-----------------------------------------------------------------------------
(* cache_clean (ops/cache.rs) removes the cache directory under the lock,  *)
(* file by file in the order the file system lists them.  Once the lock    *)
(* file is among those removed, the next process locks another one.        *)

StartCleaning(p) ==
    /\ pc[p] = "start" /\ p \in Cleaners /\ Lock!Enter(p)
    /\ Go(p, "cleaning")
    /\ UNCHANGED <<files, left, ok, trampled, crashes>>

(* What is removed may be what a build is working on.                      *)
Trampling ==
    IF users \subseteq Cleaners THEN UNCHANGED trampled ELSE trampled' = TRUE

Clean(p) ==
    /\ pc[p] = "cleaning"
    /\ \/ \E f \in files : files' = files \ {f} /\ UNCHANGED ok /\ Trampling
       \/ ok /\ ok' = FALSE /\ UNCHANGED files /\ Trampling
    /\ UNCHANGED <<pc, users, left, crashes>>

RemoveLockFile(p) ==
    /\ pc[p] = "cleaning" /\ Lock!Leave(p)
    /\ UNCHANGED <<pc, files, left, ok, trampled, crashes>>

EndCleaning(p) ==
    /\ pc[p] = "cleaning" /\ files = {} /\ ~ok /\ p \notin users
    /\ Go(p, "done")
    /\ UNCHANGED <<users, files, left, ok, trampled, crashes>>

-----------------------------------------------------------------------------
(* The process is killed, and a build is started again; the system unlocks *)
(* its files.                                                              *)
Crash(p) ==
    /\ pc[p] \in Inside \cup {"orphan"} /\ crashes < MaxCrashes
    /\ Lock!Expel(p)
    /\ Go(p, IF p \in Cleaners THEN "killed" ELSE "start")
    /\ crashes' = crashes + 1
    /\ UNCHANGED <<files, left, ok, trampled>>

Step(p) ==
    \/ CheckOk(p) \/ Acquire(p) \/ CheckAgain(p) \/ Wipe(p) \/ Extract(p)
    \/ Mark(p) \/ Release(p) \/ Finish(p)
    \/ ExtractAbandoned(p) \/ EndAbandoned(p)
    \/ StartCleaning(p) \/ Clean(p) \/ RemoveLockFile(p) \/ EndCleaning(p)

Over == (\A p \in Process : pc[p] \in Ended) /\ UNCHANGED vars

Next == (\E p \in Process : Step(p) \/ Fail(p) \/ Abandon(p) \/ Crash(p))
        \/ Over

Spec == Init /\ [][Next]_vars

(* A process that can go on does.  The lock is free again and again when   *)
(* its holders leave it one after the other: SF stands for a file lock     *)
(* that a waiter is eventually granted.                                    *)
FairSpec == /\ Spec
            /\ \A p \in Process : WF_vars(Step(p)) /\ SF_vars(Acquire(p))

-----------------------------------------------------------------------------
(* A cleaner is at work, or has stopped half-way: the mark may outlive     *)
(* some of the files.                                                      *)
HalfCleaned == \E p \in Cleaners : pc[p] \in {"cleaning", "failed", "killed"}

(* `.scarb-ok` is on the disk only next to everything it vouches for,      *)
(* wherever a build was killed (flock.rs:417), unless files were touched   *)
(* without the lock: by a cleaner that has removed the lock file, or by a  *)
(* thread that was left behind.                                            *)
OkMeansComplete == ok /\ ~HalfCleaned /\ ~trampled => files = File

NobodyCleaned == \A p \in Cleaners : pc[p] \in {"start", "idle"}

(* A process that was let through, with or without the lock, finds all the *)
(* files for as long as it reads: no other build wipes the directory under *)
(* it (the hazard the comment at flock.rs:446 tells of).                   *)
ReadersFindAll ==
    NobodyCleaned /\ ~trampled =>
        \A p \in Process : pc[p] = "reading" => files = File

(* Every process gets its directory, or an error of its own extraction.    *)
Served == \A p \in Process : <>(pc[p] \in Ended)
=============================================================================
