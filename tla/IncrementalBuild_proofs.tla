----------------------- MODULE IncrementalBuild_proofs -----------------------
(***************************************************************************)
(* Proofs about IncrementalBuild, for any number of builds, components,    *)
(* versions, edits and faults; and about BuildCommand around it, for any   *)
(* workspace units, commands and contracts.                                *)
(***************************************************************************)
EXTENDS BuildCommand, FiniteSetTheorems, TLAPS

(* The stages of a build belong to its phase.                              *)
Phases ==
    \A b \in Build, c \in Component :
        /\ stage[b][c] \in {"unread", "cached", "dirty"} <=> pc[b] = "loading"
        /\ stage[b][c] \in Saving <=> pc[b] = "saving"

(* While a save is under way the digest is its own, or truncated.          *)
DigestOfTheSave ==
    \A b \in Build, c \in Component :
        stage[b][c] \in {"marked", "writing"} =>
            digest[c] \in {NoDigest, hashed[b][c]}

(* A loaded cache that is being rewritten disturbs the build.              *)
RewritingDisturbs ==
    \A b, o \in Build, c \in Component :
        stage[b][c] = "writing" /\ stage[o][c] = "cached" => o \in disturbed

(* What an undisturbed build has hashed and loaded is as on disk ...       *)
InputIsPresent ==
    \A b \in Build \ disturbed, c \in Component :
        pc[b] = "loading" =>
            /\ hashed[b][c] = Of(c, source)
            /\ stage[b][c] = "cached" => cache[c] = hashed[b][c]

(* ... and what it saves is what its digest says.                          *)
OutputIsHashed ==
    \A b \in Build \ disturbed, c \in Component :
        stage[b][c] \in Saving \ {"done"} => compiled[b][c] = hashed[b][c]

IInv == /\ TypeOK /\ Phases /\ DigestOfTheSave /\ RewritingDisturbs
        /\ InputIsPresent /\ OutputIsHashed /\ DigestStandsForCache

LEMMA Contents ==
    ASSUME TypeOK
    PROVE  /\ Hollow \in Content /\ Blank \in [Component -> Content]
           /\ \A c \in Component : Of(c, source) \in Content
           /\ \A b \in Build, c \in Component : Of(c, Input(b)) \in Content
           /\ NoDigest \notin Content
BY ConstantsAssumption
   DEF ConstantsAssumption, TypeOK, Hollow, Blank, Content, Of, Input

LEMMA InitIInv == Init => IInv
<1> SUFFICES ASSUME Init PROVE IInv
  OBVIOUS
<1> USE ConstantsAssumption DEF ConstantsAssumption, Init
<1>1. TypeOK
  <2>1. Hollow \in Content /\ Blank \in [Component -> Content]
    BY DEF Hollow, Blank, Content
  <2> QED BY <2>1 DEF TypeOK, Stage, Saving
<1>2. Phases /\ DigestOfTheSave /\ RewritingDisturbs
  BY DEF Phases, DigestOfTheSave, RewritingDisturbs, Saving
<1>3. InputIsPresent /\ OutputIsHashed /\ DigestStandsForCache
  BY DEF InputIsPresent, OutputIsHashed, DigestStandsForCache, Saving
<1> QED BY <1>1, <1>2, <1>3 DEF IInv

(* Only its own steps move the stages of a build.                          *)
LEMMA PhasesStep == TypeOK /\ Phases /\ [Next]_vars => Phases'
<1> SUFFICES ASSUME TypeOK, Phases, [Next]_vars
             PROVE  Phases'
  OBVIOUS
<1> USE ConstantsAssumption DEF ConstantsAssumption, TypeOK, Stage, Phases,
        Saving
<1>1. ASSUME NEW b \in Build, Hash(b) PROVE Phases'
  BY <1>1 DEF Hash, Digest
<1>2. ASSUME NEW b \in Build, Compile(b) PROVE Phases'
  BY <1>2 DEF Compile, Input
<1>3. ASSUME NEW b \in Build, Finish(b) PROVE Phases'
  BY <1>3 DEF Finish, Leave, Blank, Hollow
<1>4. ASSUME NEW b \in Build, Stop(b) PROVE Phases'
  BY <1>4 DEF Stop, Fault, Leave, Blank, Hollow
<1>5. ASSUME NEW b \in Build, NEW c \in Component, Load(b, c) PROVE Phases'
  BY <1>5 DEF Load, At, Go, IsFresh
<1>6. ASSUME NEW b \in Build, NEW c \in Component, FindFresh(b, c)
      PROVE  Phases'
  BY <1>6 DEF FindFresh, At, Go, End, Hollow
<1>7. ASSUME NEW b \in Build, NEW c \in Component, FindStale(b, c)
      PROVE  Phases'
  BY <1>7 DEF FindStale, At, Go
<1>8. ASSUME NEW b \in Build, NEW c \in Component, OpenDigest(b, c)
      PROVE  Phases'
  BY <1>8 DEF OpenDigest, At, Go
<1>9. ASSUME NEW b \in Build, NEW c \in Component, WriteDigest(b, c)
      PROVE  Phases'
  BY <1>9 DEF WriteDigest, At, Go
<1>10. ASSUME NEW b \in Build, NEW c \in Component, OpenCache(b, c)
      PROVE  Phases'
  BY <1>10 DEF OpenCache, At, Go, Hollow
<1>11. ASSUME NEW b \in Build, NEW c \in Component, WriteCache(b, c)
      PROVE  Phases'
  BY <1>11 DEF WriteCache, At, Go, End, Free, Hollow
<1>12. ASSUME NEW b \in Build, NEW c \in Component, CutSave(b, c) PROVE Phases'
  BY <1>12 DEF CutSave, Fault, Go, End, Free, Hollow
<1>13. ASSUME NEW c \in Edited, NEW v \in Version, Edit(c, v) PROVE Phases'
  BY <1>13 DEF Edit
<1>14. CASE UNCHANGED vars
  BY <1>14 DEF vars
<1> QED BY <1>1, <1>2, <1>3, <1>4, <1>5, <1>6, <1>7, <1>8,
            <1>9, <1>10, <1>11, <1>12, <1>13, <1>14 DEF Next

(* The types, from the phases: who holds a lock is where its save is.      *)
LEMMA TypeStep == TypeOK /\ Phases /\ [Next]_vars => TypeOK'
<1> SUFFICES ASSUME TypeOK, Phases, [Next]_vars
             PROVE  TypeOK'
  OBVIOUS
<1> USE Contents, ConstantsAssumption
    DEF ConstantsAssumption, TypeOK, Stage, Phases,
        Saving
<1>1. ASSUME NEW b \in Build, Hash(b) PROVE TypeOK'
  BY <1>1 DEF Hash, Digest
<1>2. ASSUME NEW b \in Build, Compile(b) PROVE TypeOK'
  BY <1>2 DEF Compile, Input
<1>3. ASSUME NEW b \in Build, Finish(b) PROVE TypeOK'
  <2>1. /\ UNCHANGED <<source, digest, cache, lock>>
        /\ disturbed' \subseteq disturbed
    BY <1>3 DEF Finish, Leave
  <2>2. /\ pc' = [pc EXCEPT ![b] = "off"]
        /\ stage' = [stage EXCEPT ![b] = [c \in Component |-> "idle"]]
        /\ hashed' = [hashed EXCEPT ![b] = Blank]
        /\ compiled' = [compiled EXCEPT ![b] = Blank]
        /\ UNCHANGED <<started, edits, faults, spoiled>>
    BY <1>3 DEF Finish, Leave
  <2>3. Blank \in [Component -> Content]
    BY DEF Blank, Hollow
  <2>4. \A c \in Component : lock[c] # b
    BY <1>3 DEF Finish
  <2> QED BY <2>1, <2>2, <2>3, <2>4
<1>4. ASSUME NEW b \in Build, Stop(b) PROVE TypeOK'
  <2>1. /\ UNCHANGED <<source, digest, cache>>
        /\ disturbed' \subseteq disturbed
        /\ lock' = [c \in Component |-> IF lock[c] = b THEN NoBuild ELSE lock[c]]
        /\ faults' \in 0..MaxFaults
        /\ spoiled' \subseteq Component
    BY <1>4 DEF Stop, Fault, Leave
  <2>2. /\ pc' = [pc EXCEPT ![b] = "off"]
        /\ stage' = [stage EXCEPT ![b] = [c \in Component |-> "idle"]]
        /\ hashed' = [hashed EXCEPT ![b] = Blank]
        /\ compiled' = [compiled EXCEPT ![b] = Blank]
        /\ UNCHANGED <<started, edits>>
    BY <1>4 DEF Stop, Leave
  <2>3. Blank \in [Component -> Content]
    BY DEF Blank, Hollow
  <2>4. \A o \in Build, c \in Component :
           lock'[c] = o <=> stage'[o][c] \in {"marked", "writing"}
    BY <2>1, <2>2
  <2> QED BY <2>1, <2>2, <2>3, <2>4
<1>5. ASSUME NEW b \in Build, NEW c \in Component, Load(b, c) PROVE TypeOK'
  BY <1>5 DEF Load, At, Go, IsFresh
<1>6. ASSUME NEW b \in Build, NEW c \in Component, FindFresh(b, c)
      PROVE  TypeOK'
  BY <1>6 DEF FindFresh, At, Go, End, Hollow
<1>7. ASSUME NEW b \in Build, NEW c \in Component, FindStale(b, c)
      PROVE  TypeOK'
  BY <1>7 DEF FindStale, At, Go
<1>8. ASSUME NEW b \in Build, NEW c \in Component, OpenDigest(b, c)
      PROVE  TypeOK'
  BY <1>8 DEF OpenDigest, At, Go
<1>9. ASSUME NEW b \in Build, NEW c \in Component, WriteDigest(b, c)
      PROVE  TypeOK'
  BY <1>9 DEF WriteDigest, At, Go
<1>10. ASSUME NEW b \in Build, NEW c \in Component, OpenCache(b, c)
      PROVE  TypeOK'
  BY <1>10 DEF OpenCache, At, Go, Hollow
<1>11. ASSUME NEW b \in Build, NEW c \in Component, WriteCache(b, c)
      PROVE  TypeOK'
  BY <1>11 DEF WriteCache, At, Go, End, Free, Hollow
<1>12. ASSUME NEW b \in Build, NEW c \in Component, CutSave(b, c) PROVE TypeOK'
  BY <1>12 DEF CutSave, Fault, Go, End, Free, Hollow
<1>13. ASSUME NEW c \in Edited, NEW v \in Version, Edit(c, v) PROVE TypeOK'
  BY <1>13 DEF Edit
<1>14. CASE UNCHANGED vars
  BY <1>14 DEF vars
<1> QED BY <1>1, <1>2, <1>3, <1>4, <1>5, <1>6, <1>7, <1>8,
            <1>9, <1>10, <1>11, <1>12, <1>13, <1>14 DEF Next

(* The lock keeps other builds' digests out of the file.                   *)
LEMMA DigestStep ==
    /\ TypeOK /\ Phases /\ DigestOfTheSave /\ [Next]_vars
    => DigestOfTheSave'
<1> SUFFICES ASSUME TypeOK, Phases, DigestOfTheSave, [Next]_vars
             PROVE  DigestOfTheSave'
  OBVIOUS
<1> USE ConstantsAssumption DEF ConstantsAssumption, TypeOK, Stage, Phases,
        Saving, DigestOfTheSave
<1>1. ASSUME NEW b \in Build, Hash(b) PROVE DigestOfTheSave'
  BY <1>1 DEF Hash, Digest
<1>2. ASSUME NEW b \in Build, Compile(b) PROVE DigestOfTheSave'
  BY <1>2 DEF Compile, Input
<1>3. ASSUME NEW b \in Build, Finish(b) PROVE DigestOfTheSave'
  BY <1>3 DEF Finish, Leave, Blank, Hollow
<1>4. ASSUME NEW b \in Build, Stop(b) PROVE DigestOfTheSave'
  BY <1>4 DEF Stop, Fault, Leave, Blank, Hollow
<1>5. ASSUME NEW b \in Build, NEW c \in Component, Load(b, c)
      PROVE  DigestOfTheSave'
  BY <1>5 DEF Load, At, Go, IsFresh
<1>6. ASSUME NEW b \in Build, NEW c \in Component, FindFresh(b, c)
      PROVE  DigestOfTheSave'
  BY <1>6 DEF FindFresh, At, Go, End, Hollow
<1>7. ASSUME NEW b \in Build, NEW c \in Component, FindStale(b, c)
      PROVE  DigestOfTheSave'
  BY <1>7 DEF FindStale, At, Go
<1>8. ASSUME NEW b \in Build, NEW c \in Component, OpenDigest(b, c)
      PROVE  DigestOfTheSave'
  BY <1>8 DEF OpenDigest, At, Go
<1>9. ASSUME NEW b \in Build, NEW c \in Component, WriteDigest(b, c)
      PROVE  DigestOfTheSave'
  BY <1>9 DEF WriteDigest, At, Go
<1>10. ASSUME NEW b \in Build, NEW c \in Component, OpenCache(b, c)
      PROVE  DigestOfTheSave'
  BY <1>10 DEF OpenCache, At, Go, Hollow
<1>11. ASSUME NEW b \in Build, NEW c \in Component, WriteCache(b, c)
      PROVE  DigestOfTheSave'
  BY <1>11 DEF WriteCache, At, Go, End, Free, Hollow
<1>12. ASSUME NEW b \in Build, NEW c \in Component, CutSave(b, c)
      PROVE  DigestOfTheSave'
  BY <1>12 DEF CutSave, Fault, Go, End, Free, Hollow
<1>13. ASSUME NEW c \in Edited, NEW v \in Version, Edit(c, v)
      PROVE  DigestOfTheSave'
  BY <1>13 DEF Edit
<1>14. CASE UNCHANGED vars
  BY <1>14 DEF vars
<1> QED BY <1>1, <1>2, <1>3, <1>4, <1>5, <1>6, <1>7, <1>8,
            <1>9, <1>10, <1>11, <1>12, <1>13, <1>14 DEF Next

(* Loading after the rewriting began, or before it, disturbs.              *)
LEMMA RewritingStep ==
    /\ TypeOK /\ Phases /\ RewritingDisturbs /\ [Next]_vars
    => RewritingDisturbs'
<1> SUFFICES ASSUME TypeOK, Phases, RewritingDisturbs, [Next]_vars
             PROVE  RewritingDisturbs'
  OBVIOUS
<1> USE ConstantsAssumption DEF ConstantsAssumption, TypeOK, Stage, Phases,
        Saving, RewritingDisturbs
<1>1. ASSUME NEW b \in Build, Hash(b) PROVE RewritingDisturbs'
  BY <1>1 DEF Hash, Digest
<1>2. ASSUME NEW b \in Build, Compile(b) PROVE RewritingDisturbs'
  BY <1>2 DEF Compile, Input
<1>3. ASSUME NEW b \in Build, Finish(b) PROVE RewritingDisturbs'
  BY <1>3 DEF Finish, Leave, Blank, Hollow
<1>4. ASSUME NEW b \in Build, Stop(b) PROVE RewritingDisturbs'
  BY <1>4 DEF Stop, Fault, Leave, Blank, Hollow
<1>5. ASSUME NEW b \in Build, NEW c \in Component, Load(b, c)
      PROVE  RewritingDisturbs'
  BY <1>5 DEF Load, At, Go, IsFresh
<1>6. ASSUME NEW b \in Build, NEW c \in Component, FindFresh(b, c)
      PROVE  RewritingDisturbs'
  BY <1>6 DEF FindFresh, At, Go, End, Hollow
<1>7. ASSUME NEW b \in Build, NEW c \in Component, FindStale(b, c)
      PROVE  RewritingDisturbs'
  BY <1>7 DEF FindStale, At, Go
<1>8. ASSUME NEW b \in Build, NEW c \in Component, OpenDigest(b, c)
      PROVE  RewritingDisturbs'
  BY <1>8 DEF OpenDigest, At, Go
<1>9. ASSUME NEW b \in Build, NEW c \in Component, WriteDigest(b, c)
      PROVE  RewritingDisturbs'
  BY <1>9 DEF WriteDigest, At, Go
<1>10. ASSUME NEW b \in Build, NEW c \in Component, OpenCache(b, c)
      PROVE  RewritingDisturbs'
  BY <1>10 DEF OpenCache, At, Go, Hollow
<1>11. ASSUME NEW b \in Build, NEW c \in Component, WriteCache(b, c)
      PROVE  RewritingDisturbs'
  BY <1>11 DEF WriteCache, At, Go, End, Free, Hollow
<1>12. ASSUME NEW b \in Build, NEW c \in Component, CutSave(b, c)
      PROVE  RewritingDisturbs'
  BY <1>12 DEF CutSave, Fault, Go, End, Free, Hollow
<1>13. ASSUME NEW c \in Edited, NEW v \in Version, Edit(c, v)
      PROVE  RewritingDisturbs'
  BY <1>13 DEF Edit
<1>14. CASE UNCHANGED vars
  BY <1>14 DEF vars
<1> QED BY <1>1, <1>2, <1>3, <1>4, <1>5, <1>6, <1>7, <1>8,
            <1>9, <1>10, <1>11, <1>12, <1>13, <1>14 DEF Next

(* A fresh digest without a save under way stands for its cache.           *)
LEMMA InputStep ==
    /\ TypeOK /\ Phases /\ RewritingDisturbs
    /\ DigestStandsForCache /\ InputIsPresent /\ [Next]_vars
    => InputIsPresent'
<1> SUFFICES ASSUME TypeOK, Phases, RewritingDisturbs, DigestStandsForCache,
                    InputIsPresent, [Next]_vars
             PROVE  InputIsPresent'
  OBVIOUS
<1> USE ConstantsAssumption DEF ConstantsAssumption, TypeOK, Stage, Phases,
        Saving, RewritingDisturbs, DigestStandsForCache, InputIsPresent
<1>1. ASSUME NEW b \in Build, Hash(b) PROVE InputIsPresent'
  BY <1>1 DEF Hash, Digest
<1>2. ASSUME NEW b \in Build, Compile(b) PROVE InputIsPresent'
  BY <1>2 DEF Compile, Input
<1>3. ASSUME NEW b \in Build, Finish(b) PROVE InputIsPresent'
  BY <1>3 DEF Finish, Leave, Blank, Hollow
<1>4. ASSUME NEW b \in Build, Stop(b) PROVE InputIsPresent'
  BY <1>4 DEF Stop, Fault, Leave, Blank, Hollow
<1>5. ASSUME NEW b \in Build, NEW c \in Component, Load(b, c)
      PROVE  InputIsPresent'
  <2>1. /\ UNCHANGED <<source, digest, cache, lock, pc, hashed>>
        /\ disturbed \subseteq disturbed'
        /\ \A o \in Build, d \in Component :
              <<o, d>> # <<b, c>> => stage'[o][d] = stage[o][d]
    BY <1>5 DEF Load, Go
  <2>2. ASSUME b \notin disturbed', stage'[b][c] = "cached"
        PROVE  cache[c] = hashed[b][c]
    <3>1. IsFresh(b, c)
      BY <1>5, <2>2 DEF Load, At, Go
    <3>2. c \notin spoiled /\ lock[c] = NoBuild
      BY <1>5, <2>2, <3>1 DEF Load
    <3>3. digest[c] # NoDigest
      BY <3>1 DEF IsFresh, Content
    <3> QED BY <3>1, <3>2, <3>3 DEF IsFresh
  <2>3. SUFFICES ASSUME NEW o \in Build \ disturbed', NEW d \in Component,
                        pc'[o] = "loading"
                 PROVE  /\ hashed'[o][d] = Of(d, source')
                        /\ stage'[o][d] = "cached" => cache'[d] = hashed'[o][d]
    OBVIOUS
  <2>4. hashed'[o][d] = Of(d, source')
    BY <2>1, <2>3 DEF Of
  <2>5. ASSUME stage'[o][d] = "cached" PROVE cache'[d] = hashed'[o][d]
    <3>1. CASE o = b /\ d = c
      BY <2>1, <2>2, <2>3, <2>5, <3>1
    <3>2. CASE <<o, d>> # <<b, c>>
      <4>1. o \notin disturbed /\ pc[o] = "loading" /\ stage[o][d] = "cached"
        BY <2>1, <2>3, <2>5, <3>2
      <4> QED BY <2>1, <4>1
    <3> QED BY <3>1, <3>2
  <2> QED BY <2>4, <2>5
<1>6. ASSUME NEW b \in Build, NEW c \in Component, FindFresh(b, c)
      PROVE  InputIsPresent'
  BY <1>6 DEF FindFresh, At, Go, End, Hollow
<1>7. ASSUME NEW b \in Build, NEW c \in Component, FindStale(b, c)
      PROVE  InputIsPresent'
  BY <1>7 DEF FindStale, At, Go
<1>8. ASSUME NEW b \in Build, NEW c \in Component, OpenDigest(b, c)
      PROVE  InputIsPresent'
  BY <1>8 DEF OpenDigest, At, Go
<1>9. ASSUME NEW b \in Build, NEW c \in Component, WriteDigest(b, c)
      PROVE  InputIsPresent'
  BY <1>9 DEF WriteDigest, At, Go
<1>10. ASSUME NEW b \in Build, NEW c \in Component, OpenCache(b, c)
      PROVE  InputIsPresent'
  BY <1>10 DEF OpenCache, At, Go, Hollow
<1>11. ASSUME NEW b \in Build, NEW c \in Component, WriteCache(b, c)
      PROVE  InputIsPresent'
  BY <1>11 DEF WriteCache, At, Go, End, Free, Hollow
<1>12. ASSUME NEW b \in Build, NEW c \in Component, CutSave(b, c)
      PROVE  InputIsPresent'
  BY <1>12 DEF CutSave, Fault, Go, End, Free, Hollow
<1>13. ASSUME NEW c \in Edited, NEW v \in Version, Edit(c, v)
      PROVE  InputIsPresent'
  BY <1>13 DEF Edit
<1>14. CASE UNCHANGED vars
  BY <1>14 DEF vars
<1> QED BY <1>1, <1>2, <1>3, <1>4, <1>5, <1>6, <1>7, <1>8,
            <1>9, <1>10, <1>11, <1>12, <1>13, <1>14 DEF Next

(* A compilation of present input is what was hashed.                      *)
LEMMA OutputStep ==
    /\ TypeOK /\ Phases /\ InputIsPresent
    /\ OutputIsHashed /\ [Next]_vars
    => OutputIsHashed'
<1> SUFFICES ASSUME TypeOK, Phases, InputIsPresent, OutputIsHashed, [Next]_vars
             PROVE  OutputIsHashed'
  OBVIOUS
<1> USE ConstantsAssumption DEF ConstantsAssumption, TypeOK, Stage, Phases,
        Saving, InputIsPresent, OutputIsHashed
<1>1. ASSUME NEW b \in Build, Hash(b) PROVE OutputIsHashed'
  BY <1>1 DEF Hash, Digest
<1>2. ASSUME NEW b \in Build, Compile(b) PROVE OutputIsHashed'
  <2>1. /\ pc[b] = "loading" /\ UNCHANGED <<hashed, disturbed>>
        /\ \A o \in Build \ {b} : stage'[o] = stage[o] /\ compiled'[o] = compiled[o]
    BY <1>2 DEF Compile
  <2>2. ASSUME b \notin disturbed, NEW c \in Component
        PROVE  compiled'[b][c] = hashed[b][c]
    <3>1. \A x \in Component :
             /\ hashed[b][x] = Of(x, source)
             /\ stage[b][x] = "cached" => cache[x] = hashed[b][x]
      BY <2>1, <2>2
    <3>2. CASE stage[b][c] = "cached"
      <4>1. compiled'[b][c] = cache[c]
        BY <1>2, <3>2 DEF Compile
      <4> QED BY <3>1, <3>2, <4>1
    <3>3. CASE stage[b][c] # "cached"
      <4>1. compiled'[b][c] = Of(c, Input(b))
        BY <1>2, <3>3 DEF Compile
      <4>2. ASSUME NEW x \in Component PROVE Input(b)[x] = source[x]
        <5>1. Of(x, source)[x] = source[x]
          BY DEF Of
        <5>2. stage[b][x] = "cached" => cache[x] = Of(x, source)
          BY <3>1
        <5> QED BY <5>1, <5>2 DEF Input
      <4>3. Of(c, Input(b)) = Of(c, source)
        BY <4>2 DEF Of
      <4> QED BY <3>1, <4>1, <4>3
    <3> QED BY <3>2, <3>3
  <2> SUFFICES ASSUME NEW o \in Build \ disturbed', NEW c \in Component,
                      stage'[o][c] \in Saving \ {"done"}
               PROVE  compiled'[o][c] = hashed'[o][c]
    OBVIOUS
  <2>3. CASE o = b
    BY <2>1, <2>2, <2>3
  <2>4. CASE o # b
    BY <2>1, <2>4
  <2> QED BY <2>3, <2>4
<1>3. ASSUME NEW b \in Build, Finish(b) PROVE OutputIsHashed'
  BY <1>3 DEF Finish, Leave, Blank, Hollow
<1>4. ASSUME NEW b \in Build, Stop(b) PROVE OutputIsHashed'
  BY <1>4 DEF Stop, Fault, Leave, Blank, Hollow
<1>5. ASSUME NEW b \in Build, NEW c \in Component, Load(b, c)
      PROVE  OutputIsHashed'
  BY <1>5 DEF Load, At, Go, IsFresh
<1>6. ASSUME NEW b \in Build, NEW c \in Component, FindFresh(b, c)
      PROVE  OutputIsHashed'
  BY <1>6 DEF FindFresh, At, Go, End, Hollow
<1>7. ASSUME NEW b \in Build, NEW c \in Component, FindStale(b, c)
      PROVE  OutputIsHashed'
  BY <1>7 DEF FindStale, At, Go
<1>8. ASSUME NEW b \in Build, NEW c \in Component, OpenDigest(b, c)
      PROVE  OutputIsHashed'
  BY <1>8 DEF OpenDigest, At, Go
<1>9. ASSUME NEW b \in Build, NEW c \in Component, WriteDigest(b, c)
      PROVE  OutputIsHashed'
  BY <1>9 DEF WriteDigest, At, Go
<1>10. ASSUME NEW b \in Build, NEW c \in Component, OpenCache(b, c)
      PROVE  OutputIsHashed'
  BY <1>10 DEF OpenCache, At, Go, Hollow
<1>11. ASSUME NEW b \in Build, NEW c \in Component, WriteCache(b, c)
      PROVE  OutputIsHashed'
  BY <1>11 DEF WriteCache, At, Go, End, Free, Hollow
<1>12. ASSUME NEW b \in Build, NEW c \in Component, CutSave(b, c)
      PROVE  OutputIsHashed'
  BY <1>12 DEF CutSave, Fault, Go, End, Free, Hollow
<1>13. ASSUME NEW c \in Edited, NEW v \in Version, Edit(c, v)
      PROVE  OutputIsHashed'
  BY <1>13 DEF Edit
<1>14. CASE UNCHANGED vars
  BY <1>14 DEF vars
<1> QED BY <1>1, <1>2, <1>3, <1>4, <1>5, <1>6, <1>7, <1>8,
            <1>9, <1>10, <1>11, <1>12, <1>13, <1>14 DEF Next

(* The write that frees the lock makes digest and cache agree.             *)
LEMMA HonestStep ==
    /\ TypeOK /\ Phases /\ DigestOfTheSave
    /\ OutputIsHashed /\ DigestStandsForCache /\ [Next]_vars
    => DigestStandsForCache'
<1> SUFFICES ASSUME TypeOK, Phases, DigestOfTheSave, OutputIsHashed,
                    DigestStandsForCache, [Next]_vars
             PROVE  DigestStandsForCache'
  OBVIOUS
<1> USE ConstantsAssumption DEF ConstantsAssumption, TypeOK, Stage, Phases,
        Saving, DigestOfTheSave, OutputIsHashed, DigestStandsForCache
<1>1. ASSUME NEW b \in Build, Hash(b) PROVE DigestStandsForCache'
  BY <1>1 DEF Hash, Digest
<1>2. ASSUME NEW b \in Build, Compile(b) PROVE DigestStandsForCache'
  BY <1>2 DEF Compile, Input
<1>3. ASSUME NEW b \in Build, Finish(b) PROVE DigestStandsForCache'
  BY <1>3 DEF Finish, Leave, Blank, Hollow
<1>4. ASSUME NEW b \in Build, Stop(b) PROVE DigestStandsForCache'
  BY <1>4 DEF Stop, Fault, Leave, Blank, Hollow
<1>5. ASSUME NEW b \in Build, NEW c \in Component, Load(b, c)
      PROVE  DigestStandsForCache'
  BY <1>5 DEF Load, At, Go, IsFresh
<1>6. ASSUME NEW b \in Build, NEW c \in Component, FindFresh(b, c)
      PROVE  DigestStandsForCache'
  BY <1>6 DEF FindFresh, At, Go, End, Hollow
<1>7. ASSUME NEW b \in Build, NEW c \in Component, FindStale(b, c)
      PROVE  DigestStandsForCache'
  BY <1>7 DEF FindStale, At, Go
<1>8. ASSUME NEW b \in Build, NEW c \in Component, OpenDigest(b, c)
      PROVE  DigestStandsForCache'
  BY <1>8 DEF OpenDigest, At, Go
<1>9. ASSUME NEW b \in Build, NEW c \in Component, WriteDigest(b, c)
      PROVE  DigestStandsForCache'
  BY <1>9 DEF WriteDigest, At, Go
<1>10. ASSUME NEW b \in Build, NEW c \in Component, OpenCache(b, c)
      PROVE  DigestStandsForCache'
  BY <1>10 DEF OpenCache, At, Go, Hollow
<1>11. ASSUME NEW b \in Build, NEW c \in Component, WriteCache(b, c)
      PROVE  DigestStandsForCache'
  <2> SUFFICES ASSUME NEW d \in Component, lock'[d] = NoBuild,
                      digest[d] # NoDigest, d \notin spoiled'
               PROVE  cache'[d] = digest[d]
    BY <1>11 DEF WriteCache
  <2>1. CASE d = c
    <3>1. b \notin disturbed
      BY <1>11, <2>1 DEF WriteCache
    <3>2. compiled[b][c] = hashed[b][c] /\ digest[c] = hashed[b][c]
      BY <1>11, <2>1, <3>1 DEF WriteCache, At
    <3>3. cache'[c] = compiled[b][c]
      BY <1>11 DEF WriteCache
    <3> QED BY <2>1, <3>2, <3>3
  <2>2. CASE d # c
    BY <1>11, <2>2 DEF WriteCache, Free
  <2> QED BY <2>1, <2>2
<1>12. ASSUME NEW b \in Build, NEW c \in Component, CutSave(b, c)
      PROVE  DigestStandsForCache'
  BY <1>12 DEF CutSave, Fault, Go, End, Free, Hollow
<1>13. ASSUME NEW c \in Edited, NEW v \in Version, Edit(c, v)
      PROVE  DigestStandsForCache'
  BY <1>13 DEF Edit
<1>14. CASE UNCHANGED vars
  BY <1>14 DEF vars
<1> QED BY <1>1, <1>2, <1>3, <1>4, <1>5, <1>6, <1>7, <1>8,
            <1>9, <1>10, <1>11, <1>12, <1>13, <1>14 DEF Next

LEMMA IInvStep == IInv /\ [Next]_vars => IInv'
BY PhasesStep, TypeStep, DigestStep, RewritingStep, InputStep, OutputStep, HonestStep
   DEF IInv

LEMMA Invariance == Spec => []IInv
<1>1. Init => IInv
  BY InitIInv
<1>2. IInv /\ [Next]_vars => IInv'
  BY IInvStep
<1> QED BY <1>1, <1>2, PTL DEF Spec

(* The variables keep their types, and a digest file is locked by the      *)
(* build that is between its two writes, and by no other.                  *)
THEOREM TypeCorrect == Spec => []TypeOK
<1>1. IInv => TypeOK
  BY DEF IInv
<1> QED BY <1>1, Invariance, PTL

(* A digest stands for the cache beside it, whatever number of builds save *)
(* at once (save_component_cache).                                         *)
THEOREM DigestsAreHonest == Spec => []DigestStandsForCache
<1>1. IInv => DigestStandsForCache
  BY DEF IInv
<1> QED BY <1>1, Invariance, PTL

CompilesPresent(b) ==
    pc[b] = "loading" /\ pc'[b] = "saving" /\ b \notin disturbed =>
        \A c \in Component : compiled'[b][c] = Of(c, source)

LEMMA CompileStep ==
  ASSUME IInv, [Next]_vars, NEW b \in Build PROVE CompilesPresent(b)
<1> SUFFICES ASSUME pc[b] = "loading", pc'[b] = "saving", b \notin disturbed,
                    NEW c \in Component
             PROVE  compiled'[b][c] = Of(c, source)
  BY DEF CompilesPresent
<1>1. OutputIsHashed' /\ Phases'
  BY OutputStep, PhasesStep DEF IInv
<1>2. Compile(b)
  <2> USE DEF IInv, TypeOK
  <2>1. ASSUME NEW o \in Build, Hash(o) \/ Finish(o) \/ Stop(o) \/ Compile(o)
        PROVE  o = b /\ Compile(o)
    BY <2>1 DEF Hash, Finish, Stop, Compile, Leave
  <2>2. ASSUME NEW o \in Build, NEW d \in Component,
               \/ Load(o, d) \/ FindFresh(o, d) \/ FindStale(o, d)
               \/ OpenDigest(o, d) \/ WriteDigest(o, d) \/ OpenCache(o, d)
               \/ WriteCache(o, d) \/ CutSave(o, d)
        PROVE  pc' = pc
    BY <2>2 DEF Load, FindFresh, FindStale, OpenDigest, WriteDigest,
                OpenCache, WriteCache, CutSave
  <2>3. ASSUME NEW d \in Edited, NEW v \in Version, Edit(d, v) PROVE pc' = pc
    BY <2>3 DEF Edit
  <2>4. QED
    BY <2>1, <2>2, <2>3 DEF Next, vars
<1>3. /\ b \notin disturbed' /\ stage'[b][c] = "check"
      /\ hashed'[b][c] = hashed[b][c]
  BY <1>2 DEF Compile, IInv, TypeOK
<1>4. hashed[b][c] = Of(c, source)
  BY DEF IInv, InputIsPresent
<1>5. QED
  BY <1>1, <1>3, <1>4 DEF OutputIsHashed, Saving

(* An incremental build with undisturbed input compiles what a build from  *)
(* nothing would.                                                          *)
THEOREM IncrementalIsClean == Spec => CompilesPresentSources
<1>1. IInv /\ [Next]_vars => \A b \in Build : CompilesPresent(b)
  BY CompileStep
<1>2. (\A b \in Build : CompilesPresent(b)) =>
         [\A b \in Build : pc[b] = "loading" /\ pc'[b] = "saving"
                              /\ b \notin disturbed
             => \A c \in Component : compiled'[b][c] = Of(c, source)]_vars
  BY DEF CompilesPresent
<1>3. QED
  BY <1>1, <1>2, Invariance, PTL DEF Spec, CompilesPresentSources

-----------------------------------------------------------------------------
(* Induction, and sequences put together of others                         *)

(* A set of numbers has a least one, because of the intervals below them   *)
(* one is the smallest.                                                    *)
LEMMA LeastNumber ==
  ASSUME NEW T, T \subseteq Nat, T # {}
  PROVE  \E x \in T : \A y \in T : x <= y
<1> DEFINE Below == {0 .. n : n \in T}
<1>1. Below \subseteq FiniteSubsetsOf(Nat) /\ Below # {}
  <2>1. \A n \in T : IsFiniteSet(0 .. n) /\ (0 .. n) \subseteq Nat
    BY FS_Interval
  <2>2. QED
    BY <2>1 DEF FiniteSubsetsOf
<1>2. PICK u \in Below : \A w \in Below : ~(<<w, u>> \in StrictSubsetOrdering(Nat))
  BY <1>1, FS_StrictSubsetOrderingWellFounded, WFMin
<1>3. PICK x \in T : u = 0 .. x
  OBVIOUS
<1>4. ASSUME NEW y \in T, y < x PROVE FALSE
  <2>1. /\ 0 .. y \in Below /\ 0 .. y \subseteq 0 .. x
        /\ x \notin 0 .. y /\ x \in 0 .. x
        /\ 0 .. y \subseteq Nat /\ 0 .. x \subseteq Nat
    BY <1>4
  <2>2. <<0 .. y, 0 .. x>> \in StrictSubsetOrdering(Nat)
    BY <2>1 DEF StrictSubsetOrdering
  <2>3. QED
    BY <1>2, <1>3, <2>1, <2>2
<1>5. QED
  BY <1>4

LEMMA Induction ==
  ASSUME NEW S, 0 \in S, \A n \in Nat : n \in S => n + 1 \in S
  PROVE  Nat \subseteq S
<1> SUFFICES ASSUME Nat \ S # {} PROVE FALSE
  OBVIOUS
<1>1. PICK m \in Nat \ S : \A y \in Nat \ S : m <= y
  BY LeastNumber
<1>2. m # 0 /\ m - 1 \in Nat /\ m - 1 \in S
  BY <1>1
<1>3. QED
  BY <1>2

LEMMA ElementsOfConcat ==
  ASSUME NEW X, NEW s \in Seq(X), NEW t \in Seq(X)
  PROVE  s \o t \in Seq(X) /\ ToSet(s \o t) = ToSet(s) \cup ToSet(t)
<1>1. /\ s \o t \in Seq(X) /\ Len(s \o t) = Len(s) + Len(t)
      /\ \A i \in 1 .. Len(s) + Len(t) :
            (s \o t)[i] = IF i <= Len(s) THEN s[i] ELSE t[i - Len(s)]
  OBVIOUS
<1>2. /\ DOMAIN s = 1 .. Len(s) /\ DOMAIN t = 1 .. Len(t)
      /\ DOMAIN (s \o t) = 1 .. Len(s) + Len(t) /\ Len(s) \in Nat /\ Len(t) \in Nat
  BY <1>1
<1>3. ToSet(s \o t) \subseteq ToSet(s) \cup ToSet(t)
  BY <1>1, <1>2 DEF ToSet
<1>4. ToSet(s) \subseteq ToSet(s \o t)
  BY <1>1, <1>2 DEF ToSet
<1>5. ASSUME NEW i \in 1 .. Len(t) PROVE t[i] \in ToSet(s \o t)
  <2>1. /\ Len(s) + i \in DOMAIN (s \o t) /\ (s \o t)[Len(s) + i] = t[(Len(s) + i) - Len(s)]
        /\ (Len(s) + i) - Len(s) = i
    BY <1>1, <1>2
  <2>2. QED
    BY <2>1 DEF ToSet
<1>6. QED
  BY <1>1, <1>2, <1>3, <1>4, <1>5 DEF ToSet

(* FlattenSeq joins the sequences it is given, whatever their number.      *)
LEMMA Flattened ==
  ASSUME NEW X, NEW seqs \in Seq(Seq(X))
  PROVE  /\ FlattenSeq(seqs) \in Seq(X)
         /\ ToSet(FlattenSeq(seqs)) = UNION {ToSet(seqs[i]) : i \in 1 .. Len(seqs)}
<1> DEFINE n == Len(seqs)
           Joined(g, i) == IF i = 1 THEN seqs[i] ELSE g[i - 1] \o seqs[i]
           all == CHOOSE g : g = [i \in 1 .. n |-> Joined(g, i)]
           Upto(k) == UNION {ToSet(seqs[i]) : i \in 1 .. k}
<1>1. n \in Nat /\ \A i \in 1 .. n : seqs[i] \in Seq(X)
  OBVIOUS
<1>2. CASE n = 0
  <2>1. seqs = <<>> /\ FlattenSeq(seqs) = <<>>
    BY <1>2 DEF FlattenSeq
  <2>2. ToSet(<<>>) = {} /\ <<>> \in Seq(X)
    BY DEF ToSet
  <2>3. UNION {ToSet(seqs[i]) : i \in 1 .. n} = {}
    BY <1>2
  <2>4. QED
    BY <2>1, <2>2, <2>3
<1>3. CASE n # 0
  <2>1. FlattenSeq(seqs) = all[n]
    BY <1>3 DEF FlattenSeq
  <2>2. \E g : g = [i \in 1 .. n |-> Joined(g, i)]
    <3> DEFINE S == {k \in Nat : \E g : g = [i \in 1 .. k |-> Joined(g, i)]}
    <3>1. 0 \in S
      <4> DEFINE none == [i \in 1 .. 0 |-> 0]
      <4>1. none = [i \in 1 .. 0 |-> Joined(none, i)]
        OBVIOUS
      <4> HIDE DEF Joined, none
      <4>2. \E g : g = [i \in 1 .. 0 |-> Joined(g, i)]
        BY <4>1
      <4>3. QED
        BY <4>2
    <3>2. ASSUME NEW k \in Nat, k \in S PROVE k + 1 \in S
      <4>1. PICK g : g = [i \in 1 .. k |-> Joined(g, i)]
        BY <3>2
      <4> DEFINE h == [i \in 1 .. k + 1 |-> IF i \in 1 .. k THEN g[i] ELSE Joined(g, i)]
      <4>2. \A i \in 1 .. k : h[i] = g[i] /\ g[i] = Joined(g, i)
        <5>1. \A i \in 1 .. k : h[i] = g[i]
          OBVIOUS
        <5>2. \A i \in 1 .. k : g[i] = Joined(g, i)
          <6> HIDE DEF Joined
          <6>1. QED
            BY <4>1
        <5>3. QED
          BY <5>1, <5>2
      <4>3. \A i \in 1 .. k + 1 : h[i] = Joined(h, i)
        <5>1. ASSUME NEW i \in 1 .. k + 1 PROVE Joined(h, i) = Joined(g, i)
          <6>1. i = 1 \/ i - 1 \in 1 .. k
            OBVIOUS
          <6>2. QED
            BY <4>2, <6>1
        <5>2. QED
          BY <4>2, <5>1
      <4>4. h = [i \in 1 .. k + 1 |-> Joined(h, i)]
        BY <4>3
      <4> HIDE DEF Joined, h
      <4>5. \E f : f = [i \in 1 .. k + 1 |-> Joined(f, i)]
        BY <4>4
      <4>6. QED
        BY <4>5
    <3> HIDE DEF S
    <3>3. Nat \subseteq S
      BY <3>1, <3>2, Induction
    <3>4. QED
      BY <1>1, <3>3 DEF S
  <2>3. all = [i \in 1 .. n |-> Joined(all, i)]
    BY <2>2
  <2> HIDE DEF all
  <2>4. \A i \in 1 .. n : all[i] = Joined(all, i)
    BY <2>3
  <2> DEFINE T == {k \in Nat : k + 1 \in 1 .. n =>
                       all[k + 1] \in Seq(X) /\ ToSet(all[k + 1]) = Upto(k + 1)}
  <2>5. 0 \in T
    <3>1. all[1] = seqs[1] /\ 1 \in 1 .. n
      BY <1>1, <1>3, <2>4
    <3>2. Upto(1) = ToSet(seqs[1])
      OBVIOUS
    <3>3. QED
      BY <1>1, <3>1, <3>2
  <2>6. ASSUME NEW k \in Nat, k \in T PROVE k + 1 \in T
    <3>1. SUFFICES ASSUME (k + 1) + 1 \in 1 .. n
                   PROVE  /\ all[(k + 1) + 1] \in Seq(X)
                          /\ ToSet(all[(k + 1) + 1]) = Upto((k + 1) + 1)
      OBVIOUS
    <3>2. k + 1 \in 1 .. n /\ all[k + 1] \in Seq(X) /\ ToSet(all[k + 1]) = Upto(k + 1)
      BY <2>6, <3>1
    <3>3. all[(k + 1) + 1] = all[k + 1] \o seqs[(k + 1) + 1]
      <4>1. /\ all[(k + 1) + 1] = Joined(all, (k + 1) + 1)
            /\ ((k + 1) + 1) - 1 = k + 1 /\ (k + 1) + 1 # 1
        BY <2>4, <3>1
      <4>2. QED
        BY <4>1
    <3>4. Upto((k + 1) + 1) = Upto(k + 1) \cup ToSet(seqs[(k + 1) + 1])
      <4>1. 1 .. (k + 1) + 1 = (1 .. k + 1) \cup {(k + 1) + 1}
        OBVIOUS
      <4>2. QED
        BY <4>1
    <3>5. seqs[(k + 1) + 1] \in Seq(X)
      BY <1>1, <3>1
    <3> DEFINE s == all[k + 1]
               t == seqs[(k + 1) + 1]
    <3>6. s \o t \in Seq(X) /\ ToSet(s \o t) = ToSet(s) \cup ToSet(t)
      <4> HIDE DEF s, t
      <4>1. s \in Seq(X) /\ t \in Seq(X)
        BY <3>2, <3>5 DEF s, t
      <4>2. QED
        BY <4>1, ElementsOfConcat
    <3> HIDE DEF Upto
    <3>7. QED
      BY <3>2, <3>3, <3>4, <3>6
  <2> HIDE DEF T
  <2>7. Nat \subseteq T
    BY <2>5, <2>6, Induction
  <2>8. n - 1 \in T /\ (n - 1) + 1 = n /\ n \in 1 .. n
    BY <1>1, <1>3, <2>7
  <2>9. all[n] \in Seq(X) /\ ToSet(all[n]) = Upto(n)
    BY <2>8 DEF T
  <2>10. QED
    BY <2>1, <2>9
<1>4. QED
  BY <1>1, <1>2, <1>3

(* SetToSeq lists every element of a finite set.                           *)
LEMMA Listed ==
  ASSUME NEW S, IsFiniteSet(S)
  PROVE  /\ SetToSeq(S) \in [1 .. Cardinality(S) -> S]
         /\ \A x \in S : \E i \in 1 .. Cardinality(S) : SetToSeq(S)[i] = x
<1> DEFINE I == 1 .. Cardinality(S)
<1>1. Cardinality(S) \in Nat /\ ExistsBijection(I, S)
  BY FS_CardinalityType
<1>2. \E f \in [I -> S] : IsInjective(f)
  BY <1>1 DEF ExistsBijection, Bijection, Injection
<1>3. SetToSeq(S) \in [I -> S] /\ IsInjective(SetToSeq(S))
  BY <1>2 DEF SetToSeq
<1>4. SetToSeq(S) \in Injection(I, S)
  BY <1>3 DEF Injection
<1>5. IsFiniteSet(I) /\ Cardinality(I) = Cardinality(S)
  BY <1>1, FS_Interval
<1>6. SetToSeq(S) \in Surjection(I, S)
  BY <1>4, <1>5, FS_Injection
<1>7. QED
  BY <1>3, <1>6 DEF Surjection

LEMMA WhenElements ==
  ASSUME NEW X, NEW out \in X, NEW condition \in BOOLEAN
  PROVE  /\ When(condition, out) \in Seq(X)
         /\ ToSet(When(condition, out)) = {x \in {out} : condition}
BY DEF When, ToSet

(* Filter keeps the units of a set.                                        *)
LEMMA Filtered ==
  ASSUME NEW X, NEW units \in Seq(X), NEW chosen
  PROVE  /\ Filter(units, chosen) \in Seq(X)
         /\ ToSet(Filter(units, chosen)) \subseteq chosen
<1> DEFINE parts == [i \in 1 .. Len(units) |-> When(units[i] \in chosen, units[i])]
<1>1. \A i \in 1 .. Len(units) :
          /\ parts[i] \in Seq(X) /\ ToSet(parts[i]) \subseteq chosen
  <2>1. ASSUME NEW i \in 1 .. Len(units)
        PROVE  parts[i] \in Seq(X) /\ ToSet(parts[i]) \subseteq chosen
    <3>1. units[i] \in X /\ parts[i] = When(units[i] \in chosen, units[i])
      OBVIOUS
    <3>2. \/ units[i] \in chosen /\ parts[i] = <<units[i]>>
          \/ parts[i] = <<>>
      BY <3>1 DEF When
    <3> DEFINE unit == units[i]
               part == parts[i]
    <3>3. /\ unit \in X /\ ((part = <<unit>> /\ unit \in chosen) \/ part = <<>>)
      BY <3>1, <3>2
    <3> HIDE DEF unit, part
    <3>4. CASE part = <<unit>> /\ unit \in chosen
      <4>1. <<unit>> \in Seq(X) /\ ToSet(<<unit>>) = {unit}
        BY <3>3 DEF ToSet
      <4>2. QED
        BY <3>4, <4>1 DEF part
    <3>5. CASE part = <<>>
      <4>1. <<>> \in Seq(X) /\ ToSet(<<>>) = {}
        BY DEF ToSet
      <4>2. QED
        BY <3>5, <4>1 DEF part
    <3>6. QED
      BY <3>3, <3>4, <3>5
  <2>2. QED
    BY <2>1
<1>2. parts \in Seq(Seq(X)) /\ Len(parts) = Len(units)
  BY <1>1
<1>3. Filter(units, chosen) = FlattenSeq(parts)
  BY DEF Filter
<1> HIDE DEF parts
<1>4. QED
  BY <1>1, <1>2, <1>3, Flattened

-----------------------------------------------------------------------------
(* What a unit writes                                                      *)

ClassOutput(unit, cs, c) ==
    Output(File(unit, Stem(cs, c), ContractExtension(unit).class), c, TRUE)
CasmOutput(unit, cs, c) ==
    Output(File(unit, Stem(cs, c), ContractExtension(unit).casm), c, TRUE)
ListOutput(unit) ==
    Output(File(unit, <<>>, ContractExtension(unit).list), <<"list">>, FALSE)

ContractSet(unit, cs) ==
    {ClassOutput(unit, cs, c) : c \in cs} \cup {CasmOutput(unit, cs, c) : c \in cs}
        \cup {ListOutput(unit)}

LEMMA ContractsWritten ==
  ASSUME NEW unit, NEW cs, cs \subseteq Contracts,
         NEW sierra \in BOOLEAN, NEW casm \in BOOLEAN
  PROVE  LET all == ContractOutputs(unit, cs, sierra, casm)
         IN  /\ all \in Seq(ContractSet(unit, cs))
             /\ ToSet(all) \subseteq ContractSet(unit, cs)
             /\ sierra => \A c \in cs : ClassOutput(unit, cs, c) \in ToSet(all)
             /\ casm => \A c \in cs : CasmOutput(unit, cs, c) \in ToSet(all)
<1> DEFINE all == ContractOutputs(unit, cs, sierra, casm)
           X == ContractSet(unit, cs)
           n == Cardinality(cs)
           nth(i) == SetToSeq(cs)[i]
           part(c) == When(sierra, ClassOutput(unit, cs, c))
                          \o When(casm, CasmOutput(unit, cs, c))
           parts == [i \in 1 .. n |-> part(nth(i))]
<1>1. IsFiniteSet(cs) /\ n \in Nat
  BY ArtifactsAssumption, FS_Subset, FS_CardinalityType
<1>2. SetToSeq(cs) \in [1 .. n -> cs] /\ \A c \in cs : \E i \in 1 .. n : nth(i) = c
  BY <1>1, Listed
<1>3. all = FlattenSeq(parts) \o <<ListOutput(unit)>>
  BY DEF ContractOutputs, ClassOutput, CasmOutput, ListOutput
<1>4. ASSUME NEW c \in cs
      PROVE  /\ part(c) \in Seq(X)
             /\ sierra => ClassOutput(unit, cs, c) \in ToSet(part(c))
             /\ casm => CasmOutput(unit, cs, c) \in ToSet(part(c))
  <2>1. ClassOutput(unit, cs, c) \in X /\ CasmOutput(unit, cs, c) \in X
    BY DEF ContractSet
  <2> DEFINE s == When(sierra, ClassOutput(unit, cs, c))
             t == When(casm, CasmOutput(unit, cs, c))
  <2>2. /\ s \in Seq(X) /\ t \in Seq(X)
        /\ sierra => ClassOutput(unit, cs, c) \in ToSet(s)
        /\ casm => CasmOutput(unit, cs, c) \in ToSet(t)
    BY <2>1, WhenElements
  <2> HIDE DEF s, t, X
  <2>3. s \o t \in Seq(X) /\ ToSet(s \o t) = ToSet(s) \cup ToSet(t)
    BY <2>2, ElementsOfConcat
  <2>4. part(c) = s \o t
    BY DEF s, t
  <2>5. QED
    BY <2>2, <2>3, <2>4
<1>5. parts \in Seq(Seq(X)) /\ Len(parts) = n
  <2> HIDE DEF part, X
  <2>1. \A i \in 1 .. n : part(nth(i)) \in Seq(X)
    BY <1>2, <1>4
  <2>2. QED
    BY <1>1, <2>1
<1>6. /\ FlattenSeq(parts) \in Seq(X)
      /\ \A c \in cs : ToSet(part(c)) \subseteq ToSet(FlattenSeq(parts))
  <2> HIDE DEF part, X
  <2>1. /\ FlattenSeq(parts) \in Seq(X)
        /\ ToSet(FlattenSeq(parts)) = UNION {ToSet(parts[i]) : i \in 1 .. Len(parts)}
    <3> HIDE DEF parts
    <3>1. QED
      BY <1>5, Flattened
  <2>2. ASSUME NEW c \in cs PROVE ToSet(part(c)) \subseteq ToSet(FlattenSeq(parts))
    <3>1. PICK i \in 1 .. n : nth(i) = c
      BY <1>2
    <3>2. i \in 1 .. Len(parts) /\ parts[i] = part(c)
      BY <1>5, <3>1
    <3>3. QED
      BY <2>1, <3>2
  <2>3. QED
    BY <2>1, <2>2
<1> DEFINE last == <<ListOutput(unit)>>
           flat == FlattenSeq(parts)
<1>7. last \in Seq(X)
  <2>1. ListOutput(unit) \in X
    BY DEF ContractSet
  <2>2. QED
    BY <2>1
<1>8. all \in Seq(X) /\ ToSet(all) = ToSet(flat) \cup ToSet(last)
  <2>1. all = flat \o last
    BY <1>3
  <2> HIDE DEF all, last, flat, X, parts
  <2>2. flat \in Seq(X)
    BY <1>6 DEF flat
  <2>3. QED
    BY <1>7, <2>1, <2>2, ElementsOfConcat
<1>9. ToSet(all) \subseteq X
  <2> HIDE DEF all, X
  <2>1. QED
    BY <1>8 DEF ToSet
<1> HIDE DEF X, parts, part, last
<1>10. QED
  BY <1>4, <1>6, <1>8, <1>9 DEF X

(* What a unit may write.                                                  *)
OutputSet(unit) ==
    CASE unit.kind = "lib" ->
            {Output(File(unit, <<>>, "sierra.json"), <<"program">>, TRUE),
             Output(File(unit, <<>>, "sierra"), <<"program">>, TRUE),
             Output(File(unit, <<>>, "casm"), <<"program">>, FALSE)}
      [] unit.kind = "executable" ->
            {Output(File(unit, <<>>, "executable.json"), <<"program">>, FALSE)}
      [] unit.kind = "starknet-contract" -> ContractSet(unit, ProjectContracts(unit))
      [] unit.kind = "test" ->
            {Output(File(unit, <<>>, "test.sierra.json"), <<"program">>, TRUE),
             Output(File(unit, <<>>, "test.json"), <<"metadata">>, FALSE)}
                \cup ContractSet(unit, ProjectContracts(unit))

ExtensionsOf(kind) ==
    CASE kind = "lib" -> {"sierra.json", "sierra", "casm"}
      [] kind = "executable" -> {"executable.json"}
      [] kind = "starknet-contract" ->
            {"contract_class.json", "compiled_contract_class.json",
             "starknet_artifacts.json"}
      [] kind = "test" ->
            {"test.sierra.json", "test.json", "test.contract_class.json",
             "test.compiled_contract_class.json", "test.starknet_artifacts.json"}

CairoKinds == {"lib", "executable", "starknet-contract", "test"}

LEMMA ProjectContractsAreContracts ==
  ASSUME NEW unit
  PROVE  ProjectContracts(unit) \subseteq Contracts
BY DEF ProjectContracts, FindContracts, ExternalContracts

(* Where the files of a unit's contracts are.                              *)
LEMMA ContractFiles ==
  ASSUME NEW unit, NEW cs, NEW x \in ContractSet(unit, cs)
  PROVE  /\ x.file.target = unit.target
         /\ x.file.ext \in {ContractExtension(unit).class, ContractExtension(unit).casm,
                            ContractExtension(unit).list}
<1> DEFINE ext == ContractExtension(unit)
<1>1. \/ \E c \in cs : x = ClassOutput(unit, cs, c)
      \/ \E c \in cs : x = CasmOutput(unit, cs, c)
      \/ x = ListOutput(unit)
  BY DEF ContractSet
<1>2. \A c \in cs : /\ ClassOutput(unit, cs, c).file.target = unit.target
                    /\ ClassOutput(unit, cs, c).file.ext = ext.class
  BY DEF ClassOutput, Output, File
<1>3. \A c \in cs : /\ CasmOutput(unit, cs, c).file.target = unit.target
                    /\ CasmOutput(unit, cs, c).file.ext = ext.casm
  BY DEF CasmOutput, Output, File
<1>4. ListOutput(unit).file.target = unit.target /\ ListOutput(unit).file.ext = ext.list
  BY DEF ListOutput, Output, File
<1> HIDE DEF ext
<1>5. QED
  BY <1>1, <1>2, <1>3, <1>4 DEF ext

LEMMA SeqOfMore ==
  ASSUME NEW X, NEW Y, X \subseteq Y, NEW s \in Seq(X)
  PROVE  s \in Seq(Y)
OBVIOUS

(* What a unit writes is what it may write.                                *)
LEMMA OutputsListed ==
  ASSUME NEW unit, unit.kind \in CairoKinds
  PROVE  Outputs(unit) \in Seq(OutputSet(unit))
<1> DEFINE X == OutputSet(unit)
           contracts == ContractSet(unit, ProjectContracts(unit))
<1>1. ASSUME NEW s, NEW t, s \in Seq(X), t \in Seq(X) PROVE s \o t \in Seq(X)
  <2> HIDE DEF X
  <2>1. QED
    BY <1>1, ElementsOfConcat
<1>2. ASSUME NEW sierra \in BOOLEAN, NEW casm \in BOOLEAN, contracts \subseteq X
      PROVE  ContractOutputs(unit, ProjectContracts(unit), sierra, casm) \in Seq(X)
  <2> DEFINE all == ContractOutputs(unit, ProjectContracts(unit), sierra, casm)
  <2>1. all \in Seq(contracts)
    BY ContractsWritten, ProjectContractsAreContracts
  <2>2. contracts \subseteq X
    BY <1>2
  <2> HIDE DEF all, X, contracts
  <2>3. all \in Seq(X)
    BY <2>1, <2>2, SeqOfMore
  <2>4. QED
    BY <2>3 DEF all
<1>3. CASE unit.kind = "lib"
  <2> DEFINE sierra == Output(File(unit, <<>>, "sierra.json"), <<"program">>, TRUE)
             text == Output(File(unit, <<>>, "sierra"), <<"program">>, TRUE)
             casm == Output(File(unit, <<>>, "casm"), <<"program">>, FALSE)
             a == When("sierra" \in unit.props, sierra)
             b == When("sierra-text" \in unit.props, text)
             c == When("casm" \in unit.props, casm)
  <2>1. Outputs(unit) = (a \o b) \o c
    BY <1>3 DEF Outputs, LibOutputs
  <2>2. sierra \in X /\ text \in X /\ casm \in X
    BY <1>3 DEF OutputSet
  <2> HIDE DEF sierra, text, casm, X
  <2>3. a \in Seq(X) /\ b \in Seq(X) /\ c \in Seq(X)
    <3>1. /\ a = <<sierra>> \/ a = <<>>
          /\ b = <<text>> \/ b = <<>>
          /\ c = <<casm>> \/ c = <<>>
      BY DEF When
    <3>2. {<<sierra>>, <<text>>, <<casm>>, <<>>} \subseteq Seq(X)
      BY <2>2
    <3> HIDE DEF a, b, c
    <3>3. QED
      BY <3>1, <3>2
  <2> HIDE DEF a, b, c
  <2>4. a \o b \in Seq(X)
    BY <1>1, <2>3
  <2>5. (a \o b) \o c \in Seq(X)
    BY <1>1, <2>3, <2>4
  <2>6. QED
    BY <2>1, <2>5 DEF X
<1>4. CASE unit.kind = "executable"
  <2> DEFINE out == Output(File(unit, <<>>, "executable.json"), <<"program">>, FALSE)
  <2>1. Outputs(unit) = <<out>> /\ out \in X
    BY <1>4 DEF Outputs, ExecutableOutputs, OutputSet
  <2> HIDE DEF out, X
  <2>2. QED
    BY <2>1 DEF X
<1>5. CASE unit.kind = "starknet-contract"
  <2>1. Outputs(unit) = ContractOutputs(unit, ProjectContracts(unit),
                                        "sierra" \in unit.props, "casm" \in unit.props)
    BY <1>5 DEF Outputs, StarknetOutputs
  <2>2. contracts \subseteq X
    BY <1>5 DEF OutputSet
  <2> DEFINE sierra == "sierra" \in unit.props
             casm == "casm" \in unit.props
  <2>3. sierra \in BOOLEAN /\ casm \in BOOLEAN
    OBVIOUS
  <2> HIDE DEF X, contracts, sierra, casm
  <2>4. ContractOutputs(unit, ProjectContracts(unit), sierra, casm) \in Seq(X)
    BY <1>2, <2>2, <2>3
  <2>5. QED
    BY <2>1, <2>4 DEF X, sierra, casm
<1>6. CASE unit.kind = "test"
  <2> DEFINE sierra == Output(File(unit, <<>>, "test.sierra.json"), <<"program">>, TRUE)
             json == Output(File(unit, <<>>, "test.json"), <<"metadata">>, FALSE)
             first == <<sierra, json>>
             all == ContractOutputs(unit, ProjectContracts(unit), TRUE, FALSE)
             rest == IF unit.starknet THEN all ELSE <<>>
  <2>1. Outputs(unit) = first \o rest
    BY <1>6 DEF Outputs, TestOutputs
  <2>2. sierra \in X /\ json \in X /\ contracts \subseteq X
    BY <1>6 DEF OutputSet
  <2> HIDE DEF sierra, json, X, contracts
  <2>3. first \in Seq(X)
    BY <2>2
  <2>4. all \in Seq(X) /\ <<>> \in Seq(X)
    <3> DEFINE yes == TRUE
               no == FALSE
    <3>1. yes \in BOOLEAN /\ no \in BOOLEAN
      OBVIOUS
    <3>2. all = ContractOutputs(unit, ProjectContracts(unit), yes, no)
      OBVIOUS
    <3> HIDE DEF all, yes, no
    <3>3. QED
      BY <1>2, <2>2, <3>1, <3>2
  <2> HIDE DEF all, first
  <2>5. rest \in Seq(X)
    BY <2>4
  <2> HIDE DEF rest
  <2>6. first \o rest \in Seq(X)
    BY <1>1, <2>3, <2>5
  <2>7. QED
    BY <2>1, <2>6 DEF X
<1>7. QED
  BY <1>3, <1>4, <1>5, <1>6 DEF CairoKinds

(* A starknet unit writes a class of each of its contracts.                *)
LEMMA ClassesWritten ==
  ASSUME NEW unit, unit.kind = "starknet-contract",
         "sierra" \in unit.props \/ "casm" \in unit.props
  PROVE  ProjectContracts(unit) \subseteq {out.what : out \in ToSet(Outputs(unit))}
<1> DEFINE cs == ProjectContracts(unit)
           sierra == "sierra" \in unit.props
           casm == "casm" \in unit.props
           all == ContractOutputs(unit, cs, sierra, casm)
<1>1. Outputs(unit) = all
  BY DEF Outputs, StarknetOutputs
<1>2. cs \subseteq Contracts
  BY ProjectContractsAreContracts
<1>3. /\ sierra => \A c \in cs : ClassOutput(unit, cs, c) \in ToSet(all)
      /\ casm => \A c \in cs : CasmOutput(unit, cs, c) \in ToSet(all)
  <2>1. sierra \in BOOLEAN /\ casm \in BOOLEAN
    OBVIOUS
  <2> HIDE DEF sierra, casm, cs
  <2>2. QED
    BY <1>2, <2>1, ContractsWritten
<1>4. \A c \in cs : ClassOutput(unit, cs, c).what = c /\ CasmOutput(unit, cs, c).what = c
  BY DEF ClassOutput, CasmOutput, Output
<1> HIDE DEF all
<1>5. QED
  BY <1>1, <1>3, <1>4

(* The names of a unit's files tell its target and its kind.               *)
LEMMA FilesOfUnit ==
  ASSUME NEW unit, unit.kind \in CairoKinds, NEW x \in OutputSet(unit)
  PROVE  x.file.target = unit.target /\ x.file.ext \in ExtensionsOf(unit.kind)
<1> DEFINE cs == ProjectContracts(unit)
           contracts == ContractSet(unit, cs)
<1>1. \A z \in contracts :
         /\ z.file.target = unit.target
         /\ z.file.ext \in {ContractExtension(unit).class, ContractExtension(unit).casm,
                            ContractExtension(unit).list}
  BY ContractFiles
<1>2. CASE unit.kind = "lib"
  <2> DEFINE sierra == Output(File(unit, <<>>, "sierra.json"), <<"program">>, TRUE)
             text == Output(File(unit, <<>>, "sierra"), <<"program">>, TRUE)
             casm == Output(File(unit, <<>>, "casm"), <<"program">>, FALSE)
  <2>1. /\ OutputSet(unit) = {sierra, text, casm}
        /\ ExtensionsOf(unit.kind) = {"sierra.json", "sierra", "casm"}
    BY <1>2 DEF OutputSet, ExtensionsOf
  <2>2. /\ sierra.file.target = unit.target /\ sierra.file.ext = "sierra.json"
        /\ text.file.target = unit.target /\ text.file.ext = "sierra"
        /\ casm.file.target = unit.target /\ casm.file.ext = "casm"
    BY DEF Output, File
  <2> HIDE DEF sierra, text, casm
  <2>3. QED
    BY <2>1, <2>2
<1>3. CASE unit.kind = "executable"
  <2> DEFINE out == Output(File(unit, <<>>, "executable.json"), <<"program">>, FALSE)
  <2>1. OutputSet(unit) = {out} /\ ExtensionsOf(unit.kind) = {"executable.json"}
    BY <1>3 DEF OutputSet, ExtensionsOf
  <2>2. out.file.target = unit.target /\ out.file.ext = "executable.json"
    BY DEF Output, File
  <2> HIDE DEF out
  <2>3. QED
    BY <2>1, <2>2
<1>4. CASE unit.kind = "starknet-contract"
  <2>1. /\ OutputSet(unit) = contracts
        /\ {ContractExtension(unit).class, ContractExtension(unit).casm,
            ContractExtension(unit).list} = ExtensionsOf(unit.kind)
    BY <1>4 DEF OutputSet, ContractExtension, ExtensionsOf
  <2> HIDE DEF contracts
  <2>2. QED
    BY <1>1, <2>1
<1>5. CASE unit.kind = "test"
  <2> DEFINE sierra == Output(File(unit, <<>>, "test.sierra.json"), <<"program">>, TRUE)
             json == Output(File(unit, <<>>, "test.json"), <<"metadata">>, FALSE)
  <2>1. /\ OutputSet(unit) = {sierra, json} \cup contracts
        /\ ExtensionsOf(unit.kind) =
              {"test.sierra.json", "test.json"}
                \cup {ContractExtension(unit).class, ContractExtension(unit).casm,
                      ContractExtension(unit).list}
    BY <1>5 DEF OutputSet, ContractExtension, ExtensionsOf
  <2>2. /\ sierra.file.target = unit.target /\ sierra.file.ext = "test.sierra.json"
        /\ json.file.target = unit.target /\ json.file.ext = "test.json"
    BY DEF Output, File
  <2> HIDE DEF sierra, json, contracts
  <2>3. x \in {sierra, json} \/ x \in contracts
    BY <2>1
  <2>4. QED
    BY <1>1, <2>1, <2>2, <2>3
<1>6. QED
  BY <1>2, <1>3, <1>4, <1>5 DEF CairoKinds

CairoUnits(s) == {u \in ToSet(Units[s]) : Cairo(u)}

(* An output that shares its file with none of its unit does with none.    *)
LEMMA FilesApart ==
  ASSUME NEW s \in Scenes,
         NEW u \in CairoUnits(s), NEW v \in CairoUnits(s),
         NEW x \in Unshared(ToSet(Outputs(u))), NEW y \in ToSet(Outputs(v)),
         x.file = y.file
  PROVE  x = y
<1>1. u.kind \in CairoKinds /\ v.kind \in CairoKinds
  BY CommandsAssumption DEF CommandsAssumption, CairoUnits, Cairo, CairoKinds
<1>2. Outputs(u) \in Seq(OutputSet(u)) /\ Outputs(v) \in Seq(OutputSet(v))
  BY <1>1, OutputsListed
<1>3. x \in OutputSet(u) /\ y \in OutputSet(v)
  <2> DEFINE X == OutputSet(u)
             Y == OutputSet(v)
             outsU == Outputs(u)
             outsV == Outputs(v)
  <2> HIDE DEF X, Y, outsU, outsV
  <2>1. outsU \in Seq(X) /\ outsV \in Seq(Y)
    BY <1>2 DEF X, Y, outsU, outsV
  <2>2. x \in ToSet(outsU) /\ y \in ToSet(outsV)
    BY DEF outsU, outsV, Unshared
  <2>3. x \in X /\ y \in Y
    BY <2>1, <2>2 DEF ToSet
  <2>4. QED
    BY <2>3 DEF X, Y
<1>4. x.file.target = u.target /\ x.file.ext \in ExtensionsOf(u.kind)
  BY <1>1, <1>3, FilesOfUnit
<1>5. y.file.target = v.target /\ y.file.ext \in ExtensionsOf(v.kind)
  BY <1>1, <1>3, FilesOfUnit
<1>6. \A k, l \in CairoKinds : ExtensionsOf(k) \cap ExtensionsOf(l) # {} => k = l
  BY DEF CairoKinds, ExtensionsOf
<1>7. u.kind = v.kind
  BY <1>1, <1>4, <1>5, <1>6
<1>8. u = v
  BY <1>4, <1>5, <1>7, CommandsAssumption DEF CommandsAssumption, CairoUnits, Cairo
<1>9. QED
  BY <1>8 DEF Unshared

(* An output is a file, which Nobody is not.                               *)
LEMMA OutputsAreFiles ==
  ASSUME NEW s \in Scenes, NEW u \in CairoUnits(s)
  PROVE  /\ Outputs(u) \in Seq(ToSet(Outputs(u)))
         /\ \A x \in ToSet(Outputs(u)) : x.file # Nobody.file
<1>1. u.kind \in CairoKinds
  BY CommandsAssumption DEF CommandsAssumption, CairoUnits, Cairo, CairoKinds
<1> DEFINE X == OutputSet(u)
           all == Outputs(u)
<1>2. all \in Seq(X)
  BY <1>1, OutputsListed
<1>3. \A x \in X : x.file.ext \in ExtensionsOf(u.kind)
  BY <1>1, FilesOfUnit
<1>4. Nobody.file.ext = "none" /\ "none" \notin ExtensionsOf(u.kind)
  BY <1>1 DEF Nobody, ExtensionsOf, CairoKinds
<1> HIDE DEF X, all
<1>5. ToSet(all) \subseteq X /\ all \in Seq(ToSet(all))
  BY <1>2 DEF ToSet
<1>6. QED
  BY <1>3, <1>4, <1>5 DEF all

-----------------------------------------------------------------------------
(* The command around the compilation                                      *)

CommandShapes ==
    /\ scene \in Scenes
    /\ DOMAIN step = Build /\ DOMAIN plan = Build /\ DOMAIN outs = Build
    /\ DOMAIN held = Build /\ DOMAIN queue = Build /\ DOMAIN writer = Build
    /\ DOMAIN open = Build /\ DOMAIN program = Build /\ DOMAIN clean = Build
    /\ \A b \in Build : DOMAIN open[b] = Thread
    /\ \A b \in Build : clean[b] \in BOOLEAN

AtWork(b) == step[b] \notin {"off", "next"}

(* A command that is compiling or writing a unit has one; its threads have *)
(* only outputs of that unit; nothing is saved before all is produced; and *)
(* beside the compiler nothing is compiled.                                *)
UnitInv(b) ==
    /\ plan[b] \in Seq(ToSet(Units[scene]))
    /\ AtWork(b) => plan[b] # <<>> /\ Cairo(Unit(b))
    /\ AtWork(b) => /\ queue[b] \in Seq(ToSet(Outputs(Unit(b))))
                    /\ \A t \in Thread :
                          open[b][t] \in ToSet(Outputs(Unit(b))) \cup {Nobody}
    /\ ~AtWork(b) => queue[b] = <<>> /\ \A t \in Thread : open[b][t] = Nobody
    /\ scene = "unit" => step[b] = "off"
    /\ scene # "unit" /\ step[b] # "compiler" => pc[b] = "off"
    /\ outs[b] # <<>> =>
          /\ step[b] = "compiler" /\ pc[b] = "saving"
          /\ \A c \in Component : stage[b][c] = "check"
          /\ outs[b] \in Seq(ToSet(Outputs(Unit(b))))
    /\ open[b]["compiler"] # Nobody =>
          /\ outs[b] # <<>> /\ open[b]["compiler"] = Head(outs[b])
          /\ ~Head(outs[b]).offload
    /\ writer[b] = "failed" => queue[b] = <<>>

Kept(b) ==
    /\ step'[b] = step[b] /\ plan'[b] = plan[b] /\ outs'[b] = outs[b]
    /\ held'[b] = held[b] /\ queue'[b] = queue[b] /\ writer'[b] = writer[b]
    /\ open'[b] = open[b] /\ program'[b] = program[b]
    /\ pc'[b] = pc[b] /\ stage'[b] = stage[b]

LEMMA KeptUnit ==
  ASSUME NEW b \in Build, UnitInv(b), Kept(b), scene' = scene
  PROVE  UnitInv(b)'
BY DEF UnitInv, Kept, AtWork, Unit

(* What a command's step does to a build is done to its own.               *)
Local(b) ==
    /\ scene' = scene /\ CommandShapes'
    /\ \A o \in Build \ {b} : Kept(o)

LEMMA SavingIsLocal ==
  ASSUME TypeOK, NEW b \in Build, NEW c \in Component,
         \/ Load(b, c) \/ FindFresh(b, c) \/ FindStale(b, c) \/ OpenDigest(b, c)
         \/ WriteDigest(b, c) \/ OpenCache(b, c) \/ WriteCache(b, c) \/ CutSave(b, c)
  PROVE  /\ pc' = pc
         /\ \A o \in Build \ {b} : stage'[o] = stage[o]
BY DEF Load, FindFresh, FindStale, OpenDigest, WriteDigest, OpenCache, WriteCache,
       CutSave, Go, End, TypeOK

LEMMA BuildIsLocal ==
  ASSUME TypeOK, NEW b \in Build, Hash(b) \/ Compile(b) \/ Leave(b)
  PROVE  \A o \in Build \ {b} : pc'[o] = pc[o] /\ stage'[o] = stage[o]
BY DEF Hash, Compile, Leave, TypeOK

LEMMA StepsAreLocal ==
  ASSUME TypeOK, CommandShapes, NEW b \in Build, CommandStep(b)
  PROVE  Local(b)
<1> USE DEF Local, CommandShapes, Kept, Untouched, driver, vars
<1>1. ASSUME NEW command \in Commands[scene], StartCommand(b, command) PROVE Local(b)
  BY <1>1 DEF StartCommand, Move
<1>2. CASE Succeed(b)
  BY <1>2 DEF Succeed, EndCommand, Move
<1>3. CASE SkipMacro(b) \/ CompileMacro(b)
  BY <1>3 DEF SkipMacro, CompileMacro, NextUnit
<1>4. CASE MacroFails(b) \/ CheckFails(b)
  BY <1>4 DEF MacroFails, CheckFails, OtherThanFaults, EndCommand, Move
<1>5. CASE LoadDatabase(b)
  BY <1>5 DEF LoadDatabase, EndCommand, NextUnit, Move
<1>6. CASE LoadUnit(b)
  BY <1>6, SavingIsLocal, BuildIsLocal DEF LoadUnit
<1>7. CASE CompileUnit(b)
  BY <1>7, BuildIsLocal DEF CompileUnit
<1>8. CASE CompileFails(b)
  BY <1>8, BuildIsLocal DEF CompileFails, Stop, Move
<1>9. CASE Offload(b)
  <2>1. CASE writer[b] = "running"
    BY <1>9, <2>1 DEF Offload
  <2>2. CASE writer[b] # "running"
    BY <1>9, <2>2, BuildIsLocal DEF Offload, Move
  <2>3. QED
    BY <2>1, <2>2
<1>10. CASE OpenDirect(b) \/ OpenOffloaded(b)
  BY <1>10 DEF OpenDirect, OpenOffloaded, Truncate
<1>11. CASE WriteDirect(b) \/ WriteOffloaded(b)
  BY <1>11 DEF WriteDirect, WriteOffloaded, Write
<1>12. CASE LoseDirect(b) \/ LoseOffloaded(b) \/ OffloadedFails(b)
  BY <1>12 DEF LoseDirect, LoseOffloaded, OffloadedFails, Garble, OtherThanFaults
<1>13. CASE DirectFails(b)
  BY <1>13, BuildIsLocal DEF DirectFails, Move
<1>14. CASE SaveUnit(b)
  BY <1>14, SavingIsLocal DEF SaveUnit
<1>15. CASE CutSaveOfUnit(b)
  BY <1>15, SavingIsLocal DEF CutSaveOfUnit
<1>16. CASE FinishUnit(b)
  BY <1>16, BuildIsLocal DEF FinishUnit, Finish, Move
<1>17. CASE PostProcess(b) \/ PostProcessFails(b)
  BY <1>17 DEF PostProcess, PostProcessFails, Move, OtherThanFaults
<1>18. CASE Unwind(b)
  BY <1>18 DEF Unwind, EndCommand, Move
<1>19. CASE Join(b)
  BY <1>19 DEF Join, EndCommand, NextUnit, Move
<1>20. CASE Kill(b)
  <2>1. \A o \in Build \ {b} : pc'[o] = pc[o] /\ stage'[o] = stage[o]
    BY <1>20, BuildIsLocal DEF Kill, Stop, OtherThanFaults
  <2>2. QED
    BY <1>20, <2>1 DEF Kill, EndCommand, Move
<1>21. QED
  BY <1>1, <1>2, <1>3, <1>4, <1>5, <1>6, <1>7, <1>8, <1>9, <1>10, <1>11, <1>12,
     <1>13, <1>14, <1>15, <1>16, <1>17, <1>18, <1>19, <1>20 DEF CommandStep

LEMMA SelectedUnits ==
  ASSUME CommandShapes, NEW command
  PROVE  Selected(command) \in Seq(ToSet(Units[scene]))
<1> DEFINE X == ToSet(Units[scene])
           wanted == {u \in X : Wanted(command, u)}
           macros == Filter(Units[scene], {u \in wanted : ~Cairo(u)})
           others == Filter(Units[scene], {u \in wanted : Cairo(u)})
<1>1. Units[scene] \in Seq(X)
  BY CommandsAssumption DEF CommandsAssumption, CommandShapes
<1>2. macros \in Seq(X) /\ others \in Seq(X)
  <2> HIDE DEF X, wanted
  <2>1. QED
    BY <1>1, Filtered
<1>3. Selected(command) = macros \o others
  BY DEF Selected
<1> HIDE DEF macros, others, X
<1>4. QED
  BY <1>2, <1>3, ElementsOfConcat DEF X

LEMMA PresentUnit ==
  ASSUME CommandShapes, NEW b \in Build, UnitInv(b), plan[b] # <<>>
  PROVE  /\ Unit(b) \in ToSet(Units[scene])
         /\ Tail(plan[b]) \in Seq(ToSet(Units[scene]))
         /\ Cairo(Unit(b)) => Unit(b) \in CairoUnits(scene)
<1> DEFINE X == ToSet(Units[scene])
<1>1. plan[b] \in Seq(X)
  BY DEF UnitInv
<1> HIDE DEF X
<1>2. Head(plan[b]) \in X /\ Tail(plan[b]) \in Seq(X)
  BY <1>1
<1>3. QED
  BY <1>2 DEF Unit, CairoUnits, X

(* What a command does to its own unit.                                    *)
LEMMA OwnUnit ==
  ASSUME TypeOK, CommandShapes, NEW b \in Build, UnitInv(b), CommandStep(b),
         scene # "unit"
  PROVE  UnitInv(b)'
<1> USE DEF CommandShapes, AtWork, Untouched, driver, vars
<1>0. scene' = scene /\ CommandShapes'
  BY StepsAreLocal DEF Local
<1> DEFINE Ended == /\ step'[b] = "off" /\ plan'[b] = <<>> /\ outs'[b] = <<>>
                    /\ queue'[b] = <<>> /\ pc'[b] = "off"
                    /\ open'[b]["compiler"] = Nobody /\ open'[b]["offloader"] = Nobody
<1>1. ASSUME Ended PROVE UnitInv(b)'
  BY <1>0, <1>1 DEF UnitInv, Thread
<1>2. ASSUME NEW command \in Commands[scene], StartCommand(b, command)
      PROVE  UnitInv(b)'
  BY <1>0, <1>2, SelectedUnits DEF StartCommand, Move, UnitInv
<1>3. CASE Succeed(b)
  BY <1>1, <1>3 DEF Succeed, EndCommand, Move, UnitInv, Thread
<1>4. CASE SkipMacro(b) \/ CompileMacro(b)
  <2>1. /\ step[b] = "next" /\ plan[b] # <<>> /\ plan'[b] = Tail(plan[b])
        /\ UNCHANGED <<step, outs, queue, open, pc, stage, writer>>
    BY <1>4 DEF SkipMacro, CompileMacro, AtMacro, NextUnit
  <2>2. Tail(plan[b]) \in Seq(ToSet(Units[scene]))
    BY <2>1, PresentUnit
  <2>3. outs[b] = <<>>
    BY <2>1 DEF UnitInv
  <2>4. QED
    BY <1>0, <2>1, <2>2, <2>3 DEF UnitInv
<1>5. CASE MacroFails(b) \/ CheckFails(b)
  BY <1>1, <1>5 DEF MacroFails, CheckFails, OtherThanFaults, AtMacro, EndCommand, Move, UnitInv, Thread
<1>6. CASE LoadDatabase(b)
  <2>1. CASE ~(Libraries(b) \subseteq built)
    BY <1>1, <1>6, <2>1 DEF LoadDatabase, EndCommand, Move, UnitInv, Thread
  <2>2. CASE Libraries(b) \subseteq built /\ needed[b].op = "check"
    BY <1>0, <1>6, <2>2, PresentUnit DEF LoadDatabase, NextUnit, UnitInv
  <2>3. CASE Libraries(b) \subseteq built /\ needed[b].op # "check"
    BY <1>0, <1>6, <2>3, PresentUnit DEF LoadDatabase, Move, UnitInv, Unit
  <2>4. QED
    BY <2>1, <2>2, <2>3
<1>7. CASE LoadUnit(b)
  <2>1. outs[b] = <<>>
    BY <1>7 DEF LoadUnit, Hash, Load, At, UnitInv, TypeOK
  <2>2. step[b] = "compiler" /\ UNCHANGED driver
    BY <1>7 DEF LoadUnit
  <2>3. QED
    BY <1>0, <2>1, <2>2 DEF UnitInv, Unit
<1>8. CASE CompileUnit(b)
  <2>1. /\ step[b] = "compiler" /\ pc[b] = "loading"
        /\ pc'[b] = "saving" /\ \A c \in Component : stage'[b][c] = "check"
        /\ outs'[b] = Outputs(Unit(b))
        /\ UNCHANGED <<step, plan, queue, open, writer>>
    BY <1>8 DEF CompileUnit, Compile, TypeOK
  <2>2. outs[b] = <<>> /\ open[b]["compiler"] = Nobody
    BY <2>1 DEF UnitInv
  <2>3. Unit(b) \in CairoUnits(scene)
    BY <2>1, PresentUnit DEF UnitInv
  <2>4. Outputs(Unit(b)) \in Seq(ToSet(Outputs(Unit(b))))
    BY <2>3, OutputsAreFiles
  <2>5. QED
    BY <1>0, <2>1, <2>2, <2>4 DEF UnitInv, Unit
<1>9. CASE CompileFails(b)
  <2>1. /\ step[b] = "compiler" /\ pc[b] = "loading" /\ step'[b] = "post"
        /\ pc'[b] = "off" /\ UNCHANGED <<plan, outs, queue, open, writer>>
    BY <1>9 DEF CompileFails, Stop, Leave, Move, TypeOK
  <2>2. outs[b] = <<>> /\ open[b]["compiler"] = Nobody
    BY <2>1 DEF UnitInv
  <2>3. QED
    BY <1>0, <2>1, <2>2 DEF UnitInv, Unit
<1>10. CASE Offload(b)
  <2>1. /\ step[b] = "compiler" /\ outs[b] # <<>> /\ Head(outs[b]).offload
        /\ UNCHANGED <<plan, writer, open>>
    BY <1>10 DEF Offload, Writing
  <2>2. open[b]["compiler"] = Nobody
    BY <2>1 DEF UnitInv
  <2>3. CASE writer[b] = "running"
    <3> DEFINE X == ToSet(Outputs(Unit(b)))
    <3>1. /\ queue'[b] = Append(queue[b], Head(outs[b])) /\ outs'[b] = Tail(outs[b])
          /\ UNCHANGED <<pc, stage, step>>
      BY <1>10, <2>3 DEF Offload
    <3>2. queue[b] \in Seq(X) /\ outs[b] \in Seq(X)
      BY <2>1 DEF UnitInv
    <3> HIDE DEF X
    <3>3. queue'[b] \in Seq(X) /\ outs'[b] \in Seq(X)
      BY <2>1, <3>1, <3>2
    <3>4. QED
      BY <1>0, <2>1, <2>2, <2>3, <3>1, <3>3 DEF UnitInv, Unit, X
  <2>4. CASE writer[b] # "running"
    <3>1. /\ step'[b] = "unwinding" /\ outs'[b] = <<>> /\ pc'[b] = "off"
          /\ UNCHANGED queue
      BY <1>10, <2>4 DEF Offload, Leave, Move, TypeOK
    <3>2. QED
      BY <1>0, <2>1, <2>2, <3>1 DEF UnitInv, Unit
  <2>5. QED
    BY <2>3, <2>4
<1>11. CASE OpenDirect(b)
  <2>1. /\ step[b] = "compiler" /\ outs[b] # <<>> /\ ~Head(outs[b]).offload
        /\ open'[b]["compiler"] = Head(outs[b])
        /\ open'[b]["offloader"] = open[b]["offloader"]
        /\ UNCHANGED <<plan, writer, outs, queue, step, pc, stage>>
    BY <1>11 DEF OpenDirect, Writing, Truncate, Thread
  <2>2. Head(outs[b]) \in ToSet(Outputs(Unit(b)))
    BY <2>1 DEF UnitInv
  <2>3. QED
    BY <1>0, <2>1, <2>2 DEF UnitInv, Unit, Thread
<1>12. CASE OpenOffloaded(b)
  <2> DEFINE X == ToSet(Outputs(Unit(b)))
  <2>1. /\ queue[b] # <<>> /\ queue'[b] = Tail(queue[b])
        /\ open'[b]["offloader"] = Head(queue[b])
        /\ open'[b]["compiler"] = open[b]["compiler"]
        /\ UNCHANGED <<plan, writer, outs, step, pc, stage>>
    BY <1>12 DEF OpenOffloaded, Truncate, Thread
  <2>2. AtWork(b) /\ queue[b] \in Seq(X)
    BY <2>1 DEF UnitInv
  <2> HIDE DEF X
  <2>3. Head(queue[b]) \in X /\ queue'[b] \in Seq(X)
    BY <2>1, <2>2
  <2>4. writer[b] # "failed"
    BY <2>1 DEF UnitInv
  <2>5. QED
    BY <1>0, <2>1, <2>2, <2>3, <2>4 DEF UnitInv, Unit, Thread, X
<1>13. CASE WriteDirect(b) \/ LoseDirect(b)
  <2> DEFINE X == ToSet(Outputs(Unit(b)))
  <2>1. /\ open[b]["compiler"] # Nobody /\ outs'[b] = Tail(outs[b])
        /\ open'[b]["compiler"] = Nobody
        /\ open'[b]["offloader"] = open[b]["offloader"]
        /\ UNCHANGED <<plan, writer, queue, step, pc, stage>>
    BY <1>13 DEF WriteDirect, LoseDirect, Write, Garble, OtherThanFaults, Thread
  <2>2. outs[b] # <<>> /\ outs[b] \in Seq(X)
    BY <2>1 DEF UnitInv
  <2> HIDE DEF X
  <2>3. outs'[b] \in Seq(X)
    BY <2>1, <2>2
  <2>4. QED
    BY <1>0, <2>1, <2>2, <2>3 DEF UnitInv, Unit, Thread, X
<1>14. CASE WriteOffloaded(b) \/ LoseOffloaded(b) \/ OffloadedFails(b)
  <2>1. /\ open[b]["offloader"] # Nobody
        /\ open'[b]["compiler"] = open[b]["compiler"]
        /\ open'[b]["offloader"] = Nobody
        /\ UNCHANGED <<plan, outs, step, pc, stage>>
        /\ \/ queue' = queue /\ writer' = writer
           \/ queue'[b] = <<>> /\ writer'[b] = "failed"
    BY <1>14 DEF WriteOffloaded, LoseOffloaded, OffloadedFails, Write, Garble,
                 OtherThanFaults, Thread
  <2>2. AtWork(b)
    BY <2>1 DEF UnitInv, Thread
  <2>3. \/ queue' = queue /\ writer' = writer
        \/ queue'[b] = <<>> /\ <<>> \in Seq(ToSet(Outputs(Unit(b))))
    BY <2>1
  <2>4. CASE queue' = queue /\ writer' = writer
    BY <1>0, <2>1, <2>2, <2>4 DEF UnitInv, Unit, Thread
  <2>5. CASE queue'[b] = <<>> /\ <<>> \in Seq(ToSet(Outputs(Unit(b))))
    BY <1>0, <2>1, <2>2, <2>5 DEF UnitInv, Unit, Thread
  <2>6. QED
    BY <2>3, <2>4, <2>5
<1>15. CASE DirectFails(b)
  <2>1. /\ step[b] = "compiler" /\ step'[b] = "post" /\ outs'[b] = <<>>
        /\ pc'[b] = "off" /\ open'[b]["compiler"] = Nobody
        /\ open'[b]["offloader"] = open[b]["offloader"]
        /\ UNCHANGED <<plan, writer, queue>>
    BY <1>15 DEF DirectFails, Leave, Move, TypeOK, Thread
  <2>2. QED
    BY <1>0, <2>1 DEF UnitInv, Unit, Thread
<1>16. CASE SaveUnit(b) \/ CutSaveOfUnit(b)
  <2>1. /\ outs[b] = <<>> /\ step[b] = "compiler"
        /\ UNCHANGED <<plan, outs, step, queue, writer, open>>
    BY <1>16 DEF SaveUnit, CutSaveOfUnit
  <2>2. QED
    BY <1>0, <2>1 DEF UnitInv, Unit
<1>17. CASE FinishUnit(b)
  <2>1. /\ outs[b] = <<>> /\ step[b] = "compiler"
        /\ step'[b] \in {"unwinding", "post"} /\ pc'[b] = "off"
        /\ UNCHANGED <<plan, outs, queue, writer, open>>
    BY <1>17 DEF FinishUnit, Finish, Leave, Move, TypeOK
  <2>2. QED
    BY <1>0, <2>1 DEF UnitInv, Unit
<1>18. CASE PostProcess(b) \/ PostProcessFails(b)
  <2>1. /\ step[b] = "post" /\ step'[b] \in {"join", "unwinding"}
        /\ UNCHANGED <<plan, outs, queue, writer, open, pc>>
    BY <1>18 DEF PostProcess, PostProcessFails, Move, OtherThanFaults
  <2>2. QED
    BY <1>0, <2>1 DEF UnitInv, Unit
<1>19. ASSUME step[b] \in {"unwinding", "join"}, Drained(b)
       PROVE  /\ outs[b] = <<>> /\ queue[b] = <<>> /\ pc[b] = "off"
              /\ open[b]["compiler"] = Nobody /\ open[b]["offloader"] = Nobody
              /\ plan[b] # <<>>
  BY <1>19 DEF Drained, UnitInv
<1>20. CASE Unwind(b)
  BY <1>1, <1>19, <1>20 DEF Unwind, EndCommand, Move
<1>21. CASE Join(b)
  <2>1. CASE writer[b] = "failed" \/ held[b] = "error"
    BY <1>1, <1>19, <1>21, <2>1 DEF Join, EndCommand, Move
  <2>2. CASE ~(writer[b] = "failed" \/ held[b] = "error")
    <3>1. /\ step'[b] = "next" /\ plan'[b] = Tail(plan[b])
          /\ UNCHANGED <<outs, queue, open, pc, stage>> /\ writer'[b] = "off"
      BY <1>21, <2>2 DEF Join, NextUnit, Move
    <3>2. Tail(plan[b]) \in Seq(ToSet(Units[scene]))
      BY <1>19, <1>21, PresentUnit DEF Join
    <3>3. /\ outs[b] = <<>> /\ queue[b] = <<>> /\ pc[b] = "off"
          /\ open[b]["compiler"] = Nobody /\ open[b]["offloader"] = Nobody
      BY <1>19, <1>21 DEF Join
    <3>4. QED
      BY <1>0, <3>1, <3>2, <3>3 DEF UnitInv, Thread
  <2>3. QED
    BY <2>1, <2>2
<1>22. CASE Kill(b)
  <2>1. pc'[b] = "off"
    BY <1>22 DEF Kill, OtherThanFaults, Stop, Leave, TypeOK
  <2>2. QED
    BY <1>1, <1>22, <2>1 DEF Kill, EndCommand, Move, Thread
<1>23. QED
  BY <1>2, <1>3, <1>4, <1>5, <1>6, <1>7, <1>8, <1>9, <1>10, <1>11, <1>12,
     <1>13, <1>14, <1>15, <1>16, <1>17, <1>18, <1>20, <1>21, <1>22 DEF CommandStep

(* Where nothing but the count of faults changes.                          *)
LEMMA FaultsKeep ==
  ASSUME IInv, UNCHANGED OtherThanFaults, faults' \in 0 .. MaxFaults
  PROVE  IInv'
<1>1. UNCHANGED <<source, digest, cache, lock, pc, stage, hashed, compiled, started,
                  edits, disturbed, spoiled>>
  BY DEF OtherThanFaults
<1>2. TypeOK'
  BY <1>1 DEF IInv, TypeOK
<1>3. /\ Phases' /\ DigestOfTheSave' /\ RewritingDisturbs' /\ InputIsPresent'
      /\ OutputIsHashed' /\ DigestStandsForCache'
  BY <1>1 DEF IInv, Phases, DigestOfTheSave, RewritingDisturbs, InputIsPresent,
              OutputIsHashed, DigestStandsForCache
<1>4. QED
  BY <1>2, <1>3 DEF IInv

(* A build that ends before it has saved anything.                         *)
LEMMA LeavingKeeps ==
  ASSUME IInv, NEW b \in Build, Leave(b), UNCHANGED <<lock, spoiled>>,
         disturbed' = disturbed \ {b}, faults' \in 0 .. MaxFaults,
         \A c \in Component : stage[b][c] = "check"
  PROVE  IInv'
<1> USE DEF IInv
<1>1. /\ pc' = [pc EXCEPT ![b] = "off"]
      /\ stage' = [stage EXCEPT ![b] = [c \in Component |-> "idle"]]
      /\ hashed' = [hashed EXCEPT ![b] = Blank]
      /\ compiled' = [compiled EXCEPT ![b] = Blank]
      /\ UNCHANGED <<source, digest, cache, started, edits>>
  BY DEF Leave
<1>2. /\ \A o \in Build \ {b} : /\ pc'[o] = pc[o] /\ stage'[o] = stage[o]
                                /\ hashed'[o] = hashed[o] /\ compiled'[o] = compiled[o]
      /\ pc'[b] = "off" /\ \A c \in Component : stage'[b][c] = "idle"
  BY <1>1 DEF TypeOK
<1>3. \A c \in Component : lock[c] # b
  BY DEF TypeOK
<1>4. TypeOK'
  <2>1. Blank \in [Component -> Content]
    BY Contents
  <2>2. \A o \in Build, c \in Component :
           lock'[c] = o <=> stage'[o][c] \in {"marked", "writing"}
    BY <1>2, <1>3 DEF TypeOK
  <2>3. stage' \in [Build -> [Component -> Stage]]
    BY <1>1 DEF TypeOK, Stage
  <2>4. QED
    BY <1>1, <2>1, <2>2, <2>3 DEF TypeOK
<1>5. Phases'
  BY <1>2 DEF Phases, Saving
<1>6. DigestOfTheSave' /\ RewritingDisturbs'
  BY <1>1, <1>2 DEF DigestOfTheSave, RewritingDisturbs
<1>7. InputIsPresent'
  BY <1>1, <1>2 DEF InputIsPresent
<1>8. OutputIsHashed'
  BY <1>2 DEF OutputIsHashed, Saving
<1>9. DigestStandsForCache'
  BY <1>1 DEF DigestStandsForCache
<1>10. QED
  BY <1>4, <1>5, <1>6, <1>7, <1>8, <1>9

LEMMA FaultCounts ==
  ASSUME TypeOK, Fault
  PROVE  faults' \in 0 .. MaxFaults
BY ConstantsAssumption DEF TypeOK, Fault, ConstantsAssumption

(* A step of a command moves the compilation as its own steps do, counts a *)
(* fault, or ends it before anything is saved.                             *)
FaultOnly == UNCHANGED OtherThanFaults /\ Fault

EarlyEnd(b) ==
    /\ Leave(b) /\ UNCHANGED <<lock, spoiled>> /\ disturbed' = disturbed \ {b}
    /\ faults' = faults \/ Fault
    /\ \A c \in Component : stage[b][c] = "check"

LEMMA CommandMoves ==
  ASSUME CommandShapes, NEW b \in Build, UnitInv(b), CommandStep(b)
  PROVE  [Next]_vars \/ FaultOnly \/ EarlyEnd(b)
<1> USE DEF FaultOnly
<1>1. CASE \E command \in Commands[scene] : StartCommand(b, command)
  BY <1>1 DEF StartCommand
<1>2. CASE \/ Succeed(b) \/ SkipMacro(b) \/ CompileMacro(b) \/ LoadDatabase(b)
           \/ OpenDirect(b) \/ WriteDirect(b) \/ OpenOffloaded(b) \/ WriteOffloaded(b)
           \/ PostProcess(b) \/ Unwind(b) \/ Join(b)
  BY <1>2 DEF Succeed, SkipMacro, CompileMacro, LoadDatabase, OpenDirect,
       WriteDirect, OpenOffloaded, WriteOffloaded, PostProcess, Unwind, Join
<1>3. CASE \/ MacroFails(b) \/ CheckFails(b) \/ LoseDirect(b) \/ LoseOffloaded(b)
           \/ OffloadedFails(b) \/ PostProcessFails(b)
  BY <1>3 DEF MacroFails, CheckFails, LoseDirect, LoseOffloaded, OffloadedFails,
       PostProcessFails, Garble, OtherThanFaults
<1>4. CASE LoadUnit(b)
  BY <1>4 DEF LoadUnit, Next
<1>5. CASE CompileUnit(b)
  BY <1>5 DEF CompileUnit, Next
<1>6. CASE CompileFails(b)
  BY <1>6 DEF CompileFails, Next
<1>7. CASE SaveUnit(b)
  BY <1>7 DEF SaveUnit, Next
<1>8. CASE CutSaveOfUnit(b)
  BY <1>8 DEF CutSaveOfUnit, Next
<1>9. CASE FinishUnit(b)
  BY <1>9 DEF FinishUnit, Next
<1>10. CASE Offload(b)
  <2>1. \A c \in Component : stage[b][c] = "check"
    BY <1>10 DEF Offload, Writing, UnitInv
  <2>2. CASE writer[b] = "running"
    BY <1>10, <2>2 DEF Offload
  <2>3. CASE writer[b] # "running"
    <3>1. /\ Leave(b) /\ UNCHANGED <<lock, spoiled>> /\ disturbed' = disturbed \ {b}
          /\ faults' = faults
      BY <1>10, <2>3 DEF Offload
    <3>2. QED
      BY <2>1, <3>1 DEF EarlyEnd
  <2>4. QED
    BY <2>2, <2>3
<1>11. CASE DirectFails(b)
  <2>1. /\ Leave(b) /\ UNCHANGED <<lock, spoiled>> /\ disturbed' = disturbed \ {b}
        /\ Fault /\ open[b]["compiler"] # Nobody
    BY <1>11 DEF DirectFails
  <2>2. \A c \in Component : stage[b][c] = "check"
    BY <2>1 DEF UnitInv
  <2>3. QED
    BY <2>1, <2>2 DEF EarlyEnd
<1>12. CASE Kill(b)
  BY <1>12 DEF Kill, Next
<1>13. QED
  BY <1>1, <1>2, <1>3, <1>4, <1>5, <1>6, <1>7, <1>8, <1>9, <1>10, <1>11, <1>12
     DEF CommandStep

LEMMA CommandKeepsIInv ==
  ASSUME IInv, CommandShapes, NEW b \in Build, UnitInv(b), CommandStep(b)
  PROVE  IInv'
<1>1. TypeOK
  BY DEF IInv
<1>2. faults \in 0 .. MaxFaults
  BY <1>1 DEF TypeOK
<1>3. CASE [Next]_vars
  BY <1>3, IInvStep
<1>4. CASE FaultOnly
  BY <1>1, <1>4, FaultsKeep, FaultCounts DEF FaultOnly
<1>5. CASE EarlyEnd(b)
  BY <1>1, <1>2, <1>5, LeavingKeeps, FaultCounts DEF EarlyEnd
<1>6. QED
  BY <1>3, <1>4, <1>5, CommandMoves

CommandInv == IInv /\ CommandShapes /\ \A b \in Build : UnitInv(b)

LEMMA CommandStarts == CommandInit => CommandInv
<1> SUFFICES ASSUME CommandInit PROVE CommandInv
  OBVIOUS
<1>1. IInv
  BY InitIInv DEF CommandInit
<1>2. CommandShapes
  BY DEF CommandInit, CommandShapes
<1>3. ASSUME NEW b \in Build PROVE UnitInv(b)
  <2>1. /\ step[b] = "off" /\ plan[b] = <<>> /\ outs[b] = <<>> /\ queue[b] = <<>>
        /\ writer[b] = "off" /\ pc[b] = "off" /\ \A t \in Thread : open[b][t] = Nobody
    BY DEF CommandInit, Init
  <2>2. QED
    BY <2>1 DEF UnitInv, AtWork, Thread
<1>4. QED
  BY <1>1, <1>2, <1>3 DEF CommandInv

LEMMA UnitStays ==
  ASSUME CommandShapes, NEW b \in Build, UnitInv(b), UNCHANGED driver,
         scene # "unit" => pc' = pc /\ stage' = stage
  PROVE  UnitInv(b)'
BY DEF UnitInv, driver, AtWork, Unit

LEMMA CommandKeeps == CommandInv /\ [CommandNext]_allvars => CommandInv'
<1> SUFFICES ASSUME CommandInv, [CommandNext]_allvars PROVE CommandInv'
  OBVIOUS
<1> USE DEF CommandInv
<1>1. ASSUME UNCHANGED driver, [Next]_vars, scene # "unit" => pc' = pc /\ stage' = stage
      PROVE  CommandInv'
  <2>1. CommandShapes'
    BY <1>1 DEF driver, CommandShapes
  <2>2. \A b \in Build : UnitInv(b)'
    BY <1>1, UnitStays
  <2>3. QED
    BY <1>1, <2>1, <2>2, IInvStep
<1>2. CASE scene = "unit" /\ Next /\ Untouched
  BY <1>1, <1>2 DEF Untouched
<1>3. ASSUME scene # "unit", NEW b \in Build, CommandStep(b) PROVE CommandInv'
  <2>1. IInv'
    BY <1>3, CommandKeepsIInv
  <2>2. scene' = scene /\ CommandShapes' /\ \A o \in Build \ {b} : Kept(o)
    BY <1>3, StepsAreLocal DEF Local, IInv
  <2>3. UnitInv(b)'
    BY <1>3, OwnUnit DEF IInv
  <2>4. \A o \in Build \ {b} : UnitInv(o)'
    BY <2>2, KeptUnit
  <2>5. QED
    BY <2>1, <2>2, <2>3, <2>4
<1>4. ASSUME scene # "unit", NEW c \in Edited, NEW v \in Version, Edit(c, v), Untouched
      PROVE  CommandInv'
  BY <1>1, <1>4 DEF Untouched, Edit, Next
<1>5. CASE UNCHANGED allvars
  BY <1>1, <1>5 DEF allvars, vars
<1>6. QED
  BY <1>2, <1>3, <1>4, <1>5 DEF CommandNext

LEMMA CommandAlways == CommandSpec => []CommandInv
BY CommandStarts, CommandKeeps, PTL DEF CommandSpec

(* Also while commands write artifacts, fail and are killed around the     *)
(* saves, a digest stands for the cache beside it (compile.rs,             *)
(* repository.rs).                                                         *)
THEOREM DigestsStayHonest == CommandSpec => []DigestStandsForCache
<1>1. CommandInv => DigestStandsForCache
  BY DEF CommandInv, IInv
<1>2. QED
  BY <1>1, CommandAlways, PTL

(* What a command compiles is what a build from nothing would, if its      *)
(* input did not move (compile.rs, repository.rs).                         *)
THEOREM CommandsCompilePresentSources == CommandSpec => CompilesPresentSources
<1>1. CommandInv /\ [CommandNext]_allvars => \A b \in Build : CompilesPresent(b)
  <2> SUFFICES ASSUME CommandInv, [CommandNext]_allvars, NEW b \in Build
               PROVE  CompilesPresent(b)
    OBVIOUS
  <2> USE DEF CommandInv
  <2>1. ASSUME pc' = pc PROVE CompilesPresent(b)
    BY <2>1 DEF CompilesPresent
  <2>2. CASE [Next]_vars
    BY <2>2, CompileStep
  <2>3. ASSUME NEW o \in Build, CommandStep(o) PROVE CompilesPresent(b)
    <3>1. CASE FaultOnly
      BY <2>1, <3>1 DEF FaultOnly, OtherThanFaults
    <3>2. CASE EarlyEnd(o)
      BY <3>2 DEF EarlyEnd, Leave, CompilesPresent, IInv, TypeOK
    <3>3. QED
      BY <2>2, <2>3, <3>1, <3>2, CommandMoves
  <2>4. ASSUME NEW c \in Edited, NEW v \in Version, Edit(c, v) PROVE CompilesPresent(b)
    BY <2>1, <2>4 DEF Edit
  <2>5. CASE UNCHANGED allvars
    BY <2>1, <2>5 DEF allvars, vars
  <2>6. QED
    BY <2>2, <2>3, <2>4, <2>5 DEF CommandNext
<1>2. (\A b \in Build : CompilesPresent(b)) =>
         [\A b \in Build : pc[b] = "loading" /\ pc'[b] = "saving"
                              /\ b \notin disturbed
             => \A c \in Component : compiled'[b][c] = Of(c, source)]_vars
  BY DEF CompilesPresent
<1>3. QED
  BY <1>1, <1>2, CommandAlways, PTL DEF CommandSpec, CompilesPresentSources

-----------------------------------------------------------------------------
(* Artifacts                                                               *)

(* The compiler has a program, and so far all went well.                   *)
Producing(b) ==
    \/ step[b] = "compiler" /\ pc[b] = "saving"
    \/ step[b] \in {"post", "join"} /\ held[b] # "error"

(* The program is the one that the present sources make.                   *)
ProgramInv(b) ==
    Producing(b) =>
        /\ program[b] # Unmade
        /\ clean[b] => program[b].made = program[b].goal

(* Nothing is left to do about an output, or it is another build's turn.   *)
Settled(b, out) ==
    \/ out.file \in cut
    \/ \E o \in Build \ {b}, t \in Thread : open[o][t].file = out.file
    \/ Now(out.file) = Whole(b, out)

(* An output is to be produced, in the channel, open, or settled.          *)
OutputInv(b) ==
    Producing(b) /\ clean[b] /\ writer[b] # "failed" =>
        \A out \in Unshared(ToSet(Outputs(Unit(b)))) :
            \/ out \in ToSet(outs[b]) \/ out \in ToSet(queue[b])
            \/ open[b]["offloader"] = out
            \/ Settled(b, out)

LEMMA BecomeNow ==
  ASSUME NEW f, NEW content, Become(f, content)
  PROVE  /\ Now(f)' = content
         /\ \A g : g # f => Now(g)' = Now(g)
BY DEF Become, Now

(* What a step of a build does to the disk.                                *)
Garbles(o, t) ==
    LET out == open[o][t] IN
    /\ out # Nobody
    /\ open' = [open EXCEPT ![o][t] = Nobody]
    /\ Become(out.file, Torn)
    /\ cut' = cut \cup {out.file}

OthersClean(o) == \A p \in Build \ {o} : clean'[p] = clean[p]

DiskMove(o) ==
    \/ UNCHANGED <<file, cut, open>> /\ OthersClean(o)
    \/ \E t \in Thread : \E x \in ToSet(Outputs(Unit(o))) :
          AtWork(o) /\ Truncate(o, t, x) /\ OthersClean(o)
    \/ \E t \in Thread : Write(o, t) /\ program' = program
    \/ \E t \in Thread : Garbles(o, t) /\ OthersClean(o)
    \/ Kill(o) /\ OthersClean(o)

LEMMA DiskMoves ==
  ASSUME CommandShapes, NEW o \in Build, UnitInv(o), CommandStep(o)
  PROVE  DiskMove(o)
<1> USE DEF CommandShapes, OthersClean
<1>0. "compiler" \in Thread /\ "offloader" \in Thread
  BY DEF Thread
<1>1. ASSUME UNCHANGED <<file, cut, open>>, OthersClean(o) PROVE DiskMove(o)
  BY <1>1 DEF DiskMove
<1>2. CASE \/ \E command \in Commands[scene] : StartCommand(o, command)
           \/ SkipMacro(o) \/ CompileMacro(o) \/ LoadUnit(o)
           \/ CompileFails(o) \/ Offload(o) \/ SaveUnit(o) \/ CutSaveOfUnit(o)
           \/ FinishUnit(o) \/ PostProcess(o) \/ PostProcessFails(o)
  BY <1>1, <1>2 DEF StartCommand, SkipMacro, CompileMacro, LoadUnit, CompileFails,
       Offload, SaveUnit, CutSaveOfUnit, FinishUnit, PostProcess, PostProcessFails,
       Untouched, driver
<1>3. CASE \/ Succeed(o) \/ MacroFails(o) \/ CheckFails(o) \/ Unwind(o)
           \/ LoadDatabase(o) \/ Join(o) \/ CompileUnit(o)
  BY <1>1, <1>3 DEF Succeed, MacroFails, CheckFails, OtherThanFaults, Unwind, LoadDatabase, Join, CompileUnit,
       EndCommand
<1>4. CASE OpenDirect(o)
  <2>1. outs[o] # <<>> /\ Truncate(o, "compiler", Head(outs[o])) /\ clean' = clean
    BY <1>4 DEF OpenDirect, Writing
  <2>2. AtWork(o) /\ Head(outs[o]) \in ToSet(Outputs(Unit(o)))
    BY <2>1 DEF UnitInv, AtWork
  <2>3. QED
    BY <1>0, <2>1, <2>2 DEF DiskMove
<1>5. CASE OpenOffloaded(o)
  <2>1. queue[o] # <<>> /\ Truncate(o, "offloader", Head(queue[o])) /\ clean' = clean
    BY <1>5 DEF OpenOffloaded
  <2>2. AtWork(o) /\ Head(queue[o]) \in ToSet(Outputs(Unit(o)))
    BY <2>1 DEF UnitInv, AtWork
  <2>3. QED
    BY <1>0, <2>1, <2>2 DEF DiskMove
<1>6. CASE WriteDirect(o) \/ WriteOffloaded(o)
  BY <1>0, <1>6 DEF WriteDirect, WriteOffloaded, DiskMove
<1>7. CASE LoseDirect(o)
  <2>1. Garbles(o, "compiler") /\ clean' = clean
    BY <1>7 DEF LoseDirect, Garble, Garbles
  <2>2. QED
    BY <1>0, <2>1 DEF DiskMove
<1>8. CASE LoseOffloaded(o) \/ OffloadedFails(o)
  <2>1. Garbles(o, "offloader") /\ clean' = clean
    BY <1>8 DEF LoseOffloaded, OffloadedFails, Garble, Garbles
  <2>2. QED
    BY <1>0, <2>1 DEF DiskMove
<1>9. CASE DirectFails(o)
  <2>1. Garbles(o, "compiler") /\ clean' = clean
    BY <1>9 DEF DirectFails, Garbles
  <2>2. QED
    BY <1>0, <2>1 DEF DiskMove
<1>10. CASE Kill(o)
  BY <1>10 DEF DiskMove, Kill, EndCommand
<1>11. QED
  BY <1>2, <1>3, <1>4, <1>5, <1>6, <1>7, <1>8, <1>9, <1>10 DEF CommandStep

(* A file that is truncated is another one, or the output's own.           *)
LEMMA TruncateSettles ==
  ASSUME CommandShapes, NEW b \in Build, NEW o \in Build, NEW t \in Thread, NEW x,
         NEW out, Truncate(o, t, x), Settled(b, out), program'[b] = program[b],
         out.file # Nobody.file
  PROVE  Settled(b, out)' \/ (o = b /\ x.file = out.file)
<1>1. /\ open[o][t] = Nobody /\ open' = [open EXCEPT ![o][t] = x]
      /\ Become(x.file, Empty) /\ cut' = cut \ {x.file}
  BY DEF Truncate
<1>2. open'[o][t] = x
  BY <1>1 DEF CommandShapes
<1>3. CASE x.file = out.file
  BY <1>2, <1>3 DEF Settled
<1>4. CASE x.file # out.file
  <2>1. Now(out.file)' = Now(out.file)
    BY <1>1, <1>4, BecomeNow
  <2>2. out.file \in cut => out.file \in cut'
    BY <1>1, <1>4
  <2>3. ASSUME NEW p \in Build \ {b}, NEW s \in Thread, open[p][s].file = out.file
        PROVE  open'[p][s].file = out.file
    <3>1. open[p][s] # Nobody
      BY <2>3
    <3>2. open'[p][s] = open[p][s]
      BY <1>1, <3>1 DEF CommandShapes
    <3>3. QED
      BY <2>3, <3>2
  <2>4. Whole(b, out)' = Whole(b, out)
    BY DEF Whole
  <2>5. QED
    BY <2>1, <2>2, <2>3, <2>4 DEF Settled
<1>5. QED
  BY <1>3, <1>4

(* What is written is another file, cut, or the same as is written here.   *)
LEMMA WriteSettles ==
  ASSUME CommandShapes, NEW b \in Build, NEW o \in Build, NEW t \in Thread, NEW out,
         NEW x, x = open[o][t], Write(o, t), Settled(b, out) \/ x = out, program' = program,
         x.file = out.file => Whole(o, x) = Whole(b, out)
  PROVE  Settled(b, out)'
<1>1. /\ open' = [open EXCEPT ![o][t] = Nobody]
      /\ \/ Become(x.file, Whole(o, x)) /\ cut' = cut
         \/ Become(x.file, Torn) /\ cut' = cut \cup {x.file}
  BY DEF Write
<1>2. Whole(b, out)' = Whole(b, out)
  BY DEF Whole
<1>3. CASE x.file = out.file
  <2>1. CASE Become(x.file, Whole(o, x))
    <3>1. Now(x.file)' = Whole(o, x)
      BY <2>1 DEF Become, Now
    <3>2. Whole(o, x) = Whole(b, out)
      BY <1>3
    <3>3. Now(out.file)' = Whole(b, out)
      BY <1>3, <3>1, <3>2
    <3>4. QED
      BY <1>2, <3>3 DEF Settled
  <2>2. CASE cut' = cut \cup {x.file}
    BY <1>3, <2>2 DEF Settled
  <2>3. QED
    BY <1>1, <2>1, <2>2
<1>4. CASE x.file # out.file
  <2>1. Now(out.file)' = Now(out.file)
    BY <1>1, <1>4, BecomeNow
  <2>2. out.file \in cut => out.file \in cut'
    BY <1>1
  <2>3. ASSUME NEW p \in Build \ {b}, NEW s \in Thread, open[p][s].file = out.file
        PROVE  open'[p][s].file = out.file
    BY <1>1, <1>4, <2>3 DEF CommandShapes
  <2>4. Settled(b, out)
    BY <1>4
  <2>5. QED
    BY <1>2, <2>1, <2>2, <2>3, <2>4 DEF Settled
<1>5. QED
  BY <1>3, <1>4

LEMMA GarbleSettles ==
  ASSUME CommandShapes, NEW b \in Build, NEW o \in Build, NEW t \in Thread, NEW out,
         Garbles(o, t), Settled(b, out) \/ open[o][t] = out, program'[b] = program[b]
  PROVE  Settled(b, out)'
<1> DEFINE x == open[o][t]
<1>1. /\ open' = [open EXCEPT ![o][t] = Nobody]
      /\ Become(x.file, Torn) /\ cut' = cut \cup {x.file}
  BY DEF Garbles
<1>2. CASE x.file = out.file
  BY <1>1, <1>2 DEF Settled
<1>3. CASE x.file # out.file
  <2>1. Now(out.file)' = Now(out.file)
    BY <1>1, <1>3, BecomeNow
  <2>2. ASSUME NEW p \in Build \ {b}, NEW s \in Thread, open[p][s].file = out.file
        PROVE  open'[p][s].file = out.file
    BY <1>1, <1>3, <2>2 DEF CommandShapes
  <2>3. Whole(b, out)' = Whole(b, out) /\ Settled(b, out)
    BY <1>3 DEF Whole
  <2>4. QED
    BY <1>1, <2>1, <2>2, <2>3 DEF Settled
<1>4. QED
  BY <1>2, <1>3

LEMMA KillSettles ==
  ASSUME CommandShapes, NEW b \in Build, NEW o \in Build \ {b}, NEW out,
         Kill(o), Settled(b, out), program'[b] = program[b], out.file # Nobody.file
  PROVE  Settled(b, out)'
<1> DEFINE left == {open[o][t].file : t \in {x \in Thread : open[o][x] # Nobody}}
<1>1. /\ open' = [open EXCEPT ![o] = [t \in Thread |-> Nobody]]
      /\ file' = [f \in DOMAIN file |-> IF f \in left THEN Torn ELSE file[f]]
      /\ cut' = cut \cup left
  BY DEF Kill
<1>2. CASE out.file \in left
  BY <1>1, <1>2 DEF Settled
<1>3. CASE out.file \notin left
  <2>1. Now(out.file)' = Now(out.file)
    BY <1>1, <1>3 DEF Now
  <2>2. ASSUME NEW p \in Build \ {b}, NEW s \in Thread, open[p][s].file = out.file
        PROVE  open'[p][s].file = out.file
    <3>1. p # o
      BY <1>3, <2>2
    <3>2. QED
      BY <1>1, <2>2, <3>1 DEF CommandShapes
  <2>3. Whole(b, out)' = Whole(b, out)
    BY DEF Whole
  <2>4. QED
    BY <1>1, <2>1, <2>2, <2>3 DEF Settled
<1>4. QED
  BY <1>2, <1>3

ArtifactInv(b) == ProgramInv(b) /\ OutputInv(b)

LEMMA ProducersAreAtWork ==
  ASSUME CommandShapes, NEW b \in Build, UnitInv(b), AtWork(b)
  PROVE  Unit(b) \in CairoUnits(scene) /\ scene \in Scenes
BY PresentUnit DEF UnitInv, CommandShapes

(* What other builds do leaves settled what was, or the build is not clean.*)
LEMMA OthersSettle ==
  ASSUME CommandShapes, NEW b \in Build, NEW o \in Build \ {b},
         UnitInv(b), UnitInv(o), DiskMove(o), Kept(b), AtWork(b),
         program[b] # Unmade, clean'[b],
         NEW out \in Unshared(ToSet(Outputs(Unit(b)))), Settled(b, out)
  PROVE  clean[b] /\ Settled(b, out)'
<1>1. Unit(b) \in CairoUnits(scene) /\ scene \in Scenes
  BY ProducersAreAtWork
<1>2. out.file # Nobody.file
  BY <1>1, OutputsAreFiles DEF Unshared
<1>3. program'[b] = program[b]
  BY DEF Kept
<1>4. CASE UNCHANGED <<file, cut, open>> /\ OthersClean(o)
  <2>1. Whole(b, out)' = Whole(b, out) /\ Now(out.file)' = Now(out.file)
    BY <1>3, <1>4 DEF Whole, Now
  <2>2. QED
    BY <1>4, <2>1 DEF Settled, OthersClean
<1>5. ASSUME NEW t \in Thread, NEW x, Truncate(o, t, x), OthersClean(o)
      PROVE  clean[b] /\ Settled(b, out)'
  <2>1. Settled(b, out)' \/ (o = b /\ x.file = out.file)
    BY <1>2, <1>3, <1>5, TruncateSettles
  <2>2. QED
    BY <1>5, <2>1 DEF OthersClean
<1>6. ASSUME NEW t \in Thread, Write(o, t), program' = program
      PROVE  clean[b] /\ Settled(b, out)'
  <2>1. /\ open[o][t] # Nobody /\ program' = program
        /\ clean[b] /\ (Busy(b) => program[b].made = program[o].made)
    BY <1>6 DEF Write
  <2>2. Busy(b)
    BY DEF Busy, AtWork
  <2>3. AtWork(o) /\ open[o][t] \in ToSet(Outputs(Unit(o)))
    BY <2>1 DEF UnitInv
  <2>4. Unit(o) \in CairoUnits(scene)
    BY <2>3, ProducersAreAtWork
  <2>5. PICK x : x = open[o][t]
    OBVIOUS
  <2>6. ASSUME x.file = out.file PROVE Whole(o, x) = Whole(b, out)
    <3>1. x = out
      <4> DEFINE u == Unit(b)
                 v == Unit(o)
      <4> HIDE DEF u, v
      <4>1. /\ u \in CairoUnits(scene) /\ v \in CairoUnits(scene)
            /\ out \in Unshared(ToSet(Outputs(u))) /\ x \in ToSet(Outputs(v))
        BY <1>1, <2>3, <2>4, <2>5 DEF u, v
      <4>2. QED
        BY <1>1, <2>6, <4>1, FilesApart
    <3>2. QED
      BY <2>1, <2>2, <3>1 DEF Whole
  <2>7. Settled(b, out)'
    BY <1>6, <2>1, <2>5, <2>6, WriteSettles
  <2>8. QED
    BY <2>1, <2>7
<1>7. ASSUME NEW t \in Thread, Garbles(o, t), OthersClean(o)
      PROVE  clean[b] /\ Settled(b, out)'
  BY <1>3, <1>7, GarbleSettles DEF OthersClean
<1>8. CASE Kill(o) /\ OthersClean(o)
  BY <1>2, <1>3, <1>8, KillSettles DEF OthersClean
<1>9. QED
  BY <1>4, <1>5, <1>6, <1>7, <1>8 DEF DiskMove

LEMMA CleanBefore ==
  ASSUME CommandShapes, NEW b \in Build, NEW o \in Build \ {b}, DiskMove(o), clean'[b]
  PROVE  clean[b]
BY DEF DiskMove, OthersClean, Write

LEMMA OthersKeepArtifacts ==
  ASSUME CommandShapes, NEW b \in Build, NEW o \in Build \ {b},
         UnitInv(b), UnitInv(o), DiskMove(o), Kept(b), ArtifactInv(b)
  PROVE  ArtifactInv(b)'
<1>1. /\ Producing(b)' <=> Producing(b)
      /\ clean'[b] => clean[b]
  BY CleanBefore DEF Kept, Producing
<1>2. ProgramInv(b)'
  BY <1>1 DEF Kept, ProgramInv, ArtifactInv
<1>3. OutputInv(b)'
  <2> SUFFICES ASSUME Producing(b)', clean'[b], writer'[b] # "failed",
                      NEW out \in Unshared(ToSet(Outputs(Unit(b))))
               PROVE  \/ out \in ToSet(outs'[b]) \/ out \in ToSet(queue'[b])
                      \/ open'[b]["offloader"] = out \/ Settled(b, out)'
    BY DEF OutputInv, Unit, Kept
  <2>1. /\ Producing(b) /\ clean[b] /\ writer[b] # "failed" /\ AtWork(b)
        /\ program[b] # Unmade
    BY <1>1 DEF Kept, Producing, AtWork, ArtifactInv, ProgramInv
  <2>2. \/ out \in ToSet(outs[b]) \/ out \in ToSet(queue[b])
        \/ open[b]["offloader"] = out \/ Settled(b, out)
    BY <2>1 DEF ArtifactInv, OutputInv
  <2>3. CASE Settled(b, out)
    BY <2>1, <2>3, OthersSettle
  <2>4. CASE \/ out \in ToSet(outs[b]) \/ out \in ToSet(queue[b])
             \/ open[b]["offloader"] = out
    BY <2>4 DEF Kept
  <2>5. QED
    BY <2>2, <2>3, <2>4
<1>4. QED
  BY <1>2, <1>3 DEF ArtifactInv

(* Nothing else is compiled than the sources that are there.               *)
LEMMA MadeFromSources ==
  ASSUME TypeOK
  PROVE  Of(Main, source) # Hollow
<1>1. Main \in Component /\ Main \in Reach[Main] /\ source[Main] \in Version
  BY ConstantsAssumption, CommandsAssumption
     DEF ConstantsAssumption, CommandsAssumption, TypeOK
<1>2. Of(Main, source)[Main] = source[Main] /\ Hollow[Main] = Nothing
  BY <1>1 DEF Of, Hollow
<1>3. source[Main] # Nothing
  BY <1>1, ConstantsAssumption DEF ConstantsAssumption
<1>4. QED
  BY <1>2, <1>3

LEMMA TailOf ==
  ASSUME NEW X, NEW s \in Seq(X), s # <<>>
  PROVE  ToSet(s) = {Head(s)} \cup ToSet(Tail(s))
<1> DEFINE n == Len(s)
<1>1. n \in Nat /\ n # 0 /\ Head(s) = s[1] /\ DOMAIN s = 1 .. n
  <2>1. n \in Nat /\ DOMAIN s = 1 .. n /\ Head(s) = s[1]
    OBVIOUS
  <2>2. n # 0
    OBVIOUS
  <2>3. QED
    BY <2>1, <2>2
<1>2. DOMAIN Tail(s) = 1 .. n - 1 /\ \A i \in 1 .. n - 1 : Tail(s)[i] = s[i + 1]
  <2>1. Tail(s) \in Seq(X) /\ Len(Tail(s)) = n - 1
    OBVIOUS
  <2>2. \A i \in 1 .. Len(Tail(s)) : Tail(s)[i] = s[i + 1]
    OBVIOUS
  <2>3. DOMAIN Tail(s) = 1 .. Len(Tail(s))
    BY <2>1
  <2>4. QED
    BY <2>1, <2>2, <2>3
<1> HIDE DEF n
<1>3. ToSet(Tail(s)) = {s[i + 1] : i \in 1 .. n - 1} /\ ToSet(s) = {s[i] : i \in 1 .. n}
  BY <1>1, <1>2 DEF ToSet
<1>4. \A i \in 1 .. n : i = 1 \/ (i - 1 \in 1 .. n - 1 /\ (i - 1) + 1 = i)
  BY <1>1
<1>5. \A i \in 1 .. n - 1 : i + 1 \in 1 .. n
  BY <1>1
<1>6. 1 \in 1 .. n
  BY <1>1
<1>7. ToSet(s) \subseteq {s[1]} \cup ToSet(Tail(s))
  BY <1>3, <1>4
<1>8. {s[1]} \cup ToSet(Tail(s)) \subseteq ToSet(s)
  BY <1>3, <1>5, <1>6
<1>9. QED
  BY <1>1, <1>7, <1>8

LEMMA AppendOf ==
  ASSUME NEW X, NEW s \in Seq(X), NEW x \in X
  PROVE  ToSet(Append(s, x)) = ToSet(s) \cup {x}
<1> DEFINE t == <<x>>
<1>1. Append(s, x) = s \o t /\ t \in Seq(X) /\ ToSet(t) = {x}
  BY DEF ToSet
<1> HIDE DEF t
<1>2. QED
  BY <1>1, ElementsOfConcat

(* A step after which an output is where it was, or has moved on.          *)
Placed(b, out) ==
    \/ out \in ToSet(outs[b]) \/ out \in ToSet(queue[b])
    \/ open[b]["offloader"] = out
    \/ Settled(b, out)

LEMMA PlacedKept ==
  ASSUME CommandShapes, NEW b \in Build, ArtifactInv(b), Producing(b),
         Producing(b)' => program'[b] = program[b] /\ Unit(b)' = Unit(b)
                             /\ (clean'[b] => clean[b])
                             /\ (writer'[b] # "failed" => writer[b] # "failed"),
         \A out \in Unshared(ToSet(Outputs(Unit(b)))) :
            Producing(b)' /\ clean'[b] /\ writer'[b] # "failed" /\ Placed(b, out)
                => Placed(b, out)'
  PROVE  ArtifactInv(b)'
BY DEF ArtifactInv, ProgramInv, OutputInv, Placed

LEMMA OwnArtifacts ==
  ASSUME IInv, CommandShapes, NEW b \in Build, UnitInv(b), ArtifactInv(b),
         CommandStep(b), scene # "unit", [Next]_vars => CompilesPresent(b)
  PROVE  ArtifactInv(b)'
<1> USE DEF CommandShapes, Untouched, driver
<1>0. TypeOK
  BY DEF IInv
<1>1. ASSUME ~Producing(b)' PROVE ArtifactInv(b)'
  BY <1>1 DEF ArtifactInv, ProgramInv, OutputInv
<1>2. CASE \/ \E command \in Commands[scene] : StartCommand(b, command)
           \/ Succeed(b) \/ SkipMacro(b) \/ CompileMacro(b) \/ MacroFails(b)
           \/ LoadDatabase(b) \/ CheckFails(b)
  <2>1. pc'[b] = "off" /\ step'[b] \in {"off", "next", "compiler"}
    BY <1>2 DEF StartCommand, Succeed, SkipMacro, CompileMacro, MacroFails, AtMacro,
         LoadDatabase, CheckFails, OtherThanFaults, EndCommand, Move, UnitInv, vars
  <2>2. QED
    BY <1>1, <2>1 DEF Producing
<1>3. CASE LoadUnit(b)
  <2>1. pc'[b] = "loading" /\ step'[b] = "compiler"
    BY <1>0, <1>3 DEF LoadUnit, Hash, Load, At, TypeOK
  <2>2. QED
    BY <1>1, <2>1 DEF Producing
<1>4. CASE CompileUnit(b)
  <2>1. /\ Compile(b) /\ step[b] = "compiler" /\ UNCHANGED plan
        /\ program'[b] = [made |-> compiled'[b][Main], goal |-> Of(Main, source)]
        /\ clean'[b] = (b \notin disturbed)
        /\ outs'[b] = Outputs(Unit(b))
    BY <1>4 DEF CompileUnit
  <2>2. pc[b] = "loading" /\ pc'[b] = "saving" /\ Next
    <3>1. pc[b] = "loading" /\ pc'[b] = "saving"
      BY <1>0, <2>1 DEF Compile, TypeOK
    <3>2. Next
      BY <2>1 DEF Next
    <3>3. QED
      BY <3>1, <3>2
  <2>3. clean'[b] => compiled'[b][Main] = Of(Main, source)
    BY <2>1, <2>2, CommandsAssumption DEF CompilesPresent, CommandsAssumption
  <2>4. program'[b] # Unmade
    BY <1>0, <2>1, MadeFromSources DEF Unmade
  <2>5. ProgramInv(b)'
    BY <2>1, <2>3, <2>4 DEF ProgramInv
  <2>6. OutputInv(b)'
    BY <2>1 DEF OutputInv, Unshared, Unit
  <2>7. QED
    BY <2>5, <2>6 DEF ArtifactInv
<1>5. CASE CompileFails(b) \/ DirectFails(b)
  <2>1. step'[b] = "post" /\ held'[b] = "error"
    BY <1>5 DEF CompileFails, DirectFails, Move
  <2>2. QED
    BY <1>1, <2>1 DEF Producing
<1>6. CASE Offload(b)
  <2>1. step[b] = "compiler" /\ pc[b] = "saving" /\ outs[b] # <<>>
    BY <1>6 DEF Offload, Writing
  <2>2. CASE writer[b] # "running"
    <3>1. step'[b] = "unwinding"
      BY <1>6, <2>2 DEF Offload, Move
    <3>2. QED
      BY <1>1, <3>1 DEF Producing
  <2>3. CASE writer[b] = "running"
    <3> DEFINE X == ToSet(Outputs(Unit(b)))
    <3>1. /\ queue'[b] = Append(queue[b], Head(outs[b])) /\ outs'[b] = Tail(outs[b])
          /\ UNCHANGED <<file, cut, open, program, clean, plan, writer>>
      BY <1>6, <2>3 DEF Offload
    <3>2. queue[b] \in Seq(X) /\ outs[b] \in Seq(X)
      BY <2>1 DEF UnitInv, AtWork
    <3> HIDE DEF X
    <3>3. Head(outs[b]) \in X
      BY <2>1, <3>2
    <3>4. /\ ToSet(outs[b]) = {Head(outs[b])} \cup ToSet(outs'[b])
          /\ ToSet(queue'[b]) = ToSet(queue[b]) \cup {Head(outs[b])}
      BY <2>1, <3>1, <3>2, <3>3, TailOf, AppendOf
    <3>5. \A out \in X : Settled(b, out) => Settled(b, out)'
      BY <3>1 DEF Settled, Now, Whole
    <3>6. \A out \in X : Placed(b, out) => Placed(b, out)'
      BY <3>1, <3>4, <3>5 DEF Placed
    <3>7. QED
      BY <2>1, <3>1, <3>6, PlacedKept DEF Producing, Unit, X, Unshared
  <2>4. QED
    BY <2>2, <2>3
<1>7. CASE OpenDirect(b)
  <2>1. /\ step[b] = "compiler" /\ pc[b] = "saving" /\ outs[b] # <<>>
        /\ Truncate(b, "compiler", Head(outs[b]))
        /\ UNCHANGED <<outs, queue, program, clean, plan, writer>>
    BY <1>7 DEF OpenDirect, Writing
  <2>2. open'[b]["offloader"] = open[b]["offloader"]
    BY <2>1 DEF Truncate, Thread
  <2> DEFINE x == Head(outs[b])
             u == Unit(b)
  <2>3. x \in ToSet(Outputs(u)) /\ x \in ToSet(outs[b])
    <3>1. outs[b] \in Seq(ToSet(Outputs(Unit(b))))
      BY <2>1 DEF UnitInv
    <3>2. ToSet(outs[b]) = {Head(outs[b])} \cup ToSet(Tail(outs[b]))
      BY <2>1, <3>1, TailOf
    <3>3. QED
      BY <2>1, <3>1, <3>2
  <2>4. u \in CairoUnits(scene)
    BY <2>1, ProducersAreAtWork DEF AtWork
  <2> HIDE DEF u, x
  <2>5. ASSUME NEW out \in Unshared(ToSet(Outputs(u))), Settled(b, out)
        PROVE  Settled(b, out)' \/ out \in ToSet(outs[b])
    <3>1. out.file # Nobody.file
      BY <2>4, OutputsAreFiles DEF Unshared
    <3>2. Settled(b, out)' \/ x.file = out.file
      BY <2>1, <2>5, <3>1, TruncateSettles DEF Thread, x
    <3>3. x.file = out.file => x = out
      BY <2>3, <2>4, FilesApart
    <3>4. QED
      BY <2>3, <3>2, <3>3
  <2>6. \A out \in Unshared(ToSet(Outputs(u))) : Placed(b, out) => Placed(b, out)'
    BY <2>1, <2>2, <2>5 DEF Placed
  <2>7. QED
    BY <2>1, <2>6, PlacedKept DEF Producing, Unit, u
<1>8. CASE OpenOffloaded(b)
  <2> DEFINE x == Head(queue[b])
             u == Unit(b)
  <2>1. /\ queue[b] # <<>> /\ queue'[b] = Tail(queue[b])
        /\ open[b]["offloader"] = Nobody /\ open'[b]["offloader"] = x
        /\ Truncate(b, "offloader", x)
        /\ UNCHANGED <<outs, program, clean, plan, writer, step, held, pc>>
    BY <1>8 DEF OpenOffloaded, Truncate, Thread, vars
  <2>2. AtWork(b) /\ queue[b] \in Seq(ToSet(Outputs(u)))
    BY <2>1 DEF UnitInv
  <2>3. x \in ToSet(Outputs(u)) /\ ToSet(queue[b]) = {x} \cup ToSet(queue'[b])
    <3>1. ToSet(queue[b]) = {Head(queue[b])} \cup ToSet(Tail(queue[b]))
      BY <2>1, <2>2, TailOf
    <3>2. QED
      BY <2>1, <2>2, <3>1
  <2>4. u \in CairoUnits(scene)
    BY <2>2, ProducersAreAtWork
  <2> HIDE DEF u, x
  <2>5. ASSUME NEW out \in Unshared(ToSet(Outputs(u))), Settled(b, out)
        PROVE  Settled(b, out)' \/ out = x
    <3>1. out.file # Nobody.file
      BY <2>4, OutputsAreFiles DEF Unshared
    <3>2. Settled(b, out)' \/ x.file = out.file
      BY <2>1, <2>5, <3>1, TruncateSettles DEF Thread
    <3>3. QED
      BY <2>3, <2>4, <3>2, FilesApart
  <2>6. \A out \in Unshared(ToSet(Outputs(u))) : out # Nobody
    BY <2>4, OutputsAreFiles DEF Unshared
  <2>7. \A out \in Unshared(ToSet(Outputs(u))) : Placed(b, out) => Placed(b, out)'
    BY <2>1, <2>3, <2>5, <2>6 DEF Placed
  <2>8. CASE Producing(b)
    BY <2>1, <2>7, <2>8, PlacedKept DEF Unit, u
  <2>9. CASE ~Producing(b)
    BY <1>1, <2>1, <2>9 DEF Producing
  <2>10. QED
    BY <2>8, <2>9
<1>9. CASE WriteDirect(b) \/ LoseDirect(b)
  <2> DEFINE u == Unit(b)
  <2>1. PICK x : x = open[b]["compiler"]
    OBVIOUS
  <2>2. /\ x # Nobody /\ outs'[b] = Tail(outs[b])
        /\ open'[b]["offloader"] = open[b]["offloader"]
        /\ Write(b, "compiler") \/ (Garbles(b, "compiler") /\ clean' = clean)
        /\ UNCHANGED <<queue, program, plan, writer>>
    BY <1>9, <2>1 DEF WriteDirect, LoseDirect, Write, Garble, Garbles, Thread
  <2>3. /\ outs[b] # <<>> /\ x = Head(outs[b]) /\ Producing(b)
        /\ outs[b] \in Seq(ToSet(Outputs(u)))
    BY <2>1, <2>2 DEF UnitInv, Producing
  <2>4. ToSet(outs[b]) = {x} \cup ToSet(outs'[b])
    BY <2>2, <2>3, TailOf
  <2>5. x \in ToSet(Outputs(u)) /\ u \in CairoUnits(scene)
    <3>1. x \in ToSet(Outputs(u)) /\ AtWork(b)
      BY <2>3 DEF UnitInv, AtWork
    <3>2. QED
      BY <3>1, ProducersAreAtWork
  <2>6. clean'[b] => clean[b]
    BY <2>2 DEF Write
  <2> HIDE DEF u
  <2>7. ASSUME NEW out \in Unshared(ToSet(Outputs(u))), Settled(b, out) \/ x = out
        PROVE  Settled(b, out)'
    <3>1. x.file = out.file => x = out
      BY <2>5, FilesApart
    <3>2. CASE Write(b, "compiler")
      BY <2>1, <2>2, <2>7, <3>1, <3>2, WriteSettles DEF Thread, Whole
    <3>3. CASE Garbles(b, "compiler")
      BY <2>1, <2>2, <2>7, <3>3, GarbleSettles DEF Thread
    <3>4. QED
      BY <2>2, <3>2, <3>3
  <2>8. \A out \in Unshared(ToSet(Outputs(u))) : Placed(b, out) => Placed(b, out)'
    BY <2>2, <2>4, <2>7 DEF Placed
  <2>9. QED
    BY <2>2, <2>3, <2>6, <2>8, PlacedKept DEF Unit, u
<1>10. CASE WriteOffloaded(b) \/ LoseOffloaded(b)
  <2> DEFINE u == Unit(b)
  <2>1. PICK x : x = open[b]["offloader"]
    OBVIOUS
  <2>2. /\ x # Nobody
        /\ Write(b, "offloader") \/ (Garbles(b, "offloader") /\ clean' = clean)
        /\ UNCHANGED <<outs, queue, program, plan, writer, step, held, pc>>
    BY <1>10, <2>1 DEF WriteOffloaded, LoseOffloaded, Write, Garble, Garbles, vars,
                       OtherThanFaults
  <2>3. x \in ToSet(Outputs(u)) /\ u \in CairoUnits(scene)
    <3>1. x \in ToSet(Outputs(u)) /\ AtWork(b)
      BY <2>1, <2>2 DEF UnitInv, Thread
    <3>2. QED
      BY <3>1, ProducersAreAtWork
  <2>4. clean'[b] => clean[b]
    BY <2>2 DEF Write
  <2> HIDE DEF u
  <2>5. ASSUME NEW out \in Unshared(ToSet(Outputs(u))), Settled(b, out) \/ x = out
        PROVE  Settled(b, out)'
    <3>1. x.file = out.file => x = out
      BY <2>3, FilesApart
    <3>2. CASE Write(b, "offloader")
      BY <2>1, <2>2, <2>5, <3>1, <3>2, WriteSettles DEF Thread, Whole
    <3>3. CASE Garbles(b, "offloader")
      BY <2>1, <2>2, <2>5, <3>3, GarbleSettles DEF Thread
    <3>4. QED
      BY <2>2, <3>2, <3>3
  <2>6. \A out \in Unshared(ToSet(Outputs(u))) : Placed(b, out) => Placed(b, out)'
    BY <2>1, <2>2, <2>5 DEF Placed
  <2>7. CASE Producing(b)
    BY <2>2, <2>4, <2>6, <2>7, PlacedKept DEF Unit, u
  <2>8. CASE ~Producing(b)
    BY <1>1, <2>2, <2>8 DEF Producing
  <2>9. QED
    BY <2>7, <2>8
<1>11. CASE OffloadedFails(b)
  <2>1. /\ writer'[b] = "failed" /\ UNCHANGED <<program, clean, step, held, pc>>
    BY <1>11 DEF OffloadedFails, OtherThanFaults
  <2>2. ProgramInv(b)' /\ OutputInv(b)'
    BY <2>1 DEF ArtifactInv, ProgramInv, OutputInv, Producing
  <2>3. QED
    BY <2>2 DEF ArtifactInv
<1>12. ASSUME Producing(b)' => Producing(b), UNCHANGED <<outs, queue, open, program, clean,
                                                          plan, writer, file, cut>>
       PROVE  ArtifactInv(b)'
  <2>1. \A out : Settled(b, out)' <=> Settled(b, out)
    BY <1>12 DEF Settled, Now, Whole
  <2>2. \A out : Placed(b, out)' <=> Placed(b, out)
    BY <1>12, <2>1 DEF Placed
  <2>3. CASE Producing(b)
    BY <1>12, <2>2, <2>3, PlacedKept DEF Unit
  <2>4. QED
    BY <1>1, <1>12, <2>3
<1>13. CASE SaveUnit(b) \/ CutSaveOfUnit(b)
  <2>1. /\ step[b] = "compiler" /\ step' = step /\ pc' = pc
        /\ UNCHANGED <<outs, queue, open, program, clean, plan, writer, file, cut>>
    BY <1>13 DEF SaveUnit, CutSaveOfUnit, FindFresh, FindStale, OpenDigest, WriteDigest,
                 OpenCache, WriteCache, CutSave
  <2>2. QED
    BY <1>12, <2>1 DEF Producing
<1>14. CASE FinishUnit(b)
  <2>1. Producing(b)
    BY <1>14 DEF FinishUnit, Finish, Producing
  <2>2. QED
    BY <1>12, <1>14, <2>1 DEF FinishUnit
<1>15. CASE PostProcess(b)
  BY <1>12, <1>15 DEF PostProcess, Producing, Move
<1>16. CASE PostProcessFails(b) \/ Unwind(b) \/ Join(b) \/ Kill(b)
  <2>1. step'[b] \in {"unwinding", "off", "next"}
    BY <1>16 DEF PostProcessFails, Unwind, Join, Kill, EndCommand, Move
  <2>2. QED
    BY <1>1, <2>1 DEF Producing
<1>17. QED
  BY <1>2, <1>3, <1>4, <1>5, <1>6, <1>7, <1>8, <1>9, <1>10, <1>11, <1>13, <1>14, <1>15,
     <1>16 DEF CommandStep

(* The unit that builds contracts for users has them, and writes classes.  *)
IntendedAreSelected ==
    \A s \in Scenes : \A u \in ToSet(Units[s]) :
        u.kind = "starknet-contract" =>
            /\ Intended[s] \subseteq ProjectContracts(u)
            /\ "sierra" \in u.props \/ "casm" \in u.props

ArtifactsInv == CommandInv /\ \A b \in Build : ArtifactInv(b)

LEMMA ArtifactsStart == CommandInit => \A b \in Build : ArtifactInv(b)
<1> SUFFICES ASSUME CommandInit, NEW b \in Build PROVE ArtifactInv(b)
  OBVIOUS
<1>1. ~Producing(b)
  BY DEF CommandInit, Producing
<1>2. QED
  BY <1>1 DEF ArtifactInv, ProgramInv, OutputInv

LEMMA ArtifactsStep ==
  ASSUME ArtifactsInv, [CommandNext]_allvars
  PROVE  ArtifactsInv'
<1> USE DEF ArtifactsInv
<1>1. CommandInv'
  BY CommandKeeps
<1>2. ASSUME UNCHANGED driver, scene # "unit" => pc' = pc, NEW b \in Build
      PROVE  ArtifactInv(b)'
  <2>1. CASE scene = "unit"
    <3>1. ~Producing(b)'
      BY <1>2, <2>1 DEF CommandInv, UnitInv, Producing, driver
    <3>2. QED
      BY <3>1 DEF ArtifactInv, ProgramInv, OutputInv
  <2>2. CASE scene # "unit"
    <3>1. Producing(b)' <=> Producing(b)
      BY <1>2, <2>2 DEF Producing, driver
    <3>2. \A out : Settled(b, out)' <=> Settled(b, out)
      BY <1>2 DEF Settled, Now, Whole, driver
    <3>3. ProgramInv(b)'
      BY <1>2, <3>1 DEF ArtifactInv, ProgramInv, driver
    <3>4. OutputInv(b)'
      BY <1>2, <3>1, <3>2 DEF ArtifactInv, OutputInv, Unit, driver
    <3>5. QED
      BY <3>3, <3>4 DEF ArtifactInv
  <2>3. QED
    BY <2>1, <2>2
<1>3. CASE scene = "unit" /\ Next /\ Untouched
  BY <1>1, <1>2, <1>3 DEF Untouched
<1>4. ASSUME scene # "unit", NEW o \in Build, CommandStep(o)
      PROVE  \A b \in Build : ArtifactInv(b)'
  <2>1. \A b \in Build \ {o} : Kept(b)
    BY <1>4, StepsAreLocal DEF Local, CommandInv, IInv
  <2>2. DiskMove(o)
    BY <1>4, DiskMoves DEF CommandInv
  <2>3. \A b \in Build \ {o} : ArtifactInv(b)'
    BY <2>1, <2>2, OthersKeepArtifacts DEF CommandInv
  <2>4. [Next]_vars => CompilesPresent(o)
    BY CompileStep DEF CommandInv
  <2>5. ArtifactInv(o)'
    BY <1>4, <2>4, OwnArtifacts DEF CommandInv
  <2>6. QED
    BY <2>3, <2>5
<1>5. ASSUME scene # "unit", NEW c \in Edited, NEW v \in Version, Edit(c, v), Untouched
      PROVE  \A b \in Build : ArtifactInv(b)'
  BY <1>2, <1>5 DEF Untouched, Edit
<1>6. CASE UNCHANGED allvars
  BY <1>1, <1>2, <1>6 DEF allvars, vars
<1>7. QED
  BY <1>1, <1>3, <1>4, <1>5, <1>6 DEF CommandNext

LEMMA ArtifactsAlways == CommandSpec => []ArtifactsInv
<1>1. CommandInit => ArtifactsInv
  BY CommandStarts, ArtifactsStart DEF ArtifactsInv
<1>2. ArtifactsInv /\ [CommandNext]_allvars => ArtifactsInv'
  BY ArtifactsStep
<1>3. QED
  BY <1>1, <1>2, PTL DEF CommandSpec

EndsWell(b) == step[b] = "join" /\ step'[b] = "next"

LeavesWhole(b) ==
    EndsWell(b) /\ clean[b] =>
       LET outputs == ToSet(Outputs(Unit(b)))
       IN  /\ Unit(b).kind = "starknet-contract" =>
                 Intended[scene] \subseteq {out.what : out \in outputs}
           /\ \A out \in Unshared(outputs) :
                 \/ out.file \in cut
                 \/ \E o \in Build \ {b}, t \in Thread : open[o][t].file = out.file
                 \/ Now(out.file) = [state |-> "whole", what |-> out.what,
                                        made |-> program[b].goal]

(* A unit ends well in Join only.                                          *)
LEMMA EndsInJoin ==
  ASSUME CommandInv, [CommandNext]_allvars, NEW b \in Build, EndsWell(b)
  PROVE  Join(b) /\ writer[b] # "failed" /\ held[b] # "error" /\ scene # "unit"
<1> USE DEF CommandInv, EndsWell
<1>1. step' # step
  OBVIOUS
<1>2. ASSUME UNCHANGED driver PROVE FALSE
  BY <1>1, <1>2 DEF driver
<1>3. ~(scene = "unit" /\ Next /\ Untouched)
  BY <1>2 DEF Untouched
<1>4. ~(\E c \in Edited, v \in Version : Edit(c, v) /\ Untouched)
  BY <1>2 DEF Untouched
<1>5. CommandNext
  <2>1. ~(UNCHANGED allvars)
    BY <1>2 DEF allvars
  <2>2. QED
    BY <2>1
<1>6. PICK o \in Build : CommandStep(o) /\ scene # "unit"
  <2> HIDE DEF EndsWell, CommandInv
  <2>1. /\ scene # "unit"
        /\ \/ \E o \in Build : CommandStep(o)
           \/ /\ edits < MostEdits[scene]
              /\ \E c \in Edited, v \in Version : Edit(c, v) /\ Untouched
    BY <1>3, <1>5 DEF CommandNext
  <2>2. \E o \in Build : CommandStep(o)
    BY <1>4, <2>1
  <2>3. QED
    BY <2>1, <2>2
<1>7. o = b
  BY <1>6, StepsAreLocal DEF Local, Kept, IInv
<1>8. Join(b)
  <2> USE DEF CommandShapes
  <2>1. CASE \/ \E command \in Commands[scene] : StartCommand(b, command)
             \/ Succeed(b) \/ SkipMacro(b) \/ CompileMacro(b) \/ MacroFails(b)
             \/ LoadDatabase(b) \/ CheckFails(b)
             \/ PostProcess(b) \/ PostProcessFails(b) \/ Unwind(b)
    BY <2>1 DEF StartCommand, Succeed, SkipMacro, CompileMacro, MacroFails, AtMacro,
         LoadDatabase, CheckFails, OtherThanFaults, PostProcess, PostProcessFails,
         Unwind
  <2>2. CASE \/ LoadUnit(b) \/ CompileUnit(b) \/ CompileFails(b) \/ DirectFails(b)
             \/ SaveUnit(b) \/ CutSaveOfUnit(b) \/ FinishUnit(b)
    BY <2>2 DEF LoadUnit, CompileUnit, CompileFails, DirectFails, SaveUnit,
         CutSaveOfUnit, FinishUnit
  <2>3. CASE \/ OpenDirect(b) \/ WriteDirect(b) \/ LoseDirect(b) \/ OpenOffloaded(b)
             \/ WriteOffloaded(b) \/ LoseOffloaded(b) \/ OffloadedFails(b)
    BY <1>1, <2>3 DEF OpenDirect, WriteDirect, LoseDirect, OpenOffloaded, WriteOffloaded,
         LoseOffloaded, OffloadedFails
  <2>4. CASE Offload(b)
    BY <2>4 DEF Offload, Writing
  <2>5. CASE Kill(b)
    BY <2>5 DEF Kill, EndCommand, Move
  <2>6. QED
    BY <1>6, <1>7, <2>1, <2>2, <2>3, <2>4, <2>5 DEF CommandStep
<1>9. ~(writer[b] = "failed" \/ held[b] = "error")
  BY <1>8 DEF Join, EndCommand, Move, CommandShapes
<1>10. QED
  BY <1>6, <1>8, <1>9

LEMMA UnitsLeaveWhole ==
  ASSUME IntendedAreSelected, ArtifactsInv, [CommandNext]_allvars,
         NEW b \in Build
  PROVE  LeavesWhole(b)
<1> SUFFICES ASSUME EndsWell(b), clean[b] PROVE LeavesWhole(b)
  BY DEF LeavesWhole
<1> USE DEF ArtifactsInv, CommandInv
<1>1. Join(b) /\ writer[b] # "failed" /\ held[b] # "error"
  BY EndsInJoin
<1>2. Producing(b) /\ AtWork(b)
  BY <1>1 DEF Producing, EndsWell, AtWork
<1>3. queue[b] = <<>> /\ open[b]["offloader"] = Nobody /\ outs[b] = <<>>
  BY <1>1 DEF Join, Drained, UnitInv, EndsWell
<1>4. ToSet(<<>>) = {}
  BY DEF ToSet
<1>5. Unit(b) \in CairoUnits(scene) /\ scene \in Scenes
  BY <1>2, ProducersAreAtWork
<1>6. program[b].made = program[b].goal
  BY <1>2 DEF ArtifactInv, ProgramInv
<1>7. ASSUME NEW out \in Unshared(ToSet(Outputs(Unit(b))))
      PROVE  \/ out.file \in cut
             \/ \E o \in Build \ {b}, t \in Thread : open[o][t].file = out.file
             \/ Now(out.file) = [state |-> "whole", what |-> out.what,
                                    made |-> program[b].goal]
  <2>1. out # Nobody
    BY <1>5, OutputsAreFiles DEF Unshared
  <2>2. Settled(b, out)
    BY <1>1, <1>2, <1>3, <1>4, <2>1 DEF ArtifactInv, OutputInv
  <2>3. QED
    BY <1>6, <2>2 DEF Settled, Whole
<1>8. ASSUME Unit(b).kind = "starknet-contract"
      PROVE  Intended[scene] \subseteq {out.what : out \in ToSet(Outputs(Unit(b)))}
  <2> DEFINE u == Unit(b)
  <2>1. u \in ToSet(Units[scene]) /\ u.kind = "starknet-contract"
    BY <1>5, <1>8 DEF CairoUnits
  <2> HIDE DEF u
  <2>2. /\ Intended[scene] \subseteq ProjectContracts(u)
        /\ "sierra" \in u.props \/ "casm" \in u.props
    BY <1>5, <2>1 DEF IntendedAreSelected
  <2>3. ProjectContracts(u) \subseteq {out.what : out \in ToSet(Outputs(u))}
    BY <2>1, <2>2, ClassesWritten
  <2>4. QED
    BY <2>2, <2>3 DEF u
<1>9. QED
  BY <1>7, <1>8 DEF LeavesWhole

(* A unit that was built well has left all its artifacts whole and made    *)
(* from the present sources, whatever the offloader, other builds, failing *)
(* disks and kills do beside it (compile.rs, offloader.rs, helpers.rs).    *)
THEOREM ArtifactsStayCurrent ==
  ASSUME IntendedAreSelected
  PROVE  CommandSpec => ArtifactsCurrent
<1>1. ArtifactsInv /\ [CommandNext]_allvars => \A b \in Build : LeavesWhole(b)
  BY UnitsLeaveWhole
<1> DEFINE Good ==
       \A b \in Build :
          step[b] = "join" /\ step'[b] = "next" /\ clean[b] =>
             LET outputs == ToSet(Outputs(Unit(b)))
             IN  /\ Unit(b).kind = "starknet-contract" =>
                       Intended[scene] \subseteq {out.what : out \in outputs}
                 /\ \A out \in Unshared(outputs) :
                       \/ out.file \in cut
                       \/ \E o \in Build \ {b}, t \in Thread :
                             open[o][t].file = out.file
                       \/ Now(out.file) = [state |-> "whole",
                                              what |-> out.what,
                                              made |-> program[b].goal]
<1>2. (\A b \in Build : LeavesWhole(b)) => Good
  BY DEF LeavesWhole, EndsWell
<1>3. ArtifactsInv /\ [CommandNext]_allvars => Good
  BY <1>1, <1>2
<1> HIDE DEF Good
<1>4. CommandSpec => [][Good]_allvars
  BY <1>3, ArtifactsAlways, PTL DEF CommandSpec
<1>5. QED
  BY <1>4 DEF ArtifactsCurrent, Good
==============================================================================
