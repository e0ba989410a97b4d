------------------------- MODULE Extraction_proofs -------------------------
(***************************************************************************)
(* Proofs about Extraction and about the whole PackageCache, for any       *)
(* number of processes, files, revisions and kills, and any scenario.  The *)
(* invariant of Extraction, IInv, allows for processes at places of git or *)
(* of a download, so that it is one of both.                               *)
(***************************************************************************)
EXTENDS PackageCache, TLAPS

(* The places of git and of downloads.                                     *)
Foreign == GitOutside \cup GitInside \cup DlInside \cup {"dl waiting"}

ExtractionTypes ==
    /\ pc \in [Process -> Outside \cup Inside \cup Foreign]
    /\ users \subseteq Process /\ files \subseteq File
    /\ left \in [Process -> SUBSET File]
    /\ ok \in BOOLEAN /\ trampled \in BOOLEAN

(* The lock's users are the processes inside, except for a cleaner that    *)
(* has removed the lock file, and never two at a time.                     *)
OneInside ==
    /\ \A p \in Process : pc[p] \in Inside \ {"cleaning"} => p \in users
    /\ \A p \in users : pc[p] \in Inside \cup GitInside
    /\ \A p, q \in users : p = q

(* Whoever empties or fills the directory found it unmarked.               *)
UnmarkedWhileFilled ==
    \A p \in Process : pc[p] \in {"wiping", "extracting"} => ~ok

MarkedAfterwards ==
    NobodyCleaned =>
        \A p \in Process : pc[p] \in {"marked", "reading"} => ok

(* What the build inside no longer has to extract is on the disk.          *)
NothingForgotten ==
    ~trampled => \A p \in Process :
                 pc[p] = "extracting" => File = files \cup left[p]

(* Cleaners do nothing but clean, and builds never do.                     *)
Roles ==
    \A p \in Process : IF p \in Cleaners
                       THEN pc[p] \in {"start", "cleaning"} \cup Ended
                       ELSE pc[p] \notin {"cleaning", "killed"}

IInv == ExtractionTypes /\ OneInside /\ UnmarkedWhileFilled /\ MarkedAfterwards
               /\ NothingForgotten /\ OkMeansComplete /\ Roles

LEMMA InitTypeOK == Init => TypeOK
<1>1. Init => pc \in [Process -> Outside \cup Inside]
  BY DEF Init, Ended, Outside, Inside
<1>2. Init => crashes \in 0..MaxCrashes
  BY ConstantsAssumption DEF Init, ConstantsAssumption
<1>3. Init => /\ users \subseteq Process /\ files \subseteq File
              /\ left \in [Process -> SUBSET File]
              /\ ok \in BOOLEAN /\ trampled \in BOOLEAN
  BY DEF Init
<1> QED BY <1>1, <1>2, <1>3 DEF TypeOK

LEMMA AbandonedTypeOK ==
    ASSUME TypeOK, NEW p \in Process, ExtractAbandoned(p) PROVE TypeOK'
<1> USE DEF TypeOK, ExtractAbandoned
<1>1. files' \subseteq File /\ left' \in [Process -> SUBSET File]
  OBVIOUS
<1>2. trampled' \in BOOLEAN
  OBVIOUS
<1>3. UNCHANGED <<pc, users, ok, crashes>>
  OBVIOUS
<1> QED BY <1>1, <1>2, <1>3

(* The variables keep their types.                                         *)
THEOREM TypeCorrect == Spec => []TypeOK
<1>1. Init => TypeOK
  BY InitTypeOK
<1>2. TypeOK /\ [Next]_vars => TypeOK'
  <2> SUFFICES ASSUME TypeOK, [Next]_vars PROVE TypeOK'
    OBVIOUS
  <2> USE ConstantsAssumption DEF ConstantsAssumption, TypeOK, Ended, Outside, Inside, Go
  <2>1. ASSUME NEW p \in Process, CheckOk(p) PROVE TypeOK'
    BY <2>1 DEF CheckOk
  <2>2. ASSUME NEW p \in Process, Acquire(p) PROVE TypeOK'
    BY <2>2 DEF Acquire, Lock!Enter
  <2>3. ASSUME NEW p \in Process, CheckAgain(p) PROVE TypeOK'
    BY <2>3 DEF CheckAgain, Lock!Leave
  <2>4. ASSUME NEW p \in Process, Wipe(p) PROVE TypeOK'
    BY <2>4 DEF Wipe
  <2>5. ASSUME NEW p \in Process, Extract(p) PROVE TypeOK'
    BY <2>5 DEF Extract
  <2>6. ASSUME NEW p \in Process, Mark(p) PROVE TypeOK'
    BY <2>6 DEF Mark
  <2>7. ASSUME NEW p \in Process, Release(p) PROVE TypeOK'
    BY <2>7 DEF Release, Lock!Leave
  <2>8. ASSUME NEW p \in Process, Finish(p) PROVE TypeOK'
    BY <2>8 DEF Finish
  <2>9. ASSUME NEW p \in Process, StartCleaning(p) PROVE TypeOK'
    BY <2>9 DEF StartCleaning, Lock!Enter
  <2>10. ASSUME NEW p \in Process, Clean(p) PROVE TypeOK'
    BY <2>10 DEF Clean, Trampling
  <2>11. ASSUME NEW p \in Process, RemoveLockFile(p) \/ EndCleaning(p)
         PROVE TypeOK'
    BY <2>11 DEF RemoveLockFile, EndCleaning, Lock!Leave
  <2>12. ASSUME NEW p \in Process, Fail(p) \/ Abandon(p) PROVE TypeOK'
    BY <2>12 DEF Fail, Abandon, Lock!Expel, Lock!Leave
  <2>15. ASSUME NEW p \in Process, ExtractAbandoned(p) PROVE TypeOK'
    BY <2>15, AbandonedTypeOK
  <2>16. ASSUME NEW p \in Process, EndAbandoned(p) PROVE TypeOK'
    BY <2>16 DEF EndAbandoned
  <2>13. ASSUME NEW p \in Process, Crash(p) PROVE TypeOK'
    BY <2>13 DEF Crash, Lock!Expel
  <2>14. CASE UNCHANGED vars
    BY <2>14 DEF vars
  <2> QED BY <2>1, <2>2, <2>3, <2>4, <2>5, <2>6, <2>7, <2>8,
             <2>9, <2>10, <2>11, <2>12, <2>13, <2>14, <2>15, <2>16
          DEF Next, Step, Over
<1> QED BY <1>1, <1>2, PTL DEF Spec

(* The strengthened invariant is inductive: a step of Extraction keeps it, *)
(* and so does a step of git or of a download that moves one process.      *)
LEMMA ExtractionStep ==
    IInv /\ (\E p \in Process : Step(p) \/ Fail(p) \/ Abandon(p) \/ Crash(p)) => IInv'
<1> SUFFICES ASSUME IInv,
                    \E p \in Process : Step(p) \/ Fail(p) \/ Abandon(p) \/ Crash(p)
             PROVE  IInv'
  OBVIOUS
<1>0. ASSUME NEW p \in Process, NEW place \in Outside \cup Inside, Go(p, place)
      PROVE  /\ pc'[p] = place /\ \A q \in Process : q # p => pc'[q] = pc[q]
             /\ pc' \in [Process -> Outside \cup Inside \cup Foreign]
  BY <1>0 DEF IInv, ExtractionTypes, Go
<1> USE DEF IInv, ExtractionTypes, GitInside,
            OneInside, UnmarkedWhileFilled, MarkedAfterwards, NobodyCleaned,
            NothingForgotten, OkMeansComplete, HalfCleaned, Roles, Ended,
            Outside, Inside
<1> USE ConstantsAssumption DEF ConstantsAssumption
<1>1. ASSUME NEW p \in Process, CheckOk(p) PROVE IInv'
  <2>0. /\ \A q \in Process : q # p => pc'[q] = pc[q]
        /\ pc' \in [Process -> Outside \cup Inside \cup Foreign]
        /\ pc[p] = "start" /\ p \notin Cleaners
        /\ pc'[p] = IF ok THEN "reading" ELSE "waiting"
        /\ users' = users
        /\ files' = files /\ left' = left /\ ok' = ok /\ trampled' = trampled
    BY <1>0, <1>1 DEF CheckOk
  <2>1. ExtractionTypes'
    BY <2>0
  <2>2. OneInside'
    BY <2>0
  <2>3. Roles'
    BY <2>0
  <2>4. UnmarkedWhileFilled' /\ MarkedAfterwards'
    BY <2>0
  <2>5. OkMeansComplete'
    BY <2>0
  <2>6. NothingForgotten'
    BY <2>0
  <2> QED BY <2>1, <2>2, <2>3, <2>4, <2>5, <2>6 DEF IInv
<1>2. ASSUME NEW p \in Process, Acquire(p) PROVE IInv'
  <2>0. /\ \A q \in Process : q # p => pc'[q] = pc[q]
        /\ pc' \in [Process -> Outside \cup Inside \cup Foreign]
        /\ pc[p] = "waiting" /\ pc'[p] = "entered"
        /\ users' = users \cup {p} /\ \A q \in users : q = p
        /\ files' = files /\ left' = left /\ ok' = ok /\ trampled' = trampled
    BY <1>0, <1>2 DEF Acquire, Lock!Enter
  <2>1. ExtractionTypes'
    BY <2>0
  <2>2. OneInside'
    BY <2>0
  <2>3. Roles'
    BY <2>0
  <2>4. UnmarkedWhileFilled' /\ MarkedAfterwards'
    BY <2>0
  <2>5. OkMeansComplete'
    BY <2>0
  <2>6. NothingForgotten'
    BY <2>0
  <2> QED BY <2>1, <2>2, <2>3, <2>4, <2>5, <2>6 DEF IInv
<1>3. ASSUME NEW p \in Process, CheckAgain(p) PROVE IInv'
  <2>0. /\ \A q \in Process : q # p => pc'[q] = pc[q]
        /\ pc' \in [Process -> Outside \cup Inside \cup Foreign]
        /\ pc[p] = "entered"
        /\ \/ ok /\ pc'[p] = "reading" /\ users' = users \ {p}
           \/ ~ok /\ pc'[p] = "wiping" /\ users' = users
        /\ files' = files /\ left' = left /\ ok' = ok /\ trampled' = trampled
    BY <1>0, <1>3 DEF CheckAgain, Lock!Leave
  <2>1. ExtractionTypes'
    BY <2>0
  <2>2. OneInside'
    BY <2>0
  <2>3. Roles'
    BY <2>0
  <2>4. UnmarkedWhileFilled' /\ MarkedAfterwards'
    BY <2>0
  <2>5. OkMeansComplete'
    BY <2>0
  <2>6. NothingForgotten'
    BY <2>0
  <2> QED BY <2>1, <2>2, <2>3, <2>4, <2>5, <2>6 DEF IInv
<1>4. ASSUME NEW p \in Process, Wipe(p) PROVE IInv'
  <2>0. /\ \A q \in Process : q # p => pc'[q] = pc[q]
        /\ pc' \in [Process -> Outside \cup Inside \cup Foreign]
        /\ pc[p] = "wiping" /\ users' = users /\ ok' = ok /\ trampled' = trampled
        /\ \/ pc'[p] = "wiping" /\ left' = left /\ files' \subseteq files
           \/ pc'[p] = "extracting" /\ left' = [left EXCEPT ![p] = File] /\ files' = files
    <3>1. CASE \E f \in files : files' = files \ {f} /\ UNCHANGED <<pc, left>>
      BY <1>4, <3>1 DEF Wipe
    <3>2. CASE /\ files = {} /\ left' = [left EXCEPT ![p] = File]
               /\ Go(p, "extracting") /\ UNCHANGED files
      BY <1>0, <1>4, <3>2 DEF Wipe
    <3> QED BY <1>4, <3>1, <3>2 DEF Wipe
  <2>1. ExtractionTypes'
    <3>1. left' \in [Process -> SUBSET File]
      <4>1. left \in [Process -> SUBSET File]
        OBVIOUS
      <4>2. left' = left \/ left' = [left EXCEPT ![p] = File]
        BY <2>0
      <4> HIDE DEF IInv
      <4> QED BY <4>1, <4>2
    <3> QED BY <2>0, <3>1
  <2>2. OneInside'
    BY <2>0
  <2>3. Roles'
    BY <2>0
  <2>4. UnmarkedWhileFilled' /\ MarkedAfterwards'
    BY <2>0
  <2>5. OkMeansComplete'
    BY <2>0
  <2>6. NothingForgotten'
    <3>1. \A q \in Process : q # p => pc'[q] # "extracting"
      BY <2>0
    <3>2. pc'[p] = "extracting" => left'[p] = File /\ files' \subseteq File
      BY <2>0
    <3> QED BY <3>1, <3>2
  <2> QED BY <2>1, <2>2, <2>3, <2>4, <2>5, <2>6 DEF IInv
<1>5. ASSUME NEW p \in Process, Extract(p) PROVE IInv'
  <2>1. ExtractionTypes'
    <3>1. PICK f \in left[p] : /\ files' = files \cup {f}
                               /\ left' = [left EXCEPT ![p] = @ \ {f}]
      BY <1>5 DEF Extract
    <3>2. files' \subseteq File /\ left' \in [Process -> SUBSET File]
      BY <3>1
    <3> QED BY <1>5, <3>2 DEF Extract
  <2>2. OneInside' /\ Roles'
    BY <1>5 DEF Extract
  <2>3. UnmarkedWhileFilled' /\ MarkedAfterwards'
    BY <1>5 DEF Extract
  <2>4. OkMeansComplete'
    BY <1>5 DEF Extract
  <2>5. NothingForgotten'
    <3>1. \A q \in Process : q # p => pc[q] # "extracting"
      BY <1>5 DEF Extract
    <3>2. PICK f \in left[p] : /\ files' = files \cup {f}
                               /\ left' = [left EXCEPT ![p] = @ \ {f}]
      BY <1>5 DEF Extract
    <3>3. left'[p] = left[p] \ {f}
      BY <3>2
    <3>4. pc[p] = "extracting" /\ UNCHANGED <<pc, trampled>>
      BY <1>5 DEF Extract
    <3>5. f \in File
      BY <3>2
    <3> HIDE DEF Outside, Inside, Foreign, Ended
    <3>6. ASSUME ~trampled PROVE File = files' \cup left'[p]
      <4>1. File = files \cup left[p]
        BY <3>4, <3>6
      <4> QED BY <3>2, <3>3, <4>1
    <3> QED BY <3>1, <3>4, <3>6
  <2> QED BY <2>1, <2>2, <2>3, <2>4, <2>5 DEF IInv
<1>6. ASSUME NEW p \in Process, Mark(p) PROVE IInv'
  <2>0. /\ \A q \in Process : q # p => pc'[q] = pc[q]
        /\ pc' \in [Process -> Outside \cup Inside \cup Foreign]
        /\ pc[p] = "extracting" /\ pc'[p] = "marked" /\ left[p] = {}
        /\ users' = users /\ ok' = TRUE
        /\ files' = files /\ left' = left /\ trampled' = trampled
    BY <1>0, <1>6 DEF Mark
  <2>1. ExtractionTypes'
    BY <2>0
  <2>2. OneInside'
    BY <2>0
  <2>3. Roles'
    BY <2>0
  <2>4. UnmarkedWhileFilled' /\ MarkedAfterwards'
    <3>1. \A q \in Process : pc[q] \in {"wiping", "extracting"} => q = p
      BY <2>0
    <3>2. UnmarkedWhileFilled'
      BY <2>0, <3>1
    <3> QED BY <2>0, <3>2
  <2>5. OkMeansComplete'
    <3>1. ~trampled => File = files \cup left[p]
      BY <2>0
    <3>2. ~trampled => files = File
      BY <2>0, <3>1
    <3> QED BY <2>0, <3>2
  <2>6. NothingForgotten'
    BY <2>0
  <2> QED BY <2>1, <2>2, <2>3, <2>4, <2>5, <2>6 DEF IInv
<1>7. ASSUME NEW p \in Process, Release(p) PROVE IInv'
  <2>0. /\ \A q \in Process : q # p => pc'[q] = pc[q]
        /\ pc' \in [Process -> Outside \cup Inside \cup Foreign]
        /\ pc[p] = "marked" /\ pc'[p] = "reading"
        /\ users' = users \ {p}
        /\ files' = files /\ left' = left /\ ok' = ok /\ trampled' = trampled
    BY <1>0, <1>7 DEF Release, Lock!Leave
  <2>1. ExtractionTypes'
    BY <2>0
  <2>2. OneInside'
    BY <2>0
  <2>3. Roles'
    BY <2>0
  <2>4. UnmarkedWhileFilled' /\ MarkedAfterwards'
    BY <2>0
  <2>5. OkMeansComplete'
    BY <2>0
  <2>6. NothingForgotten'
    BY <2>0
  <2> QED BY <2>1, <2>2, <2>3, <2>4, <2>5, <2>6 DEF IInv
<1>8. ASSUME NEW p \in Process, Finish(p) PROVE IInv'
  <2>0. /\ \A q \in Process : q # p => pc'[q] = pc[q]
        /\ pc' \in [Process -> Outside \cup Inside \cup Foreign]
        /\ pc[p] = "reading" /\ pc'[p] = "done"
        /\ users' = users
        /\ files' = files /\ left' = left /\ ok' = ok /\ trampled' = trampled
    BY <1>0, <1>8 DEF Finish
  <2>1. ExtractionTypes'
    BY <2>0
  <2>2. OneInside'
    BY <2>0
  <2>3. Roles'
    BY <2>0
  <2>4. UnmarkedWhileFilled' /\ MarkedAfterwards'
    BY <2>0
  <2>5. OkMeansComplete'
    BY <2>0
  <2>6. NothingForgotten'
    BY <2>0
  <2> QED BY <2>1, <2>2, <2>3, <2>4, <2>5, <2>6 DEF IInv
<1>9. ASSUME NEW p \in Process, Fail(p) PROVE IInv'
  <2>0. /\ \A q \in Process : q # p => pc'[q] = pc[q]
        /\ pc' \in [Process -> Outside \cup Inside \cup Foreign]
        /\ pc[p] \in {"wiping", "extracting", "cleaning"} /\ pc'[p] = "failed"
        /\ users' = users \ {p}
        /\ files' = files /\ left' = left /\ ok' = ok /\ trampled' = trampled
    BY <1>0, <1>9 DEF Fail, Lock!Expel
  <2>1. ExtractionTypes'
    BY <2>0
  <2>2. OneInside'
    BY <2>0
  <2>3. Roles'
    BY <2>0
  <2>4. UnmarkedWhileFilled' /\ MarkedAfterwards'
    BY <2>0
  <2>5. OkMeansComplete'
    BY <2>0
  <2>6. NothingForgotten'
    BY <2>0
  <2> QED BY <2>1, <2>2, <2>3, <2>4, <2>5, <2>6 DEF IInv
<1>10. ASSUME NEW p \in Process, Abandon(p) PROVE IInv'
  <2>0. /\ \A q \in Process : q # p => pc'[q] = pc[q]
        /\ pc' \in [Process -> Outside \cup Inside \cup Foreign]
        /\ pc[p] = "extracting" /\ pc'[p] = "orphan"
        /\ users' = users \ {p}
        /\ files' = files /\ left' = left /\ ok' = ok /\ trampled' = trampled
    BY <1>0, <1>10 DEF Abandon, Lock!Leave
  <2>1. ExtractionTypes'
    BY <2>0
  <2>2. OneInside'
    BY <2>0
  <2>3. Roles'
    BY <2>0
  <2>4. UnmarkedWhileFilled' /\ MarkedAfterwards'
    BY <2>0
  <2>5. OkMeansComplete'
    BY <2>0
  <2>6. NothingForgotten'
    BY <2>0
  <2> QED BY <2>1, <2>2, <2>3, <2>4, <2>5, <2>6 DEF IInv
<1>11. ASSUME NEW p \in Process, ExtractAbandoned(p) PROVE IInv'
  <2>1. UNCHANGED <<pc, users, ok>>
    BY <1>11 DEF ExtractAbandoned
  <2>2. ExtractionTypes'
    <3>1. files' \subseteq File /\ left' \in [Process -> SUBSET File]
      <4>1. CASE \E f \in left[p] \cap files :
                     files' = files \ {f} /\ UNCHANGED left
        BY <4>1
      <4>2. CASE \E f \in left[p] \ files :
                     /\ files' = files \cup {f}
                     /\ left' = [left EXCEPT ![p] = @ \ {f}]
        <5>1. PICK f \in left[p] : /\ files' = files \cup {f}
                                  /\ left' = [left EXCEPT ![p] = left[p] \ {f}]
          BY <4>2
        <5>2. left \in [Process -> SUBSET File] /\ files \subseteq File
          OBVIOUS
        <5>3. left[p] \in SUBSET File
          BY <5>2
        <5> HIDE DEF IInv, ExtractionTypes
        <5> QED BY <5>1, <5>2, <5>3
      <4> QED BY <1>11, <4>1, <4>2 DEF ExtractAbandoned
    <3>2. trampled' \in BOOLEAN
      BY <1>11 DEF ExtractAbandoned
    <3> QED BY <2>1, <3>1, <3>2
  <2>3. OneInside' /\ Roles' /\ UnmarkedWhileFilled' /\ MarkedAfterwards'
    BY <2>1
  <2>4. CASE ok \/ users # {}
    <3>1. trampled' = TRUE
      BY <1>11, <2>4 DEF ExtractAbandoned
    <3> QED BY <2>2, <2>3, <3>1
  <2>5. CASE ~ok /\ users = {}
    <3>1. \A q \in Process : pc[q] # "extracting"
      BY <2>5
    <3>2. OkMeansComplete' /\ NothingForgotten'
      BY <2>1, <2>5, <3>1
    <3> QED BY <2>2, <2>3, <3>2
  <2> QED BY <2>4, <2>5
<1>12. ASSUME NEW p \in Process, EndAbandoned(p) PROVE IInv'
  <2>0. /\ \A q \in Process : q # p => pc'[q] = pc[q]
        /\ pc' \in [Process -> Outside \cup Inside \cup Foreign]
        /\ pc[p] = "orphan" /\ pc'[p] = "failed"
        /\ users' = users
        /\ files' = files /\ left' = left /\ ok' = ok /\ trampled' = trampled
    BY <1>0, <1>12 DEF EndAbandoned
  <2>1. ExtractionTypes'
    BY <2>0
  <2>2. OneInside'
    BY <2>0
  <2>3. Roles'
    BY <2>0
  <2>4. UnmarkedWhileFilled' /\ MarkedAfterwards'
    BY <2>0
  <2>5. OkMeansComplete'
    BY <2>0
  <2>6. NothingForgotten'
    BY <2>0
  <2> QED BY <2>1, <2>2, <2>3, <2>4, <2>5, <2>6 DEF IInv
<1>13. ASSUME NEW p \in Process, StartCleaning(p) PROVE IInv'
  <2>0. /\ \A q \in Process : q # p => pc'[q] = pc[q]
        /\ pc' \in [Process -> Outside \cup Inside \cup Foreign]
        /\ pc[p] = "start" /\ pc'[p] = "cleaning" /\ p \in Cleaners
        /\ users' = users \cup {p} /\ \A q \in users : q = p
        /\ files' = files /\ left' = left /\ ok' = ok /\ trampled' = trampled
    BY <1>0, <1>13 DEF StartCleaning, Lock!Enter
  <2>1. ExtractionTypes'
    BY <2>0
  <2>2. OneInside'
    BY <2>0
  <2>3. Roles'
    BY <2>0
  <2>4. UnmarkedWhileFilled' /\ MarkedAfterwards'
    BY <2>0
  <2>5. OkMeansComplete'
    BY <2>0
  <2>6. NothingForgotten'
    BY <2>0
  <2> QED BY <2>1, <2>2, <2>3, <2>4, <2>5, <2>6 DEF IInv
<1>14. ASSUME NEW p \in Process, Clean(p) PROVE IInv'
  <2>0. p \in Cleaners /\ pc[p] = "cleaning" /\ UNCHANGED <<pc, users, left>>
    BY <1>14 DEF Clean
  <2>1. ExtractionTypes'
    BY <1>14, <2>0 DEF Clean, Trampling
  <2>2. OneInside' /\ Roles'
    BY <2>0
  <2>3. UnmarkedWhileFilled' /\ MarkedAfterwards'
    <3>1. ok' => ok
      BY <1>14 DEF Clean
    <3>2. ~NobodyCleaned'
      BY <2>0
    <3> QED BY <2>0, <3>1, <3>2
  <2>4. OkMeansComplete'
    <3>1. HalfCleaned'
      BY <2>0
    <3> QED BY <3>1
  <2>5. NothingForgotten'
    <3> SUFFICES ASSUME ~trampled', NEW q \in Process, pc[q] = "extracting"
                 PROVE  File = files' \cup left[q]
      BY <2>0
    <3>1. q \in users /\ q \notin Cleaners
      OBVIOUS
    <3>2. ~Trampling
      BY <3>1 DEF Trampling
    <3> QED BY <1>14, <3>2 DEF Clean
  <2> QED BY <2>1, <2>2, <2>3, <2>4, <2>5 DEF IInv
<1>15. ASSUME NEW p \in Process, RemoveLockFile(p) PROVE IInv'
  <2>1. ExtractionTypes'
    BY <1>15 DEF RemoveLockFile, Lock!Leave
  <2>2. OneInside' /\ Roles'
    BY <1>15 DEF RemoveLockFile, Lock!Leave
  <2>3. UnmarkedWhileFilled' /\ MarkedAfterwards'
    BY <1>15 DEF RemoveLockFile, Lock!Leave
  <2>4. OkMeansComplete'
    BY <1>15 DEF RemoveLockFile, Lock!Leave
  <2>5. NothingForgotten'
    BY <1>15 DEF RemoveLockFile, Lock!Leave
  <2> QED BY <2>1, <2>2, <2>3, <2>4, <2>5 DEF IInv
<1>16. ASSUME NEW p \in Process, EndCleaning(p) PROVE IInv'
  <2>0. /\ \A q \in Process : q # p => pc'[q] = pc[q]
        /\ pc' \in [Process -> Outside \cup Inside \cup Foreign]
        /\ pc[p] = "cleaning" /\ pc'[p] = "done" /\ p \notin users
        /\ users' = users /\ ~ok
        /\ files' = files /\ left' = left /\ ok' = ok /\ trampled' = trampled
    BY <1>0, <1>16 DEF EndCleaning
  <2>1. ExtractionTypes'
    BY <2>0
  <2>2. OneInside'
    BY <2>0
  <2>3. Roles'
    BY <2>0
  <2>4. UnmarkedWhileFilled' /\ MarkedAfterwards'
    BY <2>0
  <2>5. OkMeansComplete'
    BY <2>0
  <2>6. NothingForgotten'
    BY <2>0
  <2> QED BY <2>1, <2>2, <2>3, <2>4, <2>5, <2>6 DEF IInv
<1>17. ASSUME NEW p \in Process, Crash(p) PROVE IInv'
  <2>0. /\ \A q \in Process : q # p => pc'[q] = pc[q]
        /\ pc' \in [Process -> Outside \cup Inside \cup Foreign]
        /\ pc[p] \in Inside \cup {"orphan"}
        /\ pc'[p] = IF p \in Cleaners THEN "killed" ELSE "start"
        /\ users' = users \ {p}
        /\ files' = files /\ left' = left /\ ok' = ok /\ trampled' = trampled
    BY <1>0, <1>17 DEF Crash, Lock!Expel
  <2>1. ExtractionTypes'
    BY <2>0
  <2>2. OneInside'
    BY <2>0
  <2>3. Roles'
    BY <2>0
  <2>4. UnmarkedWhileFilled' /\ MarkedAfterwards'
    BY <2>0
  <2>5. OkMeansComplete'
    BY <2>0
  <2>6. NothingForgotten'
    BY <2>0
  <2> QED BY <2>1, <2>2, <2>3, <2>4, <2>5, <2>6 DEF IInv
<1> QED BY <1>1, <1>2, <1>3, <1>4, <1>5, <1>6, <1>7, <1>8, <1>9, <1>10,
           <1>11, <1>12, <1>13, <1>14, <1>15, <1>16, <1>17 DEF Step

LEMMA Inductive == Spec => []IInv
<1>1. Init => IInv
  BY InitTypeOK
     DEF Init, IInv, TypeOK, ExtractionTypes, Inside, OneInside, UnmarkedWhileFilled,
         MarkedAfterwards, NobodyCleaned, NothingForgotten,
         OkMeansComplete, HalfCleaned, Roles, Ended
<1>2. IInv /\ UNCHANGED vars => IInv'
  BY DEF vars, IInv, ExtractionTypes, OneInside, UnmarkedWhileFilled,
         MarkedAfterwards, NobodyCleaned, NothingForgotten,
         OkMeansComplete, HalfCleaned, Roles
<1>3. IInv /\ [Next]_vars => IInv'
  BY <1>2, ExtractionStep DEF Next, Over
<1> QED BY <1>1, <1>3, PTL DEF Spec

(* Extraction, for any number of processes, files and kills: the mark is   *)
(* only there when all the files are, unless a cleaner stopped half-way.   *)
THEOREM MarkIsHonest == Spec => []OkMeansComplete
<1>1. Spec => []IInv
  BY Inductive
<1>2. IInv => OkMeansComplete
  BY DEF IInv
<1> QED BY <1>1, <1>2, PTL

(* No build wipes the directory under a process that reads it.             *)
THEOREM ReadersSafe == Spec => []ReadersFindAll
<1>1. Spec => []IInv
  BY Inductive
<1>2. IInv => ReadersFindAll
  BY ConstantsAssumption
     DEF ConstantsAssumption, IInv, ReadersFindAll, MarkedAfterwards,
         NobodyCleaned, OkMeansComplete, HalfCleaned
<1> QED BY <1>1, <1>2, PTL
-----------------------------------------------------------------------------
(* The whole cache                                                         *)

(* The holder of the lock, or a thread that was left behind.               *)
GitAlone ==
    /\ \A p \in Process : pc[p] \in GitInside => p \in users \cup abandoned
    /\ \A p \in abandoned : pc[p] \in GitInside /\ p \notin users
    /\ ~trampled => \A p, q \in Process :
           pc[p] \in GitInside /\ pc[q] \in GitInside => p = q

(* How far the checkout of a process is.                                   *)
BuildingAt(place, r) ==
    /\ place = "git wiping" /\ ~HalfCleaned => r \notin marked
    /\ place \in {"git cloning", "git resetting"} => Gone(r)
    /\ place = "git heading" => checkout[r] = {"files"} /\ r \notin marked
    /\ place = "git marking" => checkout[r] = Parts /\ r \notin marked
    /\ place = "git ready" => r \in marked

Building == ~trampled => \A p \in Process : BuildingAt(pc[p], rev[p])

MarkedComplete ==
    ~HalfCleaned /\ ~trampled => \A r \in marked : checkout[r] = Parts

ReadersMarked ==
    NobodyCleaned /\ ~trampled =>
        \A p \in Process : pc[p] = "git reading" => rev[p] \in marked

GitInv == GitTypeOK /\ GitAlone /\ Building /\ MarkedComplete /\ ReadersMarked

(* The revision a process has chosen is right from the moment it chose it. *)
Chosen == {"git chosen", "git wiping", "git cloning", "git resetting",
           "git heading", "git marking", "git ready", "git reading"}

RightChoice(p, r) ==
    /\ r \in Rev
    /\ IF Locks(p) THEN r = wanted[p] \/ wanted[p] \in dropped
       ELSE p \in offline \/ r \in since[p]

RevInv ==
    /\ \A p \in Process : Locks(p) => wanted[p] \in history \cup dropped
    /\ \A p \in Process : pc[p] \in GitInside /\ ~Locks(p) => tip \in since[p]
    /\ \A p \in Process : pc[p] \in Chosen => RightChoice(p, rev[p])

(* A process extracts what it has verified, or what it found.              *)
Extracts == Inside \cup (Outside \ Ended)

GoodArchive(p) == got[p] \in {"partial", "right"} \/ (suspect /\ got[p] = "wrong")

SourcesInv ==
    /\ DownloadTypeOK
    /\ \A p \in Process : role[p] = "registry" /\ pc[p] \in Extracts => GoodArchive(p)
    /\ ~suspect => sources \in {"absent", "right"}

-----------------------------------------------------------------------------
(* IInv, kept by git and downloads                                         *)

(* A build goes from place to place, and touches nothing of Extraction but *)
(* the lock.                                                               *)
Away(p) == pc[p] # "cleaning" /\ p \notin Cleaners

LockKept(p) ==
    /\ users' \subseteq users \cup {p} /\ users \ {p} \subseteq users'
    /\ p \in users' => (p \in users \/ users = {}) /\ pc'[p] \in GitInside

DiskKept ==
    /\ UNCHANGED <<files, left, ok>>
    /\ trampled' \in BOOLEAN /\ (trampled => trampled')

ForeignStep(p) ==
    /\ Away(p) /\ LockKept(p) /\ DiskKept
    /\ \E place \in Foreign \cup {"start", "done", "failed"} : Go(p, place)

LEMMA ForeignStepKeeps ==
    ASSUME IInv, NEW p \in Process, ForeignStep(p) PROVE IInv'
<1>1. PICK place \in Foreign \cup {"start", "done", "failed"} : Go(p, place)
  BY DEF ForeignStep
<1>2. /\ pc'[p] = place
      /\ \A q \in Process : q # p => pc'[q] = pc[q]
      /\ pc' \in [Process -> Outside \cup Inside \cup Foreign]
  BY <1>1 DEF IInv, ExtractionTypes, Go, Outside, Ended
<1>3. place \notin Inside \cup {"reading", "killed"}
  BY DEF Foreign, GitInside, GitOutside, DlInside, Inside
<1>4. p \notin Cleaners /\ UNCHANGED <<files, left, ok>> /\ (trampled => trampled')
  BY DEF ForeignStep, Away, DiskKept
<1>5. ExtractionTypes'
  BY <1>2 DEF IInv, ExtractionTypes, ForeignStep, LockKept, DiskKept
<1>6. OneInside'
  <2>1. \A q \in Process : pc'[q] \in Inside \ {"cleaning"} => q \in users'
    BY <1>2, <1>3 DEF IInv, OneInside, ForeignStep, LockKept
  <2>2. \A q \in users' : pc'[q] \in Inside \cup GitInside
    BY <1>2, <1>3 DEF IInv, OneInside, ExtractionTypes, ForeignStep, LockKept
  <2>3. \A q, r \in users' : q = r
    BY DEF IInv, OneInside, ForeignStep, LockKept
  <2> QED BY <2>1, <2>2, <2>3 DEF OneInside
<1>7. UnmarkedWhileFilled' /\ NothingForgotten'
  BY <1>2, <1>3, <1>4 DEF IInv, UnmarkedWhileFilled, NothingForgotten, Inside
<1>8. \A c \in Cleaners : pc'[c] = pc[c]
  BY <1>2, <1>4, ConstantsAssumption DEF ConstantsAssumption
<1>9. MarkedAfterwards'
  BY <1>2, <1>3, <1>4, <1>8 DEF IInv, MarkedAfterwards, NobodyCleaned, Inside
<1>10. OkMeansComplete'
  BY <1>4, <1>8 DEF IInv, OkMeansComplete, HalfCleaned
<1>11. Roles'
  BY <1>2, <1>3, <1>4 DEF IInv, Roles, Inside
<1> QED BY <1>5, <1>6, <1>7, <1>9, <1>10, <1>11 DEF IInv

(* Nobody goes anywhere.                                                   *)
LEMMA StandingKeeps ==
    ASSUME IInv, UNCHANGED <<pc, users>>, DiskKept PROVE IInv'
<1> QED BY DEF IInv, ExtractionTypes, OneInside, UnmarkedWhileFilled,
              MarkedAfterwards, NobodyCleaned, NothingForgotten,
              OkMeansComplete, HalfCleaned, Roles, DiskKept

(* Moves of git under the lock, or of a thread that was left behind.       *)
InsideMove(p) ==
    /\ pc[p] \in GitInside
    /\ \E place \in GitInside : Go(p, place)
    /\ UNCHANGED <<users, files, left, ok, trampled, abandoned>>

WorkInside(p) ==
    \/ UseDatabase(p) \/ ResolveOffline(p) \/ Update(p)
    \/ StartAnew(p) \/ RemoveDatabase(p) \/ InitBare(p) \/ FetchAnew(p)
    \/ UseCheckout(p) \/ Reclone(p) \/ WipeCheckout(p) \/ Clone(p)
    \/ ResetFiles(p) \/ ResetHead(p) \/ MarkCheckout(p)

LEMMA WorkMovesInside ==
    ASSUME NEW p \in Process, WorkInside(p) PROVE InsideMove(p)
<1> USE DEF InsideMove, GoInside, Idle, KeepLock, GitInside
<1>1. CASE UseDatabase(p) \/ ResolveOffline(p) \/ Update(p) \/ StartAnew(p)
  BY <1>1 DEF UseDatabase, ResolveOffline, Update, StartAnew
<1>2. CASE RemoveDatabase(p) \/ InitBare(p) \/ FetchAnew(p)
  BY <1>2 DEF RemoveDatabase, InitBare, FetchAnew
<1>3. CASE UseCheckout(p) \/ Reclone(p) \/ WipeCheckout(p) \/ Clone(p)
  BY <1>3 DEF UseCheckout, Reclone, WipeCheckout, Clone, gitVars
<1>4. CASE ResetFiles(p) \/ ResetHead(p) \/ MarkCheckout(p)
  BY <1>4 DEF ResetFiles, ResetHead, MarkCheckout
<1> QED BY <1>1, <1>2, <1>3, <1>4 DEF WorkInside

LEMMA GitPlacesAway ==
    ASSUME IInv, NEW p \in Process, pc[p] \in GitInside \cup GitOutside PROVE Away(p)
<1> QED BY DEF IInv, Roles, Away, GitInside, GitOutside, Ended

LEMMA InsideMoveIsForeign ==
    ASSUME IInv, NEW p \in Process, InsideMove(p) PROVE ForeignStep(p)
<1>1. Away(p)
  BY GitPlacesAway DEF InsideMove
<1>2. PICK place \in GitInside : Go(p, place)
  BY DEF InsideMove
<1>3. pc'[p] \in GitInside
  BY <1>2 DEF Go, IInv, ExtractionTypes
<1> QED BY <1>1, <1>2, <1>3
        DEF ForeignStep, InsideMove, LockKept, DiskKept, Foreign, IInv, ExtractionTypes

(* A build of git that is over, one way or the other.                      *)
GitEnd(p) ==
    /\ pc[p] \in GitInside \cup {"git reading"}
    /\ \E place \in {"done", "failed", "git waiting"} : Go(p, place)
    /\ users' = users \ {p}
    /\ UNCHANGED <<files, left, ok, trampled>> /\ Forget(p)

LEMMA GitEnds ==
    ASSUME IInv, NEW p \in Process,
           \/ FinishGit(p) \/ FailGit(p) \/ EndAbandonedGit(p) \/ CrashGit(p),
           EndAbandonedGit(p) => p \notin users
    PROVE  GitEnd(p)
<1>0. Lock!Expel(p) => users' = users \ {p}
  BY DEF Lock!Expel, IInv, ExtractionTypes
<1>1. CASE FinishGit(p)
  <2>1. p \notin users
    BY <1>1 DEF IInv, OneInside, FinishGit, GoInside, Inside, GitInside
  <2> QED BY <1>1, <2>1 DEF FinishGit, GitEnd, GoInside, Idle, KeepLock
<1>2. CASE FailGit(p)
  BY <1>0, <1>2 DEF FailGit, GitEnd, Idle
<1>3. CASE EndAbandonedGit(p)
  BY <1>3 DEF EndAbandonedGit, GitEnd, Idle, KeepLock, GitInside
<1>4. CASE CrashGit(p)
  BY <1>0, <1>4 DEF CrashGit, GitEnd
<1> QED BY <1>1, <1>2, <1>3, <1>4

LEMMA GitEndIsForeign ==
    ASSUME IInv, NEW p \in Process, GitEnd(p) PROVE ForeignStep(p)
<1>1. Away(p)
  BY GitPlacesAway DEF GitEnd, GitOutside
<1>2. LockKept(p) /\ DiskKept
  BY DEF GitEnd, LockKept, DiskKept, IInv, ExtractionTypes
<1>3. \E place \in Foreign \cup {"start", "done", "failed"} : Go(p, place)
  BY DEF GitEnd, Foreign, GitOutside
<1> QED BY <1>1, <1>2, <1>3 DEF ForeignStep

LEMMA AcquireIsForeign ==
    ASSUME IInv, NEW p \in Process, AcquireForGit(p) PROVE ForeignStep(p)
<1>1. Away(p)
  BY GitPlacesAway DEF AcquireForGit, GitOutside
<1>2. pc'[p] \in GitInside
  BY DEF AcquireForGit, Go, GitInside, IInv, ExtractionTypes
<1>3. LockKept(p)
  BY <1>2 DEF AcquireForGit, Lock!Enter, LockKept, IInv, ExtractionTypes
<1>4. DiskKept
  BY DEF AcquireForGit, DiskKept, IInv, ExtractionTypes
<1>5. \E place \in Foreign \cup {"start", "done", "failed"} : Go(p, place)
  BY DEF AcquireForGit, Foreign, GitInside
<1> QED BY <1>1, <1>3, <1>4, <1>5 DEF ForeignStep

LEMMA LeaveIsForeign ==
    ASSUME IInv, NEW p \in Process, LeaveGit(p) PROVE ForeignStep(p)
<1>1. Away(p)
  BY GitPlacesAway DEF LeaveGit, GitInside
<1>2. LockKept(p) /\ DiskKept
  BY DEF LeaveGit, Lock!Leave, LockKept, DiskKept, Idle, IInv, ExtractionTypes
<1>3. \E place \in Foreign \cup {"start", "done", "failed"} : Go(p, place)
  BY DEF LeaveGit, Foreign, GitOutside
<1> QED BY <1>1, <1>2, <1>3 DEF ForeignStep

LEMMA AbandonIsForeign ==
    ASSUME IInv, NEW p \in Process, AbandonGit(p) PROVE ForeignStep(p)
<1>1. Away(p)
  BY GitPlacesAway DEF AbandonGit
<1>2. LockKept(p) /\ DiskKept
  BY DEF AbandonGit, Lock!Leave, LockKept, DiskKept, Idle, IInv, ExtractionTypes
<1>3. Go(p, pc[p]) /\ pc[p] \in Foreign
  BY DEF AbandonGit, Foreign, Go, IInv, ExtractionTypes
<1> QED BY <1>1, <1>2, <1>3 DEF ForeignStep

(* Downloads.                                                              *)
DlMove(p) ==
    /\ pc[p] \in DlInside \cup {"dl waiting"}
    /\ \E place \in DlInside \cup {"start", "failed"} : Go(p, place)
    /\ OnlyDownloading

LEMMA DlMoves ==
    ASSUME NEW p \in Process,
           \/ OpenDatabase(p) \/ UseDownloaded(p) \/ Request(p)
           \/ EndDownload(p) \/ VerifyDownload(p) \/ FailDownload(p)
    PROVE  DlMove(p)
<1> QED BY DEF DlMove, DlInside, OpenDatabase, UseDownloaded, Request,
              EndDownload, VerifyDownload, FailDownload

LEMMA DlMoveIsForeign ==
    ASSUME IInv, NEW p \in Process, DlMove(p) PROVE ForeignStep(p)
<1>1. Away(p)
  BY DEF DlMove, IInv, Roles, Away, DlInside, Ended
<1>2. p \notin users
  BY DEF DlMove, IInv, OneInside, DlInside, Inside, GitInside
<1>3. LockKept(p) /\ DiskKept
  BY <1>2
     DEF DlMove, OnlyDownloading, LockKept, DiskKept, IInv, ExtractionTypes
<1>4. \E place \in Foreign \cup {"start", "done", "failed"} : Go(p, place)
  BY DEF DlMove, Foreign
<1> QED BY <1>1, <1>3, <1>4 DEF ForeignStep

LEMMA CrashIsForeign ==
    ASSUME IInv, NEW p \in Process, CrashDownload(p) PROVE ForeignStep(p)
<1>1. Away(p)
  BY DEF CrashDownload, IInv, Roles, Away, DlInside, Inside, Ended
<1>2. LockKept(p) /\ DiskKept
  BY DEF CrashDownload, Lock!Expel, LockKept, DiskKept, IInv, ExtractionTypes
<1>3. \E place \in Foreign \cup {"start", "done", "failed"} : Go(p, place)
  BY DEF CrashDownload, Foreign
<1> QED BY <1>1, <1>2, <1>3 DEF ForeignStep

-----------------------------------------------------------------------------
(* What kinds of steps the cache takes                                     *)

(* Whoever has cleaned the cache leaves nothing of git behind.             *)
ExtractionKind(p) ==
    /\ Step(p) \/ Fail(p) \/ Abandon(p) \/ Crash(p)
    /\ UNCHANGED gitVars
    /\ pc[p] = "cleaning" /\ pc'[p] = "done" => GitCleaned

GitKind(p) ==
    \/ WorkInside(p) \/ AcquireForGit(p) \/ LeaveGit(p) \/ AbandonGit(p)
    \/ GitEnd(p)

DownloadKind(p) ==
    (DlMove(p) \/ CrashDownload(p)) /\ UNCHANGED gitVars

SilentKind == UNCHANGED <<vars, gitVars>>

LEMMA GitKinds ==
    ASSUME IInv, GitAlone, NEW p \in Process,
           GitStep(p) \/ FailGit(p) \/ AbandonGit(p) \/ CrashGit(p)
    PROVE  GitKind(p)
<1>1. EndAbandonedGit(p) => p \notin users
  BY DEF GitAlone, EndAbandonedGit
<1> QED BY <1>1, GitEnds DEF GitStep, GitKind, WorkInside

LEMMA CacheKinds ==
    ASSUME IInv, GitAlone, role \in Scenarios, [CacheNext]_cacheVars
    PROVE  \/ \E p \in Process : \/ ExtractionKind(p) \/ GitKind(p)
                                 \/ DownloadKind(p) \/ CleanGit(p)
           \/ Push \/ SilentKind
<1> DEFINE Kinds(p) == \/ ExtractionKind(p) \/ GitKind(p)
                       \/ DownloadKind(p) \/ CleanGit(p)
                       \/ SilentKind
<1>1. ASSUME NEW p \in Process, role[p] \notin {"cleaner", "none"}
      PROVE  pc[p] # "cleaning"
  BY <1>1, ScenariosAssumption DEF IInv, Roles
<1>2. ASSUME NEW p \in Process, CacheStep(p) PROVE Kinds(p)
  <2>1. CASE role[p] = "std" /\ StdStep(p)
    BY <1>1, <2>1 DEF StdStep, ExtractionKind
  <2>2. CASE CleanerStep(p)
    <3>1. CASE (StartCleaning(p) \/ Clean(p) \/ RemoveLockFile(p))
                   /\ UNCHANGED <<gitVars, dlVars>>
      <4>1. ~(pc[p] = "cleaning" /\ pc'[p] = "done")
        BY <3>1 DEF StartCleaning, Clean, RemoveLockFile
      <4> QED BY <3>1, <4>1 DEF ExtractionKind, Step
    <3>2. CASE CleanArchive(p) /\ UNCHANGED gitVars
      BY <3>2 DEF CleanArchive, SilentKind
    <3>3. CASE EndCleaning(p) /\ GitCleaned /\ UNCHANGED <<gitVars, dlVars>>
      BY <3>3 DEF ExtractionKind, Step
    <3> QED BY <2>2, <3>1, <3>2, <3>3 DEF CleanerStep
  <2>3. CASE GitStep(p)
    BY <2>3, GitKinds
  <2>4. CASE role[p] = "registry" /\ DownloadStep(p) /\ UNCHANGED gitVars
    <3>1. pc[p] # "cleaning"
      BY <1>1, <2>4
    <3>2. CASE \/ OpenDatabase(p) \/ UseDownloaded(p) \/ Request(p)
               \/ EndDownload(p) \/ VerifyDownload(p)
               \/ (pc[p] = "dl verifying" /\ got[p] = "wrong" /\ FailDownload(p))
      BY <2>4, <3>2, DlMoves DEF DownloadKind
    <3>3. CASE SaveChunk(p) \/ CloseDatabase(p)
      BY <2>4, <3>3
         DEF SaveChunk, CloseDatabase, OnlyDownloading, SilentKind, vars
    <3>4. CASE MarkSources(p) \/ ExtractStep(p) \/ FinishReading(p)
               \/ (pc[p] = "extracting" /\ got[p] = "partial" /\ FailExtraction(p))
      BY <2>4, <3>1, <3>4
         DEF MarkSources, ExtractStep, FinishReading, FailExtraction,
             ExtractionKind, Step
    <3> QED BY <2>4, <3>2, <3>3, <3>4 DEF DownloadStep, Rejected
  <2> QED BY <1>2, <2>1, <2>2, <2>3, <2>4 DEF CacheStep
<1>3. ASSUME NEW p \in Process, CacheFail(p) PROVE Kinds(p)
  <2>1. CASE Fail(p) /\ UNCHANGED <<gitVars, dlVars>>
    <3>1. pc[p] = "cleaning" => pc'[p] # "done"
      BY <2>1 DEF Fail, Go, IInv, ExtractionTypes
    <3> QED BY <2>1, <3>1 DEF ExtractionKind
  <2>2. CASE FailGit(p) \/ AbandonGit(p)
    BY <2>2, GitKinds
  <2>3. CASE /\ role[p] = "registry" /\ UNCHANGED gitVars
             /\ FailExtraction(p) \/ AbandonExtraction(p)
    BY <1>1, <2>3 DEF FailExtraction, AbandonExtraction, ExtractionKind
  <2>4. CASE FailDownload(p) /\ UNCHANGED gitVars
    BY <2>4, DlMoves DEF DownloadKind
  <2> QED BY <1>3, <2>1, <2>2, <2>3, <2>4 DEF CacheFail
<1>4. ASSUME NEW p \in Process, CacheCrash(p) PROVE Kinds(p)
  <2>1. CASE Crash(p) /\ UNCHANGED <<gitVars, dlVars>>
    <3>1. pc[p] = "cleaning" => pc'[p] # "done"
      BY <2>1 DEF Crash, Go, IInv, ExtractionTypes
    <3> QED BY <2>1, <3>1 DEF ExtractionKind
  <2>2. CASE CrashGit(p)
    BY <2>2, GitKinds
  <2>3. CASE CrashDownload(p) /\ UNCHANGED gitVars
    BY <2>3 DEF DownloadKind
  <2> QED BY <1>4, <2>1, <2>2, <2>3 DEF CacheCrash
<1>5. CASE Pushed
  BY <1>5 DEF Pushed
<1>6. CASE UNCHANGED cacheVars
  BY <1>6 DEF cacheVars, SilentKind
<1> QED BY <1>2, <1>3, <1>4, <1>5, <1>6 DEF CacheNext, CacheOver

LEMMA CacheKeepsIInv ==
    ASSUME IInv, GitAlone, role \in Scenarios, [CacheNext]_cacheVars PROVE IInv'
<1>1. ASSUME NEW p \in Process, ExtractionKind(p) PROVE IInv'
  BY <1>1, ExtractionStep DEF ExtractionKind
<1>2. ASSUME NEW p \in Process, GitKind(p) PROVE IInv'
  <2>1. ForeignStep(p)
    BY <1>2, WorkMovesInside, InsideMoveIsForeign, AcquireIsForeign,
       LeaveIsForeign, AbandonIsForeign, GitEndIsForeign DEF GitKind
  <2> QED BY <2>1, ForeignStepKeeps
<1>3. ASSUME NEW p \in Process, DownloadKind(p) PROVE IInv'
  <2>1. ForeignStep(p)
    BY <1>3, DlMoveIsForeign, CrashIsForeign DEF DownloadKind
  <2> QED BY <2>1, ForeignStepKeeps
<1>4. ASSUME NEW p \in Process, CleanGit(p) PROVE IInv'
  <2>1. UNCHANGED <<pc, users>> /\ DiskKept
    BY <1>4 DEF CleanGit, Trampling, DiskKept, IInv, ExtractionTypes
  <2> QED BY <2>1, StandingKeeps
<1>5. CASE Push \/ SilentKind
  <2>1. UNCHANGED vars
    BY <1>5 DEF Push, SilentKind
  <2>2. UNCHANGED <<pc, users>> /\ DiskKept
    BY <2>1 DEF vars, DiskKept, IInv, ExtractionTypes
  <2> QED BY <2>2, StandingKeeps
<1> QED BY <1>1, <1>2, <1>3, <1>4, <1>5, CacheKinds

-----------------------------------------------------------------------------
(* What is of git while others work                                        *)

GitPlaces == GitInside \cup GitOutside

Untouched(p) ==
    /\ UNCHANGED gitVars /\ (trampled => trampled')
    /\ pc[p] \notin GitPlaces /\ pc'[p] \notin GitPlaces
    /\ \A q \in Process : q # p => pc'[q] = pc[q]
    /\ users' \subseteq users \cup {p} /\ users \ {p} \subseteq users'
    /\ NobodyCleaned' => NobodyCleaned
    /\ HalfCleaned => HalfCleaned' \/ marked = {}

LEMMA ExtractionPlaces ==
    ASSUME IInv, NEW p \in Process, Step(p) \/ Fail(p) \/ Abandon(p) \/ Crash(p)
    PROVE  /\ pc[p] \in Extracts
           /\ \E place \in Outside \cup Inside : Go(p, place)
<1> USE DEF Extracts, Outside, Inside, Ended
<1>1. CASE CheckOk(p) \/ Acquire(p) \/ CheckAgain(p) \/ Mark(p) \/ Release(p)
           \/ Finish(p) \/ EndAbandoned(p) \/ StartCleaning(p) \/ EndCleaning(p)
  BY <1>1 DEF CheckOk, Acquire, CheckAgain, Mark, Release, Finish,
              EndAbandoned, StartCleaning, EndCleaning
<1>2. CASE pc[p] \in Extracts /\ pc' = pc
  BY <1>2 DEF Go, IInv, ExtractionTypes
<1>3. CASE Wipe(p) \/ Extract(p) \/ ExtractAbandoned(p) \/ Clean(p)
           \/ RemoveLockFile(p)
  BY <1>2, <1>3 DEF Wipe, Extract, ExtractAbandoned, Clean, RemoveLockFile
<1>4. CASE Fail(p) \/ Abandon(p) \/ Crash(p)
  BY <1>4 DEF Fail, Abandon, Crash
<1> QED BY <1>1, <1>3, <1>4 DEF Step

LEMMA ExtractionUntouched ==
    ASSUME IInv, GitTypeOK, NEW p \in Process, ExtractionKind(p) PROVE Untouched(p)
<1>0. UNCHANGED gitVars
  BY DEF ExtractionKind
<1>1. pc[p] \in Extracts /\ \E place \in Outside \cup Inside : Go(p, place)
  BY ExtractionPlaces DEF ExtractionKind
<1>2. pc[p] \notin GitPlaces /\ pc'[p] \notin GitPlaces
      /\ \A q \in Process : q # p => pc'[q] = pc[q]
  BY <1>1 DEF Go, IInv, ExtractionTypes, Extracts, Outside, Inside, Ended,
              GitPlaces, GitInside, GitOutside
<1>3. users' \subseteq users \cup {p} /\ users \ {p} \subseteq users'
  <2> USE DEF Lock!Enter, Lock!Leave, Lock!Expel, IInv, ExtractionTypes
  <2>1. CASE CheckOk(p) \/ Acquire(p) \/ CheckAgain(p) \/ Mark(p) \/ Release(p)
             \/ Finish(p) \/ EndAbandoned(p) \/ StartCleaning(p) \/ EndCleaning(p)
    BY <2>1 DEF CheckOk, Acquire, CheckAgain, Mark, Release, Finish,
                EndAbandoned, StartCleaning, EndCleaning
  <2>2. CASE Wipe(p) \/ Extract(p) \/ ExtractAbandoned(p) \/ Clean(p)
             \/ RemoveLockFile(p)
    BY <2>2 DEF Wipe, Extract, ExtractAbandoned, Clean, RemoveLockFile
  <2>3. CASE Fail(p) \/ Abandon(p) \/ Crash(p)
    BY <2>3 DEF Fail, Abandon, Crash
  <2> QED BY <2>1, <2>2, <2>3 DEF ExtractionKind, Step
<1>4. trampled => trampled'
  <2>1. CASE CheckOk(p) \/ Acquire(p) \/ CheckAgain(p) \/ Mark(p) \/ Release(p)
             \/ Finish(p) \/ EndAbandoned(p) \/ StartCleaning(p) \/ EndCleaning(p)
    BY <2>1 DEF CheckOk, Acquire, CheckAgain, Mark, Release, Finish,
                EndAbandoned, StartCleaning, EndCleaning
  <2>2. CASE Wipe(p) \/ Extract(p) \/ ExtractAbandoned(p) \/ Clean(p)
             \/ RemoveLockFile(p)
    BY <2>2
       DEF Wipe, Extract, ExtractAbandoned, Clean, RemoveLockFile, Trampling
  <2>3. CASE Fail(p) \/ Abandon(p) \/ Crash(p)
    BY <2>3 DEF Fail, Abandon, Crash
  <2> QED BY <2>1, <2>2, <2>3 DEF ExtractionKind, Step
<1>5. ASSUME p \in Cleaners
      PROVE  /\ pc'[p] \in {"cleaning", "failed", "killed", "done"}
             /\ pc[p] \in {"start", "cleaning"}
  <2>0. pc[p] \in {"start", "cleaning"} \cup Ended
    BY <1>5 DEF IInv, Roles
  <2> USE <1>5, <2>0 DEF IInv, ExtractionTypes, Go, Ended, Inside
  <2>1. CASE CheckOk(p) \/ Acquire(p) \/ CheckAgain(p) \/ Mark(p) \/ Release(p)
             \/ Finish(p) \/ EndAbandoned(p) \/ StartCleaning(p) \/ EndCleaning(p)
    BY <2>1 DEF CheckOk, Acquire, CheckAgain, Mark, Release, Finish,
                EndAbandoned, StartCleaning, EndCleaning
  <2>2. CASE Wipe(p) \/ Extract(p) \/ ExtractAbandoned(p) \/ Clean(p)
             \/ RemoveLockFile(p)
    BY <2>2 DEF Wipe, Extract, ExtractAbandoned, Clean, RemoveLockFile
  <2>3. CASE Fail(p) \/ Abandon(p) \/ Crash(p)
    BY <2>3 DEF Fail, Abandon, Crash
  <2> QED BY <2>1, <2>2, <2>3 DEF ExtractionKind, Step
<1>6. NobodyCleaned' => NobodyCleaned
  <2>1. CASE p \in Cleaners
    BY <1>5, <2>1 DEF NobodyCleaned
  <2>2. CASE p \notin Cleaners
    BY <1>2, <2>2, ConstantsAssumption DEF NobodyCleaned, ConstantsAssumption
  <2> QED BY <2>1, <2>2
<1>7. HalfCleaned => HalfCleaned' \/ marked = {}
  <2>1. CASE p \in Cleaners
    <3>1. CASE pc'[p] # "done"
      BY <1>5, <2>1, <3>1 DEF HalfCleaned
    <3>2. CASE pc'[p] = "done" /\ pc[p] = "cleaning"
      <4>1. GitCleaned
        BY <3>2 DEF ExtractionKind
      <4>2. \A r \in Rev : r \notin marked
        BY <4>1 DEF GitCleaned, Gone
      <4> QED BY <4>2 DEF GitTypeOK
    <3>3. CASE pc[p] = "start"
      BY <1>2, <1>5, <2>1, <3>3, ConstantsAssumption
         DEF HalfCleaned, ConstantsAssumption
    <3> QED BY <1>5, <2>1, <3>1, <3>2, <3>3
  <2>2. CASE p \notin Cleaners
    BY <1>2, <2>2, ConstantsAssumption DEF HalfCleaned, ConstantsAssumption
  <2> QED BY <2>1, <2>2
<1> QED BY <1>0, <1>2, <1>3, <1>4, <1>6, <1>7 DEF Untouched

LEMMA DownloadUntouched ==
    ASSUME IInv, NEW p \in Process, DownloadKind(p) PROVE Untouched(p)
<1>1. ForeignStep(p)
  BY DlMoveIsForeign, CrashIsForeign DEF DownloadKind
<1>2. /\ pc[p] \in DlInside \cup {"dl waiting"} \cup Inside \cup {"orphan"}
      /\ \E place \in DlInside \cup {"start", "failed", "dl waiting"} : Go(p, place)
  BY DEF DownloadKind, DlMove, CrashDownload
<1>3. /\ pc[p] \notin GitPlaces /\ pc'[p] \notin GitPlaces
      /\ \A q \in Process : q # p => pc'[q] = pc[q]
  BY <1>2 DEF Go, IInv, ExtractionTypes, DlInside, Inside, GitPlaces,
              GitInside, GitOutside
<1>4. \A c \in Cleaners : pc'[c] = pc[c]
  BY <1>1, <1>3, ConstantsAssumption DEF ConstantsAssumption, ForeignStep, Away
<1>5. (NobodyCleaned' => NobodyCleaned) /\ (HalfCleaned => HalfCleaned')
  BY <1>4 DEF NobodyCleaned, HalfCleaned
<1> QED BY <1>1, <1>3, <1>5 DEF Untouched, ForeignStep, LockKept, DiskKept, DownloadKind

LEMMA UntouchedKeepsGit ==
    ASSUME GitInv, RevInv, NEW p \in Process, Untouched(p) PROVE GitInv' /\ RevInv'
<1>1. UNCHANGED gitVars /\ (trampled => trampled')
  BY DEF Untouched
<1>2. UNCHANGED <<wanted, offline, abandoned, tip, history, dropped, db,
                 checkout, marked, rev, since>>
  BY <1>1 DEF gitVars, remoteVars, diskVars
<1>3. GitTypeOK'
  BY <1>2 DEF GitInv, GitTypeOK
<1>4. \A q \in Process : \/ pc'[q] = pc[q]
                         \/ pc[q] \notin GitPlaces /\ pc'[q] \notin GitPlaces
  BY DEF Untouched
<1>5. \A q \in Process : pc[q] \in GitInside => (q \in users' <=> q \in users)
  BY DEF Untouched, GitPlaces
<1>6. GitAlone'
  <2>1. \A q \in Process : pc'[q] \in GitInside => q \in users' \cup abandoned'
    BY <1>2, <1>4, <1>5 DEF GitInv, GitAlone, GitPlaces
  <2>2. \A q \in abandoned' : pc'[q] \in GitInside /\ q \notin users'
    BY <1>2, <1>4, <1>5 DEF GitInv, GitAlone, GitPlaces, GitTypeOK
  <2>3. ~trampled' => \A q, r \in Process :
            pc'[q] \in GitInside /\ pc'[r] \in GitInside => q = r
    BY <1>1, <1>4 DEF GitInv, GitAlone, GitPlaces
  <2> QED BY <2>1, <2>2, <2>3 DEF GitAlone
<1>7. Building'
  <2> SUFFICES ASSUME ~trampled', NEW q \in Process
               PROVE  BuildingAt(pc[q], rev[q])'
    BY DEF Building
  <2>1. CASE pc'[q] \notin GitPlaces
    BY <2>1 DEF BuildingAt, GitPlaces, GitInside
  <2>2. CASE pc'[q] = pc[q]
    <3>1. BuildingAt(pc[q], rev[q])
      BY <1>1 DEF GitInv, Building
    <3>2. HalfCleaned => HalfCleaned' \/ marked = {}
      BY DEF Untouched
    <3> QED BY <1>2, <2>2, <3>1, <3>2 DEF BuildingAt, Gone
  <2> QED BY <1>4, <2>1, <2>2
<1>8. MarkedComplete'
  BY <1>1, <1>2 DEF GitInv, MarkedComplete, Untouched
<1>9. ReadersMarked'
  BY <1>1, <1>2, <1>4
     DEF GitInv, ReadersMarked, Untouched, GitPlaces, GitOutside
<1>10. RevInv'
  BY <1>2, <1>4
     DEF RevInv, RightChoice, Locks, Chosen, GitPlaces, GitInside, GitOutside
<1> QED BY <1>3, <1>6, <1>7, <1>8, <1>9, <1>10 DEF GitInv

-----------------------------------------------------------------------------
(* What the builds of git do                                               *)

LEMMA CleanersStill ==
    ASSUME IInv, NEW p \in Process, ForeignStep(p)
    PROVE  /\ NobodyCleaned' = NobodyCleaned /\ HalfCleaned' = HalfCleaned
           /\ \A q \in Process : q # p => pc'[q] = pc[q]
<1>1. \A q \in Process : q # p => pc'[q] = pc[q]
  BY DEF ForeignStep, Go, IInv, ExtractionTypes
<1>2. \A c \in Cleaners : pc'[c] = pc[c]
  BY <1>1, ConstantsAssumption DEF ConstantsAssumption, ForeignStep, Away
<1> QED BY <1>1, <1>2 DEF NobodyCleaned, HalfCleaned

DbType == [state : {"absent", "torn", "whole"}, revs : SUBSET Rev,
           tip : Rev \cup {NoRev}]

LEMMA DatabaseTypes ==
    ASSUME GitTypeOK
    PROVE  /\ Fetched \in DbType /\ Fetched.revs = db.revs \cup history
           /\ Fetched.state = db.state
           /\ NoDb \in DbType /\ EmptyDb \in DbType
           /\ [db EXCEPT !.state = "torn"] \in DbType
<1>1. db \in DbType
  BY DEF GitTypeOK, DbType
<1>2. NoDb \in DbType /\ EmptyDb \in DbType
  BY DEF NoDb, EmptyDb, DbType
<1>3. [db EXCEPT !.state = "torn"] \in DbType
  BY <1>1 DEF DbType
<1>4. Fetched = [db EXCEPT !.revs = db.revs \cup history, !.tip = tip]
  BY DEF Fetched
<1>5. db.revs \cup history \in SUBSET Rev /\ tip \in Rev
  BY <1>1 DEF GitTypeOK, DbType
<1>6. Fetched \in DbType /\ Fetched.revs = db.revs \cup history
      /\ Fetched.state = db.state
  BY <1>1, <1>4, <1>5 DEF DbType
<1> QED BY <1>2, <1>3, <1>6

(* A step that has to do with the database only, and may end in a choice.  *)
DatabaseMove(p) ==
    /\ InsideMove(p)
    /\ pc'[p] \in {"git recreating", "git fetching", "git chosen"}
    /\ UNCHANGED <<wanted, offline, tip, history, dropped, since, checkout, marked>>
    /\ db' \in DbType
    /\ \/ rev' = rev /\ pc'[p] # "git chosen"
       \/ \E r \in Rev : rev' = [rev EXCEPT ![p] = r] /\ RightChoice(p, r)

DatabaseWork(p) ==
    \/ UseDatabase(p) \/ ResolveOffline(p) \/ Update(p)
    \/ StartAnew(p) \/ RemoveDatabase(p) \/ InitBare(p) \/ FetchAnew(p)

LEMMA DatabaseMoves ==
    ASSUME IInv, GitTypeOK, RevInv, NEW p \in Process, DatabaseWork(p)
    PROVE  DatabaseMove(p)
<1>1. InsideMove(p)
  BY WorkMovesInside DEF WorkInside, DatabaseWork
<1>2. \A place : Go(p, place) => pc'[p] = place
  BY DEF Go, IInv, ExtractionTypes
<1>3. UNCHANGED <<wanted, offline, tip, history, dropped, since, checkout, marked>>
  BY DEF DatabaseWork, UseDatabase, ResolveOffline, Update, StartAnew,
         RemoveDatabase, InitBare, FetchAnew, choices, remoteVars, diskVars
<1>4. pc'[p] \in {"git recreating", "git fetching", "git chosen"}
  BY <1>2 DEF DatabaseWork, UseDatabase, ResolveOffline, Update, StartAnew,
         RemoveDatabase, InitBare, FetchAnew, GoInside
<1>5. db \in DbType /\ tip \in Rev /\ history \subseteq Rev
  BY DEF GitTypeOK, DbType
<1>6. db' \in DbType
  BY <1>5, DatabaseTypes
     DEF DatabaseWork, UseDatabase, ResolveOffline, Update, StartAnew,
         RemoveDatabase, InitBare, FetchAnew, diskVars
<1>7. db.revs \subseteq Rev /\ db.tip \in Rev \cup {NoRev}
  BY <1>5 DEF DbType
<1>8. \A r \in Rev : r # NoRev
  BY RevAssumption
<1>9. ASSUME wanted[p] \in db.revs \cup history
      PROVE  Locks(p) /\ wanted[p] \in Rev
  BY <1>5, <1>7, <1>8, <1>9 DEF Locks
<1>10. pc[p] \in GitInside /\ ~Locks(p) => tip \in since[p]
  BY DEF RevInv
<1>11. ASSUME Locks(p), wanted[p] \notin history PROVE wanted[p] \in dropped
  BY <1>11 DEF RevInv
<1>12. \/ rev' = rev /\ pc'[p] # "git chosen"
       \/ \E r \in Rev : rev' = [rev EXCEPT ![p] = r] /\ RightChoice(p, r)
  <2>1. CASE UseDatabase(p)
    BY <1>9, <2>1 DEF UseDatabase, Holds, Choose, RightChoice
  <2>2. CASE ResolveOffline(p)
    BY <1>7, <2>2 DEF ResolveOffline, Choose, RightChoice
  <2>3. CASE Update(p)
    <3>1. CASE Locks(p) /\ ~Holds(p, Fetched)
      BY <1>2, <2>3, <3>1 DEF Update, GoInside
    <3>2. CASE Locks(p) /\ Holds(p, Fetched)
      <4>1. wanted[p] \in Rev
        BY <1>9, <3>2, DatabaseTypes DEF Holds
      <4> QED BY <2>3, <3>2, <4>1 DEF Update, Choose, RightChoice
    <3>3. CASE ~Locks(p)
      BY <1>1, <1>5, <1>10, <2>3, <3>3
         DEF Update, Choose, RightChoice, InsideMove
    <3> QED BY <3>1, <3>2, <3>3
  <2>4. CASE StartAnew(p) \/ RemoveDatabase(p) \/ InitBare(p)
    BY <1>2, <2>4 DEF StartAnew, RemoveDatabase, InitBare, GoInside
  <2>5. CASE FetchAnew(p)
    <3>1. db.state # "absent" /\ Choose(p, IF Holds(p, Fetched) THEN wanted[p] ELSE tip)
      BY <2>5 DEF FetchAnew
    <3>2. CASE Holds(p, Fetched)
      <4>1. Locks(p) /\ wanted[p] \in Rev
        BY <1>9, <3>2, DatabaseTypes DEF Holds
      <4> QED BY <3>1, <3>2, <4>1 DEF Choose, RightChoice
    <3>3. CASE ~Holds(p, Fetched)
      <4>1. wanted[p] \notin history
        BY <3>1, <3>3, DatabaseTypes DEF Holds
      <4>2. RightChoice(p, tip)
        BY <1>1, <1>5, <1>10, <1>11, <4>1 DEF RightChoice, InsideMove
      <4> QED BY <1>5, <3>1, <3>3, <4>2 DEF Choose
    <3> QED BY <3>2, <3>3
  <2> QED BY <2>1, <2>2, <2>3, <2>4, <2>5 DEF DatabaseWork
<1> QED BY <1>1, <1>3, <1>4, <1>6, <1>12 DEF DatabaseMove

(* Others than p are not building, or nothing changes for them.            *)
LEMMA InsideKeepsAlone ==
    ASSUME IInv, GitTypeOK, GitAlone, NEW p \in Process, InsideMove(p) PROVE GitAlone'
<1>1. /\ pc'[p] \in GitInside /\ \A q \in Process : q # p => pc'[q] = pc[q]
      /\ UNCHANGED <<users, abandoned, trampled>> /\ pc[p] \in GitInside
  BY DEF InsideMove, Go, IInv, ExtractionTypes
<1>2. \A q \in Process : pc'[q] \in GitInside <=> pc[q] \in GitInside
  BY <1>1
<1>3. \A q \in abandoned : pc'[q] \in GitInside /\ q \notin users
  BY <1>1 DEF GitAlone, GitTypeOK
<1> QED BY <1>1, <1>2, <1>3 DEF GitAlone

LEMMA InsideKeepsBuilding ==
    ASSUME IInv, GitInv, NEW p \in Process, InsideMove(p),
           \A q \in Process : q # p => rev'[q] = rev[q],
           ~trampled => BuildingAt(pc[p], rev[p])'
    PROVE  Building'
<1> SUFFICES ASSUME ~trampled', NEW q \in Process, q # p
             PROVE  BuildingAt(pc[q], rev[q])'
  BY DEF Building, InsideMove
<1>1. pc[q] \notin GitInside
  BY DEF GitInv, GitAlone, InsideMove
<1>2. pc'[q] = pc[q]
  BY CleanersStill, InsideMoveIsForeign
<1> QED BY <1>1, <1>2 DEF BuildingAt, GitInside

(* Whoever reads goes on reading what it read.                             *)
LEMMA InsideKeepsReaders ==
    ASSUME IInv, GitInv, NEW p \in Process, InsideMove(p),
           \A q \in Process : q # p => rev'[q] = rev[q],
           NobodyCleaned /\ ~trampled => marked \subseteq marked'
    PROVE  ReadersMarked'
<1>1. NobodyCleaned' = NobodyCleaned /\ \A q \in Process : q # p => pc'[q] = pc[q]
  BY CleanersStill, InsideMoveIsForeign
<1>2. pc'[p] # "git reading"
  BY DEF InsideMove, Go, IInv, ExtractionTypes, GitInside
<1>3. trampled' = trampled
  BY DEF InsideMove
<1> QED BY <1>1, <1>2, <1>3 DEF ReadersMarked, GitInv

LEMMA DatabaseKeeps ==
    ASSUME IInv, GitInv, RevInv, NEW p \in Process, DatabaseMove(p)
    PROVE  GitInv' /\ RevInv'
<1>1. InsideMove(p) /\ ForeignStep(p)
  BY InsideMoveIsForeign DEF DatabaseMove
<1>2. /\ HalfCleaned' = HalfCleaned
      /\ \A q \in Process : q # p => pc'[q] = pc[q]
  BY <1>1, CleanersStill
<1>3. /\ rev' \in [Process -> Rev \cup {NoRev}]
      /\ \A q \in Process : q # p => rev'[q] = rev[q]
  BY DEF DatabaseMove, GitInv, GitTypeOK
<1>4. GitTypeOK'
  BY <1>1, <1>3 DEF DatabaseMove, GitInv, GitTypeOK, InsideMove, DbType
<1>5. GitAlone'
  BY <1>1, InsideKeepsAlone DEF GitInv
<1>6. Building'
  BY <1>1, <1>3, InsideKeepsBuilding DEF DatabaseMove, BuildingAt
<1>7. MarkedComplete'
  <2>1. UNCHANGED <<trampled, checkout, marked>>
    BY <1>1 DEF DatabaseMove, InsideMove
  <2> QED BY <1>2, <2>1 DEF GitInv, MarkedComplete
<1>8. ReadersMarked'
  BY <1>1, <1>3, InsideKeepsReaders DEF DatabaseMove
<1>9. RevInv'
  <2>1. \A q \in Process : Locks(q)' => wanted'[q] \in history' \cup dropped'
    BY DEF RevInv, Locks, DatabaseMove
  <2>2. \A q \in Process : pc'[q] \in GitInside /\ ~Locks(q)' => tip' \in since'[q]
    BY <1>1, <1>2 DEF RevInv, Locks, DatabaseMove, InsideMove
  <2>3. ASSUME NEW q \in Process, pc'[q] \in Chosen
        PROVE  RightChoice(q, rev[q])'
    <3>1. \A r : RightChoice(q, r)' = RightChoice(q, r)
      BY DEF RightChoice, Locks, DatabaseMove
    <3>2. CASE q = p
      <4>1. pc'[p] = "git chosen"
        BY <2>3, <3>2 DEF DatabaseMove, Chosen
      <4>2. RightChoice(p, rev'[p])
        BY <4>1 DEF DatabaseMove, GitInv, GitTypeOK
      <4> QED BY <3>1, <3>2, <4>2 DEF RightChoice, Locks
    <3>3. CASE q # p
      BY <1>2, <1>3, <2>3, <3>3 DEF RevInv, RightChoice, Locks, DatabaseMove
    <3> QED BY <3>2, <3>3
  <2> QED BY <2>1, <2>2, <2>3 DEF RevInv
<1> QED BY <1>4, <1>5, <1>6, <1>7, <1>8, <1>9 DEF GitInv

(* Work on a checkout keeps what was chosen.                               *)
CheckoutWork(p) ==
    \/ UseCheckout(p) \/ Reclone(p) \/ WipeCheckout(p) \/ Clone(p)
    \/ ResetFiles(p) \/ ResetHead(p) \/ MarkCheckout(p)

RevKept ==
    /\ UNCHANGED <<wanted, offline, tip, history, dropped, rev, since>>
    /\ \A q \in Process : /\ pc'[q] \in Chosen => pc[q] \in Chosen
                          /\ pc'[q] \in GitInside => pc[q] \in GitInside

LEMMA RevKeptKeeps == ASSUME RevInv, RevKept PROVE RevInv'
<1>1. /\ wanted' = wanted /\ offline' = offline /\ tip' = tip /\ history' = history
      /\ dropped' = dropped /\ rev' = rev /\ since' = since
  BY DEF RevKept
<1>2. ASSUME NEW q \in Process, pc'[q] \in Chosen PROVE RightChoice(q, rev[q])'
  <2>1. RightChoice(q, rev[q])
    BY <1>2 DEF RevInv, RevKept
  <2> QED BY <1>1, <2>1 DEF RightChoice, Locks
<1>3. ASSUME NEW q \in Process, Locks(q)'
      PROVE  wanted'[q] \in history' \cup dropped'
  <2>1. Locks(q)
    BY <1>1, <1>3 DEF Locks
  <2> QED BY <1>1, <2>1 DEF RevInv
<1>4. ASSUME NEW q \in Process, pc'[q] \in GitInside, ~Locks(q)'
      PROVE  tip' \in since'[q]
  <2>1. pc[q] \in GitInside /\ ~Locks(q)
    BY <1>1, <1>4 DEF Locks, RevKept
  <2> QED BY <1>1, <2>1 DEF RevInv
<1> QED BY <1>2, <1>3, <1>4 DEF RevInv

LEMMA CheckoutKeepsChoices ==
    ASSUME IInv, NEW p \in Process, CheckoutWork(p)
    PROVE  InsideMove(p) /\ RevKept /\ UNCHANGED db /\ pc[p] \in Chosen
<1>1. InsideMove(p)
  BY WorkMovesInside DEF WorkInside, CheckoutWork
<1>2. \A q \in Process : q # p => pc'[q] = pc[q]
  BY <1>1, InsideMoveIsForeign, CleanersStill
<1>3. pc[p] \in Chosen
  BY DEF CheckoutWork, UseCheckout, Reclone, WipeCheckout, Clone, ResetFiles,
         ResetHead, MarkCheckout, GoInside, Chosen
<1>4. UNCHANGED <<wanted, offline, tip, history, dropped, rev, since, db>>
  BY DEF CheckoutWork, UseCheckout, Reclone, WipeCheckout, Clone, ResetFiles,
         ResetHead, MarkCheckout, gitVars, choices, remoteVars, diskVars
<1>5. pc[p] \in GitInside
  BY <1>1 DEF InsideMove
<1> QED BY <1>1, <1>2, <1>3, <1>4, <1>5 DEF RevKept

(* How each of them leaves the checkout.                                   *)
CheckoutStep(p) ==
    LET r == rev[p]
    IN  /\ pc'[p] \in Chosen
        /\ checkout' \in [Rev -> SUBSET Parts] /\ marked' \subseteq Rev
        /\ ~trampled => BuildingAt(pc[p], rev[p])'
        /\ MarkedComplete'
        /\ NobodyCleaned /\ ~trampled => marked \subseteq marked'

LEMMA CheckoutSteps ==
    ASSUME IInv, GitInv, RevInv, NEW p \in Process, CheckoutWork(p)
    PROVE  CheckoutStep(p)
<1> DEFINE r == rev[p]
<1>1. /\ InsideMove(p) /\ pc[p] \in Chosen
      /\ UNCHANGED <<trampled, rev>>
  BY CheckoutKeepsChoices DEF InsideMove, RevKept
<1>2. HalfCleaned' = HalfCleaned
  BY <1>1, InsideMoveIsForeign, CleanersStill
<1>3. r \in Rev
  BY <1>1 DEF RevInv, RightChoice
<1>4. /\ checkout \in [Rev -> SUBSET Parts] /\ marked \subseteq Rev
      /\ MarkedComplete
  BY DEF GitInv, GitTypeOK
<1>5. ~trampled => BuildingAt(pc[p], r)
  BY DEF GitInv, Building
<1>6. NobodyCleaned => ~HalfCleaned
  BY ConstantsAssumption DEF ConstantsAssumption, NobodyCleaned, HalfCleaned
<1>7. \A place : Go(p, place) => pc'[p] = place
  BY DEF Go, IInv, ExtractionTypes
<1>8. rev'[p] = r
  BY <1>1
<1> HIDE DEF r
<1>a. CASE UseCheckout(p)
  <2>1. UNCHANGED <<checkout, marked>> /\ pc'[p] = "git ready" /\ r \in marked
    BY <1>a, <1>7 DEF UseCheckout, GoInside, gitVars, diskVars, Reusable, r
  <2> QED BY <1>1, <1>2, <1>4, <1>8, <2>1
          DEF CheckoutStep, BuildingAt, MarkedComplete, Chosen, r
<1>b. CASE Reclone(p)
  <2>1. UNCHANGED <<checkout, marked>> /\ pc'[p] = "git wiping" /\ ~Reusable(r)
    BY <1>b, <1>7 DEF Reclone, GoInside, gitVars, diskVars, r
  <2>2. ~trampled /\ ~HalfCleaned => r \notin marked
    BY <1>4, <2>1 DEF MarkedComplete, Reusable, Parts
  <2> QED BY <1>1, <1>2, <1>4, <1>8, <2>1, <2>2
          DEF CheckoutStep, BuildingAt, MarkedComplete, Chosen, r
<1>c. CASE WipeCheckout(p)
  <2>0. pc[p] = "git wiping"
    BY <1>c DEF WipeCheckout, GoInside
  <2>1. ~trampled /\ ~HalfCleaned => r \notin marked
    BY <1>5, <2>0 DEF BuildingAt
  <2>2. CASE pc'[p] = "git wiping" /\ Lose(r)
    <3>1. checkout' \in [Rev -> SUBSET Parts] /\ marked' \subseteq marked
          /\ \A s \in Rev : s # r => checkout'[s] = checkout[s]
      BY <1>3, <1>4, <2>2 DEF Lose
    <3>2. ~trampled /\ ~HalfCleaned => marked' = marked
      BY <2>1, <2>2 DEF Lose
    <3>3. ~trampled => BuildingAt(pc[p], rev[p])'
      BY <1>2, <1>8, <2>1, <2>2, <3>1 DEF BuildingAt
    <3>4. MarkedComplete'
      BY <1>1, <1>2, <1>4, <1>8, <2>1, <3>1, <3>2 DEF MarkedComplete
    <3> QED BY <1>1, <1>4, <1>6, <2>2, <3>1, <3>2, <3>3, <3>4 DEF CheckoutStep, Chosen, r
  <2>3. CASE pc'[p] = "git cloning" /\ Gone(r) /\ UNCHANGED <<checkout, marked>>
    BY <1>1, <1>2, <1>4, <1>8, <2>3
       DEF CheckoutStep, BuildingAt, MarkedComplete, Chosen, Gone, r
  <2> QED BY <1>c, <1>7, <2>2, <2>3 DEF WipeCheckout, GoInside, r
<1>d. CASE Clone(p)
  <2>1. UNCHANGED <<checkout, marked>> /\ pc'[p] = "git resetting" /\ pc[p] = "git cloning"
    BY <1>d, <1>7 DEF Clone, GoInside, gitVars, diskVars
  <2> QED BY <1>1, <1>2, <1>4, <1>5, <1>8, <2>1
          DEF CheckoutStep, BuildingAt, MarkedComplete, Chosen, Gone, r
<1>e. CASE ResetFiles(p)
  <2>1. /\ pc[p] = "git resetting" /\ pc'[p] = "git heading" /\ UNCHANGED marked
        /\ checkout' = [checkout EXCEPT ![r] = @ \cup {"files"}]
    BY <1>e, <1>7 DEF ResetFiles, GoInside, r
  <2>2. /\ checkout' \in [Rev -> SUBSET Parts] /\ checkout'[r] = checkout[r] \cup {"files"}
        /\ \A s \in Rev : s # r => checkout'[s] = checkout[s]
    BY <1>3, <1>4, <2>1 DEF Parts
  <2>3. ~trampled => r \notin marked /\ checkout[r] = {}
    BY <1>5, <2>1 DEF BuildingAt, Gone
  <2>4. MarkedComplete'
    BY <1>1, <1>2, <1>4, <1>8, <2>1, <2>2, <2>3 DEF MarkedComplete
  <2>5. ~trampled => BuildingAt(pc[p], rev[p])'
    BY <1>8, <2>1, <2>2, <2>3 DEF BuildingAt
  <2> QED BY <1>1, <1>4, <2>1, <2>2, <2>4, <2>5 DEF CheckoutStep, Chosen, r
<1>f. CASE ResetHead(p)
  <2>1. /\ pc[p] = "git heading" /\ pc'[p] = "git marking" /\ UNCHANGED marked
        /\ checkout' = [checkout EXCEPT ![r] = @ \cup {"HEAD"}]
    BY <1>f, <1>7 DEF ResetHead, GoInside, r
  <2>2. /\ checkout' \in [Rev -> SUBSET Parts] /\ checkout'[r] = checkout[r] \cup {"HEAD"}
        /\ \A s \in Rev : s # r => checkout'[s] = checkout[s]
    BY <1>3, <1>4, <2>1 DEF Parts
  <2>3. ~trampled => r \notin marked /\ checkout[r] = {"files"}
    BY <1>5, <2>1 DEF BuildingAt
  <2>4. MarkedComplete'
    BY <1>1, <1>2, <1>4, <1>8, <2>1, <2>2, <2>3 DEF MarkedComplete
  <2>5. ~trampled => BuildingAt(pc[p], rev[p])'
    BY <1>8, <2>1, <2>2, <2>3 DEF BuildingAt, Parts
  <2> QED BY <1>1, <1>4, <2>1, <2>2, <2>4, <2>5 DEF CheckoutStep, Chosen, r
<1>g. CASE MarkCheckout(p)
  <2>1. /\ pc[p] = "git marking" /\ pc'[p] = "git ready" /\ UNCHANGED checkout
        /\ marked' = marked \cup {r}
    BY <1>g, <1>7 DEF MarkCheckout, GoInside, r
  <2>2. ~trampled => checkout[r] = Parts
    BY <1>5, <2>1 DEF BuildingAt
  <2>3. MarkedComplete'
    BY <1>1, <1>2, <1>4, <1>8, <2>1, <2>2 DEF MarkedComplete
  <2>4. ~trampled => BuildingAt(pc[p], rev[p])'
    BY <1>8, <2>1 DEF BuildingAt
  <2> QED BY <1>1, <1>3, <1>4, <2>1, <2>3, <2>4 DEF CheckoutStep, Chosen, r
<1> QED BY <1>a, <1>b, <1>c, <1>d, <1>e, <1>f, <1>g DEF CheckoutWork

LEMMA CheckoutKeeps ==
    ASSUME IInv, GitInv, RevInv, NEW p \in Process, CheckoutWork(p)
    PROVE  GitInv' /\ RevInv'
<1>1. InsideMove(p) /\ RevKept /\ UNCHANGED db /\ CheckoutStep(p)
  BY CheckoutKeepsChoices, CheckoutSteps
<1>2. GitTypeOK'
  BY <1>1 DEF CheckoutStep, RevKept, InsideMove, GitInv, GitTypeOK
<1>3. GitAlone'
  BY <1>1, InsideKeepsAlone DEF GitInv
<1>4. rev' = rev
  BY <1>1 DEF RevKept
<1>5. ~trampled => BuildingAt(pc[p], rev[p])'
  BY <1>1 DEF CheckoutStep
<1>6. Building'
  BY <1>1, <1>4, <1>5, InsideKeepsBuilding
<1>7. ReadersMarked'
  BY <1>1, <1>4, InsideKeepsReaders DEF CheckoutStep
<1> QED BY <1>1, <1>2, <1>3, <1>6, <1>7, RevKeptKeeps DEF GitInv, CheckoutStep

(* A build of git begins, ends, or is left behind.                         *)
LEMMA AcquireKeeps ==
    ASSUME IInv, GitInv, RevInv, NEW p \in Process, AcquireForGit(p)
    PROVE  GitInv' /\ RevInv'
<1>1. /\ NobodyCleaned' = NobodyCleaned /\ HalfCleaned' = HalfCleaned
      /\ \A q \in Process : q # p => pc'[q] = pc[q]
  BY AcquireIsForeign, CleanersStill
<1>2. /\ wanted' = wanted /\ offline' = offline /\ abandoned' = abandoned
      /\ tip' = tip /\ history' = history /\ dropped' = dropped /\ db' = db
      /\ checkout' = checkout /\ marked' = marked /\ rev' = rev
  BY DEF AcquireForGit, choices, remoteVars, diskVars
<1>3. /\ pc[p] = "git waiting" /\ pc'[p] = "git entered"
      /\ users' = users \cup {p} /\ \A q \in users : q = p
  BY DEF AcquireForGit, Go, Lock!Enter, IInv, ExtractionTypes
<1>4. /\ trampled => trampled'
      /\ trampled' \/ abandoned = {}
  BY DEF AcquireForGit
<1>5. /\ since'[p] = IF Locks(p) THEN {} ELSE {tip}
      /\ \A q \in Process : q # p => since'[q] = since[q]
      /\ since' \in [Process -> SUBSET Rev]
  <2>1. {tip} \subseteq Rev
    BY DEF GitInv, GitTypeOK
  <2> QED BY <2>1 DEF AcquireForGit, GitInv, GitTypeOK
<1>6. GitTypeOK'
  BY <1>2, <1>5 DEF GitInv, GitTypeOK
<1>7. GitAlone'
  <2>1. \A q \in Process : pc'[q] \in GitInside => q \in users' \cup abandoned'
    BY <1>1, <1>2, <1>3 DEF GitInv, GitAlone
  <2>2. \A q \in abandoned : q # p
    BY <1>3 DEF GitInv, GitAlone, GitInside
  <2>3. \A q \in abandoned' : pc'[q] \in GitInside /\ q \notin users'
    BY <1>1, <1>2, <1>3, <2>2 DEF GitInv, GitAlone, GitTypeOK
  <2>4. ASSUME ~trampled', NEW q \in Process, pc'[q] \in GitInside PROVE q = p
    BY <1>1, <1>3, <1>4, <2>4 DEF GitInv, GitAlone
  <2> QED BY <2>1, <2>3, <2>4 DEF GitAlone
<1>8. Building'
  <2> SUFFICES ASSUME ~trampled', NEW q \in Process
               PROVE  BuildingAt(pc[q], rev[q])'
    BY DEF Building
  <2>1. CASE q = p
    BY <1>3, <2>1 DEF BuildingAt
  <2>2. CASE q # p
    <3>1. BuildingAt(pc[q], rev[q])
      BY <1>4 DEF GitInv, Building
    <3> QED BY <1>1, <1>2, <2>2, <3>1 DEF BuildingAt, Gone
  <2> QED BY <2>1, <2>2
<1>9. MarkedComplete'
  BY <1>1, <1>2, <1>4 DEF GitInv, MarkedComplete
<1>10. ReadersMarked'
  BY <1>1, <1>2, <1>3, <1>4 DEF GitInv, ReadersMarked
<1>11. RevInv'
  <2>1. \A q \in Process : Locks(q)' = Locks(q)
    BY <1>2 DEF Locks
  <2>2. \A q \in Process : Locks(q)' => wanted'[q] \in history' \cup dropped'
    BY <1>2, <2>1 DEF RevInv
  <2>3. \A q \in Process : pc'[q] \in GitInside /\ ~Locks(q)' => tip' \in since'[q]
    BY <1>1, <1>2, <1>5, <2>1 DEF RevInv
  <2>4. ASSUME NEW q \in Process, pc'[q] \in Chosen
        PROVE  RightChoice(q, rev[q])'
    <3>1. q # p
      BY <1>3, <2>4 DEF Chosen
    <3>2. RightChoice(q, rev[q])
      BY <1>1, <2>4, <3>1 DEF RevInv
    <3> QED BY <1>2, <1>5, <2>1, <3>1, <3>2 DEF RightChoice
  <2> QED BY <2>2, <2>3, <2>4 DEF RevInv
<1> QED BY <1>6, <1>7, <1>8, <1>9, <1>10, <1>11 DEF GitInv

LEMMA LeaveKeeps ==
    ASSUME IInv, GitInv, RevInv, NEW p \in Process, LeaveGit(p)
    PROVE  GitInv' /\ RevInv'
<1>1. /\ NobodyCleaned' = NobodyCleaned /\ HalfCleaned' = HalfCleaned
      /\ \A q \in Process : q # p => pc'[q] = pc[q]
  BY LeaveIsForeign, CleanersStill
<1>2. /\ wanted' = wanted /\ offline' = offline /\ abandoned' = abandoned
      /\ tip' = tip /\ history' = history /\ dropped' = dropped /\ db' = db
      /\ checkout' = checkout /\ marked' = marked /\ rev' = rev
      /\ since' = since /\ trampled' = trampled
  BY DEF LeaveGit, gitVars, remoteVars, diskVars, Idle
<1>3. /\ pc[p] = "git ready" /\ pc'[p] = "git reading" /\ p \notin abandoned
      /\ users' = users \ {p}
  BY DEF LeaveGit, Go, Lock!Leave, IInv, ExtractionTypes
<1>4. GitTypeOK'
  BY <1>2 DEF GitInv, GitTypeOK
<1>5. pc'[p] \notin GitInside
  BY <1>3 DEF GitInside
<1>6. GitAlone'
  <2>1. \A q \in Process : pc'[q] \in GitInside => q \in users' \cup abandoned'
    BY <1>1, <1>2, <1>3, <1>5 DEF GitInv, GitAlone
  <2>2. \A q \in abandoned' : pc'[q] \in GitInside /\ q \notin users'
    BY <1>1, <1>2, <1>3 DEF GitInv, GitAlone, GitTypeOK
  <2>3. ~trampled' => \A q, r \in Process :
            pc'[q] \in GitInside /\ pc'[r] \in GitInside => q = r
    BY <1>1, <1>2, <1>5 DEF GitInv, GitAlone
  <2> QED BY <2>1, <2>2, <2>3 DEF GitAlone
<1>7. Building'
  <2> SUFFICES ASSUME ~trampled', NEW q \in Process
               PROVE  BuildingAt(pc[q], rev[q])'
    BY DEF Building
  <2>1. CASE q = p
    BY <1>3, <2>1 DEF BuildingAt
  <2>2. CASE q # p
    <3>1. BuildingAt(pc[q], rev[q])
      BY <1>2 DEF GitInv, Building
    <3> QED BY <1>1, <1>2, <2>2, <3>1 DEF BuildingAt, Gone
  <2> QED BY <2>1, <2>2
<1>8. MarkedComplete'
  BY <1>1, <1>2 DEF GitInv, MarkedComplete
<1>9. ReadersMarked'
  <2>1. ~trampled => rev[p] \in marked
    BY <1>3 DEF GitInv, Building, BuildingAt
  <2> QED BY <1>1, <1>2, <2>1 DEF GitInv, ReadersMarked
<1>10. RevKept
  BY <1>1, <1>2, <1>3, <1>5 DEF RevKept, Chosen
<1> QED BY <1>4, <1>6, <1>7, <1>8, <1>9, <1>10, RevKeptKeeps DEF GitInv

LEMMA AbandonKeeps ==
    ASSUME IInv, GitInv, RevInv, NEW p \in Process, AbandonGit(p)
    PROVE  GitInv' /\ RevInv'
<1>1. /\ wanted' = wanted /\ offline' = offline /\ pc' = pc
      /\ tip' = tip /\ history' = history /\ dropped' = dropped /\ db' = db
      /\ checkout' = checkout /\ marked' = marked /\ rev' = rev
      /\ since' = since /\ trampled' = trampled
  BY DEF AbandonGit, choices, remoteVars, diskVars, Idle
<1>2. /\ pc[p] \in GitInside /\ users' = users \ {p} /\ abandoned' = abandoned \cup {p}
  BY DEF AbandonGit, Lock!Leave
<1>3. GitTypeOK'
  BY <1>1, <1>2 DEF GitInv, GitTypeOK
<1>4. GitAlone'
  BY <1>1, <1>2 DEF GitInv, GitAlone
<1>5. HalfCleaned' = HalfCleaned /\ NobodyCleaned' = NobodyCleaned
  BY <1>1 DEF HalfCleaned, NobodyCleaned
<1>6. Building'
  <2> SUFFICES ASSUME ~trampled', NEW q \in Process
               PROVE  BuildingAt(pc[q], rev[q])'
    BY DEF Building
  <2>1. BuildingAt(pc[q], rev[q])
    BY <1>1 DEF GitInv, Building
  <2> QED BY <1>1, <1>5, <2>1 DEF BuildingAt, Gone
<1>7. MarkedComplete' /\ ReadersMarked'
  BY <1>1, <1>5 DEF GitInv, MarkedComplete, ReadersMarked
<1>8. RevKept
  BY <1>1 DEF RevKept
<1> QED BY <1>3, <1>4, <1>6, <1>7, <1>8, RevKeptKeeps DEF GitInv

LEMMA EndKeeps ==
    ASSUME IInv, GitInv, RevInv, NEW p \in Process, GitEnd(p)
    PROVE  GitInv' /\ RevInv'
<1>1. /\ NobodyCleaned' = NobodyCleaned /\ HalfCleaned' = HalfCleaned
      /\ \A q \in Process : q # p => pc'[q] = pc[q]
  BY GitEndIsForeign, CleanersStill
<1>2. /\ wanted' = wanted /\ offline' = offline /\ trampled' = trampled
      /\ tip' = tip /\ history' = history /\ dropped' = dropped /\ db' = db
      /\ checkout' = checkout /\ marked' = marked
      /\ abandoned' = abandoned \ {p} /\ users' = users \ {p}
  BY DEF GitEnd, Forget, choices, remoteVars, diskVars
<1>3. pc'[p] \in {"done", "failed", "git waiting"}
  BY DEF GitEnd, Go, IInv, ExtractionTypes
<1>4. /\ rev' \in [Process -> Rev \cup {NoRev}] /\ since' \in [Process -> SUBSET Rev]
      /\ \A q \in Process : q # p => rev'[q] = rev[q] /\ since'[q] = since[q]
  BY DEF GitEnd, Forget, GitInv, GitTypeOK
<1>5. GitTypeOK'
  BY <1>2, <1>4 DEF GitInv, GitTypeOK
<1>6. pc'[p] \notin GitInside
  BY <1>3 DEF GitInside
<1>7. GitAlone'
  <2>1. \A q \in Process : pc'[q] \in GitInside => q \in users' \cup abandoned'
    BY <1>1, <1>2, <1>6 DEF GitInv, GitAlone
  <2>2. \A q \in abandoned' : pc'[q] \in GitInside /\ q \notin users'
    BY <1>1, <1>2 DEF GitInv, GitAlone, GitTypeOK
  <2>3. ~trampled' => \A q, r \in Process :
            pc'[q] \in GitInside /\ pc'[r] \in GitInside => q = r
    BY <1>1, <1>2, <1>6 DEF GitInv, GitAlone
  <2> QED BY <2>1, <2>2, <2>3 DEF GitAlone
<1>8. Building'
  <2> SUFFICES ASSUME ~trampled', NEW q \in Process
               PROVE  BuildingAt(pc[q], rev[q])'
    BY DEF Building
  <2>1. CASE q = p
    BY <1>3, <2>1 DEF BuildingAt
  <2>2. CASE q # p
    <3>1. BuildingAt(pc[q], rev[q])
      BY <1>2 DEF GitInv, Building
    <3> QED BY <1>1, <1>2, <1>4, <2>2, <3>1 DEF BuildingAt, Gone
  <2> QED BY <2>1, <2>2
<1>9. MarkedComplete'
  BY <1>1, <1>2 DEF GitInv, MarkedComplete
<1>10. ReadersMarked'
  BY <1>1, <1>2, <1>3, <1>4 DEF GitInv, ReadersMarked
<1>11. RevInv'
  <2>1. \A q \in Process : Locks(q)' = Locks(q)
    BY <1>2 DEF Locks
  <2>2. \A q \in Process : Locks(q)' => wanted'[q] \in history' \cup dropped'
    BY <1>2, <2>1 DEF RevInv
  <2>3. \A q \in Process : pc'[q] \in GitInside /\ ~Locks(q)' => tip' \in since'[q]
    BY <1>1, <1>2, <1>4, <1>6, <2>1 DEF RevInv
  <2>4. ASSUME NEW q \in Process, pc'[q] \in Chosen
        PROVE  RightChoice(q, rev[q])'
    <3>1. q # p
      BY <1>3, <2>4 DEF Chosen
    <3>2. RightChoice(q, rev[q])
      BY <1>1, <2>4, <3>1 DEF RevInv
    <3> QED BY <1>2, <1>4, <2>1, <3>1, <3>2 DEF RightChoice
  <2> QED BY <2>2, <2>3, <2>4 DEF RevInv
<1> QED BY <1>5, <1>7, <1>8, <1>9, <1>10, <1>11 DEF GitInv

(* `scarb cache clean`: nobody builds, or files are trampled.              *)
LEMMA CleanKeeps ==
    ASSUME IInv, GitInv, RevInv, NEW p \in Process, CleanGit(p)
    PROVE  GitInv' /\ RevInv'
<1>1. /\ wanted' = wanted /\ offline' = offline /\ pc' = pc /\ users' = users
      /\ tip' = tip /\ history' = history /\ dropped' = dropped
      /\ rev' = rev /\ since' = since /\ abandoned' = abandoned
  BY DEF CleanGit, choices, remoteVars
<1>2. pc[p] = "cleaning" /\ p \in Cleaners
  BY DEF CleanGit, IInv, Roles
<1>3. HalfCleaned' /\ ~NobodyCleaned'
  BY <1>1, <1>2 DEF HalfCleaned, NobodyCleaned
<1>4. db' \in DbType
  BY DatabaseTypes DEF CleanGit, GitInv, GitTypeOK, DbType
<1>5. checkout' \in [Rev -> SUBSET Parts] /\ marked' \subseteq Rev
  <2>1. CASE \E r \in Rev : Lose(r)
    BY <2>1 DEF Lose, GitInv, GitTypeOK
  <2>2. CASE UNCHANGED <<checkout, marked>>
    BY <2>2 DEF GitInv, GitTypeOK
  <2> QED BY <2>1, <2>2 DEF CleanGit
<1>6. GitTypeOK'
  BY <1>1, <1>4, <1>5 DEF GitInv, GitTypeOK, DbType
<1>7. trampled => trampled'
  BY DEF CleanGit, Trampling
<1>8. GitAlone'
  BY <1>1, <1>7 DEF GitInv, GitAlone
<1>9. Building'
  <2> SUFFICES ASSUME ~trampled', NEW q \in Process
               PROVE  pc[q] \notin GitInside
    BY <1>1 DEF Building, BuildingAt, GitInside
  <2>1. abandoned = {} /\ users \subseteq Cleaners
    BY DEF CleanGit, Trampling
  <2>2. \A c \in Cleaners : pc[c] \notin GitInside
    BY ConstantsAssumption
       DEF ConstantsAssumption, IInv, Roles, Ended, GitInside
  <2> QED BY <2>1, <2>2 DEF GitInv, GitAlone
<1>10. MarkedComplete' /\ ReadersMarked'
  BY <1>3 DEF MarkedComplete, ReadersMarked
<1>11. RevKept
  BY <1>1 DEF RevKept
<1> QED BY <1>6, <1>8, <1>9, <1>10, <1>11, RevKeptKeeps DEF GitInv

(* A push: what was chosen is still a tip since, or has been dropped.      *)
LEMMA PushKeeps == ASSUME GitInv, RevInv, Push PROVE GitInv' /\ RevInv'
<1>1. PICK r \in Rev \ (history \cup dropped) :
          /\ tip' = r
          /\ since' = [p \in Process |-> IF since[p] = {} THEN {}
                                         ELSE since[p] \cup {r}]
          /\ \/ history' = history \cup {r} /\ UNCHANGED dropped
             \/ history' = {r} /\ dropped' = dropped \cup history
  BY DEF Push
<1>2. /\ wanted' = wanted /\ offline' = offline /\ pc' = pc /\ users' = users
      /\ trampled' = trampled /\ abandoned' = abandoned /\ rev' = rev
      /\ db' = db /\ checkout' = checkout /\ marked' = marked
  BY DEF Push, vars, choices, diskVars
<1>3. since' \in [Process -> SUBSET Rev] /\ tip' \in history'
      /\ history' \subseteq Rev /\ dropped' \subseteq Rev
  BY <1>1 DEF GitInv, GitTypeOK
<1>4. GitTypeOK'
  BY <1>2, <1>3 DEF GitInv, GitTypeOK
<1>5. GitAlone' /\ MarkedComplete' /\ ReadersMarked'
  BY <1>2
     DEF GitInv, GitAlone, MarkedComplete, ReadersMarked, HalfCleaned,
         NobodyCleaned
<1>6. Building'
  BY <1>2 DEF GitInv, Building, BuildingAt, HalfCleaned, Gone
<1>7. RevInv'
  <2>1. \A q \in Process : Locks(q)' = Locks(q)
    BY <1>2 DEF Locks
  <2>2. \A q \in Process : Locks(q)' => wanted'[q] \in history' \cup dropped'
    BY <1>1, <1>2, <2>1 DEF RevInv
  <2>3. \A q \in Process : \A x : x \in since[q] => x \in since'[q] /\ r \in since'[q]
    BY <1>1
  <2>4. \A q \in Process : pc'[q] \in GitInside /\ ~Locks(q)' => tip' \in since'[q]
    BY <1>1, <1>2, <2>1, <2>3 DEF RevInv
  <2>5. ASSUME NEW q \in Process, pc'[q] \in Chosen
        PROVE  RightChoice(q, rev[q])'
    <3>1. RightChoice(q, rev[q])
      BY <1>2, <2>5 DEF RevInv
    <3>2. dropped \subseteq dropped'
      BY <1>1
    <3> QED BY <1>2, <2>1, <2>3, <3>1, <3>2 DEF RightChoice
  <2> QED BY <2>2, <2>4, <2>5 DEF RevInv
<1> QED BY <1>4, <1>5, <1>6, <1>7 DEF GitInv

LEMMA CacheKeepsGit ==
    ASSUME IInv, GitInv, RevInv, role \in Scenarios, [CacheNext]_cacheVars
    PROVE  GitInv' /\ RevInv'
<1>1. ASSUME NEW p \in Process, ExtractionKind(p) \/ DownloadKind(p)
      PROVE  GitInv' /\ RevInv'
  <2>1. Untouched(p)
    BY <1>1, ExtractionUntouched, DownloadUntouched DEF GitInv
  <2> QED BY <2>1, UntouchedKeepsGit
<1>2. ASSUME NEW p \in Process, GitKind(p) PROVE GitInv' /\ RevInv'
  <2>1. ASSUME WorkInside(p) PROVE DatabaseWork(p) \/ CheckoutWork(p)
    BY <2>1 DEF WorkInside, DatabaseWork, CheckoutWork
  <2>2. CASE DatabaseWork(p)
    <3>1. DatabaseMove(p)
      BY <2>2, DatabaseMoves DEF GitInv
    <3> QED BY <3>1, DatabaseKeeps
  <2>3. CASE CheckoutWork(p)
    BY <2>3, CheckoutKeeps
  <2> QED BY <1>2, <2>1, <2>2, <2>3, AcquireKeeps, LeaveKeeps, AbandonKeeps, EndKeeps
          DEF GitKind
<1>3. ASSUME NEW p \in Process, CleanGit(p) PROVE GitInv' /\ RevInv'
  BY <1>3, CleanKeeps
<1>4. CASE Push
  BY <1>4, PushKeeps
<1>5. CASE SilentKind
  <2>1. /\ wanted' = wanted /\ offline' = offline /\ pc' = pc /\ users' = users
        /\ trampled' = trampled /\ abandoned' = abandoned /\ rev' = rev
        /\ db' = db /\ checkout' = checkout /\ marked' = marked
        /\ tip' = tip /\ history' = history /\ dropped' = dropped /\ since' = since
    BY <1>5 DEF SilentKind, vars, gitVars, remoteVars, diskVars
  <2>2. RevKept
    BY <2>1 DEF RevKept
  <2>3. GitTypeOK' /\ GitAlone' /\ MarkedComplete' /\ ReadersMarked'
    BY <2>1 DEF GitInv, GitTypeOK, GitAlone, MarkedComplete, ReadersMarked,
                HalfCleaned, NobodyCleaned
  <2>4. Building'
    BY <2>1 DEF GitInv, Building, BuildingAt, HalfCleaned, Gone
  <2> QED BY <2>2, <2>3, <2>4, RevKeptKeeps DEF GitInv
<1> QED BY <1>1, <1>2, <1>3, <1>4, <1>5, CacheKinds DEF GitInv

-----------------------------------------------------------------------------
(* What is extracted                                                       *)

LEMMA SourcesKept ==
    ASSUME SourcesInv, NEW p \in Process, role' = role, suspect => suspect',
           DownloadTypeOK',
           \A q \in Process : q # p => pc'[q] = pc[q] /\ got'[q] = got[q],
           role[p] = "registry" /\ pc'[p] \in Extracts => GoodArchive(p)',
           ~suspect' => sources' \in {"absent", "right"}
    PROVE  SourcesInv'
<1>1. ASSUME NEW q \in Process, role[q] = "registry", pc'[q] \in Extracts
      PROVE  GoodArchive(q)'
  <2>1. CASE q = p
    BY <1>1, <2>1 DEF GoodArchive
  <2>2. CASE q # p
    BY <1>1, <2>2 DEF SourcesInv, GoodArchive
  <2> QED BY <2>1, <2>2
<1> QED BY <1>1 DEF SourcesInv

(* Steps that have nothing to do with archives.                            *)
Aside(p) ==
    /\ UNCHANGED <<archive, got, sources, suspect>> /\ dbusers' \subseteq Process
    /\ \A q \in Process : q # p => pc'[q] = pc[q]
    /\ pc'[p] \in Extracts => pc[p] \in Extracts

LEMMA AsideKeeps ==
    ASSUME SourcesInv, NEW p \in Process, Aside(p), role' = role PROVE SourcesInv'
<1>1. /\ archive' = archive /\ got' = got /\ sources' = sources /\ suspect' = suspect
      /\ \A q \in Process : q # p => pc'[q] = pc[q]
  BY DEF Aside
<1>2. DownloadTypeOK'
  BY <1>1 DEF Aside, SourcesInv, DownloadTypeOK
<1>3. role[p] = "registry" /\ pc'[p] \in Extracts => GoodArchive(p)'
  BY <1>1 DEF Aside, SourcesInv, GoodArchive
<1> QED BY <1>1, <1>2, <1>3, SourcesKept DEF SourcesInv

LEMMA ExtractionAside ==
    ASSUME IInv, NEW p \in Process, Step(p) \/ Fail(p) \/ Abandon(p) \/ Crash(p),
           UNCHANGED <<archive, got, sources, suspect>>, dbusers' \subseteq Process
    PROVE  Aside(p)
<1>1. pc[p] \in Extracts /\ \A q \in Process : q # p => pc'[q] = pc[q]
  BY ExtractionPlaces DEF Go, IInv, ExtractionTypes
<1> QED BY <1>1 DEF Aside

LEMMA GitAside ==
    ASSUME IInv, SourcesInv, NEW p \in Process, GitKind(p), UNCHANGED dlVars
    PROVE  Aside(p)
<1>1. ForeignStep(p)
  BY WorkMovesInside, InsideMoveIsForeign, AcquireIsForeign,
     LeaveIsForeign, AbandonIsForeign, GitEndIsForeign DEF GitKind
<1>2. \A q \in Process : q # p => pc'[q] = pc[q]
  BY <1>1, CleanersStill
<1>3. pc'[p] \in GitPlaces \cup {"done", "failed"}
  BY WorkMovesInside
     DEF GitKind, InsideMove, AcquireForGit, LeaveGit, AbandonGit, GitEnd, Go,
         GitPlaces, GitInside, GitOutside, IInv, ExtractionTypes
<1>4. pc'[p] \notin Extracts
  BY <1>3
     DEF Extracts, Inside, Outside, Ended, GitPlaces, GitInside, GitOutside
<1> QED BY <1>2, <1>4 DEF Aside, dlVars, SourcesInv, DownloadTypeOK

LEMMA DownloadKeeps ==
    ASSUME IInv, SourcesInv, NEW p \in Process, role[p] = "registry",
           DownloadStep(p), role' = role
    PROVE  SourcesInv'
<1>1. \A place : Go(p, place) => /\ pc'[p] = place
                                /\ \A q \in Process : q # p => pc'[q] = pc[q]
  BY DEF Go, IInv, ExtractionTypes
<1>2. DownloadTypeOK /\ (~suspect => sources \in {"absent", "right"})
  BY DEF SourcesInv
<1>3. CASE OpenDatabase(p)
  <2>1. /\ pc'[p] = "dl querying" /\ \A q \in Process : q # p => pc'[q] = pc[q]
        /\ archive' = archive /\ got' = got /\ sources' = sources /\ suspect' = suspect
        /\ dbusers' = dbusers \cup {p}
    BY <1>1, <1>3 DEF OpenDatabase, Database!Enter
  <2>2. Aside(p)
    BY <1>2, <2>1 DEF Aside, Extracts, Inside, Outside, Ended, DownloadTypeOK
  <2> QED BY <2>2, AsideKeeps
<1>4. CASE UseDownloaded(p)
  <2>1. /\ got' = [got EXCEPT ![p] = archive] /\ suspect' = (suspect \/ archive = "wrong")
        /\ dbusers' = dbusers /\ archive' = archive /\ sources' = sources
        /\ archive \notin {"absent", "empty"}
    BY <1>4 DEF UseDownloaded
  <2>2. got'[p] = archive /\ \A q \in Process : q # p => got'[q] = got[q]
    BY <1>2, <2>1 DEF DownloadTypeOK
  <2>3. DownloadTypeOK'
    BY <1>2, <2>1 DEF DownloadTypeOK
  <2>4. GoodArchive(p)'
    BY <1>2, <2>1, <2>2 DEF GoodArchive, DownloadTypeOK, Archives
  <2>5. \A q \in Process : q # p => pc'[q] = pc[q]
    BY <1>1, <1>4 DEF UseDownloaded
  <2> QED BY <1>2, <2>1, <2>2, <2>3, <2>4, <2>5, SourcesKept
<1>5. CASE Request(p) \/ SaveChunk(p) \/ EndDownload(p)
  <2>1. /\ \E content \in Archives : got' = [got EXCEPT ![p] = content]
        /\ archive' \in Archives
        /\ dbusers' = dbusers /\ sources' = sources /\ suspect' = suspect
    BY <1>5 DEF Request, SaveChunk, EndDownload, Save, Archives
  <2>2. DownloadTypeOK' /\ \A q \in Process : q # p => got'[q] = got[q]
    BY <1>2, <2>1 DEF DownloadTypeOK
  <2>3. pc'[p] \in DlInside /\ \A q \in Process : q # p => pc'[q] = pc[q]
    BY <1>1, <1>5 DEF Request, SaveChunk, EndDownload, DlInside
  <2>4. pc'[p] \notin Extracts
    BY <2>3 DEF Extracts, DlInside, Inside, Outside, Ended
  <2> QED BY <1>2, <2>1, <2>2, <2>3, <2>4, SourcesKept
<1>6. CASE VerifyDownload(p)
  <2>1. /\ dbusers' = dbusers /\ archive' = archive /\ got' = got
        /\ sources' = sources /\ suspect' = suspect /\ got[p] = "right"
    BY <1>6 DEF VerifyDownload, dlVars
  <2>2. DownloadTypeOK' /\ GoodArchive(p)'
    BY <1>2, <2>1 DEF DownloadTypeOK, GoodArchive
  <2>3. \A q \in Process : q # p => pc'[q] = pc[q]
    BY <1>1, <1>6 DEF VerifyDownload
  <2> QED BY <1>2, <2>1, <2>2, <2>3, SourcesKept
<1>7. CASE MarkSources(p)
  <2>1. /\ dbusers' = dbusers /\ archive' = archive /\ got' = got
        /\ sources' = got[p] /\ suspect' = suspect /\ got[p] # "partial"
        /\ pc[p] = "extracting"
    BY <1>7 DEF MarkSources, Mark
  <2>2. DownloadTypeOK' /\ GoodArchive(p)'
    <3>1. GoodArchive(p)
      BY <2>1 DEF SourcesInv, Extracts, Inside
    <3> QED BY <1>2, <2>1, <3>1 DEF DownloadTypeOK, GoodArchive
  <2>4. ~suspect' => sources' \in {"absent", "right"}
    BY <2>1, <2>2 DEF GoodArchive
  <2>3. \A q \in Process : q # p => pc'[q] = pc[q]
    BY <1>1, <1>7 DEF MarkSources, Mark
  <2> QED BY <1>2, <2>1, <2>2, <2>3, <2>4, SourcesKept
<1>8. CASE ExtractStep(p) \/ FinishReading(p)
  <2>1. Step(p) /\ UNCHANGED dlVars
    BY <1>8 DEF ExtractStep, FinishReading, Step
  <2> QED BY <1>2, <2>1, ExtractionAside, AsideKeeps DEF dlVars, DownloadTypeOK
<1>9. CASE CloseDatabase(p)
  <2>1. Aside(p)
    BY <1>2, <1>9 DEF CloseDatabase, Database!Leave, Aside, DownloadTypeOK
  <2> QED BY <2>1, AsideKeeps
<1>10. CASE FailDownload(p)
  <2>1. Aside(p)
    BY <1>1, <1>2, <1>10
       DEF FailDownload, Database!Leave, Aside, Extracts, Inside, Outside, Ended,
           DownloadTypeOK
  <2> QED BY <2>1, AsideKeeps
<1>11. CASE FailExtraction(p)
  BY <1>2, <1>11, ExtractionAside, AsideKeeps
     DEF FailExtraction, Database!Leave, DownloadTypeOK
<1> QED BY <1>3, <1>4, <1>5, <1>6, <1>7, <1>8, <1>9, <1>10, <1>11
        DEF DownloadStep, Rejected

LEMMA CacheKeepsSources ==
    ASSUME IInv, GitAlone, SourcesInv, role \in Scenarios, [CacheNext]_cacheVars
    PROVE  SourcesInv'
<1>1. role' = role
  BY DEF CacheNext, CacheStep, CacheFail, CacheCrash, Pushed, CacheOver, cacheVars
<1>2. DownloadTypeOK
  BY DEF SourcesInv
<1>3. ASSUME UNCHANGED <<pc, dlVars>> PROVE SourcesInv'
  <2>1. /\ archive' = archive /\ got' = got /\ sources' = sources
        /\ suspect' = suspect /\ dbusers' = dbusers /\ pc' = pc
    BY <1>3 DEF dlVars
  <2> QED BY <1>1, <2>1 DEF SourcesInv, DownloadTypeOK, GoodArchive
<1>4. ASSUME NEW p \in Process, UNCHANGED dlVars,
             Step(p) \/ Fail(p) \/ Abandon(p) \/ Crash(p)
      PROVE  SourcesInv'
  BY <1>1, <1>2, <1>4, ExtractionAside, AsideKeeps DEF dlVars, DownloadTypeOK
<1>5. ASSUME NEW p \in Process, UNCHANGED dlVars,
             GitStep(p) \/ FailGit(p) \/ AbandonGit(p) \/ CrashGit(p)
      PROVE  SourcesInv'
  BY <1>1, <1>5, GitKinds, GitAside, AsideKeeps
<1>6. ASSUME NEW p \in Process, FailDownload(p) PROVE SourcesInv'
  <2>1. /\ pc'[p] = "failed" /\ \A q \in Process : q # p => pc'[q] = pc[q]
    BY <1>6 DEF FailDownload, Go, IInv, ExtractionTypes
  <2>2. Aside(p)
    BY <1>2, <1>6, <2>1
       DEF FailDownload, Database!Leave, Aside, Extracts, Inside, Outside, Ended,
           DownloadTypeOK
  <2> QED BY <1>1, <2>2, AsideKeeps
<1>7. ASSUME NEW p \in Process, CacheStep(p) PROVE SourcesInv'
  <2>1. CASE StdStep(p)
    BY <1>4, <2>1 DEF StdStep
  <2>2. CASE CleanerStep(p)
    <3>1. CASE CleanGit(p) /\ UNCHANGED dlVars
      BY <1>3, <3>1 DEF CleanGit
    <3>2. CASE CleanArchive(p)
      <4>1. /\ archive' = "absent" /\ pc' = pc /\ dbusers' = dbusers
            /\ got' = got /\ sources' = sources /\ suspect' = suspect
        BY <3>2 DEF CleanArchive, vars
      <4> QED BY <1>1, <4>1 DEF SourcesInv, DownloadTypeOK, GoodArchive, Archives
    <3>3. CASE (StartCleaning(p) \/ Clean(p) \/ RemoveLockFile(p) \/ EndCleaning(p))
               /\ UNCHANGED dlVars
      BY <1>4, <3>3 DEF Step
    <3> QED BY <2>2, <3>1, <3>2, <3>3 DEF CleanerStep
  <2>3. CASE GitStep(p) /\ UNCHANGED dlVars
    BY <1>5, <2>3
  <2>4. CASE role[p] = "registry" /\ DownloadStep(p)
    BY <1>1, <2>4, DownloadKeeps
  <2> QED BY <1>7, <2>1, <2>2, <2>3, <2>4 DEF CacheStep
<1>8. ASSUME NEW p \in Process, CacheFail(p) PROVE SourcesInv'
  <2>1. CASE Fail(p) /\ UNCHANGED <<gitVars, dlVars>>
    BY <1>4, <2>1
  <2>2. CASE (FailGit(p) \/ AbandonGit(p)) /\ UNCHANGED dlVars
    BY <1>5, <2>2
  <2>3. CASE FailExtraction(p) \/ AbandonExtraction(p)
    <3>1. Aside(p)
      BY <1>2, <2>3, ExtractionAside
         DEF FailExtraction, AbandonExtraction, Database!Leave, DownloadTypeOK
    <3> QED BY <1>1, <3>1, AsideKeeps
  <2> QED BY <1>6, <1>8, <2>1, <2>2, <2>3 DEF CacheFail
<1>9. ASSUME NEW p \in Process, CacheCrash(p) PROVE SourcesInv'
  <2>1. CASE Crash(p) /\ UNCHANGED <<gitVars, dlVars>>
    BY <1>4, <2>1
  <2>2. CASE CrashGit(p) /\ UNCHANGED dlVars
    BY <1>5, <2>2
  <2>3. CASE CrashDownload(p)
    <3>1. /\ pc'[p] = "dl waiting" /\ \A q \in Process : q # p => pc'[q] = pc[q]
      BY <2>3 DEF CrashDownload, Go, IInv, ExtractionTypes
    <3>2. Aside(p)
      BY <1>2, <2>3, <3>1
         DEF CrashDownload, Database!Expel, Aside, Extracts, Inside, Outside, Ended,
             DownloadTypeOK
    <3> QED BY <1>1, <3>2, AsideKeeps
  <2> QED BY <1>9, <2>1, <2>2, <2>3 DEF CacheCrash
<1>10. CASE Pushed
  BY <1>3, <1>10 DEF Pushed, Push, vars
<1>11. CASE UNCHANGED cacheVars
  BY <1>3, <1>11 DEF cacheVars, vars
<1> QED BY <1>7, <1>8, <1>9, <1>10, <1>11 DEF CacheNext, CacheOver

-----------------------------------------------------------------------------
(* The invariant of the whole cache                                        *)

CacheInv == IInv /\ GitInv /\ RevInv /\ SourcesInv /\ role \in Scenarios

LEMMA CacheStarts == CacheInit => CacheInv
<1> SUFFICES ASSUME CacheInit PROVE CacheInv
  OBVIOUS
<1>1. /\ role \in Scenarios /\ pc = [p \in Process |-> FirstPlace(p)]
      /\ users = {} /\ files = {} /\ ok = FALSE
      /\ left = [p \in Process |-> {}] /\ trampled = FALSE
      /\ wanted = [p \in Process |->
                      IF role[p] = "git locked" THEN FirstRev ELSE NoRev]
      /\ offline \subseteq Process
  BY DEF CacheInit
<1>2. \A p \in Process : FirstPlace(p) \in {"idle", "dl waiting", "git waiting", "start"}
  BY DEF FirstPlace
<1>3. ASSUME NEW p \in Cleaners PROVE FirstPlace(p) \in {"idle", "start"}
  <2>1. p \in Process /\ role[p] \in {"cleaner", "none"}
    BY <1>1, ConstantsAssumption, ScenariosAssumption DEF ConstantsAssumption
  <2> QED BY <2>1 DEF FirstPlace, IsGit, GitRoles
<1>4. IInv
  <2>1. ExtractionTypes
    BY <1>1, <1>2 DEF ExtractionTypes, Outside, Ended, Foreign, GitOutside
  <2>2. OneInside /\ UnmarkedWhileFilled /\ NothingForgotten
    BY <1>1, <1>2 DEF OneInside, UnmarkedWhileFilled, NothingForgotten, Inside
  <2>3. MarkedAfterwards /\ OkMeansComplete
    BY <1>1, <1>2 DEF MarkedAfterwards, OkMeansComplete
  <2>4. Roles
    BY <1>1, <1>2, <1>3 DEF Roles, Ended
  <2> QED BY <2>1, <2>2, <2>3, <2>4 DEF IInv
<1>5. /\ tip = FirstRev /\ history = {FirstRev} /\ dropped = {}
      /\ db = NoDb
      /\ checkout = [r \in Rev |-> {}] /\ marked = {}
      /\ rev = [p \in Process |-> NoRev]
      /\ since = [p \in Process |-> {}] /\ abandoned = {}
  BY DEF CacheInit, GitInit
<1>6. \A p \in Process : pc[p] \notin GitInside /\ pc[p] # "git reading"
  BY <1>1, <1>2 DEF GitInside
<1>7. GitInv
  <2>1. GitTypeOK
    BY <1>1, <1>5, RevAssumption DEF GitTypeOK, NoDb
  <2>2. GitAlone
    BY <1>5, <1>6 DEF GitAlone
  <2>3. Building
    BY <1>6 DEF Building, BuildingAt, GitInside
  <2>4. MarkedComplete /\ ReadersMarked
    BY <1>5, <1>6 DEF MarkedComplete, ReadersMarked
  <2> QED BY <2>1, <2>2, <2>3, <2>4 DEF GitInv
<1>8. RevInv
  <2>1. \A p \in Process : Locks(p) => wanted[p] \in history \cup dropped
    BY <1>1, <1>5 DEF Locks
  <2>2. \A p \in Process : pc[p] \notin Chosen
    BY <1>6 DEF Chosen, GitInside
  <2> QED BY <1>6, <2>1, <2>2 DEF RevInv
<1>9. SourcesInv
  <2>1. /\ dbusers = {} /\ archive = "absent" /\ sources = "absent"
        /\ got = [p \in Process |-> "absent"] /\ suspect = FALSE
    BY DEF CacheInit, DownloadInit
  <2>2. \A p \in Process : role[p] = "registry" => pc[p] = "dl waiting"
    BY <1>1 DEF FirstPlace, IsGit, GitRoles
  <2> QED BY <2>1, <2>2
          DEF SourcesInv, DownloadTypeOK, Archives, Extracts, Inside, Outside, Ended
<1> QED BY <1>1, <1>4, <1>7, <1>8, <1>9 DEF CacheInv

LEMMA CacheInductive == CacheSpec => []CacheInv
<1>1. CacheInit => CacheInv
  BY CacheStarts
<1>2. CacheInv /\ [CacheNext]_cacheVars => CacheInv'
  <2> SUFFICES ASSUME CacheInv, [CacheNext]_cacheVars PROVE CacheInv'
    OBVIOUS
  <2>1. role' = role
    BY DEF CacheNext, CacheStep, CacheFail, CacheCrash, Pushed, CacheOver, cacheVars
  <2> QED BY <2>1, CacheKeepsIInv, CacheKeepsGit, CacheKeepsSources DEF CacheInv, GitInv
<1> QED BY <1>1, <1>2, PTL DEF CacheSpec

(* The variables of the whole cache keep their types.                      *)
THEOREM CacheTypeCorrect == CacheSpec => []CacheTypeOK
<1>1. CacheInv => CacheTypeOK
  BY DEF CacheInv, IInv, GitInv, SourcesInv, ExtractionTypes, Foreign, CacheTypeOK
<1> QED BY <1>1, CacheInductive, PTL

(* In the whole cache as in Extraction: whoever reads a directory of the   *)
(* standard library or of a registry package finds all its files, whatever *)
(* builds of git, kills, failures and left threads there are.              *)
THEOREM CacheReadersSafe == CacheSpec => []ReadersFindAll
<1>1. IInv => ReadersFindAll
  BY ConstantsAssumption
     DEF ConstantsAssumption, IInv, ReadersFindAll, MarkedAfterwards,
         NobodyCleaned, OkMeansComplete, HalfCleaned
<1>2. CacheInv => ReadersFindAll
  BY <1>1 DEF CacheInv
<1> QED BY <1>2, CacheInductive, PTL

(* Git, for any number of builds, commits and kills: a checkout that is    *)
(* marked is whole, and so is one that is being read without the lock      *)
(* (sources/git/client.rs:211).                                            *)
THEOREM CheckoutsWhole == CacheSpec => []CheckoutsComplete
<1>1. CacheInv => CheckoutsComplete
  <2> SUFFICES ASSUME CacheInv PROVE CheckoutsComplete
    OBVIOUS
  <2>1. NobodyCleaned => ~HalfCleaned
    BY ConstantsAssumption DEF ConstantsAssumption, NobodyCleaned, HalfCleaned
  <2> QED BY <2>1 DEF CacheInv, GitInv, MarkedComplete, ReadersMarked, CheckoutsComplete
<1> QED BY <1>1, CacheInductive, PTL

(* The revision a build gets is the one Scarb.lock holds, unless the       *)
(* remote dropped it, or a tip the branch had since the build took the     *)
(* lock, however the branch is pushed to and the cache cleaned meanwhile   *)
(* (sources/git/mod.rs:106).                                               *)
THEOREM RevisionsRight == CacheSpec => []RightRevision
<1>1. CacheInv => RightRevision
  BY DEF CacheInv, RevInv, RightChoice, Chosen, RightRevision
<1> QED BY <1>1, CacheInductive, PTL

(* Extracted and marked sources are those of the archive that the index    *)
(* describes, unless one that failed verification was found in `dl` later  *)
(* (client/cache.rs:196).                                                  *)
THEOREM SourcesRight == CacheSpec => []SourcesVerified
<1>1. CacheInv => SourcesVerified
  BY DEF CacheInv, SourcesInv, SourcesVerified
<1> QED BY <1>1, CacheInductive, PTL
=============================================================================
