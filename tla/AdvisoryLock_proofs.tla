------------------------ MODULE AdvisoryLock_proofs ------------------------
(***************************************************************************)
(* Proofs about AdvisoryLock.  Mutual exclusion needs file locks that      *)
(* work; the other results do not.                                         *)
(*                                                                         *)
(* The argument: a guard always names a locked open file of its own        *)
(* process (GuardInv), and a file is locked through at most one open file  *)
(* (OneLocked).                                                            *)
(***************************************************************************)
EXTENDS AdvisoryLock, TLAPS

LEMMA TypeInit == Init => TypeOK
  BY ConstantsAssumption DEF Init, TypeOK, Holding

LEMMA TypeNext == TypeOK /\ [Next]_vars => TypeOK'
<1> SUFFICES ASSUME TypeOK, [Next]_vars PROVE TypeOK'
  OBVIOUS
<1> USE ConstantsAssumption DEF TypeOK, Holding
<1>1. ASSUME NEW t \in Task, TaskStep(t) PROVE TypeOK'
  BY <1>1 DEF TaskStep, Call, Share, Spawn, Store, Fail, Alive
<1>2. ASSUME NEW t \in Task, ThreadStep(t) PROVE TypeOK'
  BY <1>2 DEF ThreadStep, Open, Lock, DropResult
<1>3. ASSUME NEW t \in Task, GuardStep(t) PROVE TypeOK'
  BY <1>3 DEF GuardStep, Leave, LeaveLast, Unlock
<1>4. ASSUME NEW t \in Task, Disturbance(t) PROVE TypeOK'
  BY <1>4 DEF Disturbance, Cancel, LockError, Clean
<1>5. ASSUME NEW p \in Process, Crash(p) PROVE TypeOK'
  BY <1>5 DEF Crash, TasksOf
<1>6. CASE UNCHANGED vars
  BY <1>6 DEF vars
<1>7. QED
  BY <1>1, <1>2, <1>3, <1>4, <1>5, <1>6 DEF Next

(* The state variables of the lock always have their types.                *)
THEOREM TypeCorrect == Spec => []TypeOK
  BY TypeInit, TypeNext, PTL DEF Spec

-----------------------------------------------------------------------------
(* Within a process: the mutex, the Weak and the guards agree.             *)

SlotInv == \A t \in Task : pc[t] = "opening" => slot[ProcessOf[t]] = t

(* A live guard keeps the open file that the slot's Weak refers to.        *)
HolderWeak == \A t \in Task : Holding(t) => guard[t] = weak[ProcessOf[t]]

LocalInv == TypeOK /\ SlotInv /\ SlotReleased /\ HolderWeak /\ NoSelfWait

LEMMA LocalInit == Init => LocalInv
  BY TypeInit DEF Init, LocalInv, SlotInv, SlotReleased, HolderWeak,
                  NoSelfWait, Holding

LEMMA LocalNext == LocalInv /\ [Next]_vars => LocalInv'
<1> SUFFICES ASSUME LocalInv, [Next]_vars PROVE LocalInv'
  OBVIOUS
<1> USE ConstantsAssumption
        DEF LocalInv, SlotInv, SlotReleased, HolderWeak, NoSelfWait, Holding
<1>0. TypeOK'
  BY TypeNext
<1>1. ASSUME NEW t \in Task, TaskStep(t) PROVE LocalInv'
  <2>1. CASE Call(t)
    BY <1>0, <2>1 DEF Call, TypeOK
  <2>2. CASE Share(t)
    BY <1>0, <2>2 DEF Share, TypeOK
  <2>3. CASE Spawn(t)
    <3>1. \A u \in Task : Holding(u) => ProcessOf[u] # ProcessOf[t]
      BY <2>3 DEF Spawn, Alive
    <3>2. QED
      BY <1>0, <2>3, <3>1 DEF Spawn, TypeOK
  <2>4. CASE Store(t)
    BY <1>0, <2>4 DEF Store, TypeOK
  <2>5. CASE Fail(t)
    BY <1>0, <2>5 DEF Fail, TypeOK
  <2>6. QED
    BY <1>1, <2>1, <2>2, <2>3, <2>4, <2>5 DEF TaskStep
<1>2. ASSUME NEW t \in Task, ThreadStep(t) PROVE LocalInv'
  BY <1>0, <1>2 DEF ThreadStep, Open, Lock, DropResult, TypeOK
<1>3. ASSUME NEW t \in Task, GuardStep(t) PROVE LocalInv'
  BY <1>0, <1>3 DEF GuardStep, Leave, LeaveLast, Unlock, TypeOK
<1>4. ASSUME NEW t \in Task, Disturbance(t) PROVE LocalInv'
  <2>1. CASE Cancel(t)
    BY <1>0, <2>1 DEF Cancel, TypeOK
  <2>2. CASE LockError(t)
    BY <1>0, <2>2 DEF LockError, TypeOK
  <2>3. CASE Clean(t)
    BY <1>0, <2>3 DEF Clean, TypeOK
  <2>4. QED
    BY <1>4, <2>1, <2>2, <2>3 DEF Disturbance
<1>5. ASSUME NEW p \in Process, Crash(p) PROVE LocalInv'
  BY <1>0, <1>5 DEF Crash, TasksOf, TypeOK
<1>6. CASE UNCHANGED vars
  BY <1>0, <1>6 DEF vars, TypeOK
<1>7. QED
  BY <1>1, <1>2, <1>3, <1>4, <1>5, <1>6 DEF Next

(* A task never waits for a file lock that a live guard of its own process *)
(* keeps: whatever is cancelled, fails, is deleted or crashes.             *)
THEOREM NeverWaitsForItself == Spec => []NoSelfWait
<1>1. LocalInv => NoSelfWait
  BY DEF LocalInv
<1>2. QED
  BY <1>1, LocalInit, LocalNext, PTL DEF Spec

(* The mutex around the slot is only ever held by a task that waits for    *)
(* its blocking thread.                                                    *)
THEOREM MutexReleased == Spec => []SlotReleased
<1>1. LocalInv => SlotReleased
  BY DEF LocalInv
<1>2. QED
  BY <1>1, LocalInit, LocalNext, PTL DEF Spec

(* All the live guards of a process keep the same open file.               *)
THEOREM GuardsShareOneFile == Spec => []OneFilePerProcess
<1>1. LocalInv => OneFilePerProcess
  BY DEF LocalInv, HolderWeak, OneFilePerProcess
<1>2. QED
  BY <1>1, LocalInit, LocalNext, PTL DEF Spec

-----------------------------------------------------------------------------
(* Between processes: a guard names a locked file, and only one is locked. *)

Guarding(t) == pc[t] \in {"holding", "cleaned", "unlocking"}

(* The open file of a guard is locked, is of the guard's process, and its  *)
(* opener is past waiting for it.                                          *)
GuardInv ==
    \A t \in Task : Guarding(t) =>
        /\ guard[t] \in locked
        /\ ProcessOf[guard[t]] = ProcessOf[t]
        /\ pc[guard[t]] \notin {"start", "slot", "opening", "cancelled"}

(* While the last guard of a file unlocks it, nobody else has that file.   *)
UnlockingAlone ==
    \A t, u \in Task : pc[t] = "unlocking" /\ Guarding(u) /\ t # u
                           => guard[u] # guard[t]

ThreadInv ==
    \A t \in Task :
        /\ thread[t] = "locked" => t \in locked
        /\ thread[t] \in {"opening", "waiting"} => t \notin locked
        /\ thread[t] # "none" => pc[t] \in {"opening", "cancelled"}
        /\ pc[t] \in {"start", "slot"} => t \notin locked

WeakInv == \A p \in Process : weak[p] # NoTask => ProcessOf[weak[p]] = p

(* Every file that was opened was at the path at some time.                *)
KnownFile == \A t \in Task : file[t] <= linked

OneLocked == \A s, t \in locked : file[s] = file[t] => s = t

GlobalInv == /\ TypeOK /\ GuardInv /\ UnlockingAlone /\ ThreadInv
             /\ WeakInv /\ KnownFile /\ OneLocked

LEMMA GlobalInit == Init => GlobalInv
  BY TypeInit DEF Init, GlobalInv, GuardInv, UnlockingAlone, ThreadInv,
                  WeakInv, KnownFile, OneLocked, Guarding

LEMMA GlobalNext ==
  ASSUME LockingSupported
  PROVE  GlobalInv /\ [Next]_vars => GlobalInv'
<1> SUFFICES ASSUME GlobalInv, [Next]_vars PROVE GlobalInv'
  OBVIOUS
<1> USE ConstantsAssumption
        DEF GlobalInv, GuardInv, UnlockingAlone, ThreadInv, WeakInv, KnownFile,
            OneLocked, Guarding
<1>0. TypeOK'
  BY TypeNext
<1>1. ASSUME NEW t \in Task, TaskStep(t) PROVE GlobalInv'
  <2>1. CASE Call(t)
    BY <1>0, <2>1 DEF Call, TypeOK
  <2>2. CASE Share(t)
    <3>1. PICK u \in Task : Holding(u) /\ guard[u] = weak[ProcessOf[t]]
      BY <2>2 DEF Share, Alive
    <3>2. Guarding(u) /\ pc[u] # "unlocking"
      BY <3>1 DEF Holding
    <3>3. /\ weak[ProcessOf[t]] \in locked
          /\ ProcessOf[weak[ProcessOf[t]]] = ProcessOf[t]
      BY <3>1, <3>2 DEF TypeOK
    <3>4. QED
      BY <1>0, <2>2, <3>1, <3>2, <3>3 DEF Share, TypeOK
  <2>3. CASE Spawn(t)
    BY <1>0, <2>3 DEF Spawn, TypeOK
  <2>4. CASE Store(t)
    BY <1>0, <2>4 DEF Store, TypeOK
  <2>5. CASE Fail(t)
    BY <1>0, <2>5 DEF Fail, TypeOK
  <2>6. QED
    BY <1>1, <2>1, <2>2, <2>3, <2>4, <2>5 DEF TaskStep
<1>2. ASSUME NEW t \in Task, ThreadStep(t) PROVE GlobalInv'
  <2>1. CASE Open(t)
    BY <1>0, <2>1 DEF Open, TypeOK
  <2>2. CASE Lock(t)
    BY <1>0, <2>2 DEF Lock, TypeOK
  <2>3. CASE DropResult(t)
    BY <1>0, <2>3 DEF DropResult, TypeOK
  <2>4. QED
    BY <1>2, <2>1, <2>2, <2>3 DEF ThreadStep
<1>3. ASSUME NEW t \in Task, GuardStep(t) PROVE GlobalInv'
  <2>1. CASE Leave(t)
    BY <1>0, <2>1 DEF Leave, Holding, TypeOK
  <2>2. CASE LeaveLast(t)
    BY <1>0, <2>2 DEF LeaveLast, Holding, TypeOK
  <2>3. CASE Unlock(t)
    BY <1>0, <2>3 DEF Unlock, TypeOK
  <2>4. QED
    BY <1>3, <2>1, <2>2, <2>3 DEF GuardStep
<1>4. ASSUME NEW t \in Task, Disturbance(t) PROVE GlobalInv'
  <2>1. CASE Cancel(t)
    BY <1>0, <2>1 DEF Cancel, TypeOK
  <2>2. CASE LockError(t)
    BY <1>0, <2>2 DEF LockError, TypeOK
  <2>3. CASE Clean(t)
    BY <1>0, <2>3 DEF Clean, TypeOK
  <2>4. QED
    BY <1>4, <2>1, <2>2, <2>3 DEF Disturbance
<1>5. ASSUME NEW p \in Process, Crash(p) PROVE GlobalInv'
  BY <1>0, <1>5 DEF Crash, TasksOf, TypeOK
<1>6. CASE UNCHANGED vars
  BY <1>0, <1>6 DEF vars, TypeOK
<1>7. QED
  BY <1>1, <1>2, <1>3, <1>4, <1>5, <1>6 DEF Next

LEMMA GlobalExclusion == GlobalInv => MutualExclusion
  BY DEF GlobalInv, GuardInv, OneLocked, MutualExclusion, Guarding, Holding

(* Two processes never hold the lock of one file together, given file      *)
(* locks that work.                                                        *)
THEOREM Exclusion ==
  ASSUME LockingSupported
  PROVE  Spec => []MutualExclusion
  BY GlobalInit, GlobalNext, GlobalExclusion, PTL DEF Spec

(* Every step of the lock is a step of ProcessLock, or changes nothing     *)
(* there: Share and Store enter, Leave and LeaveLast leave.                *)
THEOREM Refinement ==
  ASSUME LockingSupported
  PROVE  Spec => ImplementsProcessLock
<1> DEFINE users == {t \in Task : Inside(t)}
<1>1. Init => Abstract!Init
  BY DEF Init, Abstract!Init, Inside, Holding
<1>2. GlobalInv /\ GlobalInv' /\ [Next]_vars => [Abstract!Next]_users
  <2> SUFFICES ASSUME GlobalInv, GlobalInv', [Next]_vars
               PROVE  Abstract!Next \/ users' = users
    OBVIOUS
  <2>0. /\ MutualExclusion /\ MutualExclusion' /\ TypeOK
        /\ \A t \in Task : Holding(t) => guard[t] \in locked
        /\ \A t \in Task : file[t] <= linked
        /\ \A t \in locked : thread[t] # "opening"
    <3>1. MutualExclusion /\ MutualExclusion'
      BY GlobalExclusion, PTL
    <3>2. QED
      BY <3>1 DEF GlobalInv, GuardInv, KnownFile, ThreadInv, Guarding, Holding,
                  TypeOK
  <2>1. ASSUME NEW t \in Task, TaskStep(t) PROVE Abstract!Next \/ users' = users
    <3>1. CASE Share(t) \/ Store(t)
      <4>1. users' = users \cup {t} \/ users' = users
        BY <2>0, <3>1 DEF Share, Store, Inside, Holding, TypeOK
      <4>2. \A u \in users : Inside(u)'
        BY <2>0, <3>1 DEF Share, Store, Inside, Holding, TypeOK
      <4>3. Inside(t)' => \A u \in users : ProcessOf[u] = ProcessOf[t]
        BY <2>0, <4>2 DEF MutualExclusion, Inside
      <4>4. CASE Inside(t)' /\ users' = users \cup {t}
        BY <4>3, <4>4 DEF Abstract!Next, Abstract!Enter
      <4>5. CASE ~Inside(t)'
        BY <4>1, <4>5
      <4>6. QED
        BY <4>1, <4>4, <4>5
    <3>2. CASE Call(t) \/ Spawn(t) \/ Fail(t)
      BY <2>0, <3>2 DEF Call, Spawn, Fail, Inside, Holding, TypeOK
    <3>3. QED
      BY <2>1, <3>1, <3>2 DEF TaskStep
  <2>2. ASSUME NEW t \in Task, ThreadStep(t) PROVE users' = users
    BY <2>0, <2>2 DEF ThreadStep, Open, Lock, DropResult, Inside, Holding, TypeOK
  <2>3. ASSUME NEW t \in Task, GuardStep(t) PROVE Abstract!Next \/ users' = users
    <3>1. CASE Leave(t) \/ LeaveLast(t)
      <4>1. users' = users \ {t}
        BY <2>0, <3>1 DEF Leave, LeaveLast, Inside, Holding, TypeOK
      <4>2. CASE t \in users
        BY <4>1, <4>2 DEF Abstract!Next, Abstract!Leave
      <4>3. QED
        BY <4>1, <4>2
    <3>2. CASE Unlock(t)
      BY <2>0, <3>2 DEF Unlock, Inside, Holding, TypeOK
    <3>3. QED
      BY <2>3, <3>1, <3>2 DEF GuardStep
  <2>4. ASSUME NEW t \in Task, Disturbance(t)
        PROVE  Abstract!Next \/ users' = users
    <3>1. CASE Cancel(t) \/ LockError(t)
      BY <2>0, <3>1 DEF Cancel, LockError, Inside, Holding, TypeOK
    <3>2. CASE Clean(t)
      <4>1. users' = {}
        <5>1. ASSUME NEW u \in Task, Holding(u) PROVE file[guard[u]] <= linked
          BY <2>0, <5>1 DEF TypeOK, Holding
        <5>2. QED
          BY <2>0, <5>1, <3>2 DEF Clean, Inside, Holding, TypeOK
      <4>2. \A u, v \in users : ProcessOf[u] = ProcessOf[v]
        BY <2>0 DEF MutualExclusion, Inside
      <4>3. CASE users = {}
        BY <4>1, <4>3
      <4>4. ASSUME NEW u \in users PROVE Abstract!Next
        BY <4>1, <4>2, <4>4, ConstantsAssumption
           DEF Abstract!Next, Abstract!Expel, ConstantsAssumption
      <4>5. QED
        BY <4>3, <4>4
    <3>3. QED
      BY <2>4, <3>1, <3>2 DEF Disturbance
  <2>5. ASSUME NEW p \in Process, Crash(p) PROVE Abstract!Next
    <3>1. users' = {t \in users : ProcessOf[t] # p}
      BY <2>0, <2>5 DEF Crash, TasksOf, Inside, Holding, TypeOK
    <3>2. QED
      BY <3>1 DEF Abstract!Next, Abstract!Expel
  <2>6. CASE UNCHANGED vars
    BY <2>6 DEF vars, Inside, Holding
  <2>7. QED
    BY <2>1, <2>2, <2>3, <2>4, <2>5, <2>6 DEF Next
<1>3. QED
  BY <1>1, <1>2, GlobalInit, GlobalNext, PTL
     DEF Spec, ImplementsProcessLock, Abstract!Spec
=============================================================================
