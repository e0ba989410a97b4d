--------------------------- MODULE OnceMap_proofs ---------------------------
(***************************************************************************)
(* Proofs about OnceMap.  The invariant MapInv relates what a caller is    *)
(* about to do to the entry of its key: whoever was notified finds a       *)
(* result, because `done` inserts it first and no entry is ever emptied.   *)
(***************************************************************************)
EXTENDS OnceMap, TLAPS

(* Where a caller's program counter stands decides what its entry is.      *)
EntryInv ==
    \A c \in Caller :
        /\ pc[c] = "working" => items[KeyOf[c]] = Running
        /\ pc[c] \in {"notifying", "read"} => Filled(KeyOf[c])
        /\ pc[c] \in {"listen", "recheck", "await"} => items[KeyOf[c]] # Absent
        /\ pc[c] # "end" => answer[c] = NoAnswer

NotifiedInv == \A k \in Key : calls[k] > 0 => Filled(k)

MapInv == /\ TypeOK /\ EntryInv /\ NotifiedInv
          /\ OneJobPerKey /\ NeverUnreachable

LEMMA MapInit == Init => MapInv
  BY ConstantsAssumption DEF Init, MapInv, TypeOK, EntryInv, NotifiedInv,
     OneJobPerKey, NeverUnreachable

LEMMA MapNext == MapInv /\ [Next]_vars => MapInv'
<1> SUFFICES ASSUME MapInv, [Next]_vars PROVE MapInv'
  OBVIOUS
<1> USE ConstantsAssumption
        DEF MapInv, TypeOK, EntryInv, NotifiedInv, OneJobPerKey,
            NeverUnreachable, Filled, Goto, Return
<1>1. ASSUME NEW c \in Caller, CallerStep(c) PROVE MapInv'
  <2>1. CASE Register(c)
    BY <2>1 DEF Register
  <2>2. CASE AlreadyRegistered(c) \/ JustWait(c)
    BY <2>2 DEF AlreadyRegistered, JustWait
  <2>3. CASE Done(c)
    BY <2>3 DEF Done
  <2>4. CASE NotifyWaiters(c)
    BY <2>4 DEF NotifyWaiters
  <2>5. CASE Look(c)
    BY <2>5 DEF Look
  <2>6. CASE Listen(c)
    BY <2>6 DEF Listen
  <2>7. CASE Recheck(c)
    BY <2>7 DEF Recheck
  <2>8. CASE Awake(c)
    BY <2>8 DEF Awake
  <2>9. CASE Read(c)
    BY <2>9 DEF Read
  <2>10. QED
    BY <1>1, <2>1, <2>2, <2>3, <2>4, <2>5, <2>6, <2>7, <2>8, <2>9
       DEF CallerStep
<1>2. CASE Terminated \/ UNCHANGED vars
  BY <1>2 DEF Terminated, vars
<1>3. QED
  BY <1>1, <1>2 DEF Next

(* A waiter that was notified finds the result: unreachable!() is not      *)
(* reached, for any number of callers and keys.                            *)
THEOREM NoUnreachable == Spec => []NeverUnreachable
<1>1. MapInv => NeverUnreachable
  BY DEF MapInv
<1>2. QED
  BY <1>1, MapInit, MapNext, PTL DEF Spec

(* The job of a key is started by one caller only.                         *)
THEOREM RunOnce == Spec => []OneJobPerKey
<1>1. MapInv => OneJobPerKey
  BY DEF MapInv
<1>2. QED
  BY <1>1, MapInit, MapNext, PTL DEF Spec

(* Every step of the map is a step of OnceMapSpec or changes nothing there:*)
(* results never change, and waiters return what the job stored.           *)
THEOREM Refinement == Spec => ImplementsOnceMapSpec
<1>1. Init => Promise!Init
  BY DEF Init, Promise!Init
<1>2. MapInv /\ [Next]_vars => [Promise!Next]_<<items, answer>>
  <2> SUFFICES ASSUME MapInv, [Next]_vars
               PROVE  Promise!Next \/ UNCHANGED <<items, answer>>
    OBVIOUS
  <2> USE ConstantsAssumption
          DEF MapInv, TypeOK, EntryInv, Filled, Goto, Return, Promise!Next
  <2>1. ASSUME NEW c \in Caller, CallerStep(c)
        PROVE  Promise!Next \/ UNCHANGED <<items, answer>>
    <3>1. CASE Register(c)
      <4>1. Promise!Register(KeyOf[c])
        BY <3>1 DEF Register, Promise!Register
      <4>2. QED
        BY <4>1
    <3>2. CASE Done(c)
      <4>1. PICK v \in Value : items' = [items EXCEPT ![KeyOf[c]] = v]
        BY <3>2 DEF Done
      <4>2. Promise!Finish(KeyOf[c], v)
        BY <3>2, <4>1 DEF Done, Promise!Finish
      <4>3. QED
        BY <4>2
    <3>3. CASE Look(c)
      <4>1. CASE items[KeyOf[c]] = Running
        BY <3>3, <4>1 DEF Look
      <4>2. CASE items[KeyOf[c]] # Running
        <5>1. Promise!Answer(c, KeyOf[c])
          BY <3>3, <4>2 DEF Look, Promise!Answer
        <5>2. QED
          BY <5>1
      <4>3. QED
        BY <4>1, <4>2
    <3>4. CASE Recheck(c) \/ Read(c)
      <4>1. CASE Filled(KeyOf[c])
        <5>1. Promise!Answer(c, KeyOf[c])
          BY <3>4, <4>1 DEF Recheck, Read, Promise!Answer
        <5>2. QED
          BY <5>1
      <4>2. CASE ~Filled(KeyOf[c])
        BY <3>4, <4>2 DEF Recheck, Read
      <4>3. QED
        BY <4>1, <4>2
    <3>5. CASE \/ AlreadyRegistered(c) \/ JustWait(c) \/ NotifyWaiters(c)
               \/ Listen(c) \/ Awake(c)
      BY <3>5 DEF AlreadyRegistered, JustWait, NotifyWaiters, Listen, Awake
    <3>6. QED
      BY <2>1, <3>1, <3>2, <3>3, <3>4, <3>5 DEF CallerStep
  <2>2. CASE Terminated \/ UNCHANGED vars
    BY <2>2 DEF Terminated, vars
  <2>3. QED
    BY <2>1, <2>2 DEF Next
<1>3. QED
  BY <1>1, <1>2, MapInit, MapNext, PTL
     DEF Spec, ImplementsOnceMapSpec, Promise!Spec
=============================================================================
