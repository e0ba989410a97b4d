---------------------------- MODULE AdvisoryLock ----------------------------
(***************************************************************************)
(* AdvisoryLock of src/scarb/src/flock.rs: an operating system lock on one *)
(* file, shared by all the tasks of a process.                             *)
(*                                                                         *)
(* A task calls acquire_async: it enters the asynchronous mutex around the *)
(* slot, and either upgrades the Weak it finds there, or has a blocking    *)
(* thread open and lock the file, stores a Weak to the new Arc and leaves  *)
(* the slot.  The guard it gets keeps the Arc alive; the last guard to go  *)
(* unlocks the file.  Each task takes the lock once.                       *)
(*                                                                         *)
(* The lock belongs to the open file, not to the path: `scarb cache clean` *)
(* (ops/cache.rs) deletes the lock file of the package cache while holding *)
(* it.  An open file is named by the task whose thread opened it.          *)
(***************************************************************************)
EXTENDS Naturals

CONSTANTS Process,          \* running instances of scarb
          Task,             \* calls of acquire_async, each with its guard
          ProcessOf,        \* the process a task runs in
          Cleaners,         \* the tasks that run `scarb cache clean`
          LockingSupported, \* FALSE: the file system has no locks
          NoTask

ASSUME ConstantsAssumption ==
    /\ ProcessOf \in [Task -> Process]
    /\ Cleaners \subseteq Task
    /\ LockingSupported \in BOOLEAN
    /\ NoTask \notin Task

VARIABLES
    pc,      \* the progress of each task
    slot,    \* of each process: the task inside the mutex file_lock
    weak,    \* of each process: the open file the slot's Weak refers to
    guard,   \* of each task: the open file its AdvisoryLockGuard keeps
    thread,  \* of each task: its blocking thread
    file,    \* of each task: the file its thread opened
    locked,  \* the open files that hold the operating system's lock
    linked   \* the file the path leads to: how often it was replaced

vars == <<pc, slot, weak, guard, thread, file, locked, linked>>

TasksOf(p) == {t \in Task : ProcessOf[t] = p}

Holding(t) == pc[t] \in {"holding", "cleaned"}

(* Mutant of Alive: every call opens the file anew, and waits for itself.  *)
Alive_Never(a) == FALSE

(* Weak::upgrade succeeds while some guard of the Arc is alive.            *)
Alive(a) == \E u \in Task : Holding(u) /\ guard[u] = a

TypeOK ==
    /\ pc \in [Task -> {"start", "slot", "opening", "holding", "cleaned",
                        "unlocking", "done", "cancelled", "crashed"}]
    /\ slot \in [Process -> Task \cup {NoTask}]
    /\ weak \in [Process -> Task \cup {NoTask}]
    /\ guard \in [Task -> Task \cup {NoTask}]
    /\ \A t \in Task : Holding(t) => guard[t] # NoTask
    /\ thread \in [Task -> {"none", "opening", "waiting", "locked", "failed"}]
    /\ file \in [Task -> Nat]
    /\ locked \subseteq Task
    /\ linked \in Nat

Init ==
    /\ pc = [t \in Task |-> "start"]
    /\ slot = [p \in Process |-> NoTask]
    /\ weak = [p \in Process |-> NoTask]
    /\ guard = [t \in Task |-> NoTask]
    /\ thread = [t \in Task |-> "none"]
    /\ file = [t \in Task |-> 0]
    /\ locked = {}
    /\ linked = 0

-----------------------------------------------------------------------------
(* acquire_async                                                           *)

Call(t) ==
    /\ pc[t] = "start"
    /\ pc' = [pc EXCEPT ![t] = "slot"]
    /\ UNCHANGED <<slot, weak, guard, thread, file, locked, linked>>

(* The mutex is free and another guard of this process is alive.           *)
Share(t) ==
    LET p == ProcessOf[t] IN
    /\ pc[t] = "slot"
    /\ slot[p] = NoTask
    /\ Alive(weak[p])
    /\ guard' = [guard EXCEPT ![t] = weak[p]]
    /\ pc' = [pc EXCEPT ![t] = "holding"]
    /\ UNCHANGED <<slot, weak, thread, file, locked, linked>>

(* The mutex is free and the Weak is dangling: the task keeps the mutex    *)
(* and awaits spawn_blocking.                                              *)
Spawn(t) ==
    LET p == ProcessOf[t] IN
    /\ pc[t] = "slot"
    /\ slot[p] = NoTask
    /\ ~Alive(weak[p])
    /\ slot' = [slot EXCEPT ![p] = t]
    /\ thread' = [thread EXCEPT ![t] = "opening"]
    /\ pc' = [pc EXCEPT ![t] = "opening"]
    /\ UNCHANGED <<weak, guard, file, locked, linked>>

(* The thread has locked the file: the task wraps it in a new Arc.         *)
Store(t) ==
    LET p == ProcessOf[t] IN
    /\ pc[t] = "opening"
    /\ thread[t] = "locked"
    /\ weak' = [weak EXCEPT ![p] = t]
    /\ guard' = [guard EXCEPT ![t] = t]
    /\ slot' = [slot EXCEPT ![p] = NoTask]
    /\ thread' = [thread EXCEPT ![t] = "none"]
    /\ pc' = [pc EXCEPT ![t] = "holding"]
    /\ UNCHANGED <<file, locked, linked>>

(* create_rw failed in the thread: `.await??` returns the error.           *)
Fail(t) ==
    /\ pc[t] = "opening"
    /\ thread[t] = "failed"
    /\ slot' = [slot EXCEPT ![ProcessOf[t]] = NoTask]
    /\ thread' = [thread EXCEPT ![t] = "none"]
    /\ pc' = [pc EXCEPT ![t] = "done"]
    /\ UNCHANGED <<weak, guard, file, locked, linked>>

(* The future is dropped while it waits, because a future it is joined     *)
(* with has failed: the mutex is released, a blocking thread runs on.      *)
Cancel(t) ==
    LET p == ProcessOf[t] IN
    /\ pc[t] \in {"slot", "opening"}
    /\ slot' = [slot EXCEPT ![p] = IF @ = t THEN NoTask ELSE @]
    /\ pc' = [pc EXCEPT ![t] = "cancelled"]
    /\ UNCHANGED <<weak, guard, thread, file, locked, linked>>

-----------------------------------------------------------------------------
(* The blocking thread: create_rw opens the file, acquire locks it         *)

Open(t) ==
    /\ thread[t] = "opening"
    /\ file' = [file EXCEPT ![t] = linked]
    /\ thread' = [thread EXCEPT ![t] = "waiting"]
    /\ UNCHANGED <<pc, slot, weak, guard, locked, linked>>

(* Mutant of Lock: a shared lock in place of the exclusive one.            *)
Lock_Shared(t) ==
    /\ thread[t] = "waiting"
    /\ locked' = IF LockingSupported THEN locked \cup {t} ELSE locked
    /\ thread' = [thread EXCEPT ![t] = "locked"]
    /\ UNCHANGED <<pc, slot, weak, guard, file, linked>>

(* Locked at the first try or after waiting for the other holders of this  *)
(* file; "unsupported" counts as locked.                                   *)
Lock(t) ==
    /\ thread[t] = "waiting"
    /\ \A u \in locked : file[u] # file[t]
    /\ locked' = IF LockingSupported THEN locked \cup {t} ELSE locked
    /\ thread' = [thread EXCEPT ![t] = "locked"]
    /\ UNCHANGED <<pc, slot, weak, guard, file, linked>>

LockError(t) ==
    /\ thread[t] \in {"opening", "waiting"}
    /\ thread' = [thread EXCEPT ![t] = "failed"]
    /\ UNCHANGED <<pc, slot, weak, guard, file, locked, linked>>

(* Nobody awaits the thread of a cancelled task: its result is dropped.    *)
DropResult(t) ==
    /\ pc[t] = "cancelled"
    /\ thread[t] \in {"locked", "failed"}
    /\ locked' = locked \ {t}
    /\ thread' = [thread EXCEPT ![t] = "none"]
    /\ UNCHANGED <<pc, slot, weak, guard, file, linked>>

-----------------------------------------------------------------------------
(* The guard                                                               *)

(* cache_clean: remove_dir_all of the cache deletes the lock file, and the *)
(* next create_rw makes another one.                                       *)
Clean(t) ==
    /\ t \in Cleaners
    /\ pc[t] = "holding"
    /\ linked' = linked + 1
    /\ pc' = [pc EXCEPT ![t] = "cleaned"]
    /\ UNCHANGED <<slot, weak, guard, thread, file, locked>>

(* A guard goes that is not the last one of its Arc.                       *)
Leave(t) ==
    /\ Holding(t)
    /\ \E u \in Task \ {t} : Holding(u) /\ guard[u] = guard[t]
    /\ guard' = [guard EXCEPT ![t] = NoTask]
    /\ pc' = [pc EXCEPT ![t] = "done"]
    /\ UNCHANGED <<slot, weak, thread, file, locked, linked>>

(* The last guard goes: from now on the Weak cannot be upgraded...         *)
LeaveLast(t) ==
    /\ Holding(t)
    /\ \A u \in Task \ {t} : ~(Holding(u) /\ guard[u] = guard[t])
    /\ pc' = [pc EXCEPT ![t] = "unlocking"]
    /\ UNCHANGED <<slot, weak, guard, thread, file, locked, linked>>

(* ... and the drop of FileLockGuard unlocks the file.                     *)
Unlock(t) ==
    /\ pc[t] = "unlocking"
    /\ locked' = locked \ {guard[t]}
    /\ guard' = [guard EXCEPT ![t] = NoTask]
    /\ pc' = [pc EXCEPT ![t] = "done"]
    /\ UNCHANGED <<slot, weak, thread, file, linked>>

(* The process dies: the system closes its files, which unlocks them.      *)
Crash(p) ==
    LET gone == TasksOf(p) IN
    /\ \E t \in gone : pc[t] # "crashed"
    /\ pc' = [t \in Task |-> IF t \in gone THEN "crashed" ELSE pc[t]]
    /\ thread' = [t \in Task |-> IF t \in gone THEN "none" ELSE thread[t]]
    /\ guard' = [t \in Task |-> IF t \in gone THEN NoTask ELSE guard[t]]
    /\ slot' = [slot EXCEPT ![p] = NoTask]
    /\ weak' = [weak EXCEPT ![p] = NoTask]
    /\ locked' = locked \ gone
    /\ UNCHANGED <<file, linked>>

-----------------------------------------------------------------------------
TaskStep(t) == Call(t) \/ Share(t) \/ Spawn(t) \/ Store(t) \/ Fail(t)

ThreadStep(t) == Open(t) \/ Lock(t) \/ DropResult(t)

GuardStep(t) == Leave(t) \/ LeaveLast(t) \/ Unlock(t)

Disturbance(t) == Cancel(t) \/ LockError(t) \/ Clean(t)

Next == \/ \E t \in Task : \/ TaskStep(t) \/ ThreadStep(t)
                           \/ GuardStep(t) \/ Disturbance(t)
        \/ \E p \in Process : Crash(p)

Spec == Init /\ [][Next]_vars

(* A call of the process waits; it may be one that a scope with a guard    *)
(* makes, and the scope then ends after it.                                *)
CallWaits(p) == \E t \in TasksOf(p) : pc[t] \in {"slot", "opening"}

(* Tasks are polled, threads run, and scopes that hold a guard end when no *)
(* call of their process waits.  Nothing is assumed of cancellation,       *)
(* errors, cleaning and crashes.                                           *)
FairSpec ==
    /\ Spec
    /\ \A t \in Task :
          /\ WF_vars(TaskStep(t)) /\ WF_vars(ThreadStep(t)) /\ WF_vars(Unlock(t))
          /\ WF_vars(~CallWaits(ProcessOf[t]) /\ (Leave(t) \/ LeaveLast(t)))

-----------------------------------------------------------------------------
(* Tasks of two processes never hold the lock of one file together; once   *)
(* the lock file is deleted, its next incarnation is another lock.         *)
MutualExclusion ==
    \A t, u \in Task :
        Holding(t) /\ Holding(u) /\ file[guard[t]] = file[guard[u]]
            => ProcessOf[t] = ProcessOf[u]

(* "Can be acquired recursively": all the guards of a process keep the     *)
(* same open file, so that a release by one task never unlocks the file    *)
(* under another.                                                          *)
OneFilePerProcess ==
    \A t, u \in Task :
        Holding(t) /\ Holding(u) /\ ProcessOf[t] = ProcessOf[u]
            => guard[t] = guard[u]

(* A task never waits for a file lock that its own process holds on        *)
(* through a live guard: that wait might never end.                        *)
NoSelfWait ==
    \A t, u \in Task : pc[t] = "opening" /\ Holding(u)
                           => ProcessOf[t] # ProcessOf[u]

(* The mutex is never left locked by a task that is no longer waiting for  *)
(* its thread: cancellation, errors and success all release it.            *)
SlotReleased ==
    \A p \in Process : slot[p] # NoTask =>
        /\ ProcessOf[slot[p]] = p
        /\ pc[slot[p]] = "opening"

(* Every call returns: with the lock, with an error, or not at all because *)
(* it was dropped or the process died; also a call whose caller has the    *)
(* lock already, for a process never waits for itself.  No lock leaks:     *)
(* once the tasks are through, no open file keeps it, those of abandoned   *)
(* threads included.                                                       *)
CallsReturn ==
    /\ \A t \in Task : pc[t] = "slot" ~>
           pc[t] \in {"holding", "done", "cancelled", "crashed"}
    /\ <>[](locked = {})

(* Inside are the tasks that hold the lock of the file at the path.        *)
Inside(t) == Holding(t) /\ file[guard[t]] = linked

Abstract == INSTANCE ProcessLock WITH users <- {t \in Task : Inside(t)}

(* The lock is a ProcessLock: deleting its file expels who was inside.     *)
ImplementsProcessLock == Abstract!Spec
=============================================================================
