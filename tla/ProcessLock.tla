---------------------------- MODULE ProcessLock ----------------------------
(***************************************************************************)
(* What scarb expects of an AdvisoryLock (src/scarb/src/flock.rs): at any  *)
(* moment the lock belongs to at most one process, and any number of tasks *)
(* of that process may be inside.  A process loses the lock as a whole     *)
(* when it dies, or when the lock file is deleted under it.                *)
(***************************************************************************)
CONSTANTS Process,   \* running instances of scarb
          Task,      \* asynchronous tasks, each takes the lock at most once
          ProcessOf  \* the process a task runs in

VARIABLE users       \* the tasks that are inside

Init == users = {}

Enter(t) == /\ \A u \in users : ProcessOf[u] = ProcessOf[t]
            /\ users' = users \cup {t}

Leave(t) == /\ t \in users
            /\ users' = users \ {t}

Expel(p) == users' = {t \in users : ProcessOf[t] # p}

Next == \/ \E t \in Task : Enter(t) \/ Leave(t)
        \/ \E p \in Process : Expel(p)

Spec == Init /\ [][Next]_users
=============================================================================
