------------------------------ MODULE OnceMap ------------------------------
(***************************************************************************)
(* OnceMap of src/utils/once-map/src/lib.rs, step by step: the map is a    *)
(* concurrent hash map whose single operations are atomic, each running    *)
(* key has a tokio Notify, and `wait` is made of several such operations,  *)
(* between which other threads run.  `wait` and `wait_blocking` are the    *)
(* same steps, one awaiting the notification, the other blocking on it.    *)
(*                                                                         *)
(* A caller registers its key; if that starts the job it works and submits *)
(* the result, otherwise it waits, as the comment on `register` demands.   *)
(* Bystanders wait without registering: for them the key may be absent.    *)
(***************************************************************************)
EXTENDS Naturals

CONSTANTS Key, Value, Caller,
          KeyOf,          \* the key a caller is interested in
          Bystander,      \* callers that never register
          Absent, Running, NoAnswer, Missing

ASSUME ConstantsAssumption ==
    /\ KeyOf \in [Caller -> Key]
    /\ Bystander \subseteq Caller
    /\ Absent \notin Value /\ Running \notin Value /\ Absent # Running
    /\ NoAnswer \notin Value /\ Missing \notin Value /\ NoAnswer # Missing

VARIABLES
    pc,      \* the progress of each caller
    items,   \* the map: Absent, Running (Value::Waiting) or the result
    calls,   \* of each key's Notify: calls of notify_waiters so far
    seen,    \* of each caller's Notified future: `calls` when it was made
    answer   \* of each caller: what wait returned

vars == <<pc, items, calls, seen, answer>>

Filled(k) == items[k] \in Value

TypeOK ==
    /\ pc \in [Caller -> {"start", "working", "notifying", "wait", "listen",
                          "recheck", "await", "read", "unreachable", "end"}]
    /\ items \in [Key -> Value \cup {Absent, Running}]
    /\ calls \in [Key -> Nat]
    /\ seen \in [Caller -> Nat]
    /\ answer \in [Caller -> Value \cup {NoAnswer, Missing}]

Init ==
    /\ pc = [c \in Caller |-> "start"]
    /\ items = [k \in Key |-> Absent]
    /\ calls = [k \in Key |-> 0]
    /\ seen = [c \in Caller |-> 0]
    /\ answer = [c \in Caller |-> NoAnswer]

Goto(c, label) == pc' = [pc EXCEPT ![c] = label]

Return(c, a) ==
    /\ answer' = [answer EXCEPT ![c] = a]
    /\ Goto(c, "end")

-----------------------------------------------------------------------------
(* Mutant of Register: the entry is written without looking at it.         *)
Register_Unchecked(c) ==
    /\ pc[c] = "start" /\ c \notin Bystander
    /\ items' = [items EXCEPT ![KeyOf[c]] = Running]
    /\ Goto(c, "working")
    /\ UNCHANGED <<calls, seen, answer>>

(* register: the entry is vacant, the caller has to do the job.            *)
Register(c) ==
    LET k == KeyOf[c] IN
    /\ pc[c] = "start" /\ c \notin Bystander
    /\ items[k] = Absent
    /\ items' = [items EXCEPT ![k] = Running]
    /\ Goto(c, "working")
    /\ UNCHANGED <<calls, seen, answer>>

(* register: the entry is occupied, the caller waits for the result.       *)
AlreadyRegistered(c) ==
    /\ pc[c] = "start" /\ c \notin Bystander
    /\ items[KeyOf[c]] # Absent
    /\ Goto(c, "wait")
    /\ UNCHANGED <<items, calls, seen, answer>>

JustWait(c) ==
    /\ pc[c] = "start" /\ c \in Bystander
    /\ Goto(c, "wait")
    /\ UNCHANGED <<items, calls, seen, answer>>

(* done: `insert` replaces the entry and returns the old one...            *)
Done(c) ==
    LET k == KeyOf[c] IN
    /\ pc[c] = "working"
    /\ \E v \in Value : items' = [items EXCEPT ![k] = v]
    /\ Goto(c, IF items[k] = Running THEN "notifying" ELSE "end")
    /\ UNCHANGED <<calls, seen, answer>>

(* ... whose waiters are notified then.                                    *)
NotifyWaiters(c) ==
    /\ pc[c] = "notifying"
    /\ calls' = [calls EXCEPT ![KeyOf[c]] = @ + 1]
    /\ Goto(c, "end")
    /\ UNCHANGED <<items, seen, answer>>

-----------------------------------------------------------------------------
(* wait: the first look at the entry.                                      *)
Look(c) ==
    LET k == KeyOf[c] IN
    /\ pc[c] = "wait"
    /\ CASE items[k] = Absent  -> Return(c, Missing)
         [] items[k] = Running -> Goto(c, "listen") /\ UNCHANGED answer
         [] OTHER              -> Return(c, items[k])
    /\ UNCHANGED <<items, calls, seen>>

(* notify.notified(): the future completes on any later notify_waiters.    *)
Listen(c) ==
    /\ pc[c] = "listen"
    /\ seen' = [seen EXCEPT ![c] = calls[KeyOf[c]]]
    /\ Goto(c, "recheck")
    /\ UNCHANGED <<items, calls, answer>>

(* Mutant of Recheck: the entry is not looked at again.                    *)
Recheck_Skipped(c) ==
    /\ pc[c] = "recheck"
    /\ Goto(c, "await")
    /\ UNCHANGED <<items, calls, seen, answer>>

(* The value may have been inserted between Look and Listen.               *)
Recheck(c) ==
    LET k == KeyOf[c] IN
    /\ pc[c] = "recheck"
    /\ IF Filled(k) THEN Return(c, items[k])
                    ELSE Goto(c, "await") /\ UNCHANGED answer
    /\ UNCHANGED <<items, calls, seen>>

Awake(c) ==
    /\ pc[c] = "await"
    /\ calls[KeyOf[c]] > seen[c]
    /\ Goto(c, "read")
    /\ UNCHANGED <<items, calls, seen, answer>>

(* The last look: Waiting would be unreachable!("notify was called").      *)
Read(c) ==
    LET k == KeyOf[c] IN
    /\ pc[c] = "read"
    /\ IF Filled(k) THEN Return(c, items[k])
                    ELSE Goto(c, "unreachable") /\ UNCHANGED answer
    /\ UNCHANGED <<items, calls, seen>>

-----------------------------------------------------------------------------
CallerStep(c) ==
    \/ Register(c) \/ AlreadyRegistered(c) \/ JustWait(c)
    \/ Done(c) \/ NotifyWaiters(c)
    \/ Look(c) \/ Listen(c) \/ Recheck(c) \/ Awake(c) \/ Read(c)

(* All the callers have returned.                                          *)
Terminated == (\A c \in Caller : pc[c] = "end") /\ UNCHANGED vars

Next == (\E c \in Caller : CallerStep(c)) \/ Terminated

Spec == Init /\ [][Next]_vars

(* Threads run, and a job that was started ends.                           *)
FairSpec == Spec /\ \A c \in Caller : WF_vars(CallerStep(c))

-----------------------------------------------------------------------------
(* "notify was called": a waiter that was woken finds the result, so that  *)
(* the unreachable!() of wait is not reached.                              *)
NeverUnreachable == \A c \in Caller : pc[c] # "unreachable"

(* "Run tasks only once": no two callers do the job of one key.            *)
OneJobPerKey ==
    \A c, e \in Caller :
        /\ pc[c] \in {"working", "notifying"}
        /\ pc[e] \in {"working", "notifying"}
        /\ KeyOf[c] = KeyOf[e]
        => c = e

(* No wake-up is lost between the first look and the await: once a result  *)
(* is stored, every caller that waits for it returns.                      *)
WaitersReturn == \A c \in Caller : pc[c] = "wait" ~> pc[c] = "end"

Promise == INSTANCE OnceMapSpec WITH job <- items

(* The map keeps its promises: a result never changes, and every wait      *)
(* returns the result, or nothing when the key was absent.                 *)
ImplementsOnceMapSpec == Promise!Spec
=============================================================================
