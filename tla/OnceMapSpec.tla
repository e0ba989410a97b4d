---------------------------- MODULE OnceMapSpec ----------------------------
(***************************************************************************)
(* What a OnceMap promises (src/utils/once-map/src/lib.rs): one job per    *)
(* key, whose result is stored once and never changes, and waiters that    *)
(* get exactly that result, or nothing if the key was not there.           *)
(***************************************************************************)
CONSTANTS Key, Value, Caller,
          Absent, Running,   \* states of a key without a result
          NoAnswer, Missing  \* of a waiter: not yet answered; no such key

VARIABLES job,     \* of each key: Absent, Running or its result
          answer   \* of each caller: what wait returned

Init == /\ job = [k \in Key |-> Absent]
        /\ answer = [c \in Caller |-> NoAnswer]

Register(k) == /\ job[k] = Absent
               /\ job' = [job EXCEPT ![k] = Running]
               /\ UNCHANGED answer

Finish(k, v) == /\ job[k] = Running
                /\ job' = [job EXCEPT ![k] = v]
                /\ UNCHANGED answer

Answer(c, k) == /\ answer[c] = NoAnswer
                /\ job[k] # Running
                /\ answer' = [answer EXCEPT ![c] =
                                 IF job[k] = Absent THEN Missing ELSE job[k]]
                /\ UNCHANGED job

Next == \/ \E k \in Key : Register(k) \/ \E v \in Value : Finish(k, v)
        \/ \E c \in Caller, k \in Key : Answer(c, k)

Spec == Init /\ [][Next]_<<job, answer>>
=============================================================================
