------------------------------ MODULE Oracles ------------------------------
(***************************************************************************)
(* The oracles of a program that `scarb execute` runs                      *)
(* (src/utils/scarb-oracle-hint-processor).  The program invokes an oracle *)
(* by a connection string; the first time, a process is spawned, which     *)
(* announces that it is ready; then each invocation writes a request to    *)
(* its standard input and reads one line of its standard output.  The      *)
(* connection stays in a pool until the program ends, whatever happened    *)
(* on it after it was ready.                                               *)
(*                                                                         *)
(* An oracle is any program: it writes what it likes, late, twice or not   *)
(* at all, but an answer names the request it is for.  A line is the set   *)
(* of the members its JSON object has, `json` when it begins like one.     *)
(***************************************************************************)
EXTENDS Naturals, Sequences, FiniteSets, SequencesExt

CONSTANTS
    Connection,   \* connection strings the program uses
    Child,        \* processes that may be spawned, one after another
    MaxCalls,     \* invocations of the program
    MaxLines,     \* lines all oracles write together
    NoChild

ASSUME OraclesAssumption ==
    NoChild \notin Child /\ MaxCalls \in Nat /\ MaxLines \in Nat

VARIABLES
    pool,         \* the ConnectionManager: a child of each string
    child,        \* of each process: whether it runs, its pipes, ...
    calls,        \* invocations so far
    invocation,   \* the one under way: its string, its child and its id
    oracleStage,  \* where the executor is in it
    returned      \* history: what each invocation returned

oracleVars == <<pool, child, calls, invocation, oracleStage, returned>>

Unborn == [state |-> "unborn", of |-> NoChild, stdin |-> "open", asked |-> {},
           stdout |-> <<>>, lines |-> 0, nextId |-> 0, acked |-> FALSE]

OraclesInit ==
    /\ pool = [c \in Connection |-> NoChild]
    /\ child = [p \in Child |-> Unborn]
    /\ calls = 0 /\ invocation = Unborn /\ oracleStage = "program"
    /\ returned = <<>>

-----------------------------------------------------------------------------
(* Messages.  Serde tries the variants of Message in order and ignores     *)
(* members it does not know.                                               *)

Kind(line) ==
    IF line.json = FALSE THEN "garbage"
    ELSE IF {"id", "method"} \subseteq line.has THEN "request"
    ELSE IF "id" \in line.has THEN "response"
    ELSE IF "method" \in line.has THEN "notification"
    ELSE "garbage"

NoMessage == [json |-> FALSE, has |-> {}, id |-> 0, of |-> 0]

(* What an oracle may write: anything about a request it was sent, calls   *)
(* of its own, and things that are no message, or only begin like one.     *)
(* `of` is the invocation whose answer a result is.                        *)
Lines(p) ==
    {NoMessage}
    \cup [json : {TRUE}, has : {{"id", "method"}, {"method"}, {}}, id : {0}, of : {0}]
    \cup [json : {TRUE}, id : {r[1] : r \in child[p].asked},
          of : {r[2] : r \in child[p].asked},
          has : {{"id", "result"}, {"id", "error"}, {"id", "result", "error"}, {"id"}}]

(* A process does not mix up its own requests.                             *)
Honest(p, line) ==
    Kind(line) = "response" => <<line.id, line.of>> \in child[p].asked

-----------------------------------------------------------------------------
(* A spawned process                                                       *)

WriteLine(p) ==
    /\ child[p].state = "running"
    /\ MapThenSumSet(LAMBDA q : child[q].lines, Child) < MaxLines
    /\ \E line \in Lines(p) :
           /\ Honest(p, line)
           /\ child' = [child EXCEPT ![p].stdout = Append(@, line),
                                     ![p].lines = @ + 1]
    /\ UNCHANGED <<pool, calls, invocation, oracleStage, returned>>

StopListening(p) ==
    /\ child[p].state = "running" /\ child[p].stdin = "open"
    /\ child' = [child EXCEPT ![p].stdin = "closed"]
    /\ UNCHANGED <<pool, calls, invocation, oracleStage, returned>>

Exit(p) ==
    /\ child[p].state = "running"
    /\ child' = [child EXCEPT ![p].state = "exited", ![p].stdin = "closed"]
    /\ UNCHANGED <<pool, calls, invocation, oracleStage, returned>>

-----------------------------------------------------------------------------
(* Io                                                                      *)

(* send fails on a broken pipe.                                            *)
CanSend(p) == child[p].stdin = "open"

(* recv waits for a line or for the end of the output.                     *)
CanReceive(p) == child[p].stdout # <<>> \/ child[p].state # "running"

(* terminate: kill and wait.                                               *)
Terminated(c) == [c EXCEPT !.state = "waited", !.stdin = "closed"]

(* Mutant of Dropped: a connection is forgotten without a shutdown.        *)
Dropped_Forgets(c) == c

(* Drop: the shutdown notification, and when that was sent, terminate.     *)
Dropped(c) == IF c.stdin = "open" THEN Terminated(c) ELSE c

-----------------------------------------------------------------------------
(* execute_invoke                                                          *)

Return(result) ==
    /\ returned' = Append(returned, result)
    /\ oracleStage' = "program"
    /\ invocation' = Unborn

Failed == [ok |-> FALSE, of |-> 0]

(* connect: from the pool, or with a new process, if that can be spawned.  *)
Invoke(c) ==
    /\ oracleStage = "program" /\ calls < MaxCalls
    /\ calls' = calls + 1
    /\ \/ /\ pool[c] # NoChild
          /\ invocation' = [of |-> c, child |-> pool[c], id |-> 0]
          /\ oracleStage' = "sending"
          /\ UNCHANGED <<child, returned>>
       \/ pool[c] = NoChild /\ Return(Failed) /\ UNCHANGED child
       \/ /\ pool[c] = NoChild
          /\ \E p \in Child :
                 /\ child[p].state = "unborn"
                 /\ child' = [child EXCEPT ![p].state = "running", ![p].of = c]
                 /\ invocation' = [of |-> c, child |-> p, id |-> 0]
                 /\ oracleStage' = "connecting"
                 /\ UNCHANGED returned
    /\ UNCHANGED pool

KeptAs(p, ready) == IF ready THEN p ELSE NoChild

(* initialize: the first line must be a `ready` request.  What is not even *)
(* the beginning of a message has the process terminated at once; after    *)
(* any other error the connection is dropped.  A ready request is          *)
(* acknowledged, if the process still listens.                             *)
Initialize ==
    LET c == invocation.of
        p == invocation.child
        line == IF child[p].stdout = <<>> THEN NoMessage ELSE Head(child[p].stdout)
        ready == Kind(line) = "request" /\ CanSend(p)
        read == [child[p] EXCEPT !.stdout = IF @ = <<>> THEN @ ELSE Tail(@),
                                 !.acked = ready]
    IN  /\ oracleStage = "connecting" /\ CanReceive(p)
        /\ pool' = [pool EXCEPT ![c] = KeptAs(p, ready)]
        /\ \/ /\ ready
              /\ child' = [child EXCEPT ![p] = read]
              /\ oracleStage' = "sending"
              /\ UNCHANGED <<invocation, returned>>
           \/ /\ ~ready
              /\ child' = [child EXCEPT ![p] =
                     IF line.json THEN Dropped(read) ELSE Terminated(read)]
              /\ Return(Failed)
        /\ UNCHANGED calls

(* A request with another method, or parameters that are no object, is     *)
(* answered with an error.                                                 *)
Refuse ==
    LET p == invocation.child
    IN  /\ oracleStage = "connecting" /\ child[p].stdout # <<>>
        /\ Kind(Head(child[p].stdout)) = "request"
        /\ child' = [child EXCEPT ![p] = Dropped(@)]
        /\ Return(Failed)
        /\ UNCHANGED <<pool, calls>>

(* MessageFactory::next_id goes on whether or not the request is sent.     *)
SendRequest ==
    LET p == invocation.child
    IN  /\ oracleStage = "sending"
        /\ child' = [child EXCEPT
               ![p].nextId = @ + 1,
               ![p].asked = IF CanSend(p) THEN @ \cup {<<child[p].nextId, calls>>} ELSE @]
        /\ \/ /\ CanSend(p)
              /\ invocation' = [invocation EXCEPT !.id = child[p].nextId]
              /\ oracleStage' = "receiving"
              /\ UNCHANGED returned
           \/ ~CanSend(p) /\ Return(Failed)
        /\ UNCHANGED <<pool, calls>>

(* Mutant of Answers: any response will do.                                *)
Answers_AnyId(line) == Kind(line) = "response"

Answers(line) == Kind(line) = "response" /\ line.id = invocation.id

(* call, from recv on: one line is read, and it is the answer or an error. *)
ReceiveResponse ==
    LET p == invocation.child
        line == IF child[p].stdout = <<>> THEN NoMessage ELSE Head(child[p].stdout)
    IN  /\ oracleStage = "receiving" /\ CanReceive(p)
        /\ child' = [child EXCEPT ![p].stdout = IF @ = <<>> THEN @ ELSE Tail(@)]
        /\ IF Answers(line) /\ "error" \notin line.has
           THEN \* no result is an empty one; one that is no array of felts is an error
                \/ Return([ok |-> TRUE, of |-> line.of])
                \/ "result" \in line.has /\ Return(Failed)
           ELSE Return(Failed)
        /\ UNCHANGED <<pool, calls>>

(* The program ends or fails, and the pool is dropped, in any order.       *)
EndProgram ==
    /\ oracleStage = "program" /\ oracleStage' = "ending"
    /\ UNCHANGED <<pool, child, calls, invocation, returned>>

DropConnection(c) ==
    /\ oracleStage = "ending" /\ pool[c] # NoChild
    /\ child' = [child EXCEPT ![pool[c]] = Dropped(@)]
    /\ pool' = [pool EXCEPT ![c] = NoChild]
    /\ UNCHANGED <<calls, invocation, oracleStage, returned>>

Processor ==
    \/ Initialize \/ Refuse \/ SendRequest \/ ReceiveResponse \/ EndProgram
    \/ \E c \in Connection : Invoke(c) \/ DropConnection(c)

OraclesNext ==
    \/ Processor
    \/ \E p \in Child : WriteLine(p) \/ StopListening(p) \/ Exit(p)

OraclesSpec == OraclesInit /\ [][OraclesNext]_oracleVars

-----------------------------------------------------------------------------
(* A result that an invocation returns is the oracle's answer to this very *)
(* invocation, even when lines that came unasked, late or twice have put   *)
(* requests and responses out of step.                                     *)
AnsweredAsAsked ==
    \A i \in DOMAIN returned : returned[i].ok => returned[i].of = i

(* Between invocations a process that runs is the one in the pool, and was *)
(* acknowledged, so that errors of a connection are not cached; after the  *)
(* program none runs.  Excepted is a process that has closed its input:    *)
(* the shutdown cannot be sent, and its error skips the kill.              *)
NoneLeftRunning ==
    oracleStage \in {"program", "ending"} =>
        \A p \in Child :
            /\ child[p].state = "running" /\ child[p].stdin = "open"
                   => pool[child[p].of] = p
            /\ \A c \in Connection : pool[c] = p => child[p].acked
=============================================================================
