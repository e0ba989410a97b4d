-------------------------- MODULE ProcMacroServer --------------------------
(***************************************************************************)
(* `scarb proc-macro-server` (src/scarb/src/ops/proc_macro_server): one    *)
(* thread reads requests from the standard input, a pool of workers        *)
(* expands macros, one thread writes responses to the standard output.     *)
(* The threads meet over two channels of capacity zero, each with as many  *)
(* senders and receivers as there are clones, and the server stops when    *)
(* these are dropped one after the other: the reader's sender, then the    *)
(* workers', then the writer ends and `join` returns.                      *)
(*                                                                         *)
(* A request stands for its id and for the response with that id.  Pipes   *)
(* hold a bounded number of lines.                                         *)
(***************************************************************************)
EXTENDS Naturals, Sequences, FiniteSets

CONSTANTS Line,           \* what the client may write, each line once
          Garbage,        \* lines that cannot be read or parsed
          Poison,         \* requests whose handling panics
          Worker,         \* the threads of the pool
          StdinCapacity,  \* of the pipe to the server, in lines
          StdoutCapacity, \* of the pipe to the client, in lines
          NoLine

ASSUME ConstantsAssumption ==
    /\ Garbage \subseteq Line /\ Poison \subseteq Line \ Garbage
    /\ NoLine \notin Line
    /\ StdinCapacity \in Nat \ {0} /\ StdoutCapacity \in Nat \ {0}

VARIABLES
    sent,      \* the lines the client has written
    stdin,     \* the pipe to the server
    eof,       \* the client has closed its end of stdin
    reader,    \* "reading", "sending" a request, or "ended"
    parsed,    \* the request the reader is sending
    worker,    \* the state of each worker
    job,       \* the request each worker has
    writer,    \* "waiting", "writing" a response, or "ended"
    response,  \* the response the writer is writing
    stdout,    \* the responses in the pipe to the client
    received,  \* the responses the client has read
    hungUp,    \* the client has closed its end of stdout
    main       \* "spawning", "joinReader", "joinWriter" or "returned"

clientVars == <<sent, eof, received, hungUp>>
readerVars == <<reader, parsed>>
workerVars == <<worker, job>>
writerVars == <<writer, response>>
vars == <<clientVars, stdin, readerVars, workerVars, writerVars, stdout, main>>

TypeOK ==
    /\ sent \subseteq Line /\ stdin \in Seq(Line)
    /\ eof \in BOOLEAN /\ hungUp \in BOOLEAN
    /\ reader \in {"reading", "sending", "ended"}
    /\ parsed \in Line \cup {NoLine} /\ (parsed # NoLine <=> reader = "sending")
    /\ worker \in [Worker -> {"unborn", "idle", "handling", "sending",
                              "done", "dead"}]
    /\ job \in [Worker -> Line \cup {NoLine}]
    /\ \A w \in Worker : job[w] # NoLine <=> worker[w] \in {"handling", "sending"}
    /\ writer \in {"waiting", "writing", "ended"}
    /\ response \in Line \cup {NoLine} /\ (response # NoLine <=> writer = "writing")
    /\ stdout \subseteq Line /\ received \subseteq Line
    /\ main \in {"spawning", "joinReader", "joinWriter", "returned"}

Init ==
    /\ sent = {} /\ stdin = <<>> /\ eof = FALSE
    /\ reader = "reading" /\ parsed = NoLine
    /\ worker = [w \in Worker |-> "unborn"] /\ job = [w \in Worker |-> NoLine]
    /\ writer = "waiting" /\ response = NoLine
    /\ stdout = {} /\ received = {} /\ hungUp = FALSE
    /\ main = "spawning"

Running == main # "returned"

-----------------------------------------------------------------------------
(* The client                                                              *)

Request(r) ==
    /\ ~eof /\ r \notin sent /\ Len(stdin) < StdinCapacity
    /\ sent' = sent \cup {r}
    /\ stdin' = Append(stdin, r)
    /\ UNCHANGED <<eof, received, hungUp, readerVars, workerVars, writerVars,
                   stdout, main>>

CloseStdin ==
    /\ ~eof /\ eof' = TRUE
    /\ UNCHANGED <<sent, received, hungUp, stdin, readerVars, workerVars,
                   writerVars, stdout, main>>

Receive(r) ==
    /\ ~hungUp /\ r \in stdout
    /\ stdout' = stdout \ {r}
    /\ received' = received \cup {r}
    /\ UNCHANGED <<sent, eof, hungUp, stdin, readerVars, workerVars,
                   writerVars, main>>

HangUp ==
    /\ ~hungUp /\ hungUp' = TRUE
    /\ UNCHANGED <<sent, eof, received, stdin, readerVars, workerVars,
                   writerVars, stdout, main>>

-----------------------------------------------------------------------------
(* The reader                                                              *)

ReadLine ==
    /\ Running /\ reader = "reading" /\ stdin # <<>>
    /\ stdin' = Tail(stdin)
    /\ IF Head(stdin) \in Garbage
       THEN reader' = "ended" /\ UNCHANGED parsed
       ELSE reader' = "sending" /\ parsed' = Head(stdin)
    /\ UNCHANGED <<clientVars, workerVars, writerVars, stdout, main>>

ReadEof ==
    /\ Running /\ reader = "reading" /\ stdin = <<>> /\ eof
    /\ reader' = "ended"
    /\ UNCHANGED <<clientVars, stdin, parsed, workerVars, writerVars, stdout,
                   main>>

(* The clones of both channels' ends that the workers had are dropped.     *)
PoolGone == \A w \in Worker : worker[w] \in {"done", "dead"}

(* Every receiver is dropped: the request is lost.                         *)
ReaderGivesUp ==
    /\ Running /\ reader = "sending"
    /\ PoolGone /\ main # "spawning"
    /\ reader' = "ended" /\ parsed' = NoLine
    /\ UNCHANGED <<clientVars, stdin, workerVars, writerVars, stdout, main>>

-----------------------------------------------------------------------------
(* The workers                                                             *)

(* Mutant of Take: the request stays with the reader, too.                 *)
Take_Copies(w) ==
    /\ Running /\ worker[w] = "idle" /\ reader = "sending"
    /\ worker' = [worker EXCEPT ![w] = "handling"]
    /\ job' = [job EXCEPT ![w] = parsed]
    /\ UNCHANGED <<clientVars, stdin, readerVars, writerVars, stdout, main>>

(* Reader and worker meet at the channel.                                  *)
Take(w) ==
    /\ Running /\ worker[w] = "idle" /\ reader = "sending"
    /\ worker' = [worker EXCEPT ![w] = "handling"]
    /\ job' = [job EXCEPT ![w] = parsed]
    /\ reader' = "reading" /\ parsed' = NoLine
    /\ UNCHANGED <<clientVars, stdin, writerVars, stdout, main>>

(* Mutant of Handle: an error of the handler is not answered.              *)
Handle_DropsError(w) ==
    /\ Running /\ worker[w] = "handling"
    /\ \/ job[w] \notin Poison /\ worker' = [worker EXCEPT ![w] = "sending"]
          /\ UNCHANGED job
       \/ job[w] \notin Poison /\ worker' = [worker EXCEPT ![w] = "idle"]
          /\ job' = [job EXCEPT ![w] = NoLine]
       \/ job[w] \in Poison /\ worker' = [worker EXCEPT ![w] = "dead"]
          /\ job' = [job EXCEPT ![w] = NoLine]
    /\ UNCHANGED <<clientVars, stdin, readerVars, writerVars, stdout, main>>

(* route_request: a result or an error, both are answered; or the thread   *)
(* panics, on parameters that do not parse or in the macro.                *)
Handle(w) ==
    /\ Running /\ worker[w] = "handling"
    /\ \/ job[w] \notin Poison /\ worker' = [worker EXCEPT ![w] = "sending"]
          /\ UNCHANGED job
       \/ job[w] \in Poison /\ worker' = [worker EXCEPT ![w] = "dead"]
          /\ job' = [job EXCEPT ![w] = NoLine]
    /\ UNCHANGED <<clientVars, stdin, readerVars, writerVars, stdout, main>>

(* Worker and writer meet at the channel.                                  *)
Respond(w) ==
    /\ Running /\ worker[w] = "sending" /\ writer = "waiting"
    /\ worker' = [worker EXCEPT ![w] = "idle"]
    /\ job' = [job EXCEPT ![w] = NoLine]
    /\ writer' = "writing" /\ response' = job[w]
    /\ UNCHANGED <<clientVars, stdin, readerVars, stdout, main>>

(* send(..).unwrap(): the writer is gone.                                  *)
RespondPanics(w) ==
    /\ Running /\ worker[w] = "sending" /\ writer = "ended"
    /\ worker' = [worker EXCEPT ![w] = "dead"]
    /\ job' = [job EXCEPT ![w] = NoLine]
    /\ UNCHANGED <<clientVars, stdin, readerVars, writerVars, stdout, main>>

(* The reader has dropped the only sender: the loop of the worker ends.    *)
WorkerEnds(w) ==
    /\ Running /\ worker[w] = "idle" /\ reader = "ended"
    /\ worker' = [worker EXCEPT ![w] = "done"]
    /\ UNCHANGED <<clientVars, stdin, readerVars, job, writerVars, stdout,
                   main>>

-----------------------------------------------------------------------------
(* The writer                                                              *)

Write ==
    /\ Running /\ writer = "writing"
    /\ ~hungUp /\ Cardinality(stdout) < StdoutCapacity
    /\ stdout' = stdout \cup {response}
    /\ writer' = "waiting" /\ response' = NoLine
    /\ UNCHANGED <<clientVars, stdin, readerVars, workerVars, main>>

WriteFails ==
    /\ Running /\ writer = "writing" /\ hungUp
    /\ writer' = "ended" /\ response' = NoLine
    /\ UNCHANGED <<clientVars, stdin, readerVars, workerVars, stdout, main>>

(* Mutant of WriterEnds: Connection's own sender is never dropped.         *)
WriterEnds_SenderKept ==
    /\ Running /\ writer = "waiting"
    /\ PoolGone /\ main = "returned"
    /\ writer' = "ended"
    /\ UNCHANGED <<clientVars, stdin, readerVars, workerVars, response,
                   stdout, main>>

(* Every sender is dropped, also the one of Connection.                    *)
WriterEnds ==
    /\ Running /\ writer = "waiting"
    /\ PoolGone /\ main # "spawning"
    /\ writer' = "ended"
    /\ UNCHANGED <<clientVars, stdin, readerVars, workerVars, response,
                   stdout, main>>

-----------------------------------------------------------------------------
(* start_proc_macro_server                                                 *)

Spawn(w) ==
    /\ main = "spawning" /\ worker[w] = "unborn"
    /\ worker' = [worker EXCEPT ![w] = "idle"]
    /\ UNCHANGED <<clientVars, stdin, readerVars, job, writerVars, stdout,
                   main>>

Goto(place) ==
    /\ main' = place
    /\ UNCHANGED <<clientVars, stdin, readerVars, workerVars, writerVars,
                   stdout>>

(* join: Connection's own ends of the channels are dropped first.          *)
Join == /\ main = "spawning" /\ \A w \in Worker : worker[w] # "unborn"
        /\ Goto("joinReader")

JoinReader == main = "joinReader" /\ reader = "ended" /\ Goto("joinWriter")

(* Mutant of JoinWriter: the process does not wait for the writer.         *)
JoinWriter_NoWait == main = "joinWriter" /\ Goto("returned")

JoinWriter == main = "joinWriter" /\ writer = "ended" /\ Goto("returned")

-----------------------------------------------------------------------------
ClientStep == (\E r \in Line : Request(r)) \/ CloseStdin \/ HangUp

ReaderStep == ReadLine \/ ReadEof \/ ReaderGivesUp

WorkerStep(w) ==
    \/ Handle(w) \/ Respond(w) \/ RespondPanics(w) \/ WorkerEnds(w)

WriterStep == Write \/ WriteFails \/ WriterEnds

MainStep == (\E w \in Worker : Spawn(w)) \/ Join \/ JoinReader \/ JoinWriter

(* The server is gone.                                                     *)
Quiet == main = "returned" /\ UNCHANGED vars

Next ==
    \/ ClientStep \/ \E r \in Line : Receive(r)
    \/ ReaderStep
    \/ \E w \in Worker : Take(w) \/ WorkerStep(w)
    \/ WriterStep \/ MainStep \/ Quiet

Spec == Init /\ [][Next]_vars

(* Threads run, a handler ends, threads that can meet at a channel do, and *)
(* a client reads the responses that arrive.  Nothing is assumed of what   *)
(* the client writes or closes.                                            *)
FairSpec ==
    /\ Spec
    /\ WF_vars(ReaderStep) /\ WF_vars(WriterStep) /\ WF_vars(MainStep)
    /\ WF_vars(\E w \in Worker : Take(w))
    /\ \A w \in Worker : WF_vars(WorkerStep(w))
    /\ \A r \in Line : WF_vars(Receive(r))

-----------------------------------------------------------------------------
Elements(s) == {s[i] : i \in DOMAIN s}

Held == ({parsed, response} \cup {job[w] : w \in Worker}) \ {NoLine}

Answered == stdout \cup received

Good == Line \ (Garbage \cup Poison)

SomeoneLeft == \E w \in Worker : worker[w] # "dead"

(* A request is in one place at a time: it has one response, with its own  *)
(* id ("used to match the response with the request", jsonrpc.rs:51),      *)
(* however the workers overtake each other.                                *)
AnsweredOnce ==
    /\ Elements(stdin) \cup Held \cup Answered \subseteq sent
    /\ \A i, j \in DOMAIN stdin : stdin[i] = stdin[j] => i = j
    /\ Elements(stdin) \cap (Held \cup Answered) = {}
    /\ Held \cap Answered = {}
    /\ stdout \cap received = {}
    /\ parsed # NoLine => parsed # response
    /\ \A w \in Worker : job[w] # NoLine =>
           /\ job[w] \notin {parsed, response}
           /\ \A v \in Worker : job[v] = job[w] => v = w

(* When the server has returned, every good request it has read was        *)
(* answered: those in flight at the end of the input, or when a line did   *)
(* not parse, are not cut off, as long as a worker is left.                *)
Drained ==
    main = "returned" /\ ~hungUp /\ SomeoneLeft =>
        (sent \ Elements(stdin)) \cap Good \subseteq Answered

(* After the end of its input the server returns, whatever workers have    *)
(* panicked and whether or not the client still listens.                   *)
Returns == eof ~> main = "returned"

(* A good request is answered in the end, and stays so, while the client   *)
(* listens and somebody works, unless a line that does not parse ends the  *)
(* reader before it.                                                       *)
Served ==
    <>[](\A r \in Good : r \in sent =>
             \/ r \in received \/ hungUp \/ ~SomeoneLeft
             \/ r \in Elements(stdin) /\ reader = "ended")
=============================================================================
