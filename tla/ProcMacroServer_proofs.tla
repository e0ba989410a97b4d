----------------------- MODULE ProcMacroServer_proofs -----------------------
(***************************************************************************)
(* Proofs about ProcMacroServer, for any number of workers, requests,      *)
(* panics and any capacity of the pipes.  The invariant ServerInv says     *)
(* where a request is, which threads have ended before which, and that a   *)
(* good request is nowhere lost while a worker is left and the client      *)
(* listens.  After it, proofs about what shares no state with the server:  *)
(* ExpansionSpans, Oracles, MacroMemory, ProgramRun and ProcMacroHost, one *)
(* part each.                                                              *)
(***************************************************************************)
EXTENDS ProcMacroServer, ExpansionSpans, Oracles, MacroMemory, ProgramRun,
        ProcMacroHost, FiniteSetTheorems, WellFoundedInduction, TLAPS

(* The elements of a pipe after a write and after a read.                  *)
LEMMA ElementsAppend ==
  ASSUME NEW s \in Seq(Line), NEW r \in Line,
         \A i, j \in DOMAIN s : s[i] = s[j] => i = j, r \notin Elements(s)
  PROVE  /\ Append(s, r) \in Seq(Line)
         /\ Elements(Append(s, r)) = Elements(s) \cup {r}
         /\ \A i, j \in DOMAIN Append(s, r) :
                Append(s, r)[i] = Append(s, r)[j] => i = j
<1> DEFINE t == Append(s, r)
<1>1. /\ t \in Seq(Line) /\ DOMAIN s = 1..Len(s) /\ DOMAIN t = 1..(Len(s) + 1)
      /\ t[Len(s) + 1] = r /\ \A i \in 1..Len(s) : t[i] = s[i]
  OBVIOUS
<1>2. QED
  BY <1>1 DEF Elements

LEMMA ElementsTail ==
  ASSUME NEW s \in Seq(Line), s # <<>>,
         \A i, j \in DOMAIN s : s[i] = s[j] => i = j
  PROVE  /\ Head(s) \in Line /\ Tail(s) \in Seq(Line)
         /\ Elements(s) = Elements(Tail(s)) \cup {Head(s)}
         /\ Head(s) \notin Elements(Tail(s))
         /\ \A i, j \in DOMAIN Tail(s) : Tail(s)[i] = Tail(s)[j] => i = j
<1> DEFINE t == Tail(s)
<1>1. /\ Head(s) = s[1] /\ Head(s) \in Line /\ t \in Seq(Line)
      /\ Len(t) = Len(s) - 1 /\ \A i \in 1..Len(t) : t[i] = s[i + 1]
  OBVIOUS
<1>2. \A i, j \in DOMAIN t : t[i] = t[j] => i = j
  BY <1>1
<1>3. Elements(t) \subseteq Elements(s) \ {Head(s)}
  BY <1>1 DEF Elements
<1>4. ASSUME NEW e \in Elements(s) \ {Head(s)} PROVE e \in Elements(t)
  <2>1. PICK i \in 1..Len(s) : e = s[i]
    BY DEF Elements
  <2>2. i - 1 \in 1..Len(t) /\ t[i - 1] = s[(i - 1) + 1]
    BY <1>1, <2>1
  <2>3. e = t[i - 1] /\ DOMAIN t = 1..Len(t)
    BY <1>1, <2>1, <2>2
  <2>4. QED
    BY <2>2, <2>3 DEF Elements
<1>5. Head(s) \in Elements(s)
  BY <1>1 DEF Elements
<1>6. QED
  BY <1>1, <1>2, <1>3, <1>4, <1>5

(* Which threads have ended, in the order of their ending.                 *)
Stages ==
    /\ writer = "ended" => hungUp \/ (PoolGone /\ main # "spawning")
    /\ main \in {"joinWriter", "returned"} => reader = "ended"
    /\ main = "returned" => writer = "ended"
    /\ main # "spawning" => \A w \in Worker : worker[w] # "unborn"
    /\ \A w \in Worker : worker[w] = "done" => reader = "ended"

(* No good request is lost.                                                *)
Kept ==
    ~hungUp /\ SomeoneLeft =>
        sent \cap Good \subseteq Elements(stdin) \cup Held \cup Answered

ServerInv == TypeOK /\ AnsweredOnce /\ Stages /\ Kept

LEMMA ServerInit == Init => ServerInv
<1> SUFFICES ASSUME Init PROVE ServerInv
  OBVIOUS
<1> USE ConstantsAssumption DEF Init
<1>1. Held = {} /\ Elements(stdin) = {} /\ Answered = {}
  BY DEF Held, Elements, Answered
<1>2. TypeOK /\ Stages
  <2>1. <<>> \in Seq(Line)
    OBVIOUS
  <2>2. TypeOK
    BY <2>1 DEF TypeOK
  <2>3. QED
    BY <2>2 DEF Stages, PoolGone
<1>3. AnsweredOnce
  BY <1>1 DEF AnsweredOnce
<1>4. Kept
  BY <1>1 DEF Kept
<1>5. QED
  BY <1>2, <1>3, <1>4 DEF ServerInv

(* Steps of the client.                                                    *)
LEMMA ClientKeeps ==
  ASSUME ServerInv, ClientStep \/ \E r \in Line : Receive(r)
  PROVE  ServerInv'
<1> USE ConstantsAssumption
        DEF ServerInv, TypeOK, Stages, readerVars, workerVars, writerVars,
            clientVars, PoolGone
<1>1. ASSUME NEW r \in Line, Request(r) PROVE ServerInv'
  <2>1. r \notin Elements(stdin) \cup Held \cup Answered
    BY <1>1 DEF Request, AnsweredOnce
  <2>2. /\ stdin' \in Seq(Line) /\ Elements(stdin') = Elements(stdin) \cup {r}
        /\ \A i, j \in DOMAIN stdin' : stdin'[i] = stdin'[j] => i = j
    BY <1>1, <2>1, ElementsAppend DEF Request, AnsweredOnce
  <2>3. Held' = Held /\ Answered' = Answered /\ (SomeoneLeft' <=> SomeoneLeft)
    BY <1>1 DEF Request, Held, Answered, SomeoneLeft
  <2>4. TypeOK' /\ Stages'
    BY <1>1, <2>2 DEF Request
  <2>5. AnsweredOnce'
    BY <1>1, <2>1, <2>2, <2>3 DEF Request, AnsweredOnce
  <2>6. Kept'
    BY <1>1, <2>2, <2>3 DEF Request, Kept
  <2>7. QED
    BY <2>4, <2>5, <2>6
<1>2. CASE CloseStdin \/ HangUp
  <2>1. Held' = Held /\ Answered' = Answered /\ (SomeoneLeft' <=> SomeoneLeft)
    BY <1>2 DEF CloseStdin, HangUp, Held, Answered, SomeoneLeft
  <2>2. TypeOK' /\ Stages'
    BY <1>2 DEF CloseStdin, HangUp
  <2>3. AnsweredOnce'
    BY <1>2, <2>1 DEF CloseStdin, HangUp, AnsweredOnce, Elements
  <2>4. Kept'
    BY <1>2, <2>1 DEF CloseStdin, HangUp, Kept, Elements
  <2>5. QED
    BY <2>2, <2>3, <2>4
<1>3. ASSUME NEW r \in Line, Receive(r) PROVE ServerInv'
  <2>1. Held' = Held /\ Answered' = Answered /\ (SomeoneLeft' <=> SomeoneLeft)
    BY <1>3 DEF Receive, Held, Answered, SomeoneLeft
  <2>2. QED
    BY <1>3, <2>1 DEF Receive, AnsweredOnce, Kept, Elements
<1>4. QED
  BY <1>1, <1>2, <1>3 DEF ClientStep

(* Steps of the reader, the writer and the main thread.                    *)
LEMMA EndsKeep ==
  ASSUME ServerInv, ReaderStep \/ WriterStep \/ MainStep
  PROVE  ServerInv'
<1> USE ConstantsAssumption
        DEF ServerInv, TypeOK, Stages, readerVars, workerVars, writerVars,
            clientVars, Running
<1>1. CASE ReadLine
  <2>1. /\ Head(stdin) \in Line /\ stdin' \in Seq(Line)
        /\ Elements(stdin) = Elements(stdin') \cup {Head(stdin)}
        /\ Head(stdin) \notin Elements(stdin')
        /\ \A i, j \in DOMAIN stdin' : stdin'[i] = stdin'[j] => i = j
    BY <1>1, ElementsTail DEF ReadLine, AnsweredOnce
  <2>2. Answered' = Answered /\ (SomeoneLeft' <=> SomeoneLeft)
    BY <1>1 DEF ReadLine, Answered, SomeoneLeft
  <2>3. Head(stdin) \notin Held /\ Head(stdin) \notin Answered
    BY <2>1 DEF AnsweredOnce
  <2>4. CASE Head(stdin) \in Garbage
    <3>1. Held' = Held
      BY <1>1, <2>4 DEF ReadLine, Held
    <3>2. AnsweredOnce'
      BY <1>1, <2>1, <2>2, <2>4, <3>1 DEF ReadLine, AnsweredOnce
    <3>3. Kept'
      BY <1>1, <2>1, <2>2, <2>4, <3>1 DEF ReadLine, Kept, Good
    <3>4. TypeOK' /\ Stages'
      BY <1>1, <2>1, <2>4 DEF ReadLine, PoolGone
    <3>5. QED
      BY <3>2, <3>3, <3>4
  <2>5. CASE Head(stdin) \notin Garbage
    <3>1. Held' = Held \cup {Head(stdin)}
      BY <1>1, <2>1, <2>5 DEF ReadLine, Held
    <3>2. \A w \in Worker : job[w] # Head(stdin)
      BY <2>1, <2>3 DEF Held
    <3>3. response # Head(stdin)
      BY <2>1, <2>3 DEF Held
    <3>4. AnsweredOnce'
      BY <1>1, <2>1, <2>2, <2>3, <2>5, <3>1, <3>2, <3>3
         DEF ReadLine, AnsweredOnce
    <3>5. Kept'
      BY <1>1, <2>1, <2>2, <3>1 DEF ReadLine, Kept
    <3>6. TypeOK' /\ Stages'
      BY <1>1, <2>1, <2>5 DEF ReadLine, PoolGone
    <3>7. QED
      BY <3>4, <3>5, <3>6
  <2>6. QED
    BY <2>4, <2>5
<1>2. CASE ReadEof \/ WriterEnds
  BY <1>2 DEF ReadEof, WriterEnds, AnsweredOnce, Kept, Held, Answered,
              SomeoneLeft, Elements, PoolGone
<1>3. CASE ReaderGivesUp
  <2>1. ~SomeoneLeft
    BY <1>3 DEF ReaderGivesUp, PoolGone, SomeoneLeft
  <2>2. Held' \subseteq Held /\ Answered' = Answered /\ ~SomeoneLeft'
    BY <1>3, <2>1 DEF ReaderGivesUp, Held, Answered, SomeoneLeft
  <2>3. QED
    BY <1>3, <2>1, <2>2
       DEF ReaderGivesUp, AnsweredOnce, Kept, Elements, PoolGone
<1>4. CASE Write
  <2>1. response \in Line /\ response \in Held
    BY <1>4 DEF Write, Held
  <2>2. Answered' = Answered \cup {response} /\ (SomeoneLeft' <=> SomeoneLeft)
    BY <1>4 DEF Write, Answered, SomeoneLeft
  <2>3. Held' = Held \ {response}
    <3>1. parsed # response /\ \A w \in Worker : job[w] # response
      BY <2>1 DEF AnsweredOnce
    <3>2. QED
      BY <1>4, <2>1, <3>1 DEF Write, Held
  <2>4. AnsweredOnce'
    BY <1>4, <2>1, <2>2, <2>3 DEF Write, AnsweredOnce, Elements, Answered
  <2>5. Kept'
    BY <1>4, <2>1, <2>2, <2>3 DEF Write, Kept, Elements
  <2>6. TypeOK' /\ Stages'
    BY <1>4, <2>1 DEF Write, PoolGone
  <2>7. QED
    BY <2>4, <2>5, <2>6
<1>5. CASE WriteFails
  <2>1. Held' \subseteq Held /\ Answered' = Answered
    BY <1>5 DEF WriteFails, Held, Answered
  <2>2. QED
    BY <1>5, <2>1 DEF WriteFails, AnsweredOnce, Kept, Elements, PoolGone
<1>6. ASSUME NEW w \in Worker, Spawn(w) PROVE ServerInv'
  <2>1. Held' = Held /\ Answered' = Answered /\ (SomeoneLeft' => SomeoneLeft)
    BY <1>6 DEF Spawn, Held, Answered, SomeoneLeft
  <2>2. QED
    BY <1>6, <2>1 DEF Spawn, AnsweredOnce, Kept, Elements, PoolGone
<1>7. CASE Join \/ JoinReader \/ JoinWriter
  <2>1. /\ Held' = Held /\ Answered' = Answered
        /\ (SomeoneLeft' <=> SomeoneLeft) /\ (PoolGone' <=> PoolGone)
    BY <1>7 DEF Join, JoinReader, JoinWriter, Goto, Held, Answered,
                SomeoneLeft, PoolGone
  <2>2. TypeOK' /\ Stages'
    BY <1>7, <2>1 DEF Join, JoinReader, JoinWriter, Goto
  <2>3. AnsweredOnce'
    BY <1>7, <2>1
       DEF Join, JoinReader, JoinWriter, Goto, AnsweredOnce, Elements
  <2>4. Kept'
    BY <1>7, <2>1 DEF Join, JoinReader, JoinWriter, Goto, Kept, Elements
  <2>5. QED
    BY <2>2, <2>3, <2>4
<1>8. QED
  BY <1>1, <1>2, <1>3, <1>4, <1>5, <1>6, <1>7
     DEF ReaderStep, WriterStep, MainStep

(* Steps of the workers.                                                   *)
LEMMA WorkersKeep ==
  ASSUME ServerInv, NEW w \in Worker, Take(w) \/ WorkerStep(w)
  PROVE  ServerInv'
<1> USE ConstantsAssumption
        DEF ServerInv, TypeOK, Stages, readerVars, workerVars, writerVars,
            clientVars, Running, PoolGone
<1>1. CASE Take(w)
  <2>1. parsed \in Line /\ job[w] = NoLine
    BY <1>1 DEF Take
  <2>2. Held' = Held
    BY <1>1, <2>1 DEF Take, Held
  <2>3. Answered' = Answered /\ (SomeoneLeft' => SomeoneLeft)
    BY <1>1 DEF Take, Answered, SomeoneLeft
  <2>4. \A v \in Worker : job[v] # parsed
    BY <2>1 DEF AnsweredOnce
  <2>5. AnsweredOnce'
    BY <1>1, <2>1, <2>2, <2>3, <2>4 DEF Take, AnsweredOnce, Elements
  <2>6. Kept'
    BY <1>1, <2>2, <2>3 DEF Take, Kept, Elements
  <2>7. TypeOK' /\ Stages'
    BY <1>1, <2>1 DEF Take
  <2>8. QED
    BY <2>5, <2>6, <2>7
<1>2. CASE Respond(w)
  <2>1. job[w] \in Line /\ response = NoLine
    BY <1>2 DEF Respond
  <2>2. Held' = Held
    BY <1>2, <2>1 DEF Respond, Held, AnsweredOnce
  <2>3. Answered' = Answered /\ (SomeoneLeft' => SomeoneLeft)
    BY <1>2 DEF Respond, Answered, SomeoneLeft
  <2>4. job[w] # parsed /\ \A v \in Worker \ {w} : job[v] # job[w]
    BY <2>1 DEF AnsweredOnce
  <2>5. AnsweredOnce'
    BY <1>2, <2>1, <2>2, <2>3, <2>4 DEF Respond, AnsweredOnce, Elements
  <2>6. Kept'
    BY <1>2, <2>2, <2>3 DEF Respond, Kept, Elements
  <2>7. TypeOK' /\ Stages'
    BY <1>2, <2>1 DEF Respond
  <2>8. QED
    BY <2>5, <2>6, <2>7
<1>3. CASE Handle(w) /\ job[w] \notin Poison
  <2>1. Held' = Held /\ Answered' = Answered /\ (SomeoneLeft' => SomeoneLeft)
    BY <1>3 DEF Handle, Held, Answered, SomeoneLeft
  <2>2. QED
    BY <1>3, <2>1 DEF Handle, AnsweredOnce, Kept, Elements
(* A worker that panics drops its request.                                 *)
<1>4. ASSUME /\ Running /\ worker[w] \in {"handling", "sending"}
             /\ worker' = [worker EXCEPT ![w] = "dead"]
             /\ job' = [job EXCEPT ![w] = NoLine]
             /\ UNCHANGED <<clientVars, stdin, readerVars, writerVars,
                            stdout, main>>
             /\ job[w] \in Good => hungUp
      PROVE  ServerInv'
  <2>1. Held' \subseteq Held /\ Held \subseteq Held' \cup {job[w]}
    BY <1>4 DEF Held
  <2>2. Answered' = Answered /\ (SomeoneLeft' => SomeoneLeft)
    BY <1>4 DEF Answered, SomeoneLeft
  <2>3. AnsweredOnce'
    BY <1>4, <2>1, <2>2 DEF AnsweredOnce, Elements
  <2>4. Kept'
    BY <1>4, <2>1, <2>2 DEF Kept, Elements
  <2>5. TypeOK' /\ Stages'
    BY <1>4
  <2>6. QED
    BY <2>3, <2>4, <2>5
<1>5. CASE Handle(w) /\ job[w] \in Poison
  BY <1>4, <1>5 DEF Handle, Good
<1>6. CASE RespondPanics(w)
  <2>1. hungUp
    BY <1>6 DEF RespondPanics
  <2>2. QED
    BY <1>4, <1>6, <2>1 DEF RespondPanics
<1>7. CASE WorkerEnds(w)
  <2>1. Held' = Held /\ Answered' = Answered /\ (SomeoneLeft' => SomeoneLeft)
    BY <1>7 DEF WorkerEnds, Held, Answered, SomeoneLeft
  <2>2. QED
    BY <1>7, <2>1 DEF WorkerEnds, AnsweredOnce, Kept, Elements
<1>8. QED
  BY <1>1, <1>2, <1>3, <1>5, <1>6, <1>7 DEF WorkerStep, Handle

LEMMA ServerNext == ServerInv /\ [Next]_vars => ServerInv'
<1> SUFFICES ASSUME ServerInv, [Next]_vars PROVE ServerInv'
  OBVIOUS
<1>1. CASE Quiet \/ UNCHANGED vars
  BY <1>1 DEF Quiet, vars, clientVars, readerVars, workerVars, writerVars,
              ServerInv, TypeOK, AnsweredOnce, Stages, Kept, Held, Answered,
              SomeoneLeft, Elements, PoolGone
<1>2. QED
  BY <1>1, ClientKeeps, EndsKeep, WorkersKeep DEF Next

LEMMA ServerAlways == Spec => []ServerInv
  BY ServerInit, ServerNext, PTL DEF Spec

(* The variables of the server keep their types.                           *)
THEOREM TypeCorrect == Spec => []TypeOK
<1>1. ServerInv => TypeOK
  BY DEF ServerInv
<1>2. QED
  BY <1>1, ServerAlways, PTL

(* However many workers there are, a request is in one place at a time and *)
(* is answered at most once.                                               *)
THEOREM OneAnswer == Spec => []AnsweredOnce
<1>1. ServerInv => AnsweredOnce
  BY DEF ServerInv
<1>2. QED
  BY <1>1, ServerAlways, PTL

(* A server that returns has answered every good request it has read.      *)
THEOREM ShutdownDrains == Spec => []Drained
<1>1. ServerInv => Drained
  <2> SUFFICES ASSUME ServerInv, main = "returned", ~hungUp, SomeoneLeft
               PROVE  (sent \ Elements(stdin)) \cap Good \subseteq Answered
    BY DEF Drained
  <2>1. PoolGone /\ reader = "ended" /\ writer = "ended"
    BY DEF ServerInv, Stages
  <2>2. Held = {}
    BY <2>1 DEF ServerInv, TypeOK, PoolGone, Held
  <2>3. QED
    BY <2>2 DEF ServerInv, Kept
<1>2. QED
  BY <1>1, ServerAlways, PTL

-----------------------------------------------------------------------------
(* Spans of an expansion                                                   *)

(* A location is what it is made of, for the arithmetic.                   *)
LEMMA LocationParts ==
  ASSUME NEW l \in Location
  PROVE  /\ l.item \in Span /\ l.attr \in Span /\ l.bare \in Span
         /\ l.item.start \in Nat /\ l.item.end \in 0 .. MaxOffset
         /\ l.attr.start \in Nat /\ l.attr.end \in Nat
         /\ l.bare.start \in Nat /\ l.bare.end \in Nat
         /\ l.item.start <= l.attr.start /\ l.attr.start <= l.bare.start
         /\ l.bare.start < l.bare.end /\ l.bare.end <= l.attr.end
         /\ l.attr.end <= l.item.end
BY OffsetsAssumption DEF Location, Span

(* The input of the macro: a token is before the call site, and moving it  *)
(* back undoes the move.                                                   *)
LEMMA AdaptedReturns ==
  ASSUME NEW l \in Location, NEW s \in Left(l)
  PROVE  LET t == Adapted(l, s)
         IN  /\ 0 <= t.start /\ t.end <= CallSite(l).start
             /\ OfInput(l, t) /\ MovedBack(l, t) = s
<1>1. /\ s.start \in Nat /\ s.end \in Nat /\ s = [start |-> s.start, end |-> s.end]
      /\ l.item.start <= s.start /\ s.start < s.end /\ s.end <= l.item.end
      /\ s.end <= l.attr.start \/ l.attr.end <= s.start
  BY OffsetsAssumption DEF Left, Span
<1>2. CASE s.end <= l.attr.start
  <2>1. Adapted(l, s) = [start |-> s.start - l.item.start,
                         end   |-> s.end - l.item.start]
    BY <1>1, <1>2, LocationParts DEF Adapted, Moved
  <2>2. QED
    BY <1>1, <1>2, <2>1, LocationParts
       DEF CallSite, OfInput, MovedBack, Moved, Width
<1>3. CASE l.attr.end <= s.start
  <2> DEFINE n == l.attr.end - l.attr.start + l.item.start
  <2>1. Adapted(l, s) = [start |-> s.start - n, end |-> s.end - n]
    BY <1>1, <1>3, LocationParts DEF Adapted, Moved, Width
  <2>2. QED
    BY <1>1, <1>3, <2>1, LocationParts
       DEF CallSite, OfInput, MovedBack, Moved, Width
<1>4. QED
  BY <1>1, <1>2, <1>3

(* The call site is behind the input, and goes back to the attribute: also *)
(* in unsigned words, where the distance may go around.                    *)
LEMMA CallSiteReturns ==
  ASSUME NEW l \in Location
  PROVE  LET site     == CallSite(l)
             distance == (Width(l.bare) + l.bare.start) - Width(l.item)
             around(n) == Word(n + Word(distance))
         IN  /\ ~OfInput(l, site)
             /\ Moved(site, distance) = l.bare
             /\ [start |-> around(site.start), end |-> around(site.end)] = l.bare
<1> DEFINE site == CallSite(l)
           distance == (Width(l.bare) + l.bare.start) - Width(l.item)
<1>1. /\ site = [start |-> Width(l.item) - Width(l.bare), end |-> Width(l.item)]
      /\ site.start + distance = l.bare.start /\ site.end + distance = l.bare.end
      /\ distance \in Int /\ site.start \in Nat /\ site.end \in Nat
      /\ site.end <= MaxOffset
  BY OffsetsAssumption, LocationParts DEF CallSite, Width
<1>2. l.bare = [start |-> l.bare.start, end |-> l.bare.end]
  BY LocationParts DEF Span
<1>3. ~OfInput(l, site)
  BY LocationParts DEF OfInput, CallSite, Width
<1>4. /\ l.bare.start \in 0 .. MaxOffset /\ l.bare.end \in 0 .. MaxOffset
      /\ -MaxOffset <= distance /\ distance <= MaxOffset
  BY OffsetsAssumption, LocationParts DEF Width
<1>5. \A n, m \in 0 .. MaxOffset : n + distance = m => Word(n + Word(distance)) = m
  <2> HIDE DEF distance
  <2>1. MaxOffset \in Nat /\ WordSize \in Nat /\ 2 * MaxOffset < WordSize
    BY OffsetsAssumption
  <2>2. QED
    BY <1>1, <1>4, <2>1 DEF Word
<1>6. /\ Word(site.start + Word(distance)) = l.bare.start
      /\ Word(site.end + Word(distance)) = l.bare.end
  <2>1. site.start \in 0 .. MaxOffset /\ site.end \in 0 .. MaxOffset
    BY <1>1, LocationParts, OffsetsAssumption DEF Width
  <2>2. QED
    BY <1>1, <1>4, <1>5, <2>1
<1>7. Moved(site, distance) = l.bare
  BY <1>1, <1>2 DEF Moved
<1>8. QED
  BY <1>2, <1>3, <1>6, <1>7

(* What is known on the way: the input is the adapted token.               *)
SpanInv ==
    /\ loc \in Location /\ token \in Left(loc)
    /\ spanStage \in {"parsed", "adapted", "expanded", "shown", "panicked"}
    /\ spanStage # "parsed" => seen = Adapted(loc, token)
    /\ spanStage = "expanded" => emitted \in {"token", "call site"}
    /\ spanStage = "shown" =>
           shown = IF emitted = "token" THEN token ELSE loc.bare
    /\ spanStage = "panicked" =>
           emitted = "call site" /\ loc.bare.end < Width(loc.item)

(* A token that was kept is moved back as one of the input, and one at the *)
(* call site is not.                                                       *)
LEMMA EmittedReturns ==
  ASSUME SpanInv, spanStage = "expanded"
  PROVE  /\ OfInput(loc, Emitted) =>
                MovedBack(loc, Emitted) = token /\ emitted = "token"
         /\ ~OfInput(loc, Emitted) =>
                Emitted = CallSite(loc) /\ emitted = "call site"
<1>1. CASE emitted = "token"
  <2>1. Emitted = Adapted(loc, token)
    BY <1>1 DEF SpanInv, Emitted
  <2>2. QED
    BY <1>1, <2>1, AdaptedReturns DEF SpanInv
<1>2. CASE emitted = "call site"
  <2>1. Emitted = CallSite(loc)
    BY <1>2 DEF Emitted
  <2>2. QED
    BY <1>2, <2>1, CallSiteReturns DEF SpanInv
<1>3. QED
  BY <1>1, <1>2 DEF SpanInv

(* For every file, item, attribute and token, and any width of a word that *)
(* holds twice an offset: what a macro says is shown where it belongs.     *)
THEOREM SpansReturnTheorem == SpanSpec => []SpansReturn
<1>1. SpanInit => SpanInv
  BY DEF SpanInit, SpanInv
<1>2. SpanInv /\ [SpanNext]_spanVars => SpanInv'
  <2> SUFFICES ASSUME SpanInv, [SpanNext]_spanVars PROVE SpanInv'
    OBVIOUS
  <2>1. CASE Adapt
    BY <2>1 DEF SpanInv, Adapt
  <2>2. CASE Expand
    BY <2>2 DEF SpanInv, Expand
  <2>3. CASE MapBack
    <3>1. ~OfInput(loc, Emitted) => shown' = loc.bare
      BY <2>3, EmittedReturns, CallSiteReturns DEF MapBack, SpanInv
    <3>2. QED
      BY <2>3, <3>1, EmittedReturns DEF MapBack, SpanInv
  <2>4. CASE Diagnose
    <3>1. CASE OfInput(loc, Emitted)
      BY <2>4, <3>1, EmittedReturns DEF Diagnose, SpanInv
    <3>2. CASE ~OfInput(loc, Emitted)
      <4>1. Emitted = CallSite(loc) /\ emitted = "call site"
        BY <2>4, <3>2, EmittedReturns DEF Diagnose
      <4>2. CASE spanStage' = "shown"
        <5>1. shown' = loc.bare
          BY <2>4, <3>2, <4>1, <4>2, CallSiteReturns DEF Diagnose, SpanInv
        <5>2. QED
          BY <2>4, <4>1, <4>2, <5>1 DEF Diagnose, SpanInv
      <4>3. CASE spanStage' = "panicked"
        <5>1. (Width(loc.bare) + loc.bare.start) - Width(loc.item) < 0
          BY <2>4, <3>2, <4>3 DEF Diagnose
        <5>2. loc.bare.end < Width(loc.item)
          <6>1. loc \in Location
            BY DEF SpanInv
          <6> HIDE DEF SpanInv
          <6>2. QED
            BY <5>1, <6>1, LocationParts DEF Width
        <5>3. QED
          BY <2>4, <4>1, <4>3, <5>2 DEF Diagnose, SpanInv
      <4>4. QED
        BY <2>4, <4>2, <4>3 DEF Diagnose
    <3>3. QED
      BY <3>1, <3>2
  <2>5. CASE UNCHANGED spanVars
    BY <2>5 DEF SpanInv, spanVars
  <2>6. QED
    BY <2>1, <2>2, <2>3, <2>4, <2>5 DEF SpanNext
<1>3. SpanInv => SpansReturn
  BY AdaptedReturns DEF SpanInv, SpansReturn
<1>4. QED
  BY <1>1, <1>2, <1>3, PTL DEF SpanSpec

(*****************************************************************************)
(* Oracles, for any number of connections, processes, invocations and lines. *)
(* Two invariants: AnswerInv ties what a process may write as an answer to *)
(* what it was asked, PoolInv the processes that run to the pool.          *)
(*****************************************************************************)

Message ==
    [json : BOOLEAN, has : SUBSET {"id", "method", "result", "error"},
     id : Nat, of : Nat]

ChildType ==
    [state : {"unborn", "running", "exited", "waited"},
     of : Connection \cup {NoChild}, stdin : {"open", "closed"},
     asked : SUBSET (Nat \X Nat), stdout : Seq(Message), lines : Nat,
     nextId : Nat, acked : BOOLEAN]

InvocationType ==
    [of : Connection, child : Child, id : Nat]

OraclesTypeOK ==
    /\ pool \in [Connection -> Child \cup {NoChild}]
    /\ child \in [Child -> ChildType]
    /\ calls \in Nat
    /\ oracleStage \in {"program", "connecting", "sending", "receiving", "ending"}
    /\ oracleStage \in {"connecting", "sending", "receiving"} =>
           invocation \in InvocationType
    /\ returned \in Seq([ok : BOOLEAN, of : Nat])

(* A process has one answer to expect for each number, and what it wrote   *)
(* as an answer is one.                                                    *)
AsksOnce(c) ==
    /\ \A r \in c.asked : r[1] < c.nextId
    /\ \A r, s \in c.asked : r[1] = s[1] => r[2] = s[2]
    /\ \A i \in DOMAIN c.stdout :
          Kind(c.stdout[i]) = "response" =>
              <<c.stdout[i].id, c.stdout[i].of>> \in c.asked

(* Every invocation but the one under way has returned, and that one, once *)
(* it was sent, has the last number.                                       *)
InStep ==
    /\ oracleStage \in {"program", "ending"} => Len(returned) = calls
    /\ oracleStage \in {"connecting", "sending", "receiving"} =>
           Len(returned) + 1 = calls
    /\ oracleStage = "receiving" =>
           <<invocation.id, calls>> \in child[invocation.child].asked

AnswerInv ==
    /\ OraclesTypeOK /\ InStep /\ AnsweredAsAsked
    /\ \A p \in Child : AsksOnce(child[p])

(* A process of the pool is known by its connection and was acknowledged.  *)
Pooled ==
    /\ \A c \in Connection : pool[c] # NoChild =>
           /\ child[pool[c]].of = c /\ child[pool[c]].acked
           /\ child[pool[c]].state # "unborn"
    /\ \A p \in Child : child[p].state = "running" => child[p].of \in Connection

(* One that runs and listens is in the pool or being connected.            *)
HeldOpen ==
    /\ \A p \in Child :
           child[p].state = "running" /\ child[p].stdin = "open" =>
               \/ pool[child[p].of] = p
               \/ oracleStage = "connecting" /\ invocation.child = p
    /\ oracleStage = "connecting" =>
           /\ pool[invocation.of] = NoChild
           /\ child[invocation.child].of = invocation.of
           /\ child[invocation.child].state # "unborn"
    /\ oracleStage \in {"sending", "receiving"} =>
           pool[invocation.of] = invocation.child

PoolInv == OraclesTypeOK /\ Pooled /\ HeldOpen

LEMMA NoMessageIsMessage == NoMessage \in Message
<1>1. {} \in SUBSET {"id", "method", "result", "error"}
  OBVIOUS
<1>2. QED
  BY <1>1 DEF NoMessage, Message

LEMMA LinesAreMessages ==
  ASSUME OraclesTypeOK, NEW p \in Child, NEW line \in Lines(p)
  PROVE  line \in Message
<1>1. child[p].asked \subseteq Nat \X Nat
  BY DEF OraclesTypeOK, ChildType
<1>2. CASE line = NoMessage
  BY <1>2, NoMessageIsMessage
<1>3. CASE line \in [json : {TRUE}, has : {{"id", "method"}, {"method"}, {}}, id : {0}, of : {0}]
  <2>1. line = [json |-> line.json, has |-> line.has, id |-> line.id, of |-> line.of]
        /\ line.json = TRUE /\ line.id = 0 /\ line.of = 0
    BY <1>3
  <2>4. line.json \in BOOLEAN
    BY <2>1
  <2>5. line.id \in Nat /\ line.of \in Nat
    BY <2>1
  <2>2. line.has \in SUBSET {"id", "method", "result", "error"}
    BY <1>3
  <2>3. QED
    BY <2>1, <2>2, <2>4 DEF Message
<1>4. CASE line \in [json : {TRUE}, id : {r[1] : r \in child[p].asked},
          of : {r[2] : r \in child[p].asked},
          has : {{"id", "result"}, {"id", "error"}, {"id", "result", "error"}, {"id"}}]
  <2>1. {r[1] : r \in child[p].asked} \subseteq Nat /\ {r[2] : r \in child[p].asked} \subseteq Nat
    BY <1>1
  <2>2. line.id \in Nat /\ line.of \in Nat
    BY <1>4, <2>1
  <2>3. line.has \in SUBSET {"id", "method", "result", "error"} /\ line.json \in BOOLEAN
    BY <1>4
  <2>4. line = [json |-> line.json, id |-> line.id, of |-> line.of, has |-> line.has]
    BY <1>4
  <2>5. QED
    BY <2>2, <2>3, <2>4 DEF Message
<1>5. QED
  BY <1>2, <1>3, <1>4 DEF Lines

(* The line that is looked at is a message, also when there is none.       *)
LEMMA HeadIsMessage ==
  ASSUME OraclesTypeOK, NEW p \in Child
  PROVE  /\ child[p] \in ChildType /\ child[p].stdout \in Seq(Message)
         /\ child[p].stdout # <<>> =>
               /\ Head(child[p].stdout) \in Message
               /\ Tail(child[p].stdout) \in Seq(Message)
<1>1. child[p].stdout \in Seq(Message) /\ child[p] \in ChildType
  BY DEF OraclesTypeOK, ChildType
<1>2. QED
  BY <1>1

(* The changes of a process's record keep its type.                        *)
LEMMA ChangedType ==
  ASSUME NEW c \in ChildType
  PROVE  /\ \A s \in Seq(Message) : [c EXCEPT !.stdout = s] \in ChildType
         /\ \A s \in Seq(Message), a \in BOOLEAN :
               [c EXCEPT !.stdout = s, !.acked = a] \in ChildType
         /\ \A line \in Message :
               [c EXCEPT !.stdout = Append(@, line), !.lines = @ + 1] \in ChildType
         /\ \A q \in SUBSET (Nat \X Nat) :
               [c EXCEPT !.nextId = @ + 1, !.asked = q] \in ChildType
         /\ \A k \in Connection : [c EXCEPT !.state = "running", !.of = k] \in ChildType
         /\ [c EXCEPT !.stdin = "closed"] \in ChildType
         /\ [c EXCEPT !.state = "exited", !.stdin = "closed"] \in ChildType
<1>1. c.stdout \in Seq(Message) /\ c.lines \in Nat /\ c.nextId \in Nat
  BY DEF ChildType
<1>3. ASSUME NEW line \in Message
      PROVE  [c EXCEPT !.stdout = Append(@, line), !.lines = @ + 1] \in ChildType
  <2>1. [c EXCEPT !.stdout = Append(@, line), !.lines = @ + 1]
        = [c EXCEPT !.stdout = Append(c.stdout, line), !.lines = c.lines + 1]
    BY DEF ChildType
  <2>2. Append(c.stdout, line) \in Seq(Message) /\ c.lines + 1 \in Nat
    BY <1>1
  <2>3. QED
    BY <2>1, <2>2 DEF ChildType
<1>4. ASSUME NEW q \in SUBSET (Nat \X Nat)
      PROVE  [c EXCEPT !.nextId = @ + 1, !.asked = q] \in ChildType
  <2>1. [c EXCEPT !.nextId = @ + 1, !.asked = q] = [c EXCEPT !.nextId = c.nextId + 1, !.asked = q]
    BY DEF ChildType
  <2>2. c.nextId + 1 \in Nat
    BY <1>1
  <2>3. QED
    BY <2>1, <2>2 DEF ChildType
<1>5. /\ \A s \in Seq(Message) : [c EXCEPT !.stdout = s] \in ChildType
      /\ \A s \in Seq(Message), a \in BOOLEAN :
            [c EXCEPT !.stdout = s, !.acked = a] \in ChildType
  BY DEF ChildType
<1>6. \A k \in Connection : [c EXCEPT !.state = "running", !.of = k] \in ChildType
  BY DEF ChildType
<1>7. /\ [c EXCEPT !.stdin = "closed"] \in ChildType
      /\ [c EXCEPT !.state = "exited", !.stdin = "closed"] \in ChildType
  BY DEF ChildType
<1>8. QED
  BY <1>3, <1>4, <1>5, <1>6, <1>7

LEMMA DroppedType ==
  ASSUME NEW c \in ChildType
  PROVE  /\ Dropped(c) \in ChildType /\ Terminated(c) \in ChildType
         /\ Dropped(c).stdin = "closed" /\ Terminated(c).stdin = "closed"
         /\ \A d \in {Dropped(c), Terminated(c)} :
               /\ d.of = c.of /\ d.asked = c.asked /\ d.stdout = c.stdout
               /\ d.nextId = c.nextId /\ d.acked = c.acked
               /\ d.state \in {c.state, "waited"}
BY DEF ChildType, Dropped, Terminated

LEMMA ReturnType ==
  ASSUME OraclesTypeOK, NEW n \in Nat, NEW b \in BOOLEAN, Return([ok |-> b, of |-> n])
  PROVE  /\ returned' \in Seq([ok : BOOLEAN, of : Nat])
         /\ Len(returned') = Len(returned) + 1
         /\ returned'[Len(returned) + 1] = [ok |-> b, of |-> n]
         /\ \A i \in DOMAIN returned : returned'[i] = returned[i]
         /\ DOMAIN returned' = DOMAIN returned \cup {Len(returned) + 1}
         /\ oracleStage' = "program"
<1>1. [ok |-> b, of |-> n] \in [ok : BOOLEAN, of : Nat]
  OBVIOUS
<1>2. returned \in Seq([ok : BOOLEAN, of : Nat]) /\ returned' = Append(returned, [ok |-> b, of |-> n])
  BY DEF Return, OraclesTypeOK
<1>3. QED
  BY <1>1, <1>2 DEF Return

LEMMA FailedReturns ==
  ASSUME OraclesTypeOK, Return(Failed)
  PROVE  /\ returned' \in Seq([ok : BOOLEAN, of : Nat])
         /\ Len(returned') = Len(returned) + 1
         /\ ~returned'[Len(returned) + 1].ok
         /\ \A i \in DOMAIN returned : returned'[i] = returned[i]
         /\ DOMAIN returned' = DOMAIN returned \cup {Len(returned) + 1}
         /\ oracleStage' = "program"
<1>1. Failed = [ok |-> FALSE, of |-> 0] /\ 0 \in Nat /\ FALSE \in BOOLEAN
  BY DEF Failed
<1>2. Return([ok |-> FALSE, of |-> 0])
  BY <1>1
<1>3. Failed \in [ok : BOOLEAN, of : Nat] /\ ~Failed.ok
  BY <1>1
<1>4. returned \in Seq([ok : BOOLEAN, of : Nat]) /\ returned' = Append(returned, Failed)
  BY DEF Return, OraclesTypeOK
<1>5. QED
  BY <1>3, <1>4 DEF Return

LEMMA OraclesTypeStep ==
  ASSUME OraclesTypeOK, [OraclesNext]_oracleVars PROVE OraclesTypeOK'
<1> USE OraclesAssumption DEF OraclesAssumption
<1>1. CASE Initialize
  <2> DEFINE c == invocation.of
             p == invocation.child
             line == IF child[p].stdout = <<>> THEN NoMessage ELSE Head(child[p].stdout)
             ready == Kind(line) = "request" /\ CanSend(p)
             read == [child[p] EXCEPT !.stdout = IF @ = <<>> THEN @ ELSE Tail(@),
                                      !.acked = ready]
  <2>1. c \in Connection /\ p \in Child /\ ready \in BOOLEAN
    BY <1>1 DEF Initialize, OraclesTypeOK, InvocationType
  <2>2. read \in ChildType
    BY <2>1, HeadIsMessage, ChangedType
  <2>3. pool' \in [Connection -> Child \cup {NoChild}]
    BY <1>1, <2>1 DEF Initialize, OraclesTypeOK, KeptAs
  <2>4. child' \in [Child -> ChildType]
    BY <1>1, <2>1, <2>2, DroppedType DEF Initialize, OraclesTypeOK
  <2>5. returned' \in Seq([ok : BOOLEAN, of : Nat])
    BY <1>1, FailedReturns DEF Initialize, OraclesTypeOK
  <2>6. QED
    BY <1>1, <2>3, <2>4, <2>5 DEF Initialize, OraclesTypeOK, Return
<1>2. CASE Refuse
  <2>1. invocation.child \in Child
    BY <1>2 DEF Refuse, OraclesTypeOK, InvocationType
  <2>2. child' \in [Child -> ChildType]
    BY <1>2, <2>1, DroppedType DEF Refuse, OraclesTypeOK
  <2>3. QED
    BY <1>2, <2>2, FailedReturns DEF Refuse, OraclesTypeOK
<1>3. CASE SendRequest
  <2>1. invocation \in InvocationType
    BY <1>3 DEF SendRequest, OraclesTypeOK
  <2> DEFINE p == invocation.child
             q == IF CanSend(p) THEN child[p].asked \cup {<<child[p].nextId, calls>>} ELSE child[p].asked
  <2>5. p \in Child /\ child[p] \in ChildType /\ child[p].nextId \in Nat
        /\ q \in SUBSET (Nat \X Nat)
    BY <2>1 DEF OraclesTypeOK, InvocationType, ChildType
  <2>6. [child[p] EXCEPT !.nextId = @ + 1, !.asked = q] \in ChildType
    BY <2>5, ChangedType
  <2>7. child' = [child EXCEPT ![p] = [child[p] EXCEPT !.nextId = @ + 1, !.asked = q]]
    BY <1>3, <2>5 DEF SendRequest, OraclesTypeOK, ChildType
  <2>2. child' \in [Child -> ChildType]
    BY <2>6, <2>7 DEF OraclesTypeOK
  <2>3. oracleStage' = "receiving" => invocation' \in InvocationType
    BY <1>3, <2>1
       DEF SendRequest, OraclesTypeOK, InvocationType, ChildType, Return
  <2>4. QED
    BY <1>3, <2>2, <2>3, FailedReturns DEF SendRequest, OraclesTypeOK
<1>4. CASE ReceiveResponse
  <2> DEFINE p == invocation.child
             line == IF child[p].stdout = <<>> THEN NoMessage ELSE Head(child[p].stdout)
  <2>1. p \in Child
    BY <1>4 DEF ReceiveResponse, OraclesTypeOK, InvocationType
  <2>2. line \in Message
    BY <2>1, HeadIsMessage, NoMessageIsMessage
  <2>3. child' \in [Child -> ChildType]
    <3>1. child' = [child EXCEPT ![p] = [child[p] EXCEPT !.stdout =
                        IF child[p].stdout = <<>> THEN child[p].stdout ELSE Tail(child[p].stdout)]]
      BY <1>4, <2>1 DEF ReceiveResponse, OraclesTypeOK, ChildType
    <3>2. QED
      BY <2>1, <3>1, HeadIsMessage, ChangedType DEF OraclesTypeOK
  <2>4. Return([ok |-> TRUE, of |-> line.of]) \/ Return(Failed)
    BY <1>4 DEF ReceiveResponse
  <2>5. returned' \in Seq([ok : BOOLEAN, of : Nat]) /\ oracleStage' = "program"
    BY <2>2, <2>4, ReturnType, FailedReturns DEF Message
  <2>6. QED
    BY <1>4, <2>3, <2>5 DEF ReceiveResponse, OraclesTypeOK
<1>5. CASE EndProgram
  BY <1>5 DEF EndProgram, OraclesTypeOK
<1>6. ASSUME NEW c \in Connection, Invoke(c) PROVE OraclesTypeOK'
  <2>1. child' \in [Child -> ChildType]
    <3>1. ASSUME NEW p \in Child, child' = [child EXCEPT ![p].state = "running", ![p].of = c]
          PROVE  child' \in [Child -> ChildType]
      <4>1. child' = [child EXCEPT ![p] = [child[p] EXCEPT !.state = "running", !.of = c]]
        BY <3>1 DEF OraclesTypeOK, ChildType
      <4>2. QED
        BY <4>1, ChangedType, HeadIsMessage DEF OraclesTypeOK
    <3>2. QED
      BY <1>6, <3>1 DEF Invoke, OraclesTypeOK
  <2>2. returned' \in Seq([ok : BOOLEAN, of : Nat])
    BY <1>6, FailedReturns DEF Invoke, OraclesTypeOK
  <2>3. QED
    <3>1. CASE Return(Failed)
      BY <1>6, <2>1, <2>2, <3>1, FailedReturns DEF Invoke, OraclesTypeOK
    <3>2. CASE oracleStage' \in {"sending", "connecting"}
      <4>1. \E p \in Child : invocation' = [of |-> c, child |-> p, id |-> 0]
        BY <1>6, <3>2 DEF Invoke, OraclesTypeOK, Return
      <4>2. invocation' \in InvocationType
        BY <4>1 DEF InvocationType
      <4>3. QED
        BY <1>6, <2>1, <2>2, <3>2, <4>2 DEF Invoke, OraclesTypeOK
    <3>3. QED
      BY <1>6, <3>1, <3>2 DEF Invoke
<1>7. ASSUME NEW c \in Connection, DropConnection(c) PROVE OraclesTypeOK'
  <2>1. child' \in [Child -> ChildType]
    BY <1>7, DroppedType DEF DropConnection, OraclesTypeOK
  <2>2. QED
    BY <1>7, <2>1 DEF DropConnection, OraclesTypeOK
<1>8. ASSUME NEW p \in Child, WriteLine(p) PROVE OraclesTypeOK'
  <2>1. child' \in [Child -> ChildType]
    <3>1. PICK line \in Lines(p) : child' = [child EXCEPT ![p].stdout = Append(@, line), ![p].lines = @ + 1]
      BY <1>8 DEF WriteLine
    <3>2. child' = [child EXCEPT ![p] = [child[p] EXCEPT !.stdout = Append(@, line), !.lines = @ + 1]]
      BY <3>1 DEF OraclesTypeOK, ChildType
    <3>3. QED
      BY <3>2, LinesAreMessages, HeadIsMessage, ChangedType DEF OraclesTypeOK
  <2>2. QED
    BY <1>8, <2>1 DEF WriteLine, OraclesTypeOK
<1>9. ASSUME NEW p \in Child, StopListening(p) \/ Exit(p) PROVE OraclesTypeOK'
  <2>1. child' \in [Child -> ChildType]
    <3>1. child' \in {[child EXCEPT ![p] = [child[p] EXCEPT !.stdin = "closed"]],
                      [child EXCEPT ![p] = [child[p] EXCEPT !.state = "exited", !.stdin = "closed"]]}
      BY <1>9 DEF StopListening, Exit, OraclesTypeOK, ChildType
    <3>2. child[p] \in ChildType /\ child \in [Child -> ChildType]
      BY HeadIsMessage DEF OraclesTypeOK
    <3>3. /\ [child[p] EXCEPT !.stdin = "closed"] \in ChildType
          /\ [child[p] EXCEPT !.state = "exited", !.stdin = "closed"] \in ChildType
      BY <3>2, ChangedType
    <3>4. QED
      BY <3>1, <3>2, <3>3
  <2>2. QED
    BY <1>9, <2>1 DEF StopListening, Exit, OraclesTypeOK
<1>10. CASE UNCHANGED oracleVars
  BY <1>10 DEF oracleVars, OraclesTypeOK
<1>11. QED
  BY <1>1, <1>2, <1>3, <1>4, <1>5, <1>6, <1>7, <1>8, <1>9, <1>10
     DEF OraclesNext, Processor

(* What a process's record says of requests and answers stays true when    *)
(* neither changes, when a line is read, and when an honest one is written.*)
LEMMA AsksOnceKept ==
  ASSUME NEW c \in ChildType, NEW d \in ChildType, AsksOnce(c),
         d.asked = c.asked, d.nextId = c.nextId,
         \/ d.stdout = c.stdout
         \/ c.stdout # <<>> /\ d.stdout = Tail(c.stdout)
         \/ \E line \in Message :
               /\ d.stdout = Append(c.stdout, line)
               /\ Kind(line) = "response" => <<line.id, line.of>> \in c.asked
  PROVE  AsksOnce(d)
<1>1. c.stdout \in Seq(Message)
  BY DEF ChildType
<1>2. CASE d.stdout = c.stdout
  BY <1>2 DEF AsksOnce
<1>3. CASE c.stdout # <<>> /\ d.stdout = Tail(c.stdout)
  <2>1. \A i \in DOMAIN d.stdout : i + 1 \in DOMAIN c.stdout /\ d.stdout[i] = c.stdout[i + 1]
    BY <1>1, <1>3
  <2>2. QED
    BY <2>1 DEF AsksOnce
<1>4. ASSUME NEW line \in Message, d.stdout = Append(c.stdout, line),
             Kind(line) = "response" => <<line.id, line.of>> \in c.asked
      PROVE  AsksOnce(d)
  <2>1. \A i \in DOMAIN d.stdout :
           (i \in DOMAIN c.stdout /\ d.stdout[i] = c.stdout[i]) \/ d.stdout[i] = line
    BY <1>1, <1>4
  <2>2. \A i \in DOMAIN d.stdout : Kind(d.stdout[i]) = "response" =>
            <<d.stdout[i].id, d.stdout[i].of>> \in c.asked
    BY <1>4, <2>1 DEF AsksOnce
  <2>3. QED
    BY <2>2 DEF AsksOnce
<1>5. QED
  BY <1>2, <1>3, <1>4

(* A request with the next number keeps it, too.                           *)
LEMMA AsksOnceAsking ==
  ASSUME NEW c \in ChildType, NEW d \in ChildType, AsksOnce(c), NEW n \in Nat,
         d.stdout = c.stdout, d.nextId = c.nextId + 1,
         d.asked \in {c.asked, c.asked \cup {<<c.nextId, n>>}}
  PROVE  AsksOnce(d)
<1>1. c.nextId \in Nat /\ c.asked \in SUBSET (Nat \X Nat)
  BY DEF ChildType
<1>2. \A r \in c.asked : r[1] \in Nat /\ r[1] < c.nextId
  BY <1>1 DEF AsksOnce
<1>3. \A r \in d.asked : r[1] < d.nextId
  BY <1>1, <1>2
<1>4. \A r, q \in d.asked : r[1] = q[1] => r[2] = q[2]
  BY <1>1, <1>2 DEF AsksOnce
<1>5. \A i \in DOMAIN d.stdout : Kind(d.stdout[i]) = "response" =>
          <<d.stdout[i].id, d.stdout[i].of>> \in d.asked
  BY DEF AsksOnce
<1>6. QED
  BY <1>3, <1>4, <1>5 DEF AsksOnce

(* What initialize does to the process it has started.                     *)
LEMMA InitializeChild ==
  ASSUME OraclesTypeOK, Initialize
  PROVE  LET c == invocation.of
             p == invocation.child
         IN  /\ c \in Connection /\ p \in Child /\ oracleStage = "connecting"
             /\ \A q \in Child : q # p => child'[q] = child[q]
             /\ child'[p].asked = child[p].asked /\ child'[p].nextId = child[p].nextId
             /\ child'[p].of = child[p].of
             /\ \/ child'[p].stdout = child[p].stdout
                \/ child[p].stdout # <<>> /\ child'[p].stdout = Tail(child[p].stdout)
             /\ \/ /\ pool' = [pool EXCEPT ![c] = p] /\ oracleStage' = "sending"
                   /\ UNCHANGED invocation /\ child'[p].acked
                   /\ child'[p].state = child[p].state /\ child'[p].stdin = child[p].stdin
                \/ /\ pool' = [pool EXCEPT ![c] = NoChild] /\ oracleStage' = "program"
                   /\ child'[p].stdin = "closed"
                   /\ child'[p].state \in {child[p].state, "waited"}
<1> DEFINE c == invocation.of
           p == invocation.child
           line == IF child[p].stdout = <<>> THEN NoMessage ELSE Head(child[p].stdout)
           ready == Kind(line) = "request" /\ CanSend(p)
           rest == IF child[p].stdout = <<>> THEN child[p].stdout ELSE Tail(child[p].stdout)
           read == [child[p] EXCEPT !.stdout = rest, !.acked = ready]
<1>1. c \in Connection /\ p \in Child /\ oracleStage = "connecting" /\ child \in [Child -> ChildType]
      /\ ready \in BOOLEAN
  BY DEF Initialize, OraclesTypeOK, InvocationType
<1>2. child[p] \in ChildType /\ rest \in Seq(Message)
  BY <1>1, HeadIsMessage
<1>3. /\ read \in ChildType /\ read.asked = child[p].asked /\ read.nextId = child[p].nextId
      /\ read.of = child[p].of /\ read.stdout = rest /\ read.acked = ready
      /\ read.state = child[p].state /\ read.stdin = child[p].stdin
  <2>1. read \in ChildType
    BY <1>1, <1>2, ChangedType
  <2>2. QED
    BY <1>2, <2>1 DEF ChildType
<1> HIDE DEF read
<1>4. \/ /\ ready /\ child' = [child EXCEPT ![p] = read] /\ oracleStage' = "sending"
         /\ UNCHANGED invocation
      \/ /\ ~ready /\ child' \in {[child EXCEPT ![p] = Dropped(read)], [child EXCEPT ![p] = Terminated(read)]}
         /\ Return(Failed)
  BY DEF Initialize, read
<1>5. pool' = [pool EXCEPT ![c] = KeptAs(p, ready)]
  BY DEF Initialize
<1>6. CASE ready /\ child' = [child EXCEPT ![p] = read] /\ oracleStage' = "sending"
           /\ UNCHANGED invocation
  BY <1>1, <1>3, <1>5, <1>6 DEF KeptAs
<1>7. CASE ~ready /\ child' \in {[child EXCEPT ![p] = Dropped(read)], [child EXCEPT ![p] = Terminated(read)]}
           /\ Return(Failed)
  <2>1. child'[p] \in {Dropped(read), Terminated(read)} /\ \A q \in Child : q # p => child'[q] = child[q]
    BY <1>1, <1>7
  <2>2. /\ child'[p].asked = read.asked /\ child'[p].nextId = read.nextId
        /\ child'[p].of = read.of /\ child'[p].stdout = read.stdout
        /\ child'[p].stdin = "closed" /\ child'[p].state \in {read.state, "waited"}
    BY <1>3, <2>1, DroppedType
  <2>3. oracleStage' = "program" /\ pool' = [pool EXCEPT ![c] = NoChild]
    BY <1>5, <1>7 DEF KeptAs, Return
  <2>4. QED
    BY <1>1, <1>3, <2>1, <2>2, <2>3
<1>8. QED
  BY <1>4, <1>6, <1>7

(* What the processes themselves do.                                       *)
LEMMA ProcessChild ==
  ASSUME OraclesTypeOK, NEW p \in Child, WriteLine(p) \/ StopListening(p) \/ Exit(p),
         NEW q \in Child
  PROVE  /\ child'[q].of = child[q].of /\ child'[q].acked = child[q].acked
         /\ child'[q].asked = child[q].asked /\ child'[q].nextId = child[q].nextId
         /\ child'[q].state = "unborn" => child[q].state = "unborn"
         /\ child'[q].state = "running" => child[q].state = "running"
         /\ child'[q].stdin = "open" => child[q].stdin = "open"
         /\ ~WriteLine(p) => child'[q].stdout = child[q].stdout
<1>1. child \in [Child -> ChildType]
  BY DEF OraclesTypeOK
<1>2. CASE WriteLine(p)
  <2>1. PICK line \in Lines(p) : child' = [child EXCEPT ![p].stdout = Append(@, line), ![p].lines = @ + 1]
    BY <1>2 DEF WriteLine
  <2>2. QED
    BY <1>1, <1>2, <2>1 DEF ChildType
<1>3. CASE StopListening(p)
  BY <1>1, <1>3 DEF StopListening, ChildType
<1>4. CASE Exit(p)
  BY <1>1, <1>4 DEF Exit, ChildType
<1>5. QED
  BY <1>2, <1>3, <1>4

(* A new process.                                                          *)
LEMMA InvokeChild ==
  ASSUME OraclesTypeOK, NEW c \in Connection, Invoke(c)
  PROVE  /\ pool' = pool /\ oracleStage = "program"
         /\ \/ /\ child' = child
               /\ \/ oracleStage' = "program"
                  \/ /\ oracleStage' = "sending" /\ pool[c] # NoChild
                     /\ invocation'.of = c /\ invocation'.child = pool[c]
            \/ \E p \in Child :
                  /\ oracleStage' = "connecting" /\ pool[c] = NoChild
                  /\ child[p].state = "unborn"
                  /\ invocation'.of = c /\ invocation'.child = p
                  /\ \A q \in Child : q # p => child'[q] = child[q]
                  /\ child'[p].of = c
                  /\ child'[p].asked = child[p].asked /\ child'[p].nextId = child[p].nextId
                  /\ child'[p].stdout = child[p].stdout /\ child'[p].acked = child[p].acked
                  /\ child'[p].state = "running"
<1>1. child \in [Child -> ChildType]
  BY DEF OraclesTypeOK
<1>2. ASSUME NEW p \in Child, pool[c] = NoChild, child[p].state = "unborn",
             child' = [child EXCEPT ![p].state = "running", ![p].of = c],
             invocation' = [of |-> c, child |-> p, id |-> 0], oracleStage' = "connecting"
      PROVE  /\ \A q \in Child : q # p => child'[q] = child[q]
             /\ child'[p].of = c
             /\ child'[p].asked = child[p].asked /\ child'[p].nextId = child[p].nextId
             /\ child'[p].stdout = child[p].stdout /\ child'[p].acked = child[p].acked
             /\ child'[p].state = "running"
             /\ invocation'.of = c /\ invocation'.child = p
  <2>1. invocation'.of = c /\ invocation'.child = p
    BY <1>2
  <2>2. child' = [child EXCEPT ![p] = [child[p] EXCEPT !.state = "running", !.of = c]]
    BY <1>1, <1>2 DEF ChildType
  <2>3. child[p] \in ChildType
    BY <1>1
  <2>4. QED
    BY <1>1, <2>1, <2>2, <2>3 DEF ChildType
<1>3. CASE pool[c] # NoChild /\ invocation' = [of |-> c, child |-> pool[c], id |-> 0]
           /\ oracleStage' = "sending" /\ UNCHANGED child
  BY <1>3 DEF Invoke
<1>4. CASE Return(Failed) /\ UNCHANGED child
  BY <1>4 DEF Invoke, Return
<1>5. QED
  BY <1>2, <1>3, <1>4 DEF Invoke

(* What a step does to the records of the processes, as far as requests    *)
(* and answers go.                                                         *)
LEMMA AsksOnceStep ==
  ASSUME OraclesTypeOK, OraclesTypeOK', [OraclesNext]_oracleVars,
         \A p \in Child : AsksOnce(child[p])
  PROVE  \A p \in Child : AsksOnce(child'[p])
<1> SUFFICES ASSUME NEW r \in Child PROVE AsksOnce(child'[r])
  OBVIOUS
<1>0. child[r] \in ChildType /\ child'[r] \in ChildType /\ AsksOnce(child[r])
  BY DEF OraclesTypeOK
<1>1. CASE Initialize
  <2>1. invocation.child \in Child
    BY <1>1 DEF Initialize, OraclesTypeOK, InvocationType
  <2>2. /\ child'[r].asked = child[r].asked /\ child'[r].nextId = child[r].nextId
        /\ \/ child'[r].stdout = child[r].stdout
           \/ child[r].stdout # <<>> /\ child'[r].stdout = Tail(child[r].stdout)
    BY <1>1, <2>1, <1>0, InitializeChild DEF OraclesTypeOK
  <2>3. QED
    BY <1>0, <2>2, AsksOnceKept
<1>2. CASE Refuse \/ \E c \in Connection : DropConnection(c)
  <2>1. /\ child'[r].asked = child[r].asked /\ child'[r].nextId = child[r].nextId
        /\ child'[r].stdout = child[r].stdout
    <3>1. child' \in {child, [child EXCEPT ![r] = Dropped(child[r])]}
          \/ child'[r] = child[r]
      <4>1. CASE Refuse
        BY <4>1 DEF Refuse, OraclesTypeOK
      <4>2. CASE \E c \in Connection : DropConnection(c)
        BY <4>2 DEF DropConnection, OraclesTypeOK
      <4>3. QED
        BY <1>2, <4>1, <4>2
    <3>2. QED
      BY <1>0, <3>1, DroppedType DEF OraclesTypeOK
  <2>2. QED
    BY <1>0, <2>1, AsksOnceKept
<1>3. CASE SendRequest
  <2>1. invocation.child \in Child /\ calls \in Nat
    BY <1>3 DEF SendRequest, OraclesTypeOK, InvocationType
  <2>2. CASE r = invocation.child
    <3>1. /\ child'[r].nextId = child[r].nextId + 1 /\ child'[r].stdout = child[r].stdout
          /\ child'[r].asked \in {child[r].asked, child[r].asked \cup {<<child[r].nextId, calls>>}}
      BY <1>3, <1>0, <2>2 DEF SendRequest, OraclesTypeOK, ChildType
    <3>2. QED
      BY SMTT(60), <1>0, <2>1, <3>1, AsksOnceAsking
  <2>3. CASE r # invocation.child
    BY <1>0, <1>3, <2>3 DEF SendRequest, OraclesTypeOK
  <2>4. QED
    BY <2>2, <2>3
<1>4. CASE ReceiveResponse
  <2>1. /\ child'[r].asked = child[r].asked /\ child'[r].nextId = child[r].nextId
        /\ \/ child'[r].stdout = child[r].stdout
           \/ child[r].stdout # <<>> /\ child'[r].stdout = Tail(child[r].stdout)
    BY <1>4, <1>0 DEF ReceiveResponse, OraclesTypeOK, ChildType
  <2>2. QED
    BY <1>0, <2>1, AsksOnceKept
<1>5. ASSUME NEW p \in Child, WriteLine(p) PROVE AsksOnce(child'[r])
  <2>1. PICK line \in Lines(p) :
            /\ Honest(p, line)
            /\ child' = [child EXCEPT ![p].stdout = Append(@, line), ![p].lines = @ + 1]
    BY <1>5 DEF WriteLine
  <2>2. CASE r = p
    <3>1. /\ child'[r].asked = child[r].asked /\ child'[r].nextId = child[r].nextId
          /\ child'[r].stdout = Append(child[r].stdout, line)
      BY <1>0, <2>1, <2>2 DEF OraclesTypeOK, ChildType
    <3>2. Kind(line) = "response" => <<line.id, line.of>> \in child[r].asked
      <4>1. line.json \in BOOLEAN
        BY LinesAreMessages DEF Message
      <4>2. Kind(line) = "response" => line.json # FALSE /\ "method" \notin line.has
        BY DEF Kind
      <4>3. QED
        BY <2>1, <2>2, <4>1, <4>2 DEF Honest
    <3>3. QED
      BY <1>0, <3>1, <3>2, AsksOnceKept, LinesAreMessages
  <2>3. CASE r # p
    BY <1>0, <2>1, <2>3 DEF OraclesTypeOK
  <2>4. QED
    BY <2>2, <2>3
<1>6. ASSUME NEW p \in Child, StopListening(p) \/ Exit(p), ~WriteLine(p)
      PROVE  AsksOnce(child'[r])
  <2>1. /\ child'[r].asked = child[r].asked /\ child'[r].nextId = child[r].nextId
        /\ child'[r].stdout = child[r].stdout
    BY <1>6, ProcessChild
  <2>2. QED
    BY <1>0, <2>1, AsksOnceKept
<1>7. ASSUME NEW c \in Connection, Invoke(c) PROVE AsksOnce(child'[r])
  <2>1. /\ child'[r].asked = child[r].asked /\ child'[r].nextId = child[r].nextId
        /\ child'[r].stdout = child[r].stdout
    BY <1>7, <1>0, InvokeChild
  <2>2. QED
    BY <1>0, <2>1, AsksOnceKept
<1>8. CASE EndProgram \/ UNCHANGED oracleVars
  BY <1>8, <1>0 DEF EndProgram, oracleVars
<1>9. QED
  BY <1>1, <1>2, <1>3, <1>4, <1>5, <1>6, <1>7, <1>8 DEF OraclesNext, Processor

LEMMA AnswerStep ==
  ASSUME AnswerInv, [OraclesNext]_oracleVars PROVE AnswerInv'
<1>1. OraclesTypeOK /\ OraclesTypeOK' /\ \A p \in Child : AsksOnce(child[p]) /\ AsksOnce(child'[p])
  BY OraclesTypeStep, AsksOnceStep DEF AnswerInv
<1> USE DEF AnswerInv
<1>2. Len(returned) \in Nat /\ DOMAIN returned = 1..Len(returned) /\ calls \in Nat
  BY <1>1 DEF OraclesTypeOK
<1>3. ASSUME Return(Failed) PROVE AnsweredAsAsked'
  BY <1>1, <1>3, FailedReturns DEF AnsweredAsAsked
<1>4. CASE Initialize
  <2>1. CASE Return(Failed)
    BY <1>1, <1>2, <1>3, <1>4, <2>1, FailedReturns DEF Initialize, InStep
  <2>2. CASE oracleStage' = "sending" /\ UNCHANGED returned
    BY <1>1, <1>4, <2>2 DEF Initialize, InStep, AnsweredAsAsked
  <2>3. QED
    BY <1>4, <2>1, <2>2 DEF Initialize
<1>5. CASE Refuse
  BY <1>1, <1>2, <1>3, <1>5, FailedReturns DEF Refuse, InStep
<1>6. CASE SendRequest
  <2>1. CASE Return(Failed)
    BY <1>1, <1>2, <1>3, <1>6, <2>1, FailedReturns DEF SendRequest, InStep
  <2>2. CASE CanSend(invocation.child) /\ oracleStage' = "receiving" /\ UNCHANGED returned
    <3>1. invocation \in InvocationType /\ invocation.child \in Child
      BY <1>1, <1>6 DEF SendRequest, OraclesTypeOK, InvocationType
    <3>3. ~Return(Failed)
      BY <2>2 DEF Return
    <3>2. invocation'.child = invocation.child /\ invocation'.id = child[invocation.child].nextId
      BY <1>6, <3>1, <3>3 DEF SendRequest, InvocationType
    <3>4. <<invocation'.id, calls>> \in child'[invocation'.child].asked
      <4> DEFINE p == invocation.child
      <4>1. child \in [Child -> ChildType] /\ child[p].nextId \in Nat
        BY <1>1, <3>1 DEF OraclesTypeOK, ChildType
      <4>2. child' = [child EXCEPT ![p].nextId = @ + 1,
                ![p].asked = @ \cup {<<child[p].nextId, calls>>}]
        BY <1>6, <2>2 DEF SendRequest
      <4>3. child'[p].asked = child[p].asked \cup {<<child[p].nextId, calls>>}
        BY <3>1, <4>1, <4>2 DEF ChildType
      <4>4. QED
        BY <3>2, <4>3
    <3>5. oracleStage = "sending" /\ calls' = calls /\ returned' = returned
      BY <1>6, <2>2 DEF SendRequest
    <3>6. Len(returned') + 1 = calls'
      BY <1>1, <3>5 DEF InStep
    <3>7. InStep'
      BY <2>2, <3>4, <3>5, <3>6 DEF InStep
    <3>8. QED
      BY <1>1, <3>5, <3>7 DEF AnsweredAsAsked
  <2>3. QED
    BY <1>6, <2>1, <2>2 DEF SendRequest
<1>7. CASE ReceiveResponse
  <2> DEFINE p == invocation.child
             line == IF child[p].stdout = <<>> THEN NoMessage ELSE Head(child[p].stdout)
  <2>0. Len(returned) + 1 = calls /\ UNCHANGED calls /\ p \in Child
    BY <1>1, <1>7 DEF ReceiveResponse, InStep, OraclesTypeOK, InvocationType
  <2>1. CASE Return(Failed)
    BY <1>1, <1>2, <1>3, <2>0, <2>1, FailedReturns DEF InStep
  <2>2. CASE Answers(line) /\ Return([ok |-> TRUE, of |-> line.of])
    <3>1. child[p].stdout # <<>>
      BY <2>2 DEF Answers, Kind, NoMessage
    <3>2. line = child[p].stdout[1] /\ 1 \in DOMAIN child[p].stdout /\ line \in Message
      BY <2>0, <3>1, <1>1, HeadIsMessage
    <3>3. <<line.id, line.of>> \in child[p].asked
      <4>1. Kind(child[p].stdout[1]) = "response" /\ AsksOnce(child[p])
        BY <1>1, <2>0, <2>2, <3>2 DEF Answers
      <4>2. QED
        BY <3>2, <4>1 DEF AsksOnce
    <3>4. <<line.id, calls>> \in child[p].asked
      BY <1>7, <2>2 DEF ReceiveResponse, InStep, Answers
    <3>5. line.of = calls
      BY <1>1, <2>0, <3>3, <3>4 DEF AsksOnce
    <3>6. line.of \in Nat
      BY <3>2 DEF Message
    <3>7. /\ Len(returned') = Len(returned) + 1
          /\ returned'[Len(returned) + 1] = [ok |-> TRUE, of |-> line.of]
          /\ \A i \in DOMAIN returned : returned'[i] = returned[i]
          /\ DOMAIN returned' = DOMAIN returned \cup {Len(returned) + 1}
          /\ oracleStage' = "program"
      BY <1>1, <2>2, <3>6, ReturnType
    <3>8. AnsweredAsAsked'
      BY <2>0, <3>5, <3>7 DEF AnsweredAsAsked
    <3>9. QED
      BY <1>1, <2>0, <3>7, <3>8 DEF InStep
  <2>3. QED
    BY <1>7, <2>1, <2>2 DEF ReceiveResponse
<1>8. ASSUME NEW c \in Connection, Invoke(c) PROVE AnswerInv'
  <2>1. CASE Return(Failed)
    BY <1>1, <1>2, <1>3, <1>8, <2>1, FailedReturns DEF Invoke, InStep
  <2>2. CASE oracleStage' \in {"sending", "connecting"} /\ UNCHANGED returned
    BY <1>1, <1>2, <1>8, <2>2 DEF Invoke, InStep, AnsweredAsAsked
  <2>3. QED
    BY <1>8, <2>1, <2>2 DEF Invoke
<1>9. CASE EndProgram \/ \E c \in Connection : DropConnection(c)
  BY <1>1, <1>9 DEF EndProgram, DropConnection, InStep, AnsweredAsAsked
<1>10. ASSUME NEW p \in Child, WriteLine(p) \/ StopListening(p) \/ Exit(p)
       PROVE AnswerInv'
  <2>1. UNCHANGED <<calls, invocation, oracleStage, returned>>
    BY <1>10 DEF WriteLine, StopListening, Exit
  <2>2. \A q \in Child : child'[q].asked = child[q].asked
    BY <1>1, <1>10, ProcessChild
  <2>3. oracleStage = "receiving" => invocation.child \in Child
    BY <1>1 DEF OraclesTypeOK, InvocationType
  <2>4. QED
    BY <1>1, <2>1, <2>2, <2>3 DEF InStep, AnsweredAsAsked
<1>11. CASE UNCHANGED oracleVars
  BY <1>1, <1>11 DEF oracleVars, InStep, AnsweredAsAsked
<1>12. QED
  BY <1>4, <1>5, <1>6, <1>7, <1>8, <1>9, <1>10, <1>11
     DEF OraclesNext, Processor

LEMMA PoolStep ==
  ASSUME PoolInv, [OraclesNext]_oracleVars PROVE PoolInv'
<1> USE OraclesAssumption DEF OraclesAssumption, PoolInv
<1>1. OraclesTypeOK /\ OraclesTypeOK'
  BY OraclesTypeStep
<1>2. oracleStage \in {"connecting", "sending", "receiving"} =>
          invocation.of \in Connection /\ invocation.child \in Child
  BY <1>1 DEF OraclesTypeOK, InvocationType
<1>3. CASE Initialize
  <2> DEFINE c == invocation.of
             p == invocation.child
  <2>1. c \in Connection /\ p \in Child /\ oracleStage = "connecting"
    BY <1>2, <1>3 DEF Initialize
  <2>2. \A q \in Child : q # p => child'[q] = child[q]
    BY <1>1, <1>3, InitializeChild
  <2>3. CASE pool' = [pool EXCEPT ![c] = p] /\ oracleStage' = "sending"
             /\ UNCHANGED invocation
    <3>1. child'[p].of = child[p].of /\ child'[p].acked /\ child'[p].state = child[p].state
          /\ child'[p].stdin = child[p].stdin
      BY <1>1, <1>3, <2>1, <2>3, InitializeChild
    <3>6. child[p].of = c /\ child[p].state # "unborn"
      BY <2>1 DEF HeldOpen
    <3>7. ASSUME NEW k \in Connection, pool'[k] # NoChild
          PROVE  /\ child'[pool'[k]].of = k /\ child'[pool'[k]].acked
                 /\ child'[pool'[k]].state # "unborn"
      <4>1. CASE k = c
        BY <1>1, <2>1, <2>3, <3>1, <3>6, <4>1 DEF OraclesTypeOK
      <4>2. CASE k # c
        <5>1. pool'[k] = pool[k] /\ pool[k] \in Child
          BY <1>1, <2>3, <3>7, <4>2 DEF OraclesTypeOK
        <5>2. pool[k] # p
          BY <3>6, <3>7, <4>2, <5>1 DEF Pooled
        <5>3. QED
          BY <2>2, <3>7, <5>1, <5>2 DEF Pooled
      <4>3. QED
        BY <4>1, <4>2
    <3>2. Pooled'
      BY <2>1, <2>2, <3>1, <3>7 DEF Pooled
    <3>3. \A q \in Child : child'[q].of = child[q].of /\ child'[q].state = child[q].state
                           /\ child'[q].stdin = child[q].stdin
      BY <2>2, <3>1
    <3>4. HeldOpen'
      BY <1>1, <2>1, <2>3, <3>3 DEF Pooled, HeldOpen, OraclesTypeOK
    <3>5. QED
      BY <1>1, <3>2, <3>4
  <2>4. CASE pool' = [pool EXCEPT ![c] = NoChild] /\ oracleStage' = "program"
             /\ child'[p].stdin = "closed" /\ child'[p].of = child[p].of
             /\ child'[p].state \in {child[p].state, "waited"}
    <3>1. pool' = pool
      BY <1>1, <2>1, <2>4 DEF HeldOpen, OraclesTypeOK
    <3>2. \A k \in Connection : pool[k] # p
      <4>1. SUFFICES ASSUME NEW k \in Connection, pool[k] = p PROVE FALSE
        OBVIOUS
      <4>2. k = c
        BY <2>1, <4>1 DEF HeldOpen, Pooled
      <4>3. QED
        BY <2>1, <4>1, <4>2 DEF HeldOpen
    <3>3. Pooled'
      BY <1>1, <2>1, <2>2, <2>4, <3>1, <3>2 DEF Pooled, OraclesTypeOK
    <3>4. HeldOpen'
      BY <1>1, <2>1, <2>2, <2>4, <3>1 DEF HeldOpen, OraclesTypeOK
    <3>5. QED
      BY <1>1, <3>3, <3>4
  <2>5. \/ /\ pool' = [pool EXCEPT ![c] = p] /\ oracleStage' = "sending"
           /\ UNCHANGED invocation
        \/ /\ pool' = [pool EXCEPT ![c] = NoChild] /\ oracleStage' = "program"
           /\ child'[p].stdin = "closed" /\ child'[p].of = child[p].of
           /\ child'[p].state \in {child[p].state, "waited"}
    BY <1>1, <1>3, InitializeChild
  <2>6. QED
    BY <2>3, <2>4, <2>5
<1>4. CASE Refuse
  <2>1. invocation.child \in Child /\ invocation.of \in Connection /\ oracleStage = "connecting"
    BY <1>2, <1>4 DEF Refuse
  <2>2. /\ \A q \in Child : q # invocation.child => child'[q] = child[q]
        /\ child'[invocation.child].stdin = "closed"
        /\ child'[invocation.child].of = child[invocation.child].of
        /\ child'[invocation.child].state \in {child[invocation.child].state, "waited"}
    BY <1>1, <1>4, <2>1, DroppedType DEF Refuse, OraclesTypeOK
  <2>3. pool' = pool /\ oracleStage' = "program"
    BY <1>4 DEF Refuse, Return
  <2>4. \A k \in Connection : pool[k] # invocation.child
    <3>1. SUFFICES ASSUME NEW k \in Connection, pool[k] = invocation.child
                   PROVE  FALSE
      OBVIOUS
    <3>2. k = invocation.of
      BY <2>1, <3>1 DEF HeldOpen, Pooled
    <3>3. QED
      BY <2>1, <3>1, <3>2 DEF HeldOpen
  <2>5. Pooled'
    BY <1>1, <2>1, <2>2, <2>3, <2>4 DEF Pooled, OraclesTypeOK
  <2>6. HeldOpen'
    BY <1>1, <2>1, <2>2, <2>3 DEF HeldOpen, OraclesTypeOK
  <2>7. QED
    BY <1>1, <2>5, <2>6
<1>5. CASE SendRequest \/ ReceiveResponse
  <2>1. invocation \in InvocationType /\ oracleStage \in {"sending", "receiving"}
    BY <1>1, <1>5 DEF SendRequest, ReceiveResponse, OraclesTypeOK
  <2>2. \A q \in Child : /\ child'[q].of = child[q].of /\ child'[q].acked = child[q].acked
                         /\ child'[q].state = child[q].state /\ child'[q].stdin = child[q].stdin
    <3>1. child \in [Child -> ChildType] /\ invocation.child \in Child
      BY <1>1, <2>1 DEF OraclesTypeOK, InvocationType
    <3>2. CASE SendRequest
      BY <3>1, <3>2 DEF SendRequest, ChildType
    <3>3. CASE ReceiveResponse
      BY <3>1, <3>3 DEF ReceiveResponse, ChildType
    <3>4. QED
      BY <1>5, <3>2, <3>3
  <2>3. /\ pool' = pool /\ oracleStage' \in {"receiving", "program"}
        /\ oracleStage' = "receiving" =>
              invocation'.of = invocation.of /\ invocation'.child = invocation.child
    BY <1>5, <2>1 DEF SendRequest, ReceiveResponse, Return, InvocationType
  <2>4. \A k \in Connection : pool[k] # NoChild => pool[k] \in Child
    BY <1>1 DEF OraclesTypeOK
  <2>5. Pooled'
    BY <1>1, <2>2, <2>3, <2>4 DEF Pooled
  <2>6. HeldOpen'
    BY <1>1, <2>1, <2>2, <2>3 DEF Pooled, HeldOpen, OraclesTypeOK
  <2>7. QED
    BY <1>1, <2>5, <2>6
<1>6. CASE EndProgram
  BY <1>1, <1>6 DEF EndProgram, Pooled, HeldOpen
<1>7. ASSUME NEW c \in Connection, Invoke(c) PROVE PoolInv'
  <2>1. pool' = pool /\ oracleStage = "program"
    BY <1>1, <1>7, InvokeChild
  <2>2. CASE /\ child' = child
             /\ \/ oracleStage' = "program"
                \/ /\ oracleStage' = "sending" /\ pool[c] # NoChild
                   /\ invocation'.of = c /\ invocation'.child = pool[c]
    BY <1>1, <2>1, <2>2 DEF Pooled, HeldOpen
  <2>3. ASSUME NEW p \in Child, oracleStage' = "connecting", pool[c] = NoChild,
               child[p].state = "unborn",
               invocation'.of = c, invocation'.child = p,
               \A q \in Child : q # p => child'[q] = child[q],
               child'[p].of = c, child'[p].state = "running"
        PROVE  PoolInv'
    <3>1. \A k \in Connection : pool[k] # p
      BY <1>1, <2>3 DEF Pooled, OraclesTypeOK
    <3>3. \A k \in Connection : pool[k] # NoChild => pool[k] \in Child /\ child'[pool[k]] = child[pool[k]]
      BY <1>1, <2>3, <3>1 DEF OraclesTypeOK
    <3>4. Pooled'
      BY <2>1, <2>3, <3>3 DEF Pooled
    <3>5. HeldOpen'
      BY <2>1, <2>3 DEF HeldOpen
    <3>6. QED
      BY <1>1, <3>4, <3>5
  <2>4. QED
    BY <1>1, <1>7, <2>2, <2>3, InvokeChild
<1>8. ASSUME NEW c \in Connection, DropConnection(c) PROVE PoolInv'
  <2>1. pool[c] \in Child /\ oracleStage = "ending" /\ oracleStage' = "ending"
    BY <1>1, <1>8 DEF DropConnection, OraclesTypeOK
  <2>2. /\ \A q \in Child : q # pool[c] => child'[q] = child[q]
        /\ child'[pool[c]].stdin = "closed" /\ child'[pool[c]].of = child[pool[c]].of
        /\ child'[pool[c]].acked = child[pool[c]].acked
        /\ child'[pool[c]].state \in {child[pool[c]].state, "waited"}
    BY <1>1, <1>8, <2>1, DroppedType DEF DropConnection, OraclesTypeOK
  <2>3. pool' = [pool EXCEPT ![c] = NoChild]
    BY <1>8 DEF DropConnection
  <2>4. /\ \A k \in Connection : k # c => pool'[k] = pool[k]
        /\ pool'[c] = NoChild
    BY <1>1, <2>3 DEF OraclesTypeOK
  <2>5. Pooled'
    <3>1. \A k \in Connection : pool'[k] # NoChild =>
             pool'[k] = pool[k] /\ pool[k] \in Child /\ pool[k] # pool[c]
      BY <1>1, <2>1, <2>4 DEF Pooled, OraclesTypeOK
    <3>2. \A k \in Connection : pool'[k] # NoChild =>
             child'[pool'[k]] = child[pool[k]]
      BY <2>2, <3>1
    <3>3. \A k \in Connection : pool'[k] # NoChild =>
             /\ child'[pool'[k]].of = k /\ child'[pool'[k]].acked
             /\ child'[pool'[k]].state # "unborn"
      BY <1>1, <3>1, <3>2 DEF Pooled
    <3>4. \A q \in Child : child'[q].state = "running" =>
             child'[q].of \in Connection
      BY <1>1, <2>2 DEF Pooled
    <3>5. QED
      BY <3>3, <3>4 DEF Pooled
  <2>6. HeldOpen'
    <3>1. \A q \in Child : child'[q].state = "running" /\ child'[q].stdin = "open" =>
             q # pool[c] /\ child'[q] = child[q] /\ pool[child[q].of] = q
                 /\ child[q].of \in Connection
      BY <1>1, <2>1, <2>2 DEF HeldOpen, Pooled
    <3>2. \A q \in Child : child'[q].state = "running" /\ child'[q].stdin = "open" =>
             pool'[child'[q].of] = q
      BY <2>1, <2>4, <3>1
    <3>3. QED
      BY <2>1, <3>2 DEF HeldOpen
  <2>7. QED
    BY <1>1, <2>5, <2>6
<1>9. ASSUME NEW p \in Child, WriteLine(p) \/ StopListening(p) \/ Exit(p)
      PROVE PoolInv'
  <2>1. UNCHANGED <<pool, invocation, oracleStage>>
    BY <1>9 DEF WriteLine, StopListening, Exit
  <2>2. \A q \in Child :
            /\ child'[q].of = child[q].of /\ child'[q].acked = child[q].acked
            /\ child'[q].state = "unborn" => child[q].state = "unborn"
            /\ child'[q].state = "running" => child[q].state = "running"
            /\ child'[q].stdin = "open" => child[q].stdin = "open"
    BY <1>1, <1>9, ProcessChild
  <2>4. Pooled'
    BY <1>1, <2>1, <2>2 DEF Pooled, OraclesTypeOK
  <2>5. HeldOpen'
    BY <1>1, <1>2, <2>1, <2>2 DEF Pooled, HeldOpen, OraclesTypeOK
  <2>6. QED
    BY <1>1, <2>4, <2>5
<1>10. CASE UNCHANGED oracleVars
  BY <1>1, <1>10 DEF oracleVars, Pooled, HeldOpen
<1>11. QED
  BY <1>3, <1>4, <1>5, <1>6, <1>7, <1>8, <1>9, <1>10 DEF OraclesNext, Processor

LEMMA OraclesInitType == OraclesInit => OraclesTypeOK
<1>1. Unborn \in ChildType
  BY DEF Unborn, ChildType
<1>2. <<>> \in Seq([ok : BOOLEAN, of : Nat])
  OBVIOUS
<1>3. QED
  BY <1>1, <1>2 DEF OraclesInit, OraclesTypeOK

(* The answer the hint processor takes for an invocation is the one its    *)
(* process wrote for that request, however many lines, notifications and   *)
(* answers to other requests the process writes before, between and after. *)
THEOREM AnswersInStep == OraclesSpec => []AnsweredAsAsked
<1>1. OraclesInit => AnswerInv
  <2> SUFFICES ASSUME OraclesInit PROVE AnswerInv
    OBVIOUS
  <2>1. \A p \in Child : child[p].asked = {} /\ child[p].stdout = <<>>
    BY DEF OraclesInit, Unborn
  <2>2. QED
    BY <2>1, OraclesInitType
       DEF OraclesInit, AnswerInv, InStep, AnsweredAsAsked, AsksOnce
<1>2. AnswerInv /\ [OraclesNext]_oracleVars => AnswerInv'
  BY AnswerStep
<1>3. AnswerInv => AnsweredAsAsked
  BY DEF AnswerInv
<1>4. QED
  BY <1>1, <1>2, <1>3, PTL DEF OraclesSpec

(* When the last connection is dropped no process of an oracle runs with   *)
(* its input open, whichever step of which connection failed before.       *)
THEOREM OraclesEnd == OraclesSpec => []NoneLeftRunning
<1>1. OraclesInit => PoolInv
  BY OraclesInitType DEF OraclesInit, PoolInv, Pooled, HeldOpen, Unborn
<1>2. PoolInv /\ [OraclesNext]_oracleVars => PoolInv'
  BY PoolStep
<1>3. PoolInv => NoneLeftRunning
  BY OraclesAssumption
     DEF OraclesAssumption, PoolInv, Pooled, HeldOpen, NoneLeftRunning,
         OraclesTypeOK
<1>4. QED
  BY <1>1, <1>2, <1>3, PTL DEF OraclesSpec

-----------------------------------------------------------------------------
(* What macros and their callers allocate and free: MacroMemory.           *)

(* The fields some destructor follows, and values made of such fields only.*)
FreedFields ==
    {"tokens", "diagnostics", "message", "span", "full_path_markers", "marker",
     "key", "full_path", "aux_datas", "aux_data", "text", "expansions", "name"}
    \cup StreamMetadata

Block(t, side, value, field) ==
    [thread |-> t, side |-> side, value |-> value, field |-> field]

Made(t, side, values) ==
    \A n \in DOMAIN values :
        /\ values[n] = [f \in DOMAIN values[n] |-> Block(t, side, n, f)]
        /\ DOMAIN values[n] \subseteq FreedFields

(* The destructors free all the blocks of a value, and each of them.       *)
LEMMA AllFreed ==
  ASSUME NEW t, NEW side, NEW values, Made(t, side, values)
  PROVE  FreedAll(values) = BlocksOf(values)
<1>1. ASSUME NEW n \in DOMAIN values
      PROVE  Freed(values[n]) = Range(values[n])
  <2> DEFINE v == values[n]
  <2>1. Freed(v) = {v[f] : f \in DOMAIN v \cap FreedFields}
    BY DEF Freed, FreedStream, FreedDiagnostics, FreedMarkers, FreedAuxData,
           FreedTexts, FreedFields
  <2>2. DOMAIN v \cap FreedFields = DOMAIN v
    BY DEF Made
  <2>3. QED
    BY <2>1, <2>2 DEF Range
<1>2. QED
  BY <1>1 DEF FreedAll, BlocksOf

LEMMA BlocksMade ==
  ASSUME NEW t, NEW side, NEW values, Made(t, side, values),
         NEW b \in BlocksOf(values)
  PROVE  b.thread = t /\ b.side = side
<1>1. PICK n \in DOMAIN values : b \in Range(values[n])
  BY DEF BlocksOf
<1>2. PICK f \in DOMAIN values[n] : b = values[n][f]
  BY <1>1 DEF Range
<1>3. b = Block(t, side, n, f)
  BY <1>2 DEF Made
<1>4. QED
  BY <1>3 DEF Block

(* What crosses is made of such fields.                                    *)
LEMMA ValuesMade ==
  ASSUME NEW t, NEW side, NEW types, NEW full \in BOOLEAN,
         \A n \in DOMAIN types :
             types[n].slices \cup types[n].rest \subseteq FreedFields
  PROVE  Made(t, side, Values(t, side, types, full))
<1> DEFINE values == Values(t, side, types, full)
           fields(n) == types[n].slices \cup IF full THEN types[n].rest ELSE {}
<1>1. values = [n \in DOMAIN types |-> [f \in fields(n) |-> Block(t, side, n, f)]]
  BY DEF Values, Allocated, Block
<1>2. \A n \in DOMAIN types : fields(n) \subseteq FreedFields
  OBVIOUS
<1> HIDE DEF values, fields
<1>3. \A n \in DOMAIN types :
         values[n] = [f \in fields(n) |-> Block(t, side, n, f)]
  BY <1>1
<1>4. DOMAIN values = DOMAIN types
  BY <1>1
<1>5. QED
  BY <1>2, <1>3, <1>4 DEF Made, values

LEMMA TypesKnown ==
  /\ \A type \in {Stream, Diagnostic, Result, Context, Expansion, Text} :
         type.slices \cup type.rest \subseteq FreedFields
  /\ \A call \in {"list", "expand", "post_process", "doc"} :
         \A n \in DOMAIN GivenTypes(call) :
             GivenTypes(call)[n].slices \cup GivenTypes(call)[n].rest \subseteq FreedFields
<1>1. \A type \in {Stream, Diagnostic, Result, Context, Expansion, Text} :
         type.slices \cup type.rest \subseteq FreedFields
  BY DEF Stream, Diagnostic, Result, Context, Expansion, Text, StreamMetadata,
         FreedFields
<1>2. ASSUME NEW call \in {"list", "expand", "post_process", "doc"},
             NEW n \in DOMAIN GivenTypes(call)
      PROVE  GivenTypes(call)[n] \in {Stream, Context, Text}
  BY DEF GivenTypes
<1>3. QED
  BY <1>1, <1>2

LEMMA NoBlocks ==
  /\ BlocksOf(<<>>) = {} /\ \A t, side : Made(t, side, <<>>)
BY DEF BlocksOf, Made

(* Where a call is says which values there are; what tokens point into is  *)
(* held.                                                                   *)
IsFrame(f) ==
    DOMAIN f = {"call", "at", "given", "taken", "pointers", "careful"}

FrameInv(t) ==
    /\ frame[t].at \in {"idle", "called", "returned", "copied", "done"}
    /\ Made(t, "host", frame[t].given) /\ Made(t, "library", frame[t].taken)
    /\ frame[t].at \in {"idle", "copied", "done"} => frame[t].given = <<>>
    /\ frame[t].at \in {"idle", "called", "done"} => frame[t].taken = <<>>
    /\ frame[t].careful => frame[t].pointers \subseteq Alive(t)

BlocksOfCall(t) == BlocksOf(frame[t].given) \cup BlocksOf(frame[t].taken)

(* The blocks that are allocated are those of the calls under way.         *)
MemoryInv ==
    /\ frame = [t \in Caller |-> frame[t]] /\ \A t \in Caller : IsFrame(frame[t])
    /\ context = [t \in Caller |-> context[t]]
    /\ cached = [t \in Caller |-> cached[t]]
    /\ "stage" \in DOMAIN library
    /\ library.stage = "closed" => \A t \in Caller : frame[t].at = "idle"
    /\ \A t \in Caller : FrameInv(t)
    /\ heap = UNION {BlocksOfCall(t) : t \in Caller}

(* A step of one thread leaves the others' calls and arenas alone.         *)
LEMMA OneFrame ==
  ASSUME MemoryInv, NEW t \in Caller, NEW f, IsFrame(f),
         frame' = [frame EXCEPT ![t] = f], FrameInv(t)',
         context' = [u \in Caller |-> context'[u]],
         cached' = [u \in Caller |-> cached'[u]],
         \A u \in Caller \ {t} : context'[u] = context[u] /\ cached'[u] = cached[u],
         "stage" \in DOMAIN library',
         library'.stage = "closed" => library.stage = "closed" /\ f.at = "idle",
         heap' = (heap \ BlocksOfCall(t)) \cup BlocksOfCall(t)'
  PROVE  MemoryInv'
<1>1. frame'[t] = f /\ \A u \in Caller \ {t} : frame'[u] = frame[u]
  BY DEF MemoryInv
<1>2. \A u \in Caller \ {t} : FrameInv(u)'
  BY <1>1 DEF MemoryInv, FrameInv, Alive
<1>3. \A u \in Caller \ {t} : BlocksOfCall(u)' = BlocksOfCall(u)
  BY <1>1 DEF BlocksOfCall
<1>4. \A u \in Caller : \A b \in BlocksOfCall(u) : b.thread = u
  BY BlocksMade DEF MemoryInv, FrameInv, BlocksOfCall
<1>5. heap' = UNION {BlocksOfCall(u)' : u \in Caller}
  BY <1>3, <1>4 DEF MemoryInv
<1>6. /\ frame' = [u \in Caller |-> frame'[u]]
      /\ \A u \in Caller : IsFrame(frame'[u])
  BY <1>1 DEF MemoryInv
<1>7. library'.stage = "closed" => \A u \in Caller : frame'[u].at = "idle"
  BY <1>1 DEF MemoryInv
<1>8. QED
  BY <1>1, <1>2, <1>5, <1>6, <1>7 DEF MemoryInv

(* The host makes a call: there is nothing yet of an idle thread.          *)
LEMMA MakeCallKeeps ==
  ASSUME MemoryInv, NEW t \in Caller, frame[t].at = "idle",
         NEW call \in {"list", "expand", "post_process", "doc"}, MakeCall(t, call),
         UNCHANGED <<context, cached>>, "stage" \in DOMAIN library', library'.stage # "closed"
  PROVE  MemoryInv'
<1>1. PICK full \in BOOLEAN :
         LET given == Values(t, "host", GivenTypes(call), full)
         IN  /\ frame' = [frame EXCEPT ![t] =
                   [NoFrame EXCEPT !.call = call, !.at = "called", !.given = given,
                                   !.pointers = TokenPointers(t, call)]]
             /\ heap' = heap \cup BlocksOf(given)
  BY DEF MakeCall
<1> DEFINE given == Values(t, "host", GivenTypes(call), full)
           f == [NoFrame EXCEPT !.call = call, !.at = "called", !.given = given,
                                !.pointers = TokenPointers(t, call)]
<1>2. Made(t, "host", given)
  BY ValuesMade, TypesKnown
<1>3. /\ IsFrame(f) /\ f.call = call /\ f.at = "called" /\ f.given = given
      /\ f.taken = <<>> /\ f.pointers = TokenPointers(t, call) /\ f.careful
  BY DEF NoFrame, IsFrame
<1> HIDE DEF given, f
<1>4. frame' = [frame EXCEPT ![t] = f] /\ heap' = heap \cup BlocksOf(given)
  BY <1>1 DEF given, f
<1>5. frame'[t] = f
  BY <1>4 DEF MemoryInv
<1>6. TokenPointers(t, call) \subseteq Alive(t)'
  BY <1>3, <1>5 DEF TokenPointers, Alive
<1>7. FrameInv(t)'
  BY <1>2, <1>3, <1>5, <1>6, NoBlocks DEF FrameInv
<1>8. BlocksOfCall(t) = {}
  BY NoBlocks DEF MemoryInv, FrameInv, BlocksOfCall
<1>9. BlocksOfCall(t)' = BlocksOf(given)
  BY <1>3, <1>5, NoBlocks DEF BlocksOfCall
<1>10. context' = [u \in Caller |-> context'[u]] /\ cached' = [u \in Caller |-> cached'[u]]
  BY DEF MemoryInv
<1>11. QED
  BY <1>3, <1>4, <1>7, <1>8, <1>9, <1>10, OneFrame

(* The library returns a value, whose tokens it may hold from then on.     *)
LEMMA ReturnValueKeeps ==
  ASSUME MemoryInv, NEW t \in Caller, frame[t].at = "called",
         NEW type \in {Stream, Diagnostic, Result, Context, Expansion, Text},
         NEW pointers, NEW careful, ReturnValue(t, type, pointers, careful),
         careful => pointers \subseteq {context'[t]} \cup cached'[t],
         context' = [u \in Caller |-> context'[u]],
         cached' = [u \in Caller |-> cached'[u]],
         \A u \in Caller \ {t} : context'[u] = context[u] /\ cached'[u] = cached[u],
         library' = library
  PROVE  MemoryInv'
<1>1. PICK full \in BOOLEAN :
         LET taken == Values(t, "library", [result |-> type], full)
         IN  /\ frame' = [frame EXCEPT ![t].at = "returned", ![t].taken = taken,
                                       ![t].pointers = pointers, ![t].careful = careful]
             /\ heap' = heap \cup BlocksOf(taken)
  BY DEF ReturnValue
<1> DEFINE taken == Values(t, "library", [result |-> type], full)
           f == [frame[t] EXCEPT !.at = "returned", !.taken = taken,
                                 !.pointers = pointers, !.careful = careful]
<1>2. Made(t, "library", taken)
  BY ValuesMade, TypesKnown
<1> HIDE DEF taken
<1>3. /\ IsFrame(f) /\ f.call = frame[t].call /\ f.at = "returned"
      /\ f.given = frame[t].given /\ f.taken = taken /\ f.pointers = pointers
      /\ f.careful = careful
  BY DEF MemoryInv, IsFrame
<1>4. frame' = [frame EXCEPT ![t] = f] /\ heap' = heap \cup BlocksOf(taken)
  BY <1>1 DEF taken
<1> HIDE DEF f
<1>5. frame'[t] = f
  BY <1>4 DEF MemoryInv
<1>6. careful => pointers \subseteq Alive(t)'
  BY DEF Alive
<1>7. FrameInv(t)'
  BY <1>2, <1>3, <1>5, <1>6 DEF FrameInv, MemoryInv
<1>8. BlocksOfCall(t) \subseteq heap /\ BlocksOfCall(t) = BlocksOf(frame[t].given)
  BY NoBlocks DEF MemoryInv, FrameInv, BlocksOfCall
<1>9. BlocksOfCall(t)' = BlocksOf(frame[t].given) \cup BlocksOf(taken)
  BY <1>3, <1>5 DEF BlocksOfCall
<1>10. library.stage # "closed" /\ "stage" \in DOMAIN library
  BY DEF MemoryInv
<1>11. QED
  BY <1>3, <1>4, <1>7, <1>8, <1>9, <1>10, OneFrame

LEMMA HostKeeps ==
  ASSUME MemoryInv, NEW t \in Caller,
         \/ Load(t) \/ CopyResult(t) \/ GiveBack(t) \/ EndCall(t)
         \/ \E call \in {"expand", "post_process", "doc"} : UseLibrary(t, call)
  PROVE  MemoryInv'
<1>0. /\ IsFrame(frame[t]) /\ FrameInv(t)
      /\ library.stage = "closed" => frame[t].at = "idle"
      /\ heap = UNION {BlocksOfCall(u) : u \in Caller}
  BY DEF MemoryInv
<1>1. CASE Load(t)
  <2>1. CASE Opens
    <3>1. "stage" \in DOMAIN library' /\ library'.stage # "closed"
      BY <1>1, <2>1 DEF Load, MemoryInv
    <3>2. QED
      BY <1>0, <1>1, <2>1, <3>1, MakeCallKeeps DEF Load
  <2>2. CASE ~Opens
    BY <1>0, <1>1, <2>2 DEF Load, MemoryInv, FrameInv, Alive, BlocksOfCall
  <2>3. QED
    BY <2>1, <2>2
<1>2. ASSUME NEW call \in {"expand", "post_process", "doc"}, UseLibrary(t, call)
      PROVE  MemoryInv'
  <2>1. library' = library /\ library.stage = "loaded" /\ "stage" \in DOMAIN library
    BY <1>2 DEF UseLibrary, MemoryInv
  <2>2. QED
    BY <1>2, <2>1, MakeCallKeeps DEF UseLibrary
<1>3. CASE CopyResult(t)
  <2> DEFINE at == IF frame[t].taken = <<>> THEN "done" ELSE "copied"
             f == [frame[t] EXCEPT !.at = at, !.given = <<>>, !.pointers = {}]
  <2>1. /\ IsFrame(f) /\ f.call = frame[t].call /\ f.at = at /\ f.given = <<>>
        /\ f.taken = frame[t].taken /\ f.pointers = {} /\ f.careful = frame[t].careful
    BY <1>0 DEF IsFrame
  <2>2. frame' = [frame EXCEPT ![t] = f] /\ heap' = heap \ FreedAll(frame[t].given)
    BY <1>3 DEF CopyResult
  <2> HIDE DEF f
  <2>3. frame'[t] = f
    BY <2>2 DEF MemoryInv
  <2>4. FrameInv(t)'
    BY <1>0, <2>1, <2>3, NoBlocks DEF FrameInv
  <2>5. FreedAll(frame[t].given) = BlocksOf(frame[t].given)
    BY <1>0, AllFreed DEF FrameInv
  <2>6. \A b \in BlocksOf(frame[t].taken) : b \notin BlocksOf(frame[t].given)
    <3>1. SUFFICES ASSUME NEW b \in BlocksOf(frame[t].taken),
                          b \in BlocksOf(frame[t].given)
                   PROVE  FALSE
      OBVIOUS
    <3>2. b.side = "host"
      BY <1>0, <3>1, BlocksMade DEF FrameInv
    <3>3. b.side = "library"
      BY <1>0, <3>1, BlocksMade DEF FrameInv
    <3>4. QED
      BY <3>2, <3>3
  <2>7. BlocksOfCall(t)' = BlocksOf(frame[t].taken)
    BY <2>1, <2>3, NoBlocks DEF BlocksOfCall
  <2>8. heap' = (heap \ BlocksOfCall(t)) \cup BlocksOfCall(t)'
    BY <1>0, <2>2, <2>5, <2>6, <2>7 DEF BlocksOfCall
  <2>9. UNCHANGED <<library, context, cached>>
    BY <1>3 DEF CopyResult
  <2>10. library.stage # "closed"
    BY <1>0, <1>3 DEF CopyResult
  <2>11. QED
    BY <2>1, <2>2, <2>4, <2>8, <2>9, <2>10, OneFrame DEF MemoryInv
<1>4. CASE GiveBack(t)
  <2> DEFINE f == [frame[t] EXCEPT !.at = "done", !.taken = <<>>]
  <2>1. /\ IsFrame(f) /\ f.call = frame[t].call /\ f.at = "done" /\ f.taken = <<>>
        /\ f.given = frame[t].given /\ f.pointers = frame[t].pointers
        /\ f.careful = frame[t].careful
    BY <1>0 DEF IsFrame
  <2>2. frame' = [frame EXCEPT ![t] = f] /\ heap' = heap \ FreedAll(frame[t].taken)
    BY <1>4 DEF GiveBack
  <2> HIDE DEF f
  <2>3. frame'[t] = f
    BY <2>2 DEF MemoryInv
  <2>4. UNCHANGED <<library, context, cached>> /\ frame[t].at = "copied"
    BY <1>4 DEF GiveBack
  <2>5. FrameInv(t)'
    BY <1>0, <2>1, <2>3, <2>4, NoBlocks DEF FrameInv, Alive
  <2>6. FreedAll(frame[t].taken) = BlocksOf(frame[t].taken)
    BY <1>0, AllFreed DEF FrameInv
  <2>7. BlocksOfCall(t)' = {} /\ BlocksOfCall(t) = BlocksOf(frame[t].taken)
    BY <1>0, <2>1, <2>3, <2>4, NoBlocks DEF BlocksOfCall, FrameInv
  <2>8. library.stage # "closed"
    BY <1>0, <2>4
  <2>9. QED
    BY <2>1, <2>2, <2>4, <2>5, <2>6, <2>7, <2>8, OneFrame DEF MemoryInv
<1>5. CASE EndCall(t)
  <2>1. /\ IsFrame(NoFrame) /\ NoFrame.at = "idle" /\ NoFrame.given = <<>>
        /\ NoFrame.taken = <<>> /\ NoFrame.pointers = {}
    BY DEF NoFrame, IsFrame
  <2>2. /\ frame' = [frame EXCEPT ![t] = NoFrame] /\ frame[t].at = "done"
        /\ UNCHANGED <<heap, context, cached>>
    BY <1>5 DEF EndCall
  <2>3. frame'[t] = NoFrame
    BY <2>2 DEF MemoryInv
  <2>4. FrameInv(t)'
    BY <2>1, <2>3, NoBlocks DEF FrameInv
  <2>5. BlocksOfCall(t) = {} /\ BlocksOfCall(t)' = {}
    BY <1>0, <2>1, <2>2, <2>3, NoBlocks DEF BlocksOfCall, FrameInv
  <2>6. "stage" \in DOMAIN library' /\ (library'.stage = "closed" => library.stage = "closed")
    BY <1>5 DEF EndCall, MemoryInv
  <2>7. QED
    BY <2>1, <2>2, <2>4, <2>5, <2>6, OneFrame DEF MemoryInv
<1>6. QED
  BY <1>1, <1>2, <1>3, <1>4, <1>5

LEMMA LibraryKeeps ==
  ASSUME MemoryInv, NEW t \in Caller,
         \/ ListExpansions(t) \/ ExpandTokens(t) \/ ExpandText(t)
         \/ CallBack(t) \/ Doc(t)
  PROVE  MemoryInv'
<1>0. /\ context = [u \in Caller |-> context[u]] /\ cached = [u \in Caller |-> cached[u]]
      /\ FrameInv(t) /\ IsFrame(frame[t])
  BY DEF MemoryInv
<1>1. CASE ListExpansions(t)
  BY <1>0, <1>1, ReturnValueKeeps DEF ListExpansions, Called
<1>2. CASE ExpandTokens(t)
  <2> DEFINE new == <<t, "context", expansions[t] + 1>>
             own == <<t, "own", expansions[t] + 1>>
  <2>1. PICK hold \in SUBSET (cached[t] \cup {new}) :
            cached' = [cached EXCEPT ![t] = hold]
    BY <1>2 DEF ExpandTokens
  <2>2. context' = [context EXCEPT ![t] = new] /\ library' = library
    BY <1>2 DEF ExpandTokens, HoldContext
  <2>3. PICK tokens \in SUBSET ({new, own} \cup cached[t]) :
            ReturnValue(t, Result, tokens, tokens \subseteq {new} \cup cached'[t])
    BY <1>2 DEF ExpandTokens
  <2>4. context'[t] = new /\ frame[t].at = "called"
    BY <1>0, <1>2, <2>2 DEF ExpandTokens, Called
  <2>5. /\ context' = [u \in Caller |-> context'[u]]
        /\ cached' = [u \in Caller |-> cached'[u]]
        /\ \A u \in Caller \ {t} : context'[u] = context[u] /\ cached'[u] = cached[u]
    BY <1>0, <2>1, <2>2
  <2> HIDE DEF new, own
  <2>6. QED
    BY <2>2, <2>3, <2>4, <2>5, ReturnValueKeeps
<1>3. CASE ExpandText(t)
  BY <1>0, <1>3, ReturnValueKeeps DEF ExpandText, Called
<1>4. CASE CallBack(t)
  <2> DEFINE f == [frame[t] EXCEPT !.at = "returned"]
  <2>1. /\ IsFrame(f) /\ f.call = frame[t].call /\ f.at = "returned"
        /\ f.given = frame[t].given /\ f.taken = frame[t].taken
        /\ f.pointers = frame[t].pointers /\ f.careful = frame[t].careful
    BY <1>0 DEF IsFrame
  <2>2. /\ frame' = [frame EXCEPT ![t] = f] /\ frame[t].at = "called"
        /\ UNCHANGED <<library, heap, context, cached>>
    BY <1>4 DEF CallBack, Called
  <2> HIDE DEF f
  <2>3. frame'[t] = f
    BY <2>2 DEF MemoryInv
  <2>4. FrameInv(t)'
    BY <1>0, <2>1, <2>2, <2>3 DEF FrameInv, Alive
  <2>5. BlocksOfCall(t)' = BlocksOfCall(t) /\ BlocksOfCall(t) \subseteq heap
    BY <2>1, <2>3 DEF BlocksOfCall, MemoryInv
  <2>6. library.stage # "closed" /\ "stage" \in DOMAIN library
    BY <2>2 DEF MemoryInv
  <2>7. QED
    BY <1>0, <2>1, <2>2, <2>4, <2>5, <2>6, OneFrame
<1>5. CASE Doc(t)
  BY <1>0, <1>5, ReturnValueKeeps DEF Doc, Called
<1>6. QED
  BY <1>1, <1>2, <1>3, <1>4, <1>5

(* Whatever crosses, in however many threads and however often they expand:*)
(* a block is read only while it is allocated and is freed once, a token   *)
(* of a careful macro points into an arena that is held, and a thread      *)
(* without a call has no blocks.                                           *)
THEOREM MemoryStaysLive == MemorySpec => []MemoryIsLive
<1>1. MemoryInit => MemoryInv
  <2> SUFFICES ASSUME MemoryInit PROVE MemoryInv
    OBVIOUS
  <2>1. /\ IsFrame(NoFrame) /\ NoFrame.at = "idle" /\ NoFrame.given = <<>>
        /\ NoFrame.taken = <<>> /\ NoFrame.pointers = {}
    BY DEF NoFrame, IsFrame
  <2>2. \A t \in Caller : frame[t] = NoFrame
    BY DEF MemoryInit
  <2>3. \A t \in Caller : FrameInv(t) /\ BlocksOfCall(t) = {}
    BY <2>1, <2>2, NoBlocks DEF FrameInv, BlocksOfCall
  <2>4. QED
    BY <2>1, <2>2, <2>3 DEF MemoryInit, MemoryInv
<1>2. MemoryInv /\ [MemoryNext]_memoryVars => MemoryInv'
  <2> SUFFICES ASSUME MemoryInv, [MemoryNext]_memoryVars PROVE MemoryInv'
    OBVIOUS
  <2>1. CASE UNCHANGED memoryVars
    BY <2>1 DEF memoryVars, MemoryInv, FrameInv, Alive, BlocksOfCall
  <2>2. ASSUME NEW t \in Caller, Panic(t) PROVE MemoryInv'
    BY <2>2 DEF Panic, MemoryInv, FrameInv, Alive, BlocksOfCall
  <2>3. QED
    BY <2>1, <2>2, HostKeeps, LibraryKeeps DEF MemoryNext
<1>3. MemoryInv => MemoryIsLive
  <2> SUFFICES ASSUME MemoryInv, NEW t \in Caller
               PROVE  /\ BlocksOfCall(t) \subseteq heap
                      /\ frame[t].careful => frame[t].pointers \subseteq Alive(t)
                      /\ frame[t].at \in {"idle", "done"} =>
                             \A b \in heap : b.thread # t
    BY DEF MemoryIsLive, BlocksOfCall
  <2>1. BlocksOfCall(t) \subseteq heap /\ FrameInv(t)
    BY DEF MemoryInv
  <2>2. ASSUME frame[t].at \in {"idle", "done"}, NEW b \in heap
        PROVE  b.thread # t
    <3>1. PICK u \in Caller : b \in BlocksOfCall(u)
      BY DEF MemoryInv
    <3>2. b.thread = u
      BY <3>1, BlocksMade DEF MemoryInv, FrameInv, BlocksOfCall
    <3>3. BlocksOfCall(t) = {}
      BY <2>1, <2>2, NoBlocks DEF FrameInv, BlocksOfCall
    <3>4. QED
      BY <3>1, <3>2, <3>3
  <2>3. QED
    BY <2>1, <2>2 DEF FrameInv
<1>4. QED
  BY <1>1, <1>2, <1>3, PTL DEF MemorySpec

-----------------------------------------------------------------------------
(* Executions and proofs of a program: ProgramRun.                         *)

FileNames == Files \ {"proof"}
NoneOf(content, names) == \A f \in names : content[f] = Absent
AllOf(content, names, u) == \A f \in names : content[f] = u

(* How far the one file, or the four files, of a run are written.          *)
PieWritten(u, left, content) ==
    /\ NoneOf(content, {"trace", "memory", "public", "private"})
    /\ \/ left = <<"pie">> /\ content["pie"] \in {Absent, Partial}
       \/ left = <<>> /\ content["pie"] = u

StandardWritten(u, left, content) ==
    /\ content["pie"] = Absent
    /\ \/ /\ left = <<"trace", "memory", "public", "private">>
          /\ content["trace"] \in {Absent, Partial}
          /\ NoneOf(content, {"memory", "public", "private"})
       \/ /\ left = <<"memory", "public", "private">>
          /\ AllOf(content, {"trace"}, u) /\ content["memory"] \in {Absent, Partial}
          /\ NoneOf(content, {"public", "private"})
       \/ /\ left = <<"public", "private">>
          /\ AllOf(content, {"trace", "memory"}, u)
          /\ content["public"] \in {Absent, Partial}
          /\ NoneOf(content, {"private"})
       \/ /\ left = <<"private">>
          /\ AllOf(content, {"trace", "memory", "public"}, u)
          /\ content["private"] \in {Absent, Partial}
       \/ /\ left = <<>>
          /\ AllOf(content, {"trace", "memory", "public", "private"}, u)

Written(u, output, left, content) ==
    IF output = "pie" THEN PieWritten(u, left, content)
    ELSE StandardWritten(u, left, content)

ProvesOwn(u) == task[u].command = "prove" /\ task[u].id = 0

(* The directory a command has made, or is to fill.                        *)
Claim(u) == IF ProvesOwn(u) THEN proof[u].id ELSE exec[u].id

RunShapes ==
    /\ DOMAIN exec = User /\ DOMAIN proof = User /\ DOMAIN verdict = User
    /\ DOMAIN executions = 1 .. MaxId
    /\ \A u \in User :
           /\ DOMAIN exec[u] = {"stage", "args", "id", "target", "left"}
           /\ DOMAIN proof[u] = {"stage", "id", "inputs"}
           /\ exec[u].id \in 0 .. MaxId /\ proof[u].id \in 0 .. MaxId
           /\ task[u] \in TasksOf[u]
    /\ \A n \in 1 .. MaxId :
           /\ DOMAIN executions[n] = {"there", "proofDir", "files"}
           /\ DOMAIN executions[n].files = Files

(* A directory is claimed by one command, and empty until its process has  *)
(* entered it.                                                             *)
ClaimsInv ==
    /\ \A u \in User : Claim(u) # 0 => executions[Claim(u)].there
    /\ \A u, v \in User : Claim(u) # 0 /\ Claim(u) = Claim(v) => u = v
    /\ \A u \in User : exec[u].id \in {0, Claim(u)}
    /\ \A n \in 1 .. MaxId : (\A u \in User : exec[u].id # n) =>
           NoneOf(executions[n].files, FileNames)

ExecInv(u) ==
    /\ exec[u].stage \in {"none", "start", "building", "emitting", "built", "directory"}
           => exec[u].id = 0
    /\ exec[u].stage = "writing" => exec[u].id # 0
    /\ exec[u].stage = "ended" => OutputOf(exec[u].args) = "none" \/ exec[u].id # 0
    /\ exec[u].id # 0 =>
           /\ exec[u].left = <<>> <=> exec[u].stage = "ended"
           /\ Written(u, OutputOf(exec[u].args), exec[u].left,
                      executions[exec[u].id].files)
    /\ exec[u].stage \in {"directory", "writing", "ended"} =>
           exec[u].target \in FindTarget(exec[u].args)
    /\ exec[u].stage # "none" =>
           /\ FindTarget(exec[u].args) = FindTarget(task[u].execute)
           /\ OutputOf(exec[u].args) = OutputOf(task[u].execute)
           /\ task[u].command # "execute" => ProvesOwn(u) /\ proof[u].id # 0

OwnStages == {"resolving", "adapting", "reading", "proving", "saving", "proved"}

ProofInv(u) ==
    /\ proof[u].stage # "none" => task[u].command = "prove"
    /\ proof[u].stage = "start" => proof[u].id = 0 /\ exec[u].stage = "none"
    /\ proof[u].stage \in OwnStages \cup {"executing"} => proof[u].id # 0
    /\ proof[u].stage = "adapting" =>
           /\ executions[proof[u].id].files["public"] # Absent
           /\ executions[proof[u].id].files["private"] # Absent
    /\ proof[u].stage \in {"reading", "proving", "saving", "proved"} =>
           OfOneRun(proof[u].id, proof[u].inputs)
    /\ ProvesOwn(u) /\ proof[u].stage \in OwnStages => exec[u].stage = "ended"
    /\ proof[u].stage = "executing" => ProvesOwn(u)

FailedInv(u) ==
    ProvesOwn(u) /\ proof[u].stage = "failed" =>
        \/ u \in accidents \/ proof[u].id = 0
        \/ At(u, "failed") /\ FindTarget(exec[u].args) = FindTarget(task[u].execute)
        \/ OutputOf(task[u].execute) # "standard"

ProvedInv ==
    /\ \A n \in 1 .. MaxId :
           executions[n].files["proof"] \notin {Absent, Partial} =>
               OfOneRun(n, executions[n].files["proof"])
    /\ \A u \in User : verdict[u].said = "verified" =>
           OfOneRun(task[u].id, verdict[u].inputs)

RunInv ==
    /\ RunShapes /\ ClaimsInv /\ ProvedInv
    /\ \A u \in User : ExecInv(u) /\ ProofInv(u) /\ FailedInv(u)

(* What `execute` is given by `prove` finds the same target and output.    *)
LEMMA ParsedKeeps ==
  ASSUME NEW args
  PROVE  /\ FindTarget(Parsed(ToArgs(args))) = FindTarget(args)
         /\ OutputOf(Parsed(ToArgs(args))) = OutputOf(args)
<1> DEFINE flags == ToArgs(args)
           understood == Parsed(flags)
           value(flag, default) ==
               IF \E f \in flags : f[1] = flag
               THEN (CHOOSE f \in flags : f[1] = flag)[2] ELSE default
<1>1. /\ understood.name = value("executable-name", Absent)
      /\ understood.function = value("executable-function", Absent)
      /\ understood.output = value("output", "default")
      /\ understood.target = value("target", "standalone")
  BY DEF Parsed
<1> DEFINE Given(flag, x, default) ==
        /\ (\E f \in flags : f[1] = flag) \/ x = default
        /\ \A f \in flags : f[1] = flag => f[2] = x
<1>2. ASSUME NEW flag, NEW default, NEW x, Given(flag, x, default)
      PROVE  value(flag, default) = x
  <2>1. CASE \E f \in flags : f[1] = flag
    <3> DEFINE g == CHOOSE f \in flags : f[1] = flag
    <3>1. g \in flags /\ g[1] = flag
      BY <2>1
    <3>2. QED
      BY <1>2, <2>1, <3>1
  <2>2. QED
    BY <1>2, <2>1
<1> HIDE DEF value, understood
<1>3. /\ Given("executable-name", args.name, Absent)
      /\ args.name = Absent => Given("executable-function", args.function, Absent)
      /\ Given("output", args.output, "default")
      /\ Given("target", args.target, "standalone")
  <2>1. \A f \in flags :
           \/ f[1] = "no-build"
           \/ f = <<"executable-name", args.name>>
           \/ f = <<"executable-function", args.function>> /\ args.name = Absent
           \/ f = <<"output", args.output>> \/ f = <<"target", args.target>>
    BY DEF ToArgs
  <2>2. /\ args.name # Absent => <<"executable-name", args.name>> \in flags
        /\ args.name = Absent /\ args.function # Absent =>
               <<"executable-function", args.function>> \in flags
        /\ args.output # "default" => <<"output", args.output>> \in flags
        /\ <<"target", args.target>> \in flags
    BY DEF ToArgs
  <2> HIDE DEF flags
  <2>3. Given("executable-name", args.name, Absent)
    BY <2>1, <2>2
  <2>4. args.name = Absent => Given("executable-function", args.function, Absent)
    BY <2>1, <2>2
  <2>5. Given("output", args.output, "default")
    BY <2>1, <2>2
  <2>6. Given("target", args.target, "standalone")
    BY <2>1, <2>2
  <2>7. QED
    BY <2>3, <2>4, <2>5, <2>6
<1> HIDE DEF flags, Given
<1>4. /\ understood.name = args.name /\ understood.output = args.output
      /\ understood.target = args.target
      /\ args.name = Absent => understood.function = args.function
  <2>1. understood.name = args.name
    BY <1>1, <1>2, <1>3
  <2>2. understood.output = args.output
    BY <1>1, <1>2, <1>3
  <2>3. understood.target = args.target
    BY <1>1, <1>2, <1>3
  <2>4. args.name = Absent => understood.function = args.function
    BY <1>1, <1>2, <1>3
  <2>5. QED
    BY <2>1, <2>2, <2>3, <2>4
<1> HIDE DEF understood
<1>5. FindTarget(understood) = FindTarget(args) /\ OutputOf(understood) = OutputOf(args)
  BY <1>4 DEF FindTarget, OutputOf
<1>6. QED
  BY <1>5 DEF understood, flags

LEMMA WrittenSame ==
  ASSUME NEW u, NEW output, NEW left, NEW content, NEW other,
         \A f \in FileNames : other[f] = content[f],
         Written(u, output, left, content)
  PROVE  Written(u, output, left, other)
BY DEF Written, PieWritten, StandardWritten, NoneOf, AllOf, FileNames, Files

(* A file that is being written, or has been.                              *)
LEMMA WrittenNext ==
  ASSUME NEW u \in User, NEW output, NEW left, NEW content, NEW other, left # <<>>,
         Written(u, output, left, content),
         \A f \in FileNames \ {Head(left)} : other[f] = content[f]
  PROVE  /\ Head(left) \in FileNames
         /\ other[Head(left)] = Partial => Written(u, output, left, other)
         /\ other[Head(left)] = u => Written(u, output, Tail(left), other)
         /\ Len(left) = 1 <=> Tail(left) = <<>>
<1> USE DEF NoneOf, AllOf, FileNames, Files
<1>1. CASE output = "pie"
  <2>1. left = <<"pie">>
    BY <1>1 DEF Written, PieWritten
  <2>2. Head(left) = "pie" /\ Tail(left) = <<>> /\ Len(left) = 1
    BY <2>1
  <2>3. QED
    BY <1>1, <2>1, <2>2 DEF Written, PieWritten
<1>2. CASE output # "pie"
  <2> DEFINE Follows(file, rest) ==
          Head(left) = file /\ Tail(left) = rest /\ (Len(left) = 1 <=> rest = <<>>)
  <2>1. CASE left = <<"trace", "memory", "public", "private">>
    <3>1. Follows("trace", <<"memory", "public", "private">>)
      BY <2>1
    <3>2. QED
      BY <1>2, <2>1, <3>1 DEF Written, StandardWritten
  <2>2. CASE left = <<"memory", "public", "private">>
    <3>1. Follows("memory", <<"public", "private">>)
      BY <2>2
    <3>2. QED
      BY <1>2, <2>2, <3>1 DEF Written, StandardWritten
  <2>3. CASE left = <<"public", "private">>
    <3>1. Follows("public", <<"private">>)
      BY <2>3
    <3>2. QED
      BY <1>2, <2>3, <3>1 DEF Written, StandardWritten
  <2>4. CASE left = <<"private">>
    <3>1. Follows("private", <<>>)
      BY <2>4
    <3>2. QED
      BY <1>2, <2>4, <3>1 DEF Written, StandardWritten
  <2>5. QED
    BY <1>2, <2>1, <2>2, <2>3, <2>4 DEF Written, StandardWritten
<1>3. QED
  BY <1>1, <1>2

LEMMA WrittenFirst ==
  ASSUME NEW u, NEW output, NEW content, NoneOf(content, FileNames)
  PROVE  Written(u, output, WriteOrder(output), content) /\ WriteOrder(output) # <<>>
BY DEF Written, PieWritten, StandardWritten, WriteOrder, NoneOf, AllOf, FileNames, Files

(* A private input that is there and not partial was written by a run that *)
(* has ended: all its files are those of the run.                          *)
LEMMA WholeRun ==
  ASSUME RunInv, NEW n \in 1 .. MaxId,
         executions[n].files["private"] \notin {Absent, Partial}
  PROVE  \E w \in User :
             /\ exec[w].stage = "ended" /\ exec[w].id = n
             /\ AllOf(executions[n].files, {"trace", "memory", "public", "private"}, w)
<1>1. PICK w \in User : exec[w].id = n
  BY DEF RunInv, ClaimsInv, NoneOf, FileNames, Files
<1>2. /\ exec[w].left = <<>> <=> exec[w].stage = "ended"
      /\ Written(w, OutputOf(exec[w].args), exec[w].left, executions[n].files)
  BY <1>1 DEF RunInv, ExecInv
<1>3. exec[w].left = <<>>
  BY <1>2 DEF Written, PieWritten, StandardWritten, NoneOf
<1>4. AllOf(executions[n].files, {"trace", "memory", "public", "private"}, w)
  BY <1>2, <1>3 DEF Written, PieWritten, StandardWritten, NoneOf
<1>5. QED
  BY <1>1, <1>2, <1>3, <1>4

LEMMA OneRunStays ==
  ASSUME \A w \in User : exec[w].stage = "ended" =>
             exec'[w].stage = "ended" /\ exec'[w].id = exec[w].id,
         NEW n, NEW inputs, OfOneRun(n, inputs)
  PROVE  OfOneRun(n, inputs)'
BY DEF OfOneRun

(* The invariant of the directories and of the `execute` processes, after  *)
(* a step that moves none of these processes and writes no file of a run.  *)
ExecsAlike ==
    /\ UNCHANGED <<task, exec>>
    /\ DOMAIN executions' = 1 .. MaxId
    /\ \A n \in 1 .. MaxId :
           /\ DOMAIN executions'[n] = {"there", "proofDir", "files"}
           /\ DOMAIN executions'[n].files = Files
           /\ executions'[n].there <=> executions[n].there
           /\ \A f \in FileNames : executions'[n].files[f] = executions[n].files[f]
    /\ DOMAIN proof' = User
    /\ \A u \in User : DOMAIN proof'[u] = {"stage", "id", "inputs"} /\ proof'[u].id = proof[u].id

LEMMA ExecsAlikeKeeps ==
  ASSUME RunInv, ExecsAlike
  PROVE  ClaimsInv' /\ \A u \in User : ExecInv(u)'
<1>1. \A u \in User : (Claim(u))' = Claim(u) /\ (ProvesOwn(u))' = ProvesOwn(u)
  BY DEF ExecsAlike, Claim, ProvesOwn
<1>2. \A n \in 1 .. MaxId :
        (NoneOf(executions[n].files, FileNames))' = NoneOf(executions[n].files, FileNames)
  BY DEF ExecsAlike, NoneOf
<1>3. ASSUME NEW u \in User, Claim(u) # 0 PROVE Claim(u) \in 1 .. MaxId
  BY <1>3, ProgramAssumption DEF RunInv, RunShapes, Claim
<1>4. ClaimsInv'
  <2>1. (\A u \in User : Claim(u) # 0 => executions[Claim(u)].there)'
    BY <1>1, <1>3 DEF RunInv, ClaimsInv, ExecsAlike
  <2>2. (\A u, v \in User : Claim(u) # 0 /\ Claim(u) = Claim(v) => u = v)'
    BY <1>1 DEF RunInv, ClaimsInv
  <2>3. (\A u \in User : exec[u].id \in {0, Claim(u)})'
    BY <1>1 DEF RunInv, ClaimsInv, ExecsAlike
  <2>4. (\A n \in 1 .. MaxId : (\A u \in User : exec[u].id # n) =>
            NoneOf(executions[n].files, FileNames))'
    BY <1>2 DEF RunInv, ClaimsInv, ExecsAlike
  <2>5. QED
    BY <2>1, <2>2, <2>3, <2>4 DEF ClaimsInv
<1>5. ASSUME NEW u \in User PROVE ExecInv(u)'
  <2>1. exec' = exec /\ task' = task /\ proof'[u].id = proof[u].id /\ ExecInv(u)
    BY DEF ExecsAlike, RunInv
  <2>2. exec[u].id # 0 => exec[u].id \in 1 .. MaxId
    BY ProgramAssumption DEF RunInv, RunShapes
  <2>3. exec[u].id # 0 => (Written(u, OutputOf(exec[u].args), exec[u].left,
                                  executions[exec[u].id].files))'
    <3> SUFFICES ASSUME exec[u].id # 0
                 PROVE  Written(u, OutputOf(exec[u].args), exec[u].left,
                                executions'[exec[u].id].files)
      BY <2>1
    <3>1. Written(u, OutputOf(exec[u].args), exec[u].left, executions[exec[u].id].files)
      BY <2>1 DEF ExecInv
    <3>2. QED
      BY <2>2, <3>1, WrittenSame DEF ExecsAlike
  <2>4. QED
    BY <2>1, <2>3, <1>1 DEF ExecInv
<1>6. QED
  BY <1>4, <1>5

(* A step of the `execute` process of u.                                   *)
ExecMoves(u) ==
    /\ UNCHANGED <<task, proof, verdict>>
    /\ DOMAIN exec' = User /\ \A v \in User \ {u} : exec'[v] = exec[v]
    /\ DOMAIN exec'[u] = {"stage", "args", "id", "target", "left"}
    /\ exec'[u].args = exec[u].args
    /\ exec[u].stage \notin {"none", "ended", "failed"} /\ exec'[u].stage # "none"
    /\ accidents \subseteq accidents'

(* What the other commands know is unaffected by it.                       *)
LEMMA ExecMovesKeeps ==
  ASSUME RunInv, NEW u \in User, ExecMoves(u),
         \A n \in 1 .. MaxId :
             /\ executions'[n].files["proof"] = executions[n].files["proof"]
             /\ \A f \in FileNames :
                    executions[n].files[f] # Absent => executions'[n].files[f] # Absent
  PROVE  ProvedInv' /\ \A v \in User : ProofInv(v)' /\ FailedInv(v)'
<1>1. \A w \in User : exec[w].stage = "ended" =>
          exec'[w].stage = "ended" /\ exec'[w].id = exec[w].id
  BY DEF ExecMoves
<1>2. ProvedInv'
  <2>1. ASSUME NEW n \in 1 .. MaxId, executions'[n].files["proof"] \notin {Absent, Partial}
        PROVE  (OfOneRun(n, executions[n].files["proof"]))'
    <3>1. OfOneRun(n, executions[n].files["proof"])
      BY <2>1 DEF RunInv, ProvedInv
    <3>2. QED
      BY <1>1, <2>1, <3>1 DEF OfOneRun
  <2>2. ASSUME NEW v \in User, verdict'[v].said = "verified"
        PROVE  (OfOneRun(task[v].id, verdict[v].inputs))'
    BY <1>1, <2>2, OneRunStays DEF RunInv, ProvedInv, ExecMoves
  <2>3. QED
    BY <2>1, <2>2 DEF ProvedInv
<1>3. ASSUME NEW v \in User PROVE ProofInv(v)' /\ FailedInv(v)'
  <2>1. /\ proof' = proof /\ task' = task /\ (ProvesOwn(v))' = ProvesOwn(v)
        /\ accidents \subseteq accidents' /\ ProofInv(v) /\ FailedInv(v)
    BY DEF ExecMoves, RunInv, ProvesOwn
  <2>2. /\ exec[v].stage = "none" => exec'[v].stage = "none"
        /\ exec[v].stage = "failed" => exec'[v].stage = "failed"
        /\ exec'[v].args = exec[v].args
    BY DEF ExecMoves
  <2>3. proof[v].stage \in {"reading", "proving", "saving", "proved"} =>
            (OfOneRun(proof[v].id, proof[v].inputs))'
    BY <1>1, <2>1, OneRunStays DEF ProofInv
  <2>4. proof[v].stage = "adapting" =>
           /\ executions'[proof[v].id].files["public"] # Absent
           /\ executions'[proof[v].id].files["private"] # Absent
    BY <2>1, ProgramAssumption
       DEF ProofInv, OwnStages, RunInv, RunShapes, FileNames, Files
  <2>5. ProofInv(v)'
    BY <1>1, <2>1, <2>2, <2>3, <2>4 DEF ProofInv
  <2>6. FailedInv(v)'
    BY <2>1, <2>2 DEF FailedInv, At
  <2>7. QED
    BY <2>5, <2>6
<1>4. QED
  BY <1>2, <1>3

(* Steps of it that neither enter a directory nor write.                   *)
LEMMA StageKeeps ==
  ASSUME RunInv, NEW u \in User, ExecMoves(u), UNCHANGED executions,
         exec'[u].id = exec[u].id, exec'[u].left = exec[u].left,
         exec'[u].stage # "writing", exec'[u].stage # "failed" => exec[u].id = 0,
         exec'[u].stage = "ended" => OutputOf(exec[u].args) = "none",
         exec'[u].stage \in {"directory", "ended"} =>
             exec'[u].target \in FindTarget(exec[u].args)
  PROVE  RunInv'
<1>1. ProvedInv' /\ \A v \in User : ProofInv(v)' /\ FailedInv(v)'
  BY ExecMovesKeeps
<1>2. \A v \in User : exec'[v].id = exec[v].id
  BY DEF ExecMoves
<1>3. RunShapes'
  <2>1. \A v \in User : DOMAIN exec'[v] = {"stage", "args", "id", "target", "left"}
    BY DEF ExecMoves, RunInv, RunShapes
  <2>2. QED
    BY <1>2, <2>1 DEF RunInv, RunShapes, ExecMoves
<1>4. \A v \in User : (Claim(v))' = Claim(v) /\ (ProvesOwn(v))' = ProvesOwn(v)
  BY <1>2 DEF ExecMoves, Claim, ProvesOwn
<1>5. ClaimsInv'
  BY <1>2, <1>4 DEF RunInv, ClaimsInv, NoneOf
<1>6. ASSUME NEW v \in User PROVE ExecInv(v)'
  <2>1. ExecInv(v) /\ UNCHANGED <<task, proof, executions>>
    BY DEF RunInv, ExecMoves
  <2>2. CASE v # u
    <3>1. exec'[v] = exec[v]
      BY <2>2 DEF ExecMoves
    <3>2. exec[v].id # 0 =>
              (Written(v, OutputOf(exec[v].args), exec[v].left,
                       executions[exec[v].id].files))'
      BY <2>1, <3>1 DEF ExecInv
    <3>3. QED
      BY <1>4, <2>1, <3>1, <3>2 DEF ExecInv
  <2>3. CASE v = u
    <3>1. /\ exec'[u].id = exec[u].id /\ exec'[u].left = exec[u].left
          /\ exec'[u].args = exec[u].args
          /\ exec[u].stage \notin {"none", "ended", "failed"}
      BY DEF ExecMoves
    <3>2. exec[u].id # 0 =>
              /\ exec'[u].left = <<>> <=> exec'[u].stage = "ended"
              /\ (Written(u, OutputOf(exec[u].args), exec[u].left,
                          executions[exec[u].id].files))'
      BY <2>1, <2>3, <3>1 DEF ExecInv
    <3>3. QED
      BY <1>4, <2>1, <2>3, <3>1, <3>2 DEF ExecInv
  <2>4. QED
    BY <2>2, <2>3
<1>7. QED
  BY <1>1, <1>3, <1>5, <1>6 DEF RunInv

LEMMA StartKeeps ==
  ASSUME RunInv, NEW u \in User, Start(u) \/ BuildProgram(u)
  PROVE  RunInv'
<1>1. PICK stage \in {"failed", "built", "building", "emitting"} :
          exec' = [exec EXCEPT ![u].stage = stage]
  BY DEF Start, BuildProgram, GiveUp, ExecGoto
<1>2. /\ exec[u].stage \in {"start", "building", "emitting"}
      /\ UNCHANGED <<task, proof, verdict, executions, accidents>>
  BY DEF Start, BuildProgram, At
<1>3. /\ DOMAIN exec = User
      /\ DOMAIN exec[u] = {"stage", "args", "id", "target", "left"}
      /\ exec[u].id = 0
  BY <1>2 DEF RunInv, RunShapes, ExecInv
<1>4. ExecMoves(u) /\ exec'[u].stage = stage
      /\ exec'[u].id = exec[u].id /\ exec'[u].left = exec[u].left
  BY <1>1, <1>2, <1>3 DEF ExecMoves
<1>5. QED
  BY <1>2, <1>3, <1>4, StageKeeps

LEMMA RunKeeps ==
  ASSUME RunInv, NEW u \in User, Run(u) PROVE RunInv'
<1>1. /\ exec[u].stage = "built"
      /\ UNCHANGED <<task, proof, verdict, executions, accidents>>
  BY DEF Run, At
<1>2. /\ DOMAIN exec = User
      /\ DOMAIN exec[u] = {"stage", "args", "id", "target", "left"}
      /\ exec[u].id = 0
  BY <1>1 DEF RunInv, RunShapes, ExecInv
<1>3. CASE exec' = [exec EXCEPT ![u].stage = "failed"]
  <2>1. ExecMoves(u) /\ exec'[u].stage = "failed"
        /\ exec'[u].id = exec[u].id /\ exec'[u].left = exec[u].left
    BY <1>1, <1>2, <1>3 DEF ExecMoves
  <2>2. QED
    BY <1>1, <1>2, <2>1, StageKeeps
<1>4. ASSUME NEW e \in FindTarget(exec[u].args), NEW stage,
             stage = IF OutputOf(exec[u].args) = "none" THEN "ended" ELSE "directory",
             exec' = [exec EXCEPT ![u].stage = stage, ![u].target = e]
      PROVE  RunInv'
  <2>1. /\ ExecMoves(u) /\ exec'[u].stage = stage /\ exec'[u].target = e
        /\ exec'[u].id = exec[u].id /\ exec'[u].left = exec[u].left
    BY <1>1, <1>2, <1>4 DEF ExecMoves
  <2>2. QED
    BY <1>1, <1>2, <1>4, <2>1, StageKeeps
<1>5. QED
  BY <1>3, <1>4 DEF Run, GiveUp, ExecGoto

LEMMA EnterAt ==
  ASSUME RunInv, NEW u \in User, NEW n \in 1 .. MaxId, ExecMoves(u),
         exec[u].stage = "directory", exec'[u].stage = "writing", exec'[u].id = n,
         exec'[u].left = WriteOrder(OutputOf(exec[u].args)),
         exec'[u].target = exec[u].target,
         IF ProvesOwn(u) THEN n = proof[u].id ELSE ~executions[n].there,
         DOMAIN executions' = 1 .. MaxId,
         \A m \in 1 .. MaxId :
             /\ DOMAIN executions'[m] = {"there", "proofDir", "files"}
             /\ executions'[m].files = executions[m].files
             /\ executions'[m].there <=> (m = n \/ executions[m].there)
  PROVE  RunInv'
<1>1. /\ UNCHANGED <<task, proof, verdict>> /\ n # 0
      /\ \A v \in User : (ProvesOwn(v))' = ProvesOwn(v)
      /\ \A v \in User \ {u} : exec'[v] = exec[v] /\ (Claim(v))' = Claim(v)
      /\ (Claim(u))' = n /\ exec[u].id = 0
      /\ \A v \in User : exec[v].id \in 0 .. MaxId /\ Claim(v) \in 0 .. MaxId
  BY ProgramAssumption
     DEF ExecMoves, ProvesOwn, Claim, RunInv, RunShapes, ExecInv
<1>2. ASSUME NEW v \in User, v # u PROVE Claim(v) # n /\ exec[v].id # n
  BY <1>1, <1>2 DEF RunInv, ClaimsInv, Claim
<1>3. NoneOf(executions[n].files, FileNames)
  BY <1>1, <1>2 DEF RunInv, ClaimsInv
<1>4. ProvedInv' /\ \A v \in User : ProofInv(v)' /\ FailedInv(v)'
  BY ExecMovesKeeps
<1>5. RunShapes'
  <2>1. \A v \in User : DOMAIN exec'[v] = {"stage", "args", "id", "target", "left"}
                         /\ exec'[v].id \in 0 .. MaxId
    BY SMTT(60), <1>1, ProgramAssumption DEF ExecMoves, RunInv, RunShapes
  <2>2. QED
    BY ZenonT(60), <1>1, <2>1 DEF RunInv, RunShapes, ExecMoves
<1>6. ClaimsInv'
  <2>1. ASSUME NEW v \in User, (Claim(v))' # 0
        PROVE  (executions[Claim(v)].there)'
    <3>1. CASE v = u
      BY <1>1, <3>1
    <3>2. CASE v # u
      <4>1. Claim(v) \in 1 .. MaxId /\ executions[Claim(v)].there
        BY <1>1, <2>1, <3>2, ProgramAssumption DEF RunInv, ClaimsInv
      <4>2. QED
        BY <1>1, <3>2, <4>1
    <3>3. QED
      BY <3>1, <3>2
  <2>2. (\A v, w \in User : Claim(v) # 0 /\ Claim(v) = Claim(w) => v = w)'
    BY <1>1, <1>2 DEF RunInv, ClaimsInv
  <2>3. (\A v \in User : exec[v].id \in {0, Claim(v)})'
    BY <1>1 DEF RunInv, ClaimsInv
  <2>4. (\A m \in 1 .. MaxId : (\A v \in User : exec[v].id # m) =>
            NoneOf(executions[m].files, FileNames))'
    BY <1>1 DEF RunInv, ClaimsInv, NoneOf
  <2>5. QED
    BY <2>1, <2>2, <2>3, <2>4 DEF ClaimsInv
<1>7. ASSUME NEW v \in User PROVE ExecInv(v)'
  <2>1. ExecInv(v)
    BY DEF RunInv
  <2>2. CASE v # u
    <3>1. exec'[v] = exec[v]
      BY <1>1, <2>2
    <3>2. exec[v].id # 0 =>
              (Written(v, OutputOf(exec[v].args), exec[v].left,
                       executions[exec[v].id].files))'
      <4>1. exec[v].id # 0 =>
                executions'[exec[v].id].files = executions[exec[v].id].files
        BY <1>1, ProgramAssumption
      <4>2. QED
        BY <2>1, <3>1, <4>1 DEF ExecInv
    <3>3. QED
      BY <1>1, <2>1, <3>1, <3>2 DEF ExecInv
  <2>3. CASE v = u
    <3>1. exec'[u].args = exec[u].args
      BY DEF ExecMoves
    <3>2. /\ WriteOrder(OutputOf(exec[u].args)) # <<>>
          /\ Written(u, OutputOf(exec[u].args), WriteOrder(OutputOf(exec[u].args)),
                     executions[n].files)
      BY <1>3, WrittenFirst
    <3>3. (Written(u, OutputOf(exec[u].args), exec[u].left,
                   executions[exec[u].id].files))'
      BY <3>1, <3>2
    <3>4. QED
      BY <1>1, <2>1, <2>3, <3>1, <3>2, <3>3 DEF ExecInv
  <2>4. QED
    BY <2>2, <2>3
<1>8. QED
  BY <1>4, <1>5, <1>6, <1>7 DEF RunInv

LEMMA EnterKeeps ==
  ASSUME RunInv, NEW u \in User, EnterDirectory(u) PROVE RunInv'
<1>1. /\ exec[u].stage = "directory" /\ UNCHANGED <<task, proof, verdict, accidents>>
  BY DEF EnterDirectory, At
<1>2. /\ DOMAIN exec = User
      /\ DOMAIN exec[u] = {"stage", "args", "id", "target", "left"}
      /\ exec[u].id = 0 /\ DOMAIN executions = 1 .. MaxId
      /\ \A m \in 1 .. MaxId :
             DOMAIN executions[m] = {"there", "proofDir", "files"}
  BY <1>1 DEF RunInv, RunShapes, ExecInv
<1>3. IF ProvesOwn(u) THEN GivenId(u) = proof[u].id /\ proof[u].id \in 1 .. MaxId
      ELSE GivenId(u) = 0
  BY <1>1, ProgramAssumption DEF RunInv, RunShapes, ExecInv, GivenId, ProvesOwn
<1>4. CASE GiveUp(u) /\ UNCHANGED executions
  <2>1. ExecMoves(u) /\ exec'[u].stage = "failed"
        /\ exec'[u].id = exec[u].id /\ exec'[u].left = exec[u].left
    BY <1>1, <1>2, <1>4 DEF ExecMoves, GiveUp, ExecGoto
  <2>2. QED
    BY <1>1, <1>2, <1>4, <2>1, StageKeeps
<1>5. ASSUME NEW n \in 1 .. MaxId,
             IF ProvesOwn(u) THEN n = proof[u].id ELSE ~executions[n].there,
             \/ executions' = executions /\ executions[n].there
             \/ executions' = [executions EXCEPT ![n].there = TRUE],
             exec' = [exec EXCEPT ![u].stage = "writing", ![u].id = n,
                                  ![u].left = WriteOrder(OutputOf(exec[u].args))]
      PROVE  RunInv'
  <2>1. /\ exec'[u].stage = "writing" /\ exec'[u].id = n
        /\ exec'[u].left = WriteOrder(OutputOf(exec[u].args))
        /\ exec'[u].target = exec[u].target /\ ExecMoves(u)
    BY <1>1, <1>2, <1>5 DEF ExecMoves
  <2>2. /\ DOMAIN executions' = 1 .. MaxId
        /\ \A m \in 1 .. MaxId :
             /\ DOMAIN executions'[m] = {"there", "proofDir", "files"}
             /\ executions'[m].files = executions[m].files
             /\ executions'[m].there <=> (m = n \/ executions[m].there)
    BY <1>2, <1>5
  <2>3. QED
    BY <1>1, <1>5, <2>1, <2>2, EnterAt
<1>6. QED
  <2>1. \A n \in FirstFree : n \in 1 .. MaxId /\ ~executions[n].there
    BY DEF FirstFree, IsTaken
  <2>2. CASE /\ GivenId(u) # 0 /\ executions[GivenId(u)].there
             /\ exec' = [exec EXCEPT ![u].stage = "writing", ![u].id = GivenId(u),
                                     ![u].left = WriteOrder(OutputOf(exec[u].args))]
             /\ UNCHANGED executions
    BY <1>3, <1>5, <2>2
  <2>3. ASSUME GivenId(u) = 0, NEW n \in FirstFree,
               executions' = [executions EXCEPT ![n].there = TRUE],
               exec' = [exec EXCEPT ![u].stage = "writing", ![u].id = n,
                                    ![u].left = WriteOrder(OutputOf(exec[u].args))]
        PROVE  RunInv'
    <3>1. ~ProvesOwn(u)
      BY <1>3, <2>3, ProgramAssumption
    <3>2. QED
      BY <1>5, <2>1, <2>3, <3>1
  <2>4. QED
    BY <1>4, <2>2, <2>3 DEF EnterDirectory

LEMMA SaveKeeps ==
  ASSUME RunInv, NEW u \in User, SaveFile(u) PROVE RunInv'
<1> DEFINE n == exec[u].id
           file == Head(exec[u].left)
<1>1. /\ exec[u].stage = "writing"
      /\ UNCHANGED <<task, proof, verdict, accidents>>
  BY DEF SaveFile, At
<1>2. /\ DOMAIN exec = User
      /\ DOMAIN exec[u] = {"stage", "args", "id", "target", "left"}
      /\ DOMAIN executions = 1 .. MaxId
      /\ \A m \in 1 .. MaxId : /\ DOMAIN executions[m] = {"there", "proofDir", "files"}
                              /\ DOMAIN executions[m].files = Files
  BY DEF RunInv, RunShapes
<1>3. n \in 1 .. MaxId /\ n = Claim(u)
  BY <1>1, ProgramAssumption DEF RunInv, RunShapes, ExecInv, ClaimsInv
<1>4. /\ exec[u].left # <<>>
      /\ Written(u, OutputOf(exec[u].args), exec[u].left, executions[n].files)
  BY <1>1, <1>3, ProgramAssumption DEF RunInv, ExecInv
<1>5. file \in FileNames
  BY <1>4, WrittenNext
<1>6. PICK content \in {Partial, u} :
          executions' = [executions EXCEPT ![n].files[file] = content]
  BY DEF SaveFile, WriteFile
<1> HIDE DEF file, n
<1>7. /\ DOMAIN executions' = 1 .. MaxId
      /\ \A m \in 1 .. MaxId :
             /\ DOMAIN executions'[m] = {"there", "proofDir", "files"}
             /\ DOMAIN executions'[m].files = Files
             /\ executions'[m].there = executions[m].there
             /\ m # n => executions'[m] = executions[m]
      /\ executions'[n].files[file] = content
      /\ \A f \in Files \ {file} : executions'[n].files[f] = executions[n].files[f]
  BY <1>2, <1>3, <1>5, <1>6 DEF FileNames
<1>8. \/ content = Partial /\ exec' = exec
      \/ /\ content = u
         /\ exec' = [exec EXCEPT ![u].left = Tail(@),
                         ![u].stage = IF Len(exec[u].left) = 1 THEN "ended" ELSE @]
  <2>1. CASE WriteFile(n, file, Partial) /\ UNCHANGED exec
    <3>1. executions'[n].files[file] = Partial
      BY <1>2, <1>3, <1>5, <2>1 DEF WriteFile, FileNames
    <3>2. QED
      BY <1>7, <2>1, <3>1
  <2>2. CASE /\ WriteFile(n, file, u)
             /\ exec' = [exec EXCEPT ![u].left = Tail(@),
                         ![u].stage = IF Len(exec[u].left) = 1 THEN "ended" ELSE @]
    <3>1. executions'[n].files[file] = u
      BY <1>2, <1>3, <1>5, <2>2 DEF WriteFile, FileNames
    <3>2. QED
      BY <1>7, <2>2, <3>1
  <2>3. QED
    BY <2>1, <2>2 DEF SaveFile, file, n
<1>9. /\ DOMAIN exec' = User /\ \A v \in User \ {u} : exec'[v] = exec[v]
      /\ DOMAIN exec'[u] = {"stage", "args", "id", "target", "left"}
      /\ exec'[u].args = exec[u].args /\ exec'[u].id = n
      /\ exec'[u].target = exec[u].target
      /\ exec'[u].stage \in {"writing", "ended"}
  BY <1>1, <1>2, <1>8 DEF n
<1>10. /\ exec'[u].left = <<>> <=> exec'[u].stage = "ended"
       /\ Written(u, OutputOf(exec[u].args), exec'[u].left, executions'[n].files)
  <2>1. \A f \in FileNames \ {Head(exec[u].left)} :
            executions'[n].files[f] = executions[n].files[f]
    BY <1>7 DEF FileNames, file
  <2>2. /\ executions'[n].files[Head(exec[u].left)] = content
        /\ content = Partial => Written(u, OutputOf(exec[u].args), exec[u].left,
                                       executions'[n].files)
        /\ content = u => Written(u, OutputOf(exec[u].args), Tail(exec[u].left),
                                 executions'[n].files)
        /\ Len(exec[u].left) = 1 <=> Tail(exec[u].left) = <<>>
    <3> DEFINE left == exec[u].left
               other == executions'[n].files
               output == OutputOf(exec[u].args)
    <3> HIDE DEF left, other, output
    <3>1. /\ left # <<>> /\ Written(u, output, left, executions[n].files)
          /\ \A f \in FileNames \ {Head(left)} : other[f] = executions[n].files[f]
      BY <1>4, <2>1 DEF left, other, output
    <3>2. /\ other[Head(left)] = Partial => Written(u, output, left, other)
          /\ other[Head(left)] = u => Written(u, output, Tail(left), other)
          /\ Len(left) = 1 <=> Tail(left) = <<>>
      BY <3>1, WrittenNext
    <3>3. other[Head(left)] = content
      BY <1>7 DEF file, left, other
    <3>4. QED
      BY <3>2, <3>3 DEF left, other, output
  <2>3. CASE exec' = exec /\ content = Partial
    BY <1>1, <1>4, <2>2, <2>3
  <2>4. CASE /\ content = u
             /\ exec' = [exec EXCEPT ![u].left = Tail(@),
                         ![u].stage = IF Len(exec[u].left) = 1 THEN "ended" ELSE @]
    <3>1. /\ exec'[u].left = Tail(exec[u].left)
          /\ exec'[u].stage = IF Len(exec[u].left) = 1 THEN "ended" ELSE "writing"
      BY <1>1, <1>2, <2>4
    <3>2. Written(u, OutputOf(exec[u].args), exec'[u].left, executions'[n].files)
      BY <2>2, <2>4, <3>1
    <3>3. exec'[u].left = <<>> <=> exec'[u].stage = "ended"
      BY <2>2, <3>1
    <3>4. QED
      BY <3>2, <3>3
  <2>5. QED
    BY <1>8, <2>3, <2>4
<1>11. ExecMoves(u)
  BY <1>1, <1>9 DEF ExecMoves
<1>12. ProvedInv' /\ \A v \in User : ProofInv(v)' /\ FailedInv(v)'
  <2>1. content # Absent
    BY ProgramAssumption
  <2>2. \A m \in 1 .. MaxId :
             /\ executions'[m].files["proof"] = executions[m].files["proof"]
             /\ \A f \in FileNames :
                    executions[m].files[f] # Absent => executions'[m].files[f] # Absent
    BY <1>5, <1>7, <2>1 DEF FileNames, Files
  <2>3. QED
    BY <1>11, <2>2, ExecMovesKeeps
<1>13. \A v \in User :
           (Claim(v))' = Claim(v) /\ (ProvesOwn(v))' = ProvesOwn(v)
           /\ exec'[v].id = exec[v].id
  BY <1>1, <1>9 DEF Claim, ProvesOwn, n
<1>14. RunShapes'
  <2>1. \A v \in User : DOMAIN exec'[v] = {"stage", "args", "id", "target", "left"}
    BY <1>9 DEF RunInv, RunShapes
  <2>2. QED
    BY <1>1, <1>7, <1>9, <1>13, <2>1 DEF RunInv, RunShapes
<1>15. ClaimsInv'
  <2>1. (\A v \in User : Claim(v) # 0 => executions[Claim(v)].there)'
    <3>1. \A v \in User : Claim(v) \in 0 .. MaxId
      BY DEF RunInv, RunShapes, Claim
    <3>2. QED
      BY <1>7, <1>13, <3>1, ProgramAssumption DEF RunInv, ClaimsInv
  <2>2. (\A v, w \in User : Claim(v) # 0 /\ Claim(v) = Claim(w) => v = w)'
    BY <1>13 DEF RunInv, ClaimsInv
  <2>3. (\A v \in User : exec[v].id \in {0, Claim(v)})'
    BY <1>13 DEF RunInv, ClaimsInv
  <2>4. (\A m \in 1 .. MaxId : (\A v \in User : exec[v].id # m) =>
            NoneOf(executions[m].files, FileNames))'
    BY <1>7, <1>13 DEF RunInv, ClaimsInv, NoneOf, n
  <2>5. QED
    BY <2>1, <2>2, <2>3, <2>4 DEF ClaimsInv
<1>16. ASSUME NEW v \in User PROVE ExecInv(v)'
  <2>1. ExecInv(v)
    BY DEF RunInv
  <2>2. CASE v # u
    <3>1. exec'[v] = exec[v]
      BY <1>9, <2>2
    <3>2. exec[v].id # 0 =>
              (Written(v, OutputOf(exec[v].args), exec[v].left,
                       executions[exec[v].id].files))'
      <4>1. exec[v].id # 0 =>
                executions'[exec[v].id].files = executions[exec[v].id].files
        BY <1>3, <1>7, <2>2, ProgramAssumption
           DEF RunInv, RunShapes, ClaimsInv, Claim
      <4>2. QED
        BY <2>1, <3>1, <4>1 DEF ExecInv
    <3>3. QED
      BY <1>1, <1>13, <2>1, <3>1, <3>2 DEF ExecInv
  <2>3. CASE v = u
    <3>1. (Written(u, OutputOf(exec[u].args), exec[u].left,
                   executions[exec[u].id].files))'
      BY <1>9, <1>10
    <3>2. /\ exec'[u].id # 0 /\ exec'[u].args = exec[u].args
          /\ exec'[u].target = exec[u].target /\ exec'[u].stage \in {"writing", "ended"}
          /\ exec'[u].left = <<>> <=> exec'[u].stage = "ended"
      BY <1>3, <1>9, <1>10, ProgramAssumption
    <3>3. /\ exec'[u].target \in FindTarget(exec[u].args)
          /\ FindTarget(exec[u].args) = FindTarget(task[u].execute)
          /\ OutputOf(exec[u].args) = OutputOf(task[u].execute)
          /\ task[u].command # "execute" => ProvesOwn(u) /\ proof[u].id # 0
      BY <1>1, <2>1, <2>3, <3>2 DEF ExecInv
    <3>4. QED
      BY <1>1, <1>13, <2>3, <3>1, <3>2, <3>3 DEF ExecInv
  <2>4. QED
    BY <2>2, <2>3
<1>17. QED
  BY <1>12, <1>14, <1>15, <1>16 DEF RunInv

LEMMA ProvedAlike ==
  ASSUME RunInv, task' = task, executions' = executions, exec' = exec,
         verdict' = verdict
  PROVE  ProvedInv' /\ DOMAIN verdict' = User
<1>1. (\A n \in 1 .. MaxId :
           executions[n].files["proof"] \notin {Absent, Partial} =>
               OfOneRun(n, executions[n].files["proof"]))'
  BY DEF RunInv, ProvedInv, OfOneRun
<1>2. (\A u \in User : verdict[u].said = "verified" =>
           OfOneRun(task[u].id, verdict[u].inputs))'
  BY DEF RunInv, ProvedInv, OfOneRun
<1>3. QED
  BY <1>1, <1>2 DEF ProvedInv, RunInv, RunShapes

(* A step of the `prove` process of u, once it has its identifier.         *)
LEMMA ProofMovesKeeps ==
  ASSUME RunInv, NEW u \in User, ExecsAlike,
         \A v \in User \ {u} : proof'[v] = proof[v],
         accidents \subseteq accidents', DOMAIN verdict' = User,
         ProvedInv', ProofInv(u)', FailedInv(u)'
  PROVE  RunInv'
<1>1. ClaimsInv' /\ \A v \in User : ExecInv(v)'
  BY ExecsAlikeKeeps
<1>2. RunShapes'
  BY DEF RunInv, RunShapes, ExecsAlike
<1>3. ASSUME NEW v \in User, v # u PROVE ProofInv(v)' /\ FailedInv(v)'
  <2>1. /\ ProofInv(v) /\ FailedInv(v) /\ UNCHANGED <<task, exec>>
        /\ proof'[v] = proof[v] /\ (ProvesOwn(v))' = ProvesOwn(v)
    BY <1>3 DEF RunInv, ExecsAlike, ProvesOwn
  <2>2. proof[v].stage = "adapting" =>
           /\ executions'[proof[v].id].files["public"] # Absent
           /\ executions'[proof[v].id].files["private"] # Absent
    <3>1. proof[v].stage = "adapting" => proof[v].id \in 1 .. MaxId
      BY <2>1, ProgramAssumption DEF ProofInv, OwnStages, RunInv, RunShapes
    <3>2. QED
      BY <2>1, <3>1 DEF ProofInv, ExecsAlike, FileNames, Files
  <2>3. ProofInv(v)'
    BY <2>1, <2>2 DEF ProofInv, OfOneRun
  <2>4. FailedInv(v)'
    BY <2>1 DEF FailedInv, At
  <2>5. QED
    BY <2>3, <2>4
<1>4. QED
  BY <1>1, <1>2, <1>3 DEF RunInv

LEMMA ExecutedKeeps ==
  ASSUME RunInv, NEW u \in User,
         \/ Executed(u)
         \/ /\ proof[u].stage \notin {"none", "proved", "failed"}
            /\ ProofGoto(u, "failed") /\ accidents' = accidents \cup {u}
            /\ UNCHANGED <<task, executions, exec, verdict>>
  PROVE  RunInv'
<1>1. PICK stage \in {"resolving", "failed"} : proof' = [proof EXCEPT ![u].stage = stage]
  BY DEF Executed, ProofGoto
<1>2. /\ UNCHANGED <<task, executions, exec, verdict>>
      /\ accidents \subseteq accidents'
      /\ proof[u].stage # "none"
  BY DEF Executed, ProvingAt
<1>3. /\ DOMAIN proof = User /\ DOMAIN proof[u] = {"stage", "id", "inputs"}
      /\ DOMAIN executions = 1 .. MaxId
  BY DEF RunInv, RunShapes
<1>4. /\ DOMAIN proof' = User /\ DOMAIN proof'[u] = {"stage", "id", "inputs"}
      /\ proof'[u].stage = stage /\ proof'[u].id = proof[u].id
      /\ \A v \in User \ {u} : proof'[v] = proof[v]
  BY <1>1, <1>3
<1>5. ExecsAlike
  BY <1>2, <1>3, <1>4 DEF ExecsAlike, RunInv, RunShapes
<1>6. ProvedInv' /\ DOMAIN verdict' = User
  BY <1>2, ProvedAlike
<1>7. ProofInv(u) /\ FailedInv(u) /\ ExecInv(u) /\ (ProvesOwn(u))' = ProvesOwn(u)
  BY <1>2 DEF RunInv, ProvesOwn
<1>8. stage = "resolving" => /\ proof[u].stage = "executing"
                             /\ exec[u].stage = "ended"
  BY <1>1, <1>3 DEF Executed, ProofGoto, At, ProvingAt
<1>9. ProofInv(u)'
  BY <1>2, <1>4, <1>7, <1>8 DEF ProofInv, OwnStages
<1>10. FailedInv(u)'
  <2>1. CASE Executed(u)
    <3>1. stage = "failed" => exec[u].stage = "failed"
      BY <1>1, <1>3, <2>1 DEF Executed, ProofGoto, At
    <3>2. exec[u].stage = "failed" => FindTarget(exec[u].args) = FindTarget(task[u].execute)
      BY <1>7 DEF ExecInv
    <3>3. QED
      BY <1>2, <1>4, <3>1, <3>2 DEF FailedInv, At, FindTarget
  <2>2. CASE accidents' = accidents \cup {u}
    BY <2>2 DEF FailedInv
  <2>3. QED
    BY <2>1, <2>2
<1>11. QED
  BY <1>2, <1>4, <1>5, <1>6, <1>9, <1>10, ProofMovesKeeps

(* A proof that was to be of the run of its own process has that run's     *)
(* files to read.                                                          *)
LEMMA OwnRun ==
  ASSUME RunInv, NEW u \in User, ProvesOwn(u), proof[u].stage \in OwnStages,
         OutputOf(task[u].execute) = "standard"
  PROVE  /\ executions[proof[u].id].there
         /\ executions[proof[u].id].files["pie"] = Absent
         /\ AllOf(executions[proof[u].id].files,
                  {"trace", "memory", "public", "private"}, u)
<1>1. ExecInv(u) /\ ProofInv(u)
  BY DEF RunInv
<1>2. /\ exec[u].stage = "ended" /\ proof[u].id # 0
      /\ OutputOf(exec[u].args) = "standard"
  BY <1>1 DEF ProofInv, ExecInv
<1>3. exec[u].id = proof[u].id /\ exec[u].left = <<>>
  BY <1>1, <1>2 DEF ExecInv, RunInv, ClaimsInv, Claim
<1>4. Written(u, "standard", <<>>, executions[proof[u].id].files)
  BY <1>1, <1>2, <1>3 DEF ExecInv
<1>5. executions[proof[u].id].there
  BY <1>2 DEF RunInv, ClaimsInv, Claim
<1>6. QED
  BY <1>4, <1>5 DEF Written, StandardWritten

LEMMA ResolveKeeps ==
  ASSUME RunInv, NEW u \in User, ResolvePaths(u) PROVE RunInv'
<1> DEFINE n == proof[u].id
           x == executions[n]
           found == /\ x.there /\ x.files["pie"] = Absent
                    /\ x.files["public"] # Absent /\ x.files["private"] # Absent
<1>1. /\ proof[u].stage = "resolving" /\ UNCHANGED <<task, exec, verdict, accidents>>
      /\ IF found
         THEN /\ executions' = [executions EXCEPT ![n].proofDir = TRUE]
              /\ proof' = [proof EXCEPT ![u].stage = "adapting"]
         ELSE /\ proof' = [proof EXCEPT ![u].stage = "failed"]
              /\ UNCHANGED executions
  BY DEF ResolvePaths, ProvingAt, ProofGoto
<1>2. ProofInv(u) /\ FailedInv(u) /\ (ProvesOwn(u))' = ProvesOwn(u)
  BY <1>1 DEF RunInv, ProvesOwn
<1>3. n \in 1 .. MaxId
  BY <1>1, <1>2, ProgramAssumption DEF ProofInv, OwnStages, RunInv, RunShapes
<1>4. /\ DOMAIN proof = User /\ DOMAIN proof[u] = {"stage", "id", "inputs"}
      /\ DOMAIN executions = 1 .. MaxId
      /\ \A m \in 1 .. MaxId :
             /\ DOMAIN executions[m] = {"there", "proofDir", "files"}
             /\ DOMAIN executions[m].files = Files
  BY DEF RunInv, RunShapes
<1>5. /\ DOMAIN proof' = User /\ DOMAIN proof'[u] = {"stage", "id", "inputs"}
      /\ proof'[u].stage = IF found THEN "adapting" ELSE "failed"
      /\ proof'[u].id = n
      /\ \A v \in User \ {u} : proof'[v] = proof[v]
  BY <1>1, <1>4
<1>6. /\ DOMAIN executions' = 1 .. MaxId
      /\ \A m \in 1 .. MaxId :
             /\ DOMAIN executions'[m] = {"there", "proofDir", "files"}
             /\ executions'[m].files = executions[m].files
             /\ executions'[m].there = executions[m].there
  <2>1. CASE UNCHANGED executions
    BY <1>4, <2>1
  <2>2. CASE executions' = [executions EXCEPT ![n].proofDir = TRUE]
    BY <1>3, <1>4, <2>2
  <2>3. QED
    BY <1>1, <2>1, <2>2
<1>7. ExecsAlike
  <2>1. \A v \in User : DOMAIN proof'[v] = {"stage", "id", "inputs"}
                         /\ proof'[v].id = proof[v].id
    BY <1>5 DEF RunInv, RunShapes
  <2>2. QED
    BY <1>1, <1>4, <1>5, <1>6, <2>1 DEF ExecsAlike
<1>8. ProvedInv' /\ DOMAIN verdict' = User
  <2>1. /\ \A m \in 1 .. MaxId :
             executions'[m].files["proof"] = executions[m].files["proof"]
        /\ verdict' = verdict /\ task' = task
    BY <1>1, <1>6
  <2>2. (\A m \in 1 .. MaxId :
           executions[m].files["proof"] \notin {Absent, Partial} =>
               OfOneRun(m, executions[m].files["proof"]))'
    BY <1>1, <2>1 DEF RunInv, ProvedInv, OfOneRun
  <2>3. (\A v \in User : verdict[v].said = "verified" =>
           OfOneRun(task[v].id, verdict[v].inputs))'
    BY <1>1, <2>1 DEF RunInv, ProvedInv, OfOneRun
  <2>4. QED
    BY <2>1, <2>2, <2>3 DEF RunInv, RunShapes, ProvedInv
<1>9. ProofInv(u)'
  BY <1>1, <1>2, <1>3, <1>5, <1>6 DEF ProofInv, OwnStages
<1>10. FailedInv(u)'
  <2>1. ASSUME ProvesOwn(u), OutputOf(task[u].execute) = "standard" PROVE found
    BY <1>1, <2>1, OwnRun, ProgramAssumption DEF OwnStages, AllOf
  <2> HIDE DEF found
  <2>2. QED
    BY <1>1, <1>2, <1>5, <2>1 DEF FailedInv, OutputOf
<1>11. QED
  BY <1>1, <1>5, <1>7, <1>8, <1>9, <1>10, ProofMovesKeeps

(* Steps that read what a run has left, or write the proof of it.          *)
LEMMA AdaptKeeps ==
  ASSUME RunInv, NEW u \in User, AdaptInputs(u) \/ AdaptTrace(u) PROVE RunInv'
<1> DEFINE n == proof[u].id
           content == executions[n].files
           p == proof'[u]
<1>1. /\ proof[u].stage \in {"adapting", "reading"}
      /\ UNCHANGED <<task, executions, exec, verdict, accidents>>
  BY DEF AdaptInputs, AdaptTrace, ProvingAt
<1>2. ProofInv(u) /\ FailedInv(u) /\ (ProvesOwn(u))' = ProvesOwn(u)
  BY <1>1 DEF RunInv, ProvesOwn
<1>3. n \in 1 .. MaxId
  BY <1>1, <1>2, ProgramAssumption DEF ProofInv, OwnStages, RunInv, RunShapes
<1>4. /\ DOMAIN proof = User /\ DOMAIN proof[u] = {"stage", "id", "inputs"}
      /\ DOMAIN executions = 1 .. MaxId
  BY DEF RunInv, RunShapes
<1>5. /\ DOMAIN proof' = User /\ DOMAIN p = {"stage", "id", "inputs"} /\ p.id = n
      /\ \A v \in User \ {u} : proof'[v] = proof[v]
      /\ \/ /\ AdaptInputs(u) /\ p.stage = "failed" /\ proof[u].stage = "adapting"
            /\ Partial \in {content["public"], content["private"]}
         \/ /\ AdaptInputs(u) /\ p.stage = "reading" /\ proof[u].stage = "adapting"
            /\ Partial \notin {content["public"], content["private"]}
            /\ p.inputs = {content["public"], content["private"]}
         \/ /\ AdaptTrace(u) /\ p.stage = "failed" /\ proof[u].stage = "reading"
            /\ Absent \in {content["trace"], content["memory"]}
         \/ /\ AdaptTrace(u) /\ p.stage = "proving" /\ proof[u].stage = "reading"
            /\ Absent \notin {content["trace"], content["memory"]}
            /\ p.inputs = proof[u].inputs \cup {content["trace"], content["memory"]}
  <2>1. CASE AdaptInputs(u)
    <3>1. proof[u].stage = "adapting"
      BY <2>1 DEF AdaptInputs, ProvingAt
    <3>2. CASE /\ Partial \in {content["public"], content["private"]}
               /\ proof' = [proof EXCEPT ![u].stage = "failed"]
      BY <1>4, <2>1, <3>1, <3>2
    <3>3. CASE /\ Partial \notin {content["public"], content["private"]}
               /\ proof' = [proof EXCEPT
                    ![u].stage = "reading",
                    ![u].inputs = {content["public"], content["private"]}]
      BY SMTT(60), <1>4, <2>1, <3>1, <3>3
    <3>4. QED
      BY ZenonT(60), <2>1, <3>2, <3>3 DEF AdaptInputs, ProofGoto
  <2>2. CASE AdaptTrace(u)
    <3>1. proof[u].stage = "reading"
      BY <2>2 DEF AdaptTrace, ProvingAt
    <3>2. CASE /\ Absent \in {content["trace"], content["memory"]}
               /\ proof' = [proof EXCEPT ![u].stage = "failed"]
      BY <1>4, <2>2, <3>1, <3>2
    <3>3. CASE /\ Absent \notin {content["trace"], content["memory"]}
               /\ proof' = [proof EXCEPT
                    ![u].stage = "proving",
                    ![u].inputs = @ \cup {content["trace"], content["memory"]}]
      BY <1>4, <2>2, <3>1, <3>3
    <3>4. QED
      BY ZenonT(60), <2>2, <3>2, <3>3 DEF AdaptTrace, ProofGoto
  <2>3. QED
    BY SMTT(60), <1>1, <2>1, <2>2
<1>6. ExecsAlike
  BY <1>1, <1>4, <1>5 DEF ExecsAlike, RunInv, RunShapes
<1>7. ProvedInv' /\ DOMAIN verdict' = User
  BY <1>1, ProvedAlike
<1>8. p.stage = "reading" => OfOneRun(n, p.inputs)
  <2> SUFFICES ASSUME p.stage = "reading" PROVE OfOneRun(n, p.inputs)
    OBVIOUS
  <2>1. /\ content["private"] \notin {Absent, Partial}
        /\ p.inputs = {content["public"], content["private"]}
    BY <1>2, <1>5 DEF ProofInv
  <2>2. PICK w \in User :
             /\ exec[w].stage = "ended" /\ exec[w].id = n
             /\ AllOf(content, {"trace", "memory", "public", "private"}, w)
    BY <1>3, <2>1, WholeRun
  <2>3. p.inputs = {w}
    BY <2>1, <2>2 DEF AllOf
  <2>4. QED
    BY <2>2, <2>3 DEF OfOneRun
<1>9. p.stage = "proving" => OfOneRun(n, p.inputs)
  <2> SUFFICES ASSUME p.stage = "proving" PROVE OfOneRun(n, p.inputs)
    OBVIOUS
  <2>1. /\ content["trace"] # Absent
        /\ p.inputs = proof[u].inputs \cup {content["trace"], content["memory"]}
        /\ OfOneRun(n, proof[u].inputs)
    BY <1>2, <1>5 DEF ProofInv
  <2>2. PICK w \in User : /\ proof[u].inputs = {w}
                          /\ exec[w].stage = "ended" /\ exec[w].id = n
    BY <2>1 DEF OfOneRun
  <2>3. /\ exec[w].left = <<>>
        /\ Written(w, OutputOf(exec[w].args), <<>>, content)
    BY <1>3, <2>2, ProgramAssumption DEF RunInv, ExecInv
  <2>4. content["trace"] = w /\ content["memory"] = w
    BY <2>1, <2>3 DEF Written, StandardWritten, PieWritten, NoneOf, AllOf
  <2>5. QED
    BY <2>1, <2>2, <2>4 DEF OfOneRun
<1>10. ProofInv(u)'
  <2>1. /\ p.stage \in {"failed", "reading", "proving"} /\ proof[u].id # 0
        /\ task[u].command = "prove"
        /\ ProvesOwn(u) => exec[u].stage = "ended"
    BY SMTT(60), <1>1, <1>2, <1>5 DEF ProofInv, OwnStages
  <2>2. p.stage \in {"reading", "proving"} => (OfOneRun(proof[u].id, proof[u].inputs))'
    BY <1>1, <1>5, <1>8, <1>9 DEF OfOneRun
  <2>3. QED
    BY <1>1, <1>2, <1>5, <2>1, <2>2 DEF ProofInv, OwnStages
<1>11. FailedInv(u)'
  <2>1. ASSUME ProvesOwn(u), OutputOf(task[u].execute) = "standard"
        PROVE  p.stage # "failed"
    <3>1. \A f \in {"trace", "memory", "public", "private"} : content[f] = u
      BY <1>1, <2>1, OwnRun DEF OwnStages, AllOf
    <3>2. QED
      BY <1>5, <3>1, ProgramAssumption
  <2>2. QED
    BY SMTT(60), <1>1, <1>2, <2>1 DEF FailedInv, OutputOf
<1>12. QED
  BY <1>1, <1>5, <1>6, <1>7, <1>10, <1>11, ProofMovesKeeps

LEMMA SaveProofKeeps ==
  ASSUME RunInv, NEW u \in User, SaveProof(u) PROVE RunInv'
<1> DEFINE n == proof[u].id
<1>1. PICK content \in {Partial, proof[u].inputs}, stage \in {"saving", "proved"} :
          /\ executions' = [executions EXCEPT ![n].files["proof"] = content]
          /\ proof' = [proof EXCEPT ![u].stage = stage]
  BY DEF SaveProof, WriteFile, ProofGoto
<1>2. /\ proof[u].stage \in {"proving", "saving"}
      /\ UNCHANGED <<task, exec, verdict, accidents>>
  BY DEF SaveProof, ProvingAt
<1>3. ProofInv(u) /\ FailedInv(u) /\ (ProvesOwn(u))' = ProvesOwn(u)
  BY <1>2 DEF RunInv, ProvesOwn
<1>4. n \in 1 .. MaxId /\ OfOneRun(n, proof[u].inputs)
  BY <1>2, <1>3, ProgramAssumption DEF ProofInv, OwnStages, RunInv, RunShapes
<1>5. /\ DOMAIN proof = User /\ DOMAIN proof[u] = {"stage", "id", "inputs"}
      /\ DOMAIN executions = 1 .. MaxId
      /\ \A m \in 1 .. MaxId :
             /\ DOMAIN executions[m] = {"there", "proofDir", "files"}
             /\ DOMAIN executions[m].files = Files
  BY DEF RunInv, RunShapes
<1>6. /\ DOMAIN proof' = User /\ DOMAIN proof'[u] = {"stage", "id", "inputs"}
      /\ proof'[u].stage = stage /\ proof'[u].id = n
      /\ proof'[u].inputs = proof[u].inputs
      /\ \A v \in User \ {u} : proof'[v] = proof[v]
  BY <1>1, <1>5
<1>7. /\ DOMAIN executions' = 1 .. MaxId
      /\ \A m \in 1 .. MaxId :
             /\ DOMAIN executions'[m] = {"there", "proofDir", "files"}
             /\ DOMAIN executions'[m].files = Files
             /\ executions'[m].there = executions[m].there
             /\ \A f \in FileNames : executions'[m].files[f] = executions[m].files[f]
             /\ m # n => executions'[m] = executions[m]
      /\ executions'[n].files["proof"] = content
  BY <1>1, <1>4, <1>5 DEF FileNames, Files
<1>8. ExecsAlike
  <2>1. \A v \in User : DOMAIN proof'[v] = {"stage", "id", "inputs"}
                         /\ proof'[v].id = proof[v].id
    BY <1>6 DEF RunInv, RunShapes
  <2>2. QED
    BY <1>2, <1>6, <1>7, <2>1 DEF ExecsAlike
<1>9. ProvedInv' /\ DOMAIN verdict' = User
  <2>1. ASSUME NEW m \in 1 .. MaxId,
               executions'[m].files["proof"] \notin {Absent, Partial}
        PROVE  (OfOneRun(m, executions[m].files["proof"]))'
    <3>1. CASE m = n
      BY <1>2, <1>4, <1>7, <2>1, <3>1 DEF OfOneRun
    <3>2. CASE m # n
      BY <1>2, <1>7, <2>1, <3>2 DEF RunInv, ProvedInv, OfOneRun
    <3>3. QED
      BY <3>1, <3>2
  <2>2. (\A v \in User : verdict[v].said = "verified" =>
           OfOneRun(task[v].id, verdict[v].inputs))'
    BY <1>2 DEF RunInv, ProvedInv, OfOneRun
  <2>3. QED
    BY <1>2, <2>1, <2>2 DEF RunInv, RunShapes, ProvedInv
<1>10. ProofInv(u)'
  <2>1. (OfOneRun(proof[u].id, proof[u].inputs))'
    BY <1>2, <1>4, <1>6 DEF OfOneRun
  <2>2. QED
    BY <1>2, <1>3, <1>6, <2>1 DEF ProofInv, OwnStages
<1>11. FailedInv(u)'
  BY <1>6 DEF FailedInv
<1>12. QED
  BY <1>2, <1>6, <1>8, <1>9, <1>10, <1>11, ProofMovesKeeps

LEMMA BeginProof ==
  ASSUME RunInv, NEW u \in User, NEW n \in 1 .. MaxId, proof[u].stage = "start",
         UNCHANGED <<task, verdict, accidents>>,
         DOMAIN proof' = User, DOMAIN proof'[u] = {"stage", "id", "inputs"},
         \A v \in User \ {u} : proof'[v] = proof[v], proof'[u].id = n,
         DOMAIN exec' = User,
         DOMAIN exec'[u] = {"stage", "args", "id", "target", "left"},
         \A v \in User \ {u} : exec'[v] = exec[v], exec'[u].id = exec[u].id,
         IF ProvesOwn(u)
         THEN /\ ~executions[n].there
              /\ proof'[u].stage = "executing" /\ exec'[u].stage = "start"
              /\ FindTarget(exec'[u].args) = FindTarget(task[u].execute)
              /\ OutputOf(exec'[u].args) = OutputOf(task[u].execute)
         ELSE exec' = exec /\ proof'[u].stage = "resolving",
         DOMAIN executions' = 1 .. MaxId,
         \A m \in 1 .. MaxId :
             /\ DOMAIN executions'[m] = {"there", "proofDir", "files"}
             /\ executions'[m].files = executions[m].files
             /\ executions'[m].there <=> ((ProvesOwn(u) /\ m = n) \/ executions[m].there)
  PROVE  RunInv'
<1>1. /\ exec[u].stage = "none" /\ exec[u].id = 0 /\ task[u].command = "prove"
      /\ n # 0 /\ \A v \in User : (ProvesOwn(v))' = ProvesOwn(v)
      /\ \A v \in User \ {u} : (Claim(v))' = Claim(v)
      /\ ProvesOwn(u) => (Claim(u))' = n
      /\ ~ProvesOwn(u) => (Claim(u))' = 0
      /\ \A v \in User : Claim(v) \in 0 .. MaxId
  BY ProgramAssumption
     DEF RunInv, RunShapes, ProofInv, ExecInv, ProvesOwn, Claim
<1>2. /\ \A w \in User : exec[w].stage = "ended" =>
             exec'[w].stage = "ended" /\ exec'[w].id = exec[w].id
      /\ \A w \in User : exec'[w].id = exec[w].id
  BY <1>1
<1>3. RunShapes'
  <2>1. \A v \in User :
           /\ DOMAIN exec'[v] = {"stage", "args", "id", "target", "left"}
           /\ DOMAIN proof'[v] = {"stage", "id", "inputs"}
           /\ exec'[v].id \in 0 .. MaxId /\ proof'[v].id \in 0 .. MaxId
    BY <1>2, ProgramAssumption DEF RunInv, RunShapes
  <2>2. QED
    BY <2>1 DEF RunInv, RunShapes
<1>4. ClaimsInv'
  <2>1. ASSUME NEW v \in User, v # u, Claim(v) # 0
        PROVE  /\ Claim(v) \in 1 .. MaxId /\ executions[Claim(v)].there
               /\ ProvesOwn(u) => Claim(v) # n
    BY <1>1, <2>1, ProgramAssumption DEF RunInv, ClaimsInv
  <2>2. (\A v \in User : Claim(v) # 0 => executions[Claim(v)].there)'
    BY <1>1, <2>1
  <2>3. (\A v, w \in User : Claim(v) # 0 /\ Claim(v) = Claim(w) => v = w)'
    BY <1>1, <2>1 DEF RunInv, ClaimsInv
  <2>4. (\A v \in User : exec[v].id \in {0, Claim(v)})'
    BY <1>1, <1>2 DEF RunInv, ClaimsInv
  <2>5. (\A m \in 1 .. MaxId : (\A v \in User : exec[v].id # m) =>
            NoneOf(executions[m].files, FileNames))'
    BY <1>2 DEF RunInv, ClaimsInv, NoneOf
  <2>6. QED
    BY <2>2, <2>3, <2>4, <2>5 DEF ClaimsInv
<1>5. ProvedInv'
  <2>1. ASSUME NEW m \in 1 .. MaxId,
               executions'[m].files["proof"] \notin {Absent, Partial}
        PROVE  (OfOneRun(m, executions[m].files["proof"]))'
    BY <1>2, <2>1 DEF RunInv, ProvedInv, OfOneRun
  <2>2. (\A v \in User : verdict[v].said = "verified" =>
           OfOneRun(task[v].id, verdict[v].inputs))'
    BY <1>2 DEF RunInv, ProvedInv, OfOneRun
  <2>3. QED
    BY <2>1, <2>2 DEF ProvedInv
<1>6. ASSUME NEW v \in User, v # u
      PROVE  ExecInv(v)' /\ ProofInv(v)' /\ FailedInv(v)'
  <2>1. /\ ExecInv(v) /\ ProofInv(v) /\ FailedInv(v)
        /\ exec'[v] = exec[v] /\ proof'[v] = proof[v]
        /\ UNCHANGED <<task, accidents>> /\ (ProvesOwn(v))' = ProvesOwn(v)
    BY <1>1, <1>6 DEF RunInv
  <2>2. exec[v].id # 0 =>
            executions'[exec[v].id].files = executions[exec[v].id].files
    BY ProgramAssumption DEF RunInv, RunShapes
  <2>3. exec[v].id # 0 =>
            (Written(v, OutputOf(exec[v].args), exec[v].left,
                     executions[exec[v].id].files))'
    BY <2>1, <2>2 DEF ExecInv
  <2>4. ExecInv(v)'
    BY <2>1, <2>3 DEF ExecInv
  <2>5. proof[v].stage = "adapting" =>
            executions'[proof[v].id].files = executions[proof[v].id].files
    BY <2>1, ProgramAssumption DEF ProofInv, OwnStages, RunInv, RunShapes
  <2>6. proof[v].stage \in {"reading", "proving", "saving", "proved"} =>
            (OfOneRun(proof[v].id, proof[v].inputs))'
    BY <1>2, <2>1 DEF ProofInv, OfOneRun
  <2>7. ProofInv(v)'
    BY <2>1, <2>5, <2>6 DEF ProofInv
  <2>8. FailedInv(v)'
    BY <2>1 DEF FailedInv, At
  <2>9. QED
    BY <2>4, <2>7, <2>8
<1>7. ExecInv(u)'
  BY <1>1 DEF ExecInv
<1>8. ProofInv(u)' /\ FailedInv(u)'
  BY <1>1 DEF ProofInv, FailedInv, OwnStages
<1>9. QED
  BY <1>3, <1>4, <1>5, <1>6, <1>7, <1>8 DEF RunInv

LEMMA StartProofKeeps ==
  ASSUME RunInv, NEW u \in User, StartProof(u) PROVE RunInv'
<1>1. proof[u].stage = "start" /\ UNCHANGED <<task, verdict, accidents>>
  BY DEF StartProof, ProvingAt
<1>2. /\ DOMAIN proof = User /\ DOMAIN proof[u] = {"stage", "id", "inputs"}
      /\ DOMAIN exec = User
      /\ DOMAIN exec[u] = {"stage", "args", "id", "target", "left"}
      /\ DOMAIN executions = 1 .. MaxId
      /\ \A m \in 1 .. MaxId :
             DOMAIN executions[m] = {"there", "proofDir", "files"}
      /\ ProofInv(u) /\ task[u] \in TasksOf[u]
  BY DEF RunInv, RunShapes
<1>3. task[u].command = "prove" /\ proof[u].id = 0 /\ task[u].id \in 0 .. MaxId
  BY <1>1, <1>2, ProgramAssumption DEF ProofInv
<1>4. CASE /\ task[u].id # 0
           /\ proof' = [proof EXCEPT ![u].stage = "resolving", ![u].id = task[u].id]
           /\ UNCHANGED <<packageDir, executions, exec>>
  <2>1. ~ProvesOwn(u) /\ task[u].id \in 1 .. MaxId
    BY <1>3, <1>4, ProgramAssumption DEF ProvesOwn
  <2>2. /\ DOMAIN proof' = User /\ DOMAIN proof'[u] = {"stage", "id", "inputs"}
        /\ \A v \in User \ {u} : proof'[v] = proof[v]
        /\ proof'[u].id = task[u].id /\ proof'[u].stage = "resolving"
    BY <1>2, <1>4
  <2>3. QED
    BY <1>1, <1>2, <1>4, <2>1, <2>2, BeginProof
<1>5. ASSUME task[u].id = 0, NEW n \in FirstFree,
             executions' = [executions EXCEPT ![n].there = TRUE],
             proof' = [proof EXCEPT ![u].stage = "executing", ![u].id = n],
             exec' = [exec EXCEPT ![u].stage = "start",
                                  ![u].args = Parsed(ToArgs(task[u].execute))]
      PROVE  RunInv'
  <2>1. ProvesOwn(u) /\ n \in 1 .. MaxId /\ ~executions[n].there
    BY <1>3, <1>5 DEF ProvesOwn, FirstFree, IsTaken
  <2>2. /\ DOMAIN proof' = User /\ DOMAIN proof'[u] = {"stage", "id", "inputs"}
        /\ \A v \in User \ {u} : proof'[v] = proof[v]
        /\ proof'[u].id = n /\ proof'[u].stage = "executing"
    BY <1>2, <1>5
  <2>3. /\ DOMAIN exec' = User
        /\ DOMAIN exec'[u] = {"stage", "args", "id", "target", "left"}
        /\ \A v \in User \ {u} : exec'[v] = exec[v]
        /\ exec'[u].id = exec[u].id /\ exec'[u].stage = "start"
        /\ exec'[u].args = Parsed(ToArgs(task[u].execute))
    BY <1>2, <1>5
  <2>4. /\ FindTarget(exec'[u].args) = FindTarget(task[u].execute)
        /\ OutputOf(exec'[u].args) = OutputOf(task[u].execute)
    BY <2>3, ParsedKeeps
  <2>5. /\ DOMAIN executions' = 1 .. MaxId
        /\ \A m \in 1 .. MaxId :
             /\ DOMAIN executions'[m] = {"there", "proofDir", "files"}
             /\ executions'[m].files = executions[m].files
             /\ executions'[m].there <=> (m = n \/ executions[m].there)
    BY <1>2, <1>5, <2>1
  <2>6. QED
    BY <1>1, <2>1, <2>2, <2>3, <2>4, <2>5, BeginProof
<1>6. CASE /\ ProofGoto(u, "failed")
           /\ UNCHANGED <<executions, exec>>
  <2>1. /\ DOMAIN proof' = User /\ DOMAIN proof'[u] = {"stage", "id", "inputs"}
        /\ \A v \in User \ {u} : proof'[v] = proof[v]
        /\ proof'[u].id = 0 /\ proof'[u].stage = "failed"
    BY <1>2, <1>3, <1>6 DEF ProofGoto
  <2>2. ExecsAlike
    BY <1>1, <1>2, <1>3, <1>6, <2>1 DEF ExecsAlike, RunInv, RunShapes
  <2>3. ProvedInv' /\ DOMAIN verdict' = User
    <3>1. UNCHANGED <<task, verdict, executions, exec>>
      BY <1>1, <1>6
    <3>2. QED
      BY <3>1, ProvedAlike
  <2>4. ProofInv(u)' /\ FailedInv(u)'
    BY <1>1, <1>3, <2>1 DEF ProofInv, FailedInv, OwnStages
  <2>5. QED
    BY <1>1, <2>1, <2>2, <2>3, <2>4, ProofMovesKeeps
<1>7. QED
  BY <1>4, <1>5, <1>6 DEF StartProof

LEMMA VerifyKeeps ==
  ASSUME RunInv, NEW u \in User, Verify(u) PROVE RunInv'
<1> DEFINE found == executions[task[u].id].files["proof"]
<1>1. /\ UNCHANGED <<task, executions, exec, proof, accidents>>
      /\ task[u].command = "verify"
      /\ verdict' = [verdict EXCEPT ![u] =
               IF found \in {Absent, Partial}
               THEN [said |-> "failed", inputs |-> {}]
               ELSE [said |-> "verified", inputs |-> found]]
  BY DEF Verify
<1>2. task[u].id \in 1 .. MaxId
  <2>1. task[u] \in TasksOf[u]
    BY DEF RunInv, RunShapes
  <2>2. task[u].id \in 0 .. MaxId /\ task[u].id # 0
    BY <1>1, <2>1, ProgramAssumption
  <2>3. QED
    BY <2>2, ProgramAssumption
<1>3. DOMAIN verdict = User
  BY DEF RunInv, RunShapes
<1>4. ASSUME NEW v \in User, verdict'[v].said = "verified"
      PROVE  OfOneRun(task[v].id, verdict'[v].inputs)
  <2>1. CASE v = u
    <3>1. found \notin {Absent, Partial} /\ verdict'[v].inputs = found
      BY <1>1, <1>3, <1>4, <2>1
    <3>2. QED
      BY <1>2, <2>1, <3>1 DEF RunInv, ProvedInv
  <2>2. CASE v # u
    BY <1>1, <1>3, <1>4, <2>2 DEF RunInv, ProvedInv
  <2>3. QED
    BY <2>1, <2>2
<1>5. ProvedInv'
  <2>1. (\A v \in User : verdict[v].said = "verified" =>
           OfOneRun(task[v].id, verdict[v].inputs))'
    BY <1>1, <1>4 DEF OfOneRun
  <2>2. QED
    BY <1>1, <2>1 DEF RunInv, ProvedInv, OfOneRun
<1>6. DOMAIN verdict' = User
  BY <1>1, <1>3
<1>7. ExecsAlike
  BY <1>1 DEF ExecsAlike, RunInv, RunShapes
<1>8. ProofInv(u)' /\ FailedInv(u)'
  BY <1>1
     DEF RunInv, ProofInv, FailedInv, OfOneRun, ProvesOwn, At, FindTarget,
         OutputOf
<1>9. QED
  BY <1>1, <1>5, <1>6, <1>7, <1>8, ProofMovesKeeps

LEMMA ProgramInitInv == ProgramInit => RunInv
<1> SUFFICES ASSUME ProgramInit PROVE RunInv
  OBVIOUS
<1>1. \A u \in User :
        /\ DOMAIN exec[u] = {"stage", "args", "id", "target", "left"}
        /\ exec[u].id = 0 /\ exec[u].stage \in {"none", "start"}
        /\ exec[u].stage = "start" => /\ task[u].command = "execute"
                                     /\ exec[u].args = task[u].execute
  BY DEF ProgramInit, Executing
<1>2. \A u \in User :
        /\ DOMAIN proof[u] = {"stage", "id", "inputs"}
        /\ proof[u].id = 0 /\ proof[u].stage \in {"none", "start"}
        /\ proof[u].stage = "start" => /\ task[u].command = "prove"
                                      /\ exec[u].stage = "none"
  BY DEF ProgramInit, Executing, Proving
<1>3. \A n \in 1 .. MaxId :
        /\ DOMAIN executions[n] = {"there", "proofDir", "files"}
        /\ DOMAIN executions[n].files = Files
        /\ \A f \in Files : executions[n].files[f] = Absent
  BY DEF ProgramInit, NoFiles
<1>4. /\ DOMAIN exec = User /\ DOMAIN proof = User /\ DOMAIN verdict = User
      /\ DOMAIN executions = 1 .. MaxId
      /\ \A u \in User : task[u] \in TasksOf[u] /\ verdict[u].said = "nothing"
  BY DEF ProgramInit
<1>5. RunShapes
  BY <1>1, <1>2, <1>3, <1>4, ProgramAssumption DEF RunShapes
<1>6. \A u \in User : Claim(u) = 0
  BY <1>1, <1>2 DEF Claim
<1>7. ClaimsInv
  BY <1>1, <1>3, <1>6 DEF ClaimsInv, NoneOf, FileNames
<1>8. ProvedInv
  BY <1>3, <1>4 DEF ProvedInv, Files
<1>9. ASSUME NEW u \in User PROVE ExecInv(u) /\ ProofInv(u) /\ FailedInv(u)
  BY <1>1, <1>2 DEF ExecInv, ProofInv, FailedInv, OwnStages
<1>10. QED
  BY <1>5, <1>7, <1>8, <1>9 DEF RunInv

(* What is proved of an execution, and accepted by `verify`, is one run of *)
(* the program whose files were complete when they were read, whatever     *)
(* commands run, fail or are killed beside it; and `prove --execute`       *)
(* proves its own run, of the target it was asked for.                     *)
THEOREM RunsProvedWhole == ProgramSpec => []ProofsOfWholeRuns
<1>1. ProgramInit => RunInv
  BY ProgramInitInv
<1>2. RunInv /\ [ProgramNext]_runVars => RunInv'
  <2> SUFFICES ASSUME RunInv, [ProgramNext]_runVars PROVE RunInv'
    OBVIOUS
  <2>1. CASE UNCHANGED runVars
    <3>1. UNCHANGED <<task, executions, exec, proof, verdict, accidents>>
      BY <2>1 DEF runVars
    <3>2. RunShapes' /\ ClaimsInv' /\ ProvedInv'
      <4>1. RunShapes'
        BY <3>1 DEF RunInv, RunShapes
      <4>2. ClaimsInv'
        BY <3>1 DEF RunInv, ClaimsInv, Claim, ProvesOwn
      <4>3. QED
        BY <3>1, <4>1, <4>2, ProvedAlike
    <3>3. ASSUME NEW u \in User
          PROVE  ExecInv(u)' /\ ProofInv(u)' /\ FailedInv(u)'
      <4>1. ExecInv(u) /\ ProofInv(u) /\ FailedInv(u)
        BY DEF RunInv
      <4>2. ExecInv(u)'
        BY <3>1, <4>1 DEF ExecInv, ProvesOwn
      <4>3. ProofInv(u)'
        BY <3>1, <4>1 DEF ProofInv, OfOneRun, ProvesOwn
      <4>4. FailedInv(u)'
        BY <3>1, <4>1 DEF FailedInv, ProvesOwn, At
      <4>5. QED
        BY <4>2, <4>3, <4>4
    <3>4. QED
      BY <3>2, <3>3 DEF RunInv
  <2>2. ASSUME NEW u \in User, ExecuteStep(u) PROVE RunInv'
    BY <2>2, StartKeeps, RunKeeps, EnterKeeps, SaveKeeps DEF ExecuteStep
  <2>3. ASSUME NEW u \in User, ProveStep(u) PROVE RunInv'
    BY <2>3, StartProofKeeps, ExecutedKeeps, ResolveKeeps, AdaptKeeps, SaveProofKeeps
       DEF ProveStep
  <2>4. ASSUME NEW u \in User, Verify(u) PROVE RunInv'
    BY <2>4, VerifyKeeps
  <2>5. ASSUME NEW u \in User, Accident(u) PROVE RunInv'
    <3>1. UNCHANGED <<task, executions, verdict>> /\ accidents' = accidents \cup {u}
      BY <2>5 DEF Accident
    <3>2. CASE /\ exec[u].stage \notin {"none", "ended", "failed"} /\ GiveUp(u)
               /\ UNCHANGED proof
      <4>1. /\ DOMAIN exec = User
            /\ DOMAIN exec[u] = {"stage", "args", "id", "target", "left"}
        BY DEF RunInv, RunShapes
      <4>2. ExecMoves(u) /\ exec'[u].stage = "failed"
            /\ exec'[u].id = exec[u].id /\ exec'[u].left = exec[u].left
        BY <3>1, <3>2, <4>1 DEF ExecMoves, GiveUp, ExecGoto
      <4>3. QED
        BY <3>1, <4>2, StageKeeps
    <3>3. CASE /\ proof[u].stage \notin {"none", "proved", "failed"}
               /\ ProofGoto(u, "failed") /\ UNCHANGED exec
      BY <3>1, <3>3, ExecutedKeeps
    <3>4. QED
      BY <2>5, <3>2, <3>3 DEF Accident
  <2>6. QED
    BY <2>1, <2>2, <2>3, <2>4, <2>5 DEF ProgramNext
<1>3. RunInv => ProofsOfWholeRuns
  <2> SUFFICES ASSUME RunInv PROVE ProofsOfWholeRuns
    OBVIOUS
  <2>1. ASSUME NEW u \in User, ProvesOwn(u), proof[u].stage = "proved"
        PROVE  proof[u].inputs = {u} /\ exec[u].target \in FindTarget(task[u].execute)
    <3>1. /\ OfOneRun(proof[u].id, proof[u].inputs) /\ exec[u].stage = "ended"
          /\ proof[u].id # 0 /\ ExecInv(u)
      BY <2>1 DEF RunInv, ProofInv, OwnStages
    <3>2. PICK w \in User : proof[u].inputs = {w} /\ exec[w].id = proof[u].id
      BY <3>1 DEF OfOneRun
    <3>3. w = u
      BY <2>1, <3>1, <3>2 DEF RunInv, ClaimsInv, Claim
    <3>4. QED
      BY <3>1, <3>2, <3>3 DEF ExecInv
  <2>2. ASSUME NEW u \in User, ProvesOwn(u), proof[u].stage = "failed"
        PROVE  \/ u \in accidents \/ proof[u].id = 0
               \/ At(u, "failed") /\ FindTarget(exec[u].args) = FindTarget(task[u].execute)
               \/ OutputOf(task[u].execute) # "standard"
    BY <2>2 DEF RunInv, FailedInv
  <2>3. QED
    BY <2>1, <2>2 DEF RunInv, ProvedInv, ProofsOfWholeRuns, ProvesOwn
<1>4. QED
  BY <1>1, <1>2, <1>3, PTL DEF ProgramSpec

-----------------------------------------------------------------------------
(* The host of procedural macros: ProcMacroHost.                           *)

(* Numbers and sequences: what the operators of the host return.           *)
LEMMA LeastNumber ==
  ASSUME NEW T, T \subseteq Nat, T # {}
  PROVE  \E x \in T : \A y \in T : x <= y
<1> DEFINE Below == {0 .. n : n \in T}
<1>1. Below \subseteq FiniteSubsetsOf(Nat) /\ Below # {}
  <2>1. \A n \in T : IsFiniteSet(0 .. n) /\ (0 .. n) \subseteq Nat
    BY FS_Interval
  <2>2. QED
    BY <2>1 DEF FiniteSubsetsOf
<1>2. PICK u \in Below : \A w \in Below : ~(<<w, u>> \in StrictSubsetOrdering(Nat))
  BY <1>1, FS_StrictSubsetOrderingWellFounded, WFMin
<1>3. PICK x \in T : u = 0 .. x
  OBVIOUS
<1>4. ASSUME NEW y \in T, y < x PROVE FALSE
  <2>1. /\ 0 .. y \in Below /\ 0 .. y \subseteq 0 .. x
        /\ x \notin 0 .. y /\ x \in 0 .. x
        /\ 0 .. y \subseteq Nat /\ 0 .. x \subseteq Nat
    BY <1>4
  <2>2. <<0 .. y, 0 .. x>> \in StrictSubsetOrdering(Nat)
    BY <2>1 DEF StrictSubsetOrdering
  <2>3. QED
    BY <1>2, <1>3, <2>1, <2>2
<1>5. QED
  BY <1>4

LEMMA MinIsLeast ==
  ASSUME NEW T, T \subseteq Nat, T # {}
  PROVE  Min(T) \in T /\ \A y \in T : Min(T) <= y
BY LeastNumber DEF Min

LEMMA MinIs ==
  ASSUME NEW T, T \subseteq Nat, NEW x \in T, \A y \in T : x <= y
  PROVE  Min(T) = x
<1> DEFINE m == Min(T)
<1>1. m \in T /\ \A y \in T : m <= y
  BY MinIsLeast
<1> HIDE DEF m
<1>2. m = x
  BY <1>1
<1>3. QED
  BY <1>2 DEF m

(* A least element stays the least when only greater ones are added.       *)
LEMMA MinKept ==
  ASSUME NEW T, T \subseteq Nat, T # {}, NEW U, U \subseteq Nat,
         \A x \in T, y \in U : x <= y
  PROVE  Min(T \cup U) = Min(T)
<1>1. Min(T) \in T /\ \A y \in T : Min(T) <= y
  BY MinIsLeast
<1>2. \A y \in T \cup U : Min(T) <= y
  BY <1>1
<1> DEFINE m == Min(T)
           W == T \cup U
<1>3. W \subseteq Nat /\ m \in W /\ \A y \in W : m <= y
  BY <1>1, <1>2
<1> HIDE DEF m, W
<1>4. Min(W) = m
  BY <1>3, MinIs
<1>5. QED
  BY <1>4 DEF m, W

LEMMA FirstAttr ==
  ASSUME NEW c, NEW attrs \in Seq(STRING), ParseAttrs(c, attrs) # Missing
  PROVE  \E i \in 1 .. Len(attrs) :
            /\ IsAttr(c, attrs[i])
            /\ \A j \in 1 .. i - 1 : ~IsAttr(c, attrs[j])
            /\ ParseAttrs(c, attrs) =
                  [name |-> attrs[i], others |-> RemoveAt(attrs, i),
                   last |-> \A j \in i + 1 .. Len(attrs) : ~IsAttr(c, attrs[j])]
<1> DEFINE I == {i \in 1 .. Len(attrs) : IsAttr(c, attrs[i])}
           k == SelectInSeq(attrs, LAMBDA a : IsAttr(c, a))
<1>1. k = IF I # {} THEN Min(I) ELSE 0
  BY DEF SelectInSeq
<1>2. k # 0 /\ ParseAttrs(c, attrs) =
                  [name |-> attrs[k], others |-> RemoveAt(attrs, k),
                   last |-> \A j \in k + 1 .. Len(attrs) : ~IsAttr(c, attrs[j])]
  BY DEF ParseAttrs
<1>3. I # {} /\ k = Min(I)
  BY <1>1, <1>2
<1>4. k \in I /\ \A j \in I : k <= j
  <2>1. I \subseteq Nat
    OBVIOUS
  <2> HIDE DEF I, k
  <2>2. QED
    BY <1>3, <2>1, MinIsLeast
<1>5. \A j \in 1 .. k - 1 : ~IsAttr(c, attrs[j])
  <2> HIDE DEF k
  <2>1. QED
    BY <1>4
<1> HIDE DEF k
<1>6. QED
  BY <1>2, <1>4, <1>5

LEMMA NoAttr ==
  ASSUME NEW c, NEW attrs \in Seq(STRING), ParseAttrs(c, attrs) = Missing
  PROVE  \A i \in 1 .. Len(attrs) : ~IsAttr(c, attrs[i])
<1> DEFINE I == {i \in 1 .. Len(attrs) : IsAttr(c, attrs[i])}
           k == SelectInSeq(attrs, LAMBDA a : IsAttr(c, a))
           found == [name |-> attrs[k], others |-> RemoveAt(attrs, k),
                   last |-> \A j \in k + 1 .. Len(attrs) : ~IsAttr(c, attrs[j])]
<1>1. k = IF I # {} THEN Min(I) ELSE 0
  BY DEF SelectInSeq
<1>2. SUFFICES ASSUME I # {} PROVE FALSE
  OBVIOUS
<1>4. k \in I
  <2>1. I \subseteq Nat
    OBVIOUS
  <2>2. k = Min(I)
    BY <1>1, <1>2
  <2> HIDE DEF I, k
  <2>3. QED
    BY <1>2, <2>2, <2>1, MinIsLeast
<1>5. k # 0 /\ k \in 1 .. Len(attrs)
  BY <1>4
<1>6. ParseAttrs(c, attrs) = found
  BY <1>5 DEF ParseAttrs
<1> HIDE DEF k
<1>7. RemoveAt(attrs, k) \in Seq(STRING)
  BY <1>5 DEF RemoveAt
<1>8. found \in [name : STRING, others : Seq(STRING), last : BOOLEAN]
  BY <1>5, <1>7
<1>9. QED
  BY <1>6, <1>8, HostAssumption

LEMMA FirstFunc ==
  ASSUME NEW item \in Item
  PROVE  IF FirstInner(item) = 0
         THEN \A k \in 1 .. Len(item.funcs) :
                 ParseAttrs(item.component, item.funcs[k].attrs) = Missing
         ELSE /\ FirstInner(item) \in 1 .. Len(item.funcs)
              /\ ParseAttrs(item.component, item.funcs[FirstInner(item)].attrs) # Missing
              /\ \A k \in 1 .. FirstInner(item) - 1 :
                 ParseAttrs(item.component, item.funcs[k].attrs) = Missing
<1> DEFINE I == {k \in 1 .. Len(item.funcs) :
                    ParseAttrs(item.component, item.funcs[k].attrs) # Missing}
           k == FirstInner(item)
<1>1. k = IF I # {} THEN Min(I) ELSE 0
  BY DEF FirstInner, SelectInSeq
<1>2. I \subseteq Nat \ {0}
  OBVIOUS
<1>3. CASE I = {}
  BY <1>1, <1>3
<1>4. CASE I # {}
  <2>1. k \in I /\ \A j \in I : k <= j
    <3> HIDE DEF I, k
    <3>1. QED
      BY <1>1, <1>2, <1>4, MinIsLeast
  <2>2. \A j \in 1 .. k - 1 : j \in 1 .. Len(item.funcs) /\ j \notin I
    <3>1. Len(item.funcs) \in Nat
      BY DEF Item
    <3>2. k \in 1 .. Len(item.funcs)
      BY <2>1
    <3> DEFINE n == Len(item.funcs)
    <3> HIDE DEF k, n
    <3>3. \A j \in 1 .. k - 1 : j \in 1 .. n
      BY <3>1, <3>2 DEF n
    <3>4. \A j \in 1 .. k - 1 : j \notin I
      <4> HIDE DEF I
      <4>1. k \in Nat /\ \A j \in 1 .. k - 1 : ~(k <= j)
        BY <3>1, <3>2 DEF n
      <4>2. QED
        BY <2>1, <4>1
    <3>5. QED
      BY <3>3, <3>4 DEF n
  <2>3. QED
    BY <2>1, <2>2
<1>5. QED
  BY <1>3, <1>4

LEMMA Induction ==
  ASSUME NEW S, 0 \in S, \A n \in Nat : n \in S => n + 1 \in S
  PROVE  Nat \subseteq S
<1> SUFFICES ASSUME Nat \ S # {} PROVE FALSE
  OBVIOUS
<1>1. PICK m \in Nat \ S : \A y \in Nat \ S : m <= y
  BY LeastNumber
<1>2. m # 0 /\ m - 1 \in Nat /\ m - 1 \in S
  BY <1>1
<1>3. QED
  BY <1>2

(* The sequences that FlattenSeq joins one after the other.                *)
Joined(seqs, g, i) == IF i = 1 THEN seqs[i] ELSE g[i - 1] \o seqs[i]
Joins(seqs, n) == CHOOSE g : g = [i \in 1 .. n |-> Joined(seqs, g, i)]

LEMMA JoinsAre ==
  ASSUME NEW seqs, NEW n \in Nat
  PROVE  Joins(seqs, n) = [i \in 1 .. n |-> Joined(seqs, Joins(seqs, n), i)]
<1> DEFINE S == {k \in Nat : \E g : g = [i \in 1 .. k |-> Joined(seqs, g, i)]}
<1>1. 0 \in S
  <2> DEFINE none == [i \in 1 .. 0 |-> 0]
  <2>1. none = [i \in 1 .. 0 |-> Joined(seqs, none, i)]
    OBVIOUS
  <2> HIDE DEF none
  <2>2. \E g : g = [i \in 1 .. 0 |-> Joined(seqs, g, i)]
    BY <2>1
  <2>3. QED
    BY <2>2
<1>2. ASSUME NEW k \in Nat, k \in S PROVE k + 1 \in S
  <2>1. PICK g : g = [i \in 1 .. k |-> Joined(seqs, g, i)]
    BY <1>2
  <2> DEFINE h == [i \in 1 .. k + 1 |->
                      IF i \in 1 .. k THEN g[i] ELSE Joined(seqs, g, i)]
  <2>2. \A i \in 1 .. k : h[i] = g[i] /\ g[i] = Joined(seqs, g, i)
    <3>1. \A i \in 1 .. k : h[i] = g[i]
      OBVIOUS
    <3>2. \A i \in 1 .. k : g[i] = Joined(seqs, g, i)
      BY <2>1
    <3>3. QED
      BY <3>1, <3>2
  <2>3. \A i \in 1 .. k + 1 : h[i] = Joined(seqs, h, i)
    <3>1. ASSUME NEW i \in 1 .. k + 1
          PROVE  Joined(seqs, h, i) = Joined(seqs, g, i)
      <4>1. i = 1 \/ i - 1 \in 1 .. k
        OBVIOUS
      <4>2. QED
        BY <2>2, <4>1 DEF Joined
    <3>2. QED
      BY <2>2, <3>1
  <2>4. h = [i \in 1 .. k + 1 |-> Joined(seqs, h, i)]
    BY <2>3
  <2> HIDE DEF h
  <2>5. \E f : f = [i \in 1 .. k + 1 |-> Joined(seqs, f, i)]
    BY <2>4
  <2>6. QED
    BY <2>5
<1> HIDE DEF S
<1>3. Nat \subseteq S
  BY <1>1, <1>2, Induction
<1>4. \E g : g = [i \in 1 .. n |-> Joined(seqs, g, i)]
  BY <1>3 DEF S
<1>5. QED
  BY <1>4 DEF Joins

LEMMA FlattenedJoins ==
  ASSUME NEW X, NEW seqs \in Seq(Seq(X)), Len(seqs) # 0
  PROVE  FlattenSeq(seqs) = Joins(seqs, Len(seqs))[Len(seqs)]
BY DEF FlattenSeq, Joins, Joined

LEMMA JoinsType ==
  ASSUME NEW X, NEW n \in Nat, NEW seqs, \A i \in 1 .. n : seqs[i] \in Seq(X)
  PROVE  \A i \in 1 .. n : Joins(seqs, n)[i] \in Seq(X)
<1> DEFINE g == Joins(seqs, n)
           T == {k \in Nat : k \in 1 .. n => g[k] \in Seq(X)}
<1>1. \A i \in 1 .. n : g[i] = Joined(seqs, g, i)
  <2>1. g = [i \in 1 .. n |-> Joined(seqs, g, i)]
    BY JoinsAre
  <2> HIDE DEF g
  <2>2. QED
    BY <2>1
<1> HIDE DEF g
<1>2. 0 \in T
  OBVIOUS
<1>3. ASSUME NEW k \in Nat, k \in T PROVE k + 1 \in T
  <2>1. SUFFICES ASSUME k + 1 \in 1 .. n PROVE g[k + 1] \in Seq(X)
    OBVIOUS
  <2>2. CASE k = 0
    BY <1>1, <2>1, <2>2 DEF Joined
  <2>3. CASE k # 0
    <3>1. /\ k \in 1 .. n /\ (k + 1) - 1 = k /\ k + 1 # 1
          /\ g[k] \in Seq(X) /\ seqs[k + 1] \in Seq(X)
      BY <1>3, <2>1, <2>3
    <3>2. g[k + 1] = g[k] \o seqs[k + 1]
      BY <1>1, <2>1, <3>1 DEF Joined
    <3>3. QED
      BY <3>1, <3>2
  <2>4. QED
    BY <2>2, <2>3
<1> HIDE DEF T
<1>4. Nat \subseteq T
  BY <1>2, <1>3, Induction
<1>5. QED
  BY <1>4 DEF T, g

(* Of two lists with a common beginning the same is joined there.          *)
LEMMA JoinsSame ==
  ASSUME NEW n \in Nat, NEW m \in Nat, n <= m, NEW seqs, NEW more,
         \A i \in 1 .. n : seqs[i] = more[i]
  PROVE  \A i \in 1 .. n : Joins(seqs, n)[i] = Joins(more, m)[i]
<1> DEFINE g == Joins(seqs, n)
           h == Joins(more, m)
           T == {k \in Nat : k \in 1 .. n => g[k] = h[k]}
<1>1. \A i \in 1 .. n : g[i] = Joined(seqs, g, i) /\ h[i] = Joined(more, h, i)
  <2>1. /\ g = [i \in 1 .. n |-> Joined(seqs, g, i)]
        /\ h = [i \in 1 .. m |-> Joined(more, h, i)]
    BY JoinsAre
  <2> HIDE DEF g, h
  <2>2. (\A i \in 1 .. n : g[i] = Joined(seqs, g, i)) /\ \A i \in 1 .. n : i \in 1 .. m
    BY <2>1
  <2>3. \A i \in 1 .. m : h[i] = Joined(more, h, i)
    BY <2>1
  <2>4. QED
    BY <2>2, <2>3
<1> HIDE DEF g, h
<1>2. 0 \in T
  OBVIOUS
<1>3. ASSUME NEW k \in Nat, k \in T PROVE k + 1 \in T
  <2>1. SUFFICES ASSUME k + 1 \in 1 .. n PROVE g[k + 1] = h[k + 1]
    OBVIOUS
  <2>2. k = 0 \/ (k \in 1 .. n /\ g[k] = h[k])
    BY <1>3, <2>1
  <2>3. Joined(seqs, g, k + 1) = Joined(more, h, k + 1)
    <3>1. (k + 1) - 1 = k /\ (k = 0 <=> k + 1 = 1)
      OBVIOUS
    <3>2. QED
      BY <2>1, <2>2, <3>1 DEF Joined
  <2>4. QED
    BY <1>1, <2>1, <2>3
<1> HIDE DEF T
<1>4. Nat \subseteq T
  BY <1>2, <1>3, Induction
<1>5. QED
  BY <1>4 DEF T, g, h

LEMMA Flattened ==
  ASSUME NEW X, NEW seqs \in Seq(Seq(X))
  PROVE  FlattenSeq(seqs) \in Seq(X)
<1>1. CASE Len(seqs) = 0
  <2>1. seqs = <<>> /\ FlattenSeq(seqs) = <<>>
    BY <1>1 DEF FlattenSeq
  <2>2. <<>> \in Seq(X)
    OBVIOUS
  <2>3. QED
    BY <2>1, <2>2
<1>2. CASE Len(seqs) # 0
  <2>1. /\ Len(seqs) \in Nat /\ Len(seqs) \in 1 .. Len(seqs)
        /\ \A i \in 1 .. Len(seqs) : seqs[i] \in Seq(X)
    BY <1>2
  <2>2. QED
    BY <1>2, <2>1, FlattenedJoins, JoinsType
<1>3. QED
  BY <1>1, <1>2

LEMMA FlattenedAppend ==
  ASSUME NEW X, NEW seqs \in Seq(Seq(X)), NEW part \in Seq(X)
  PROVE  FlattenSeq(Append(seqs, part)) = FlattenSeq(seqs) \o part
<1> DEFINE n == Len(seqs)
           more == Append(seqs, part)
           h == Joins(more, n + 1)
<1>0. n \in Nat
  OBVIOUS
<1>1. /\ n \in Nat /\ more \in Seq(Seq(X)) /\ Len(more) = n + 1 /\ n + 1 # 0
      /\ more[n + 1] = part /\ \A i \in 1 .. n : seqs[i] = more[i]
  OBVIOUS
<1>2. FlattenSeq(more) = h[n + 1]
  <2> HIDE DEF more, n
  <2>1. FlattenSeq(more) = Joins(more, Len(more))[Len(more)]
    BY <1>1, FlattenedJoins
  <2>2. QED
    BY <1>1, <2>1
<1>3. h[n + 1] = Joined(more, h, n + 1)
  <2>1. h = [i \in 1 .. n + 1 |-> Joined(more, h, i)]
    <3> HIDE DEF more, n
    <3>1. n + 1 \in Nat
      BY <1>1
    <3>2. QED
      BY <3>1, JoinsAre
  <2> HIDE DEF h, more, n
  <2>2. n + 1 \in 1 .. n + 1
    BY <1>1
  <2>3. QED
    BY <2>1, <2>2
<1>4. CASE n = 0
  <2>1. FlattenSeq(more) = part
    BY <1>1, <1>2, <1>3, <1>4 DEF Joined
  <2>2. seqs = <<>> /\ FlattenSeq(seqs) = <<>>
    BY <1>4 DEF FlattenSeq
  <2>3. QED
    BY <2>1, <2>2
<1>5. CASE n # 0
  <2>1. h[n + 1] = h[n] \o part
    <3> HIDE DEF h, more, n
    <3>1. (n + 1) - 1 = n /\ n + 1 # 1
      BY <1>0, <1>5
    <3>2. QED
      BY <1>1, <1>3, <3>1 DEF Joined
  <2>2. Joins(seqs, n)[n] = h[n]
    <3> HIDE DEF more, n
    <3>1. n \in 1 .. n /\ n <= n + 1 /\ n + 1 \in Nat
      BY <1>0, <1>5
    <3>2. \A i \in 1 .. n : seqs[i] = more[i]
      BY <1>1
    <3>3. \A i \in 1 .. n : Joins(seqs, n)[i] = Joins(more, n + 1)[i]
      BY <1>0, <3>1, <3>2, JoinsSame
    <3>4. QED
      BY <3>1, <3>3 DEF h
  <2>3. FlattenSeq(seqs) = Joins(seqs, n)[n]
    BY <1>5, FlattenedJoins
  <2>4. QED
    BY <1>2, <2>1, <2>2, <2>3
<1>6. QED
  BY <1>4, <1>5

Part(name, set) == IF name \in set THEN <<name>> ELSE <<>>

LEMMA PartType ==
  ASSUME NEW X, NEW name \in X, NEW set
  PROVE  Part(name, set) \in Seq(X)
<1>1. <<name>> \in Seq(X) /\ <<>> \in Seq(X)
  OBVIOUS
<1>2. QED
  BY <1>1 DEF Part

LEMMA ChosenType ==
  ASSUME NEW X, NEW names \in Seq(X), NEW set
  PROVE  Chosen(names, set) \in Seq(X)
<1> DEFINE n == Len(names)
           parts == [i \in 1 .. n |-> Part(names[i], set)]
<1>1. n \in Nat /\ \A i \in 1 .. n : names[i] \in X
  OBVIOUS
<1>2. \A i \in 1 .. n : Part(names[i], set) \in Seq(X)
  BY <1>1, PartType
<1>3. parts \in Seq(Seq(X))
  <2> HIDE DEF n
  <2>1. QED
    BY <1>1, <1>2
<1>4. Chosen(names, set) = FlattenSeq(parts)
  BY DEF Chosen, Part
<1> HIDE DEF parts
<1>5. QED
  BY <1>3, <1>4, Flattened

LEMMA ChosenOfNone == ASSUME NEW set PROVE Chosen(<<>>, set) = <<>>
<1> DEFINE parts == [i \in 1 .. Len(<<>>) |-> Part(<<>>[i], set)]
<1>1. parts = <<>> /\ Len(parts) = 0
  OBVIOUS
<1>2. Chosen(<<>>, set) = FlattenSeq(parts)
  BY DEF Chosen, Part
<1> HIDE DEF parts
<1>3. FlattenSeq(parts) = <<>>
  BY <1>1 DEF FlattenSeq
<1>4. QED
  BY <1>2, <1>3

LEMMA AppendIs ==
  ASSUME NEW X, NEW s \in Seq(X), NEW e \in X
  PROVE  Append(s, e) = [i \in 1 .. Len(s) + 1 |-> IF i \in 1 .. Len(s) THEN s[i] ELSE e]
<1> DEFINE t == Append(s, e)
           n == Len(s)
<1>1. n \in Nat /\ t \in Seq(X) /\ Len(t) = n + 1 /\ t[n + 1] = e
  OBVIOUS
<1>2. \A i \in 1 .. n : t[i] = s[i]
  OBVIOUS
<1> HIDE DEF t, n
<1>3. t = [i \in 1 .. n + 1 |-> t[i]]
  BY <1>1
<1>4. \A i \in 1 .. n + 1 : t[i] = IF i \in 1 .. n THEN s[i] ELSE e
  BY <1>1, <1>2
<1>5. t = [i \in 1 .. n + 1 |-> IF i \in 1 .. n THEN s[i] ELSE e]
  BY <1>3, <1>4
<1>6. QED
  BY <1>5 DEF t, n

LEMMA ChosenAppend ==
  ASSUME NEW X, NEW names \in Seq(X), NEW x \in X, NEW set
  PROVE  Chosen(Append(names, x), set) = Chosen(names, set) \o Part(x, set)
<1> DEFINE n == Len(names)
           more == Append(names, x)
           parts == [i \in 1 .. n |-> Part(names[i], set)]
           others == [i \in 1 .. n + 1 |-> Part(more[i], set)]
<1>1. /\ n \in Nat /\ Len(more) = n + 1 /\ more[n + 1] = x
      /\ \A i \in 1 .. n : names[i] \in X /\ more[i] = names[i]
  OBVIOUS
<1>2. (\A i \in 1 .. n : Part(names[i], set) \in Seq(X)) /\ Part(x, set) \in Seq(X)
  BY <1>1, PartType
<1>3. parts \in Seq(Seq(X)) /\ Len(parts) = n
  <2> HIDE DEF n
  <2>1. QED
    BY <1>1, <1>2
<1>4. others = Append(parts, Part(x, set))
  <2> HIDE DEF n, more
  <2>1. /\ Append(parts, Part(x, set)) = [i \in 1 .. n + 1 |->
              IF i \in 1 .. n THEN Part(names[i], set) ELSE Part(x, set)]
    <3>1. \A i \in 1 .. n : parts[i] = Part(names[i], set)
      OBVIOUS
    <3> HIDE DEF parts
    <3>2. Append(parts, Part(x, set)) = [i \in 1 .. Len(parts) + 1 |->
              IF i \in 1 .. Len(parts) THEN parts[i] ELSE Part(x, set)]
      BY <1>2, <1>3, AppendIs
    <3>3. QED
      BY <1>3, <3>1, <3>2
  <2>2. \A i \in 1 .. n + 1 : i \in 1 .. n \/ i = n + 1
    BY <1>1
  <2>3. QED
    BY <1>1, <2>1, <2>2
<1>5. Chosen(names, set) = FlattenSeq(parts) /\ Chosen(more, set) = FlattenSeq(others)
  BY <1>1 DEF Chosen, Part
<1> HIDE DEF parts, others, more
<1>6. FlattenSeq(others) = FlattenSeq(parts) \o Part(x, set)
  BY <1>2, <1>3, <1>4, FlattenedAppend
<1>7. QED
  BY <1>5, <1>6 DEF more

LEMMA ConcatAssociative ==
  ASSUME NEW X, NEW a \in Seq(X), NEW b \in Seq(X), NEW c \in Seq(X)
  PROVE  (a \o b) \o c = a \o (b \o c)
OBVIOUS

LEMMA AppendAfter ==
  ASSUME NEW X, NEW a \in Seq(X), NEW b \in Seq(X), NEW x \in X
  PROVE  a \o Append(b, x) = Append(a \o b, x)
OBVIOUS

(* A sequence with an element is one that it was appended to.              *)
LEMMA FrontAndLast ==
  ASSUME NEW X, NEW n \in Nat, NEW s \in Seq(X), Len(s) = n + 1
  PROVE  /\ SubSeq(s, 1, n) \in Seq(X) /\ Len(SubSeq(s, 1, n)) = n /\ s[n + 1] \in X
         /\ \A i \in 1 .. n : SubSeq(s, 1, n)[i] = s[i]
         /\ s = Append(SubSeq(s, 1, n), s[n + 1])
<1> DEFINE f == SubSeq(s, 1, n)
<1>1. /\ f \in Seq(X) /\ Len(f) = n /\ s[n + 1] \in X
      /\ \A i \in 1 .. n : f[i] = s[i]
  OBVIOUS
<1> HIDE DEF f
<1>2. s = Append(f, s[n + 1])
  BY <1>1
<1>3. QED
  BY <1>1, <1>2 DEF f

LEMMA ChosenConcat ==
  ASSUME NEW X, NEW a \in Seq(X), NEW b \in Seq(X), NEW set
  PROVE  Chosen(a \o b, set) = Chosen(a, set) \o Chosen(b, set)
<1> DEFINE Splits(s) == Chosen(a \o s, set) = Chosen(a, set) \o Chosen(s, set)
           S == {n \in Nat : \A s \in Seq(X) : Len(s) = n => Splits(s)}
<1>0. \A s \in Seq(X) : Chosen(s, set) \in Seq(X)
  BY ChosenType
<1>1. 0 \in S
  <2>1. ASSUME NEW s \in Seq(X), Len(s) = 0 PROVE Splits(s)
    <3>1. s = <<>> /\ a \o s = a
      BY <2>1
    <3>2. Chosen(s, set) = <<>>
      BY <3>1, ChosenOfNone
    <3>3. Chosen(a, set) \o <<>> = Chosen(a, set)
      BY <1>0
    <3>4. QED
      BY <3>1, <3>2, <3>3
  <2>2. QED
    BY <2>1
<1>2. ASSUME NEW n \in Nat, n \in S PROVE n + 1 \in S
  <2>1. ASSUME NEW s \in Seq(X), Len(s) = n + 1 PROVE Splits(s)
    <3> DEFINE f == SubSeq(s, 1, n)
               x == s[n + 1]
    <3>1. f \in Seq(X) /\ x \in X /\ Len(f) = n /\ s = Append(f, x)
      BY <2>1, FrontAndLast
    <3> HIDE DEF f, x
    <3>2. Chosen(a \o f, set) = Chosen(a, set) \o Chosen(f, set)
      BY <1>2, <3>1
    <3>3. a \o s = Append(a \o f, x) /\ a \o f \in Seq(X)
      <4>1. a \o Append(f, x) = Append(a \o f, x)
        BY AppendAfter
      <4>2. QED
        BY <3>1, <4>1
    <3>4. Chosen(a \o s, set) = Chosen(a \o f, set) \o Part(x, set)
      <4>1. Chosen(Append(a \o f, x), set) = Chosen(a \o f, set) \o Part(x, set)
        BY <3>1, <3>3, ChosenAppend
      <4>2. QED
        BY <3>3, <4>1
    <3>5. Chosen(s, set) = Chosen(f, set) \o Part(x, set)
      BY <3>1, ChosenAppend
    <3>6. (Chosen(a, set) \o Chosen(f, set)) \o Part(x, set)
             = Chosen(a, set) \o (Chosen(f, set) \o Part(x, set))
      <4>1. /\ Chosen(a, set) \in Seq(X) /\ Chosen(f, set) \in Seq(X)
            /\ Part(x, set) \in Seq(X)
        BY <1>0, <3>1, PartType
      <4>2. QED
        BY SMTT(60), <4>1, ConcatAssociative
    <3>7. QED
      BY <3>2, <3>4, <3>5, <3>6
  <2>2. QED
    BY <2>1
<1> HIDE DEF S
<1>3. Nat \subseteq S
  BY <1>1, <1>2, Induction
<1>4. Len(b) \in S
  BY <1>3
<1>5. QED
  BY <1>4 DEF S

LEMMA ChosenNothing ==
  ASSUME NEW X, NEW names \in Seq(X), NEW set,
         \A i \in 1 .. Len(names) : names[i] \notin set
  PROVE  Chosen(names, set) = <<>>
<1> DEFINE NoneIn(s) == \A i \in 1 .. Len(s) : s[i] \notin set
           S == {n \in Nat : \A s \in Seq(X) :
                               Len(s) = n /\ NoneIn(s) => Chosen(s, set) = <<>>}
<1>1. 0 \in S
  <2>1. ASSUME NEW s \in Seq(X), Len(s) = 0 PROVE Chosen(s, set) = <<>>
    <3>1. s = <<>>
      BY <2>1
    <3>2. QED
      BY <3>1, ChosenOfNone
  <2>2. QED
    BY <2>1
<1>2. ASSUME NEW n \in Nat, n \in S PROVE n + 1 \in S
  <2>1. ASSUME NEW s \in Seq(X), Len(s) = n + 1, NoneIn(s)
        PROVE  Chosen(s, set) = <<>>
    <3> DEFINE f == SubSeq(s, 1, n)
               x == s[n + 1]
    <3>1. /\ f \in Seq(X) /\ x \in X /\ Len(f) = n
          /\ s = Append(f, x) /\ \A i \in 1 .. n : f[i] = s[i]
      BY <2>1, FrontAndLast
    <3> HIDE DEF f, x
    <3>2. NoneIn(f) /\ x \notin set
      <4>1. n + 1 \in 1 .. Len(s) /\ s[n + 1] = x
        BY <2>1 DEF x
      <4>2. \A i \in 1 .. n : i \in 1 .. Len(s)
        BY <2>1
      <4>3. QED
        BY <2>1, <3>1, <4>1, <4>2
    <3>3. Chosen(f, set) = <<>>
      BY <1>2, <3>1, <3>2
    <3>4. Chosen(s, set) = Chosen(f, set) \o Part(x, set) /\ Part(x, set) = <<>>
      BY <3>1, <3>2, ChosenAppend DEF Part
    <3>5. <<>> \o <<>> = <<>>
      OBVIOUS
    <3>6. QED
      BY <3>3, <3>4, <3>5
  <2>2. QED
    BY <2>1
<1> HIDE DEF S
<1>3. Nat \subseteq S
  BY <1>1, <1>2, Induction
<1>4. Len(names) \in S
  BY <1>3
<1>5. QED
  BY <1>4 DEF S

LEMMA ChosenOne ==
  ASSUME NEW X, NEW x \in X, NEW set
  PROVE  Chosen(<<x>>, set) = Part(x, set)
<1>1. <<x>> = Append(<<>>, x) /\ <<>> \in Seq(X)
  OBVIOUS
<1>2. Chosen(Append(<<>>, x), set) = Chosen(<<>>, set) \o Part(x, set)
  BY <1>1, ChosenAppend
<1>3. Part(x, set) \in Seq(X)
  BY PartType
<1>4. Chosen(<<>>, set) = <<>>
  BY ChosenOfNone
<1>5. <<>> \o Part(x, set) = Part(x, set)
  BY <1>3
<1>6. QED
  BY <1>1, <1>2, <1>4, <1>5

(* The first name that is chosen is the head, and the others are chosen of *)
(* the names without it; those after it are all that are.                  *)
LEMMA ChosenFirst ==
  ASSUME NEW X, NEW names \in Seq(X), NEW set, NEW i \in 1 .. Len(names),
         names[i] \in set, \A j \in 1 .. i - 1 : names[j] \notin set
  PROVE  /\ RemoveAt(names, i) \in Seq(X)
         /\ Chosen(names, set) = <<names[i]>> \o Chosen(RemoveAt(names, i), set)
         /\ (\A j \in i + 1 .. Len(names) : names[j] \notin set)
               => Chosen(RemoveAt(names, i), set) = <<>>
<1> DEFINE n == Len(names)
           pre == SubSeq(names, 1, i - 1)
           post == SubSeq(names, i + 1, n)
           x == names[i]
<1>1. /\ pre \in Seq(X) /\ post \in Seq(X) /\ x \in X
      /\ Len(pre) = i - 1 /\ \A j \in 1 .. i - 1 : pre[j] = names[j]
      /\ Len(post) = n - i /\ \A j \in 1 .. n - i : post[j] = names[j + i]
  OBVIOUS
<1>2. names = (pre \o <<x>>) \o post
  <2> DEFINE front == SubSeq(names, 1, i)
  <2>1. front \in Seq(X) /\ front = Append(pre, x)
    OBVIOUS
  <2>2. Append(pre, x) = pre \o <<x>>
    BY <1>1
  <2>3. names = front \o post
    OBVIOUS
  <2>4. QED
    BY <2>1, <2>2, <2>3
<1>3. RemoveAt(names, i) = pre \o post
  BY DEF RemoveAt
<1>4. \A j \in 1 .. Len(pre) : pre[j] \notin set
  BY <1>1
<1>5. (\A j \in i + 1 .. n : names[j] \notin set) => \A j \in 1 .. Len(post) : post[j] \notin set
  <2> SUFFICES ASSUME \A j \in i + 1 .. n : names[j] \notin set, NEW j \in 1 .. Len(post)
               PROVE  post[j] \notin set
    OBVIOUS
  <2>1. n \in Nat /\ i \in Nat /\ j \in 1 .. n - i
    BY <1>1
  <2>2. j + i \in i + 1 .. n
    <3> HIDE DEF n
    <3>1. QED
      BY <2>1
  <2>3. QED
    BY <1>1, <2>1, <2>2
<1> HIDE DEF pre, post, x, n
<1>6. Chosen(pre, set) = <<>> /\ Chosen(<<x>>, set) = <<x>>
  <2>1. Part(x, set) = <<x>>
    BY DEF Part, x
  <2>2. QED
    BY <1>1, <1>4, <2>1, ChosenNothing, ChosenOne
<1>7. Chosen(post, set) \in Seq(X)
  BY <1>1, ChosenType
<1>8. Chosen(pre \o post, set) = Chosen(post, set)
  <2>1. Chosen(pre \o post, set) = Chosen(pre, set) \o Chosen(post, set)
    BY <1>1, ChosenConcat
  <2>2. <<>> \o Chosen(post, set) = Chosen(post, set)
    BY <1>7
  <2>3. QED
    BY <1>6, <2>1, <2>2
<1>9. Chosen(names, set) = <<x>> \o Chosen(post, set)
  <2> DEFINE one == <<x>>
  <2>0. one \in Seq(X)
    BY <1>1
  <2>1. <<>> \o one = one
    BY <1>1
  <2>2. Chosen(one, set) = one
    BY <1>6
  <2> HIDE DEF one
  <2> DEFINE front == pre \o one
  <2>3. pre \in Seq(X) /\ post \in Seq(X) /\ front \in Seq(X)
    BY <1>1, <2>0
  <2>4. Chosen(pre \o one, set) = Chosen(pre, set) \o Chosen(one, set)
    BY SMTT(60), <2>0, <2>3, ChosenConcat
  <2>5. Chosen(front \o post, set) = Chosen(front, set) \o Chosen(post, set)
    <3> HIDE DEF front
    <3>1. QED
      BY SMTT(60), <2>3, ChosenConcat
  <2>6. Chosen(pre \o one, set) = one
    BY <1>6, <2>1, <2>2, <2>4
  <2>7. QED
    BY <1>2, <2>5, <2>6 DEF one
<1>10. pre \o post \in Seq(X)
  BY <1>1
<1>11. (\A j \in i + 1 .. n : names[j] \notin set) => Chosen(post, set) = <<>>
  BY <1>1, <1>5, ChosenNothing
<1>12. QED
  BY <1>3, <1>8, <1>9, <1>10, <1>11 DEF x, n

ItemName == STRING \cup (STRING \X {"derived"})
Package == {e.package : e \in Expansions} \cup {Missing}
MacroCall == [component : Component, item : ItemName,
              at : {"item", "derive"} \cup STRING, macro : STRING,
              result : Results, package : Package]

HostType ==
    /\ unit \in Units
    /\ pending \in Seq(Item)
    /\ kept \subseteq Item
    /\ macroCalls \in Seq(MacroCall)

LEMMA Fields ==
  ASSUME NEW item \in Item
  PROVE  /\ item.component \in Component /\ item.name \in ItemName
         /\ item.attrs \in Seq(STRING) /\ item.derives \in Seq(STRING)
         /\ item.funcs \in Seq(Func) /\ item.keys \in SUBSET STRING
BY DEF Item, ItemName

LEMMA CallType ==
  ASSUME NEW item \in Item, NEW at \in {"item", "derive"} \cup STRING, NEW name \in STRING,
         NEW kind \in {"attr", "derive"}, NEW result \in Results
  PROVE  /\ Call(item, at, name, kind, result) \in MacroCall
         /\ Call(item, at, name, kind, result).component = item.component
         /\ Call(item, at, name, kind, result).item = item.name
         /\ Call(item, at, name, kind, result).at = at
         /\ Call(item, at, name, kind, result).macro = name
         /\ Call(item, at, name, kind, result).result = result
<1>1. item.component \in Component /\ item.name \in ItemName
  BY Fields
<1>2. FindExpansion(item.component, name, kind) \in Package
  BY DEF Package, FindExpansion, Declared
<1>3. QED
  BY <1>1, <1>2 DEF Call, MacroCall

LEMMA HeadAndTail ==
  ASSUME NEW X, NEW s \in Seq(X), s # <<>>
  PROVE  Head(s) \in X /\ Tail(s) \in Seq(X)
OBVIOUS

(* The item that is visited, and what the queue holds without it.          *)
LEMMA VisitedItem ==
  ASSUME HostType, NEW item, Visited(item)
  PROVE  /\ item \in Item /\ item = pending[1] /\ Len(pending) # 0
         /\ Tail(pending) \in Seq(Item) /\ Len(Tail(pending)) = Len(pending) - 1
         /\ \A i \in 1 .. Len(pending) - 1 : Tail(pending)[i] = pending[i + 1]
<1>1. pending \in Seq(Item) /\ pending # <<>> /\ item = Head(pending)
  BY DEF HostType, Visited
<1>2. QED
  BY <1>1

(* What is found in a function's attributes, and the item without it.      *)
InnerFound(item) ==
    ParseAttrs(item.component, item.funcs[FirstInner(item)].attrs)

FoundType == [name : STRING, others : Seq(STRING), last : BOOLEAN]

LEMMA ParsedType ==
  ASSUME NEW c, NEW attrs \in Seq(STRING), ParseAttrs(c, attrs) # Missing
  PROVE  ParseAttrs(c, attrs) \in FoundType
<1>1. PICK i \in 1 .. Len(attrs) :
         ParseAttrs(c, attrs) =
                  [name |-> attrs[i], others |-> RemoveAt(attrs, i),
                   last |-> \A j \in i + 1 .. Len(attrs) : ~IsAttr(c, attrs[j])]
  BY FirstAttr
<1>2. attrs[i] \in STRING
  BY <1>1
<1>3. RemoveAt(attrs, i) \in Seq(STRING)
  BY <1>1 DEF RemoveAt
<1>4. QED
  BY <1>1, <1>2, <1>3 DEF FoundType

Expanded(item, empty) ==
    Extended(item, FirstInner(item),
             IF empty THEN <<>>
             ELSE <<[item.funcs[FirstInner(item)] EXCEPT !.attrs = InnerFound(item).others]>>)

LEMMA ExpandedType ==
  ASSUME NEW item \in Item, FirstInner(item) # 0, NEW empty \in BOOLEAN
  PROVE  /\ FirstInner(item) \in 1 .. Len(item.funcs)
         /\ item.funcs[FirstInner(item)] \in Func
         /\ InnerFound(item) # Missing /\ InnerFound(item) \in FoundType
         /\ Expanded(item, empty) \in Item
         /\ Expanded(item, empty) = [item EXCEPT !.funcs = Expanded(item, empty).funcs]
         /\ Expanded(item, empty).funcs = SubSeq(item.funcs, 1, FirstInner(item) - 1) \o
                (IF empty THEN <<>> ELSE <<[name |-> item.funcs[FirstInner(item)].name,
                                            attrs |-> InnerFound(item).others]>>)
<1> DEFINE k == FirstInner(item)
           f == item.funcs[k]
           found == InnerFound(item)
<1>1. item.funcs \in Seq(Func)
  BY Fields
<1>2. k \in 1 .. Len(item.funcs) /\ found # Missing
  BY FirstFunc DEF InnerFound
<1>3. f \in Func
  BY <1>1, <1>2
<1>4. found \in FoundType
  <2>1. f.attrs \in Seq(STRING)
    BY <1>3 DEF Func
  <2>2. QED
    BY <1>2, <2>1, ParsedType DEF InnerFound
<1> DEFINE g == [f EXCEPT !.attrs = found.others]
           pre == SubSeq(item.funcs, 1, k - 1)
           last == IF empty THEN <<>> ELSE <<g>>
<1>5. g \in Func /\ g = [name |-> f.name, attrs |-> found.others]
  <2> HIDE DEF f, found
  <2>1. QED
    BY <1>3, <1>4 DEF Func, FoundType
<1>6. pre \in Seq(Func)
  <2> HIDE DEF k
  <2>1. QED
    BY <1>1, <1>2
<1>7. last \in Seq(Func)
  <2>1. <<>> \in Seq(Func) /\ \A x \in Func : <<x>> \in Seq(Func)
    OBVIOUS
  <2> HIDE DEF g
  <2>2. QED
    BY <1>5, <2>1
<1>8. Expanded(item, empty) = [item EXCEPT !.funcs = pre \o last]
  BY DEF Expanded, Extended
<1> HIDE DEF pre, last
<1>9. pre \o last \in Seq(Func)
  BY <1>6, <1>7
<1>10. Expanded(item, empty) \in Item /\ Expanded(item, empty).funcs = pre \o last
  BY Zenon, <1>8, <1>9 DEF Item
<1>11. QED
  BY <1>2, <1>3, <1>4, <1>5, <1>8, <1>10 DEF pre, last

LEMMA InnerStep ==
  ASSUME HostType, NEW item, ExpandInnerAttr(item)
  PROVE  /\ item \in Item /\ FirstInner(item) # 0
         /\ \E result \in Results :
               LET call == Call(item, item.funcs[FirstInner(item)].name,
                                InnerFound(item).name, "attr", result)
               IN  /\ call \in MacroCall
                   /\ macroCalls' = Append(macroCalls, call)
                   /\ registered' =
                         IF result.stream = "same" THEN registered
                         ELSE [registered EXCEPT ![call.component][call.package] =
                                  IF @ = Missing THEN result.keys ELSE @]
                   /\ files' = files \cup {i \in {Len(macroCalls) + 1} :
                                             macroCalls'[i].result.data}
                   /\ pending' = Append(Tail(pending),
                                        Expanded(item, result.stream = "empty"))
         /\ kept' = kept /\ unit' = unit /\ callbacks' = callbacks /\ hostStage' = hostStage
<1>1. item \in Item /\ FirstInner(item) # 0
  BY VisitedItem DEF ExpandInnerAttr
<1>2. /\ item.funcs[FirstInner(item)] \in Func /\ InnerFound(item) \in FoundType
  <2>1. TRUE \in BOOLEAN
    OBVIOUS
  <2>2. QED
    BY <1>1, <2>1, ExpandedType
<1>3. item.funcs[FirstInner(item)].name \in STRING /\ InnerFound(item).name \in STRING
  BY <1>2 DEF Func, FoundType
<1>4. PICK result \in Results :
         LET call == Call(item, item.funcs[FirstInner(item)].name,
                          InnerFound(item).name, "attr", result)
         IN  /\ macroCalls' = Append(macroCalls, call)
             /\ IF result.stream = "same" THEN UNCHANGED registered
                ELSE Register(call.component, call.package, result.keys)
             /\ Attach({Len(macroCalls) + 1})
             /\ Rewrite(Expanded(item, result.stream = "empty"))
  BY DEF ExpandInnerAttr, InnerFound, Expanded
<1>5. Call(item, item.funcs[FirstInner(item)].name, InnerFound(item).name, "attr", result)
         \in MacroCall
  BY <1>1, <1>3, CallType
<1>6. kept' = kept /\ unit' = unit /\ callbacks' = callbacks /\ hostStage' = hostStage
  BY <1>4 DEF ExpandInnerAttr, Rewrite
<1>7. QED
  BY Zenon, <1>1, <1>4, <1>5, <1>6 DEF Register, Attach, Rewrite

Found(item) == ParseAttrs(item.component, item.attrs)

(* The item as it comes back without the attribute that was expanded.      *)
Without(item, result) == Marked([item EXCEPT !.attrs = Found(item).others], result)

LEMMA WithoutType ==
  ASSUME NEW item \in Item, Found(item) # Missing, NEW result \in Results
  PROVE  /\ Found(item) \in FoundType /\ Without(item, result) \in Item
         /\ Without(item, result).attrs = Found(item).others
         /\ Without(item, result).name = item.name
         /\ Without(item, result).component = item.component
         /\ Without(item, result).kind = item.kind
         /\ Without(item, result).derives = item.derives
         /\ Without(item, result).funcs = item.funcs
<1>1. Found(item) \in FoundType
  BY Fields, ParsedType DEF Found
<1> DEFINE others == Found(item).others
           bare == [item EXCEPT !.attrs = others]
<1>2. others \in Seq(STRING)
  BY <1>1 DEF FoundType
<1>3. result.keys \in SUBSET STRING /\ item.keys \in SUBSET STRING
  BY HostAssumption, Fields
<1> HIDE DEF others
<1>4. bare \in Item /\ bare.keys = item.keys
  BY <1>2 DEF Item
<1>5. Without(item, result) = IF result.stream = "changed"
                              THEN [bare EXCEPT !.keys = item.keys \cup result.keys] ELSE bare
  BY <1>4 DEF Without, Marked, others
<1>6. item.keys \cup result.keys \in SUBSET STRING
  BY <1>3
<1>7. /\ bare.attrs = others /\ bare.name = item.name /\ bare.component = item.component
      /\ bare.kind = item.kind /\ bare.derives = item.derives /\ bare.funcs = item.funcs
  BY DEF Item
<1> HIDE DEF bare
<1>8. Without(item, result) \in Item
  BY ZenonT(40), <1>4, <1>5, <1>6 DEF Item
<1>9. /\ Without(item, result).attrs = bare.attrs /\ Without(item, result).name = bare.name
      /\ Without(item, result).component = bare.component
      /\ Without(item, result).kind = bare.kind
      /\ Without(item, result).derives = bare.derives
      /\ Without(item, result).funcs = bare.funcs
  BY <1>4, <1>5 DEF Item
<1>10. QED
  BY <1>1, <1>7, <1>8, <1>9 DEF others

LEMMA AttributeStep ==
  ASSUME HostType, NEW item, ExpandAttribute(item)
  PROVE  /\ item \in Item /\ FirstInner(item) = 0 /\ Found(item) # Missing
         /\ \E result \in Results :
               LET call == Call(item, "item", Found(item).name, "attr", result)
               IN  /\ call \in MacroCall
                   /\ macroCalls' = Append(macroCalls, call)
                   /\ \/ /\ result.stream = "empty" /\ pending' = Tail(pending)
                         /\ kept' = kept /\ files' = files /\ registered' = registered
                      \/ /\ result.stream # "empty"
                         /\ registered' =
                               [registered EXCEPT ![call.component][call.package] =
                                  IF @ = Missing THEN result.keys ELSE @]
                         /\ \/ /\ Optimised(Found(item), result) /\ files' = files
                               /\ pending' = Tail(pending) /\ kept' = kept \cup {item}
                            \/ /\ ~Optimised(Found(item), result) /\ kept' = kept
                               /\ pending' = Append(Tail(pending), Without(item, result))
                               /\ files' = files \cup {i \in {Len(macroCalls) + 1} :
                                             macroCalls'[i].result.data}
         /\ unit' = unit /\ callbacks' = callbacks /\ hostStage' = hostStage
<1>1. item \in Item /\ FirstInner(item) = 0 /\ Found(item) # Missing
  BY VisitedItem DEF ExpandAttribute, Found
<1>2. Found(item) \in FoundType
  BY <1>1, Fields, ParsedType DEF Found
<1>3. Found(item).name \in STRING
  <2> DEFINE found == Found(item)
  <2> HIDE DEF found
  <2>1. found \in FoundType
    BY <1>2 DEF found
  <2>2. found.name \in STRING
    BY <2>1 DEF FoundType
  <2>3. QED
    BY <2>2 DEF found
<1>4. PICK result \in Results :
         LET call == Call(item, "item", Found(item).name, "attr", result)
         IN  /\ macroCalls' = Append(macroCalls, call)
             /\ \/ /\ result.stream = "empty"
                   /\ pending' = Tail(pending)
                   /\ UNCHANGED <<kept, files, registered>>
                \/ /\ result.stream # "empty"
                   /\ Register(call.component, call.package, result.keys)
                   /\ IF Optimised(Found(item), result)
                      THEN Leave(item) /\ UNCHANGED files
                      ELSE /\ Rewrite(Without(item, result))
                           /\ Attach({Len(macroCalls) + 1})
  BY DEF ExpandAttribute, Found, Without
<1>5. Call(item, "item", Found(item).name, "attr", result) \in MacroCall
  <2>1. "item" \in {"item", "derive"} \cup STRING /\ "attr" \in {"attr", "derive"}
    OBVIOUS
  <2>2. QED
    BY <1>1, <1>3, <2>1, CallType
<1>6. unit' = unit /\ callbacks' = callbacks /\ hostStage' = hostStage
  BY DEF ExpandAttribute
<1> HIDE DEF Optimised
<1>7. QED
  BY <1>1, <1>4, <1>5, <1>6 DEF Register, Attach, Rewrite, Leave

DeriveCalls(item, result) ==
    [i \in DOMAIN ParseDerive(item) |->
        Call(item, "derive", ParseDerive(item)[i], "derive", result[i])]

LEMMA DeriveCallsType ==
  ASSUME NEW item \in Item, NEW result \in [DOMAIN ParseDerive(item) -> Results]
  PROVE  /\ ParseDerive(item) \in Seq(STRING)
         /\ DeriveCalls(item, result) \in Seq(MacroCall)
         /\ Len(DeriveCalls(item, result)) = Len(ParseDerive(item))
         /\ \A i \in 1 .. Len(ParseDerive(item)) :
               /\ DeriveCalls(item, result)[i].component = item.component
               /\ DeriveCalls(item, result)[i].item = item.name
               /\ DeriveCalls(item, result)[i].at = "derive"
               /\ DeriveCalls(item, result)[i].macro = ParseDerive(item)[i]
               /\ DeriveCalls(item, result)[i].result = result[i]
<1> DEFINE derives == ParseDerive(item)
           n == Len(derives)
           made == DeriveCalls(item, result)
<1>1. derives \in Seq(STRING)
  BY Fields, ChosenType DEF ParseDerive
<1>2. n \in Nat /\ DOMAIN derives = 1 .. n /\ \A i \in 1 .. n : derives[i] \in STRING
  BY <1>1
<1>3. \A i \in 1 .. n : made[i] = Call(item, "derive", derives[i], "derive", result[i])
  BY <1>2 DEF DeriveCalls
<1>4. \A i \in 1 .. n : result[i] \in Results
  BY <1>2
<1>5. ASSUME NEW i \in 1 .. n
      PROVE  /\ made[i] \in MacroCall
             /\ made[i].component = item.component /\ made[i].item = item.name
             /\ made[i].at = "derive" /\ made[i].macro = derives[i]
             /\ made[i].result = result[i]
  <2> DEFINE name == derives[i]
             outcome == result[i]
  <2>1. name \in STRING /\ outcome \in Results
    <3> HIDE DEF derives, n
    <3>1. QED
      BY <1>2, <1>4
  <2>2. "derive" \in {"item", "derive"} \cup STRING /\ "derive" \in {"attr", "derive"}
    OBVIOUS
  <2>3. made[i] = Call(item, "derive", name, "derive", outcome)
    BY <1>3
  <2> HIDE DEF made, derives, name, outcome
  <2>4. /\ made[i] \in MacroCall
        /\ made[i].component = item.component /\ made[i].item = item.name
        /\ made[i].at = "derive" /\ made[i].macro = name
        /\ made[i].result = outcome
    BY <2>1, <2>2, <2>3, CallType
  <2>5. QED
    BY <2>4 DEF name, outcome
<1>6. made \in Seq(MacroCall) /\ Len(made) = n
  <2>1. made = [i \in 1 .. n |-> Call(item, "derive", derives[i], "derive", result[i])]
    BY <1>2 DEF DeriveCalls
  <2> DEFINE call(i) == Call(item, "derive", derives[i], "derive", result[i])
  <2>2. \A i \in 1 .. n : call(i) \in MacroCall
    BY <1>3, <1>5
  <2> HIDE DEF made, derives, n, call
  <2>3. made = [i \in 1 .. n |-> call(i)]
    BY <2>1 DEF call
  <2>4. QED
    BY <1>2, <2>2, <2>3
<1>7. QED
  BY <1>1, <1>5, <1>6

LEMMA DerivedType ==
  ASSUME NEW item \in Item, item.name \in STRING
  PROVE  /\ DerivedFrom(item) \in Item /\ DerivedFrom(item).derives = <<>>
         /\ DerivedFrom(item).name = <<item.name, "derived">>
<1>1. <<>> \in Seq(STRING) /\ {} \in SUBSET STRING
  OBVIOUS
<1>2. <<item.name, "derived">> \in STRING \cup (STRING \X {"derived"})
  <2>1. \A name \in STRING : <<name, "derived">> \in STRING \X {"derived"}
    OBVIOUS
  <2>2. QED
    BY <2>1
<1>3. QED
  BY <1>1, <1>2 DEF DerivedFrom, Item

LEMMA DeriveStep ==
  ASSUME HostType, NEW item, ExpandDerives(item)
  PROVE  /\ item \in Item /\ ParseDerive(item) # <<>> /\ FirstInner(item) = 0
         /\ Found(item) = Missing
         /\ \E result \in [DOMAIN ParseDerive(item) -> Results] :
               /\ macroCalls' = macroCalls \o DeriveCalls(item, result)
               /\ IF \E i \in DOMAIN ParseDerive(item) : result[i].stream # "empty"
                  THEN /\ pending' = Append(Tail(pending), DerivedFrom(item))
                       /\ files' = files \cup
                             {i \in Len(macroCalls) + 1 .. Len(macroCalls') :
                                 macroCalls'[i].result.data}
                  ELSE pending' = Tail(pending) /\ files' = files
         /\ kept' = kept \cup {item} /\ registered' = registered
         /\ unit' = unit /\ callbacks' = callbacks /\ hostStage' = hostStage
<1>1. /\ item \in Item /\ FirstInner(item) = 0 /\ Found(item) = Missing
      /\ ParseDerive(item) # <<>>
  BY VisitedItem DEF ExpandDerives, Found
<1>2. PICK result \in [DOMAIN ParseDerive(item) -> Results] :
                  /\ macroCalls' = macroCalls \o DeriveCalls(item, result)
                  /\ kept' = kept \cup {item}
                  /\ IF \E i \in DOMAIN ParseDerive(item) : result[i].stream # "empty"
                     THEN /\ pending' = Append(Tail(pending), DerivedFrom(item))
                          /\ Attach(Len(macroCalls) + 1 .. Len(macroCalls'))
                     ELSE pending' = Tail(pending) /\ UNCHANGED files
  BY DEF ExpandDerives, DeriveCalls
<1>3. unit' = unit /\ callbacks' = callbacks /\ hostStage' = hostStage /\ registered' = registered
  BY DEF ExpandDerives
<1>4. QED
  BY <1>1, <1>2, <1>3 DEF Attach

LEMMA UntouchedStep ==
  ASSUME HostType, NEW item, Untouched(item)
  PROVE  /\ item \in Item /\ pending' = Tail(pending) /\ kept' = kept \cup {item}
         /\ unit' = unit /\ hostStage' = hostStage /\ files' = files
         /\ registered' = registered /\ macroCalls' = macroCalls /\ callbacks' = callbacks
BY VisitedItem DEF Untouched, Leave

Names == {unit.items[i].name : i \in DOMAIN unit.items}

Pieces ==
    /\ \A i \in DOMAIN pending :
           \/ pending[i].name \in Names
           \/ /\ pending[i].derives = <<>>
              /\ \E n \in Names : pending[i].name = <<n, "derived">>
    /\ \A i, j \in DOMAIN pending :
           pending[i].name \in Names /\ pending[i].name = pending[j].name => i = j
    /\ \A i \in DOMAIN pending : pending[i].name \in Names =>
           /\ \A now \in kept : now.name # pending[i].name
           /\ \A j \in DOMAIN macroCalls :
                  macroCalls[j].at = "derive" => macroCalls[j].item # pending[i].name

LEMMA NamesApart ==
  ASSUME HostType
  PROVE  Names \subseteq STRING /\ \A n \in Names : <<n, "derived">> \notin Names
BY HostAssumption DEF HostType, Names

LEMMA QueueMoves ==
  ASSUME NEW X, NEW s \in Seq(X), s # <<>>, NEW x \in X
  PROVE  /\ Append(Tail(s), x) \in Seq(X) /\ Len(Append(Tail(s), x)) = Len(s)
         /\ Append(Tail(s), x)[Len(s)] = x
         /\ \A i \in 1 .. Len(s) - 1 : Append(Tail(s), x)[i] = s[i + 1]
OBVIOUS

(* The calls of derives are those of before, or those of one item.         *)
Derives(names) ==
    \A j \in DOMAIN macroCalls' : macroCalls'[j].at = "derive" =>
        \/ macroCalls'[j].item \in names
        \/ \E i \in DOMAIN macroCalls :
               macroCalls[i].at = "derive" /\ macroCalls[i].item = macroCalls'[j].item

(* The item leaves the queue, ...                                          *)
LEMMA PiecesDropped ==
  ASSUME HostType, Pieces, pending # <<>>, NEW item, item = pending[1], unit' = unit,
         pending' = Tail(pending), kept' \in {kept, kept \cup {item}},
         Derives({item.name})
  PROVE  Pieces'
<1> DEFINE n == Len(pending)
<1>1. /\ n \in Nat \ {0} /\ Len(pending') = n - 1 /\ DOMAIN pending = 1 .. n
      /\ DOMAIN pending' = 1 .. n - 1
      /\ \A i \in 1 .. n - 1 : pending'[i] = pending[i + 1]
  BY DEF HostType
<1>2. Names' = Names
  BY DEF Names
<1> HIDE DEF n
<1>3. \A i \in DOMAIN pending' : i + 1 \in DOMAIN pending /\ i + 1 # 1 /\ 1 \in DOMAIN pending
  BY <1>1
<1>4. ASSUME NEW i \in DOMAIN pending', pending'[i].name \in Names
      PROVE  pending'[i].name # item.name
  BY <1>1, <1>3, <1>4 DEF Pieces
<1>5. \A i \in DOMAIN pending' :
           \/ pending'[i].name \in Names
           \/ /\ pending'[i].derives = <<>>
              /\ \E m \in Names : pending'[i].name = <<m, "derived">>
  BY <1>1, <1>3 DEF Pieces
<1>6. ASSUME NEW i \in DOMAIN pending', NEW j \in DOMAIN pending',
             pending'[i].name \in Names, pending'[i].name = pending'[j].name
      PROVE  i = j
  <2>1. i + 1 = j + 1
    BY <1>1, <1>3, <1>6 DEF Pieces
  <2>2. QED
    BY <1>1, <2>1
<1>7. ASSUME NEW i \in DOMAIN pending', pending'[i].name \in Names
      PROVE  /\ \A now \in kept' : now.name # pending'[i].name
             /\ \A j \in DOMAIN macroCalls' :
                  macroCalls'[j].at = "derive" => macroCalls'[j].item # pending'[i].name
  BY <1>1, <1>3, <1>4, <1>7 DEF Pieces, Derives
<1>8. QED
  BY <1>2, <1>5, <1>6, <1>7 DEF Pieces

(* ... or comes back to it under its name ...                              *)
LEMMA PiecesBack ==
  ASSUME HostType, Pieces, pending # <<>>, NEW item, item = pending[1], unit' = unit,
         NEW new \in Item, new.name = item.name, new.derives = item.derives,
         pending' = Append(Tail(pending), new), kept' = kept, Derives({})
  PROVE  Pieces'
<1> DEFINE n == Len(pending)
<1>1. /\ n \in Nat \ {0} /\ Len(pending') = n /\ DOMAIN pending = 1 .. n
      /\ DOMAIN pending' = 1 .. n /\ pending'[n] = new
      /\ \A i \in 1 .. n - 1 : pending'[i] = pending[i + 1]
  BY QueueMoves DEF HostType
<1>2. Names' = Names
  BY DEF Names
<1> HIDE DEF n
<1> DEFINE at(i) == IF i = n THEN 1 ELSE i + 1
<1>3. \A i \in DOMAIN pending' :
         /\ at(i) \in DOMAIN pending /\ pending'[i].name = pending[at(i)].name
         /\ pending'[i].derives = pending[at(i)].derives
  BY <1>1
<1>4. \A i, j \in DOMAIN pending' : at(i) = at(j) => i = j
  BY <1>1
<1> HIDE DEF at
<1>5. \A i \in DOMAIN pending' :
           \/ pending'[i].name \in Names
           \/ /\ pending'[i].derives = <<>>
              /\ \E m \in Names : pending'[i].name = <<m, "derived">>
  BY <1>3 DEF Pieces
<1>6. ASSUME NEW i \in DOMAIN pending', NEW j \in DOMAIN pending',
             pending'[i].name \in Names, pending'[i].name = pending'[j].name
      PROVE  i = j
  BY <1>3, <1>4, <1>6 DEF Pieces
<1>7. ASSUME NEW i \in DOMAIN pending', pending'[i].name \in Names
      PROVE  /\ \A now \in kept' : now.name # pending'[i].name
             /\ \A j \in DOMAIN macroCalls' :
                  macroCalls'[j].at = "derive" => macroCalls'[j].item # pending'[i].name
  BY <1>3, <1>7 DEF Pieces, Derives
<1>8. QED
  BY <1>2, <1>5, <1>6, <1>7 DEF Pieces

(* ... or what is derived from it comes in its place.                      *)
LEMMA PiecesDerived ==
  ASSUME HostType, Pieces, pending # <<>>, NEW item, item = pending[1], unit' = unit,
         item.name \in Names, NEW new \in Item, new.name = <<item.name, "derived">>,
         new.derives = <<>>, pending' = Append(Tail(pending), new),
         kept' = kept \cup {item}, Derives({item.name})
  PROVE  Pieces'
<1> DEFINE n == Len(pending)
<1>1. /\ n \in Nat \ {0} /\ Len(pending') = n /\ DOMAIN pending = 1 .. n
      /\ DOMAIN pending' = 1 .. n /\ pending'[n] = new
      /\ \A i \in 1 .. n - 1 : pending'[i] = pending[i + 1]
  BY QueueMoves DEF HostType
<1>2. Names' = Names /\ new.name \notin Names
  BY NamesApart DEF Names
<1> HIDE DEF n
<1>3. ASSUME NEW i \in DOMAIN pending', i # n
      PROVE  /\ i + 1 \in DOMAIN pending /\ i + 1 # 1 /\ 1 \in DOMAIN pending
             /\ pending'[i] = pending[i + 1]
  BY <1>1, <1>3
<1>4. ASSUME NEW i \in DOMAIN pending', pending'[i].name \in Names
      PROVE  /\ i # n /\ pending'[i].name # item.name
  <2>1. i # n
    BY <1>1, <1>2, <1>4
  <2>2. QED
    BY <1>3, <1>4, <2>1 DEF Pieces
<1>5. \A i \in DOMAIN pending' :
           \/ pending'[i].name \in Names
           \/ /\ pending'[i].derives = <<>>
              /\ \E m \in Names : pending'[i].name = <<m, "derived">>
  BY <1>1, <1>3 DEF Pieces
<1>6. ASSUME NEW i \in DOMAIN pending', NEW j \in DOMAIN pending',
             pending'[i].name \in Names, pending'[i].name = pending'[j].name
      PROVE  i = j
  <2>1. i # n /\ j # n
    BY <1>4, <1>6
  <2>2. i + 1 = j + 1
    BY <1>3, <1>6, <2>1 DEF Pieces
  <2>3. QED
    BY <1>1, <2>2
<1>7. ASSUME NEW i \in DOMAIN pending', pending'[i].name \in Names
      PROVE  /\ \A now \in kept' : now.name # pending'[i].name
             /\ \A j \in DOMAIN macroCalls' :
                  macroCalls'[j].at = "derive" => macroCalls'[j].item # pending'[i].name
  <2>1. i # n /\ pending'[i].name # item.name
    BY <1>4, <1>7
  <2>2. QED
    BY <1>3, <1>7, <2>1 DEF Pieces, Derives
<1>8. QED
  BY <1>2, <1>5, <1>6, <1>7 DEF Pieces

LEMMA DerivedItem ==
  ASSUME HostType, Pieces, NEW item, ExpandDerives(item)
  PROVE  item.name \in Names /\ item.name \in STRING
<1>1. item = pending[1] /\ Len(pending) # 0 /\ ParseDerive(item) # <<>>
  BY VisitedItem, DeriveStep DEF ExpandDerives
<1>2. item.derives # <<>>
  BY <1>1, ChosenOfNone DEF ParseDerive
<1>3. 1 \in DOMAIN pending
  BY <1>1 DEF HostType
<1>4. QED
  BY <1>1, <1>2, <1>3, NamesApart DEF Pieces

LEMMA TailType ==
  ASSUME HostType, NEW item, Visited(item)
  PROVE  /\ pending # <<>> /\ item = pending[1] /\ Tail(pending) \in Seq(Item)
         /\ \A new \in Item : Append(Tail(pending), new) \in Seq(Item)
<1>1. pending # <<>> /\ item = pending[1] /\ Tail(pending) \in Seq(Item)
  BY VisitedItem DEF Visited
<1>2. QED
  BY <1>1

LEMMA AppendedCall ==
  ASSUME HostType, NEW call \in MacroCall, macroCalls' = Append(macroCalls, call)
  PROVE  /\ macroCalls' \in Seq(MacroCall) /\ Len(macroCalls) \in Nat
         /\ DOMAIN macroCalls = 1 .. Len(macroCalls)
         /\ DOMAIN macroCalls' = 1 .. Len(macroCalls) + 1
         /\ Len(macroCalls') = Len(macroCalls) + 1
         /\ macroCalls'[Len(macroCalls) + 1] = call
         /\ \A i \in DOMAIN macroCalls : i \in DOMAIN macroCalls' /\ macroCalls'[i] = macroCalls[i]
BY DEF HostType

LEMMA JoinedCalls ==
  ASSUME HostType, NEW made \in Seq(MacroCall), macroCalls' = macroCalls \o made
  PROVE  /\ macroCalls' \in Seq(MacroCall) /\ Len(macroCalls) \in Nat /\ Len(made) \in Nat
         /\ DOMAIN macroCalls = 1 .. Len(macroCalls)
         /\ DOMAIN macroCalls' = 1 .. Len(macroCalls) + Len(made)
         /\ Len(macroCalls') = Len(macroCalls) + Len(made)
         /\ \A i \in DOMAIN macroCalls : i \in DOMAIN macroCalls' /\ macroCalls'[i] = macroCalls[i]
         /\ \A i \in Len(macroCalls) + 1 .. Len(macroCalls) + Len(made) :
               /\ i - Len(macroCalls) \in 1 .. Len(made)
               /\ macroCalls'[i] = made[i - Len(macroCalls)]
<1> DEFINE n == Len(macroCalls)
           m == Len(made)
           s == macroCalls
           t == s \o made
<1>1. s \in Seq(MacroCall) /\ n \in Nat /\ m \in Nat /\ DOMAIN s = 1 .. n
  BY DEF HostType
<1>2. t \in Seq(MacroCall) /\ Len(t) = n + m /\ DOMAIN t = 1 .. n + m
  BY <1>1
<1>3. \A i \in 1 .. n : t[i] = s[i]
  BY <1>1
<1>4. \A i \in n + 1 .. n + m : t[i] = made[i - n]
  BY <1>1
<1>5. macroCalls' = t
  OBVIOUS
<1> HIDE DEF t, n, m
<1>6. /\ \A i \in 1 .. n : i \in 1 .. n + m
      /\ \A i \in n + 1 .. n + m : i - n \in 1 .. m
  BY <1>1
<1>7. QED
  BY <1>1, <1>2, <1>3, <1>4, <1>5, <1>6 DEF n, m

(* The name of a function is not taken for that of a derive.               *)
LEMMA InnerAt ==
  ASSUME NEW item \in Item, FirstInner(item) # 0
  PROVE  /\ item.funcs[FirstInner(item)].name \in STRING
         /\ item.funcs[FirstInner(item)].name \notin {"item", "derive"}
         /\ InnerFound(item).name \in STRING
<1>1. item.funcs[FirstInner(item)] \in Func /\ InnerFound(item) \in FoundType
  <2>1. TRUE \in BOOLEAN
    OBVIOUS
  <2>2. QED
    BY <2>1, ExpandedType
<1>2. QED
  BY <1>1 DEF Func, FoundType

LEMMA CallOfInner ==
  ASSUME NEW item \in Item, FirstInner(item) # 0, NEW result \in Results, NEW call,
         call = Call(item, item.funcs[FirstInner(item)].name,
                     InnerFound(item).name, "attr", result)
  PROVE  /\ call \in MacroCall /\ call.at \notin {"item", "derive"}
         /\ call.at = item.funcs[FirstInner(item)].name /\ call.item = item.name
         /\ call.component = item.component /\ call.result = result
         /\ call.macro = InnerFound(item).name
<1>1. "attr" \in {"attr", "derive"}
  OBVIOUS
<1> DEFINE at == item.funcs[FirstInner(item)].name
           name == InnerFound(item).name
<1>2. at \in {"item", "derive"} \cup STRING /\ name \in STRING /\ at \notin {"item", "derive"}
  BY InnerAt
<1>3. call = Call(item, at, name, "attr", result)
  OBVIOUS
<1> HIDE DEF at, name
<1>4. /\ call \in MacroCall /\ call.at = at /\ call.item = item.name
      /\ call.component = item.component /\ call.result = result /\ call.macro = name
  BY <1>1, <1>2, <1>3, CallType
<1>5. QED
  BY <1>2, <1>4 DEF at, name

LEMMA CallOfItem ==
  ASSUME NEW item \in Item, Found(item) # Missing, NEW result \in Results, NEW call,
         call = Call(item, "item", Found(item).name, "attr", result)
  PROVE  /\ call \in MacroCall /\ call.at = "item" /\ call.item = item.name
         /\ call.component = item.component /\ call.result = result
         /\ call.macro = Found(item).name
<1>1. "attr" \in {"attr", "derive"} /\ "item" \in {"item", "derive"} \cup STRING
  OBVIOUS
<1>2. Found(item).name \in STRING
  <2>1. Found(item) \in FoundType
    BY WithoutType
  <2>2. QED
    BY <2>1 DEF FoundType
<1> DEFINE name == Found(item).name
           at == "item"
<1>3. call = Call(item, at, name, "attr", result) /\ name \in STRING
      /\ at \in {"item", "derive"} \cup STRING /\ at = "item"
  BY <1>2
<1> HIDE DEF name, at
<1>4. /\ call \in MacroCall /\ call.at = at /\ call.item = item.name
      /\ call.component = item.component /\ call.result = result /\ call.macro = name
  BY <1>1, <1>3, CallType
<1>5. QED
  BY <1>3, <1>4 DEF name

LEMMA HostTypeStep ==
  ASSUME HostType, Pieces, [HostNext]_hostVars
  PROVE  HostType' /\ Pieces'
<1>1. CASE UNCHANGED hostVars
  BY <1>1 DEF hostVars, HostType, Pieces, Names
<1>2. CASE LoadHosts \/ \E c \in Component : PostProcess(c)
  <2>1. UNCHANGED <<unit, pending, kept, macroCalls>>
    BY <1>2 DEF LoadHosts, PostProcess
  <2>2. QED
    BY <2>1 DEF HostType, Pieces, Names
<1>3. ASSUME NEW item, Untouched(item) PROVE HostType' /\ Pieces'
  <2>1. /\ item \in Item /\ pending' = Tail(pending) /\ kept' = kept \cup {item}
        /\ unit' = unit /\ macroCalls' = macroCalls
    BY <1>3, UntouchedStep
  <2>2. pending # <<>> /\ item = pending[1] /\ Tail(pending) \in Seq(Item)
    BY <1>3, TailType DEF Untouched
  <2>3. HostType'
    BY <2>1, <2>2 DEF HostType
  <2>4. Derives({item.name})
    BY <2>1 DEF Derives
  <2>5. QED
    BY <2>1, <2>2, <2>3, <2>4, PiecesDropped
<1>4. ASSUME NEW item, ExpandInnerAttr(item) PROVE HostType' /\ Pieces'
  <2>1. /\ pending # <<>> /\ item = pending[1]
        /\ \A new \in Item : Append(Tail(pending), new) \in Seq(Item)
    BY SMTT(60), <1>4, TailType DEF ExpandInnerAttr
  <2>2. item \in Item /\ FirstInner(item) # 0 /\ kept' = kept /\ unit' = unit
    BY SMTT(60), <1>4, InnerStep
  <2>3. PICK result \in Results :
           /\ macroCalls' = Append(macroCalls,
                 Call(item, item.funcs[FirstInner(item)].name,
                      InnerFound(item).name, "attr", result))
           /\ pending' = Append(Tail(pending), Expanded(item, result.stream = "empty"))
    BY <1>4, InnerStep
  <2>4. PICK call : call = Call(item, item.funcs[FirstInner(item)].name,
                                InnerFound(item).name, "attr", result)
    OBVIOUS
  <2>5. call \in MacroCall /\ call.at # "derive" /\ macroCalls' = Append(macroCalls, call)
    BY <2>2, <2>3, <2>4, CallOfInner
  <2>6. PICK new : new = Expanded(item, result.stream = "empty")
    OBVIOUS
  <2>7. new \in Item /\ new = [item EXCEPT !.funcs = new.funcs]
    <3> DEFINE empty == result.stream = "empty"
    <3>1. empty \in BOOLEAN
      OBVIOUS
    <3> HIDE DEF empty
    <3>2. /\ Expanded(item, empty) \in Item
          /\ Expanded(item, empty) = [item EXCEPT !.funcs = Expanded(item, empty).funcs]
      BY <2>2, <3>1, ExpandedType
    <3>3. QED
      BY <2>6, <3>2 DEF empty
  <2>8. new.name = item.name /\ new.derives = item.derives
    BY <2>2, <2>7 DEF Item
  <2>9. pending' = Append(Tail(pending), new)
    BY <2>3, <2>6
  <2>10. HostType'
    <3>1. macroCalls' \in Seq(MacroCall)
      BY <2>5, AppendedCall
    <3>2. QED
      BY <2>1, <2>2, <2>7, <2>9, <3>1 DEF HostType
  <2>11. Derives({})
    BY <2>5, AppendedCall DEF Derives
  <2>12. QED
    BY <2>1, <2>2, <2>7, <2>8, <2>9, <2>10, <2>11, PiecesBack
<1>5. ASSUME NEW item, ExpandAttribute(item) PROVE HostType' /\ Pieces'
  <2>1. /\ pending # <<>> /\ item = pending[1] /\ Tail(pending) \in Seq(Item)
        /\ \A new \in Item : Append(Tail(pending), new) \in Seq(Item)
    BY <1>5, TailType DEF ExpandAttribute
  <2>2. item \in Item /\ Found(item) # Missing /\ unit' = unit
    BY <1>5, AttributeStep
  <2>3. PICK result \in Results :
           /\ macroCalls' = Append(macroCalls,
                 Call(item, "item", Found(item).name, "attr", result))
           /\ \/ pending' = Tail(pending) /\ kept' = kept
              \/ pending' = Tail(pending) /\ kept' = kept \cup {item}
              \/ /\ pending' = Append(Tail(pending), Without(item, result))
                 /\ kept' = kept
    BY <1>5, AttributeStep
  <2>4. PICK call : call = Call(item, "item", Found(item).name, "attr", result)
    OBVIOUS
  <2>5. call \in MacroCall /\ call.at # "derive" /\ macroCalls' = Append(macroCalls, call)
    BY <2>2, <2>3, <2>4, CallOfItem
  <2>6. macroCalls' \in Seq(MacroCall) /\ Derives({}) /\ Derives({item.name})
    BY <2>5, AppendedCall DEF Derives
  <2>7. CASE pending' = Tail(pending) /\ kept' \in {kept, kept \cup {item}}
    <3>1. HostType'
      BY <2>1, <2>2, <2>6, <2>7 DEF HostType
    <3>2. QED
      BY <2>1, <2>2, <2>6, <2>7, <3>1, PiecesDropped
  <2>8. CASE pending' = Append(Tail(pending), Without(item, result)) /\ kept' = kept
    <3>1. PICK new : new = Without(item, result)
      OBVIOUS
    <3>2. new \in Item /\ new.name = item.name /\ new.derives = item.derives
      BY <2>2, <3>1, WithoutType
    <3>3. HostType'
      BY <2>1, <2>2, <2>6, <2>8, <3>1, <3>2 DEF HostType
    <3>4. QED
      BY <2>1, <2>2, <2>6, <2>8, <3>1, <3>2, <3>3, PiecesBack
  <2>9. QED
    BY <2>3, <2>7, <2>8
<1>6. ASSUME NEW item, ExpandDerives(item) PROVE HostType' /\ Pieces'
  <2>1. /\ pending # <<>> /\ item = pending[1] /\ Tail(pending) \in Seq(Item)
        /\ \A new \in Item : Append(Tail(pending), new) \in Seq(Item)
    BY <1>6, TailType DEF ExpandDerives
  <2>2. item \in Item /\ kept' = kept \cup {item} /\ unit' = unit
    BY <1>6, DeriveStep
  <2>3. PICK result \in [DOMAIN ParseDerive(item) -> Results] :
           /\ macroCalls' = macroCalls \o DeriveCalls(item, result)
           /\ \/ pending' = Tail(pending)
              \/ pending' = Append(Tail(pending), DerivedFrom(item))
    BY <1>6, DeriveStep
  <2>4. PICK made : made = DeriveCalls(item, result)
    OBVIOUS
  <2>5. /\ made \in Seq(MacroCall)
        /\ \A i \in 1 .. Len(made) : made[i].item = item.name
    BY <2>2, <2>4, DeriveCallsType
  <2>6. macroCalls' = macroCalls \o made
    BY <2>3, <2>4
  <2>7. macroCalls' \in Seq(MacroCall)
    BY <2>5, <2>6, JoinedCalls
  <2>8. Derives({item.name})
    <3>1. ASSUME NEW j \in DOMAIN macroCalls'
          PROVE  \/ macroCalls'[j].item = item.name
                 \/ j \in DOMAIN macroCalls /\ macroCalls'[j] = macroCalls[j]
      <4>1. \/ j \in 1 .. Len(macroCalls)
            \/ j \in Len(macroCalls) + 1 .. Len(macroCalls) + Len(made)
        BY <2>5, <2>6, JoinedCalls
      <4>2. QED
        BY ZenonT(60), <2>5, <2>6, <4>1, JoinedCalls
    <3>2. QED
      BY <3>1 DEF Derives
  <2>9. item.name \in Names /\ item.name \in STRING
    BY <1>6, DerivedItem
  <2>10. CASE pending' = Tail(pending)
    <3>1. HostType'
      BY <2>1, <2>2, <2>7, <2>10 DEF HostType
    <3>2. QED
      BY <2>1, <2>2, <2>8, <2>10, <3>1, PiecesDropped
  <2>11. CASE pending' = Append(Tail(pending), DerivedFrom(item))
    <3>1. PICK new : new = DerivedFrom(item)
      OBVIOUS
    <3>2. new \in Item /\ new.derives = <<>> /\ new.name = <<item.name, "derived">>
      BY <2>2, <2>9, <3>1, DerivedType
    <3>3. HostType'
      BY <2>1, <2>2, <2>7, <2>11, <3>1, <3>2 DEF HostType
    <3>4. QED
      BY <2>1, <2>2, <2>8, <2>9, <2>11, <3>1, <3>2, <3>3, PiecesDerived
  <2>12. QED
    BY <2>3, <2>10, <2>11
<1>7. QED
  BY <1>1, <1>2, <1>3, <1>4, <1>5, <1>6 DEF HostNext

LEMMA HostTypeInit == HostInit => HostType /\ Pieces
<1> SUFFICES ASSUME HostInit PROVE HostType /\ Pieces
  OBVIOUS
<1>1. /\ unit \in Units /\ pending = unit.items /\ kept = {} /\ macroCalls = <<>>
      /\ unit.items \in Seq(Item)
      /\ \A i, j \in DOMAIN unit.items : unit.items[i].name = unit.items[j].name => i = j
  BY HostAssumption DEF HostInit
<1>2. <<>> \in Seq(MacroCall) /\ DOMAIN macroCalls = {}
  BY <1>1
<1>3. HostType
  BY <1>1, <1>2 DEF HostType
<1>4. Pieces
  BY <1>1, <1>2 DEF Pieces, Names
<1>5. QED
  BY <1>3, <1>4

(* The calls of before are the first ones.                                 *)
CallsKept ==
    /\ DOMAIN macroCalls \subseteq DOMAIN macroCalls'
    /\ \A i \in DOMAIN macroCalls : macroCalls'[i] = macroCalls[i]

LEMMA OneCallAppended ==
  ASSUME HostType, NEW call \in MacroCall, macroCalls' = Append(macroCalls, call),
         NEW m, m = Len(macroCalls) + 1
  PROVE  /\ CallsKept /\ DOMAIN macroCalls' \ DOMAIN macroCalls = {m}
         /\ macroCalls'[m] = call
<1>1. /\ Len(macroCalls) \in Nat /\ DOMAIN macroCalls = 1 .. Len(macroCalls)
      /\ DOMAIN macroCalls' = 1 .. Len(macroCalls) + 1
      /\ macroCalls'[Len(macroCalls) + 1] = call
      /\ \A i \in DOMAIN macroCalls : macroCalls'[i] = macroCalls[i]
  BY AppendedCall
<1>2. DOMAIN macroCalls \subseteq DOMAIN macroCalls'
  BY <1>1
<1>3. DOMAIN macroCalls' \ DOMAIN macroCalls = {m}
  BY <1>1
<1>4. QED
  BY <1>1, <1>2, <1>3 DEF CallsKept

LEMMA FilesKept ==
  ASSUME CallsKept,
         \A j \in DOMAIN macroCalls' : macroCalls'[j].at = "derive" =>
             \/ j \in DOMAIN macroCalls
             \/ \A i \in DOMAIN macroCalls :
                   macroCalls[i].at = "derive" => macroCalls[i].item # macroCalls'[j].item
  PROVE  \A i \in DOMAIN macroCalls : HasFile(i)' <=> HasFile(i)
<1> SUFFICES ASSUME NEW i \in DOMAIN macroCalls
             PROVE  HasFile(i)' <=> HasFile(i)
  OBVIOUS
<1>1. i \in DOMAIN macroCalls' /\ macroCalls'[i] = macroCalls[i]
  BY DEF CallsKept
<1>2. CASE macroCalls[i].at = "item"
  BY <1>1, <1>2 DEF HasFile
<1>3. CASE macroCalls[i].at = "derive"
  <2> DEFINE Some(j) == /\ macroCalls[j].item = macroCalls[i].item
                        /\ macroCalls[j].at = "derive"
                        /\ macroCalls[j].result.stream # "empty"
             SomeNow(j) == /\ macroCalls'[j].item = macroCalls[i].item
                        /\ macroCalls'[j].at = "derive"
                        /\ macroCalls'[j].result.stream # "empty"
  <2>1. HasFile(i) <=> \E j \in DOMAIN macroCalls : Some(j)
    BY <1>3 DEF HasFile
  <2>2. HasFile(i)' <=> \E j \in DOMAIN macroCalls' : SomeNow(j)
    BY <1>1, <1>3 DEF HasFile
  <2>3. \A j \in DOMAIN macroCalls : j \in DOMAIN macroCalls' /\ (Some(j) <=> SomeNow(j))
    BY DEF CallsKept
  <2>4. \A j \in DOMAIN macroCalls' : SomeNow(j) => j \in DOMAIN macroCalls
    BY <1>3
  <2> HIDE DEF Some, SomeNow
  <2>5. QED
    BY <2>1, <2>2, <2>3, <2>4
<1>4. CASE macroCalls[i].at \notin {"item", "derive"}
  BY <1>1, <1>4 DEF HasFile
<1>5. QED
  BY <1>2, <1>3, <1>4

DataOK == files = {j \in DOMAIN macroCalls : macroCalls[j].result.data /\ HasFile(j)}

(* Data that is attached for all new calls, or for none of them.           *)
LEMMA DataKept ==
  ASSUME DataOK, CallsKept,
         \A i \in DOMAIN macroCalls : HasFile(i)' <=> HasFile(i),
         NEW new, new = DOMAIN macroCalls' \ DOMAIN macroCalls,
         \/ /\ files' = files
            /\ \A j \in new : macroCalls'[j].result.data => ~HasFile(j)'
         \/ /\ files' = files \cup {j \in new : macroCalls'[j].result.data}
            /\ \A j \in new : HasFile(j)'
  PROVE  DataOK'
<1> DEFINE Data(j) == macroCalls'[j].result.data /\ HasFile(j)'
<1>1. DOMAIN macroCalls' = DOMAIN macroCalls \cup new
  BY DEF CallsKept
<1>2. files = {j \in DOMAIN macroCalls : Data(j)}
  BY DEF DataOK, CallsKept
<1>3. {j \in DOMAIN macroCalls' : Data(j)} = files \cup {j \in new : Data(j)}
  <2> HIDE DEF Data
  <2>1. QED
    BY <1>1, <1>2
<1>4. files' = files \cup {j \in new : Data(j)}
  OBVIOUS
<1>5. files' = {j \in DOMAIN macroCalls' : Data(j)}
  BY <1>3, <1>4
<1>6. QED
  BY <1>5 DEF DataOK

LEMMA DataStep ==
  ASSUME HostType, Pieces, DataOK, [HostNext]_hostVars
  PROVE  DataOK'
<1>1. CASE /\ UNCHANGED <<files, macroCalls>>
  BY <1>1 DEF DataOK, HasFile
<1>2. PICK m : m = Len(macroCalls) + 1
  OBVIOUS
<1>3. ASSUME NEW item, ExpandInnerAttr(item) PROVE DataOK'
  <2>1. PICK result \in Results :
           /\ macroCalls' = Append(macroCalls,
                 Call(item, item.funcs[FirstInner(item)].name,
                      InnerFound(item).name, "attr", result))
           /\ files' = files \cup {i \in {Len(macroCalls) + 1} : macroCalls'[i].result.data}
    BY <1>3, InnerStep
  <2>2. PICK call : call = Call(item, item.funcs[FirstInner(item)].name,
                                InnerFound(item).name, "attr", result)
    OBVIOUS
  <2>3. item \in Item /\ FirstInner(item) # 0
    BY <1>3, InnerStep
  <2>4. call \in MacroCall /\ call.at \notin {"item", "derive"}
    BY Zenon, <2>2, <2>3, CallOfInner
  <2>5. /\ CallsKept /\ DOMAIN macroCalls' \ DOMAIN macroCalls = {m}
        /\ macroCalls'[m] = call
    <3>1. macroCalls' = Append(macroCalls, call)
      BY Zenon, <2>1, <2>2
    <3>2. QED
      BY Zenon, <1>2, <2>4, <3>1, OneCallAppended
  <2>6. \A i \in DOMAIN macroCalls : HasFile(i)' <=> HasFile(i)
    BY <2>4, <2>5, FilesKept
  <2>7. HasFile(m)'
    BY <2>4, <2>5 DEF HasFile
  <2>8. files' = files \cup {i \in {m} : macroCalls'[i].result.data}
    BY <1>2, <2>1
  <2>9. QED
    BY <2>5, <2>6, <2>7, <2>8, DataKept
<1>4. ASSUME NEW item, ExpandAttribute(item) PROVE DataOK'
  <2>1. PICK result \in Results :
           /\ macroCalls' = Append(macroCalls,
                 Call(item, "item", Found(item).name, "attr", result))
           /\ \/ result.stream = "empty" /\ files' = files
              \/ /\ result.stream # "empty" /\ files' = files
                 /\ Optimised(Found(item), result)
              \/ /\ result.stream # "empty"
                 /\ files' = files \cup {i \in {Len(macroCalls) + 1} :
                                             macroCalls'[i].result.data}
    BY <1>4, AttributeStep
  <2>2. PICK call : call = Call(item, "item", Found(item).name, "attr", result)
    OBVIOUS
  <2>3. item \in Item /\ Found(item) # Missing
    BY <1>4, AttributeStep
  <2>4. call \in MacroCall /\ call.at = "item" /\ call.result = result
    BY <2>2, <2>3, CallOfItem
  <2>5. /\ CallsKept /\ DOMAIN macroCalls' \ DOMAIN macroCalls = {m}
        /\ macroCalls'[m] = call
    <3>1. macroCalls' = Append(macroCalls, call)
      BY Zenon, <2>1, <2>2
    <3>2. QED
      BY Zenon, <1>2, <2>4, <3>1, OneCallAppended
  <2>6. \A i \in DOMAIN macroCalls : HasFile(i)' <=> HasFile(i)
    BY <2>4, <2>5, FilesKept
  <2>7. HasFile(m)' <=> result.stream # "empty"
    BY <2>4, <2>5 DEF HasFile
  <2>8. \/ files' = files /\ (result.stream = "empty" \/ ~result.data)
        \/ files' = files \cup {i \in {m} : macroCalls'[i].result.data} /\ result.stream # "empty"
    BY <1>2, <2>1 DEF Optimised
  <2>9. macroCalls'[m].result = result
    BY <2>4, <2>5
  <2>10. QED
    BY <2>5, <2>6, <2>7, <2>8, <2>9, DataKept
<1>5. ASSUME NEW item, ExpandDerives(item) PROVE DataOK'
  <2>1. PICK result \in [DOMAIN ParseDerive(item) -> Results] :
           /\ macroCalls' = macroCalls \o DeriveCalls(item, result)
           /\ IF \E i \in DOMAIN ParseDerive(item) : result[i].stream # "empty"
              THEN files' = files \cup {i \in Len(macroCalls) + 1 .. Len(macroCalls') :
                                           macroCalls'[i].result.data}
              ELSE files' = files
    BY <1>5, DeriveStep
  <2>2. PICK made : made = DeriveCalls(item, result)
    OBVIOUS
  <2>3. item \in Item /\ item.name \in Names /\ Visited(item)
    BY <1>5, DeriveStep, DerivedItem DEF ExpandDerives
  <2>4. DOMAIN ParseDerive(item) = 1 .. Len(ParseDerive(item))
    BY <2>3, DeriveCallsType
  <2>5. /\ made \in Seq(MacroCall) /\ Len(made) = Len(ParseDerive(item))
        /\ \A i \in 1 .. Len(made) :
              /\ made[i].item = item.name /\ made[i].at = "derive"
              /\ made[i].result = result[i]
    BY <2>2, <2>3, DeriveCallsType
  <2> DEFINE n == Len(macroCalls)
             l == Len(made)
  <2>6. /\ n \in Nat /\ l \in Nat /\ DOMAIN macroCalls = 1 .. n
        /\ DOMAIN macroCalls' = 1 .. n + l /\ Len(macroCalls') = n + l
        /\ \A i \in 1 .. n : macroCalls'[i] = macroCalls[i]
        /\ \A i \in n + 1 .. n + l : i - n \in 1 .. l /\ macroCalls'[i] = made[i - n]
    BY <2>1, <2>2, <2>5, JoinedCalls
  <2>7. PICK new : new = n + 1 .. n + l
    OBVIOUS
  <2>8. files' = IF \E i \in 1 .. l : result[i].stream # "empty"
                 THEN files \cup {i \in new : macroCalls'[i].result.data} ELSE files
    BY <2>1, <2>4, <2>5, <2>6, <2>7
  <2> HIDE DEF n, l
  <2>9. new = DOMAIN macroCalls' \ DOMAIN macroCalls /\ CallsKept
    BY <2>6, <2>7 DEF CallsKept
  <2>10. \A i \in new : /\ i - n \in 1 .. l /\ macroCalls'[i].at = "derive"
                        /\ macroCalls'[i].item = item.name
                        /\ macroCalls'[i].result = result[i - n]
    BY <2>5, <2>6, <2>7 DEF l
  <2>11. \A i \in DOMAIN macroCalls :
            macroCalls[i].at = "derive" => macroCalls[i].item # item.name
    <3>1. 1 \in DOMAIN pending /\ pending[1] = item
      BY <2>3, VisitedItem DEF HostType
    <3>2. QED
      BY <2>3, <3>1 DEF Pieces
  <2>12. \A i \in DOMAIN macroCalls : HasFile(i)' <=> HasFile(i)
    BY <2>9, <2>10, <2>11, FilesKept
  <2>13. \A i \in 1 .. l : n + i \in new /\ macroCalls'[n + i].result = result[i]
    <3>1. \A i \in 1 .. l : n + i \in n + 1 .. n + l /\ (n + i) - n = i
      BY <2>6
    <3>2. QED
      BY <2>7, <2>10, <3>1
  <2>14. ASSUME NEW j \in new
         PROVE  HasFile(j)' <=> \E i \in 1 .. l : result[i].stream # "empty"
    <3> DEFINE Some(i) == /\ macroCalls'[i].item = item.name
                          /\ macroCalls'[i].at = "derive"
                          /\ macroCalls'[i].result.stream # "empty"
    <3>1. HasFile(j)' <=> \E i \in DOMAIN macroCalls' : Some(i)
      BY <2>10 DEF HasFile
    <3>2. \A i \in DOMAIN macroCalls' : Some(i) => i \in new
      <4>1. \A i \in DOMAIN macroCalls : ~Some(i)
        BY <2>9, <2>11 DEF CallsKept
      <4> HIDE DEF Some
      <4>2. QED
        BY <2>9, <4>1
    <3>3. \A i \in new : Some(i) => i - n \in 1 .. l /\ result[i - n].stream # "empty"
      BY <2>10
    <3>4. \A i \in 1 .. l : result[i].stream # "empty" => Some(n + i)
      BY <2>10, <2>13
    <3> HIDE DEF Some
    <3>5. \A i \in new : i \in DOMAIN macroCalls'
      BY <2>9
    <3>6. QED
      BY <2>13, <3>1, <3>2, <3>3, <3>4, <3>5
  <2>15. \/ files' = files /\ \A j \in new : ~HasFile(j)'
         \/ /\ files' = files \cup {j \in new : macroCalls'[j].result.data}
            /\ \A j \in new : HasFile(j)'
    BY <2>8, <2>14
  <2>16. QED
    BY <2>9, <2>12, <2>15, DataKept
<1>6. CASE LoadHosts \/ (\E item : Untouched(item)) \/ \E c \in Component : PostProcess(c)
  <2>1. UNCHANGED <<files, macroCalls>>
    BY <1>6, UntouchedStep DEF LoadHosts, PostProcess
  <2>2. QED
    BY <1>1, <2>1
<1>7. CASE UNCHANGED hostVars
  BY <1>1, <1>7 DEF hostVars
<1>8. QED
  BY <1>3, <1>4, <1>5, <1>6, <1>7 DEF HostNext

(* A call that counts for the markers of its package.                      *)
Counts(call, c, p) ==
    /\ call.component = c /\ call.package = p
    /\ CASE call.at = "item" -> call.result.stream # "empty"
         [] call.at = "derive" -> FALSE
         [] OTHER -> call.result.stream # "same"

Counted(made, c, p) == {i \in 1 .. Len(made) : Counts(made[i], c, p)}

LEMMA CountedIs ==
  ASSUME NEW made \in Seq(MacroCall), NEW c, NEW p, NEW T, T = Counted(made, c, p),
         NEW r, r = (IF T # {} THEN Min(T) ELSE 0)
  PROVE  /\ T \subseteq DOMAIN made /\ T \subseteq Nat \ {0}
         /\ r # 0 <=> T # {}
         /\ r # 0 => r \in T
<1>1. T \subseteq DOMAIN made /\ T \subseteq Nat \ {0}
  BY DEF Counted
<1>2. T # {} => Min(T) \in T
  <2>1. T \subseteq Nat
    BY <1>1
  <2>2. QED
    BY <2>1, MinIsLeast
<1>3. QED
  BY <1>1, <1>2

LEMMA RegisteringIs ==
  ASSUME NEW c, NEW p
  PROVE  /\ Registering(c, p) = IF Counted(macroCalls, c, p) # {}
                                THEN Min(Counted(macroCalls, c, p)) ELSE 0
         /\ Registering(c, p)' = IF Counted(macroCalls', c, p) # {}
                                 THEN Min(Counted(macroCalls', c, p)) ELSE 0
BY DEF Registering, SelectInSeq, Counted, Counts

(* The first call that counts stays the first one.                         *)
LEMMA RegisteringKept ==
  ASSUME HostType, HostType', CallsKept, NEW c, NEW p
  PROVE  /\ Registering(c, p) # 0 => /\ Registering(c, p)' = Registering(c, p)
                                     /\ Registering(c, p) \in DOMAIN macroCalls
         /\ Registering(c, p) = 0 =>
               \/ Registering(c, p)' = 0
               \/ /\ Registering(c, p)' \in DOMAIN macroCalls' \ DOMAIN macroCalls
                  /\ Counts(macroCalls'[Registering(c, p)'], c, p)
         /\ \A i \in DOMAIN macroCalls' :
               Counts(macroCalls'[i], c, p) => Registering(c, p)' # 0
<1> DEFINE T == Counted(macroCalls, c, p)
           new == {i \in DOMAIN macroCalls' \ DOMAIN macroCalls : Counts(macroCalls'[i], c, p)}
           r == Registering(c, p)
<1>1. PICK now : now = Counted(macroCalls', c, p)
  OBVIOUS
<1>2. PICK s : s = Registering(c, p)'
  OBVIOUS
<1>3. /\ T \subseteq DOMAIN macroCalls /\ T \subseteq Nat
      /\ r = IF T # {} THEN Min(T) ELSE 0
      /\ (r # 0 <=> T # {}) /\ (r # 0 => r \in T)
  <2>1. r = (IF T # {} THEN Min(T) ELSE 0) /\ macroCalls \in Seq(MacroCall)
    BY RegisteringIs DEF HostType
  <2> HIDE DEF r
  <2>2. QED
    BY <2>1, CountedIs
<1>4. /\ now \subseteq DOMAIN macroCalls' /\ now \subseteq Nat \ {0}
      /\ s = (IF now # {} THEN Min(now) ELSE 0)
      /\ (s # 0 <=> now # {}) /\ (s # 0 => s \in now)
  <2>1. s = (IF now # {} THEN Min(now) ELSE 0) /\ macroCalls' \in Seq(MacroCall)
    BY <1>1, <1>2, RegisteringIs DEF HostType
  <2>2. QED
    BY <1>1, <2>1, CountedIs
<1>5. /\ DOMAIN macroCalls = 1 .. Len(macroCalls) /\ DOMAIN macroCalls' = 1 .. Len(macroCalls')
      /\ Len(macroCalls) \in Nat /\ Len(macroCalls') \in Nat
  BY DEF HostType
<1>6. now = {i \in DOMAIN macroCalls' : Counts(macroCalls'[i], c, p)}
  BY <1>1, <1>5 DEF Counted, Counts
<1>7. now = T \cup new
  <2>1. T = {i \in DOMAIN macroCalls : Counts(macroCalls[i], c, p)}
    BY <1>5 DEF Counted
  <2> HIDE DEF T
  <2>2. QED
    BY <1>6, <2>1 DEF CallsKept
<1>8. \A x \in T, y \in new : x <= y
  BY <1>3, <1>5
<1>9. new \subseteq Nat
  BY <1>5
<1> HIDE DEF T, new, r
<1>10. r # 0 => s = r /\ r \in DOMAIN macroCalls
  <2> SUFFICES ASSUME r # 0 PROVE s = r /\ r \in DOMAIN macroCalls
    OBVIOUS
  <2>1. T # {} /\ r = Min(T) /\ r \in DOMAIN macroCalls
    BY <1>3
  <2>2. Min(T \cup new) = Min(T)
    BY <1>3, <1>8, <1>9, <2>1, MinKept
  <2>3. s = Min(now)
    BY <1>4, <1>7, <2>1
  <2>4. QED
    BY <1>7, <2>1, <2>2, <2>3
<1>11. r = 0 => \/ s = 0
                \/ /\ s \in DOMAIN macroCalls' \ DOMAIN macroCalls
                   /\ Counts(macroCalls'[s], c, p)
  BY <1>3, <1>4, <1>7 DEF new
<1>12. \A i \in DOMAIN macroCalls' : Counts(macroCalls'[i], c, p) => s # 0
  BY <1>4, <1>6
<1>13. QED
  BY <1>2, <1>10, <1>11, <1>12 DEF r

Known(c, p) == IF Registering(c, p) = 0 THEN Missing
               ELSE macroCalls[Registering(c, p)].result.keys

RegisteredOK ==
    registered = [c \in Component |-> [p \in unit.macrosOf[c] |-> Known(c, p)]]

LEMMA KeysAreKnown ==
  ASSUME HostType, NEW i \in DOMAIN macroCalls
  PROVE  macroCalls[i].result.keys # Missing
<1>1. macroCalls[i] \in MacroCall
  BY DEF HostType
<1>2. macroCalls[i].result \in Results
  BY <1>1 DEF MacroCall
<1>3. QED
  BY <1>2, HostAssumption

(* A step that registers nothing makes no call that counts.                *)
LEMMA NothingRegistered ==
  ASSUME HostType, HostType', CallsKept, RegisteredOK, unit' = unit,
         registered' = registered,
         \A i \in DOMAIN macroCalls' \ DOMAIN macroCalls : \A c, p :
            ~Counts(macroCalls'[i], c, p)
  PROVE  RegisteredOK'
<1>1. ASSUME NEW c, NEW p PROVE Known(c, p)' = Known(c, p)
  <2>1. Registering(c, p)' = Registering(c, p)
    BY RegisteringKept
  <2>2. Registering(c, p) # 0 => Registering(c, p) \in DOMAIN macroCalls
    BY RegisteringKept
  <2>3. QED
    BY <2>1, <2>2 DEF Known, CallsKept
<1>2. QED
  BY <1>1 DEF RegisteredOK

LEMMA OneRegistered ==
  ASSUME HostType, HostType', CallsKept, RegisteredOK, unit' = unit,
         NEW call \in MacroCall, NEW m, DOMAIN macroCalls' \ DOMAIN macroCalls = {m},
         macroCalls'[m] = call,
         \A c, p : Counts(call, c, p) <=> c = call.component /\ p = call.package,
         registered' = [registered EXCEPT ![call.component][call.package] =
                           IF @ = Missing THEN call.result.keys ELSE @]
  PROVE  RegisteredOK'
<1> DEFINE c0 == call.component
           p0 == call.package
           keys == call.result.keys
<1>1. c0 \in Component
  BY DEF MacroCall
<1>2. ASSUME NEW c \in Component, NEW p \in unit.macrosOf[c]
      PROVE  Known(c, p)' = IF c = c0 /\ p = p0 /\ registered[c][p] = Missing
                            THEN keys ELSE registered[c][p]
  <2>1. registered[c][p] = Known(c, p)
    BY DEF RegisteredOK
  <2>2. PICK s : s = Registering(c, p)'
    OBVIOUS
  <2>3. Known(c, p)' = IF s = 0 THEN Missing ELSE macroCalls'[s].result.keys
    BY <2>2 DEF Known
  <2>4. CASE Registering(c, p) # 0
    <3>1. s = Registering(c, p) /\ s \in DOMAIN macroCalls
      BY <2>2, <2>4, RegisteringKept
    <3>2. macroCalls'[s] = macroCalls[s]
      BY <3>1 DEF CallsKept
    <3>3. Known(c, p)' = Known(c, p) /\ Known(c, p) # Missing
      BY <2>3, <2>4, <3>1, <3>2, KeysAreKnown DEF Known
    <3>4. QED
      BY <2>1, <3>3
  <2>5. CASE Registering(c, p) = 0
    <3>1. registered[c][p] = Missing
      BY <2>1, <2>5 DEF Known
    <3>2. s = 0 \/ (s = m /\ c = c0 /\ p = p0)
      BY <2>2, <2>5, RegisteringKept
    <3>3. c = c0 /\ p = p0 => s # 0
      <4>1. m \in DOMAIN macroCalls'
        OBVIOUS
      <4>2. QED
        BY <2>2, <4>1, RegisteringKept
    <3>4. QED
      BY <2>3, <3>1, <3>2, <3>3
  <2>6. QED
    BY <2>4, <2>5
<1>3. /\ DOMAIN registered = Component
      /\ \A c \in Component : /\ DOMAIN registered[c] = unit.macrosOf[c]
                              /\ registered[c] = [p \in unit.macrosOf[c] |-> registered[c][p]]
  BY DEF RegisteredOK
<1> DEFINE row(c) == [p \in unit.macrosOf[c] |->
                          IF c = c0 /\ p = p0 /\ registered[c][p] = Missing
                          THEN keys ELSE registered[c][p]]
           changed == [registered[c0] EXCEPT ![p0] =
                          IF registered[c0][p0] = Missing THEN keys ELSE registered[c0][p0]]
           known(c) == [p \in unit.macrosOf[c] |-> Known(c, p)']
<1>4. registered' = [c \in Component |-> row(c)]
  <2>1. registered' = [registered EXCEPT ![c0] = changed]
    OBVIOUS
  <2>2. changed = row(c0)
    BY <1>1, <1>3
  <2>3. \A c \in Component : c # c0 => registered[c] = row(c)
    BY <1>3
  <2> HIDE DEF row, c0, changed
  <2>4. registered' = [c \in Component |-> IF c = c0 THEN changed ELSE registered[c]]
    BY <1>3, <2>1
  <2>5. QED
    BY ZenonT(40), <2>2, <2>3, <2>4
<1>5. \A c \in Component : known(c) = row(c)
  BY <1>2
<1> HIDE DEF row
<1>6. registered' = [c \in Component |-> known(c)]
  <2> HIDE DEF known
  <2>1. QED
    BY ZenonT(40), <1>4, <1>5
<1>7. QED
  BY <1>6 DEF RegisteredOK

LEMMA RegisteredStep ==
  ASSUME HostType, HostType', Pieces, RegisteredOK, [HostNext]_hostVars
  PROVE  RegisteredOK'
<1>1. ASSUME UNCHANGED <<unit, registered, macroCalls>> PROVE RegisteredOK'
  <2>1. CallsKept /\ DOMAIN macroCalls' \ DOMAIN macroCalls = {}
    BY <1>1 DEF CallsKept
  <2>2. QED
    BY <1>1, <2>1, NothingRegistered
<1>2. PICK m : m = Len(macroCalls) + 1
  OBVIOUS
<1>3. ASSUME NEW item, ExpandInnerAttr(item) PROVE RegisteredOK'
  <2>1. PICK result \in Results :
           LET call == Call(item, item.funcs[FirstInner(item)].name,
                            InnerFound(item).name, "attr", result)
           IN  /\ macroCalls' = Append(macroCalls, call)
               /\ registered' =
                         IF result.stream = "same" THEN registered
                         ELSE [registered EXCEPT ![call.component][call.package] =
                                  IF @ = Missing THEN result.keys ELSE @]
    BY ZenonT(40), <1>3, InnerStep
  <2>2. PICK call : call = Call(item, item.funcs[FirstInner(item)].name,
                                InnerFound(item).name, "attr", result)
    OBVIOUS
  <2>3. item \in Item /\ FirstInner(item) # 0 /\ unit' = unit
    BY <1>3, InnerStep
  <2>4. call \in MacroCall /\ call.at \notin {"item", "derive"} /\ call.result = result
    BY <2>2, <2>3, CallOfInner
  <2>5. /\ CallsKept /\ DOMAIN macroCalls' \ DOMAIN macroCalls = {m}
        /\ macroCalls'[m] = call
    <3>1. macroCalls' = Append(macroCalls, call)
      BY Zenon, <2>1, <2>2
    <3>2. QED
      BY Zenon, <1>2, <2>4, <3>1, OneCallAppended
  <2>6. CASE result.stream = "same"
    <3>1. \A c, p : ~Counts(call, c, p)
      BY <2>4, <2>6 DEF Counts
    <3>2. registered' = registered
      BY <2>1, <2>6
    <3>3. QED
      BY <2>3, <2>5, <3>1, <3>2, NothingRegistered
  <2>7. CASE result.stream # "same"
    <3>1. \A c, p : Counts(call, c, p) <=> c = call.component /\ p = call.package
      BY <2>4, <2>7 DEF Counts
    <3>2. registered' = [registered EXCEPT ![call.component][call.package] =
                           IF @ = Missing THEN call.result.keys ELSE @]
      BY Zenon, <2>1, <2>2, <2>4, <2>7
    <3>3. QED
      BY Zenon, <2>3, <2>4, <2>5, <3>1, <3>2, OneRegistered
  <2>8. QED
    BY Zenon, <2>6, <2>7
<1>4. ASSUME NEW item, ExpandAttribute(item) PROVE RegisteredOK'
  <2>1. PICK result \in Results :
           LET call == Call(item, "item", Found(item).name, "attr", result)
           IN  /\ macroCalls' = Append(macroCalls, call)
               /\ registered' =
                         IF result.stream = "empty" THEN registered
                         ELSE [registered EXCEPT ![call.component][call.package] =
                                  IF @ = Missing THEN result.keys ELSE @]
    BY <1>4, AttributeStep
  <2>2. PICK call : call = Call(item, "item", Found(item).name, "attr", result)
    OBVIOUS
  <2>3. item \in Item /\ Found(item) # Missing /\ unit' = unit
    BY <1>4, AttributeStep
  <2>4. call \in MacroCall /\ call.at = "item" /\ call.result = result
    BY <2>2, <2>3, CallOfItem
  <2>5. /\ CallsKept /\ DOMAIN macroCalls' \ DOMAIN macroCalls = {m}
        /\ macroCalls'[m] = call
    <3>1. macroCalls' = Append(macroCalls, call)
      BY Zenon, <2>1, <2>2
    <3>2. QED
      BY Zenon, <1>2, <2>4, <3>1, OneCallAppended
  <2>6. CASE result.stream = "empty"
    <3>1. \A c, p : ~Counts(call, c, p)
      BY <2>4, <2>6 DEF Counts
    <3>2. registered' = registered
      BY <2>1, <2>6
    <3>3. QED
      BY <2>3, <2>5, <3>1, <3>2, NothingRegistered
  <2>7. CASE result.stream # "empty"
    <3>1. \A c, p : Counts(call, c, p) <=> c = call.component /\ p = call.package
      BY <2>4, <2>7 DEF Counts
    <3>2. registered' = [registered EXCEPT ![call.component][call.package] =
                           IF @ = Missing THEN call.result.keys ELSE @]
      BY <2>1, <2>2, <2>4, <2>7
    <3>3. QED
      BY <2>3, <2>4, <2>5, <3>1, <3>2, OneRegistered
  <2>8. QED
    BY <2>6, <2>7
<1>5. ASSUME NEW item, ExpandDerives(item) PROVE RegisteredOK'
  <2>1. PICK result \in [DOMAIN ParseDerive(item) -> Results] :
           macroCalls' = macroCalls \o DeriveCalls(item, result)
    BY <1>5, DeriveStep
  <2>2. PICK made : made = DeriveCalls(item, result)
    OBVIOUS
  <2>3. item \in Item /\ registered' = registered /\ unit' = unit
    BY <1>5, DeriveStep
  <2>4. made \in Seq(MacroCall) /\ \A i \in 1 .. Len(made) : made[i].at = "derive"
    BY <2>2, <2>3, DeriveCallsType
  <2> DEFINE n == Len(macroCalls)
             l == Len(made)
  <2>5. /\ n \in Nat /\ l \in Nat /\ DOMAIN macroCalls = 1 .. n
        /\ DOMAIN macroCalls' = 1 .. n + l
        /\ \A i \in 1 .. n : macroCalls'[i] = macroCalls[i]
        /\ \A i \in n + 1 .. n + l : i - n \in 1 .. l /\ macroCalls'[i] = made[i - n]
    BY <2>1, <2>2, <2>4, JoinedCalls
  <2> HIDE DEF n, l
  <2>6. \A i \in DOMAIN macroCalls' \ DOMAIN macroCalls : macroCalls'[i].at = "derive"
    BY <2>4, <2>5 DEF l
  <2>7. CallsKept
    BY <2>5 DEF CallsKept
  <2>8. \A i \in DOMAIN macroCalls' \ DOMAIN macroCalls : \A c, p : ~Counts(macroCalls'[i], c, p)
    BY <2>6 DEF Counts
  <2>9. QED
    BY <2>3, <2>7, <2>8, NothingRegistered
<1>6. CASE LoadHosts \/ (\E item : Untouched(item)) \/ \E c \in Component : PostProcess(c)
  <2>1. UNCHANGED <<unit, registered, macroCalls>>
    BY <1>6, UntouchedStep DEF LoadHosts, PostProcess
  <2>2. QED
    BY <1>1, <2>1
<1>7. CASE UNCHANGED hostVars
  BY <1>1, <1>7 DEF hostVars
<1>8. QED
  BY <1>3, <1>4, <1>5, <1>6, <1>7 DEF HostNext

CallbacksLast == callbacks # {} => hostStage = "expanding" /\ pending = <<>>

HostInv ==
    HostType /\ Pieces /\ DataOK /\ RegisteredOK /\ CallbacksLast /\ DataDelivered

Delivered(call) ==
    LET c == call.component
        p == call.package
        i == Registering(c, p)
    IN  /\ call.data = {j \in DOMAIN macroCalls :
               /\ macroCalls[j].package = p /\ macroCalls[j].result.data
               /\ HasFile(j)}
        /\ {path[1] : path \in call.paths} =
               IF i = 0 THEN {}
               ELSE {k \in macroCalls[i].result.keys : MarkedItems(k) # {}}
        /\ \A path \in call.paths :
               \E item \in MarkedItems(path[1]) : path[2] = item.name

LEMMA DeliveredEach ==
  DataDelivered <=>
      /\ \A call \in callbacks : Delivered(call)
      /\ \A call, other \in callbacks :
            other.component = call.component /\ other.package = call.package => other = call
BY DEF DataDelivered, Delivered

LEMMA DeliveredSame ==
  ASSUME UNCHANGED <<macroCalls, kept>>, NEW call
  PROVE  Delivered(call)' <=> Delivered(call)
<1>1. \A c, p : Registering(c, p)' = Registering(c, p)
  BY RegisteringIs
<1>2. \A k : MarkedItems(k)' = MarkedItems(k)
  BY DEF MarkedItems
<1>3. \A j : HasFile(j)' <=> HasFile(j)
  BY DEF HasFile
<1>4. QED
  BY <1>1, <1>2, <1>3 DEF Delivered

LEMMA OneDelivered ==
  ASSUME HostType, DataOK, RegisteredOK, NEW c \in Component, NEW p \in unit.macrosOf[c],
         NEW keys, keys = {k \in UNION {item.keys : item \in kept} : MarkedItems(k) # {}},
         NEW call, call.component = c, call.package = p, call.data = DataOf(p),
         {r[1] : r \in call.paths} = keys \cap KeysOf(c, p),
         \A r \in call.paths : \E item \in MarkedItems(r[1]) : r[2] = item.name
  PROVE  Delivered(call)
<1>2. DataOf(p) = {j \in DOMAIN macroCalls :
               /\ macroCalls[j].package = p /\ macroCalls[j].result.data
               /\ HasFile(j)}
  BY DEF DataOf, DataOK
<1>4. KeysOf(c, p) = IF Registering(c, p) = 0 THEN {}
                     ELSE macroCalls[Registering(c, p)].result.keys
  <2>1. registered[c][p] = Known(c, p)
    BY DEF RegisteredOK
  <2>2. Registering(c, p) # 0 => Registering(c, p) \in DOMAIN macroCalls
    <3>1. macroCalls \in Seq(MacroCall)
      BY DEF HostType
    <3>2. PICK T : T = Counted(macroCalls, c, p)
      OBVIOUS
    <3>3. PICK r : r = Registering(c, p)
      OBVIOUS
    <3>4. r = (IF T # {} THEN Min(T) ELSE 0)
      BY <3>2, <3>3, RegisteringIs
    <3>5. T \subseteq DOMAIN macroCalls /\ (r # 0 => r \in T)
      BY <3>1, <3>2, <3>4, CountedIs
    <3>6. QED
      BY <3>3, <3>5
  <2>3. Registering(c, p) # 0 => macroCalls[Registering(c, p)].result.keys # Missing
    BY <2>2, KeysAreKnown
  <2>4. QED
    BY <2>1, <2>3 DEF KeysOf, Known
<1>5. \A k : MarkedItems(k) # {} => k \in UNION {item.keys : item \in kept}
  BY DEF MarkedItems
<1>6. {r[1] : r \in call.paths} =
         IF Registering(c, p) = 0 THEN {}
         ELSE {k \in macroCalls[Registering(c, p)].result.keys : MarkedItems(k) # {}}
  BY <1>4, <1>5
<1>7. QED
  BY <1>2, <1>6 DEF Delivered

LEMMA PostProcessStep ==
  ASSUME HostInv, NEW c \in Component, PostProcess(c)
  PROVE  CallbacksLast' /\ DataDelivered'
<1>1. /\ hostStage = "expanding" /\ pending = <<>> /\ ~CalledBack(c)
      /\ UNCHANGED <<unit, hostStage, pending, kept, files, registered, macroCalls>>
  BY DEF PostProcess
<1> DEFINE keys == {k \in UNION {item.keys : item \in kept} : MarkedItems(k) # {}}
<1>2. PICK path \in [keys -> {item.name : item \in kept}] :
         /\ \A k \in keys : \E item \in MarkedItems(k) : path[k] = item.name
         /\ callbacks' = callbacks \cup
                      {[component |-> c, package |-> p, data |-> DataOf(p),
                        paths |-> {<<k, path[k]>> : k \in keys \cap KeysOf(c, p)}] :
                           p \in unit.macrosOf[c]}
  BY DEF PostProcess
<1> DEFINE new(p) == [component |-> c, package |-> p, data |-> DataOf(p),
                      paths |-> {<<k, path[k]>> : k \in keys \cap KeysOf(c, p)}]
<1>3. callbacks' = callbacks \cup {new(p) : p \in unit.macrosOf[c]}
  BY <1>2
<1>4. \A p : new(p).component = c /\ new(p).package = p
  OBVIOUS
<1>5. ASSUME NEW p \in unit.macrosOf[c] PROVE Delivered(new(p))
  <2>1. PICK call : call = new(p)
    OBVIOUS
  <2>2. PICK names : names = keys
    OBVIOUS
  <2>3. /\ call.component = c /\ call.package = p /\ call.data = DataOf(p)
        /\ call.paths = {<<k, path[k]>> : k \in names \cap KeysOf(c, p)}
    BY <2>1, <2>2
  <2>4. HostType /\ DataOK /\ RegisteredOK
    BY DEF HostInv
  <2>5. /\ names = {k \in UNION {item.keys : item \in kept} : MarkedItems(k) # {}}
        /\ \A k \in names : \E item \in MarkedItems(k) : path[k] = item.name
    BY <1>2, <2>2
  <2>6. {r[1] : r \in call.paths} = names \cap KeysOf(c, p)
    <3> DEFINE S == names \cap KeysOf(c, p)
               paths == {<<k, path[k]>> : k \in S}
    <3>1. \A r \in paths : r[1] \in S
      OBVIOUS
    <3>2. \A k \in S : <<k, path[k]>> \in paths /\ <<k, path[k]>>[1] = k
      OBVIOUS
    <3>3. call.paths = paths
      BY <2>3
    <3> HIDE DEF S, paths
    <3>4. {r[1] : r \in paths} = S
      BY <3>1, <3>2
    <3>5. QED
      BY <3>3, <3>4 DEF S
  <2>7. \A r \in call.paths : \E item \in MarkedItems(r[1]) : r[2] = item.name
    BY <2>3, <2>5
  <2> HIDE DEF new, keys
  <2>8. Delivered(call)
    BY <2>3, <2>4, <2>5, <2>6, <2>7, OneDelivered
  <2>9. QED
    BY <2>1, <2>8
<1> HIDE DEF new
<1>6. \A call \in callbacks : Delivered(call) /\ call.component # c
  BY <1>1, DeliveredEach DEF HostInv, CalledBack
<1>7. \A call \in callbacks' : Delivered(call)
  BY <1>3, <1>5, <1>6
<1>8. \A call : Delivered(call)' <=> Delivered(call)
  BY <1>1, DeliveredSame
<1>9. \A call, other \in callbacks' :
         other.component = call.component /\ other.package = call.package => other = call
  <2>1. \A call, other \in callbacks :
           other.component = call.component /\ other.package = call.package => other = call
    BY DeliveredEach DEF HostInv
  <2>2. QED
    BY <1>3, <1>4, <1>6, <2>1
<1>10. DataDelivered'
  <2>1. \A call \in callbacks' : Delivered(call)'
    BY <1>7, <1>8
  <2>2. QED
    BY <1>9, <2>1 DEF DataDelivered, Delivered
<1>11. QED
  BY <1>1, <1>10 DEF CallbacksLast

LEMMA HostInvStep == HostInv /\ [HostNext]_hostVars => HostInv'
<1> SUFFICES ASSUME HostInv, [HostNext]_hostVars PROVE HostInv'
  OBVIOUS
<1>1. HostType' /\ Pieces'
  BY HostTypeStep DEF HostInv
<1>2. DataOK'
  BY DataStep DEF HostInv
<1>3. RegisteredOK'
  BY SMTT(60), <1>1, RegisteredStep DEF HostInv
<1>4. CallbacksLast' /\ DataDelivered'
  <2>1. CASE UNCHANGED hostVars
    <3>1. /\ UNCHANGED <<macroCalls, kept>> /\ callbacks' = callbacks
          /\ hostStage' = hostStage /\ pending' = pending
      BY <2>1 DEF hostVars
    <3>2. \A call : Delivered(call)' <=> Delivered(call)
      BY <3>1, DeliveredSame
    <3>3. /\ \A call \in callbacks' : Delivered(call)'
          /\ \A call, other \in callbacks' : other.component = call.component
                 /\ other.package = call.package => other = call
      BY <3>1, <3>2, DeliveredEach DEF HostInv
    <3>4. DataDelivered'
      BY <3>3 DEF DataDelivered, Delivered
    <3>5. QED
      BY <3>1, <3>4 DEF HostInv, CallbacksLast
  <2>2. CASE \E c \in Component : PostProcess(c)
    BY <2>2, PostProcessStep
  <2>3. CASE LoadHosts
    <3>1. callbacks = {} /\ callbacks' = {}
      BY <2>3 DEF LoadHosts, HostInv, CallbacksLast
    <3>2. QED
      BY <3>1 DEF CallbacksLast, DataDelivered
  <2>4. ASSUME NEW item, Visited(item), callbacks' = callbacks
        PROVE  CallbacksLast' /\ DataDelivered'
    <3>1. callbacks = {} /\ callbacks' = {}
      BY <2>4 DEF Visited, HostInv, CallbacksLast
    <3>2. QED
      BY <3>1 DEF CallbacksLast, DataDelivered
  <2>5. QED
    BY ZenonT(60), <2>1, <2>2, <2>3, <2>4
       DEF HostNext, Untouched, ExpandInnerAttr, ExpandAttribute, ExpandDerives
<1>5. QED
  BY <1>1, <1>2, <1>3, <1>4 DEF HostInv

LEMMA HostInvInit == HostInit => HostInv
<1> SUFFICES ASSUME HostInit PROVE HostInv
  OBVIOUS
<1>1. /\ files = {} /\ macroCalls = <<>> /\ callbacks = {}
      /\ registered = [c \in Component |-> [p \in unit.macrosOf[c] |-> Missing]]
      /\ DOMAIN macroCalls = {}
  BY DEF HostInit
<1>2. HostType /\ Pieces
  BY HostTypeInit
<1>3. DataOK
  BY <1>1 DEF DataOK
<1>4. RegisteredOK
  <2>1. ASSUME NEW c, NEW p PROVE Known(c, p) = Missing
    <3>1. Counted(macroCalls, c, p) = {}
      BY <1>1 DEF Counted
    <3>2. Registering(c, p) = 0
      BY <3>1, RegisteringIs
    <3>3. QED
      BY <3>2 DEF Known
  <2>2. QED
    BY <1>1, <2>1 DEF RegisteredOK
<1>5. CallbacksLast /\ DataDelivered
  BY <1>1 DEF CallbacksLast, DataDelivered
<1>6. QED
  BY <1>2, <1>3, <1>4, <1>5 DEF HostInv

(* For every unit, set of macros and answers of theirs: a callback of a    *)
(* package gets the data that its macros left in the program, all of it    *)
(* and no other, and its markers, once for each component (aux data and    *)
(* post-processing, proc_macro/v1/host.rs and v2/host).                    *)
THEOREM CallbacksGetTheirData == HostSpec => []DataDelivered
<1>1. HostInv => DataDelivered
  BY DEF HostInv
<1>2. QED
  BY <1>1, HostInvInit, HostInvStep, PTL DEF HostSpec

LEMMA FlattenedNone == FlattenSeq(<<>>) = <<>>
BY DEF FlattenSeq

LEMMA FlattenedConcat ==
  ASSUME NEW X, NEW a \in Seq(Seq(X)), NEW b \in Seq(Seq(X))
  PROVE  FlattenSeq(a \o b) = FlattenSeq(a) \o FlattenSeq(b)
<1> DEFINE Y == Seq(X)
           flat(s) == FlattenSeq(s)
           Splits(s) == flat(a \o s) = flat(a) \o flat(s)
           S == {n \in Nat : \A s \in Seq(Y) : Len(s) = n => Splits(s)}
<1>0. \A s \in Seq(Y) : flat(s) \in Y
  BY Flattened
<1>1. 0 \in S
  <2>1. ASSUME NEW s \in Seq(Y), Len(s) = 0 PROVE Splits(s)
    <3>1. s = <<>> /\ a \o s = a
      BY <2>1
    <3>2. flat(s) = <<>>
      BY <3>1, FlattenedNone
    <3>3. flat(a) \o <<>> = flat(a)
      BY <1>0
    <3>4. QED
      BY <3>1, <3>2, <3>3
  <2>2. QED
    BY <2>1
<1>2. ASSUME NEW n \in Nat, n \in S PROVE n + 1 \in S
  <2>1. ASSUME NEW s \in Seq(Y), Len(s) = n + 1 PROVE Splits(s)
    <3> DEFINE f == SubSeq(s, 1, n)
               x == s[n + 1]
    <3>1. f \in Seq(Y) /\ x \in Y /\ Len(f) = n /\ s = Append(f, x)
      BY <2>1, FrontAndLast
    <3> HIDE DEF f, x
    <3>2. flat(a \o f) = flat(a) \o flat(f)
      BY <1>2, <3>1
    <3>3. a \o s = Append(a \o f, x) /\ a \o f \in Seq(Y)
      <4>1. a \o Append(f, x) = Append(a \o f, x)
        BY <3>1, AppendAfter
      <4>2. QED
        BY <3>1, <4>1
    <3>4. flat(a \o s) = flat(a \o f) \o x
      <4>1. flat(Append(a \o f, x)) = flat(a \o f) \o x
        BY <3>1, <3>3, FlattenedAppend
      <4>2. QED
        BY <3>3, <4>1
    <3>5. flat(s) = flat(f) \o x
      BY <3>1, FlattenedAppend
    <3>6. (flat(a) \o flat(f)) \o x = flat(a) \o (flat(f) \o x)
      <4>1. flat(a) \in Seq(X) /\ flat(f) \in Seq(X) /\ x \in Seq(X)
        BY <1>0, <3>1
      <4> HIDE DEF flat
      <4>2. QED
        BY SMTT(60), <4>1, ConcatAssociative
    <3>7. QED
      BY <3>2, <3>4, <3>5, <3>6
  <2>2. QED
    BY <2>1
<1> HIDE DEF S
<1>3. Nat \subseteq S
  BY <1>1, <1>2, Induction
<1>4. Len(b) \in S
  BY <1>3
<1>5. QED
  BY <1>4 DEF S

(* A sequence of sequences that are empty, or that have one element each.  *)
LEMMA FlattenedEmpty ==
  ASSUME NEW X, NEW s \in Seq(Seq(X)), \A i \in 1 .. Len(s) : s[i] = <<>>
  PROVE  FlattenSeq(s) = <<>>
<1> DEFINE Y == Seq(X)
           Empty(r) == \A i \in 1 .. Len(r) : r[i] = <<>>
           S == {n \in Nat : \A r \in Seq(Y) :
                               Len(r) = n /\ Empty(r) => FlattenSeq(r) = <<>>}
<1>1. 0 \in S
  <2>1. ASSUME NEW r \in Seq(Y), Len(r) = 0 PROVE FlattenSeq(r) = <<>>
    <3>1. r = <<>>
      BY <2>1
    <3>2. QED
      BY <3>1, FlattenedNone
  <2>2. QED
    BY <2>1
<1>2. ASSUME NEW n \in Nat, n \in S PROVE n + 1 \in S
  <2>1. ASSUME NEW r \in Seq(Y), Len(r) = n + 1, Empty(r)
        PROVE  FlattenSeq(r) = <<>>
    <3> DEFINE f == SubSeq(r, 1, n)
               x == r[n + 1]
    <3>1. f \in Seq(Y) /\ x \in Y /\ Len(f) = n /\ r = Append(f, x)
          /\ \A i \in 1 .. n : f[i] = r[i]
      BY <2>1, FrontAndLast
    <3>2. Empty(f) /\ x = <<>>
      BY <2>1, <3>1
    <3> HIDE DEF f, x, Empty
    <3>3. FlattenSeq(f) = <<>>
      BY <1>2, <3>1, <3>2
    <3>4. FlattenSeq(Append(f, x)) = FlattenSeq(f) \o x
      BY <3>1, FlattenedAppend
    <3>5. QED
      BY <3>1, <3>2, <3>3, <3>4
  <2>2. QED
    BY <2>1
<1> HIDE DEF S
<1>3. Nat \subseteq S
  BY <1>1, <1>2, Induction
<1>4. Len(s) \in S
  BY <1>3
<1>5. QED
  BY <1>4 DEF S

LEMMA FlattenedOnes ==
  ASSUME NEW X, NEW s \in Seq(Seq(X)), NEW t \in Seq(X), Len(t) = Len(s),
         \A i \in 1 .. Len(s) : s[i] = <<t[i]>>
  PROVE  FlattenSeq(s) = t
<1> DEFINE Y == Seq(X)
           Ones(r, u) == \A i \in 1 .. Len(r) : r[i] = <<u[i]>>
           S == {n \in Nat : \A r \in Seq(Y), u \in Seq(X) :
                    Len(r) = n /\ Len(u) = n /\ Ones(r, u) => FlattenSeq(r) = u}
<1>1. 0 \in S
  <2>1. ASSUME NEW r \in Seq(Y), NEW u \in Seq(X), Len(r) = 0, Len(u) = 0
        PROVE  FlattenSeq(r) = u
    <3>1. r = <<>> /\ u = <<>>
      BY <2>1
    <3>2. QED
      BY <3>1, FlattenedNone
  <2>2. QED
    BY <2>1
<1>2. ASSUME NEW n \in Nat, n \in S PROVE n + 1 \in S
  <2>1. ASSUME NEW r \in Seq(Y), NEW u \in Seq(X), Len(r) = n + 1,
               Len(u) = n + 1, Ones(r, u)
        PROVE  FlattenSeq(r) = u
    <3> DEFINE f == SubSeq(r, 1, n)
               x == r[n + 1]
               g == SubSeq(u, 1, n)
               y == u[n + 1]
    <3>1. f \in Seq(Y) /\ x \in Y /\ Len(f) = n /\ r = Append(f, x)
          /\ \A i \in 1 .. n : f[i] = r[i]
      BY <2>1, FrontAndLast
    <3>2. g \in Seq(X) /\ y \in X /\ Len(g) = n /\ u = Append(g, y)
          /\ \A i \in 1 .. n : g[i] = u[i]
      BY <2>1, FrontAndLast
    <3>3. Ones(f, g) /\ x = <<y>>
      BY <2>1, <3>1, <3>2
    <3> HIDE DEF f, x, g, y, Ones
    <3>4. FlattenSeq(f) = g
      BY <1>2, <3>1, <3>2, <3>3
    <3>5. FlattenSeq(Append(f, x)) = FlattenSeq(f) \o x
      BY <3>1, FlattenedAppend
    <3>6. g \o <<y>> = Append(g, y)
      BY <3>2
    <3>7. QED
      BY <3>1, <3>2, <3>3, <3>4, <3>5, <3>6
  <2>2. QED
    BY <2>1
<1> HIDE DEF S
<1>3. Nat \subseteq S
  BY <1>1, <1>2, Induction
<1>4. Len(s) \in S
  BY <1>3
<1>5. QED
  BY <1>4 DEF S

(* The macros of the calls that were made at one place of an item.         *)
CallPart(call, n, at) ==
    IF call.item = n /\ call.at = at THEN <<call.macro>> ELSE <<>>
CallParts(made, n, at) == [i \in 1 .. Len(made) |-> CallPart(made[i], n, at)]
Traced(made, n, at) == FlattenSeq(CallParts(made, n, at))

LEMMA CallsTraced ==
  ASSUME NEW n, NEW at PROVE CallsAt(n, at) = Traced(macroCalls, n, at)
BY DEF CallsAt, Traced, CallParts, CallPart

LEMMA OneOrNone ==
  ASSUME NEW X, NEW x \in X PROVE <<x>> \in Seq(X) /\ <<>> \in Seq(X)
OBVIOUS

LEMMA SameElements ==
  ASSUME NEW X, NEW s \in Seq(X), NEW t \in Seq(X), Len(s) = Len(t),
         \A i \in 1 .. Len(s) : s[i] = t[i]
  PROVE  s = t
OBVIOUS

LEMMA ConcatIs ==
  ASSUME NEW X, NEW s \in Seq(X), NEW t \in Seq(X), NEW u \in Seq(X),
         Len(u) = Len(s) + Len(t), \A i \in 1 .. Len(s) : u[i] = s[i],
         \A i \in Len(s) + 1 .. Len(s) + Len(t) : u[i] = t[i - Len(s)]
  PROVE  u = s \o t
<1> DEFINE both == s \o t
<1>1. /\ both \in Seq(X) /\ Len(both) = Len(s) + Len(t)
      /\ Len(s) \in Nat /\ Len(t) \in Nat /\ Len(u) \in Nat
  OBVIOUS
<1>2. ASSUME NEW i \in 1 .. Len(u) PROVE u[i] = both[i]
  <2>1. CASE i \in 1 .. Len(s)
    <3>1. both[i] = s[i]
      BY <2>1
    <3> QED
      BY <2>1, <3>1
  <2>2. CASE i \in Len(s) + 1 .. Len(s) + Len(t)
    <3>1. both[i] = t[i - Len(s)]
      BY <2>2
    <3> QED
      BY <2>2, <3>1
  <2> QED
    BY <1>1, <2>1, <2>2
<1> HIDE DEF both
<1>3. Len(u) = Len(both)
  BY <1>1
<1>4. u = both
  BY <1>1, <1>2, <1>3, SameElements
<1> QED
  BY <1>4 DEF both

LEMMA CallPartsType ==
  ASSUME NEW made \in Seq(MacroCall), NEW n, NEW at
  PROVE  /\ CallParts(made, n, at) \in Seq(Seq(STRING))
         /\ Len(CallParts(made, n, at)) = Len(made)
         /\ \A i \in 1 .. Len(made) : CallParts(made, n, at)[i] = CallPart(made[i], n, at)
<1> DEFINE l == Len(made)
<1>1. l \in Nat /\ \A i \in 1 .. l : made[i] \in MacroCall
  OBVIOUS
<1>2. \A i \in 1 .. l : CallPart(made[i], n, at) \in Seq(STRING)
  <2>1. \A i \in 1 .. l : made[i].macro \in STRING
    BY <1>1 DEF MacroCall
  <2>2. ASSUME NEW i \in 1 .. l PROVE CallPart(made[i], n, at) \in Seq(STRING)
    <3>1. <<made[i].macro>> \in Seq(STRING) /\ <<>> \in Seq(STRING)
      BY <2>1, OneOrNone
    <3>2. QED
      BY <3>1 DEF CallPart
  <2>3. QED
    BY <2>2
<1>3. CallParts(made, n, at) = [i \in 1 .. l |-> CallPart(made[i], n, at)]
  BY DEF CallParts
<1> HIDE DEF l
<1>4. CallParts(made, n, at) \in Seq(Seq(STRING)) /\ Len(CallParts(made, n, at)) = l
  BY <1>1, <1>2, <1>3
<1>5. QED
  BY <1>3, <1>4 DEF l

LEMMA TracedType ==
  ASSUME NEW made \in Seq(MacroCall), NEW n, NEW at
  PROVE  Traced(made, n, at) \in Seq(STRING)
BY CallPartsType, Flattened DEF Traced

LEMMA CallPartsConcat ==
  ASSUME NEW made \in Seq(MacroCall), NEW new \in Seq(MacroCall), NEW n, NEW at
  PROVE  CallParts(made \o new, n, at) = CallParts(made, n, at) \o CallParts(new, n, at)
<1> DEFINE all == made \o new
           l == Len(made)
           m == Len(new)
           Y == Seq(STRING)
<1>1. /\ all \in Seq(MacroCall) /\ l \in Nat /\ m \in Nat /\ Len(all) = l + m
      /\ \A i \in 1 .. l : all[i] = made[i]
      /\ \A i \in l + 1 .. l + m : all[i] = new[i - l]
  OBVIOUS
<1> HIDE DEF all
<1>2. PICK s : s = CallParts(made, n, at)
  OBVIOUS
<1>3. PICK t : t = CallParts(new, n, at)
  OBVIOUS
<1>4. PICK u : u = CallParts(all, n, at)
  OBVIOUS
<1>5. /\ s \in Seq(Y) /\ Len(s) = l
      /\ \A i \in 1 .. l : s[i] = CallPart(made[i], n, at)
  BY <1>2, CallPartsType
<1>9. /\ t \in Seq(Y) /\ Len(t) = m
      /\ \A i \in 1 .. m : t[i] = CallPart(new[i], n, at)
  BY <1>3, CallPartsType
<1>10. /\ u \in Seq(Y) /\ Len(u) = l + m
       /\ \A i \in 1 .. l + m : u[i] = CallPart(all[i], n, at)
  <2>0. all \in Seq(MacroCall)
    BY <1>1
  <2>1. /\ u \in Seq(Y) /\ Len(u) = Len(all)
        /\ \A i \in 1 .. Len(all) : u[i] = CallPart(all[i], n, at)
    BY <1>4, <2>0, CallPartsType
  <2>2. QED
    BY <1>1, <2>1
<1> HIDE DEF l, m, Y
<1>6. \A i \in 1 .. l : u[i] = s[i]
  BY <1>1, <1>5, <1>10
<1>7. \A i \in l + 1 .. l + m : u[i] = t[i - l]
  BY <1>1, <1>9, <1>10
<1>8. u = s \o t
  <2>1. /\ Len(u) = Len(s) + Len(t) /\ \A i \in 1 .. Len(s) : u[i] = s[i]
        /\ \A i \in Len(s) + 1 .. Len(s) + Len(t) : u[i] = t[i - Len(s)]
    BY <1>1, <1>5, <1>6, <1>7, <1>9, <1>10
  <2>2. QED
    BY <1>5, <1>9, <1>10, <2>1, ConcatIs
<1>11. QED
  BY <1>2, <1>3, <1>4, <1>8 DEF all

LEMMA TracedConcat ==
  ASSUME NEW made \in Seq(MacroCall), NEW new \in Seq(MacroCall), NEW n, NEW at
  PROVE  Traced(made \o new, n, at) = Traced(made, n, at) \o Traced(new, n, at)
<1>1. PICK s : s = CallParts(made, n, at)
  OBVIOUS
<1>2. PICK t : t = CallParts(new, n, at)
  OBVIOUS
<1>3. s \in Seq(Seq(STRING)) /\ t \in Seq(Seq(STRING))
  BY <1>1, <1>2, CallPartsType
<1>4. FlattenSeq(s \o t) = FlattenSeq(s) \o FlattenSeq(t)
  BY <1>3, FlattenedConcat
<1>5. CallParts(made \o new, n, at) = s \o t
  <2>1. CallParts(made \o new, n, at) = CallParts(made, n, at) \o CallParts(new, n, at)
    BY CallPartsConcat
  <2>2. QED
    BY <1>1, <1>2, <2>1
<1>6. QED
  BY <1>1, <1>2, <1>4, <1>5 DEF Traced

LEMMA TracedNone ==
  ASSUME NEW made \in Seq(MacroCall), NEW n, NEW at,
         \A i \in 1 .. Len(made) : made[i].item # n \/ made[i].at # at
  PROVE  Traced(made, n, at) = <<>>
<1>1. PICK s : s = CallParts(made, n, at)
  OBVIOUS
<1>5. /\ s \in Seq(Seq(STRING)) /\ Len(s) = Len(made)
      /\ \A i \in 1 .. Len(made) : s[i] = CallPart(made[i], n, at)
  BY <1>1, CallPartsType
<1>2. \A i \in 1 .. Len(s) : s[i] = <<>>
  BY <1>5 DEF CallPart
<1>3. FlattenSeq(s) = <<>>
  BY <1>2, <1>5, FlattenedEmpty
<1>4. QED
  BY <1>1, <1>3 DEF Traced

LEMMA TracedAll ==
  ASSUME NEW made \in Seq(MacroCall), NEW n, NEW at, NEW names \in Seq(STRING),
         Len(names) = Len(made),
         \A i \in 1 .. Len(made) : /\ made[i].item = n /\ made[i].at = at
                                   /\ made[i].macro = names[i]
  PROVE  Traced(made, n, at) = names
<1>1. PICK s : s = CallParts(made, n, at)
  OBVIOUS
<1>2. /\ s \in Seq(Seq(STRING)) /\ Len(s) = Len(made)
      /\ \A i \in 1 .. Len(made) : s[i] = CallPart(made[i], n, at)
  BY <1>1, CallPartsType
<1>5. \A i \in 1 .. Len(s) : s[i] = <<names[i]>>
  BY <1>2 DEF CallPart
<1>3. FlattenSeq(s) = names
  BY <1>2, <1>5, FlattenedOnes
<1>4. QED
  BY <1>1, <1>3 DEF Traced

-----------------------------------------------------------------------------
(* What the calls of macros on an item say of it: its first attributes are *)
(* gone, and those of its functions.  Here mac are the attribute macros of *)
(* the item's component, first is the function whose macros came first.    *)

Ordered(made, n) ==
    \A i, j \in DOMAIN made :
        i < j /\ made[i].item = n /\ made[j].item = n
        => /\ made[i].at = "derive" => made[j].at = "derive"
           /\ made[i].at = "item" => made[j].at \in {"item", "derive"}

CalledInOrder(made, mac, der, o) ==
    /\ Ordered(made, o.name)
    /\ IsPrefix(Traced(made, o.name, "item"), Chosen(o.attrs, mac))
    /\ Traced(made, o.name, "derive") \in {<<>>, der}

LostIn(made, first, o, k) ==
    \/ \E i \in DOMAIN made :
           /\ made[i].item = o.name /\ made[i].at = o.funcs[k].name
           /\ made[i].result.stream = "empty"
    \/ first \in 1 .. k - 1

LeftAsIs(made, n) ==
    \E i \in DOMAIN made :
        /\ made[i].item = n /\ \A j \in DOMAIN made : made[j].item = n => j <= i
        /\ made[i].at = "item"
        /\ made[i].result.stream = "same" /\ ~made[i].result.data

(* The functions of the item as it is now are the first ones it had, each  *)
(* with the attributes that no macro was called for.                       *)
FuncsLeft(made, mac, first, o, funcs) ==
    /\ Len(funcs) <= Len(o.funcs)
    /\ \A k \in 1 .. Len(funcs) :
           /\ funcs[k].name = o.funcs[k].name
           /\ Chosen(o.funcs[k].attrs, mac) =
                  Traced(made, o.name, o.funcs[k].name) \o Chosen(funcs[k].attrs, mac)
    /\ \A k \in Len(funcs) + 1 .. Len(o.funcs) : LostIn(made, first, o, k)

NoneInside(mac, funcs) ==
    \A k \in 1 .. Len(funcs) : Chosen(funcs[k].attrs, mac) = <<>>

Underway(made, mac, first, o, now) ==
    /\ now.component = o.component /\ now.derives = o.derives
    /\ Chosen(o.attrs, mac) = Traced(made, o.name, "item") \o Chosen(now.attrs, mac)
    /\ FuncsLeft(made, mac, first, o, now.funcs)
    /\ (\E i \in DOMAIN made : made[i].item = o.name /\ made[i].at = "item")
           => NoneInside(mac, now.funcs)

Finished(made, mac, der, first, o, now) ==
    /\ Chosen(o.attrs, mac) = Traced(made, o.name, "item")
    /\ Traced(made, o.name, "derive") = der \/ LeftAsIs(made, o.name)
    /\ FuncsLeft(made, mac, first, o, now.funcs) /\ NoneInside(mac, now.funcs)

Traces(made, pend, kep, mac, der, first, o) ==
    /\ CalledInOrder(made, mac, der, o)
    /\ \A i \in DOMAIN pend : pend[i].name = o.name =>
           Underway(made, mac, first, o, pend[i])
    /\ \A now \in kep : now.name = o.name =>
           Finished(made, mac, der, first, o, now)

TracesKept ==
    \A k \in DOMAIN unit.items :
        LET o == unit.items[k]
        IN  Traces(macroCalls, pending, kept, Macros(o.component, "attr"),
                   ParseDerive(o), FirstInner(o), o)

LEMMA PrefixOfConcat ==
  ASSUME NEW X, NEW a \in Seq(X), NEW b \in Seq(X)
  PROVE  IsPrefix(a, a \o b) /\ IsPrefix(a, a)
BY DEF IsPrefix

(* Calls that follow those of before.                                      *)
LEMMA CallsFollow ==
  ASSUME NEW made \in Seq(MacroCall), NEW new \in Seq(MacroCall)
  PROVE  /\ made \o new \in Seq(MacroCall) /\ DOMAIN made = 1 .. Len(made)
         /\ Len(made) \in Nat /\ Len(new) \in Nat
         /\ DOMAIN (made \o new) = 1 .. Len(made) + Len(new)
         /\ \A i \in DOMAIN made : i \in DOMAIN (made \o new) /\ (made \o new)[i] = made[i]
         /\ \A i \in 1 .. Len(new) :
               /\ Len(made) + i \in DOMAIN (made \o new)
               /\ (made \o new)[Len(made) + i] = new[i]
         /\ \A i \in DOMAIN (made \o new) :
               \/ i \in DOMAIN made /\ (made \o new)[i] = made[i]
               \/ /\ i > Len(made) /\ i - Len(made) \in 1 .. Len(new)
                  /\ (made \o new)[i] = new[i - Len(made)]
<1> DEFINE l == Len(made)
           m == Len(new)
           all == made \o new
<1>1. /\ l \in Nat /\ m \in Nat /\ DOMAIN made = 1 .. l
      /\ all \in Seq(MacroCall) /\ Len(all) = l + m /\ DOMAIN all = 1 .. l + m
      /\ \A i \in 1 .. l : all[i] = made[i]
      /\ \A i \in l + 1 .. l + m : all[i] = new[i - l]
  OBVIOUS
<1> HIDE DEF l, m, all
<1>2. /\ \A i \in 1 .. l : i \in 1 .. l + m
      /\ \A i \in 1 .. m : l + i \in 1 .. l + m /\ (l + i) - l = i /\ l + i \in l + 1 .. l + m
      /\ \A i \in 1 .. l + m :
            i \in 1 .. l \/ (i > l /\ i - l \in 1 .. m /\ i \in l + 1 .. l + m)
  BY <1>1
<1>3. QED
  BY <1>1, <1>2 DEF l, m, all

(* Calls on other items.                                                   *)
LEMMA TracesElsewhere ==
  ASSUME NEW made \in Seq(MacroCall), NEW new \in Seq(MacroCall),
         NEW pend, NEW kep, NEW later, NEW stay, NEW mac, NEW der, NEW first, NEW o,
         \A i \in 1 .. Len(new) : new[i].item # o.name,
         \A i \in DOMAIN later : later[i].name = o.name =>
             \E j \in DOMAIN pend : later[i] = pend[j],
         \A now \in stay : now.name = o.name => now \in kep,
         Traces(made, pend, kep, mac, der, first, o)
  PROVE  Traces(made \o new, later, stay, mac, der, first, o)
<1> DEFINE all == made \o new
           n == o.name
<1>1. \A at : Traced(all, n, at) = Traced(made, n, at)
  <2>1. ASSUME NEW at PROVE Traced(all, n, at) = Traced(made, n, at)
    <3>1. Traced(all, n, at) = Traced(made, n, at) \o Traced(new, n, at)
      BY TracedConcat
    <3>2. Traced(new, n, at) = <<>>
      BY TracedNone
    <3>3. Traced(made, n, at) \o <<>> = Traced(made, n, at)
      BY TracedType
    <3>4. QED
      BY <3>1, <3>2, <3>3
  <2>2. QED
    BY <2>1
<1>2. /\ \A i \in DOMAIN made : i \in DOMAIN all /\ all[i] = made[i]
      /\ \A i \in DOMAIN all : all[i].item = n => i \in DOMAIN made /\ all[i] = made[i]
  BY SMTT(60), CallsFollow
<1> HIDE DEF all, n
<1>3. CalledInOrder(all, mac, der, o)
  <2>1. CalledInOrder(made, mac, der, o)
    BY DEF Traces
  <2>2. Ordered(all, n)
    BY <1>2, <2>1 DEF CalledInOrder, Ordered, n
  <2>3. QED
    BY <1>1, <2>1, <2>2 DEF CalledInOrder, n
<1>4. \A k : LostIn(made, first, o, k) => LostIn(all, first, o, k)
  BY <1>2 DEF LostIn
<1>5. \A funcs : FuncsLeft(made, mac, first, o, funcs) => FuncsLeft(all, mac, first, o, funcs)
  BY <1>1, <1>4 DEF FuncsLeft, n
<1>6. ASSUME NEW now, Underway(made, mac, first, o, now)
      PROVE  Underway(all, mac, first, o, now)
  BY <1>1, <1>2, <1>5, <1>6 DEF Underway, n
<1>7. ASSUME NEW now, Finished(made, mac, der, first, o, now)
      PROVE  Finished(all, mac, der, first, o, now)
  <2>1. LeftAsIs(made, n) => LeftAsIs(all, n)
    BY <1>2 DEF LeftAsIs
  <2>2. QED
    BY <1>1, <1>5, <1>7, <2>1 DEF Finished, n
<1>8. QED
  BY <1>3, <1>6, <1>7 DEF Traces, n, all

LEMMA FirstChosen ==
  ASSUME NEW attrs \in Seq(STRING), NEW mac, NEW i \in 1 .. Len(attrs),
         attrs[i] \in mac, \A j \in 1 .. i - 1 : attrs[j] \notin mac
  PROVE  /\ Chosen(attrs, mac) = <<attrs[i]>> \o Chosen(RemoveAt(attrs, i), mac)
         /\ (\A j \in i + 1 .. Len(attrs) : attrs[j] \notin mac)
               => Chosen(RemoveAt(attrs, i), mac) = <<>>
BY ChosenFirst

(* What is found in attributes is the first one that is a macro.           *)
LEMMA ParsedAttrs ==
  ASSUME NEW c, NEW attrs \in Seq(STRING), NEW mac, mac = Macros(c, "attr")
  PROVE  IF ParseAttrs(c, attrs) = Missing THEN Chosen(attrs, mac) = <<>>
         ELSE /\ ParseAttrs(c, attrs) \in FoundType
              /\ Chosen(attrs, mac) =
                    <<ParseAttrs(c, attrs).name>> \o Chosen(ParseAttrs(c, attrs).others, mac)
              /\ ParseAttrs(c, attrs).last =>
                    Chosen(ParseAttrs(c, attrs).others, mac) = <<>>
<1>1. CASE ParseAttrs(c, attrs) = Missing
  <2>1. \A i \in 1 .. Len(attrs) : attrs[i] \notin mac
    BY <1>1, NoAttr DEF IsAttr
  <2>2. Chosen(attrs, mac) = <<>>
    BY <2>1, ChosenNothing
  <2>3. QED
    BY <1>1, <2>2
<1>2. CASE ParseAttrs(c, attrs) # Missing
  <2>1. PICK i \in 1 .. Len(attrs) :
            /\ IsAttr(c, attrs[i])
            /\ \A j \in 1 .. i - 1 : ~IsAttr(c, attrs[j])
            /\ ParseAttrs(c, attrs) =
                  [name |-> attrs[i], others |-> RemoveAt(attrs, i),
                   last |-> \A j \in i + 1 .. Len(attrs) : ~IsAttr(c, attrs[j])]
    BY <1>2, FirstAttr
  <2>2. PICK found : found = ParseAttrs(c, attrs)
    OBVIOUS
  <2>3. /\ found.name = attrs[i] /\ found.others = RemoveAt(attrs, i)
        /\ found.last => \A j \in i + 1 .. Len(attrs) : ~IsAttr(c, attrs[j])
    BY <2>1, <2>2
  <2>4. attrs[i] \in mac /\ \A j \in 1 .. i - 1 : attrs[j] \notin mac
    BY <2>1 DEF IsAttr
  <2>5. /\ Chosen(attrs, mac) = <<attrs[i]>> \o Chosen(RemoveAt(attrs, i), mac)
        /\ (\A j \in i + 1 .. Len(attrs) : attrs[j] \notin mac)
               => Chosen(RemoveAt(attrs, i), mac) = <<>>
    BY <2>4, FirstChosen
  <2>6. found.last => \A j \in i + 1 .. Len(attrs) : attrs[j] \notin mac
    BY <2>3 DEF IsAttr
  <2>7. found \in FoundType
    BY <1>2, <2>2, ParsedType
  <2>8. /\ Chosen(attrs, mac) = <<found.name>> \o Chosen(found.others, mac)
        /\ found.last => Chosen(found.others, mac) = <<>>
    BY <2>3, <2>5, <2>6
  <2>9. QED
    BY <1>2, <2>2, <2>7, <2>8
<1>3. QED
  BY <1>1, <1>2

LEMMA FuncType ==
  ASSUME NEW item \in Item
  PROVE  /\ Len(item.funcs) \in Nat
         /\ \A k \in 1 .. Len(item.funcs) :
               /\ item.funcs[k] \in Func /\ item.funcs[k].attrs \in Seq(STRING)
               /\ item.funcs[k].name \notin {"item", "derive"}
<1>1. item.funcs \in Seq(Func)
  BY Fields
<1>2. \A k \in 1 .. Len(item.funcs) : item.funcs[k] \in Func
  BY <1>1
<1>3. QED
  BY <1>1, <1>2 DEF Func

(* The functions before the first one with a macro have none.              *)
LEMMA InnerAttrs ==
  ASSUME NEW item \in Item, NEW mac, mac = Macros(item.component, "attr")
  PROVE  IF FirstInner(item) = 0 THEN NoneInside(mac, item.funcs)
         ELSE /\ FirstInner(item) \in 1 .. Len(item.funcs)
              /\ InnerFound(item) \in FoundType
              /\ Chosen(item.funcs[FirstInner(item)].attrs, mac) =
                    <<InnerFound(item).name>> \o Chosen(InnerFound(item).others, mac)
              /\ \A k \in 1 .. FirstInner(item) - 1 :
                    Chosen(item.funcs[k].attrs, mac) = <<>>
<1>1. ASSUME NEW k \in 1 .. Len(item.funcs),
             ParseAttrs(item.component, item.funcs[k].attrs) = Missing
      PROVE  Chosen(item.funcs[k].attrs, mac) = <<>>
  BY <1>1, FuncType, ParsedAttrs
<1>2. CASE FirstInner(item) = 0
  <2>1. \A k \in 1 .. Len(item.funcs) :
            ParseAttrs(item.component, item.funcs[k].attrs) = Missing
    BY <1>2, FirstFunc
  <2>2. QED
    BY <1>1, <1>2, <2>1 DEF NoneInside
<1>3. CASE FirstInner(item) # 0
  <2>1. PICK m : m = FirstInner(item)
    OBVIOUS
  <2>2. /\ m \in 1 .. Len(item.funcs)
        /\ ParseAttrs(item.component, item.funcs[m].attrs) # Missing
        /\ \A k \in 1 .. m - 1 :
              ParseAttrs(item.component, item.funcs[k].attrs) = Missing
    BY <1>3, <2>1, FirstFunc
  <2>3. \A k \in 1 .. m - 1 : k \in 1 .. Len(item.funcs)
    BY <2>2, FuncType
  <2>4. \A k \in 1 .. m - 1 : Chosen(item.funcs[k].attrs, mac) = <<>>
    BY <1>1, <2>2, <2>3
  <2>5. PICK attrs : attrs = item.funcs[m].attrs
    OBVIOUS
  <2>6. attrs \in Seq(STRING)
    BY <2>2, <2>5, FuncType
  <2>7. PICK found : found = ParseAttrs(item.component, attrs)
    OBVIOUS
  <2>8. found \in FoundType /\ Chosen(attrs, mac) = <<found.name>> \o Chosen(found.others, mac)
    BY SMTT(60), <2>2, <2>5, <2>6, <2>7, ParsedAttrs
  <2>9. found = InnerFound(item)
    BY <2>1, <2>5, <2>7 DEF InnerFound
  <2>10. QED
    BY <1>3, <2>1, <2>2, <2>4, <2>5, <2>8, <2>9
<1>4. QED
  BY <1>2, <1>3

(* A call that follows the others.                                         *)
LEMMA OneCall ==
  ASSUME NEW call \in MacroCall
  PROVE  /\ <<call>> \in Seq(MacroCall) /\ Len(<<call>>) = 1 /\ <<call>>[1] = call
         /\ call.macro \in STRING
BY DEF MacroCall

LEMMA TracedMore ==
  ASSUME NEW made \in Seq(MacroCall), NEW call \in MacroCall, NEW n, NEW at,
         call.item = n, call.at = at
  PROVE  Traced(made \o <<call>>, n, at) = Traced(made, n, at) \o <<call.macro>>
<1> DEFINE new == <<call>>
           names == <<call.macro>>
<1>1. new \in Seq(MacroCall) /\ Len(new) = 1 /\ new[1] = call
  BY OneCall
<1>2. names \in Seq(STRING) /\ Len(names) = 1 /\ names[1] = call.macro
  <2>1. PICK X : X = STRING
    OBVIOUS
  <2>2. PICK x \in X : x = call.macro
    BY <2>1, OneCall
  <2>3. <<x>> \in Seq(X) /\ Len(<<x>>) = 1 /\ <<x>>[1] = x
    OBVIOUS
  <2>4. QED
    BY <2>1, <2>2, <2>3
<1> HIDE DEF new, names
<1>3. Traced(made \o new, n, at) = Traced(made, n, at) \o Traced(new, n, at)
  BY <1>1, TracedConcat
<1>4. Traced(new, n, at) = names
  BY <1>1, <1>2, TracedAll
<1>5. QED
  BY <1>3, <1>4 DEF new, names

LEMMA TracedSame ==
  ASSUME NEW made \in Seq(MacroCall), NEW call \in MacroCall, NEW n, NEW at,
         call.item # n \/ call.at # at
  PROVE  Traced(made \o <<call>>, n, at) = Traced(made, n, at)
<1> DEFINE new == <<call>>
<1>1. new \in Seq(MacroCall) /\ Len(new) = 1 /\ new[1] = call
  BY OneCall
<1> HIDE DEF new
<1>2. Traced(made \o new, n, at) = Traced(made, n, at) \o Traced(new, n, at)
  BY <1>1, TracedConcat
<1>3. Traced(new, n, at) = <<>>
  BY <1>1, TracedNone
<1>4. Traced(made, n, at) \o <<>> = Traced(made, n, at)
  BY TracedType
<1>5. QED
  BY <1>2, <1>3, <1>4 DEF new

(* The item of the program, the item as it is now, and the calls so far.   *)
Now(made, mac, der, first, o, item) ==
    /\ o \in Item /\ item \in Item /\ item.name = o.name
    /\ \A k, l \in DOMAIN o.funcs : o.funcs[k].name = o.funcs[l].name => k = l
    /\ mac = Macros(o.component, "attr")
    /\ der = ParseDerive(o) /\ first = FirstInner(o)
    /\ made \in Seq(MacroCall)
    /\ CalledInOrder(made, mac, der, o)
    /\ Underway(made, mac, first, o, item)
    /\ \A i \in DOMAIN made : made[i].at = "derive" => made[i].item # o.name

LEMMA NoDerives ==
  ASSUME NEW made, NEW mac, NEW der, NEW first, NEW o, NEW item,
         Now(made, mac, der, first, o, item)
  PROVE  /\ Traced(made, o.name, "derive") = <<>>
         /\ item.component = o.component /\ ParseDerive(item) = der
         /\ mac = Macros(item.component, "attr")
         /\ Chosen(item.attrs, mac) \in Seq(STRING)
         /\ Traced(made, o.name, "item") \in Seq(STRING)
<1>1. Traced(made, o.name, "derive") = <<>>
  <2>1. made \in Seq(MacroCall)
        /\ \A i \in 1 .. Len(made) : made[i].item # o.name \/ made[i].at # "derive"
    BY DEF Now
  <2>2. QED
    BY <2>1, TracedNone
<1>2. item.component = o.component /\ item.derives = o.derives
  BY DEF Now, Underway
<1>3. ParseDerive(item) = der /\ mac = Macros(item.component, "attr")
  BY <1>2 DEF Now, ParseDerive
<1>4. Chosen(item.attrs, mac) \in Seq(STRING)
  BY Fields, ChosenType DEF Now
<1>5. Traced(made, o.name, "item") \in Seq(STRING)
  BY TracedType DEF Now
<1>6. QED
  BY <1>1, <1>2, <1>3, <1>4, <1>5

(* No macro is left to call: the item stays as it is.                      *)
LEMMA StaysUntouched ==
  ASSUME NEW made, NEW mac, NEW der, NEW first, NEW o, NEW item,
         Now(made, mac, der, first, o, item),
         FirstInner(item) = 0, Found(item) = Missing, ParseDerive(item) = <<>>
  PROVE  Finished(made, mac, der, first, o, item)
<1>1. Traced(made, o.name, "derive") = <<>> /\ mac = Macros(item.component, "attr")
      /\ ParseDerive(item) = der
  BY NoDerives
<1>2. Chosen(item.attrs, mac) = <<>>
  BY <1>1, Fields, ParsedAttrs DEF Now, Found
<1>3. NoneInside(mac, item.funcs)
  BY <1>1, InnerAttrs DEF Now
<1>4. Chosen(o.attrs, mac) = Traced(made, o.name, "item")
  <2>1. Chosen(o.attrs, mac) = Traced(made, o.name, "item") \o <<>>
    BY <1>2 DEF Now, Underway
  <2>2. QED
    BY <2>1, NoDerives
<1>5. Traced(made, o.name, "derive") = der
  BY <1>1
<1>6. QED
  BY <1>3, <1>4, <1>5 DEF Finished, Now, Underway

(* The derives are called, all of them.                                    *)
LEMMA StaysDerived ==
  ASSUME NEW made, NEW mac, NEW der, NEW first, NEW o, NEW item,
         Now(made, mac, der, first, o, item),
         FirstInner(item) = 0, Found(item) = Missing,
         NEW new \in Seq(MacroCall), Len(new) = Len(der), der \in Seq(STRING),
         \A i \in 1 .. Len(new) : /\ new[i].item = o.name /\ new[i].at = "derive"
                                  /\ new[i].macro = der[i]
  PROVE  /\ CalledInOrder(made \o new, mac, der, o)
         /\ Finished(made \o new, mac, der, first, o, item)
<1> DEFINE all == made \o new
           n == o.name
<1>0. made \in Seq(MacroCall)
  BY DEF Now
<1>1. /\ \A i \in DOMAIN made : i \in DOMAIN all /\ all[i] = made[i]
      /\ \A i \in DOMAIN all : \/ i \in DOMAIN made /\ all[i] = made[i]
                               \/ /\ i > Len(made) /\ i - Len(made) \in 1 .. Len(new)
                                  /\ all[i] = new[i - Len(made)]
      /\ Len(made) \in Nat /\ DOMAIN made = 1 .. Len(made) /\ Len(new) \in Nat
      /\ DOMAIN all = 1 .. Len(made) + Len(new)
  BY <1>0, CallsFollow
<1>2. \A at : Traced(all, n, at) = Traced(made, n, at) \o Traced(new, n, at)
  BY <1>0, TracedConcat
<1>3. \A at : at # "derive" => Traced(all, n, at) = Traced(made, n, at)
  <2>1. ASSUME NEW at, at # "derive"
        PROVE  Traced(all, n, at) = Traced(made, n, at)
    <3>1. Traced(new, n, at) = <<>>
      BY <2>1, TracedNone
    <3>2. Traced(made, n, at) \o <<>> = Traced(made, n, at)
      BY <1>0, TracedType
    <3>3. QED
      BY <1>2, <3>1, <3>2
  <2>2. QED
    BY <2>1
<1>4. Traced(all, n, "derive") = der
  <2>1. Traced(new, n, "derive") = der
    BY TracedAll
  <2>2. Traced(made, n, "derive") = <<>>
    BY NoDerives
  <2>3. <<>> \o der = der
    OBVIOUS
  <2>4. QED
    BY <1>2, <2>1, <2>2, <2>3
<1>5. Ordered(all, n)
  <2>1. Ordered(made, n)
    BY DEF Now, CalledInOrder
  <2>2. \A i \in DOMAIN all : \/ i \in DOMAIN made /\ all[i] = made[i]
                              \/ i \notin DOMAIN made /\ all[i].at = "derive"
    BY <1>1
  <2>3. \A i, j \in DOMAIN all : i < j /\ j \in DOMAIN made => i \in DOMAIN made
    BY <1>1
  <2>4. \A i \in DOMAIN made : made[i].item = n => made[i].at # "derive"
    BY DEF Now
  <2> HIDE DEF all, n
  <2>5. QED
    BY <2>1, <2>2, <2>3, <2>4 DEF Ordered
<1> HIDE DEF all, n
<1>6. Finished(made, mac, <<>>, first, o, item)
  <2>1. Traced(made, o.name, "derive") = <<>> /\ mac = Macros(item.component, "attr")
    BY NoDerives
  <2>2. Chosen(item.attrs, mac) = <<>>
    BY <2>1, Fields, ParsedAttrs DEF Now, Found
  <2>3. NoneInside(mac, item.funcs)
    BY <2>1, InnerAttrs DEF Now
  <2>4. Chosen(o.attrs, mac) = Traced(made, o.name, "item") \o <<>>
    BY <2>2 DEF Now, Underway
  <2>5. Chosen(o.attrs, mac) = Traced(made, o.name, "item")
    BY <2>4, NoDerives
  <2>6. QED
    BY <2>1, <2>3, <2>5 DEF Finished, Now, Underway
<1>7. Chosen(o.attrs, mac) = Traced(all, n, "item")
  <2>1. "item" # "derive"
    OBVIOUS
  <2>2. QED
    BY <1>3, <1>6, <2>1 DEF Finished, n
<1>8. FuncsLeft(all, mac, first, o, item.funcs)
  <2>1. FuncsLeft(made, mac, first, o, item.funcs)
    BY <1>6 DEF Finished
  <2>2. \A k : LostIn(made, first, o, k) => LostIn(all, first, o, k)
    BY <1>1 DEF LostIn
  <2>3. \A k \in 1 .. Len(o.funcs) : Traced(all, n, o.funcs[k].name) = Traced(made, n, o.funcs[k].name)
    BY <1>3, FuncType DEF Now
  <2>4. \A k \in 1 .. Len(item.funcs) : k \in 1 .. Len(o.funcs)
    BY <2>1, FuncType DEF FuncsLeft, Now
  <2>5. QED
    BY <2>1, <2>2, <2>3, <2>4 DEF FuncsLeft, n
<1>9. CalledInOrder(all, mac, der, o)
  <2>1. IsPrefix(Traced(all, n, "item"), Chosen(o.attrs, mac))
    <3>1. PICK s : s = Traced(all, n, "item")
      OBVIOUS
    <3>2. s \in Seq(STRING)
      BY <3>1, <1>0, TracedType, CallsFollow DEF all
    <3>3. IsPrefix(s, s)
      BY <3>2, PrefixOfConcat
    <3>4. QED
      BY <1>7, <3>1, <3>3
  <2>2. QED
    BY <1>4, <1>5, <2>1 DEF CalledInOrder, n
<1>10. Finished(all, mac, der, first, o, item)
  BY <1>4, <1>6, <1>7, <1>8 DEF Finished, n
<1>11. QED
  BY <1>9, <1>10 DEF all

(* A call on the item, after those before.                                 *)
LEMMA OneMoreCall ==
  ASSUME NEW made \in Seq(MacroCall), NEW call \in MacroCall
  PROVE  /\ made \o <<call>> \in Seq(MacroCall) /\ Len(made) \in Nat
         /\ DOMAIN made = 1 .. Len(made)
         /\ DOMAIN (made \o <<call>>) = 1 .. Len(made) + 1
         /\ (made \o <<call>>)[Len(made) + 1] = call
         /\ \A i \in DOMAIN made :
               i \in DOMAIN (made \o <<call>>) /\ (made \o <<call>>)[i] = made[i]
         /\ \A i \in DOMAIN (made \o <<call>>) :
               \/ i \in DOMAIN made /\ (made \o <<call>>)[i] = made[i]
               \/ i = Len(made) + 1 /\ (made \o <<call>>)[i] = call
OBVIOUS

LEMMA OrderKept ==
  ASSUME NEW made \in Seq(MacroCall), NEW call \in MacroCall, NEW n,
         Ordered(made, n), call.at # "derive",
         \A i \in DOMAIN made : made[i].at = "derive" => made[i].item # n,
         call.at # "item" =>
             \A i \in DOMAIN made : made[i].at = "item" => made[i].item # n
  PROVE  Ordered(made \o <<call>>, n)
<1> DEFINE all == made \o <<call>>
           l == Len(made)
<1>1. /\ l \in Nat /\ DOMAIN made = 1 .. l /\ DOMAIN all = 1 .. l + 1
      /\ \A i \in DOMAIN all : \/ i \in DOMAIN made /\ all[i] = made[i]
                               \/ i = l + 1 /\ all[i] = call
  BY OneMoreCall
<1> HIDE DEF all, l
<1>2. \A i, j \in DOMAIN all : i < j => i \in DOMAIN made /\ all[i] = made[i]
  BY <1>1
<1>3. ASSUME NEW i \in DOMAIN all, NEW j \in DOMAIN all,
             i < j, all[i].item = n, all[j].item = n
      PROVE  /\ all[i].at = "derive" => all[j].at = "derive"
             /\ all[i].at = "item" => all[j].at \in {"item", "derive"}
  <2>1. i \in DOMAIN made /\ all[i] = made[i]
    BY <1>2, <1>3
  <2>2. CASE j \in DOMAIN made /\ all[j] = made[j]
    BY <1>3, <2>1, <2>2 DEF Ordered
  <2>3. CASE all[j] = call
    BY <1>3, <2>1, <2>3
  <2>4. QED
    BY <1>1, <2>2, <2>3
<1>4. Ordered(all, n)
  BY <1>3 DEF Ordered
<1>5. QED
  BY <1>4 DEF all

(* An attribute is called: it is the first of those that are left.         *)
LEMMA AttributeCalled ==
  ASSUME NEW made, NEW mac, NEW der, NEW first, NEW o, NEW item,
         Now(made, mac, der, first, o, item),
         FirstInner(item) = 0, Found(item) # Missing,
         NEW call \in MacroCall, call.item = o.name, call.at = "item",
         call.macro = Found(item).name
  PROVE  /\ CalledInOrder(made \o <<call>>, mac, der, o)
         /\ \A next : /\ next.component = item.component /\ next.derives = item.derives
                      /\ next.funcs = item.funcs /\ next.attrs = Found(item).others
                => Underway(made \o <<call>>, mac, first, o, next)
         /\ Found(item).last /\ call.result.stream = "same" /\ ~call.result.data
                => Finished(made \o <<call>>, mac, der, first, o, item)
<1> DEFINE all == made \o <<call>>
           n == o.name
           left == Chosen(Found(item).others, mac)
           gone == Traced(made, n, "item")
           name == Found(item).name
<1>0. made \in Seq(MacroCall) /\ item \in Item /\ o \in Item
  BY DEF Now
<1>1. /\ \A i \in DOMAIN made : i \in DOMAIN all /\ all[i] = made[i]
      /\ \A i \in DOMAIN all : \/ i \in DOMAIN made /\ all[i] = made[i]
                               \/ i = Len(made) + 1 /\ all[i] = call
      /\ Len(made) \in Nat /\ DOMAIN made = 1 .. Len(made)
      /\ DOMAIN all = 1 .. Len(made) + 1 /\ all[Len(made) + 1] = call
      /\ all \in Seq(MacroCall)
  BY <1>0, OneMoreCall
<1>2. \A at : at # "item" => Traced(all, n, at) = Traced(made, n, at)
  BY <1>0, TracedSame
<1>3. Traced(all, n, "item") = gone \o <<name>>
  <2>1. Traced(all, n, "item") = gone \o <<call.macro>>
    BY <1>0, TracedMore
  <2>2. QED
    BY <2>1
<1>4. /\ Found(item) \in FoundType /\ Chosen(item.attrs, mac) = <<name>> \o left
      /\ Found(item).last => left = <<>>
  <2>1. mac = Macros(item.component, "attr") /\ item.attrs \in Seq(STRING)
    BY <1>0, NoDerives, Fields
  <2>2. QED
    BY <2>1, ParsedAttrs DEF Found
<1>5. gone \in Seq(STRING) /\ <<name>> \in Seq(STRING) /\ left \in Seq(STRING)
  <2>1. name \in STRING /\ Found(item).others \in Seq(STRING)
    BY <1>4 DEF FoundType
  <2>2. <<name>> \in Seq(STRING)
    BY <2>1, OneOrNone
  <2>3. gone \in Seq(STRING)
    BY <1>0, TracedType
  <2>4. left \in Seq(STRING)
    BY <2>1, ChosenType
  <2>5. QED
    BY <2>2, <2>3, <2>4
<1>6. Chosen(o.attrs, mac) = gone \o Chosen(item.attrs, mac)
  BY DEF Now, Underway
<1>7. FuncsLeft(made, mac, first, o, item.funcs) /\ CalledInOrder(made, mac, der, o)
  BY DEF Now, Underway
<1>8. NoneInside(mac, item.funcs)
  <2>1. mac = Macros(item.component, "attr")
    BY NoDerives
  <2>2. QED
    BY <1>0, <2>1, InnerAttrs
<1>9. Ordered(all, n)
  <2>1. Ordered(made, n) /\ \A i \in DOMAIN made : made[i].at = "derive" => made[i].item # n
    BY DEF Now, CalledInOrder
  <2>2. QED
    BY <1>0, <2>1, OrderKept
<1>10. Traced(made, n, "derive") \in {<<>>, der}
  BY <1>7 DEF CalledInOrder
<1> HIDE DEF all, n, left, gone, name
<1>11. Chosen(o.attrs, mac) = Traced(all, n, "item") \o left
  <2>1. gone \o (<<name>> \o left) = (gone \o <<name>>) \o left
    BY <1>5, ConcatAssociative
  <2>2. QED
    BY <1>3, <1>4, <1>6, <2>1
<1>12. FuncsLeft(all, mac, first, o, item.funcs)
  <2>1. \A k : LostIn(made, first, o, k) => LostIn(all, first, o, k)
    BY <1>1 DEF LostIn
  <2>2. \A k \in 1 .. Len(o.funcs) : Traced(all, n, o.funcs[k].name) = Traced(made, n, o.funcs[k].name)
    BY <1>0, <1>2, FuncType
  <2>3. \A k \in 1 .. Len(item.funcs) : k \in 1 .. Len(o.funcs)
    BY <1>0, <1>7, FuncType DEF FuncsLeft
  <2>4. QED
    BY <1>7, <2>1, <2>2, <2>3 DEF FuncsLeft, n
<1>13. CalledInOrder(all, mac, der, o)
  <2>1. "derive" # "item"
    OBVIOUS
  <2>2. Traced(all, n, "derive") \in {<<>>, der}
    BY <1>2, <1>10, <2>1
  <2>3. IsPrefix(Traced(all, n, "item"), Chosen(o.attrs, mac))
    <3>1. Traced(all, n, "item") \in Seq(STRING)
      BY <1>1, TracedType
    <3>2. QED
      BY <1>5, <1>11, <3>1, PrefixOfConcat
  <2>4. QED
    BY <1>9, <2>2, <2>3 DEF CalledInOrder, n
<1>14. ASSUME NEW next, next.component = item.component, next.derives = item.derives,
              next.funcs = item.funcs, next.attrs = Found(item).others
       PROVE  Underway(all, mac, first, o, next)
  <2>1. Chosen(o.attrs, mac) = Traced(all, o.name, "item") \o Chosen(next.attrs, mac)
    BY <1>11, <1>14 DEF left, n
  <2>2. next.component = o.component /\ next.derives = o.derives
    BY <1>14 DEF Now, Underway
  <2>3. QED
    BY <1>8, <1>12, <1>14, <2>1, <2>2 DEF Underway
<1>15. ASSUME Found(item).last, call.result.stream = "same", ~call.result.data
       PROVE  Finished(all, mac, der, first, o, item)
  <2>1. Chosen(o.attrs, mac) = Traced(all, o.name, "item")
    <3>1. Traced(all, n, "item") \in Seq(STRING)
      BY <1>1, TracedType
    <3>2. Traced(all, n, "item") \o <<>> = Traced(all, n, "item")
      BY <3>1
    <3>3. QED
      BY <1>4, <1>11, <1>15, <3>2 DEF n
  <2>2. LeftAsIs(all, o.name)
    <3>1. PICK m : m = Len(made) + 1
      OBVIOUS
    <3>2. m \in DOMAIN all /\ all[m] = call /\ \A j \in DOMAIN all : j <= m
      BY <1>1, <3>1
    <3>3. QED
      BY <1>15, <3>2 DEF LeftAsIs
  <2>3. QED
    BY <1>8, <1>12, <2>1, <2>2 DEF Finished
<1>16. QED
  BY <1>13, <1>14, <1>15 DEF all

LEMMA OneBetween ==
  ASSUME NEW X, NEW a \in Seq(X), NEW x \in X, NEW b \in Seq(X)
  PROVE  /\ a \o (<<x>> \o b) = (a \o <<x>>) \o b
         /\ a \o (<<x>> \o b) # <<>> /\ <<x>> \o b # <<>>
OBVIOUS

(* The functions of an item after the macro of the first one was called:   *)
(* those before it, and it, unless the macro took it away.                 *)
LEMMA FuncsExpanded ==
  ASSUME NEW item \in Item, FirstInner(item) # 0, NEW empty \in BOOLEAN, NEW next,
         next = Expanded(item, empty)
  PROVE  /\ next.component = item.component /\ next.derives = item.derives
         /\ next.attrs = item.attrs
         /\ \A k \in 1 .. FirstInner(item) - 1 : next.funcs[k] = item.funcs[k]
         /\ empty => Len(next.funcs) = FirstInner(item) - 1
         /\ ~empty => /\ Len(next.funcs) = FirstInner(item)
                      /\ next.funcs[FirstInner(item)].name =
                            item.funcs[FirstInner(item)].name
                      /\ next.funcs[FirstInner(item)].attrs = InnerFound(item).others
<1>1. PICK m : m = FirstInner(item)
  OBVIOUS
<1>2. PICK func : func = [name |-> item.funcs[m].name, attrs |-> InnerFound(item).others]
  OBVIOUS
<1>3. PICK s : s = item.funcs
  OBVIOUS
<1>4. m \in 1 .. Len(s) /\ s \in Seq(Func)
  BY <1>1, <1>3, ExpandedType, Fields
<1>5. /\ next = [item EXCEPT !.funcs = next.funcs]
      /\ next.funcs = SubSeq(s, 1, m - 1) \o (IF empty THEN <<>> ELSE <<func>>)
  BY <1>1, <1>2, <1>3, ExpandedType
<1>6. /\ next.component = item.component /\ next.derives = item.derives
      /\ next.attrs = item.attrs
  BY <1>5 DEF Item
<1>7. func \in Func
  <2>1. InnerFound(item) \in FoundType /\ item.funcs[m] \in Func
    BY <1>1, ExpandedType
  <2>2. func.name = item.funcs[m].name /\ func.attrs = InnerFound(item).others
    BY <1>2
  <2>3. item.funcs[m].name \in STRING \ {"item", "derive"}
        /\ InnerFound(item).others \in Seq(STRING)
    BY <2>1 DEF FoundType, Func
  <2>4. QED
    BY <1>2, <2>3 DEF Func
<1>8. PICK pre : pre = SubSeq(s, 1, m - 1)
  OBVIOUS
<1>9. pre \in Seq(Func) /\ Len(pre) = m - 1 /\ \A k \in 1 .. m - 1 : pre[k] = s[k]
  BY <1>4, <1>8
<1>10. CASE empty
  <2>1. next.funcs = pre
    BY <1>5, <1>8, <1>9, <1>10
  <2>2. QED
    BY <1>1, <1>3, <1>6, <1>9, <1>10, <2>1
<1>11. CASE ~empty
  <2>1. next.funcs = pre \o <<func>>
    BY <1>5, <1>8, <1>11
  <2>2. /\ Len(next.funcs) = m /\ next.funcs[m] = func
        /\ \A k \in 1 .. m - 1 : next.funcs[k] = pre[k]
    BY <1>4, <1>7, <1>9, <2>1
  <2>3. func.name = item.funcs[m].name /\ func.attrs = InnerFound(item).others
    BY <1>2
  <2>4. QED
    BY <1>1, <1>3, <1>6, <1>9, <1>11, <2>2, <2>3
<1>12. QED
  BY <1>10, <1>11

(* An attribute of a function is called: what precedes it has no macros,   *)
(* and what follows is lost when it comes back.                            *)
LEMMA InnerCalled ==
  ASSUME NEW made, NEW mac, NEW der, NEW first, NEW o, NEW item,
         Now(made, mac, der, first, o, item), FirstInner(item) # 0,
         NEW call \in MacroCall, call.item = o.name,
         call.at = item.funcs[FirstInner(item)].name,
         call.at \notin {"item", "derive"}, call.macro = InnerFound(item).name,
         NEW empty \in BOOLEAN, empty => call.result.stream = "empty",
         NEW next, next = Expanded(item, empty)
  PROVE  /\ CalledInOrder(made \o <<call>>, mac, der, o)
         /\ Underway(made \o <<call>>, mac, first, o, next)
<1> DEFINE all == made \o <<call>>
           n == o.name
           name == InnerFound(item).name
           left == Chosen(InnerFound(item).others, mac)
<1>0. made \in Seq(MacroCall) /\ item \in Item /\ o \in Item
  BY DEF Now
<1>1. /\ \A i \in DOMAIN made : i \in DOMAIN all /\ all[i] = made[i]
      /\ \A i \in DOMAIN all : \/ i \in DOMAIN made /\ all[i] = made[i]
                               \/ all[i] = call
      /\ \E i \in DOMAIN all : all[i] = call
  <2>1. /\ Len(made) + 1 \in DOMAIN all /\ all[Len(made) + 1] = call
    BY <1>0, OneMoreCall
  <2>2. QED
    BY <1>0, <2>1, OneMoreCall
<1>2. \A at : at # call.at => Traced(all, n, at) = Traced(made, n, at)
  BY <1>0, TracedSame
<1>3. Traced(all, n, call.at) = Traced(made, n, call.at) \o <<name>>
  <2>1. Traced(all, n, call.at) = Traced(made, n, call.at) \o <<call.macro>>
    BY <1>0, TracedMore
  <2>2. QED
    BY <2>1
<1>4. PICK m : m = FirstInner(item)
  OBVIOUS
<1>5. mac = Macros(item.component, "attr") /\ mac = Macros(o.component, "attr")
  BY NoDerives DEF Now
<1>6. /\ m \in 1 .. Len(item.funcs) /\ InnerFound(item) \in FoundType
      /\ Chosen(item.funcs[m].attrs, mac) = <<name>> \o left
      /\ \A k \in 1 .. m - 1 : Chosen(item.funcs[k].attrs, mac) = <<>>
  BY <1>0, <1>4, <1>5, InnerAttrs
<1>7. FuncsLeft(made, mac, first, o, item.funcs) /\ CalledInOrder(made, mac, der, o)
  BY DEF Now, Underway
<1>8. /\ Len(item.funcs) \in Nat /\ Len(o.funcs) \in Nat
      /\ Len(item.funcs) <= Len(o.funcs)
      /\ DOMAIN o.funcs = 1 .. Len(o.funcs)
  <2>1. o.funcs \in Seq(Func)
    BY <1>0, Fields
  <2>2. QED
    BY <1>0, <1>7, <2>1, FuncType DEF FuncsLeft
<1>9. \A k \in 1 .. m : k \in 1 .. Len(item.funcs) /\ k \in 1 .. Len(o.funcs)
  BY <1>6, <1>8
<1>10. call.at = o.funcs[m].name
  BY <1>4, <1>6, <1>7 DEF FuncsLeft
<1>11. name \in STRING /\ left \in Seq(STRING) /\ Traced(made, n, call.at) \in Seq(STRING)
  <2>1. name \in STRING /\ InnerFound(item).others \in Seq(STRING)
    BY <1>6 DEF FoundType
  <2>2. left \in Seq(STRING)
    BY <2>1, ChosenType
  <2>3. Traced(made, n, call.at) \in Seq(STRING)
    BY SMTT(60), <1>0, TracedType
  <2>4. QED
    BY <2>1, <2>2, <2>3
<1>12. /\ Chosen(o.funcs[m].attrs, mac) = Traced(all, n, call.at) \o left
       /\ Chosen(o.funcs[m].attrs, mac) # <<>>
       /\ Chosen(item.funcs[m].attrs, mac) # <<>>
  <2>1. Chosen(o.funcs[m].attrs, mac) =
            Traced(made, n, call.at) \o Chosen(item.funcs[m].attrs, mac)
    BY <1>6, <1>7, <1>10 DEF FuncsLeft
  <2> DEFINE before == Traced(made, n, call.at)
  <2>2. before \in Seq(STRING)
    BY <1>11
  <2> HIDE DEF before, left, name, all, n
  <2>3. /\ before \o (<<name>> \o left) = (before \o <<name>>) \o left
        /\ before \o (<<name>> \o left) # <<>> /\ <<name>> \o left # <<>>
    BY <1>11, <2>2, OneBetween
  <2>4. QED
    BY ZenonT(40), <1>3, <1>6, <2>1, <2>3 DEF before
<1>13. first \in 1 .. m
  <2>1. IF first = 0 THEN NoneInside(mac, o.funcs)
        ELSE /\ first \in 1 .. Len(o.funcs)
             /\ \A k \in 1 .. first - 1 : Chosen(o.funcs[k].attrs, mac) = <<>>
    <3>1. first = FirstInner(o)
      BY DEF Now
    <3>2. QED
      BY <1>0, <1>5, <3>1, InnerAttrs
  <2>2. m \in 1 .. Len(o.funcs) /\ m \in Nat
    BY <1>6, <1>8
  <2>3. first # 0
    BY <1>12, <2>1, <2>2 DEF NoneInside
  <2>4. m \notin 1 .. first - 1
    BY <1>12, <2>1, <2>3
  <2>5. QED
    BY <1>8, <2>1, <2>2, <2>3, <2>4
<1>14. \A i \in DOMAIN made : made[i].at = "item" => made[i].item # n
  <2>1. ~NoneInside(mac, item.funcs)
    BY <1>6, <1>12 DEF NoneInside
  <2>2. QED
    BY <2>1 DEF Now, Underway
<1>15. Ordered(all, n)
  <2>1. Ordered(made, n) /\ \A i \in DOMAIN made : made[i].at = "derive" => made[i].item # n
    BY DEF Now, CalledInOrder
  <2>2. QED
    BY <1>0, <1>14, <2>1, OrderKept
<1> HIDE DEF all, n, left, name
<1>16. CalledInOrder(all, mac, der, o)
  <2>1. Traced(all, n, "item") = Traced(made, n, "item")
        /\ Traced(all, n, "derive") = Traced(made, n, "derive")
    BY <1>2
  <2>2. QED
    BY <1>7, <1>15, <2>1 DEF CalledInOrder, n
<1>17. /\ next.component = item.component /\ next.derives = item.derives
       /\ next.attrs = item.attrs
       /\ \A k \in 1 .. m - 1 : next.funcs[k] = item.funcs[k]
       /\ empty => Len(next.funcs) = m - 1
       /\ ~empty => /\ Len(next.funcs) = m
                    /\ next.funcs[m].name = item.funcs[m].name
                    /\ next.funcs[m].attrs = InnerFound(item).others
  BY <1>0, <1>4, FuncsExpanded
<1>18. FuncsLeft(all, mac, first, o, next.funcs)
  <2>1. Len(next.funcs) \in {m - 1, m} /\ Len(next.funcs) <= Len(o.funcs)
    BY <1>6, <1>8, <1>17
  <2>2. ASSUME NEW k \in 1 .. m - 1
        PROVE  /\ next.funcs[k].name = o.funcs[k].name
               /\ Chosen(o.funcs[k].attrs, mac) =
                     Traced(all, o.name, o.funcs[k].name) \o Chosen(next.funcs[k].attrs, mac)
    <3>1. k \in 1 .. m /\ k # m /\ m \in 1 .. m
      BY <1>6
    <3>2. o.funcs[k].name # o.funcs[m].name
      BY <1>8, <1>9, <3>1 DEF Now
    <3>3. Traced(all, n, o.funcs[k].name) = Traced(made, n, o.funcs[k].name)
      BY <1>2, <1>10, <3>2
    <3>4. next.funcs[k] = item.funcs[k]
      BY <1>17
    <3>5. QED
      BY <1>7, <1>9, <3>1, <3>3, <3>4 DEF FuncsLeft, n
  <2>3. ASSUME ~empty
        PROVE  /\ next.funcs[m].name = o.funcs[m].name
               /\ Chosen(o.funcs[m].attrs, mac) =
                     Traced(all, o.name, o.funcs[m].name) \o Chosen(next.funcs[m].attrs, mac)
    <3>1. next.funcs[m].name = o.funcs[m].name
      BY <1>4, <1>10, <1>17, <2>3
    <3>2. Chosen(next.funcs[m].attrs, mac) = left
      BY <1>17, <2>3 DEF left
    <3>3. QED
      BY <1>10, <1>12, <3>1, <3>2 DEF n
  <2>4. ASSUME NEW k \in Len(next.funcs) + 1 .. Len(o.funcs)
        PROVE  LostIn(all, first, o, k)
    <3>1. CASE k = m
      <4>1. empty
        BY <1>6, <1>17, <2>1, <2>4, <3>1
      <4>2. call.result.stream = "empty" /\ call.at = o.funcs[k].name /\ call.item = o.name
        BY <1>10, <3>1, <4>1
      <4>3. QED
        BY <1>1, <4>2 DEF LostIn
    <3>2. CASE k # m
      <4>1. first \in 1 .. k - 1
        BY <1>6, <1>8, <1>13, <2>1, <2>4, <3>2
      <4>2. QED
        BY <4>1 DEF LostIn
    <3>3. QED
      BY <3>1, <3>2
  <2>5. \A k \in 1 .. Len(next.funcs) : k \in 1 .. m - 1 \/ (~empty /\ k = m)
    BY <1>6, <1>17
  <2>6. QED
    BY <2>1, <2>2, <2>3, <2>4, <2>5 DEF FuncsLeft
<1>19. Underway(all, mac, first, o, next)
  <2>1. \A i \in DOMAIN all : all[i].item = o.name => all[i].at # "item"
    BY <1>1, <1>14 DEF n
  <2>2. Traced(all, o.name, "item") = Traced(made, o.name, "item")
    BY <1>2 DEF n
  <2>3. QED
    BY <1>17, <1>18, <2>1, <2>2 DEF Underway, Now
<1>20. QED
  BY <1>16, <1>19 DEF all

(* An item of the program, and what of it does not change.                 *)
OfUnit(o, mac, der, first) ==
    /\ \E k \in DOMAIN unit.items : o = unit.items[k]
    /\ mac = Macros(o.component, "attr")
    /\ der = ParseDerive(o) /\ first = FirstInner(o)

LEMMA OriginType ==
  ASSUME HostType, NEW o, NEW mac, NEW der, NEW first, OfUnit(o, mac, der, first)
  PROVE  /\ o \in Item /\ o.name \in Names /\ der \in Seq(STRING)
         /\ <<o.name, "derived">> \notin Names
         /\ \A k, l \in DOMAIN o.funcs : o.funcs[k].name = o.funcs[l].name => k = l
<1>1. PICK k \in DOMAIN unit.items : o = unit.items[k]
  BY DEF OfUnit
<1>2. o \in Item /\ o.name \in Names
  BY <1>1, HostAssumption DEF HostType, Names
<1>3. <<o.name, "derived">> \notin Names
  BY <1>2, NamesApart
<1>4. \A j, l \in DOMAIN o.funcs : o.funcs[j].name = o.funcs[l].name => j = l
  BY <1>1, HostAssumption DEF HostType
<1>5. der \in Seq(STRING)
  <2>1. der = Chosen(o.derives, Macros(o.component, "derive"))
    BY DEF OfUnit, ParseDerive
  <2>2. QED
    BY <1>2, <2>1, Fields, ChosenType
<1>6. QED
  BY <1>2, <1>3, <1>4, <1>5

LEMMA UnitSame ==
  ASSUME unit' = unit
  PROVE  /\ \A c, kind : Macros(c, kind)' = Macros(c, kind)
         /\ \A o : ParseDerive(o)' = ParseDerive(o)
         /\ \A o : FirstInner(o)' = FirstInner(o)
<1>1. \A c, kind : Macros(c, kind)' = Macros(c, kind)
  BY DEF Macros, Declared
<1>2. \A o : ParseDerive(o)' = ParseDerive(o)
  BY <1>1 DEF ParseDerive, Chosen
<1>3. \A c, name : IsAttr(c, name)' = IsAttr(c, name)
  BY <1>1 DEF IsAttr
<1>4. \A c, attrs : ParseAttrs(c, attrs)' = ParseAttrs(c, attrs)
  BY ZenonT(120), <1>3 DEF ParseAttrs, SelectInSeq
<1>5. \A o : FirstInner(o)' = FirstInner(o)
  BY <1>4 DEF FirstInner, SelectInSeq
<1>6. QED
  BY <1>1, <1>2, <1>5

(* The item that is visited is the one piece of an item of the program ... *)
LEMMA OwnPieces ==
  ASSUME HostType, Pieces, pending # <<>>, NEW n \in Names, pending[1].name = n
  PROVE  /\ \A i \in DOMAIN Tail(pending) : Tail(pending)[i].name # n
         /\ \A new \in Item : \A i \in DOMAIN Append(Tail(pending), new) :
                Append(Tail(pending), new)[i].name = n =>
                    Append(Tail(pending), new)[i] = new
         /\ \A now \in kept : now.name # n
         /\ \A i \in DOMAIN macroCalls :
                macroCalls[i].at = "derive" => macroCalls[i].item # n
<1> DEFINE l == Len(pending)
           t == Tail(pending)
<1>1. /\ l \in Nat \ {0} /\ DOMAIN pending = 1 .. l /\ t \in Seq(Item)
      /\ Len(t) = l - 1 /\ DOMAIN t = 1 .. l - 1
      /\ \A i \in 1 .. l - 1 : t[i] = pending[i + 1]
  BY DEF HostType
<1>2. \A i \in DOMAIN t : i + 1 \in DOMAIN pending /\ i + 1 # 1 /\ t[i] = pending[i + 1]
  <2> HIDE DEF t, l
  <2>1. QED
    BY <1>1
<1>3. 1 \in DOMAIN pending
  BY <1>1
<1>4. \A i \in DOMAIN t : t[i].name # n
  BY <1>2, <1>3 DEF Pieces
<1>5. ASSUME NEW new \in Item, NEW i \in DOMAIN Append(t, new),
             Append(t, new)[i].name = n
      PROVE  Append(t, new)[i] = new
  <2>1. \/ i \in DOMAIN t /\ Append(t, new)[i] = t[i]
        \/ Append(t, new)[i] = new
    <3> HIDE DEF t
    <3>1. QED
      BY <1>1, <1>5
  <2>2. QED
    BY <1>4, <1>5, <2>1
<1>6. QED
  BY <1>3, <1>4, <1>5 DEF Pieces

(* ... or of another one.                                                  *)
LEMMA OtherPieces ==
  ASSUME HostType, pending # <<>>, NEW n
  PROVE  /\ \A i \in DOMAIN Tail(pending) : \E j \in DOMAIN pending :
                Tail(pending)[i] = pending[j]
         /\ \A new \in Item : \A i \in DOMAIN Append(Tail(pending), new) :
                new.name # n /\ Append(Tail(pending), new)[i].name = n =>
                    \E j \in DOMAIN pending : Append(Tail(pending), new)[i] = pending[j]
<1> DEFINE l == Len(pending)
           t == Tail(pending)
<1>1. /\ l \in Nat \ {0} /\ DOMAIN pending = 1 .. l /\ t \in Seq(Item)
      /\ Len(t) = l - 1 /\ DOMAIN t = 1 .. l - 1
      /\ \A i \in 1 .. l - 1 : t[i] = pending[i + 1]
  BY DEF HostType
<1>2. \A i \in DOMAIN t : i + 1 \in DOMAIN pending /\ t[i] = pending[i + 1]
  <2> HIDE DEF t, l
  <2>1. QED
    BY <1>1
<1>3. \A i \in DOMAIN t : \E j \in DOMAIN pending : t[i] = pending[j]
  BY <1>2
<1>5. ASSUME NEW new \in Item, NEW i \in DOMAIN Append(t, new), new.name # n,
             Append(t, new)[i].name = n
      PROVE  \E j \in DOMAIN pending : Append(t, new)[i] = pending[j]
  <2>1. \/ i \in DOMAIN t /\ Append(t, new)[i] = t[i]
        \/ Append(t, new)[i] = new
    <3> HIDE DEF t
    <3>1. QED
      BY <1>1, <1>5
  <2>2. QED
    BY <1>3, <1>5, <2>1
<1>6. QED
  BY <1>3, <1>5

LEMMA NowHolds ==
  ASSUME HostType, Pieces, NEW o, NEW mac, NEW der, NEW first,
         OfUnit(o, mac, der, first), pending # <<>>, pending[1].name = o.name,
         Traces(macroCalls, pending, kept, mac, der, first, o)
  PROVE  Now(macroCalls, mac, der, first, o, pending[1])
<1>1. 1 \in DOMAIN pending /\ pending[1] \in Item /\ macroCalls \in Seq(MacroCall)
  BY DEF HostType
<1>2. Underway(macroCalls, mac, first, o, pending[1])
      /\ CalledInOrder(macroCalls, mac, der, o)
  BY <1>1 DEF Traces
<1>3. o \in Item /\ o.name \in Names
      /\ \A k, l \in DOMAIN o.funcs : o.funcs[k].name = o.funcs[l].name => k = l
  BY OriginType
<1>4. \A i \in DOMAIN macroCalls :
          macroCalls[i].at = "derive" => macroCalls[i].item # o.name
  BY <1>3, OwnPieces
<1>5. QED
  BY <1>1, <1>2, <1>3, <1>4 DEF Now, OfUnit

(* An item that uses no macros has none.                                   *)
LEMMA NoMacros ==
  ASSUME NEW item \in Item, ~UsesProcMacros(item)
  PROVE  FirstInner(item) = 0 /\ Found(item) = Missing /\ ParseDerive(item) = <<>>
<1> DEFINE c == item.component
<1>1. \A a \in ToSet(item.attrs) \cup AttrsWithin(item) : ~IsAttr(c, a)
  BY DEF UsesProcMacros, IsAttr, Macros
<1>2. ASSUME NEW attrs \in Seq(STRING), ParseAttrs(c, attrs) # Missing
      PROVE  \E a \in ToSet(attrs) : IsAttr(c, a)
  BY <1>2, FirstAttr DEF ToSet
<1>3. Found(item) = Missing
  BY <1>1, <1>2, Fields DEF Found
<1>4. FirstInner(item) = 0
  <2>1. SUFFICES ASSUME FirstInner(item) # 0 PROVE FALSE
    OBVIOUS
  <2>2. PICK k \in 1 .. Len(item.funcs) :
            ParseAttrs(item.component, item.funcs[k].attrs) # Missing
    BY <2>1, FirstFunc
  <2>3. item.funcs[k].attrs \in Seq(STRING) /\ k \in DOMAIN item.funcs
    BY FuncType, Fields
  <2>4. ToSet(item.funcs[k].attrs) \subseteq AttrsWithin(item)
    BY <2>3 DEF AttrsWithin
  <2>5. QED
    BY <1>1, <1>2, <2>2, <2>3, <2>4
<1>5. ParseDerive(item) = <<>>
  BY ChosenOfNone DEF ParseDerive, UsesProcMacros
<1>6. QED
  BY <1>3, <1>4, <1>5

LEMMA CallAppended ==
  ASSUME HostType, NEW call \in MacroCall
  PROVE  Append(macroCalls, call) = macroCalls \o <<call>> /\ macroCalls \in Seq(MacroCall)
BY DEF HostType

(* Every step keeps the traces of every item of the program.               *)
LEMMA UntouchedTraces ==
  ASSUME HostType, Pieces, NEW o, NEW mac, NEW der, NEW first,
         OfUnit(o, mac, der, first),
         Traces(macroCalls, pending, kept, mac, der, first, o),
         NEW item, Untouched(item)
  PROVE  Traces(macroCalls', pending', kept', mac, der, first, o)
<1>1. /\ item \in Item /\ pending' = Tail(pending) /\ kept' = kept \cup {item}
      /\ macroCalls' = macroCalls
  BY UntouchedStep
<1>2. pending # <<>> /\ item = pending[1]
  BY TailType DEF Untouched
<1>3. FirstInner(item) = 0 /\ Found(item) = Missing /\ ParseDerive(item) = <<>>
  BY <1>1, NoMacros DEF Untouched, Found
<1>4. CASE item.name = o.name
  <2>1. Now(macroCalls, mac, der, first, o, item)
    BY <1>2, <1>4, NowHolds
  <2>2. Finished(macroCalls, mac, der, first, o, item)
    BY <1>3, <2>1, StaysUntouched
  <2>3. /\ \A i \in DOMAIN pending' : pending'[i].name # o.name
        /\ \A now \in kept' : now.name = o.name => now = item
    BY <1>1, <1>2, <1>4, OwnPieces, OriginType
  <2>4. QED
    BY <1>1, <2>2, <2>3 DEF Traces
<1>5. CASE item.name # o.name
  <2>1. \A i \in DOMAIN pending' : pending'[i].name = o.name =>
            \E j \in DOMAIN pending : pending'[i] = pending[j]
    BY <1>1, <1>2, OtherPieces
  <2>2. \A now \in kept' : now.name = o.name => now \in kept
    BY <1>1, <1>5
  <2>3. QED
    BY <1>1, <2>1, <2>2 DEF Traces
<1>6. QED
  BY <1>4, <1>5

LEMMA InnerTraces ==
  ASSUME HostType, Pieces, NEW o, NEW mac, NEW der, NEW first,
         OfUnit(o, mac, der, first),
         Traces(macroCalls, pending, kept, mac, der, first, o),
         NEW item, ExpandInnerAttr(item)
  PROVE  Traces(macroCalls', pending', kept', mac, der, first, o)
<1>1. /\ pending # <<>> /\ item = pending[1]
  BY SMTT(60), TailType DEF ExpandInnerAttr
<1>2. item \in Item /\ FirstInner(item) # 0 /\ kept' = kept
  BY SMTT(60), InnerStep
<1>3. PICK result \in Results :
         /\ macroCalls' = Append(macroCalls,
               Call(item, item.funcs[FirstInner(item)].name,
                    InnerFound(item).name, "attr", result))
         /\ pending' = Append(Tail(pending), Expanded(item, result.stream = "empty"))
  BY InnerStep
<1>4. PICK call : call = Call(item, item.funcs[FirstInner(item)].name,
                              InnerFound(item).name, "attr", result)
  OBVIOUS
<1>5. /\ call \in MacroCall /\ call.at \notin {"item", "derive"}
      /\ call.at = item.funcs[FirstInner(item)].name /\ call.item = item.name
      /\ call.macro = InnerFound(item).name /\ call.result = result
  BY <1>2, <1>3, <1>4, CallOfInner
<1>6. PICK empty \in BOOLEAN : empty = (result.stream = "empty")
  OBVIOUS
<1>7. PICK next : next = Expanded(item, empty)
  OBVIOUS
<1>8. next \in Item /\ next.name = item.name
  <2>1. Expanded(item, empty) \in Item
        /\ Expanded(item, empty) = [item EXCEPT !.funcs = Expanded(item, empty).funcs]
    BY <1>2, ExpandedType
  <2>2. next \in Item /\ next = [item EXCEPT !.funcs = next.funcs]
    BY <1>7, <2>1
  <2>3. QED
    BY <1>2, <2>2 DEF Item
<1>9. pending' = Append(Tail(pending), next)
  BY <1>3, <1>6, <1>7
<1>10. macroCalls' = macroCalls \o <<call>> /\ macroCalls \in Seq(MacroCall)
  BY <1>3, <1>4, <1>5, CallAppended
<1>11. CASE item.name = o.name
  <2>1. Now(macroCalls, mac, der, first, o, item)
    BY <1>1, <1>11, NowHolds
  <2>2. empty => call.result.stream = "empty"
    BY <1>5, <1>6
  <2>3. /\ CalledInOrder(macroCalls \o <<call>>, mac, der, o)
        /\ Underway(macroCalls \o <<call>>, mac, first, o, next)
    BY <1>2, <1>5, <1>7, <1>11, <2>1, <2>2, InnerCalled
  <2>4. /\ \A i \in DOMAIN pending' : pending'[i].name = o.name => pending'[i] = next
        /\ \A now \in kept' : now.name # o.name
    BY <1>1, <1>2, <1>8, <1>9, <1>11, OwnPieces, OriginType
  <2>5. QED
    BY <1>10, <2>3, <2>4 DEF Traces
<1>12. CASE item.name # o.name
  <2>1. \A i \in DOMAIN pending' : pending'[i].name = o.name =>
            \E j \in DOMAIN pending : pending'[i] = pending[j]
    BY <1>1, <1>8, <1>9, <1>12, OtherPieces
  <2>2. \A now \in kept' : now.name = o.name => now \in kept
    BY <1>2
  <2>3. <<call>> \in Seq(MacroCall) /\ \A i \in 1 .. Len(<<call>>) : <<call>>[i].item # o.name
    BY <1>5, <1>12, OneCall
  <2>4. PICK new \in Seq(MacroCall) : new = <<call>>
    BY <2>3
  <2>5. Traces(macroCalls \o new, pending', kept', mac, der, first, o)
    BY <1>10, <2>1, <2>2, <2>3, <2>4, TracesElsewhere
  <2>6. QED
    BY <1>10, <2>4, <2>5
<1>13. QED
  BY <1>11, <1>12

LEMMA AttributeTraces ==
  ASSUME HostType, Pieces, NEW o, NEW mac, NEW der, NEW first,
         OfUnit(o, mac, der, first),
         Traces(macroCalls, pending, kept, mac, der, first, o),
         NEW item, ExpandAttribute(item)
  PROVE  Traces(macroCalls', pending', kept', mac, der, first, o)
<1>1. /\ pending # <<>> /\ item = pending[1]
  BY TailType DEF ExpandAttribute
<1>2. item \in Item /\ FirstInner(item) = 0 /\ Found(item) # Missing
  BY AttributeStep
<1>3. PICK result \in Results :
         /\ macroCalls' = Append(macroCalls,
               Call(item, "item", Found(item).name, "attr", result))
         /\ \/ pending' = Tail(pending) /\ kept' = kept
            \/ /\ pending' = Tail(pending) /\ kept' = kept \cup {item}
               /\ Found(item).last /\ result.stream = "same" /\ ~result.data
            \/ pending' = Append(Tail(pending), Without(item, result)) /\ kept' = kept
  BY AttributeStep DEF Optimised
<1>4. PICK call : call = Call(item, "item", Found(item).name, "attr", result)
  OBVIOUS
<1>5. /\ call \in MacroCall /\ call.at = "item" /\ call.item = item.name
      /\ call.macro = Found(item).name /\ call.result = result
  BY <1>2, <1>3, <1>4, CallOfItem
<1>6. PICK next : next = Without(item, result)
  OBVIOUS
<1>7. /\ next \in Item /\ next.name = item.name /\ next.component = item.component
      /\ next.derives = item.derives /\ next.funcs = item.funcs
      /\ next.attrs = Found(item).others
  BY <1>2, <1>3, <1>6, WithoutType
<1>8. \/ pending' = Tail(pending) /\ kept' = kept
      \/ /\ pending' = Tail(pending) /\ kept' = kept \cup {item}
         /\ Found(item).last /\ result.stream = "same" /\ ~result.data
      \/ pending' = Append(Tail(pending), next) /\ kept' = kept
  BY <1>3, <1>6
<1>9. macroCalls' = macroCalls \o <<call>> /\ macroCalls \in Seq(MacroCall)
  BY <1>3, <1>4, <1>5, CallAppended
<1>10. CASE item.name = o.name
  <2>1. Now(macroCalls, mac, der, first, o, item)
    BY <1>1, <1>10, NowHolds
  <2>2. /\ CalledInOrder(macroCalls \o <<call>>, mac, der, o)
        /\ Underway(macroCalls \o <<call>>, mac, first, o, next)
        /\ Found(item).last /\ call.result.stream = "same" /\ ~call.result.data
               => Finished(macroCalls \o <<call>>, mac, der, first, o, item)
    BY <1>2, <1>5, <1>7, <1>10, <2>1, AttributeCalled
  <2>3. /\ \A i \in DOMAIN Tail(pending) : Tail(pending)[i].name # o.name
        /\ \A i \in DOMAIN Append(Tail(pending), next) :
              Append(Tail(pending), next)[i].name = o.name =>
                  Append(Tail(pending), next)[i] = next
        /\ \A now \in kept : now.name # o.name
    BY <1>1, <1>7, <1>10, OwnPieces, OriginType
  <2>4. CASE pending' = Tail(pending) /\ kept' = kept
    BY <1>9, <2>2, <2>3, <2>4 DEF Traces
  <2>5. CASE /\ pending' = Tail(pending) /\ kept' = kept \cup {item}
             /\ Found(item).last /\ result.stream = "same" /\ ~result.data
    <3>1. Finished(macroCalls \o <<call>>, mac, der, first, o, item)
      BY <1>5, <2>2, <2>5
    <3>2. \A now \in kept' : now.name = o.name => now = item
      BY <2>3, <2>5
    <3>3. QED
      BY <1>9, <2>2, <2>3, <2>5, <3>1, <3>2 DEF Traces
  <2>6. CASE pending' = Append(Tail(pending), next) /\ kept' = kept
    BY <1>9, <2>2, <2>3, <2>6 DEF Traces
  <2>7. QED
    BY <1>8, <2>4, <2>5, <2>6
<1>11. CASE item.name # o.name
  <2>1. \A i \in DOMAIN pending' : pending'[i].name = o.name =>
            \E j \in DOMAIN pending : pending'[i] = pending[j]
    <3>1. CASE pending' = Tail(pending)
      BY <1>1, <3>1, OtherPieces
    <3>2. CASE pending' = Append(Tail(pending), next)
      BY <1>1, <1>7, <1>11, <3>2, OtherPieces
    <3>3. QED
      BY <1>8, <3>1, <3>2
  <2>2. \A now \in kept' : now.name = o.name => now \in kept
    BY <1>8, <1>11
  <2>3. <<call>> \in Seq(MacroCall) /\ \A i \in 1 .. Len(<<call>>) : <<call>>[i].item # o.name
    BY <1>5, <1>11, OneCall
  <2>4. PICK new \in Seq(MacroCall) : new = <<call>>
    BY <2>3
  <2>5. Traces(macroCalls \o new, pending', kept', mac, der, first, o)
    BY <1>9, <2>1, <2>2, <2>3, <2>4, TracesElsewhere
  <2>6. QED
    BY <1>9, <2>4, <2>5
<1>12. QED
  BY <1>10, <1>11

LEMMA DeriveTraces ==
  ASSUME HostType, Pieces, NEW o, NEW mac, NEW der, NEW first,
         OfUnit(o, mac, der, first),
         Traces(macroCalls, pending, kept, mac, der, first, o),
         NEW item, ExpandDerives(item)
  PROVE  Traces(macroCalls', pending', kept', mac, der, first, o)
<1>1. /\ pending # <<>> /\ item = pending[1]
  BY TailType DEF ExpandDerives
<1>2. /\ item \in Item /\ FirstInner(item) = 0 /\ Found(item) = Missing
      /\ kept' = kept \cup {item}
  BY DeriveStep
<1>3. PICK result \in [DOMAIN ParseDerive(item) -> Results] :
         /\ macroCalls' = macroCalls \o DeriveCalls(item, result)
         /\ \/ pending' = Tail(pending)
            \/ pending' = Append(Tail(pending), DerivedFrom(item))
  BY DeriveStep
<1>4. PICK new : new = DeriveCalls(item, result)
  OBVIOUS
<1>5. /\ new \in Seq(MacroCall) /\ Len(new) = Len(ParseDerive(item))
      /\ \A i \in 1 .. Len(new) :
            /\ new[i].item = item.name /\ new[i].at = "derive"
            /\ new[i].macro = ParseDerive(item)[i]
  BY <1>2, <1>3, <1>4, DeriveCallsType
<1>6. macroCalls' = macroCalls \o new /\ macroCalls \in Seq(MacroCall)
  BY <1>3, <1>4 DEF HostType
<1>7. PICK next : next = DerivedFrom(item)
  OBVIOUS
<1>8. next \in Item /\ next.name = <<item.name, "derived">> /\ item.name \in Names
  BY <1>2, <1>7, DerivedItem, DerivedType
<1>9. next.name # o.name
  <2>1. next.name \notin Names
    BY <1>8, NamesApart
  <2>2. QED
    BY <2>1, OriginType
<1>10. pending' = Tail(pending) \/ pending' = Append(Tail(pending), next)
  BY <1>3, <1>7
<1>11. CASE item.name = o.name
  <2>1. Now(macroCalls, mac, der, first, o, item)
    BY <1>1, <1>11, NowHolds
  <2>2. ParseDerive(item) = der /\ der \in Seq(STRING)
    <3>1. ParseDerive(item) = der
      BY <2>1, NoDerives
    <3>2. der \in Seq(STRING)
      BY OriginType
    <3>3. QED
      BY <3>1, <3>2
  <2>3. /\ Len(new) = Len(der)
        /\ \A i \in 1 .. Len(new) : /\ new[i].item = o.name /\ new[i].at = "derive"
                                    /\ new[i].macro = der[i]
    BY <1>5, <1>11, <2>2
  <2>4. /\ CalledInOrder(macroCalls \o new, mac, der, o)
        /\ Finished(macroCalls \o new, mac, der, first, o, item)
    BY <1>2, <1>5, <2>1, <2>2, <2>3, StaysDerived
  <2>5. /\ \A i \in DOMAIN Tail(pending) : Tail(pending)[i].name # o.name
        /\ \A i \in DOMAIN Append(Tail(pending), next) :
              Append(Tail(pending), next)[i].name = o.name =>
                  Append(Tail(pending), next)[i] = next
        /\ \A now \in kept : now.name # o.name
    BY <1>1, <1>8, <1>11, OwnPieces, OriginType
  <2>6. \A i \in DOMAIN pending' : pending'[i].name # o.name
    <3>1. CASE pending' = Tail(pending)
      BY <2>5, <3>1
    <3>2. CASE pending' = Append(Tail(pending), next)
      BY <1>9, <2>5, <3>2
    <3>3. QED
      BY <1>10, <3>1, <3>2
  <2>7. \A now \in kept' : now.name = o.name => now = item
    BY <1>2, <2>5
  <2>8. QED
    BY <1>6, <2>4, <2>6, <2>7 DEF Traces
<1>12. CASE item.name # o.name
  <2>1. \A i \in DOMAIN pending' : pending'[i].name = o.name =>
            \E j \in DOMAIN pending : pending'[i] = pending[j]
    <3>1. CASE pending' = Tail(pending)
      BY <1>1, <3>1, OtherPieces
    <3>2. CASE pending' = Append(Tail(pending), next)
      BY <1>1, <1>8, <1>9, <3>2, OtherPieces
    <3>3. QED
      BY <1>10, <3>1, <3>2
  <2>2. \A now \in kept' : now.name = o.name => now \in kept
    BY <1>2, <1>12
  <2>3. \A i \in 1 .. Len(new) : new[i].item # o.name
    BY <1>5, <1>12
  <2>4. Traces(macroCalls \o new, pending', kept', mac, der, first, o)
    BY <1>5, <1>6, <2>1, <2>2, <2>3, TracesElsewhere
  <2>5. QED
    BY <1>6, <2>4
<1>13. QED
  BY <1>11, <1>12

LEMMA TracesStep ==
  ASSUME HostType, Pieces, TracesKept, [HostNext]_hostVars
  PROVE  TracesKept'
<1>1. unit' = unit
  <2>1. CASE UNCHANGED hostVars
    BY SMTT(60), <2>1 DEF hostVars
  <2>2. CASE HostNext
    BY Zenon, <2>2
       DEF HostNext, LoadHosts, PostProcess, Untouched, ExpandInnerAttr,
                ExpandAttribute, ExpandDerives
  <2>3. QED
    BY <2>1, <2>2
<1>2. ASSUME NEW o, NEW mac, NEW der, NEW first, OfUnit(o, mac, der, first)
      PROVE  Traces(macroCalls', pending', kept', mac, der, first, o)
  <2>1. Traces(macroCalls, pending, kept, mac, der, first, o)
    BY <1>2 DEF OfUnit, TracesKept
  <2>2. CASE UNCHANGED hostVars \/ LoadHosts \/ \E c \in Component : PostProcess(c)
    <3>1. UNCHANGED <<macroCalls, pending, kept>>
      BY <2>2 DEF hostVars, LoadHosts, PostProcess
    <3>2. QED
      BY <2>1, <3>1
  <2>3. ASSUME NEW item, \/ Untouched(item) \/ ExpandInnerAttr(item)
                         \/ ExpandAttribute(item) \/ ExpandDerives(item)
        PROVE  Traces(macroCalls', pending', kept', mac, der, first, o)
    BY <1>2, <2>1, <2>3, UntouchedTraces, InnerTraces, AttributeTraces, DeriveTraces
  <2>4. QED
    BY <2>2, <2>3 DEF HostNext
<1>3. ASSUME NEW k \in DOMAIN unit.items, NEW o, o = unit.items[k]
      PROVE  Traces(macroCalls', pending', kept', Macros(o.component, "attr"),
                    ParseDerive(o), FirstInner(o), o)
  <2>1. OfUnit(o, Macros(o.component, "attr"), ParseDerive(o), FirstInner(o))
    BY <1>3 DEF OfUnit
  <2>2. QED
    BY <1>2, <2>1
<1>4. QED
  BY <1>1, <1>3, UnitSame DEF TracesKept

LEMMA TracesInit ==
  ASSUME HostInit PROVE TracesKept
<1>1. /\ unit \in Units /\ pending = unit.items /\ kept = {} /\ macroCalls = <<>>
  BY DEF HostInit
<1>2. HostType /\ <<>> \in Seq(MacroCall)
  BY HostTypeInit
<1>3. ASSUME NEW o, NEW mac, NEW der, NEW first, OfUnit(o, mac, der, first)
      PROVE  Traces(<<>>, pending, {}, mac, der, first, o)
  <2>1. o \in Item /\ o.name \in Names
    BY <1>2, <1>3, OriginType
  <2>2. \A at : Traced(<<>>, o.name, at) = <<>>
    <3>1. PICK none \in Seq(MacroCall) : none = <<>>
      BY <1>2
    <3>2. \A i \in 1 .. Len(none) : FALSE
      BY <3>1
    <3>3. ASSUME NEW at PROVE Traced(none, o.name, at) = <<>>
      BY <3>2, TracedNone
    <3>4. QED
      BY <3>1, <3>3
  <2>3. Chosen(o.attrs, mac) \in Seq(STRING)
    BY <2>1, Fields, ChosenType
  <2>4. \A s \in Seq(STRING) : <<>> \o s = s /\ IsPrefix(<<>>, s)
    BY DEF IsPrefix
  <2>5. CalledInOrder(<<>>, mac, der, o)
    BY <2>2, <2>3, <2>4 DEF CalledInOrder, Ordered
  <2>6. ASSUME NEW i \in DOMAIN pending, pending[i].name = o.name
        PROVE  Underway(<<>>, mac, first, o, pending[i])
    <3>1. pending[i] = o
      <4>1. PICK k \in DOMAIN unit.items : o = unit.items[k]
        BY <1>3 DEF OfUnit
      <4>2. i = k
        BY <1>1, <2>6, <4>1, HostAssumption
      <4>3. QED
        BY <1>1, <4>1, <4>2
    <3>2. Chosen(o.attrs, mac) = Traced(<<>>, o.name, "item") \o Chosen(o.attrs, mac)
      BY <2>2, <2>3, <2>4
    <3>3. FuncsLeft(<<>>, mac, first, o, o.funcs)
      <4>1. Len(o.funcs) \in Nat
        BY <2>1, FuncType
      <4>2. ASSUME NEW k \in 1 .. Len(o.funcs)
            PROVE  Chosen(o.funcs[k].attrs, mac) =
                      Traced(<<>>, o.name, o.funcs[k].name) \o Chosen(o.funcs[k].attrs, mac)
        <5>1. Chosen(o.funcs[k].attrs, mac) \in Seq(STRING)
          BY <2>1, FuncType, ChosenType
        <5>2. QED
          BY <2>2, <2>4, <5>1
      <4>3. QED
        BY <4>1, <4>2 DEF FuncsLeft
    <3>4. QED
      BY <3>1, <3>2, <3>3 DEF Underway
  <2>7. QED
    BY <2>5, <2>6 DEF Traces
<1>4. ASSUME NEW k \in DOMAIN unit.items, NEW o, o = unit.items[k]
      PROVE  Traces(macroCalls, pending, kept, Macros(o.component, "attr"),
                    ParseDerive(o), FirstInner(o), o)
  <2>1. OfUnit(o, Macros(o.component, "attr"), ParseDerive(o), FirstInner(o))
    BY <1>4 DEF OfUnit
  <2>2. QED
    BY <1>1, <1>3, <2>1
<1>5. QED
  BY <1>4 DEF TracesKept

LEMMA LastIs ==
  ASSUME NEW T, T \subseteq Nat, NEW x \in T, \A y \in T : y <= x
  PROVE  Max(T) = x
<1>1. Max(T) \in T /\ \A y \in T : y <= Max(T)
  <2>1. \E z \in T : \A y \in T : z >= y
    OBVIOUS
  <2>2. QED
    BY <2>1 DEF Max
<1>2. x <= Max(T) /\ Max(T) <= x /\ Max(T) \in Nat /\ x \in Nat
  BY <1>1
<1> DEFINE m == Max(T)
<1> HIDE DEF m
<1>3. m = x
  BY <1>2 DEF m
<1>4. QED
  BY <1>3 DEF m

(* What stays as it was after its last attribute was left alone.           *)
LEMMA LeftIsLeft ==
  ASSUME HostType, NEW n, LeftAsIs(macroCalls, n) PROVE LeftAlone(n)
<1>1. PICK i \in DOMAIN macroCalls :
        /\ macroCalls[i].item = n /\ \A j \in DOMAIN macroCalls : macroCalls[j].item = n => j <= i
        /\ macroCalls[i].at = "item"
        /\ macroCalls[i].result.stream = "same" /\ ~macroCalls[i].result.data
  BY DEF LeftAsIs
<1> DEFINE T == {j \in 1 .. Len(macroCalls) : macroCalls[j].item = n}
<1>2. DOMAIN macroCalls = 1 .. Len(macroCalls) /\ Len(macroCalls) \in Nat
  BY DEF HostType
<1>3. T \subseteq Nat /\ i \in T /\ (\A y \in T : y <= i) /\ i # 0
  BY <1>1, <1>2
<1>4. LastOf(n) = IF T # {} THEN Max(T) ELSE 0
  BY DEF LastOf, SelectLastInSeq
<1> HIDE DEF T
<1>5. LastOf(n) = i
  BY <1>3, <1>4, LastIs
<1>6. QED
  BY <1>1, <1>3, <1>5 DEF LeftAlone

(* What the traces of an item say of it when it stays in the program.      *)
LEMMA FinishedIs ==
  ASSUME HostType, NEW o, NEW mac, NEW der, NEW first, OfUnit(o, mac, der, first),
         NEW now \in Item, Finished(macroCalls, mac, der, first, o, now)
  PROVE  /\ CallsAt(o.name, "item") = Chosen(o.attrs, mac)
         /\ CallsAt(o.name, "derive") = der \/ LeftAlone(o.name)
         /\ \A k \in DOMAIN o.funcs :
               LET func == o.funcs[k]
               IN  IF \E f \in ToSet(now.funcs) : f.name = func.name
                   THEN CallsAt(o.name, func.name) = Chosen(func.attrs, mac)
                   ELSE LostFunc(o, k)
<1>1. CallsAt(o.name, "item") = Chosen(o.attrs, mac)
  BY CallsTraced DEF Finished
<1>2. CallsAt(o.name, "derive") = der \/ LeftAlone(o.name)
  BY CallsTraced, LeftIsLeft DEF Finished
<1>3. FuncsLeft(macroCalls, mac, first, o, now.funcs) /\ NoneInside(mac, now.funcs)
  BY DEF Finished
<1>4. /\ o \in Item /\ first = FirstInner(o)
      /\ \A k, l \in DOMAIN o.funcs : o.funcs[k].name = o.funcs[l].name => k = l
  BY OriginType DEF OfUnit
<1>5. /\ Len(o.funcs) \in Nat /\ Len(now.funcs) \in Nat
      /\ DOMAIN o.funcs = 1 .. Len(o.funcs) /\ DOMAIN now.funcs = 1 .. Len(now.funcs)
  <2>1. o.funcs \in Seq(Func) /\ now.funcs \in Seq(Func)
    BY <1>4, Fields
  <2>2. QED
    BY <2>1
<1>6. ASSUME NEW k \in 1 .. Len(o.funcs), k <= Len(now.funcs)
      PROVE  CallsAt(o.name, o.funcs[k].name) = Chosen(o.funcs[k].attrs, mac)
  <2>1. k \in 1 .. Len(now.funcs)
    BY <1>5, <1>6
  <2>2. Chosen(o.funcs[k].attrs, mac) = CallsAt(o.name, o.funcs[k].name) \o <<>>
    BY <1>3, <2>1, CallsTraced DEF FuncsLeft, NoneInside
  <2>3. CallsAt(o.name, o.funcs[k].name) \in Seq(STRING)
    BY CallsTraced, TracedType DEF HostType
  <2>4. QED
    BY <2>2, <2>3
<1>7. ASSUME NEW k \in 1 .. Len(o.funcs), k > Len(now.funcs)
      PROVE  /\ LostFunc(o, k)
             /\ ~\E f \in ToSet(now.funcs) : f.name = o.funcs[k].name
  <2>1. k \in Len(now.funcs) + 1 .. Len(o.funcs)
    BY <1>5, <1>7
  <2>2. LostIn(macroCalls, first, o, k)
    BY <1>3, <2>1 DEF FuncsLeft
  <2>3. LostFunc(o, k)
    BY <1>4, <2>2 DEF LostIn, LostFunc
  <2>4. ASSUME NEW j \in 1 .. Len(now.funcs)
        PROVE  now.funcs[j].name # o.funcs[k].name
    <3>1. j \in 1 .. Len(o.funcs) /\ j # k
      BY <1>3, <1>5, <1>7 DEF FuncsLeft
    <3>2. now.funcs[j].name = o.funcs[j].name
      BY <1>3 DEF FuncsLeft
    <3>3. QED
      BY <1>4, <1>5, <3>1, <3>2
  <2>5. QED
    BY <1>5, <2>3, <2>4 DEF ToSet
<1>8. ASSUME NEW k \in 1 .. Len(o.funcs), k <= Len(now.funcs)
      PROVE  \E f \in ToSet(now.funcs) : f.name = o.funcs[k].name
  <2>1. k \in 1 .. Len(now.funcs) /\ now.funcs[k].name = o.funcs[k].name
    BY <1>3, <1>5, <1>8 DEF FuncsLeft
  <2>2. QED
    BY <1>5, <2>1 DEF ToSet
<1>9. ASSUME NEW k \in DOMAIN o.funcs
      PROVE  IF \E f \in ToSet(now.funcs) : f.name = o.funcs[k].name
             THEN CallsAt(o.name, o.funcs[k].name) = Chosen(o.funcs[k].attrs, mac)
             ELSE LostFunc(o, k)
  <2>1. k \in 1 .. Len(o.funcs) /\ (k <= Len(now.funcs) \/ k > Len(now.funcs))
    BY <1>5
  <2>2. QED
    BY <1>6, <1>7, <1>8, <2>1
<1>10. QED
  BY <1>1, <1>2, <1>9

LEMMA TracesShow ==
  ASSUME HostType, TracesKept PROVE MacrosExpanded
<1>1. ASSUME NEW o, NEW mac, NEW der, NEW first, OfUnit(o, mac, der, first)
      PROVE  /\ IsPrefix(CallsAt(o.name, "item"), Chosen(o.attrs, mac))
             /\ CallsAt(o.name, "derive") \in {<<>>, der}
             /\ \A i, j \in DOMAIN macroCalls :
                   /\ i < j /\ macroCalls[i].item = o.name
                   /\ macroCalls[j].item = o.name
                   => /\ macroCalls[i].at = "derive" => macroCalls[j].at = "derive"
                      /\ macroCalls[i].at = "item" =>
                             macroCalls[j].at \in {"item", "derive"}
             /\ \A now \in {k \in kept : k.name = o.name} :
                   /\ CallsAt(o.name, "item") = Chosen(o.attrs, mac)
                   /\ CallsAt(o.name, "derive") = der \/ LeftAlone(o.name)
                   /\ \A k \in DOMAIN o.funcs :
                         LET func == o.funcs[k]
                         IN  IF \E f \in ToSet(now.funcs) : f.name = func.name
                             THEN CallsAt(o.name, func.name) = Chosen(func.attrs, mac)
                             ELSE LostFunc(o, k)
  <2>1. Traces(macroCalls, pending, kept, mac, der, first, o)
    BY <1>1 DEF OfUnit, TracesKept
  <2>2. /\ IsPrefix(CallsAt(o.name, "item"), Chosen(o.attrs, mac))
        /\ CallsAt(o.name, "derive") \in {<<>>, der} /\ Ordered(macroCalls, o.name)
    BY <2>1, CallsTraced DEF Traces, CalledInOrder
  <2>3. \A now \in kept : now.name = o.name =>
            now \in Item /\ Finished(macroCalls, mac, der, first, o, now)
    BY <2>1 DEF Traces, HostType
  <2>4. QED
    BY <1>1, <2>2, <2>3, FinishedIs DEF Ordered
<1>2. ASSUME NEW o \in ToSet(unit.items)
      PROVE  OfUnit(o, Macros(o.component, "attr"), ParseDerive(o), FirstInner(o))
  BY DEF OfUnit, ToSet
<1>3. QED
  BY <1>1, <1>2 DEF MacrosExpanded

(* For every unit, set of macros and answers of theirs: the macros of an   *)
(* item are called in the order they are written, each once, and none is   *)
(* left out of an item that stays, but for derives after an attribute that *)
(* changed nothing (expand_inner_attr, expand_attribute, expand_derives).  *)
THEOREM MacrosActInOrder == HostSpec => []MacrosExpanded
<1>1. HostInit => HostType /\ Pieces /\ TracesKept
  BY HostTypeInit, TracesInit
<1>2. HostType /\ Pieces /\ TracesKept /\ [HostNext]_hostVars
         => (HostType /\ Pieces /\ TracesKept)'
  BY HostTypeStep, TracesStep
<1>3. HostType /\ TracesKept => MacrosExpanded
  BY TracesShow
<1>4. QED
  BY <1>1, <1>2, <1>3, PTL DEF HostSpec
==============================================================================
