----------------------- MODULE WorkspaceResolve_proofs -----------------------
(***************************************************************************)
(* Proofs about WorkspaceResolve and the ResolverProtocol it extends, for  *)
(* every workspace, dependency graph, lockfile, channel capacity and       *)
(* command line. The invariant ProtocolInv follows a request: whoever      *)
(* registered a key sends it, it is in the channel or in flight, and it is *)
(* in one of these places only; UnwrapInv, which keys are registered by    *)
(* the time the thread waits for one. The steps of the command are steps   *)
(* of the protocol, whose theorems so hold of it, and steps on the OnceMap *)
(* are those of OnceMapSpec; what unification enables, what becomes of the *)
(* lockfile and which macros are prebuilt each follow from an invariant of *)
(* their own. That a unit is closed follows from two facts about searches: *)
(* what a search finds is closed under the edges, and nothing else is      *)
(* found (ReachableIsClosed, ReachableIsLeast).                            *)
(***************************************************************************)
EXTENDS WorkspaceResolve, FiniteSetTheorems, WellFoundedInduction, TLAPS

(* The elements of a queue after a send and after a receive.               *)
LEMMA ElementsAppend ==
  ASSUME NEW s \in Seq(Key), NEW k \in Key
  PROVE  /\ Append(s, k) \in Seq(Key)
         /\ Elements(Append(s, k)) = Elements(s) \cup {k}
<1> DEFINE t == Append(s, k)
<1>1. /\ t \in Seq(Key) /\ DOMAIN s = 1..Len(s) /\ DOMAIN t = 1..(Len(s) + 1)
      /\ t[Len(s) + 1] = k /\ \A i \in 1..Len(s) : t[i] = s[i]
  OBVIOUS
<1>2. QED
  BY <1>1 DEF Elements

LEMMA ElementsTail ==
  ASSUME NEW s \in Seq(Key), s # <<>>,
         \A i, j \in DOMAIN s : s[i] = s[j] => i = j
  PROVE  /\ Head(s) \in Key /\ Tail(s) \in Seq(Key)
         /\ Len(Tail(s)) = Len(s) - 1
         /\ Elements(Tail(s)) = Elements(s) \ {Head(s)}
         /\ Head(s) \in Elements(s)
         /\ \A i, j \in DOMAIN Tail(s) : Tail(s)[i] = Tail(s)[j] => i = j
<1> DEFINE t == Tail(s)
<1>1. /\ Head(s) = s[1] /\ Head(s) \in Key /\ t \in Seq(Key)
      /\ Len(t) = Len(s) - 1 /\ \A i \in 1..Len(t) : t[i] = s[i + 1]
  OBVIOUS
<1>2. \A i, j \in DOMAIN t : t[i] = t[j] => i = j
  BY <1>1
<1>3. Elements(t) \subseteq Elements(s) \ {Head(s)}
  BY <1>1 DEF Elements
<1>4. ASSUME NEW e \in Elements(s) \ {Head(s)} PROVE e \in Elements(t)
  <2>1. PICK i \in 1..Len(s) : e = s[i]
    BY DEF Elements
  <2>2. i # 1
    BY <1>1, <2>1
  <2>3. i - 1 \in 1..Len(t) /\ t[i - 1] = s[(i - 1) + 1]
    BY <1>1, <2>1, <2>2
  <2>4. e = t[i - 1] /\ DOMAIN t = 1..Len(t)
    BY <1>1, <2>1, <2>3
  <2>5. QED
    BY <2>3, <2>4 DEF Elements
<1>5. QED
  BY <1>1, <1>2, <1>3, <1>4 DEF Elements

(* Which of the two sides is active, and what it may be sending.           *)
StageInv ==
    /\ main \in {"starting", "registering"} =>
           thread = "unborn" /\ fetch = "running"
    /\ main = "starting" => /\ chan = <<>> /\ inflight = {}
                             /\ \A k \in Key : items[k] = "absent"
    /\ main # "registering" => rootSend = NoKey /\ todo = {}
    /\ threadSend # NoKey => thread \in {"ranking", "requesting"}
    /\ rootSend # NoKey => items[rootSend] = "running"
    /\ threadSend # NoKey => items[threadSend] = "running"

(* Once fetch has ended without an error there is nothing left to answer.  *)
FetchInv ==
    /\ fetch = "done" /\ main = "joining" =>
           SinkDropped /\ chan = <<>> /\ inflight = {}
    /\ solution # "none" => thread \in {"finished", "panicked"}
    /\ main = "ok" => thread \in {"finished", "panicked"}

(* What PubGrub works on.                                                  *)
CurrentInv ==
    thread \in {"ranking", "requesting", "waiting"} =>
        current \in Package /\ range \in Key

ProtocolInv == /\ TypeOK /\ StageInv /\ FetchInv /\ CurrentInv
               /\ RequestsOnTheWay /\ RequestedOnce /\ OkMeansAnswered

LEMMA ProtocolInit == Init => ProtocolInv
  BY ConstantsAssumption
     DEF Init, ProtocolInv, TypeOK, StageInv, FetchInv, CurrentInv,
         RequestsOnTheWay, RequestedOnce, OkMeansAnswered, Elements,
         Unlocked, SinkDropped

LEMMA RequestedKeysType ==
  ASSUME TypeOK, NEW p \in Package
  PROVE  RequestedKeys(p) \subseteq Key /\ WaitedDependencies(p) \subseteq Waited
  BY ConstantsAssumption DEF RequestedKeys, WaitedDependencies,
                             FullDependencies, Waited, TypeOK

LEMMA RootKeysType ==
  ASSUME NEW lock \in {Locked, Unlocked}
  PROVE  lock \in [Key -> Key] /\ RootKeys(lock) \subseteq Key
BY ConstantsAssumption DEF RootKeys, FullDependencies, Unlocked

LEMMA ReturnKeeps ==
  ASSUME ProtocolInv, NEW r \in {"ok", "err"}, Return(r), main = "joining",
         r = "ok" => solution = "ok" /\ fetch = "done"
  PROVE  ProtocolInv'
<1> USE ConstantsAssumption
        DEF ProtocolInv, TypeOK, StageInv, FetchInv, CurrentInv,
            RequestsOnTheWay, RequestedOnce, OkMeansAnswered, Return,
            solverVars, Elements, SinkDropped
<1>1. r = "ok" => \A k \in Key : items[k] # "running"
  OBVIOUS
<1>2. QED
  BY <1>1

LEMMA MainKeeps ==
  ASSUME ProtocolInv, ReadStep \/ MainStep \/ \E k \in Key : QueryStep(k)
  PROVE  ProtocolInv'
<1> USE ConstantsAssumption
        DEF ProtocolInv, TypeOK, StageInv, FetchInv, CurrentInv,
            RequestsOnTheWay, RequestedOnce, OkMeansAnswered, solverVars,
            SinkDropped
<1>1. ASSUME NEW k \in Key, RegisterRoot(k) PROVE ProtocolInv'
  <2>1. k \notin Elements(chan) \cup inflight \/ items[k] # "absent"
    OBVIOUS
  <2>2. QED
    BY <1>1, <2>1 DEF RegisterRoot, Elements
<1>2. CASE SendRoot
  <2>1. rootSend \in Key /\ rootSend # threadSend /\ rootSend \notin Elements(chan)
    BY <1>2 DEF SendRoot
  <2>2. chan' \in Seq(Key) /\ Elements(chan') = Elements(chan) \cup {rootSend}
    BY <1>2, <2>1, ElementsAppend DEF SendRoot
  <2>3. Len(chan') <= Capacity
    BY <1>2 DEF SendRoot
  <2>4. \A i, j \in DOMAIN chan' : chan'[i] = chan'[j] => i = j
    BY <1>2, <2>1 DEF SendRoot, Elements
  <2>5. /\ main = "registering" /\ rootSend' = NoKey
        /\ UNCHANGED <<items, inflight, main, locked, todo, fetch, thread,
                       solverVars, solution>>
    BY <1>2 DEF SendRoot
  <2>6. RequestsOnTheWay' /\ RequestedOnce'
    BY <2>1, <2>2, <2>4, <2>5
  <2>7. TypeOK' /\ StageInv' /\ FetchInv' /\ CurrentInv' /\ OkMeansAnswered'
    BY <2>1, <2>2, <2>3, <2>5
  <2>8. QED
    BY <2>6, <2>7
<1>3. CASE SpawnThread
  BY <1>3 DEF SpawnThread, Elements
<1>4. CASE Receive
  <2>1. /\ Head(chan) \in Key /\ Head(chan) \in Elements(chan)
        /\ chan' \in Seq(Key) /\ Len(chan') <= Capacity
        /\ Elements(chan') = Elements(chan) \ {Head(chan)}
        /\ \A i, j \in DOMAIN chan' : chan'[i] = chan'[j] => i = j
    BY <1>4, ElementsTail DEF Receive
  <2>2. /\ inflight' = inflight \cup {Head(chan)} /\ main = "joining" /\ chan # <<>>
        /\ UNCHANGED <<items, main, locked, todo, rootSend, fetch, thread,
                       solverVars, solution>>
    BY <1>4 DEF Receive
  <2>3. RequestsOnTheWay' /\ RequestedOnce'
    BY <2>1, <2>2
  <2>4. TypeOK' /\ StageInv' /\ FetchInv' /\ CurrentInv' /\ OkMeansAnswered'
    BY <2>1, <2>2
  <2>5. QED
    BY <2>3, <2>4
<1>5. ASSUME NEW k \in Key, QuerySucceeds(k) PROVE ProtocolInv'
  <2>1. PICK answer \in {"filled", "empty"} :
            items' = [items EXCEPT ![k] = answer]
    BY <1>5 DEF QuerySucceeds
  <2>2. TypeOK' /\ StageInv' /\ FetchInv' /\ CurrentInv'
    BY <1>5, <2>1 DEF QuerySucceeds, Elements
  <2>3. RequestsOnTheWay' /\ RequestedOnce' /\ OkMeansAnswered'
    BY <1>5, <2>1 DEF QuerySucceeds, Elements
  <2>4. QED
    BY <2>2, <2>3
<1>6. ASSUME NEW k \in Key, QueryFails(k) PROVE ProtocolInv'
  BY <1>6, ReturnKeeps DEF QueryFails
<1>7. CASE FetchEnds
  BY <1>7 DEF FetchEnds, Elements
<1>8. CASE JoinSolution
  BY <1>8, ReturnKeeps DEF JoinSolution
<1>9. ASSUME NEW lock \in {Locked, Unlocked}, ReadLockfile(lock)
      PROVE  ProtocolInv'
  <2>1. lock \in [Key -> Key] /\ RootKeys(lock) \subseteq Key
    BY RootKeysType
  <2>2. QED
    BY <1>9, <2>1 DEF ReadLockfile, Elements
<1>10. CASE ReadLockfileFails
  BY <1>10 DEF ReadLockfileFails, Elements
<1>11. QED
  BY <1>1, <1>2, <1>3, <1>4, <1>5, <1>6, <1>7, <1>8, <1>9, <1>10
     DEF ReadStep, MainStep, QueryStep

LEMMA ThreadKeeps == ASSUME ProtocolInv, ThreadStep PROVE ProtocolInv'
<1> USE ConstantsAssumption
        DEF ProtocolInv, TypeOK, StageInv, FetchInv, CurrentInv,
            RequestsOnTheWay, RequestedOnce, OkMeansAnswered, mainVars,
            solverVars, SinkDropped
<1>1. CASE Start
  BY <1>1 DEF Start, Elements
<1>2. ASSUME NEW p \in Package, NEW k \in Key, Prioritize(p, k)
      PROVE  ProtocolInv'
  BY <1>2 DEF Prioritize, Elements
<1>3. ASSUME NEW k \in Key, Register(k) PROVE ProtocolInv'
  BY <1>3 DEF Register, Elements
<1>4. CASE Send
  <2>1. threadSend \in Key /\ rootSend = NoKey /\ threadSend \notin Elements(chan)
    BY <1>4 DEF Send
  <2>2. chan' \in Seq(Key) /\ Elements(chan') = Elements(chan) \cup {threadSend}
    BY <1>4, <2>1, ElementsAppend DEF Send
  <2>3. Len(chan') <= Capacity
    BY <1>4 DEF Send
  <2>4. \A i, j \in DOMAIN chan' : chan'[i] = chan'[j] => i = j
    BY <1>4, <2>1 DEF Send, Elements
  <2>5. QED
    BY <1>4, <2>1, <2>2, <2>3, <2>4 DEF Send, Elements
<1>5. CASE SendPanics \/ SolutionPanics
  <2>1. main \in {"ok", "err"} /\ Panic
    BY <1>5 DEF SendPanics, SolutionPanics
  <2>2. TypeOK' /\ StageInv' /\ FetchInv' /\ CurrentInv'
    BY <2>1 DEF Panic, Elements
  <2>3. RequestsOnTheWay' /\ RequestedOnce' /\ OkMeansAnswered'
    BY <2>1 DEF Panic, Elements
  <2>4. QED
    BY <2>2, <2>3
<1>6. CASE ChooseVersion
  <2>1. RequestedKeys(current) \subseteq Key
    BY <1>6, RequestedKeysType DEF ChooseVersion
  <2>2. QED
    BY <1>6, <2>1 DEF ChooseVersion, Idle, Elements
<1>7. CASE StartWaiting
  <2>1. WaitedDependencies(current) \subseteq Waited
    BY <1>7, RequestedKeysType DEF StartWaiting
  <2>2. QED
    BY <1>7, <2>1 DEF StartWaiting, Idle, Elements
<1>8. ASSUME NEW dep \in Waited, FindDependency(dep) PROVE ProtocolInv'
  <2>1. UsedKey(dep) \in Key
    BY DEF UsedKey, Waited
  <2>2. Found(UsedKey(dep)) \in Package \cup {NoPackage}
    BY <2>1 DEF Found
  <2>3. QED
    BY <1>8, <2>1, <2>2 DEF FindDependency, Elements
<1>9. ASSUME NEW dep \in Waited, WaitPanics(dep) PROVE ProtocolInv'
  BY <1>9 DEF WaitPanics, Panic, Elements
<1>10. CASE HaveDependencies \/ Finish
  BY <1>10 DEF HaveDependencies, Finish, Elements
<1>11. CASE SendSolution
  BY <1>11 DEF SendSolution, Elements
<1>12. QED
  BY <1>1, <1>2, <1>3, <1>4, <1>5, <1>6, <1>7, <1>8, <1>9, <1>10, <1>11
     DEF ThreadStep

LEMMA ProtocolNext == ProtocolInv /\ [Next]_vars => ProtocolInv'
<1> SUFFICES ASSUME ProtocolInv, [Next]_vars PROVE ProtocolInv'
  OBVIOUS
<1>1. CASE Over \/ UNCHANGED vars
  BY <1>1 DEF Over, vars, ProtocolInv, TypeOK, StageInv, FetchInv,
              CurrentInv, RequestsOnTheWay, RequestedOnce, OkMeansAnswered,
              SinkDropped, Elements
<1>2. QED
  BY <1>1, MainKeeps, ThreadKeeps DEF Next

LEMMA ProtocolAlways == Spec => []ProtocolInv
  BY ProtocolInit, ProtocolNext, PTL DEF Spec

(* The variables of the protocol keep their types; in particular the       *)
(* channel never holds more than its capacity.                             *)
THEOREM TypeCorrect == Spec => []TypeOK
<1>1. ProtocolInv => TypeOK
  BY DEF ProtocolInv
<1>2. QED
  BY <1>1, ProtocolAlways, PTL

(* A registered key without an answer is being sent, queued or queried, as *)
(* long as `resolve` runs.                                                 *)
THEOREM NoRequestLost == Spec => []RequestsOnTheWay
<1>1. ProtocolInv => RequestsOnTheWay
  BY DEF ProtocolInv
<1>2. QED
  BY <1>1, ProtocolAlways, PTL

(* No key is queried twice in one resolution.                              *)
THEOREM QueriedOnce == Spec => []RequestedOnce
<1>1. ProtocolInv => RequestedOnce
  BY DEF ProtocolInv
<1>2. QED
  BY <1>1, ProtocolAlways, PTL

(* A solution is returned only after every request was answered.           *)
THEOREM SuccessIsComplete == Spec => []OkMeansAnswered
<1>1. ProtocolInv => OkMeansAnswered
  BY DEF ProtocolInv
<1>2. QED
  BY <1>1, ProtocolAlways, PTL

-----------------------------------------------------------------------------
(* The map of answers, as far as its jobs go; whether a waiter gets what   *)
(* is stored is a matter of the guards of the thread's steps.              *)
Map == INSTANCE OnceMapSpec
           WITH job <- items, answer <- <<>>, Caller <- {},
                Value <- {"filled", "empty"}, Absent <- "absent",
                Running <- "running", NoAnswer <- "none", Missing <- "missing"

(* `resolve` and its thread use the OnceMap as it promises to work: a key  *)
(* is registered once, by one of the two, its query stores an answer only  *)
(* while one is awaited, and no answer is ever replaced, although nobody   *)
(* looks at the map before storing (OnceMap::done).                        *)
THEOREM UsesOnceMap == Spec => Map!Spec
<1>1. Init => Map!Init
  BY DEF Init, Map!Init
<1>2. ProtocolInv /\ [Next]_vars => [Map!Next]_<<items, <<>>>>
  <2> SUFFICES ASSUME ProtocolInv, [Next]_vars PROVE Map!Next \/ UNCHANGED items
    OBVIOUS
  <2>1. ASSUME NEW k \in Key, RegisterRoot(k) \/ Register(k)
        PROVE  Map!Next \/ UNCHANGED items
    <3>1. UNCHANGED items \/ Map!Register(k)
      BY <2>1 DEF RegisterRoot, Register, Map!Register
    <3>2. QED
      BY <3>1 DEF Map!Next
  <2>2. ASSUME NEW k \in Key, QuerySucceeds(k)
        PROVE  Map!Next \/ UNCHANGED items
    <3>1. items[k] = "running"
      BY <2>2 DEF QuerySucceeds, ProtocolInv, RequestedOnce
    <3>2. \E v \in {"filled", "empty"} : Map!Finish(k, v)
      BY <2>2, <3>1 DEF QuerySucceeds, Map!Finish
    <3>3. QED
      BY <3>2 DEF Map!Next
  <2>3. CASE ReadStep \/ SendRoot \/ SpawnThread \/ Receive \/ FetchEnds
             \/ JoinSolution \/ (\E k \in Key : QueryFails(k))
    BY <2>3 DEF ReadStep, ReadLockfile, ReadLockfileFails, SendRoot, SpawnThread,
                Receive, FetchEnds, JoinSolution, QueryFails, Return
  <2>4. CASE \/ Start \/ Send \/ SendPanics \/ ChooseVersion \/ StartWaiting
             \/ HaveDependencies \/ Finish \/ SendSolution \/ SolutionPanics
    BY <2>4 DEF Start, Send, SendPanics, ChooseVersion, StartWaiting,
                HaveDependencies, Finish, SendSolution, SolutionPanics, Panic
  <2>5. ASSUME NEW p \in Package, NEW k \in Key, Prioritize(p, k)
        PROVE  UNCHANGED items
    BY <2>5 DEF Prioritize
  <2>6. ASSUME NEW dep \in Waited, FindDependency(dep) \/ WaitPanics(dep)
        PROVE  UNCHANGED items
    BY <2>6 DEF FindDependency, WaitPanics, Panic
  <2>7. CASE Over \/ UNCHANGED vars
    BY <2>7 DEF Over, vars
  <2>8. QED
    BY <2>1, <2>2, <2>3, <2>4, <2>5, <2>6, <2>7
       DEF Next, MainStep, QueryStep, ThreadStep
<1>3. QED
  BY <1>1, <1>2, ProtocolAlways, PTL DEF Spec, Map!Spec

-----------------------------------------------------------------------------
(* The unwraps of the resolver thread                                      *)

(* A query that finds summaries finds those of a package, `core` is no path*)
(* dependency, and a package of the workspace asks for it unless nobody    *)
(* does.  The last is what the code does not see to.                       *)
AskedIsThere ==
    /\ \A k \in Key : Answer[k] # NoPackage
    /\ \A p \in Package : Rewritten[p][CoreKey] = CoreKey
    /\ Package \subseteq NoCore \/ \E p \in Root : p \notin NoCore

IsAsked(k) == items[k] # "absent"

(* Which keys are registered by the time the thread waits for one, and that*)
(* a solution is sent, and the thread so over, before `resolve` is.        *)
UnwrapInv ==
    /\ thread # "unborn" => \A k \in RootKeys(locked) : IsAsked(k)
    /\ main = "registering" => \A k \in RootKeys(locked) \ todo : IsAsked(k)
    /\ thread = "requesting" =>
           \A k \in RequestedKeys(current) \ sends : IsAsked(k)
    /\ thread = "waiting" =>
           /\ \A k \in RequestedKeys(current) : IsAsked(k)
           /\ waits \subseteq WaitedDependencies(current)
    /\ solution = "ok" => thread = "finished"
    /\ main = "ok" => solution = "ok"
    /\ ThreadNeverPanics

(* No answer is taken back, and an empty one is final.                     *)
LEMMA AnswersStay ==
  ASSUME ProtocolInv, [Next]_vars, NEW k \in Key
  PROVE  /\ IsAsked(k) => IsAsked(k)'
         /\ items[k] = "empty" => items'[k] = "empty"
<1> USE DEF IsAsked, ProtocolInv, TypeOK, mainVars, solverVars
<1>1. ASSUME NEW l \in Key, RegisterRoot(l) \/ Register(l)
      PROVE  /\ IsAsked(k) => IsAsked(k)'
             /\ items[k] = "empty" => items'[k] = "empty"
  BY <1>1 DEF RegisterRoot, Register
<1>2. ASSUME NEW l \in Key, QueryStep(l)
      PROVE  /\ IsAsked(k) => IsAsked(k)'
             /\ items[k] = "empty" => items'[k] = "empty"
  BY <1>2 DEF QueryStep, QuerySucceeds, QueryFails, Return, RequestedOnce
<1>3. ASSUME ReadStep \/ SendRoot \/ SpawnThread \/ Receive \/ FetchEnds \/ JoinSolution
      PROVE  UNCHANGED items
  BY <1>3 DEF ReadStep, ReadLockfile, ReadLockfileFails, SendRoot, SpawnThread,
              Receive, FetchEnds, JoinSolution, Return
<1>4. ASSUME ThreadStep, \A l \in Key : ~Register(l) PROVE UNCHANGED items
  BY <1>4 DEF ThreadStep, Start, Prioritize, Send, SendPanics, Panic, ChooseVersion,
              StartWaiting, FindDependency, WaitPanics, HaveDependencies, Finish,
              SendSolution, SolutionPanics
<1>5. QED
  BY <1>1, <1>2, <1>3, <1>4 DEF Next, MainStep, Over, vars

(* What the thread waits for has been registered.                          *)
LEMMA WaitedIsAsked ==
  ASSUME AskedIsThere, ProtocolInv, UnwrapInv, thread = "waiting",
         NEW dep \in waits, items[UsedKey(dep)] = "absent"
  PROVE  \E k \in Key : items[k] = "empty"
<1>1. current \in Package /\ locked \in [Key -> Key]
  BY DEF ProtocolInv, TypeOK, CurrentInv
<1>2. PICK d \in FullDependencies(current) :
          dep = [key |-> locked[Rewritten[current][d]], original |-> d]
  BY DEF UnwrapInv, WaitedDependencies
<1>3. d \in Key /\ Rewritten[current][d] \in Key /\ dep.key \in Key
      /\ dep.key = locked[Rewritten[current][d]]
  BY <1>1, <1>2, ConstantsAssumption DEF FullDependencies
<1>4. IsAsked(dep.key)
  <2>1. CASE d \in Dependencies[current]
    BY <1>3, <2>1 DEF UnwrapInv, RequestedKeys
  <2>2. CASE d = CoreKey /\ current \notin NoCore
    <3>1. dep.key = locked[CoreKey]
      BY <1>1, <1>3, <2>2 DEF AskedIsThere
    <3>2. PICK p \in Root : p \notin NoCore
      BY <1>1, <2>2 DEF AskedIsThere
    <3>3. locked[CoreKey] \in RootKeys(locked)
      BY <3>2 DEF RootKeys, FullDependencies
    <3>4. QED
      BY <3>1, <3>3 DEF UnwrapInv
  <2>3. QED
    BY <1>2, <2>1, <2>2 DEF FullDependencies
<1>5. UsedKey(dep) # dep.key
  BY <1>4 DEF IsAsked
<1>6. Answered(dep.key) /\ Found(dep.key) = NoPackage
  BY <1>5 DEF UsedKey
<1>7. items[dep.key] = "empty"
  BY <1>3, <1>6 DEF Answered, Found, AskedIsThere
<1>8. QED
  BY <1>3, <1>7

LEMMA UnwrapNext ==
  ASSUME AskedIsThere, ProtocolInv, UnwrapInv, [Next]_vars
  PROVE  UnwrapInv'
<1> DEFINE Empty == \E k \in Key : items[k] = "empty"
<1>1. /\ \A k \in Key : IsAsked(k) => IsAsked(k)'
      /\ Empty => Empty'
      /\ RootKeys(locked) \subseteq Key
      /\ current \in Package => RequestedKeys(current) \subseteq Key
      /\ locked \in [Key -> Key] /\ items \in [Key -> {"absent", "running", "filled", "empty"}]
  BY AnswersStay, RequestedKeysType, ConstantsAssumption
     DEF ProtocolInv, TypeOK, RootKeys, FullDependencies
<1>2. StageInv /\ CurrentInv
  BY DEF ProtocolInv
<1> DEFINE RootsAsked == thread # "unborn" => \A k \in RootKeys(locked) : IsAsked(k)
           RootsSent == main = "registering" =>
                            \A k \in RootKeys(locked) \ todo : IsAsked(k)
           Sent == thread = "requesting" =>
                       \A k \in RequestedKeys(current) \ sends : IsAsked(k)
           Waiting == thread = "waiting" =>
                          /\ \A k \in RequestedKeys(current) : IsAsked(k)
                          /\ waits \subseteq WaitedDependencies(current)
           Ends == /\ solution = "ok" => thread = "finished"
                   /\ main = "ok" => solution = "ok"
                   /\ thread = "panicked" => main = "err" \/ Empty
<1>3. UnwrapInv <=> RootsAsked /\ RootsSent /\ Sent /\ Waiting /\ Ends
  BY DEF UnwrapInv, ThreadNeverPanics
<1>4. (UnwrapInv <=> RootsAsked /\ RootsSent /\ Sent /\ Waiting /\ Ends)'
  BY DEF UnwrapInv, ThreadNeverPanics
(* The task, beside a thread that is where it was.                         *)
<1>5. ASSUME UNCHANGED <<locked, thread, sends, waits, current>>,
             thread = "unborn" \/ main' # "registering"
      PROVE  RootsAsked' /\ Sent' /\ Waiting'
  <2>1. RootsAsked'
    BY <1>1, <1>3, <1>5
  <2>2. thread = "requesting" =>
            (\A k \in RequestedKeys(current) \ sends : IsAsked(k))'
    BY <1>1, <1>2, <1>3, <1>5 DEF CurrentInv, RequestedKeys
  <2>3. thread = "waiting" =>
            (/\ \A k \in RequestedKeys(current) : IsAsked(k)
             /\ waits \subseteq WaitedDependencies(current))'
    BY <1>1, <1>2, <1>3, <1>5 DEF CurrentInv, RequestedKeys, WaitedDependencies
  <2>4. QED
    BY <1>5, <2>1, <2>2, <2>3
<1>6. CASE ReadStep
  <2>1. /\ main = "starting" /\ thread = "unborn"
        /\ UNCHANGED <<thread, sends, waits, current, solution>>
        /\ \/ main' = "registering" /\ todo' = RootKeys(locked')
           \/ main' = "err"
    BY <1>2, <1>6 DEF ReadStep, ReadLockfile, ReadLockfileFails, StageInv, solverVars
  <2>2. RootsAsked' /\ RootsSent' /\ Sent' /\ Waiting' /\ Ends'
    BY <1>3, <2>1
  <2>3. QED
    BY <1>4, <2>2
<1>7. ASSUME NEW k \in Key, RegisterRoot(k) PROVE UnwrapInv'
  <2>1. /\ main = "registering" /\ thread = "unborn" /\ todo' = todo \ {k}
        /\ UNCHANGED <<main, locked, thread, sends, waits, current, solution>>
        /\ IsAsked(k)'
    BY <1>1, <1>2, <1>7 DEF RegisterRoot, StageInv, IsAsked, solverVars
  <2>2. RootsAsked' /\ Sent' /\ Waiting'
    BY <1>5, <2>1
  <2>3. RootsSent'
    BY <1>1, <1>3, <2>1
  <2>4. Ends'
    BY <1>1, <1>3, <2>1
  <2>5. QED
    BY <1>4, <2>2, <2>3, <2>4
<1>8. CASE SendRoot \/ Receive \/ FetchEnds \/ \E k \in Key : QuerySucceeds(k)
  <2>1. /\ main = "registering" => thread = "unborn"
        /\ UNCHANGED <<main, locked, thread, todo, sends, waits, current, solution>>
    BY <1>2, <1>8 DEF SendRoot, Receive, FetchEnds, QuerySucceeds, StageInv, solverVars
  <2>2. RootsAsked' /\ Sent' /\ Waiting'
    BY <1>5, <2>1
  <2>3. RootsSent'
    BY <1>1, <1>3, <2>1
  <2>4. Ends'
    BY <1>1, <1>3, <2>1
  <2>5. QED
    BY <1>4, <2>2, <2>3, <2>4
<1>9. CASE SpawnThread
  <2>1. /\ main = "registering" /\ todo = {} /\ main' = "joining"
        /\ thread = "unborn" /\ thread' = "started" /\ UNCHANGED <<locked, solution>>
    BY <1>2, <1>9 DEF SpawnThread, StageInv
  <2>2. RootsAsked'
    BY <1>1, <1>3, <2>1
  <2>3. Sent' /\ Waiting' /\ RootsSent' /\ Ends'
    BY <1>3, <2>1
  <2>4. QED
    BY <1>4, <2>2, <2>3
<1>10. CASE JoinSolution \/ \E k \in Key : QueryFails(k)
  <2>1. /\ UNCHANGED <<locked, thread, sends, waits, current, solution>>
        /\ main = "joining" /\ main' \in {"ok", "err"}
        /\ main' = "ok" => solution = "ok"
    BY <1>10 DEF JoinSolution, QueryFails, Return, solverVars
  <2>2. RootsAsked' /\ Sent' /\ Waiting'
    BY <1>5, <2>1
  <2>3. RootsSent' /\ Ends'
    BY <1>1, <1>3, <2>1
  <2>4. QED
    BY <1>4, <2>2, <2>3
(* The thread, once it is born.                                            *)
<1>11. ASSUME thread # "unborn", UNCHANGED mainVars, Sent', Waiting', Ends'
       PROVE  UnwrapInv'
  <2>1. main # "registering" /\ main' = main /\ locked' = locked
    BY <1>2, <1>11 DEF StageInv, mainVars
  <2>2. RootsAsked' /\ RootsSent'
    BY <1>1, <1>3, <1>11, <2>1
  <2>3. QED
    BY <1>4, <1>11, <2>2
<1>12. ASSUME NEW k \in Key, Register(k) PROVE UnwrapInv'
  <2>1. /\ UNCHANGED <<thread, current, waits, solution, main, locked>>
        /\ UNCHANGED mainVars
        /\ sends' = sends \ {k} /\ thread \in {"ranking", "requesting"}
        /\ IsAsked(k)'
    BY <1>1, <1>12 DEF Register, mainVars, IsAsked
  <2>2. thread = "requesting" =>
            (\A l \in RequestedKeys(current) \ sends : IsAsked(l))'
    BY <1>1, <1>2, <1>3, <2>1 DEF CurrentInv, RequestedKeys
  <2>3. Sent' /\ Waiting'
    BY <2>1, <2>2
  <2>4. Ends'
    BY <1>1, <1>3, <2>1
  <2>5. QED
    BY <1>11, <2>1, <2>3, <2>4
<1>13. CASE Send
  <2>1. /\ UNCHANGED <<thread, current, waits, sends, solution, main, locked>>
        /\ UNCHANGED mainVars /\ thread \in {"ranking", "requesting"}
    BY <1>2, <1>13 DEF Send, mainVars, StageInv
  <2>2. thread = "requesting" =>
            (\A l \in RequestedKeys(current) \ sends : IsAsked(l))'
    BY <1>1, <1>2, <1>3, <2>1 DEF CurrentInv, RequestedKeys
  <2>3. Sent' /\ Waiting'
    BY <2>1, <2>2
  <2>4. Ends'
    BY <1>1, <1>3, <2>1
  <2>5. QED
    BY <1>11, <2>1, <2>3, <2>4
<1>14. CASE SendPanics \/ SolutionPanics \/ \E dep \in Waited : WaitPanics(dep)
  <2>1. /\ thread' = "panicked" /\ solution' = "closed"
        /\ UNCHANGED <<items, main>> /\ UNCHANGED mainVars
    BY <1>14 DEF SendPanics, SolutionPanics, WaitPanics, Panic, mainVars
  <2>2. /\ main = "err" \/ Empty
        /\ main # "ok" \/ thread = "waiting"
        /\ thread \notin {"unborn", "finished"}
    <3>1. CASE SendPanics \/ SolutionPanics
      BY <1>2, <1>3, <3>1 DEF SendPanics, SolutionPanics, StageInv
    <3>2. ASSUME NEW dep \in Waited, WaitPanics(dep)
          PROVE  thread = "waiting" /\ Empty
      <4>1. thread = "waiting" /\ dep \in waits /\ items[UsedKey(dep)] = "absent"
        BY <3>2 DEF WaitPanics
      <4>2. QED
        BY <4>1, WaitedIsAsked
    <3>3. QED
      BY <1>14, <3>1, <3>2
  <2>3. Sent' /\ Waiting'
    BY <2>1
  <2>4. Ends'
    BY <1>3, <2>1, <2>2
  <2>5. QED
    BY <1>11, <2>1, <2>2, <2>3, <2>4
<1>15. CASE ChooseVersion
  <2>1. /\ thread = "ranking" /\ thread' \in {"requesting", "solving", "failed"}
        /\ UNCHANGED <<current, locked, main, solution>> /\ UNCHANGED mainVars
        /\ thread' = "requesting" => sends' = RequestedKeys(current)
    BY <1>15 DEF ChooseVersion, mainVars
  <2>2. Sent' /\ Waiting'
    BY <2>1 DEF RequestedKeys
  <2>3. Ends'
    BY <1>3, <2>1
  <2>4. QED
    BY <1>11, <2>1, <2>2, <2>3
<1>16. CASE StartWaiting
  <2>1. /\ thread = "requesting" /\ thread' = "waiting" /\ sends = {}
        /\ waits' = WaitedDependencies(current)
        /\ UNCHANGED <<current, locked, main, solution, items>> /\ UNCHANGED mainVars
    BY <1>16 DEF StartWaiting, Idle, mainVars
  <2>2. /\ (\A l \in RequestedKeys(current) : IsAsked(l))'
        /\ (waits \subseteq WaitedDependencies(current))'
    BY <1>3, <2>1 DEF RequestedKeys, WaitedDependencies, IsAsked
  <2>3. Sent' /\ Waiting'
    BY <2>1, <2>2
  <2>4. Ends'
    BY <1>3, <2>1
  <2>5. QED
    BY <1>11, <2>1, <2>3, <2>4
<1>17. ASSUME NEW dep \in Waited, FindDependency(dep) PROVE UnwrapInv'
  <2>1. /\ thread = "waiting" /\ thread' \in {"waiting", "failed"}
        /\ waits' \subseteq waits
        /\ UNCHANGED <<current, locked, main, solution, items>> /\ UNCHANGED mainVars
    BY <1>17 DEF FindDependency, mainVars
  <2>2. /\ (\A l \in RequestedKeys(current) : IsAsked(l))'
        /\ (waits \subseteq WaitedDependencies(current))'
    BY <1>3, <2>1 DEF RequestedKeys, WaitedDependencies, IsAsked
  <2>3. Sent' /\ Waiting'
    BY <2>1, <2>2
  <2>4. Ends'
    BY <1>3, <2>1
  <2>5. QED
    BY <1>11, <2>1, <2>3, <2>4
<1>18. CASE \/ Start \/ HaveDependencies \/ Finish \/ SendSolution
            \/ \E p \in Package, k \in Key : Prioritize(p, k)
  <2>1. /\ thread \notin {"unborn", "finished", "panicked"}
        /\ thread' \notin {"requesting", "waiting", "panicked"}
        /\ UNCHANGED mainVars /\ UNCHANGED main
        /\ \/ UNCHANGED solution
           \/ thread' = "finished" /\ main = "joining"
    BY <1>18 DEF Start, HaveDependencies, Finish, SendSolution, Prioritize, mainVars
  <2>2. Sent' /\ Waiting'
    BY <2>1
  <2>3. Ends'
    BY <1>3, <2>1
  <2>4. QED
    BY <1>11, <2>1, <2>2, <2>3
<1>19. CASE Over \/ UNCHANGED vars
  <2>1. UNCHANGED vars
    BY <1>19 DEF Over
  <2>2. UNCHANGED <<items, main, locked, todo, thread, sends, waits, current, solution>>
    BY <2>1 DEF vars
  <2>3. RootsAsked' /\ RootsSent' /\ Sent' /\ Waiting' /\ Ends'
    BY <1>3, <2>2 DEF IsAsked, RequestedKeys, WaitedDependencies
  <2>4. QED
    BY <1>4, <2>3
<1>20. QED
  BY <1>6, <1>7, <1>8, <1>9, <1>10, <1>12, <1>13, <1>14, <1>15, <1>16, <1>17,
     <1>18, <1>19
     DEF Next, MainStep, QueryStep, ThreadStep

-----------------------------------------------------------------------------
(* The whole command                                                       *)

LEMMA StepsOfTheProtocol == [WorkspaceNext]_allVars => [Next]_vars
<1> SUFFICES ASSUME [WorkspaceNext]_allVars PROVE [Next]_vars
  OBVIOUS
<1>1. CASE Read
  <2>1. \E lock \in {Locked, Unlocked} : ReadLockfile(lock)
    BY <1>1 DEF Read
  <2>2. QED
    BY <2>1 DEF Next, ReadStep
<1>2. CASE ReadFails
  BY <1>2 DEF ReadFails, Next, ReadStep
<1>3. CASE OtherResolves
  BY <1>3 DEF OtherResolves
<1>4. ASSUME NEW c \in Command, WriteLockfile(c) \/ Cut(c) PROVE [Next]_vars
  BY <1>4 DEF WriteLockfile, Truncate, LockLockfile, Write, WriteFails, Cut
<1>5. CASE ResolveTask \/ ResolveThread \/ \E k \in Key : ResolveQuery(k)
  BY <1>5 DEF ResolveTask, ResolveThread, ResolveQuery, Next
<1>6. CASE BuildStep
  BY <1>6 DEF BuildStep, SpawnWriter, Collect, AwaitLockfile, Generate,
              StartJob, Unify, Pull, BuildUnit, FinishUnits, Fail
<1>7. CASE Rest \/ UNCHANGED allVars
  BY <1>7 DEF Rest, allVars
<1>8. QED
  BY <1>1, <1>2, <1>3, <1>4, <1>5, <1>6, <1>7 DEF WorkspaceNext

(* The resolution of a whole command is the one ResolverProtocol specifies,*)
(* whatever becomes of the lockfile and of the units.                      *)
THEOREM ImplementsProtocol == WorkspaceSpec => Spec
<1>1. WorkspaceInit => Init
  BY DEF WorkspaceInit
<1>2. QED
  BY <1>1, StepsOfTheProtocol, PTL DEF WorkspaceSpec, Spec

(* A registered key without an answer is being sent, queued or queried.    *)
THEOREM CommandLosesNoRequest == WorkspaceSpec => []RequestsOnTheWay
  BY ImplementsProtocol, NoRequestLost, PTL

(* The command goes on only when every request was answered.               *)
THEOREM CommandResolvesCompletely == WorkspaceSpec => []OkMeansAnswered
  BY ImplementsProtocol, SuccessIsComplete, PTL

(* The resolver thread never panics unless `resolve` has given up or some  *)
(* query found nothing, in whatever order requests, answers and decisions  *)
(* come.  The hypothesis is needed: without a package of the workspace that*)
(* depends on `core`, nobody asks for `core` on behalf of its dependencies.*)
THEOREM UnwrapsHold ==
  ASSUME AskedIsThere
  PROVE  WorkspaceSpec => []ThreadNeverPanics
<1>1. Init => UnwrapInv
  BY DEF Init, UnwrapInv, ThreadNeverPanics
<1>2. ProtocolInv /\ UnwrapInv /\ [Next]_vars => UnwrapInv'
  BY UnwrapNext
<1>3. UnwrapInv => ThreadNeverPanics
  BY DEF UnwrapInv
<1>4. Spec => []ThreadNeverPanics
  BY <1>1, <1>2, <1>3, ProtocolAlways, PTL DEF Spec
<1>5. QED
  BY <1>4, ImplementsProtocol, PTL

-----------------------------------------------------------------------------
(* Features                                                                *)

(* What is enabled is in every closed set; all but the queue is closed.    *)
UnificationInv ==
    /\ unification \in {"none", "running", "done", "failed"}
    /\ unification = "running" =>
         /\ queue \subseteq enabled /\ seeds \subseteq enabled
         /\ \A f \in enabled \ queue :
                dependants[f] \subseteq enabled
                /\ NotADependency \notin dependants[f]
         /\ \A flags \in SUBSET Flag : Closed(flags) => enabled \subseteq flags

LEMMA VisitKeeps ==
  ASSUME UnificationInv, FeaturesUnified, NEW f \in Flag, Visit(f)
  PROVE  UnificationInv' /\ FeaturesUnified'
<1> USE DEF Visit, UnificationInv
<1>1. \A flags : Closed(flags)' <=> Closed(flags)
  BY DEF Closed
<1>2. CASE NotADependency \in dependants[f]
  <2>1. \A flags \in SUBSET Flag : Closed(flags) => Broken(flags)
    BY <1>2 DEF Broken
  <2>2. \A flags : Broken(flags)' <=> Broken(flags)
    BY DEF Broken
  <2>3. QED
    BY <1>1, <1>2, <2>1, <2>2 DEF FeaturesUnified
<1>3. CASE NotADependency \notin dependants[f]
  <2>1. ASSUME NEW flags \in SUBSET Flag, Closed(flags)
        PROVE  enabled' \subseteq flags
    <3>1. dependants[f] \subseteq flags \cup {NotADependency}
      BY <2>1 DEF Closed
    <3>2. QED
      BY <1>3, <2>1, <3>1
  <2>2. QED
    BY <1>1, <1>3, <2>1 DEF FeaturesUnified
<1>4. QED
  BY <1>2, <1>3

LEMMA EndKeeps ==
  ASSUME UnificationInv, EndUnification
  PROVE  UnificationInv' /\ FeaturesUnified'
<1> USE DEF EndUnification, UnificationInv
<1>1. Closed(enabled) /\ ~Broken(enabled)
  BY DEF Closed, Broken
<1>2. /\ \A flags : Closed(flags)' <=> Closed(flags)
      /\ \A flags : Broken(flags)' <=> Broken(flags)
  BY DEF Closed, Broken
<1>3. QED
  BY <1>1, <1>2 DEF FeaturesUnified

LEMMA StartKeeps ==
  ASSUME NEW flags, NEW enables, StartUnification(flags, enables)
  PROVE  UnificationInv' /\ FeaturesUnified'
BY DEF StartUnification, UnificationInv, FeaturesUnified, Closed

LEMMA UnificationIdle ==
  ASSUME UnificationInv, FeaturesUnified, UNCHANGED unificationVars
  PROVE  UnificationInv' /\ FeaturesUnified'
BY DEF unificationVars, UnificationInv, FeaturesUnified, Closed, Broken

LEMMA UnificationNext ==
  UnificationInv /\ FeaturesUnified /\ [WorkspaceNext]_allVars
      => (UnificationInv /\ FeaturesUnified)'
<1> SUFFICES ASSUME UnificationInv, FeaturesUnified, [WorkspaceNext]_allVars
             PROVE  UnificationInv' /\ FeaturesUnified'
  OBVIOUS
<1>1. CASE StartJob
  BY <1>1, StartKeeps DEF StartJob
<1>2. CASE Unify
  BY <1>2, VisitKeeps, EndKeeps DEF Unify
<1>3. CASE UNCHANGED unificationVars
  BY <1>3, UnificationIdle
<1>4. CASE \E c \in Command : WriteLockfile(c) \/ Cut(c)
  BY <1>3, <1>4 DEF WriteLockfile, Truncate, LockLockfile, Write, WriteFails, Cut
<1>5. CASE BuildStep
  BY <1>1, <1>2, <1>3, <1>5
     DEF BuildStep, SpawnWriter, Collect, AwaitLockfile, Generate, Pull,
         BuildUnit, FinishUnits, Fail
<1>6. CASE Read \/ ReadFails \/ OtherResolves \/ Rest \/ UNCHANGED allVars
  BY <1>3, <1>6 DEF Read, ReadFails, OtherResolves, Rest, allVars
<1>7. CASE ResolveTask \/ ResolveThread \/ \E k \in Key : ResolveQuery(k)
  BY <1>3, <1>7 DEF ResolveTask, ResolveThread, ResolveQuery, Aside
<1>8. QED
  BY <1>4, <1>5, <1>6, <1>7 DEF WorkspaceNext

(* A unit is built with the least set of features that is closed under     *)
(* what features enable, whatever the order in which they are looked at.   *)
THEOREM FeaturesAreLeastClosed == WorkspaceSpec => []FeaturesUnified
<1>1. WorkspaceInit => UnificationInv /\ FeaturesUnified
  BY DEF WorkspaceInit, UnificationInit, UnificationInv, FeaturesUnified
<1>2. QED
  BY <1>1, UnificationNext, PTL DEF WorkspaceSpec

-----------------------------------------------------------------------------
(* The lockfile                                                            *)

(* Who writes, and what.                                                   *)
WriterInv ==
    /\ writer \in [Command -> {"none", "spawned", "truncated", "locked",
                               "done", "failed"}]
    /\ rendering \in [Command -> {"none", "kept", "fresh"}]
    /\ \A c \in Command : exclusive = c <=> writer[c] = "locked"
    /\ stage = "resolving" => writer["this"] = "none"
    /\ writer["this"] = "none" /\ main \in {"registering", "joining", "ok"}
           => rendering["this"] # "none"
    /\ \A c \in Command : writer[c] \in {"spawned", "truncated", "locked"}
           => rendering[c] # "none"

(* Nobody has resolved without the locks but for a reason, and a file that *)
(* is not empty while it is being written was written twice.               *)
LockInv ==
    /\ ~unlocked => \A c \in Command : rendering[c] # "fresh"
    /\ \A c \in Command : Writing(c) /\ lockfile # "empty" => torn
    /\ \A c, d \in Command : Writing(c) /\ Writing(d) /\ c # d => torn

LockfileInv == WriterInv /\ LockInv /\ LocksKept

LEMMA LockfileInit == WorkspaceInit => LockfileInv
  BY DEF WorkspaceInit, Init, LockfileInv, WriterInv, LockInv, LocksKept,
         Writing, Command, NoCommand

LEMMA LockfileReads ==
  ASSUME LockfileInv, Read \/ ReadFails \/ OtherResolves
  PROVE  LockfileInv'
<1> USE DEF LockfileInv, WriterInv, LockInv, LocksKept, Writing, Command,
            NoCommand
<1>1. CanRead => \A c \in Command : writer[c] # "locked"
  BY DEF CanRead
<1>2. CanRead /\ ~unlocked /\ ~Exposed => RenderingRead = "kept"
  BY <1>1 DEF Exposed, RenderingRead
<1>3. RenderingRead \in {"kept", "fresh"}
  BY DEF RenderingRead
<1>4. CASE Read
  <2>1. /\ main = "starting" /\ main' = "registering"
        /\ UNCHANGED <<lockfile, exclusive, writer, torn, stage>>
    BY <1>4 DEF Read, ReadLockfile, buildVars
  <2>2. PICK r \in {"kept", "fresh"} :
           /\ rendering' = [rendering EXCEPT !["this"] = r]
           /\ ~unlocked' => ~unlocked /\ r = "kept"
    BY <1>2, <1>3, <1>4 DEF Read
  <2>3. rendering'["this"] = r /\ rendering'["other"] = rendering["other"]
    BY <2>2
  <2>4. WriterInv'
    BY <2>1, <2>2, <2>3
  <2>5. LockInv' /\ LocksKept'
    BY <2>1, <2>2, <2>3
  <2>6. QED
    BY <2>4, <2>5
<1>5. CASE ReadFails
  BY <1>5 DEF ReadFails, ReadLockfileFails, lockVars, buildVars
<1>6. CASE OtherResolves
  <2>1. /\ writer["other"] = "none"
        /\ writer' = [writer EXCEPT !["other"] = "spawned"]
        /\ UNCHANGED <<main, lockfile, exclusive, torn, stage>>
    BY <1>6 DEF OtherResolves, vars, buildVars
  <2>2. PICK r \in {"kept", "fresh"} :
           /\ rendering' = [rendering EXCEPT !["other"] = r]
           /\ ~unlocked' => ~unlocked /\ r = "kept"
    BY <1>2, <1>3, <1>6 DEF OtherResolves
  <2>3. /\ writer'["this"] = writer["this"] /\ writer'["other"] = "spawned"
        /\ rendering'["this"] = rendering["this"] /\ rendering'["other"] = r
    BY <2>1, <2>2
  <2>4. WriterInv'
    BY <2>1, <2>2, <2>3
  <2>5. LockInv' /\ LocksKept'
    BY <2>1, <2>2, <2>3
  <2>6. QED
    BY <2>4, <2>5
<1>7. QED
  BY <1>4, <1>5, <1>6

LEMMA LockfileWrites ==
  ASSUME LockfileInv, NEW c \in Command, WriteLockfile(c) \/ Cut(c)
  PROVE  LockfileInv'
<1> USE DEF LockfileInv, WriterInv, LockInv, LocksKept, Writing, Command,
            NoCommand, vars, buildVars
<1>1. CASE Truncate(c)
  BY <1>1 DEF Truncate
<1>2. CASE LockLockfile(c)
  BY <1>2 DEF LockLockfile
<1>3. CASE Write(c)
  BY <1>3 DEF Write
<1>4. CASE WriteFails(c)
  BY <1>4 DEF WriteFails
<1>5. CASE Cut(c)
  BY <1>5 DEF Cut
<1>6. QED
  BY <1>1, <1>2, <1>3, <1>4, <1>5 DEF WriteLockfile

LEMMA LockfileResolves ==
  ASSUME LockfileInv, Aside, main' # main =>
             main \in {"registering", "joining"} /\ main' \in {"joining", "ok", "err"}
  PROVE  LockfileInv'
BY DEF LockfileInv, WriterInv, LockInv, LocksKept, Writing, Aside, lockVars,
       buildVars

LEMMA MainAdvances ==
  ASSUME MainStep \/ ThreadStep \/ \E k \in Key : QueryStep(k)
  PROVE  main' # main =>
             main \in {"registering", "joining"} /\ main' \in {"joining", "ok", "err"}
<1>1. CASE MainStep
  BY <1>1 DEF MainStep, RegisterRoot, SendRoot, SpawnThread, Receive,
              FetchEnds, JoinSolution, Return
<1>2. CASE \E k \in Key : QueryStep(k)
  BY <1>2 DEF QueryStep, QuerySucceeds, QueryFails, Return
<1>3. CASE ThreadStep
  BY <1>3 DEF ThreadStep, Start, Prioritize, Register, Send, SendPanics,
              ChooseVersion, StartWaiting, FindDependency, WaitPanics,
              HaveDependencies, Finish, SendSolution, SolutionPanics, Panic,
              mainVars
<1>4. QED
  BY <1>1, <1>2, <1>3

LEMMA LockfileBuilds == ASSUME LockfileInv, BuildStep PROVE LockfileInv'
<1> USE DEF LockfileInv, WriterInv, LockInv, LocksKept, Writing, Command,
            lockVars, vars
<1>1. CASE SpawnWriter
  BY <1>1 DEF SpawnWriter
<1>2. CASE Collect \/ AwaitLockfile \/ Generate \/ StartJob \/ Pull
  BY <1>2 DEF Collect, AwaitLockfile, Generate, StartJob, Pull
<1>3. CASE Unify
  BY <1>3 DEF Unify, buildVars
<1>4. CASE BuildUnit \/ FinishUnits \/ Fail
  BY <1>4 DEF BuildUnit, FinishUnits, Fail
<1>5. QED
  BY <1>1, <1>2, <1>3, <1>4 DEF BuildStep

LEMMA LockfileNext == LockfileInv /\ [WorkspaceNext]_allVars => LockfileInv'
<1> SUFFICES ASSUME LockfileInv, [WorkspaceNext]_allVars PROVE LockfileInv'
  OBVIOUS
<1>1. CASE Rest \/ UNCHANGED allVars
  BY <1>1 DEF Rest, allVars, vars, lockVars, buildVars, LockfileInv,
              WriterInv, LockInv, LocksKept, Writing
<1>2. CASE ResolveTask \/ ResolveThread \/ \E k \in Key : ResolveQuery(k)
  <2>1. Aside /\ (MainStep \/ ThreadStep \/ \E k \in Key : QueryStep(k))
    BY <1>2 DEF ResolveTask, ResolveThread, ResolveQuery
  <2>2. QED
    BY <2>1, MainAdvances, LockfileResolves
<1>3. QED
  BY <1>1, <1>2, LockfileReads, LockfileWrites, LockfileBuilds
     DEF WorkspaceNext

(* The lockfile loses its versions only for a reason, is damaged only by   *)
(* two writers or one that stops, and has been written when units are made.*)
THEOREM LockfileKeepsVersions == WorkspaceSpec => []LocksKept
<1>1. LockfileInv => LocksKept
  BY DEF LockfileInv
<1>2. QED
  BY <1>1, LockfileInit, LockfileNext, PTL DEF WorkspaceSpec

-----------------------------------------------------------------------------
(* Prebuilt macros                                                         *)

(* Until all units are there nobody has said what is prebuilt.             *)
NothingTold(u) ==
    /\ u = [job |-> u.job, components |-> u.components, deps |-> u.deps,
            plugins |-> u.plugins]
    /\ \A q \in u.plugins :
           q = [id |-> q.id, builtin |-> manifests[q.id].builtin,
                allowed |-> q.allowed, prebuilt |-> FALSE]

PrebuiltInv ==
    /\ stage \in {"resolving", "collecting", "awaiting", "resolved"} => units = {}
    /\ stage = "building" => \A u \in units : NothingTold(u)
    /\ PrebuiltAgreed

LEMMA UnitIsNotTold ==
  ASSUME NEW job, NEW flags PROVE NothingTold(Unit(job, flags))
<1> DEFINE u == Unit(job, flags)
           plugins == {[id |-> p, builtin |-> manifests[p].builtin,
                        allowed |-> p \in FilterSubtrees(job.kind,
                                              manifests[job.member].allow),
                        prebuilt |-> FALSE] : p \in PluginsOf(job.member, job.kind)}
<1>1. u = [job |-> u.job, components |-> u.components, deps |-> u.deps,
           plugins |-> u.plugins]
      /\ u.plugins = plugins
  BY DEF Unit
<1>2. \A q \in plugins : q = [id |-> q.id, builtin |-> manifests[q.id].builtin,
                              allowed |-> q.allowed, prebuilt |-> FALSE]
  OBVIOUS
<1>3. QED
  BY <1>1, <1>2 DEF NothingTold

(* What ends up in the plugins of a unit.                                  *)
LEMMA ToldPlugins ==
  ASSUME \A u \in units : NothingTold(u), NEW m,
         NEW v \in WithPrebuilt(units, m), NEW q \in v.plugins
  PROVE  \E u \in units : \E r \in u.plugins :
             /\ q.id = r.id /\ q.builtin = r.builtin /\ q.allowed = r.allowed
             /\ r.builtin = manifests[r.id].builtin
             /\ q.prebuilt = (r.id \in DOMAIN m /\ r.allowed /\ m[r.id])
<1> DEFINE Told(r) == IF r.id \in DOMAIN m
                      THEN [r EXCEPT !.prebuilt = r.allowed /\ m[r.id]] ELSE r
<1>1. PICK u \in units : v = [u EXCEPT !.plugins = {Told(r) : r \in u.plugins}]
  BY DEF WithPrebuilt
<1>2. v.plugins = {Told(r) : r \in u.plugins}
  BY <1>1 DEF NothingTold
<1>3. PICK r \in u.plugins : q = Told(r)
  BY <1>2
<1>4. r = [id |-> r.id, builtin |-> manifests[r.id].builtin,
           allowed |-> r.allowed, prebuilt |-> FALSE]
  BY DEF NothingTold
<1>5. CASE r.id \in DOMAIN m
  <2>1. q = [id |-> r.id, builtin |-> manifests[r.id].builtin,
             allowed |-> r.allowed, prebuilt |-> r.allowed /\ m[r.id]]
    BY <1>3, <1>4, <1>5
  <2>2. q.prebuilt = (r.allowed /\ m[r.id])
    BY <2>1
  <2>3. q.id = r.id /\ q.builtin = r.builtin /\ q.allowed = r.allowed
        /\ r.builtin = manifests[r.id].builtin
    BY <1>4, <2>1
  <2>4. QED
    BY <1>5, <2>2, <2>3, Zenon
<1>6. CASE r.id \notin DOMAIN m
  <2>1. q = r /\ q.prebuilt = FALSE /\ r.builtin = manifests[r.id].builtin
    BY <1>3, <1>4, <1>6
  <2>2. QED
    BY <1>6, <2>1, Zenon
<1>7. QED
  BY <1>5, <1>6

(* A macro with a prebuilt unit is one that every user of it allows.       *)
LEMMA WantedMacros ==
  ASSUME \A u \in units : NothingTold(u),
         NEW m, m = ProcMacroUnits(units),
         NEW u \in units, NEW r \in u.plugins
  PROVE  /\ r.id \in DOMAIN m /\ m[r.id] => r.allowed /\ opts.loadPrebuilt
         /\ opts.loadMacros /\ ~r.builtin => r.id \in DOMAIN m
<1> DEFINE wanted == IF opts.loadMacros THEN Wanted(units) ELSE {}
<1>1. DOMAIN m = {w.id : w \in wanted}
  BY DEF ProcMacroUnits
<1>2. ASSUME r.id \in DOMAIN m
      PROVE  m[r.id] => opts.loadPrebuilt
                        /\ \A w \in wanted : w.id = r.id => w.allowed
  BY <1>1, <1>2 DEF ProcMacroUnits
<1>3. ASSUME ~r.builtin, opts.loadMacros
      PROVE  \E w \in wanted : w.id = r.id /\ w.allowed = r.allowed
  <2>1. [id |-> r.id, allowed |-> r.allowed] \in Wanted(units)
    BY <1>3 DEF Wanted
  <2>2. QED
    BY <1>3, <2>1
<1>4. ASSUME r.builtin, r.id \in DOMAIN m, m[r.id] PROVE FALSE
  <2>1. PICK w \in wanted : w.id = r.id
    BY <1>1, <1>4
  <2>2. w.allowed
    BY <1>2, <1>4, <2>1
  <2>3. w \in Wanted(units)
    BY <2>1
  <2>4. PICK v \in units : \E q \in v.plugins : ~q.builtin /\ w.id = q.id
    <3>1. ASSUME NEW p, w = [id |-> p, allowed |-> FALSE] PROVE FALSE
      BY <2>2, <3>1
    <3>2. QED
      BY <2>3, <3>1 DEF Wanted
  <2>5. /\ \A q \in v.plugins : q.builtin = manifests[q.id].builtin
        /\ r.builtin = manifests[r.id].builtin
    BY DEF NothingTold
  <2>6. QED
    BY <1>4, <2>1, <2>4, <2>5
<1>5. ASSUME r.id \in DOMAIN m, m[r.id] PROVE r.allowed
  <2>1. ~r.builtin /\ opts.loadMacros
    BY <1>1, <1>4, <1>5
  <2>2. PICK w \in wanted : w.id = r.id /\ w.allowed = r.allowed
    BY <1>3, <2>1
  <2>3. w.allowed
    BY <1>2, <1>5, <2>2
  <2>4. QED
    BY <2>2, <2>3, Zenon
<1>6. opts.loadMacros /\ ~r.builtin => r.id \in DOMAIN m
  BY <1>1, <1>3
<1>7. QED
  BY <1>2, <1>5, <1>6

LEMMA FinishKeeps ==
  ASSUME \A u \in units : NothingTold(u), FinishUnits
  PROVE  PrebuiltAgreed'
<1> DEFINE m == macros'
<1>1. m = ProcMacroUnits(units) /\ units' = WithPrebuilt(units, m)
      /\ invocation' = invocation
  BY DEF FinishUnits
<1>2. ASSUME NEW v \in units', NEW q \in v.plugins
      PROVE  /\ q.prebuilt = (q.id \in DOMAIN m /\ m[q.id])
             /\ q.prebuilt => q.allowed /\ opts.loadPrebuilt
             /\ opts.loadMacros /\ ~q.builtin => q.id \in DOMAIN m
  <2>1. PICK u \in units : \E r \in u.plugins :
             /\ q.id = r.id /\ q.builtin = r.builtin /\ q.allowed = r.allowed
             /\ q.prebuilt = (r.id \in DOMAIN m /\ r.allowed /\ m[r.id])
    BY <1>1, ToldPlugins
  <2> PICK r \in u.plugins :
             /\ q.id = r.id /\ q.builtin = r.builtin /\ q.allowed = r.allowed
             /\ q.prebuilt = (r.id \in DOMAIN m /\ r.allowed /\ m[r.id])
    BY <2>1
  <2>2. /\ r.id \in DOMAIN m /\ m[r.id] => r.allowed /\ opts.loadPrebuilt
        /\ opts.loadMacros /\ ~r.builtin => r.id \in DOMAIN m
    BY <1>1, WantedMacros
  <2>3. (r.id \in DOMAIN m /\ r.allowed /\ m[r.id])
            <=> (r.id \in DOMAIN m /\ m[r.id])
    BY <2>2
  <2>4. (r.id \in DOMAIN m /\ r.allowed /\ m[r.id])
            = (q.id \in DOMAIN m /\ m[q.id])
    BY <2>1, <2>3
  <2>5. QED
    BY <2>1, <2>2, <2>4
<1>3. ASSUME NEW v \in units', NEW q \in v.plugins,
             opts.loadMacros, ~q.builtin
      PROVE  q.id \in DOMAIN m /\ m[q.id] = q.prebuilt
  <2>1. q.id \in DOMAIN m /\ q.prebuilt = (q.id \in DOMAIN m /\ m[q.id])
    BY <1>2, <1>3
  <2>2. m[q.id] \in BOOLEAN
    BY <1>1, <2>1 DEF ProcMacroUnits
  <2>3. QED
    BY <2>1, <2>2
<1>4. opts' = opts
  BY <1>1 DEF opts
<1>5. ASSUME NEW u \in units', NEW v \in units',
             NEW q \in u.plugins, NEW r \in v.plugins, q.id = r.id
      PROVE  q.prebuilt = r.prebuilt
  BY <1>2, <1>5
<1>6. QED
  BY <1>2, <1>3, <1>4, <1>5 DEF PrebuiltAgreed

LEMMA PrebuiltNext == PrebuiltInv /\ [WorkspaceNext]_allVars => PrebuiltInv'
<1> SUFFICES ASSUME PrebuiltInv, [WorkspaceNext]_allVars PROVE PrebuiltInv'
  OBVIOUS
<1> USE DEF PrebuiltInv
<1>1. ASSUME UNCHANGED buildVars PROVE PrebuiltInv'
  BY <1>1 DEF buildVars, PrebuiltAgreed, NothingTold, manifests, opts
<1>2. CASE SpawnWriter \/ Collect \/ AwaitLockfile \/ Generate \/ Fail
  BY <1>2 DEF SpawnWriter, Collect, AwaitLockfile, Generate, Fail,
              PrebuiltAgreed
<1>3. CASE StartJob \/ Pull
  BY <1>3 DEF StartJob, Pull, PrebuiltAgreed, NothingTold, manifests
<1>4. CASE BuildUnit
  BY <1>4, UnitIsNotTold DEF BuildUnit, PrebuiltAgreed, NothingTold, manifests
<1>5. CASE FinishUnits
  BY <1>5, FinishKeeps DEF FinishUnits
<1>6. CASE \E c \in Command : WriteLockfile(c) \/ Cut(c)
  BY <1>1, <1>6 DEF WriteLockfile, Truncate, LockLockfile, Write, WriteFails, Cut
<1>7. CASE Read \/ ReadFails \/ OtherResolves \/ Rest \/ UNCHANGED allVars
  BY <1>1, <1>7 DEF Read, ReadFails, OtherResolves, Rest, allVars
<1>8. CASE ResolveTask \/ ResolveThread \/ \E k \in Key : ResolveQuery(k)
  BY <1>1, <1>8 DEF ResolveTask, ResolveThread, ResolveQuery, Aside
<1>9. CASE Unify
  BY <1>1, <1>9 DEF Unify
<1>10. QED
  BY <1>2, <1>3, <1>4, <1>5, <1>6, <1>7, <1>8, <1>9
     DEF WorkspaceNext, BuildStep

(* Units agree on which macros are prebuilt, and there is a unit for every *)
(* macro that is not.                                                      *)
THEOREM UnitsAgreeOnPrebuilt == WorkspaceSpec => []PrebuiltAgreed
<1>1. WorkspaceInit => PrebuiltInv
  BY DEF WorkspaceInit, PrebuiltInv, PrebuiltAgreed
<1>2. PrebuiltInv => PrebuiltAgreed
  BY DEF PrebuiltInv
<1>3. QED
  BY <1>1, <1>2, PrebuiltNext, PTL DEF WorkspaceSpec

-----------------------------------------------------------------------------
(* Numbers and sequences                                                   *)

(* A set of numbers has a least one, because of the intervals below them   *)
(* one is the smallest.                                                    *)
LEMMA LeastNumber ==
  ASSUME NEW T, T \subseteq Nat, T # {}
  PROVE  \E x \in T : \A y \in T : x <= y
<1> DEFINE Below == {0 .. n : n \in T}
<1>1. Below \subseteq FiniteSubsetsOf(Nat) /\ Below # {}
  <2>1. \A n \in T : IsFiniteSet(0 .. n) /\ (0 .. n) \subseteq Nat
    BY FS_Interval
  <2>2. QED
    BY <2>1 DEF FiniteSubsetsOf
<1>2. PICK u \in Below : \A w \in Below : ~(<<w, u>> \in StrictSubsetOrdering(Nat))
  BY <1>1, FS_StrictSubsetOrderingWellFounded, WFMin
<1>3. PICK x \in T : u = 0 .. x
  OBVIOUS
<1>4. ASSUME NEW y \in T, y < x PROVE FALSE
  <2>1. /\ 0 .. y \in Below /\ 0 .. y \subseteq 0 .. x
        /\ x \notin 0 .. y /\ x \in 0 .. x
        /\ 0 .. y \subseteq Nat /\ 0 .. x \subseteq Nat
    BY <1>4
  <2>2. <<0 .. y, 0 .. x>> \in StrictSubsetOrdering(Nat)
    BY <2>1 DEF StrictSubsetOrdering
  <2>3. QED
    BY <1>2, <1>3, <2>1, <2>2
<1>5. QED
  BY <1>4

LEMMA Induction ==
  ASSUME NEW S, 0 \in S, \A n \in Nat : n \in S => n + 1 \in S
  PROVE  Nat \subseteq S
<1> SUFFICES ASSUME Nat \ S # {} PROVE FALSE
  OBVIOUS
<1>1. PICK m \in Nat \ S : \A y \in Nat \ S : m <= y
  BY LeastNumber
<1>2. m # 0 /\ m - 1 \in Nat /\ m - 1 \in S
  BY <1>1
<1>3. QED
  BY <1>2

(* The sequences that FlattenSeq joins one after the other.                *)
Joined(seqs, g, i) == IF i = 1 THEN seqs[i] ELSE g[i - 1] \o seqs[i]
Joins(seqs, n) == CHOOSE g : g = [i \in 1 .. n |-> Joined(seqs, g, i)]

LEMMA JoinsAre ==
  ASSUME NEW seqs, NEW n \in Nat
  PROVE  Joins(seqs, n) = [i \in 1 .. n |-> Joined(seqs, Joins(seqs, n), i)]
<1> DEFINE S == {k \in Nat : \E g : g = [i \in 1 .. k |-> Joined(seqs, g, i)]}
<1>1. 0 \in S
  <2> DEFINE none == [i \in 1 .. 0 |-> 0]
  <2>1. none = [i \in 1 .. 0 |-> Joined(seqs, none, i)]
    OBVIOUS
  <2> HIDE DEF none
  <2>2. \E g : g = [i \in 1 .. 0 |-> Joined(seqs, g, i)]
    BY <2>1
  <2>3. QED
    BY <2>2
<1>2. ASSUME NEW k \in Nat, k \in S PROVE k + 1 \in S
  <2>1. PICK g : g = [i \in 1 .. k |-> Joined(seqs, g, i)]
    BY <1>2
  <2> DEFINE h == [i \in 1 .. k + 1 |->
                      IF i \in 1 .. k THEN g[i] ELSE Joined(seqs, g, i)]
  <2>2. \A i \in 1 .. k : h[i] = g[i] /\ g[i] = Joined(seqs, g, i)
    <3>1. \A i \in 1 .. k : h[i] = g[i]
      OBVIOUS
    <3>2. \A i \in 1 .. k : g[i] = Joined(seqs, g, i)
      BY <2>1
    <3>3. QED
      BY <3>1, <3>2
  <2>3. \A i \in 1 .. k + 1 : h[i] = Joined(seqs, h, i)
    <3>1. ASSUME NEW i \in 1 .. k + 1
          PROVE  Joined(seqs, h, i) = Joined(seqs, g, i)
      <4>1. i = 1 \/ i - 1 \in 1 .. k
        OBVIOUS
      <4>2. QED
        BY <2>2, <4>1 DEF Joined
    <3>2. QED
      BY <2>2, <3>1
  <2>4. h = [i \in 1 .. k + 1 |-> Joined(seqs, h, i)]
    BY <2>3
  <2> HIDE DEF h
  <2>5. \E f : f = [i \in 1 .. k + 1 |-> Joined(seqs, f, i)]
    BY <2>4
  <2>6. QED
    BY <2>5
<1> HIDE DEF S
<1>3. Nat \subseteq S
  BY <1>1, <1>2, Induction
<1>4. \E g : g = [i \in 1 .. n |-> Joined(seqs, g, i)]
  BY <1>3 DEF S
<1>5. QED
  BY <1>4 DEF Joins

LEMMA FlattenedJoins ==
  ASSUME NEW X, NEW seqs \in Seq(Seq(X)), Len(seqs) # 0
  PROVE  FlattenSeq(seqs) = Joins(seqs, Len(seqs))[Len(seqs)]
BY DEF FlattenSeq, Joins, Joined

LEMMA JoinsType ==
  ASSUME NEW X, NEW n \in Nat, NEW seqs, \A i \in 1 .. n : seqs[i] \in Seq(X)
  PROVE  \A i \in 1 .. n : Joins(seqs, n)[i] \in Seq(X)
<1> DEFINE g == Joins(seqs, n)
           T == {k \in Nat : k \in 1 .. n => g[k] \in Seq(X)}
<1>1. \A i \in 1 .. n : g[i] = Joined(seqs, g, i)
  <2>1. g = [i \in 1 .. n |-> Joined(seqs, g, i)]
    BY JoinsAre
  <2> HIDE DEF g
  <2>2. QED
    BY <2>1
<1> HIDE DEF g
<1>2. 0 \in T
  OBVIOUS
<1>3. ASSUME NEW k \in Nat, k \in T PROVE k + 1 \in T
  <2>1. SUFFICES ASSUME k + 1 \in 1 .. n PROVE g[k + 1] \in Seq(X)
    OBVIOUS
  <2>2. CASE k = 0
    BY <1>1, <2>1, <2>2 DEF Joined
  <2>3. CASE k # 0
    <3>1. /\ k \in 1 .. n /\ (k + 1) - 1 = k /\ k + 1 # 1
          /\ g[k] \in Seq(X) /\ seqs[k + 1] \in Seq(X)
      BY <1>3, <2>1, <2>3
    <3>2. g[k + 1] = g[k] \o seqs[k + 1]
      BY <1>1, <2>1, <3>1 DEF Joined
    <3>3. QED
      BY <3>1, <3>2
  <2>4. QED
    BY <2>2, <2>3
<1> HIDE DEF T
<1>4. Nat \subseteq T
  BY <1>2, <1>3, Induction
<1>5. QED
  BY <1>4 DEF T, g

LEMMA Flattened ==
  ASSUME NEW X, NEW seqs \in Seq(Seq(X))
  PROVE  FlattenSeq(seqs) \in Seq(X)
<1>1. CASE Len(seqs) = 0
  <2>1. seqs = <<>> /\ FlattenSeq(seqs) = <<>>
    BY <1>1 DEF FlattenSeq
  <2>2. <<>> \in Seq(X)
    OBVIOUS
  <2>3. QED
    BY <2>1, <2>2
<1>2. CASE Len(seqs) # 0
  <2>1. /\ Len(seqs) \in Nat /\ Len(seqs) \in 1 .. Len(seqs)
        /\ \A i \in 1 .. Len(seqs) : seqs[i] \in Seq(X)
    BY <1>2
  <2>2. QED
    BY <1>2, <2>1, FlattenedJoins, JoinsType
<1>3. QED
  BY <1>1, <1>2

(* SetToSeq lists every element of a finite set.                           *)
LEMMA Listed ==
  ASSUME NEW S, IsFiniteSet(S)
  PROVE  /\ SetToSeq(S) \in [1 .. Cardinality(S) -> S]
         /\ \A x \in S : \E i \in 1 .. Cardinality(S) : SetToSeq(S)[i] = x
<1> DEFINE I == 1 .. Cardinality(S)
<1>1. Cardinality(S) \in Nat /\ ExistsBijection(I, S)
  BY FS_CardinalityType
<1>2. \E f \in [I -> S] : IsInjective(f)
  BY <1>1 DEF ExistsBijection, Bijection, Injection
<1>3. SetToSeq(S) \in [I -> S] /\ IsInjective(SetToSeq(S))
  BY <1>2 DEF SetToSeq
<1>4. SetToSeq(S) \in Injection(I, S)
  BY <1>3 DEF Injection
<1>5. IsFiniteSet(I) /\ Cardinality(I) = Cardinality(S)
  BY <1>1, FS_Interval
<1>6. SetToSeq(S) \in Surjection(I, S)
  BY <1>4, <1>5, FS_Injection
<1>7. QED
  BY <1>3, <1>6 DEF Surjection

-----------------------------------------------------------------------------
(* Searches along edges                                                    *)

(* What is found step by step, as Reachable defines it.                    *)
Step(edges, from, g, n) == IF n = 0 THEN from ELSE Further(edges, g[n - 1])
Steps(edges, from, k) ==
    CHOOSE g : g = [n \in 0 .. k |-> Step(edges, from, g, n)]

LEMMA StepsAre ==
  ASSUME NEW edges, NEW from, NEW k \in Nat
  PROVE  /\ Steps(edges, from, k)[0] = from
         /\ \A n \in Nat : n + 1 \in 0 .. k =>
               Steps(edges, from, k)[n + 1]
                   = Further(edges, Steps(edges, from, k)[n])
<1> DEFINE S == {m \in Nat : \E g : g = [n \in 0 .. m |-> Step(edges, from, g, n)]}
<1>1. 0 \in S
  <2> DEFINE first == [n \in 0 .. 0 |-> from]
  <2>1. \A n \in 0 .. 0 : first[n] = Step(edges, from, first, n)
    BY DEF Step
  <2>2. first = [n \in 0 .. 0 |-> Step(edges, from, first, n)]
    BY <2>1
  <2> HIDE DEF first
  <2>3. \E g : g = [n \in 0 .. 0 |-> Step(edges, from, g, n)]
    BY <2>2
  <2>4. QED
    BY <2>3
<1>2. ASSUME NEW m \in Nat, m \in S PROVE m + 1 \in S
  <2>1. PICK g : g = [n \in 0 .. m |-> Step(edges, from, g, n)]
    BY <1>2
  <2> DEFINE h == [n \in 0 .. m + 1 |->
                      IF n \in 0 .. m THEN g[n] ELSE Step(edges, from, g, n)]
  <2>2. \A n \in 0 .. m : h[n] = g[n] /\ g[n] = Step(edges, from, g, n)
    <3>1. \A n \in 0 .. m : h[n] = g[n]
      OBVIOUS
    <3>2. \A n \in 0 .. m : g[n] = Step(edges, from, g, n)
      BY <2>1
    <3>3. QED
      BY <3>1, <3>2
  <2>3. \A n \in 0 .. m + 1 : h[n] = Step(edges, from, h, n)
    <3>1. ASSUME NEW n \in 0 .. m + 1
          PROVE  Step(edges, from, h, n) = Step(edges, from, g, n)
      <4>1. n = 0 \/ n - 1 \in 0 .. m
        OBVIOUS
      <4>2. QED
        BY <2>2, <4>1 DEF Step
    <3>2. QED
      BY <2>2, <3>1
  <2>4. h = [n \in 0 .. m + 1 |-> Step(edges, from, h, n)]
    BY <2>3
  <2> HIDE DEF h
  <2>5. \E f : f = [n \in 0 .. m + 1 |-> Step(edges, from, f, n)]
    BY <2>4
  <2>6. QED
    BY <2>5
<1> HIDE DEF S
<1>3. Nat \subseteq S
  BY <1>1, <1>2, Induction
<1>4. \E g : g = [n \in 0 .. k |-> Step(edges, from, g, n)]
  BY <1>3 DEF S
<1> DEFINE f == Steps(edges, from, k)
<1>5. f = [n \in 0 .. k |-> Step(edges, from, f, n)]
  BY <1>4 DEF Steps
<1> HIDE DEF f
<1>6. \A n \in 0 .. k : f[n] = Step(edges, from, f, n)
  BY <1>5
<1>7. f[0] = from
  BY <1>6 DEF Step
<1>8. ASSUME NEW n \in Nat, n + 1 \in 0 .. k PROVE f[n + 1] = Further(edges, f[n])
  <2>1. (n + 1) - 1 = n /\ n + 1 # 0
    OBVIOUS
  <2>2. QED
    BY <1>6, <1>8, <2>1 DEF Step
<1>9. QED
  BY <1>7, <1>8 DEF f

LEMMA ReachableIsFound ==
  ASSUME NEW edges, NEW from
  PROVE  Reachable(edges, from)
             = Steps(edges, from, Cardinality(edges))[Cardinality(edges)]
BY DEF Reachable, Steps, Step

(* As long as a search finds anything new it uses a new edge, so that      *)
(* after as many steps as there are edges it has found everything.         *)
LEMMA ReachableIsClosed ==
  ASSUME NEW edges, IsFiniteSet(edges), NEW from
  PROVE  /\ from \subseteq Reachable(edges, from)
         /\ \A e \in edges : e[1] \in Reachable(edges, from) =>
                                e[2] \in Reachable(edges, from)
<1> DEFINE k == Cardinality(edges)
           f == Steps(edges, from, k)
           Used(n) == {e \in edges : e[1] \in f[n]}
           Settled(n) == \A e \in Used(n) : e[2] \in f[n]
           T == {n \in Nat : n \in 0 .. k =>
                    from \subseteq f[n] /\ (Settled(n) \/ Cardinality(Used(n)) >= n + 1)}
<1>1. k \in Nat /\ k \in 0 .. k
  BY FS_CardinalityType
<1>2. \A n : IsFiniteSet(Used(n)) /\ Cardinality(Used(n)) \in Nat
             /\ Cardinality(Used(n)) <= k
  <2> TAKE n
  <2>1. Used(n) \in SUBSET edges
    OBVIOUS
  <2>2. QED
    BY <2>1, FS_Subset, FS_CardinalityType
<1> HIDE DEF k
<1>3. /\ f[0] = from
      /\ \A n \in Nat : n + 1 \in 0 .. k => f[n + 1] = Further(edges, f[n])
  BY <1>1, StepsAre
<1> HIDE DEF f
<1>4. 0 \in T
  <2>1. ASSUME ~Settled(0) PROVE Cardinality(Used(0)) >= 0 + 1
    <3>1. Used(0) # {}
      BY <2>1
    <3> HIDE DEF Used
    <3>2. Cardinality(Used(0)) # 0
      BY <1>2, <3>1, FS_EmptySet
    <3>3. QED
      BY <1>2, <3>2
  <2> HIDE DEF Settled, Used
  <2>2. QED
    BY <1>3, <2>1
<1>5. ASSUME NEW n \in Nat, n \in T PROVE n + 1 \in T
  <2>1. SUFFICES ASSUME n + 1 \in 0 .. k
                 PROVE  /\ from \subseteq f[n + 1]
                        /\ Settled(n + 1) \/ Cardinality(Used(n + 1)) >= (n + 1) + 1
    OBVIOUS
  <2>2. /\ n \in 0 .. k /\ from \subseteq f[n]
        /\ Settled(n) \/ Cardinality(Used(n)) >= n + 1
    <3>1. n \in 0 .. k
      BY <1>1, <2>1
    <3> HIDE DEF Settled, Used
    <3>2. QED
      BY <1>5, <3>1
  <2>3. f[n + 1] = f[n] \cup {e[2] : e \in Used(n)}
    BY <1>3, <2>1 DEF Further
  <2>4. CASE Settled(n)
    <3>1. f[n + 1] = f[n]
      BY <2>3, <2>4
    <3>2. QED
      BY <2>2, <2>4, <3>1
  <2>5. CASE ~Settled(n) /\ ~Settled(n + 1)
    <3>1. PICK e \in Used(n + 1) : e[2] \notin f[n + 1]
      BY <2>5
    <3>2. e \notin Used(n) /\ Used(n) \in SUBSET Used(n + 1)
      BY <2>3, <3>1
    <3> HIDE DEF Used, Settled
    <3>3. /\ Cardinality(Used(n)) <= Cardinality(Used(n + 1))
          /\ Cardinality(Used(n)) # Cardinality(Used(n + 1))
      BY <1>2, <3>1, <3>2, FS_Subset
    <3>4. Cardinality(Used(n + 1)) >= (n + 1) + 1
      BY <1>2, <2>2, <2>5, <3>3
    <3>5. QED
      BY <2>2, <2>3, <3>4
  <2>6. QED
    BY <2>2, <2>3, <2>4, <2>5
<1> HIDE DEF T
<1>6. Nat \subseteq T
  BY <1>4, <1>5, Induction
<1>7. from \subseteq f[k] /\ (Settled(k) \/ Cardinality(Used(k)) >= k + 1)
  <2> HIDE DEF Settled, Used
  <2>1. QED
    BY <1>1, <1>6 DEF T
<1>8. Settled(k)
  <2> HIDE DEF Settled, Used
  <2>1. QED
    BY <1>1, <1>2, <1>7
<1>9. Reachable(edges, from) = f[k]
  BY ReachableIsFound DEF f, k
<1>10. QED
  BY <1>7, <1>8, <1>9

(* Nothing else is found.                                                  *)
LEMMA ReachableIsLeast ==
  ASSUME NEW edges, IsFiniteSet(edges), NEW from, NEW S, from \subseteq S,
         \A e \in edges : e[1] \in S => e[2] \in S
  PROVE  Reachable(edges, from) \subseteq S
<1> DEFINE k == Cardinality(edges)
           f == Steps(edges, from, k)
           T == {n \in Nat : n \in 0 .. k => f[n] \subseteq S}
<1>1. k \in Nat /\ k \in 0 .. k
  BY FS_CardinalityType
<1> HIDE DEF k
<1>2. /\ f[0] = from
      /\ \A n \in Nat : n + 1 \in 0 .. k => f[n + 1] = Further(edges, f[n])
  BY <1>1, StepsAre
<1> HIDE DEF f
<1>3. 0 \in T
  BY <1>2
<1>4. ASSUME NEW n \in Nat, n \in T PROVE n + 1 \in T
  <2>1. SUFFICES ASSUME n + 1 \in 0 .. k PROVE f[n + 1] \subseteq S
    OBVIOUS
  <2>2. n \in 0 .. k /\ f[n] \subseteq S
    BY <1>1, <1>4, <2>1
  <2>3. f[n + 1] = Further(edges, f[n])
    BY <1>2, <2>1
  <2>4. QED
    BY <2>2, <2>3 DEF Further
<1> HIDE DEF T
<1>5. Nat \subseteq T
  BY <1>3, <1>4, Induction
<1>6. Reachable(edges, from) = f[k]
  BY ReachableIsFound DEF f, k
<1>7. QED
  BY <1>1, <1>5, <1>6 DEF T

-----------------------------------------------------------------------------
(* The graph of a solution, and what is reached in it.                     *)
Accepted(root, kind) == {e \in Edges : AcceptsTarget(e[1], e[2], kind, e[1] = root)}

LEMMA GraphIsFinite ==
  ASSUME decided \subseteq Package, NEW root, NEW kind
  PROVE  IsFiniteSet(Accepted(root, kind))
<1>1. IsFiniteSet(decided)
  BY FiniteAssumption, FS_Subset
<1>2. IsFiniteSet(decided \X decided)
  BY <1>1, FS_Product
<1>3. Accepted(root, kind) \in SUBSET (decided \X decided)
  BY DEF Accepted, Edges
<1>4. QED
  BY <1>2, <1>3, FS_Subset

LEMMA SolutionIsClosed ==
  ASSUME decided \subseteq Package, NEW root, NEW kind
  PROVE  /\ root \in SolutionOf(root, kind)
         /\ SolutionOf(root, kind) \subseteq decided \cup {root}
         /\ \A p \in SolutionOf(root, kind) :
               DependenciesFor(p, kind, p = root) \subseteq SolutionOf(root, kind)
<1> DEFINE edges == Accepted(root, kind)
           found == Reachable(edges, {root})
<1>1. SolutionOf(root, kind) = found
  BY DEF SolutionOf, Accepted
<1>2. IsFiniteSet(edges)
  BY GraphIsFinite
<1>3. \A e \in edges : e[2] \in decided \cup {root}
  BY DEF Accepted, Edges
<1>4. \A p, q : q \in DependenciesFor(p, kind, p = root) => <<p, q>> \in edges
  BY DEF DependenciesFor, Accepted
<1> HIDE DEF edges
<1>5. /\ {root} \subseteq found
      /\ \A e \in edges : e[1] \in found => e[2] \in found
  BY <1>2, ReachableIsClosed
<1>6. found \subseteq decided \cup {root}
  BY <1>2, <1>3, ReachableIsLeast
<1> HIDE DEF found
<1>7. ASSUME NEW p \in found, NEW q \in DependenciesFor(p, kind, p = root)
      PROVE  q \in found
  <2>1. <<p, q>> \in edges /\ <<p, q>>[1] = p /\ <<p, q>>[2] = q
    BY <1>4
  <2>2. QED
    BY <1>5, <2>1
<1>8. QED
  BY <1>1, <1>5, <1>6, <1>7

-----------------------------------------------------------------------------
(* Features                                                                *)

FlagEdges(root, kind) == UNION {{f} \X Dependants(root, kind)[f] : f \in Flag}

LEMMA FlagsAreFlags ==
  ASSUME decided \subseteq Package, invocation \in DOMAIN Invocations,
         NEW root \in Package, NEW kind
  PROVE  /\ Seeds(root, kind) \subseteq Flag
         /\ \A f \in Flag : Dependants(root, kind)[f] \subseteq Flag \cup {NotADependency}
         /\ IsFiniteSet(FlagEdges(root, kind))
<1>1. \A p \in Package : \A names, default :
          {p} \X Select(p, names, default) \subseteq Flag
  BY ManifestsAssumption DEF Select, Defined, manifests
<1>2. {root} \X Selected(root) \subseteq Flag
  BY <1>1 DEF Selected
<1>3. \A r \in Requests(root, kind) : Answer[r[2]] \in Package
  BY DEF Requests, DependenciesFor
<1>4. Seeds(root, kind) \subseteq Flag
  <2>1. ASSUME NEW r \in Requests(root, kind)
        PROVE  {Answer[r[2]]} \X Select(Answer[r[2]],
                    manifests[r[1]].request[r[2]].features,
                    manifests[r[1]].request[r[2]].default) \subseteq Flag
    BY <1>1, <1>3
  <2>2. QED
    BY <1>2, <2>1 DEF Seeds
<1>5. ASSUME NEW f \in Flag
      PROVE  Dependants(root, kind)[f] \subseteq Flag \cup {NotADependency}
  <2> DEFINE Enabled(e) ==
          IF e[1] = NoPackage THEN <<f[1], e[2]>>
          ELSE IF e[1] \in DependenciesFor(f[1], kind, f[1] = root)
               THEN e ELSE NotADependency
  <2>1. CASE f[1] \in decided /\ f[2] \in Defined(f[1])
    <3>1. Dependants(root, kind)[f]
              = {Enabled(e) : e \in manifests[f[1]].features[f[2]]}
      BY <2>1 DEF Dependants
    <3>2. \A e \in manifests[f[1]].features[f[2]] :
              (IF e[1] = NoPackage THEN <<f[1], e[2]>> ELSE e) \in Flag
      BY <2>1, ManifestsAssumption DEF Defined, manifests
    <3>3. \A e \in manifests[f[1]].features[f[2]] :
              Enabled(e) \in Flag \cup {NotADependency}
      BY <3>2
    <3> HIDE DEF Enabled
    <3>4. QED
      BY <3>1, <3>3
  <2>2. CASE ~(f[1] \in decided /\ f[2] \in Defined(f[1]))
    BY <2>2 DEF Dependants
  <2>3. QED
    BY <2>1, <2>2
<1>6. IsFiniteSet(FlagEdges(root, kind))
  <2>1. IsFiniteSet(Flag \cup {NotADependency})
    BY FiniteAssumption, FS_AddElement
  <2>2. IsFiniteSet(Flag \X (Flag \cup {NotADependency}))
    BY <2>1, FiniteAssumption, FS_Product
  <2>3. FlagEdges(root, kind) \in SUBSET (Flag \X (Flag \cup {NotADependency}))
    BY <1>5 DEF FlagEdges
  <2>4. QED
    BY <2>2, <2>3, FS_Subset
<1>7. QED
  BY <1>4, <1>5, <1>6

LEMMA FlagsOfUnitIs ==
  ASSUME NEW job
  PROVE  FlagsOfUnit(job) = Reachable(FlagEdges(job.member, job.kind),
                                      Seeds(job.member, job.kind))
BY DEF FlagsOfUnit, FlagEdges

(* A unification that ended well enabled what a search would find.         *)
LEMMA EnabledIsReachable ==
  ASSUME decided \subseteq Package, invocation \in DOMAIN Invocations,
         NEW job, job.member \in Package,
         FeaturesUnified, unification = "done",
         seeds = Seeds(job.member, job.kind),
         dependants = Dependants(job.member, job.kind)
  PROVE  enabled = FlagsOfUnit(job)
<1> DEFINE edges == FlagEdges(job.member, job.kind)
           found == Reachable(edges, seeds)
<1>1. /\ seeds \subseteq Flag /\ IsFiniteSet(edges)
      /\ \A f \in Flag : dependants[f] \subseteq Flag \cup {NotADependency}
  BY FlagsAreFlags
<1>2. \A f, g : f \in Flag /\ g \in dependants[f] => <<f, g>> \in edges
  BY DEF FlagEdges
<1>3. \A e \in edges : e[1] \in Flag /\ e[2] \in dependants[e[1]]
  BY DEF FlagEdges
<1>4. found = FlagsOfUnit(job)
  BY FlagsOfUnitIs
<1> HIDE DEF edges
<1>5. /\ seeds \subseteq enabled
      /\ \A f \in enabled : /\ dependants[f] \subseteq enabled \cup {NotADependency}
                            /\ NotADependency \notin dependants[f]
  BY DEF FeaturesUnified, Closed, Broken
<1>6. found \subseteq enabled
  <2>1. \A e \in edges : e[1] \in enabled => e[2] \in enabled
    BY <1>3, <1>5
  <2>2. QED
    BY <1>1, <1>5, <2>1, ReachableIsLeast
<1>7. /\ seeds \subseteq found
      /\ \A e \in edges : e[1] \in found => e[2] \in found
  BY <1>1, ReachableIsClosed
<1> HIDE DEF found
<1>8. enabled \subseteq found
  <2> DEFINE flags == found \cap Flag
  <2>1. ASSUME NEW f \in flags, NEW g \in dependants[f]
        PROVE  g \in flags \cup {NotADependency}
    <3>1. <<f, g>> \in edges /\ <<f, g>>[1] = f /\ <<f, g>>[2] = g
      BY <1>2
    <3>2. g \in found
      BY <1>7, <3>1
    <3>3. QED
      BY <1>1, <3>2
  <2>2. Closed(flags)
    BY <1>1, <1>7, <2>1 DEF Closed
  <2>3. QED
    BY <2>2 DEF FeaturesUnified
<1>9. QED
  BY <1>4, <1>6, <1>8

-----------------------------------------------------------------------------
(* One unit                                                                *)

PossibleJobs ==
    UNION {{Job(m, t) : t \in Range(manifests[m].targets)} :
              m \in {p \in Members : ~Plugin(p)}}

LEMMA JobIsPossible ==
  ASSUME decided \subseteq Package, invocation \in DOMAIN Invocations,
         NEW job \in PossibleJobs
  PROVE  /\ job.member \in Members /\ job.member \in Package /\ ~Plugin(job.member)
         /\ TestPackage(job) \notin Package
<1>1. PICK m \in {p \in Members : ~Plugin(p)} :
          \E t \in Range(manifests[m].targets) : job = Job(m, t)
  BY DEF PossibleJobs
<1> PICK t \in Range(manifests[m].targets) : job = Job(m, t)
  BY <1>1
<1>2. m \in Package
  BY <1>1 DEF Members
<1>3. job.member = m /\ job.name = (IF t.group = NoGroup THEN t.name ELSE t.group)
  BY DEF Job
<1>4. <<m, t.name>> \notin Package /\ <<m, t.group>> \notin Package
  BY <1>1, <1>2, ManifestsAssumption DEF manifests
<1>5. QED
  BY <1>1, <1>2, <1>3, <1>4 DEF TestPackage

FlagsOf(flags, p) == {f[2] : f \in {g \in flags : g[1] = p}}

LEMMA SelectedIsEnabled ==
  ASSUME decided \subseteq Package, invocation \in DOMAIN Invocations,
         NEW job, job.member \in Package
  PROVE  Selected(job.member) \subseteq FlagsOf(FlagsOfUnit(job), job.member)
<1> DEFINE m == job.member
<1>1. {m} \X Selected(m) \subseteq Seeds(m, job.kind)
  BY DEF Seeds
<1>2. IsFiniteSet(FlagEdges(m, job.kind))
  BY FlagsAreFlags
<1>3. Seeds(m, job.kind) \subseteq FlagsOfUnit(job)
  BY <1>2, FlagsOfUnitIs, ReachableIsClosed
<1>4. ASSUME NEW f \in Selected(m) PROVE f \in FlagsOf(FlagsOfUnit(job), m)
  <2>1. <<m, f>> \in FlagsOfUnit(job) /\ <<m, f>>[1] = m /\ <<m, f>>[2] = f
    BY <1>1, <1>3
  <2>2. QED
    BY <2>1 DEF FlagsOf
<1>5. QED
  BY <1>4

(* A component of a unit is the crate of an integration test or stands for *)
(* a package of its libraries, compiled with the features of that.         *)
LEMMA ComponentsAre ==
  ASSUME decided \subseteq Package, invocation \in DOMAIN Invocations,
         NEW job \in PossibleJobs, NEW c \in Components(job, FlagsOfUnit(job))
  PROVE  /\ c.id = TestPackage(job) \/ c.id \in LibrariesOf(job.member, job.kind)
         /\ c.features = IF c.id = TestPackage(job) THEN Selected(job.member)
                         ELSE FlagsOf(FlagsOfUnit(job), c.id)
         /\ c.test => /\ job.kind = "test"
                      /\ job.integration => c.id = TestPackage(job)
                      /\ ~job.integration => c.id = job.member
<1> DEFINE m == job.member
           flags == FlagsOfUnit(job)
           first == [id |-> IF job.integration THEN TestPackage(job) ELSE m,
                     features |-> Selected(m) \cup
                         IF job.integration THEN {} ELSE FlagsOf(flags, m),
                     test |-> job.kind = "test"]
           Dependency(p) == [id |-> p, features |-> FlagsOf(flags, p), test |-> FALSE]
           library == [id |-> m, test |-> FALSE,
                       features |-> Selected(m) \cup FlagsOf(flags, m)]
<1>1. m \in Package /\ TestPackage(job) \notin Package
  BY JobIsPossible
<1>2. m \in LibrariesOf(m, job.kind) /\ LibrariesOf(m, job.kind) \subseteq Package
  BY <1>1, SolutionIsClosed DEF LibrariesOf
<1>3. Selected(m) \subseteq FlagsOf(flags, m)
  BY <1>1, SelectedIsEnabled
<1>4. \/ c = first
      \/ \E p \in LibrariesOf(m, job.kind) \ {m} : c = Dependency(p)
      \/ job.integration /\ c = library
  BY DEF Components, FlagsOf
<1> HIDE DEF flags
<1>5. CASE c = first
  <2>1. CASE job.integration
    <3>1. /\ c.id = TestPackage(job) /\ c.features = Selected(m)
          /\ c.test = (job.kind = "test")
      BY <1>5, <2>1
    <3>2. QED
      BY <2>1, <3>1
  <2>2. CASE ~job.integration
    <3>1. /\ c.id = m /\ c.features = Selected(m) \cup FlagsOf(flags, m)
          /\ c.test = (job.kind = "test")
      BY <1>5, <2>2
    <3>2. c.features = FlagsOf(flags, m) /\ c.id # TestPackage(job)
      BY <1>1, <1>3, <3>1
    <3>3. QED
      BY <1>2, <2>2, <3>1, <3>2 DEF flags
  <2>3. QED
    BY <2>1, <2>2
<1>6. ASSUME NEW p \in LibrariesOf(m, job.kind) \ {m}, c = Dependency(p)
      PROVE  /\ c.id \in LibrariesOf(m, job.kind) /\ c.id # TestPackage(job)
             /\ c.features = FlagsOf(flags, c.id) /\ ~c.test
  BY <1>1, <1>2, <1>6
<1>7. CASE c = library
  <2>1. /\ c.id = m /\ c.features = FlagsOf(flags, m) /\ ~c.test
    BY <1>3, <1>7
  <2>2. QED
    BY <1>1, <1>2, <2>1 DEF flags
<1>8. QED
  BY <1>4, <1>5, <1>6, <1>7 DEF flags

LEMMA LibrariesAreComponents ==
  ASSUME NEW job, NEW flags, NEW p \in LibrariesOf(job.member, job.kind)
  PROVE  \E c \in Components(job, flags) : c.id = p
<1>1. CASE p = job.member /\ job.integration
  <2> DEFINE c == [id |-> job.member, test |-> FALSE,
                   features |-> Selected(job.member) \cup FlagsOf(flags, job.member)]
  <2>1. c \in Components(job, flags)
    BY <1>1 DEF Components, FlagsOf
  <2>2. QED
    BY <1>1, <2>1
<1>2. CASE p = job.member /\ ~job.integration
  <2> DEFINE c == [id |-> IF job.integration THEN TestPackage(job) ELSE job.member,
                   features |-> Selected(job.member) \cup
                       IF job.integration THEN {} ELSE FlagsOf(flags, job.member),
                   test |-> job.kind = "test"]
  <2>1. c \in Components(job, flags)
    BY DEF Components, FlagsOf
  <2>2. c.id = p
    BY <1>2
  <2>3. QED
    BY <2>1, <2>2
<1>3. CASE p # job.member
  <2> DEFINE c == [id |-> p, features |-> FlagsOf(flags, p), test |-> FALSE]
  <2>1. c \in Components(job, flags)
    BY <1>3 DEF Components, FlagsOf
  <2>2. QED
    BY <2>1
<1>4. QED
  BY <1>1, <1>2, <1>3

(* What a library of a unit depends on is in the unit, but for plugins     *)
(* that are re-exported by a package whose tests need them.                *)
LEMMA PackagesAreThere ==
  ASSUME decided \subseteq Package, NEW root, ~Plugin(root), NEW kind,
         NEW p \in LibrariesOf(root, kind), ~BadReexport(p, kind, root),
         NEW q \in PackageDependencies(p, kind, root), Plugin(q)
  PROVE  \/ q \in PluginsOf(root, kind)
         \/ q \in decided /\ \E d \in decided :
                q \in manifests[d].reexports /\ "normal" \notin EdgeKinds(d, q)
<1>1. p \in SolutionOf(root, kind)
  BY DEF LibrariesOf
<1>2. DependenciesFor(p, kind, p = root) \subseteq SolutionOf(root, kind)
  BY <1>1, SolutionIsClosed
<1>3. \A d \in SolutionOf(root, kind) : Plugin(d) => d \in PluginsOf(root, kind)
  BY DEF PluginsOf
<1>4. CASE q \in DependenciesFor(p, kind, p = root)
  BY <1>2, <1>3, <1>4
<1>5. ASSUME NEW d \in DependenciesFor(p, kind, p = root), q \in manifests[d].reexports
      PROVE  \/ q \in PluginsOf(root, kind)
             \/ q \in decided /\ d \in decided /\ "normal" \notin EdgeKinds(d, q)
  <2>1. q \in DependenciesFor(d, kind, p = root) /\ d \in decided
    BY <1>5 DEF BadReexport, DependenciesFor
  <2>2. q \in decided /\ <<d, q>> \in Edges
    BY <2>1 DEF DependenciesFor
  <2>3. CASE "normal" \in EdgeKinds(d, q)
    <3>1. q \in DependenciesFor(d, kind, d = root)
      BY <2>2, <2>3 DEF DependenciesFor, AcceptsTarget
    <3>2. q \in SolutionOf(root, kind)
      BY <1>2, <1>5, <3>1, SolutionIsClosed
    <3>3. QED
      BY <1>3, <3>2
  <2>4. QED
    BY <2>1, <2>2, <2>3
<1>6. QED
  BY <1>4, <1>5 DEF PackageDependencies

UnitClosed(u) == \A c \in u.components : Closes(u, FlagsOfUnit(u.job), c)

LEMMA UnitIsClosed ==
  ASSUME decided \subseteq Package, invocation \in DOMAIN Invocations,
         NEW job \in PossibleJobs, ~UnitFails(job),
         NEW u, u.job = job, u.components = Components(job, FlagsOfUnit(job)),
         u.deps = Unit(job, FlagsOfUnit(job)).deps,
         {q.id : q \in u.plugins} = PluginsOf(job.member, job.kind)
  PROVE  UnitClosed(u)
<1> DEFINE m == job.member
           flags == FlagsOfUnit(job)
           ids == {c.id : c \in u.components}
           plugins == {q.id : q \in u.plugins}
           PackageOf(c) == IF c.id = TestPackage(job) THEN m ELSE c.id
<1>1. m \in Package /\ ~Plugin(m) /\ TestPackage(job) \notin Package
  BY JobIsPossible
<1>2. LibrariesOf(m, job.kind) \subseteq ids
  BY LibrariesAreComponents
<1>3. m \in LibrariesOf(m, job.kind)
  BY SolutionIsClosed DEF LibrariesOf
<1>4. ASSUME NEW c \in u.components
      PROVE  /\ PackageOf(c) \in LibrariesOf(m, job.kind)
             /\ c.features = IF c.id = TestPackage(job) THEN Selected(m)
                             ELSE FlagsOf(flags, c.id)
             /\ c.test => /\ job.kind = "test"
                          /\ job.integration => c.id = TestPackage(job)
                          /\ ~job.integration => c.id = m
  BY <1>3, ComponentsAre
<1>5. ASSUME NEW c \in u.components
      PROVE  /\ u.deps[c.id].libraries \subseteq ids
             /\ u.deps[c.id].plugins \subseteq plugins \cup Strays
  <2> DEFINE packages == PackageDependencies(PackageOf(c), job.kind, m)
  <2>1. u.deps = [id \in ids |-> ComponentDependencies(job, ids, id)]
    BY DEF Unit
  <2>2. u.deps[c.id] = ComponentDependencies(job, ids, c.id)
    BY <2>1
  <2>3. /\ u.deps[c.id].libraries = (ids \cap packages) \cup {PackageOf(c)}
        /\ u.deps[c.id].plugins = {q \in packages : Plugin(q)}
    BY <2>2 DEF ComponentDependencies
  <2>4. ~BadReexport(PackageOf(c), job.kind, m)
    BY <1>4 DEF UnitFails
  <2>5. \A q \in packages : Plugin(q) => q \in plugins \cup Strays
    BY <1>1, <1>4, <2>4, PackagesAreThere DEF Strays
  <2>6. PackageOf(c) \in ids
    BY <1>2, <1>4
  <2> HIDE DEF packages, PackageOf, ids, plugins
  <2>7. QED
    BY <2>3, <2>5, <2>6
<1>6. ASSUME NEW c \in u.components, c.id \in decided,
             NEW q \in DependenciesFor(c.id, job.kind, c.id = m)
      PROVE  /\ manifests[q].class = "lib" => q \in ids
             /\ manifests[q].class = "plugin" => q \in plugins
  <2>1. c.id # TestPackage(job)
    BY <1>1, <1>6
  <2>2. c.id \in SolutionOf(m, job.kind)
    BY <1>4, <2>1 DEF LibrariesOf
  <2>3. q \in SolutionOf(m, job.kind)
    BY <1>6, <2>2, SolutionIsClosed
  <2>4. manifests[q].class = "lib" => q \in LibrariesOf(m, job.kind)
    BY <2>3 DEF LibrariesOf
  <2>5. manifests[q].class = "plugin" => q \in PluginsOf(m, job.kind)
    BY <1>1, <2>3 DEF PluginsOf, Plugin
  <2>6. QED
    BY <1>2, <2>4, <2>5
<1> HIDE DEF ids, plugins, flags, PackageOf
<1>7. QED
  BY <1>4, <1>5, <1>6 DEF UnitClosed, Closes, ids, plugins, flags, FlagsOf

-----------------------------------------------------------------------------
(* All units                                                               *)

(* The jobs of targets without a group, as Jobs defines them.              *)
OneMore(member, targets, g, n) ==
    IF n = 0 THEN <<>>
    ELSE IF targets[n].group = NoGroup
    THEN Append(g[n - 1], Job(member, targets[n])) ELSE g[n - 1]

Alone(member, targets) ==
    CHOOSE g : g = [n \in 0..Len(targets) |-> OneMore(member, targets, g, n)]

LEMMA AloneIs ==
  ASSUME NEW X, NEW m, NEW targets, Len(targets) \in Nat,
         \A n \in 1 .. Len(targets) : Job(m, targets[n]) \in X
  PROVE  Alone(m, targets)[Len(targets)] \in Seq(X)
<1> DEFINE More(g, n) == OneMore(m, targets, g, n)
           S == {k \in Nat : k \in 0 .. Len(targets) =>
                    \E g \in [0 .. k -> Seq(X)] : \A n \in 0 .. k : g[n] = More(g, n)}
<1>1. 0 \in S
  <2> DEFINE none == [n \in 0 .. 0 |-> <<>>]
  <2>1. <<>> \in Seq(X)
    OBVIOUS
  <2>2. none \in [0 .. 0 -> Seq(X)] /\ \A n \in 0 .. 0 : none[n] = More(none, n)
    BY <2>1 DEF OneMore
  <2> HIDE DEF none
  <2>3. QED
    BY <2>2
<1>2. ASSUME NEW k \in Nat, k \in S PROVE k + 1 \in S
  <2>1. SUFFICES ASSUME k + 1 \in 0 .. Len(targets)
                 PROVE  \E h \in [0 .. k + 1 -> Seq(X)] :
                            \A n \in 0 .. k + 1 : h[n] = More(h, n)
    OBVIOUS
  <2>2. k \in 0 .. Len(targets)
    BY <2>1
  <2>3. PICK g \in [0 .. k -> Seq(X)] : \A n \in 0 .. k : g[n] = More(g, n)
    BY <1>2, <2>2
  <2> DEFINE h == [n \in 0 .. k + 1 |-> IF n \in 0 .. k THEN g[n] ELSE More(g, n)]
  <2>4. g[k] \in Seq(X) /\ Job(m, targets[k + 1]) \in X /\ (k + 1) - 1 = k
    BY <2>1
  <2>5. More(g, k + 1) \in Seq(X)
    BY <2>4 DEF OneMore
  <2>6. /\ \A n \in 0 .. k : h[n] = g[n]
        /\ h[k + 1] = More(g, k + 1)
    OBVIOUS
  <2>7. h \in [0 .. k + 1 -> Seq(X)]
    <3>1. \A n \in 0 .. k + 1 : (IF n \in 0 .. k THEN g[n] ELSE More(g, n)) \in Seq(X)
      <4>1. \A n \in 0 .. k + 1 : n \in 0 .. k \/ n = k + 1
        OBVIOUS
      <4> HIDE DEF More
      <4>2. QED
        BY <2>5, <4>1
    <3> HIDE DEF More
    <3>2. QED
      BY <3>1
  <2>8. ASSUME NEW n \in 0 .. k + 1 PROVE h[n] = More(h, n)
    <3>1. n = 0 \/ n - 1 \in 0 .. k
      OBVIOUS
    <3>2. n # 0 => h[n - 1] = g[n - 1]
      BY <2>6, <3>1
    <3> HIDE DEF h
    <3>3. More(h, n) = More(g, n)
      BY <3>2 DEF OneMore
    <3>4. n \in 0 .. k \/ n = k + 1
      OBVIOUS
    <3> HIDE DEF More
    <3>5. QED
      BY <2>3, <2>6, <3>3, <3>4
  <2> HIDE DEF h, More
  <2>9. QED
    BY <2>7, <2>8
<1> HIDE DEF S, More
<1>3. Nat \subseteq S
  BY <1>1, <1>2, Induction
<1>4. PICK f \in [0 .. Len(targets) -> Seq(X)] :
          \A n \in 0 .. Len(targets) : f[n] = More(f, n)
  <2>1. Len(targets) \in S /\ Len(targets) \in 0 .. Len(targets)
    BY <1>3
  <2>2. QED
    BY <2>1 DEF S
<1>5. f = [n \in 0 .. Len(targets) |-> OneMore(m, targets, f, n)]
  BY <1>4 DEF More
<1> DEFINE alone == Alone(m, targets)
<1>6. alone = [n \in 0 .. Len(targets) |-> OneMore(m, targets, alone, n)]
  BY <1>5 DEF Alone
<1> HIDE DEF alone
<1>7. \A n \in 0 .. Len(targets) : alone[n] = OneMore(m, targets, alone, n)
  BY <1>6
<1> DEFINE T == {k \in Nat : k \in 0 .. Len(targets) => alone[k] \in Seq(X)}
<1>8. 0 \in T
  <2>1. <<>> \in Seq(X)
    OBVIOUS
  <2>2. 0 \in 0 .. Len(targets)
    OBVIOUS
  <2>3. alone[0] = <<>>
    BY <1>7, <2>2 DEF OneMore
  <2>4. QED
    BY <2>1, <2>3
<1>9. ASSUME NEW k \in Nat, k \in T PROVE k + 1 \in T
  <2>1. SUFFICES ASSUME k + 1 \in 0 .. Len(targets) PROVE alone[k + 1] \in Seq(X)
    OBVIOUS
  <2>2. /\ alone[k] \in Seq(X) /\ Job(m, targets[k + 1]) \in X
        /\ (k + 1) - 1 = k /\ k + 1 # 0
    BY <1>9, <2>1
  <2>3. alone[k + 1] = OneMore(m, targets, alone, k + 1)
    BY <1>7, <2>1
  <2>4. QED
    BY <2>2, <2>3 DEF OneMore
<1> HIDE DEF T
<1>10. Nat \subseteq T
  BY <1>8, <1>9, Induction
<1>11. QED
  BY <1>10 DEF T, alone

LEMMA JobsAre ==
  ASSUME NEW m
  PROVE  LET targets == manifests[m].targets
         IN  Jobs(m) = SetToSeq({Job(m, t) :
                           t \in {u \in Range(targets) : u.group # NoGroup}})
                       \o Alone(m, targets)[Len(targets)]
BY DEF Jobs, Alone, OneMore

LEMMA JobsArePossible ==
  ASSUME decided \subseteq Package, invocation \in DOMAIN Invocations,
         NEW m \in Members, ~Plugin(m)
  PROVE  Jobs(m) \in Seq(PossibleJobs)
<1> DEFINE targets == manifests[m].targets
           job == [i \in DOMAIN targets |-> Job(m, targets[i])]
           grouped == {Job(m, t) : t \in {u \in Range(targets) : u.group # NoGroup}}
<1>1. /\ targets \in Seq(Range(targets))
      /\ DOMAIN targets = 1 .. Len(targets) /\ Len(targets) \in Nat
  BY ManifestsAssumption DEF Members, manifests
<1>2. \A t \in Range(targets) : Job(m, t) \in PossibleJobs
  BY DEF PossibleJobs
<1>3. IsFiniteSet(grouped) /\ grouped \subseteq PossibleJobs
  <2>1. IsFiniteSet(DOMAIN targets)
    <3> HIDE DEF targets
    <3>1. IsFiniteSet(1 .. Len(targets))
      BY <1>1, FS_Interval
    <3>2. QED
      BY <1>1, <3>1
  <2>2. job \in Surjection(DOMAIN targets, Range(job))
    BY DEF Surjection, Range
  <2>3. IsFiniteSet(Range(job))
    BY <2>1, <2>2, FS_Surjection
  <2>4. \A t \in Range(targets) : Job(m, t) \in Range(job)
    BY DEF Range
  <2>5. grouped \subseteq Range(job)
    BY <2>4
  <2>6. QED
    BY <1>2, <2>3, <2>5, FS_Subset
<1>4. SetToSeq(grouped) \in Seq(PossibleJobs)
  <2> HIDE DEF grouped
  <2>1. /\ SetToSeq(grouped) \in [1 .. Cardinality(grouped) -> grouped]
        /\ Cardinality(grouped) \in Nat
    BY <1>3, Listed, FS_CardinalityType
  <2>2. QED
    BY <1>3, <2>1
<1>5. Alone(m, targets)[Len(targets)] \in Seq(PossibleJobs)
  <2>1. \A n \in 1 .. Len(targets) : Job(m, targets[n]) \in PossibleJobs
    BY <1>1, <1>2 DEF Range
  <2> HIDE DEF targets
  <2>2. QED
    BY <1>1, <2>1, AloneIs
<1>6. Jobs(m) = SetToSeq(grouped) \o Alone(m, targets)[Len(targets)]
  BY JobsAre
<1> HIDE DEF grouped, targets
<1>7. QED
  BY <1>4, <1>5, <1>6

LEMMA GeneratedArePossible ==
  ASSUME decided \subseteq Package, invocation \in DOMAIN Invocations, Generate
  PROVE  jobs' \in Seq(PossibleJobs)
<1> DEFINE members == {p \in Members : ~Plugin(p)}
           order == SetToSeq(members)
           each == [i \in DOMAIN order |-> Jobs(order[i])]
<1>1. IsFiniteSet(members)
  <2>1. members \in SUBSET Package
    BY DEF Members
  <2>2. QED
    BY <2>1, FiniteAssumption, FS_Subset
<1>2. \A m \in members : Jobs(m) \in Seq(PossibleJobs)
  BY JobsArePossible
<1>3. jobs' = FlattenSeq(each)
  BY DEF Generate
<1> HIDE DEF members
<1>4. order \in [1 .. Cardinality(members) -> members] /\ Cardinality(members) \in Nat
  BY <1>1, Listed, FS_CardinalityType
<1> HIDE DEF order
<1>5. each \in Seq(Seq(PossibleJobs))
  <2>1. DOMAIN order = 1 .. Cardinality(members) /\ \A i \in DOMAIN order : order[i] \in members
    BY <1>4
  <2>2. \A i \in DOMAIN order : Jobs(order[i]) \in Seq(PossibleJobs)
    BY <1>2, <2>1
  <2>3. QED
    BY <1>4, <2>1, <2>2
<1> HIDE DEF each
<1>6. QED
  BY <1>3, <1>5, Flattened

(* The decisions are final once resolve has returned, so that the units    *)
(* keep what they are made from.                                           *)
LEMMA DecidedStays ==
  ASSUME ProtocolInv, main = "ok", [WorkspaceNext]_allVars
  PROVE  decided' = decided /\ main' = "ok"
<1>1. thread \in {"finished", "panicked"}
  BY DEF ProtocolInv, FetchInv
<1>2. [Next]_vars
  BY StepsOfTheProtocol
<1>3. CASE ReadStep
  BY <1>3 DEF ReadStep, ReadLockfile, ReadLockfileFails
<1>4. CASE MainStep
  BY <1>4 DEF MainStep, RegisterRoot, SendRoot, SpawnThread, Receive,
              FetchEnds, JoinSolution, Return
<1>5. CASE \E k \in Key : QueryStep(k)
  BY <1>5 DEF QueryStep, QuerySucceeds, QueryFails, Return
<1>6. CASE ThreadStep
  BY <1>1, <1>6
     DEF mainVars, ThreadStep, Start, Prioritize, Register, Send, SendPanics,
         ChooseVersion, StartWaiting, FindDependency, WaitPanics,
         HaveDependencies, Finish, SendSolution, SolutionPanics, Panic
<1>7. CASE UNCHANGED vars
  BY <1>7 DEF vars, mainVars, solverVars
<1>8. QED
  BY <1>2, <1>3, <1>4, <1>5, <1>6, <1>7 DEF Next, Over

LEMMA GraphStays ==
  ASSUME decided' = decided
  PROVE  /\ Members' = Members
         /\ \A p, kind, isRoot :
               DependenciesFor(p, kind, isRoot)' = DependenciesFor(p, kind, isRoot)
         /\ \A root, kind : SolutionOf(root, kind)' = SolutionOf(root, kind)
<1>1. Edges' = Edges
  BY DEF Edges
<1>2. QED
  BY <1>1 DEF Members, DependenciesFor, SolutionOf

LEMMA ManifestsStay ==
  ASSUME invocation' = invocation
  PROVE  /\ manifests' = manifests /\ opts' = opts
         /\ \A p : Defined(p)' = Defined(p)
         /\ \A p, names, default : Select(p, names, default)' = Select(p, names, default)
         /\ \A p : Selected(p)' = Selected(p)
         /\ \A p : Plugin(p)' = Plugin(p)
<1>1. manifests' = manifests /\ opts' = opts
  BY DEF manifests, opts
<1>2. \A p : Defined(p)' = Defined(p)
  BY <1>1 DEF Defined
<1>3. \A p, names, default :
          Selection(p, names, default)' = Selection(p, names, default)
  BY <1>1, <1>2 DEF Selection
<1>4. \A p, names, default : Select(p, names, default)' = Select(p, names, default)
  BY <1>2, <1>3 DEF Select
<1>5. \A p : Selected(p)' = Selected(p)
  BY <1>1, <1>2, <1>4 DEF Selected
<1>6. \A p : Plugin(p)' = Plugin(p)
  BY <1>1 DEF Plugin
<1>7. QED
  BY <1>1, <1>2, <1>4, <1>5, <1>6

LEMMA UnitsStay ==
  ASSUME decided' = decided, invocation' = invocation
  PROVE  /\ PossibleJobs' = PossibleJobs
         /\ \A root, kind : Seeds(root, kind)' = Seeds(root, kind)
         /\ \A root, kind : Dependants(root, kind)' = Dependants(root, kind)
         /\ \A job : FlagsOfUnit(job)' = FlagsOfUnit(job)
         /\ \A u : UnitClosed(u)' = UnitClosed(u)
<1>1. /\ Members' = Members
      /\ \A p, kind, isRoot :
            DependenciesFor(p, kind, isRoot)' = DependenciesFor(p, kind, isRoot)
      /\ \A root, kind : SolutionOf(root, kind)' = SolutionOf(root, kind)
  BY GraphStays
<1>2. /\ manifests' = manifests
      /\ \A p : Defined(p)' = Defined(p)
      /\ \A p, names, default : Select(p, names, default)' = Select(p, names, default)
      /\ \A p : Selected(p)' = Selected(p)
      /\ \A p : Plugin(p)' = Plugin(p)
  BY ManifestsStay
<1>3. PossibleJobs' = PossibleJobs
  BY <1>1, <1>2 DEF PossibleJobs
<1>4. \A root, kind : Requests(root, kind)' = Requests(root, kind)
  BY <1>1 DEF Requests
<1>5. \A root, kind : Seeds(root, kind)' = Seeds(root, kind)
  BY <1>2, <1>4 DEF Seeds
<1>6. ASSUME NEW root, NEW kind PROVE Dependants(root, kind)' = Dependants(root, kind)
  BY ZenonT(60), <1>1, <1>2 DEF Dependants
<1>7. \A job : FlagsOfUnit(job)' = FlagsOfUnit(job)
  BY <1>5, <1>6 DEF FlagsOfUnit
<1>8. ASSUME NEW u, NEW flags, NEW c
      PROVE  Closes(u, flags, c)' = Closes(u, flags, c)
  <2>1. Strays' = Strays
    BY <1>2 DEF Strays
  <2>2. QED
    BY <1>1, <1>2, <1>7, <2>1 DEF Closes
<1>9. \A u : UnitClosed(u)' = UnitClosed(u)
  BY <1>7, <1>8 DEF UnitClosed
<1>10. QED
  BY <1>3, <1>5, <1>6, <1>7, <1>9

(* To be told which plugins are prebuilt changes nothing of a unit but     *)
(* that.                                                                   *)
LEMMA TellingKeepsClosed ==
  ASSUME \A u \in units : NothingTold(u) /\ UnitClosed(u), NEW m,
         NEW v \in WithPrebuilt(units, m)
  PROVE  UnitClosed(v)
<1> DEFINE Told(r) == IF r.id \in DOMAIN m
                      THEN [r EXCEPT !.prebuilt = r.allowed /\ m[r.id]] ELSE r
<1>1. PICK u \in units : v = [u EXCEPT !.plugins = {Told(r) : r \in u.plugins}]
  BY DEF WithPrebuilt
<1>2. /\ v.job = u.job /\ v.components = u.components /\ v.deps = u.deps
      /\ v.plugins = {Told(r) : r \in u.plugins}
  BY <1>1 DEF NothingTold
<1>3. ASSUME NEW r \in u.plugins PROVE Told(r).id = r.id
  <2>1. r = [id |-> r.id, builtin |-> manifests[r.id].builtin,
             allowed |-> r.allowed, prebuilt |-> FALSE]
    BY DEF NothingTold
  <2>2. QED
    BY <2>1
<1> HIDE DEF Told
<1>4. {q.id : q \in v.plugins} = {q.id : q \in u.plugins}
  BY <1>2, <1>3
<1>5. \A c : Closes(v, FlagsOfUnit(v.job), c) = Closes(u, FlagsOfUnit(u.job), c)
  BY <1>2, <1>4 DEF Closes
<1>6. QED
  BY <1>2, <1>5 DEF UnitClosed

(* What has been collected belongs to the job at hand or to one before it. *)
CollectedInv ==
    IF collected = NotCollected
    THEN unification \in {"running", "done"} =>
             /\ jobs # <<>>
             /\ seeds = Seeds(Head(jobs).member, Head(jobs).kind)
             /\ dependants = Dependants(Head(jobs).member, Head(jobs).kind)
    ELSE collected.flags = FlagsOfUnit(collected)

UnitsInv ==
    /\ stage \notin {"resolving", "failed"} => main = "ok"
    /\ stage \in {"resolving", "collecting", "awaiting", "resolved"} =>
           unification = "none" /\ collected = NotCollected
    /\ stage \in {"awaiting", "resolved", "building", "generated"} =>
           invocation \in DOMAIN Invocations
    /\ stage = "building" => jobs \in Seq(PossibleJobs) /\ CollectedInv
    /\ stage \in {"building", "generated"} => \A u \in units : UnitClosed(u)

LEMMA SameJob ==
  ASSUME NEW j, NEW k, j.member = k.member, j.kind = k.kind
  PROVE  FlagsOfUnit(j) = FlagsOfUnit(k)
BY DEF FlagsOfUnit

LEMMA HeadIsPossible ==
  ASSUME decided \subseteq Package, UnitsInv, stage = "building", jobs # <<>>
  PROVE  /\ Head(jobs) \in PossibleJobs /\ Tail(jobs) \in Seq(PossibleJobs)
         /\ Head(jobs).member \in Package /\ Head(jobs).member # NoPackage
<1>1. Head(jobs) \in PossibleJobs /\ Tail(jobs) \in Seq(PossibleJobs)
  BY DEF UnitsInv
<1>2. Head(jobs).member \in Package
  BY <1>1, JobIsPossible DEF UnitsInv
<1>3. QED
  BY <1>1, <1>2, ConstantsAssumption

(* What does not touch the units keeps what is said of them.               *)
LEMMA UnitsIdle ==
  ASSUME UnitsInv, ProtocolInv, [WorkspaceNext]_allVars,
         UNCHANGED <<buildVars, unificationVars>>
  PROVE  UnitsInv'
<1>1. CASE stage \in {"resolving", "failed"}
  BY <1>1 DEF UnitsInv, buildVars, unificationVars
<1>2. CASE stage \notin {"resolving", "failed"}
  <2>1. main' = "ok" /\ decided' = decided
    BY <1>2, DecidedStays DEF UnitsInv
  <2>2. /\ UNCHANGED <<stage, invocation, jobs, collected, units>>
        /\ UNCHANGED <<unification, seeds, dependants>>
    BY DEF buildVars, unificationVars
  <2>3. CollectedInv => CollectedInv'
    BY <2>1, <2>2, UnitsStay DEF CollectedInv
  <2>4. PossibleJobs' = PossibleJobs /\ \A u : UnitClosed(u)' = UnitClosed(u)
    BY <2>1, <2>2, UnitsStay
  <2>5. QED
    BY <2>1, <2>2, <2>3, <2>4 DEF UnitsInv
<1>3. QED
  BY <1>1, <1>2

LEMMA StartJobKeeps ==
  ASSUME UnitsInv, ProtocolInv, StartJob PROVE UnitsInv'
<1>1. decided' = decided /\ main' = main /\ UNCHANGED <<stage, invocation, jobs, units>>
  BY DEF StartJob, vars, mainVars, solverVars
<1>2. /\ stage = "building" /\ jobs # <<>> /\ collected' = NotCollected
      /\ seeds' = Seeds(Head(jobs).member, Head(jobs).kind)
      /\ dependants' = Dependants(Head(jobs).member, Head(jobs).kind)
  BY DEF StartJob, StartUnification
<1>3. CollectedInv'
  BY <1>1, <1>2, UnitsStay DEF CollectedInv
<1>4. PossibleJobs' = PossibleJobs /\ \A u : UnitClosed(u)' = UnitClosed(u)
  BY <1>1, UnitsStay
<1>5. QED
  BY <1>1, <1>2, <1>3, <1>4 DEF UnitsInv

LEMMA UnifyKeeps ==
  ASSUME UnitsInv, ProtocolInv, Unify PROVE UnitsInv'
<1>1. /\ decided' = decided /\ main' = main
      /\ UNCHANGED <<stage, invocation, jobs, units, collected>>
  BY DEF Unify, vars, mainVars, solverVars, buildVars
<1>2. /\ stage = "building" /\ unification = "running"
      /\ seeds' = seeds /\ dependants' = dependants
  BY DEF Unify, Visit, EndUnification
<1>3. CollectedInv => CollectedInv'
  BY <1>1, <1>2, UnitsStay DEF CollectedInv
<1>4. PossibleJobs' = PossibleJobs /\ \A u : UnitClosed(u)' = UnitClosed(u)
  BY <1>1, UnitsStay
<1>5. QED
  BY <1>1, <1>2, <1>3, <1>4 DEF UnitsInv

LEMMA PullKeeps ==
  ASSUME UnitsInv, ProtocolInv, FeaturesUnified, Pull PROVE UnitsInv'
<1> DEFINE job == Head(jobs)
<1>1. decided' = decided /\ main' = main /\ UNCHANGED <<stage, invocation, jobs, units>>
  BY DEF Pull, vars, mainVars, solverVars
<1>2. /\ stage = "building" /\ jobs # <<>> /\ unification = "done"
      /\ collected = NotCollected
      /\ collected' = [member |-> job.member, kind |-> job.kind, flags |-> enabled]
  BY DEF Pull
<1>3. decided \subseteq Package /\ invocation \in DOMAIN Invocations
  BY <1>2 DEF ProtocolInv, TypeOK, UnitsInv
<1>4. job.member \in Package
  BY <1>2, <1>3, HeadIsPossible
<1>5. seeds = Seeds(job.member, job.kind) /\ dependants = Dependants(job.member, job.kind)
  BY <1>2 DEF UnitsInv, CollectedInv
<1>6. enabled = FlagsOfUnit(job)
  BY <1>2, <1>3, <1>4, <1>5, EnabledIsReachable
<1>7. collected'.flags = FlagsOfUnit(job) /\ FlagsOfUnit(job) = FlagsOfUnit(collected')
  BY <1>2, <1>6, SameJob
<1>8. collected' # NotCollected
  BY <1>2, <1>3, HeadIsPossible DEF NotCollected
<1>9. \A j : FlagsOfUnit(j)' = FlagsOfUnit(j)
  BY <1>1, UnitsStay
<1>10. CollectedInv'
  BY <1>7, <1>8, <1>9 DEF CollectedInv
<1>11. PossibleJobs' = PossibleJobs /\ \A u : UnitClosed(u)' = UnitClosed(u)
  BY <1>1, UnitsStay
<1>12. QED
  BY <1>1, <1>2, <1>10, <1>11 DEF UnitsInv

LEMMA IdsOfPlugins ==
  ASSUME NEW job, NEW flags
  PROVE  {q.id : q \in Unit(job, flags).plugins} = PluginsOf(job.member, job.kind)
<1> DEFINE allowed == FilterSubtrees(job.kind, manifests[job.member].allow)
           Loaded(p) == [id |-> p, builtin |-> manifests[p].builtin,
                         allowed |-> p \in allowed, prebuilt |-> FALSE]
<1>1. Unit(job, flags).plugins = {Loaded(p) : p \in PluginsOf(job.member, job.kind)}
  BY DEF Unit
<1>2. \A p : Loaded(p).id = p
  OBVIOUS
<1> HIDE DEF Loaded
<1>3. QED
  BY <1>1, <1>2

LEMMA BuildUnitKeeps ==
  ASSUME UnitsInv, ProtocolInv, BuildUnit PROVE UnitsInv'
<1> DEFINE job == Head(jobs)
           new == Unit(job, collected.flags)
<1>1. /\ decided' = decided /\ main' = main
      /\ UNCHANGED <<stage, invocation, collected, unification, seeds, dependants>>
  BY DEF BuildUnit, vars, mainVars, solverVars, unificationVars
<1>2. /\ stage = "building" /\ jobs # <<>> /\ IsCollected(job) /\ ~UnitFails(job)
      /\ units' = units \cup {new} /\ jobs' = Tail(jobs)
  BY DEF BuildUnit
<1>3. decided \subseteq Package /\ invocation \in DOMAIN Invocations
  BY <1>2 DEF ProtocolInv, TypeOK, UnitsInv
<1>4. job \in PossibleJobs /\ Tail(jobs) \in Seq(PossibleJobs) /\ job.member # NoPackage
  BY <1>2, <1>3, HeadIsPossible
<1>5. collected # NotCollected
  BY <1>2, <1>4 DEF IsCollected, NotCollected
<1>6. collected.flags = FlagsOfUnit(job)
  <2>1. collected.flags = FlagsOfUnit(collected)
    BY <1>2, <1>5 DEF UnitsInv, CollectedInv
  <2>2. QED
    BY <1>2, <2>1, SameJob DEF IsCollected
<1>7. UnitClosed(new)
  <2>1. /\ new.job = job /\ new.components = Components(job, FlagsOfUnit(job))
        /\ new.deps = Unit(job, FlagsOfUnit(job)).deps
    BY <1>6 DEF Unit
  <2>2. {q.id : q \in new.plugins} = PluginsOf(job.member, job.kind)
    BY IdsOfPlugins
  <2> HIDE DEF new
  <2>3. QED
    BY <1>2, <1>3, <1>4, <2>1, <2>2, UnitIsClosed
<1>8. CollectedInv'
  <2>1. collected.flags = FlagsOfUnit(collected)
    BY <1>2, <1>5 DEF UnitsInv, CollectedInv
  <2>2. FlagsOfUnit(collected)' = FlagsOfUnit(collected)
    BY <1>1, UnitsStay
  <2>3. QED
    BY <1>1, <1>5, <2>1, <2>2 DEF CollectedInv
<1>9. PossibleJobs' = PossibleJobs /\ \A u : UnitClosed(u)' = UnitClosed(u)
  BY <1>1, UnitsStay
<1> HIDE DEF new
<1>10. QED
  BY <1>1, <1>2, <1>4, <1>7, <1>8, <1>9 DEF UnitsInv

LEMMA FinishUnitsKeeps ==
  ASSUME UnitsInv, PrebuiltInv, FinishUnits PROVE UnitsInv'
<1>1. decided' = decided /\ main' = main /\ invocation' = invocation
  BY DEF FinishUnits, vars, mainVars, solverVars
<1>2. /\ stage = "building" /\ stage' = "generated"
      /\ units' = WithPrebuilt(units, macros')
  BY DEF FinishUnits
<1>3. \A u \in units' : UnitClosed(u)
  BY <1>2, TellingKeepsClosed DEF UnitsInv, PrebuiltInv
<1>4. \A u : UnitClosed(u)' = UnitClosed(u)
  BY <1>1, UnitsStay
<1>5. QED
  BY <1>1, <1>2, <1>3, <1>4 DEF UnitsInv

LEMMA UnitsBegin ==
  ASSUME UnitsInv, ProtocolInv, PrebuiltInv,
         SpawnWriter \/ Collect \/ AwaitLockfile \/ Generate \/ Fail
  PROVE  UnitsInv'
<1>1. CASE SpawnWriter
  BY <1>1 DEF SpawnWriter, UnitsInv, vars, mainVars, unificationVars
<1>2. CASE Collect
  BY <1>2 DEF Collect, UnitsInv, vars, mainVars, unificationVars
<1>3. CASE AwaitLockfile
  BY <1>3 DEF AwaitLockfile, UnitsInv, vars, mainVars, unificationVars
<1>4. CASE Fail
  BY <1>4 DEF Fail, UnitsInv, vars, mainVars, unificationVars
<1>5. CASE Generate
  <2>1. /\ decided' = decided /\ main' = main
        /\ UNCHANGED <<invocation, collected, units, unification>>
        /\ stage = "resolved" /\ stage' = "building"
    BY <1>5 DEF Generate, vars, mainVars, solverVars, unificationVars
  <2>2. main = "ok" /\ unification = "none" /\ collected = NotCollected
        /\ invocation \in DOMAIN Invocations /\ units = {}
    BY <2>1 DEF UnitsInv, PrebuiltInv
  <2>3. decided \subseteq Package
    BY DEF ProtocolInv, TypeOK
  <2>4. jobs' \in Seq(PossibleJobs)
    BY <1>5, <2>2, <2>3, GeneratedArePossible
  <2>5. PossibleJobs' = PossibleJobs
    BY <2>1, UnitsStay
  <2>6. CollectedInv'
    BY <2>1, <2>2 DEF CollectedInv, NotCollected
  <2>7. QED
    BY <2>1, <2>2, <2>4, <2>5, <2>6 DEF UnitsInv
<1>6. QED
  BY <1>1, <1>2, <1>3, <1>4, <1>5

LEMMA UnitsNext ==
  /\ ProtocolInv /\ FeaturesUnified /\ PrebuiltInv /\ UnitsInv
  /\ [WorkspaceNext]_allVars
  => UnitsInv'
<1> SUFFICES ASSUME ProtocolInv, FeaturesUnified, PrebuiltInv, UnitsInv,
                    [WorkspaceNext]_allVars
             PROVE  UnitsInv'
  OBVIOUS
<1>1. CASE UNCHANGED <<buildVars, unificationVars>>
  BY <1>1, UnitsIdle
<1>2. CASE \E c \in Command : WriteLockfile(c) \/ Cut(c)
  BY <1>1, <1>2 DEF WriteLockfile, Truncate, LockLockfile, Write, WriteFails, Cut
<1>3. CASE Read \/ ReadFails \/ OtherResolves \/ Rest \/ UNCHANGED allVars
  BY <1>1, <1>3 DEF Read, ReadFails, OtherResolves, Rest, allVars
<1>4. CASE ResolveTask \/ ResolveThread \/ \E k \in Key : ResolveQuery(k)
  BY <1>1, <1>4 DEF ResolveTask, ResolveThread, ResolveQuery, Aside
<1>5. CASE BuildStep
  BY <1>5, UnitsBegin, StartJobKeeps, UnifyKeeps, PullKeeps, BuildUnitKeeps,
     FinishUnitsKeeps DEF BuildStep
<1>6. QED
  BY <1>2, <1>3, <1>4, <1>5 DEF WorkspaceNext

(* Every generated unit has all that its components refer to, but for a    *)
(* plugin that is re-exported by a package whose tests need it, and its    *)
(* components have the features that belong to a unit of that kind.        *)
THEOREM UnitsAreClosed == WorkspaceSpec => []UnitsClosed
<1>1. WorkspaceInit => UnitsInv
  BY DEF WorkspaceInit, UnificationInit, UnitsInv
<1>2. UnitsInv => UnitsClosed
  BY DEF UnitsInv, UnitsClosed, UnitClosed
<1>3. WorkspaceInit => PrebuiltInv
  BY DEF WorkspaceInit, PrebuiltInv, PrebuiltAgreed
<1>4. QED
  BY <1>1, <1>2, <1>3, UnitsNext, PrebuiltNext, ImplementsProtocol,
     ProtocolAlways, FeaturesAreLeastClosed, PTL DEF WorkspaceSpec
=============================================================================
