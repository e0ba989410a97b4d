-------------------------- MODULE ResolverProtocol --------------------------
(***************************************************************************)
(* How scarb resolves dependencies (src/scarb/src/resolver): the function  *)
(* `resolve` runs as an asynchronous task, PubGrub on a thread of its own. *)
(* They share a OnceMap of registry answers; the thread asks for metadata  *)
(* through a bounded channel, blocks on the map until an answer is there,  *)
(* and sends the solution through a oneshot channel.                       *)
(*                                                                         *)
(* The PubGrub algorithm itself is left open: the thread decides packages  *)
(* in any order, and may give up wherever no version fits.  What is kept   *)
(* is which keys it registers and which ones it waits for, and when.       *)
(*                                                                         *)
(* A key is a dependency (name, source, version requirement) as the map    *)
(* sees it, after patches were applied.  `Answer` says which package the   *)
(* registry finds for it.  The OnceMap is the one of OnceMapSpec.          *)
(***************************************************************************)
EXTENDS Naturals, Sequences

CONSTANTS
    Package,       \* packages, by name and source
    Root,          \* the packages of the workspace
    NoCore,        \* packages with `no-core = true`
    Key,           \* dependencies
    CoreKey,       \* the implicit dependency on `core`
    Dependencies,  \* of each package: the keys of its own dependencies
    TestOnly,      \* keys that only tests depend on
    RangeKeys,     \* of each package: the keys PubGrub may ask it under
    Locked,        \* of each key: the key a whole lockfile turns it into
    Rewritten,     \* of each package and key: path sources seen from git
    Answer,        \* of each key: the package of the matching summary
    NoPackage,
    NoKey,
    MayFail,       \* keys whose query may fail
    MayBeEmpty,    \* keys whose query may find nothing after all
    Capacity       \* of the request channel

ASSUME ConstantsAssumption ==
    /\ Root \subseteq Package /\ NoCore \subseteq Package
    /\ CoreKey \in Key /\ TestOnly \subseteq Key
    /\ MayFail \subseteq Key /\ MayBeEmpty \subseteq Key
    /\ Dependencies \in [Package -> SUBSET Key]
    /\ RangeKeys \in [Package -> SUBSET Key]
    /\ Locked \in [Key -> Key]
    /\ Rewritten \in [Package -> [Key -> Key]]
    /\ NoPackage \notin Package /\ NoKey \notin Key
    /\ Answer \in [Key -> Package \cup {NoPackage}]
    /\ Capacity \in Nat \ {0}

VARIABLES
    items,      \* the OnceMap: "absent", "running", or answered with
                \* summaries ("filled") or with none ("empty")
    chan,       \* the request channel
    inflight,   \* the keys being queried
    main,       \* the progress of the command up to the end of `resolve`
    locked,     \* what the lockfile that was read turns each key into
    todo,       \* root dependencies `resolve` still has to register
    rootSend,   \* the key `resolve` has registered and is sending
    fetch,      \* the future `fetch`: "running" or "done"
    thread,     \* the progress of the resolver thread
    sends,      \* keys the thread still has to register
    threadSend, \* the key the thread has registered and is sending
    waits,      \* dependencies whose summaries it still has to wait for
    frontier,   \* packages that are required and not yet decided
    decided,    \* packages a version was chosen for
    current,    \* the package the thread is at
    range,      \* the key of the range it is required under
    solution    \* the oneshot channel: "none", "ok", "err" or "closed"

vars == <<items, chan, inflight, main, locked, todo, rootSend, fetch, thread,
          sends, threadSend, waits, frontier, decided, current, range,
          solution>>

mainVars == <<inflight, main, locked, todo, rootSend, fetch>>
solverVars == <<sends, threadSend, waits, frontier, decided, current, range>>

FullDependencies(p) ==
    Dependencies[p] \cup (IF p \in NoCore THEN {} ELSE {CoreKey})

(* An empty lockfile, or `scarb update`: nothing is locked.                *)
Unlocked == [k \in Key |-> k]

(* The keys `resolve` registers for the packages of the workspace.         *)
RootKeys(lock) == {lock[k] : k \in UNION {FullDependencies(p) : p \in Root}}

(* Mutant of RequestedKeys: only the dependency as declared is requested.  *)
RequestedKeys_Declared(p) == {locked[k] : k \in Dependencies[p]}

(* request_dependencies: both forms of every dependency, locked.           *)
RequestedKeys(p) ==
    UNION {{locked[k], locked[Rewritten[p][k]]} : k \in Dependencies[p]}

(* get_dependencies waits for `key`, and if the registry finds no package  *)
(* for it, for `original`.                                                 *)
WaitedDependencies(p) ==
    {[key |-> locked[Rewritten[p][k]], original |-> k] :
        k \in {d \in FullDependencies(p) : p \in Root \/ d \notin TestOnly}}

Waited == [key : Key, original : Key]

Answered(k) == items[k] \in {"filled", "empty"}

(* The package that the summaries of a key name.                           *)
Found(k) == IF items[k] = "filled" THEN Answer[k] ELSE NoPackage

TypeOK ==
    /\ items \in [Key -> {"absent", "running", "filled", "empty"}]
    /\ chan \in Seq(Key) /\ Len(chan) <= Capacity
    /\ inflight \subseteq Key
    /\ main \in {"starting", "registering", "joining", "ok", "err"}
    /\ locked \in [Key -> Key]
    /\ todo \subseteq Key
    /\ rootSend \in Key \cup {NoKey}
    /\ fetch \in {"running", "done"}
    /\ thread \in {"unborn", "started", "solving", "ranking", "requesting",
                   "waiting", "solved", "failed", "finished", "panicked"}
    /\ sends \subseteq Key
    /\ threadSend \in Key \cup {NoKey}
    /\ waits \subseteq Waited
    /\ frontier \subseteq Package /\ decided \subseteq Package
    /\ current \in Package \cup {NoPackage}
    /\ range \in Key \cup {NoKey}
    /\ solution \in {"none", "ok", "err", "closed"}

Init ==
    /\ items = [k \in Key |-> "absent"]
    /\ chan = <<>> /\ inflight = {}
    /\ main = "starting" /\ locked = Unlocked
    /\ todo = {} /\ rootSend = NoKey
    /\ fetch = "running"
    /\ thread = "unborn" /\ sends = {} /\ threadSend = NoKey /\ waits = {}
    /\ frontier = {} /\ decided = {} /\ current = NoPackage /\ range = NoKey
    /\ solution = "none"

-----------------------------------------------------------------------------
(* The asynchronous task                                                   *)

(* read_lockfile, and `resolve` starts.                                    *)
ReadLockfile(lock) ==
    /\ main = "starting"
    /\ main' = "registering"
    /\ locked' = lock
    /\ todo' = RootKeys(lock)
    /\ UNCHANGED <<items, chan, inflight, rootSend, fetch, thread, solverVars,
                   solution>>

(* The lockfile is not one, and the command ends.                          *)
ReadLockfileFails ==
    /\ main = "starting"
    /\ main' = "err"
    /\ UNCHANGED <<items, chan, inflight, locked, todo, rootSend, fetch,
                   thread, solverVars, solution>>

RegisterRoot(k) ==
    /\ main = "registering" /\ rootSend = NoKey
    /\ k \in todo
    /\ todo' = todo \ {k}
    /\ IF items[k] = "absent"
       THEN items' = [items EXCEPT ![k] = "running"] /\ rootSend' = k
       ELSE UNCHANGED <<items, rootSend>>
    /\ UNCHANGED <<chan, inflight, main, locked, fetch, thread, solverVars,
                   solution>>

(* send().await: nobody receives before try_join.                          *)
SendRoot ==
    /\ main = "registering" /\ rootSend # NoKey
    /\ Len(chan) < Capacity
    /\ chan' = Append(chan, rootSend)
    /\ rootSend' = NoKey
    /\ UNCHANGED <<items, inflight, main, locked, todo, fetch, thread,
                   solverVars, solution>>

SpawnThread ==
    /\ main = "registering" /\ rootSend = NoKey /\ todo = {}
    /\ main' = "joining"
    /\ thread' = "started"
    /\ UNCHANGED <<items, chan, inflight, locked, todo, rootSend, fetch,
                   solverVars, solution>>

(* fetch: requests are taken from the channel as they come, and all the    *)
(* queries run together.                                                   *)
Receive ==
    /\ main = "joining" /\ chan # <<>>
    /\ inflight' = inflight \cup {Head(chan)}
    /\ chan' = Tail(chan)
    /\ UNCHANGED <<items, main, locked, todo, rootSend, fetch, thread,
                   solverVars, solution>>

QuerySucceeds(k) ==
    /\ main = "joining" /\ k \in inflight
    /\ \/ items' = [items EXCEPT ![k] = "filled"]
       \/ k \in MayBeEmpty /\ items' = [items EXCEPT ![k] = "empty"]
    /\ inflight' = inflight \ {k}
    /\ UNCHANGED <<chan, main, locked, todo, rootSend, fetch, thread,
                   solverVars, solution>>

(* resolve returns: the receiver of the requests, the queries in flight    *)
(* and the receiver of the solution are dropped.                           *)
Return(result) ==
    /\ main' = result
    /\ fetch' = "done"
    /\ inflight' = {}
    /\ chan' = <<>>
    /\ UNCHANGED <<items, locked, todo, rootSend, thread, solverVars,
                   solution>>

(* `response?` ends fetch, and try_join returns its error at once.         *)
QueryFails(k) ==
    /\ main = "joining" /\ k \in inflight /\ k \in MayFail
    /\ Return("err")

(* Mutant of SinkDropped: `resolve` keeps a clone of the sender.           *)
SinkDropped_Never == thread = "unborn"

SinkDropped == thread \in {"solved", "failed", "finished", "panicked"}

(* The thread has dropped the sender and all the answers are in.           *)
FetchEnds ==
    /\ main = "joining" /\ fetch = "running"
    /\ SinkDropped /\ chan = <<>> /\ inflight = {}
    /\ fetch' = "done"
    /\ UNCHANGED <<items, chan, inflight, main, locked, todo, rootSend, thread,
                   solverVars, solution>>

(* Mutant of JoinSolution: whichever future is first decides.              *)
JoinSolution_First ==
    /\ main = "joining"
    /\ \/ solution \in {"err", "closed"} /\ Return("err")
       \/ solution = "ok" /\ Return("ok")

(* try_join: an error of the solver returns at once, a solution only when  *)
(* fetch has ended; check_checksums may still refuse it.                   *)
JoinSolution ==
    /\ main = "joining"
    /\ \/ solution \in {"err", "closed"} /\ Return("err")
       \/ solution = "ok" /\ fetch = "done" /\ Return("ok")
       \/ solution = "ok" /\ fetch = "done" /\ Return("err")

-----------------------------------------------------------------------------
(* The resolver thread                                                     *)

Start ==
    /\ thread = "started"
    /\ thread' = IF Root = {} THEN "failed" ELSE "solving"
    /\ frontier' = Root
    /\ UNCHANGED <<items, chan, mainVars, sends, threadSend, waits, decided,
                   current, range, solution>>

(* PubGrub ranks a package that is required under some range.              *)
Prioritize(p, k) ==
    /\ thread = "solving"
    /\ p \in frontier /\ k \in RangeKeys[p]
    /\ current' = p /\ range' = k /\ sends' = {k}
    /\ thread' = "ranking"
    /\ UNCHANGED <<items, chan, mainVars, threadSend, waits, frontier,
                   decided, solution>>

(* register, and blocking_send if the key is new.                          *)
Register(k) ==
    /\ thread \in {"ranking", "requesting"} /\ threadSend = NoKey
    /\ k \in sends
    /\ sends' = sends \ {k}
    /\ IF items[k] = "absent"
       THEN items' = [items EXCEPT ![k] = "running"] /\ threadSend' = k
       ELSE UNCHANGED <<items, threadSend>>
    /\ UNCHANGED <<chan, mainVars, thread, waits, frontier, decided, current,
                   range, solution>>

Send ==
    /\ threadSend # NoKey
    /\ main = "joining" /\ Len(chan) < Capacity
    /\ chan' = Append(chan, threadSend)
    /\ threadSend' = NoKey
    /\ UNCHANGED <<items, mainVars, thread, sends, waits, frontier, decided,
                   current, range, solution>>

(* A failed unwrap: the sink and the sender of the solution are dropped.   *)
Panic ==
    /\ thread' = "panicked"
    /\ threadSend' = NoKey
    /\ solution' = "closed"
    /\ UNCHANGED <<items, chan, mainVars, sends, waits, frontier, decided,
                   current, range>>

(* blocking_send(..).unwrap(): the receiver is gone.                       *)
SendPanics == threadSend # NoKey /\ main \in {"ok", "err"} /\ Panic

Idle == sends = {} /\ threadSend = NoKey

(* choose_version waits for the summaries of the range.  Without a version *)
(* in the range PubGrub backtracks or gives up.                            *)
ChooseVersion ==
    /\ thread = "ranking" /\ Idle
    /\ Answered(range)
    /\ frontier' = frontier \ {current}
    /\ IF Found(range) = current
       THEN /\ decided' = decided \cup {current}
            /\ sends' = RequestedKeys(current)
            /\ thread' = "requesting"
       ELSE /\ thread' \in {"solving", "failed"}
            /\ UNCHANGED <<decided, sends>>
    /\ UNCHANGED <<items, chan, mainVars, threadSend, waits, current, range,
                   solution>>

(* get_dependencies, once the requests are out.                            *)
StartWaiting ==
    /\ thread = "requesting" /\ Idle
    /\ waits' = WaitedDependencies(current)
    /\ thread' = "waiting"
    /\ UNCHANGED <<items, chan, mainVars, sends, threadSend, frontier,
                   decided, current, range, solution>>

(* The key whose summaries decide about a dependency.                      *)
UsedKey(dep) == IF Answered(dep.key) /\ Found(dep.key) = NoPackage
                THEN dep.original ELSE dep.key

(* Its summaries are there: the package they name is required.             *)
FindDependency(dep) ==
    /\ thread = "waiting" /\ dep \in waits
    /\ Answered(UsedKey(dep))
    /\ waits' = waits \ {dep}
    /\ IF Found(UsedKey(dep)) = NoPackage
       THEN thread' = "failed" /\ UNCHANGED frontier
       ELSE /\ frontier' = frontier \cup ({Found(UsedKey(dep))} \ decided)
            /\ UNCHANGED thread
    /\ UNCHANGED <<items, chan, mainVars, sends, threadSend, decided,
                   current, range, solution>>

(* wait_blocking(..).unwrap(): nobody registered the key.                  *)
WaitPanics(dep) ==
    /\ thread = "waiting" /\ dep \in waits
    /\ items[UsedKey(dep)] = "absent"
    /\ Panic

HaveDependencies ==
    /\ thread = "waiting" /\ waits = {}
    /\ thread' = "solving"
    /\ UNCHANGED <<items, chan, mainVars, solverVars, solution>>

(* Everything is decided, or PubGrub finds the constraints unsatisfiable.  *)
(* The closure ends and drops the provider with its sender.                *)
Finish ==
    /\ thread = "solving"
    /\ \/ thread' = "solved" /\ frontier = {}
       \/ thread' = "failed" /\ decided # {}
    /\ UNCHANGED <<items, chan, mainVars, solverVars, solution>>

(* solution_tx.send(..); validate_solution and build_resolve may refuse.   *)
SendSolution ==
    /\ thread \in {"solved", "failed"} /\ main = "joining"
    /\ solution' = "err" \/ (solution' = "ok" /\ thread = "solved")
    /\ thread' = "finished"
    /\ UNCHANGED <<items, chan, mainVars, solverVars>>

(* solution_tx.send(..).unwrap(): the receiver is gone.                    *)
SolutionPanics ==
    thread \in {"solved", "failed"} /\ main \in {"ok", "err"} /\ Panic

-----------------------------------------------------------------------------
ReadStep ==
    \/ \E lock \in {Locked, Unlocked} : ReadLockfile(lock)
    \/ ReadLockfileFails

MainStep ==
    \/ \E k \in Key : RegisterRoot(k)
    \/ SendRoot \/ SpawnThread \/ Receive \/ FetchEnds \/ JoinSolution

QueryStep(k) == QuerySucceeds(k) \/ QueryFails(k)

ThreadStep ==
    \/ Start
    \/ \E p \in Package, k \in Key : Prioritize(p, k)
    \/ \E k \in Key : Register(k)
    \/ Send \/ SendPanics
    \/ ChooseVersion \/ StartWaiting
    \/ \E dep \in Waited : FindDependency(dep) \/ WaitPanics(dep)
    \/ HaveDependencies \/ Finish \/ SendSolution \/ SolutionPanics

(* `resolve` has returned, and scarb goes on; the thread may be blocked.   *)
Over == main \in {"ok", "err"} /\ UNCHANGED vars

Next ==
    ReadStep \/ MainStep \/ (\E k \in Key : QueryStep(k)) \/ ThreadStep \/ Over

Spec == Init /\ [][Next]_vars

(* The task is polled, the thread runs, and every query ends.              *)
FairSpec == /\ Spec
            /\ WF_vars(ReadStep \/ MainStep)
            /\ WF_vars(ThreadStep)
            /\ \A k \in Key : WF_vars(QueryStep(k))

-----------------------------------------------------------------------------
Elements(s) == {s[i] : i \in DOMAIN s}

(* A key that somebody registered and whose answer is missing is on its    *)
(* way: being sent, in the channel or queried.  A waiter that waits for it *)
(* does not wait for nothing, as long as `resolve` has not returned.       *)
RequestsOnTheWay ==
    main \in {"registering", "joining"} =>
        \A k \in Key : items[k] = "running" =>
            \/ k \in {rootSend, threadSend}
            \/ k \in Elements(chan)
            \/ k \in inflight

(* No key is queried twice: a request is in one place only, and its answer *)
(* is still missing.                                                       *)
RequestedOnce ==
    /\ \A i, j \in DOMAIN chan : chan[i] = chan[j] => i = j
    /\ Elements(chan) \cap inflight = {}
    /\ \A k \in Elements(chan) \cup inflight :
           items[k] = "running" /\ k \notin {rootSend, threadSend}
    /\ rootSend # NoKey => rootSend # threadSend

(* `resolve` returns a solution only when every request was answered.      *)
OkMeansAnswered == main = "ok" => \A k \in Key : items[k] # "running"

(* `resolve` returns: neither side waits for the other forever.            *)
Resolves == <>(main \in {"ok", "err"})

(* The unwraps of the resolver thread hold: what it waits for has been     *)
(* registered, and nobody hangs up on it (provider.rs:206, :222, :267 and  *)
(* mod.rs:183), unless `resolve` has given up or a query found nothing.    *)
ThreadNeverPanics ==
    thread = "panicked" => main = "err" \/ \E k \in Key : items[k] = "empty"

(* The resolver thread has ended, or `resolve` has given up on it.         *)
ThreadEnded == thread \in {"finished", "panicked"} \/ main = "err"
=============================================================================
