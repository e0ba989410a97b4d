-------------------------- MODULE WorkspaceResolve --------------------------
(***************************************************************************)
(* A command that resolves the workspace and generates its compilation     *)
(* units (resolve_workspace_with_opts and generate_compilation_units of    *)
(* src/scarb/src/ops/resolve.rs), next to another scarb command in the     *)
(* same workspace.  They share Scarb.lock (ops/lockfile.rs): the lockfile  *)
(* is read under a shared lock; a task writes the new one while packages   *)
(* are downloaded, and truncates it before it asks for the exclusive lock. *)
(*                                                                         *)
(* A lockfile is `kept` (the versions locked at the start), `fresh` (what  *)
(* a resolution without locks finds today), empty, or damaged: cut short,  *)
(* or one over the tail of the other.                                      *)
(***************************************************************************)
EXTENDS CompilationUnits

VARIABLES
    lockfile,     \* the contents of Scarb.lock
    exclusive,    \* the command that holds its exclusive lock
    writer,       \* of each command: its progress in writing the lockfile
    rendering,    \* of each command: what it resolved, as a lockfile
    unlocked,     \* history: a reason for versions to change has come up
    torn,         \* history: a reason for the file to be damaged has
    stage,        \* the progress of the command
    jobs,         \* the units still to be generated
    collected,    \* PackageSolutionCollector::collected
    units,        \* the units generated so far
    macros        \* the procedural macro units, by package

lockVars == <<lockfile, exclusive, writer, rendering, unlocked, torn>>
buildVars == <<stage, invocation, jobs, collected, units, macros>>
allVars == <<vars, unificationVars, lockVars, buildVars>>

Command == {"this", "other"}
NoCommand == "nobody"
NotCollected == [member |-> NoPackage, kind |-> "none", flags |-> {}]

WorkspaceTypeOK ==
    /\ TypeOK /\ UnificationTypeOK
    /\ lockfile \in {"kept", "fresh", "empty", "damaged"}
    /\ exclusive \in Command \cup {NoCommand}
    /\ writer \in [Command -> {"none", "spawned", "truncated", "locked",
                               "done", "failed"}]
    /\ rendering \in [Command -> {"none", "kept", "fresh"}]
    /\ unlocked \in BOOLEAN /\ torn \in BOOLEAN
    /\ stage \in {"resolving", "collecting", "awaiting", "resolved",
                  "building", "generated", "failed"}
    /\ invocation \in DOMAIN Invocations

WorkspaceInit ==
    /\ Init /\ UnificationInit
    /\ lockfile = "kept" /\ exclusive = NoCommand
    /\ writer = [c \in Command |-> "none"]
    /\ rendering = [c \in Command |-> "none"]
    /\ unlocked = FALSE /\ torn = FALSE
    /\ stage = "resolving"
    /\ invocation = CHOOSE i \in DOMAIN Invocations : TRUE
    /\ jobs = <<>> /\ collected = NotCollected /\ units = {}
    /\ macros = [p \in {} |-> FALSE]

-----------------------------------------------------------------------------
(* Scarb.lock                                                              *)

Writing(c) == writer[c] \in {"truncated", "locked"}

(* What read_lockfile makes of the file: all it locks, or nothing.  A      *)
(* damaged one may still be TOML, with fewer packages.                     *)
RenderingRead == IF lockfile = "kept" THEN "kept" ELSE "fresh"

(* Mutant of CanRead: the reader does not ask for the shared lock.         *)
CanRead_Unlocked == TRUE

CanRead == exclusive = NoCommand

(* The moment in which a reader finds an empty lockfile.                   *)
Exposed == lockfile = "empty" /\ \E c \in Command : writer[c] = "truncated"

(* The command reads the lockfile, or is an update that does not look.     *)
Read ==
    /\ main = "starting"
    /\ \/ /\ CanRead
          /\ rendering' = [rendering EXCEPT !["this"] = RenderingRead]
          /\ unlocked' = (unlocked \/ Exposed)
       \/ /\ rendering' = [rendering EXCEPT !["this"] = "fresh"]
          /\ unlocked' = TRUE
    /\ ReadLockfile(IF rendering'["this"] = "kept" THEN Locked ELSE Unlocked)
    /\ UNCHANGED <<lockfile, exclusive, writer, torn, buildVars,
                   unificationVars>>

ReadFails ==
    /\ CanRead /\ lockfile = "damaged"
    /\ ReadLockfileFails
    /\ UNCHANGED <<lockVars, buildVars, unificationVars>>

(* The other command, up to its solution.                                  *)
OtherResolves ==
    /\ writer["other"] = "none"
    /\ writer' = [writer EXCEPT !["other"] = "spawned"]
    /\ \/ /\ CanRead
          /\ rendering' = [rendering EXCEPT !["other"] = RenderingRead]
          /\ unlocked' = (unlocked \/ Exposed)
       \/ /\ rendering' = [rendering EXCEPT !["other"] = "fresh"]
          /\ unlocked' = TRUE
    /\ UNCHANGED <<vars, lockfile, exclusive, torn, buildVars,
                   unificationVars>>

(* write_lockfile: File::create truncates, ...                             *)
Truncate(c) ==
    /\ writer[c] = "spawned"
    /\ writer' = [writer EXCEPT ![c] = "truncated"]
    /\ lockfile' = "empty"
    /\ torn' = (torn \/ \E d \in Command \ {c} : Writing(d))
    /\ UNCHANGED <<vars, exclusive, rendering, unlocked, buildVars,
                   unificationVars>>

(* ... then comes lock_exclusive, ...                                      *)
LockLockfile(c) ==
    /\ writer[c] = "truncated" /\ exclusive = NoCommand
    /\ writer' = [writer EXCEPT ![c] = "locked"]
    /\ exclusive' = c
    /\ UNCHANGED <<vars, lockfile, rendering, unlocked, torn, buildVars,
                   unificationVars>>

(* ... and write_all from the start of whatever the file holds by now.     *)
Write(c) ==
    /\ writer[c] = "locked"
    /\ writer' = [writer EXCEPT ![c] = "done"]
    /\ exclusive' = NoCommand
    /\ lockfile' \in {rendering[c]} \cup
           IF lockfile \in {"empty", rendering[c]} THEN {} ELSE {"damaged"}
    /\ rendering' = [rendering EXCEPT ![c] = "none"]
    /\ UNCHANGED <<vars, unlocked, torn, buildVars, unificationVars>>

(* The file cannot be created, or not be written to the end.               *)
WriteFails(c) ==
    /\ \/ writer[c] = "spawned" /\ UNCHANGED <<lockfile, unlocked, torn>>
       \/ /\ writer[c] = "locked"
          /\ lockfile' \in {lockfile, "damaged"}
          /\ unlocked' = TRUE /\ torn' = TRUE
    /\ writer' = [writer EXCEPT ![c] = "failed"]
    /\ exclusive' = IF exclusive = c THEN NoCommand ELSE exclusive
    /\ rendering' = [rendering EXCEPT ![c] = "none"]
    /\ UNCHANGED <<vars, buildVars, unificationVars>>

(* The process ends while the file is being written: the other command is  *)
(* killed, this one has returned an error and left the task behind.        *)
Cut(c) ==
    /\ Writing(c) /\ (c = "this" => stage = "failed")
    /\ writer' = [writer EXCEPT ![c] = "failed"]
    /\ lockfile' \in {lockfile} \cup
           IF writer[c] = "locked" THEN {"damaged"} ELSE {}
    /\ exclusive' = IF exclusive = c THEN NoCommand ELSE exclusive
    /\ unlocked' = TRUE /\ torn' = TRUE
    /\ rendering' = [rendering EXCEPT ![c] = "none"]
    /\ UNCHANGED <<vars, buildVars, unificationVars>>

WriteLockfile(c) == Truncate(c) \/ LockLockfile(c) \/ Write(c) \/ WriteFails(c)

-----------------------------------------------------------------------------
(* Resolving and collecting packages                                       *)

Aside == UNCHANGED <<lockVars, buildVars, unificationVars>>

ResolveTask == MainStep /\ Aside
ResolveQuery(k) == QueryStep(k) /\ Aside
ResolveThread == ThreadStep /\ Aside

(* resolve returned: the lockfile is written from here on by a task.       *)
SpawnWriter ==
    /\ stage = "resolving" /\ main = "ok"
    /\ stage' = "collecting"
    /\ writer' = [writer EXCEPT !["this"] = "spawned"]
    /\ UNCHANGED <<vars, lockfile, exclusive, rendering, unlocked, torn,
                   invocation, jobs, collected, units, macros, unificationVars>>

(* collect_packages_from_resolve_graph and fetch_cairo_plugin.             *)
Collect ==
    /\ stage = "collecting"
    /\ stage' = "awaiting"
    /\ invocation' \in DOMAIN Invocations
    /\ UNCHANGED <<vars, lockVars, jobs, collected, units, macros,
                   unificationVars>>

(* lockfile.await??                                                        *)
AwaitLockfile ==
    /\ stage = "awaiting" /\ writer["this"] = "done"
    /\ stage' = "resolved"
    /\ UNCHANGED <<vars, lockVars, invocation, jobs, collected, units,
                   macros, unificationVars>>

-----------------------------------------------------------------------------
(* Compilation units                                                       *)

(* generate_compilation_units: plugins have no unit for their own sake.    *)
Generate ==
    /\ stage = "resolved"
    /\ LET members == {p \in Members : ~Plugin(p)}
           order   == SetToSeq(members)
       IN  /\ FeaturesKnown(members)
           /\ jobs' = FlattenSeq([i \in DOMAIN order |-> Jobs(order[i])])
    /\ stage' = "building"
    /\ UNCHANGED <<vars, lockVars, invocation, collected, units, macros,
                   unificationVars>>

(* collect: the graph is traversed once for targets of one kind.           *)
IsCollected(job) ==
    collected.member = job.member /\ collected.kind = job.kind

StartJob ==
    /\ stage = "building" /\ jobs # <<>> /\ ~IsCollected(Head(jobs))
    /\ collected # NotCollected \/ unification = "none"
    /\ LET job == Head(jobs)
       IN  /\ ~CollectFails(job)
           /\ StartUnification(Seeds(job.member, job.kind),
                               Dependants(job.member, job.kind))
    /\ collected' = NotCollected
    /\ UNCHANGED <<vars, lockVars, stage, invocation, jobs, units,
                   macros>>

(* The loop of features_unification.                                       *)
Unify ==
    /\ stage = "building"
    /\ (\E f \in Flag : Visit(f)) \/ EndUnification
    /\ UNCHANGED <<vars, lockVars, buildVars>>

(* The rest of pull_from_graph.                                            *)
Pull ==
    /\ stage = "building" /\ jobs # <<>>
    /\ unification = "done" /\ collected = NotCollected
    /\ ~VersionMismatch(Head(jobs))
    /\ collected' = [member |-> Head(jobs).member, kind |-> Head(jobs).kind,
                     flags |-> enabled]
    /\ UNCHANGED <<vars, lockVars, stage, invocation, jobs, units,
                   macros, unificationVars>>

(* The rest of cairo_compilation_unit_for_target.                          *)
BuildUnit ==
    /\ stage = "building" /\ jobs # <<>> /\ IsCollected(Head(jobs))
    /\ ~UnitFails(Head(jobs))
    /\ units' = units \cup {Unit(Head(jobs), collected.flags)}
    /\ jobs' = Tail(jobs)
    /\ UNCHANGED <<vars, lockVars, stage, invocation, collected, macros,
                   unificationVars>>

(* No two units have one id, as the code asserts: a unit is named by its   *)
(* targets, and no two targets have one kind and name (TargetsAssumption). *)
FinishUnits ==
    /\ stage = "building" /\ jobs = <<>>
    /\ macros' = ProcMacroUnits(units)
    /\ units' = WithPrebuilt(units, macros')
    /\ stage' = "generated"
    /\ UNCHANGED <<vars, lockVars, invocation, jobs, collected,
                   unificationVars>>

(* Every `?` on the way.                                                   *)
Fails ==
    \/ stage = "resolving" /\ main = "err"
    \/ stage = "collecting"
    \/ stage = "awaiting" /\ writer["this"] = "failed"
    \/ stage = "resolved" /\ ~FeaturesKnown({p \in Members : ~Plugin(p)})
    \/ /\ stage = "building" /\ jobs # <<>>
       /\ LET job == Head(jobs)
          IN  \/ ~IsCollected(job) /\ CollectFails(job)
              \/ unification = "failed"
              \/ /\ unification = "done" /\ collected = NotCollected
                 /\ VersionMismatch(job)
              \/ IsCollected(job) /\ UnitFails(job)

Fail ==
    /\ Fails
    /\ stage' = "failed"
    /\ UNCHANGED <<vars, lockVars, invocation, jobs, collected, units,
                   macros, unificationVars>>

-----------------------------------------------------------------------------
BuildStep ==
    \/ SpawnWriter \/ Collect \/ AwaitLockfile \/ Generate
    \/ StartJob \/ Unify \/ Pull \/ BuildUnit \/ FinishUnits \/ Fail

Ended == stage \in {"generated", "failed"}

(* Nothing is left to do for either command.                               *)
Rest == Ended /\ UNCHANGED allVars

WorkspaceNext ==
    \/ Read \/ ReadFails \/ OtherResolves
    \/ \E c \in Command : WriteLockfile(c) \/ Cut(c)
    \/ ResolveTask \/ (\E k \in Key : ResolveQuery(k)) \/ ResolveThread
    \/ BuildStep
    \/ Rest

WorkspaceSpec == WorkspaceInit /\ [][WorkspaceNext]_allVars

(* The tasks are polled, the resolver thread runs, every query ends, and a *)
(* command that has begun to write the lockfile comes to an end.  Of the   *)
(* units only the loop of unification needs fairness.                      *)
WorkspaceFair ==
    /\ WorkspaceSpec
    /\ WF_allVars(Read \/ ReadFails \/ ResolveTask)
    /\ WF_allVars(ResolveThread)
    /\ \A k \in Key : WF_allVars(ResolveQuery(k))
    /\ \A c \in Command : WF_allVars(WriteLockfile(c))
    /\ WF_allVars(stage # "building" /\ BuildStep)
    /\ WF_allVars(Unify)

-----------------------------------------------------------------------------
(* Locked versions stay locked.  Unless somebody asks for an update, reads *)
(* the lockfile in the moment between its truncation and its lock, or      *)
(* stops in the middle of writing it, it holds the versions it held at     *)
(* first, or is being written; and only two commands that write at the     *)
(* same time, or one that stops, damage it (ops/lockfile.rs).  A command   *)
(* that goes on to compile has written what it resolved.                   *)
LocksKept ==
    /\ ~unlocked =>
           \/ lockfile = "kept"
           \/ lockfile = "empty" /\ \E c \in Command : Writing(c)
    /\ lockfile = "damaged" => torn
    /\ stage \in {"resolved", "building", "generated"} =>
           writer["this"] = "done"

(* What unification enables in a unit, from scratch.                       *)
FlagsOfUnit(job) ==
    LET enables == Dependants(job.member, job.kind)
    IN  Reachable(UNION {{f} \X enables[f] : f \in Flag},
                  Seeds(job.member, job.kind))

(* Plugins re-exported by a package that needs them for its tests only.    *)
Strays ==
    {q \in decided : \E p \in decided :
        q \in manifests[p].reexports /\ "normal" \notin EdgeKinds(p, q)}

Closes(u, flags, c) ==
    LET ids     == {d.id : d \in u.components}
        plugins == {q.id : q \in u.plugins}
    IN  /\ u.deps[c.id].libraries \subseteq ids
        /\ u.deps[c.id].plugins \subseteq plugins \cup Strays
        /\ c.id \in decided =>
             \A q \in DependenciesFor(c.id, u.job.kind, c.id = u.job.member) :
                 /\ manifests[q].class = "lib" => q \in ids
                 /\ manifests[q].class = "plugin" => q \in plugins
        /\ c.features = IF c.id = TestPackage(u.job)
                        THEN Selected(u.job.member)
                        ELSE {f[2] : f \in {g \in flags : g[1] = c.id}}
        /\ c.test => /\ u.job.kind = "test"
                     /\ u.job.integration => c.id = TestPackage(u.job)
                     /\ ~u.job.integration => c.id = u.job.member

(* Nothing a unit refers to is missing from it: every library that one of  *)
(* its components depends on is a component, every plugin is loaded.  The  *)
(* one plugin that may be missing is re-exported by a package that needs   *)
(* it for its tests only: package_dependencies looks for it as if that     *)
(* package were the main one, solution_of does not.                        *)
(*                                                                         *)
(* And every component is compiled with the features that unification      *)
(* gives its package in a unit of that kind, whatever was collected for    *)
(* units before, and `test` is set for the main component of tests only.   *)
(* The crate of an integration test has what the command line selects of   *)
(* it, without the features those enable: its features are looked up under *)
(* its new name.                                                           *)
UnitsClosed ==
    stage = "generated" =>
        \A u \in units : LET flags == FlagsOfUnit(u.job)
                         IN  \A c \in u.components : Closes(u, flags, c)

(* A procedural macro is prebuilt for all units that load it or for none,  *)
(* and for one that does not load it prebuilt there is a unit to compile.  *)
PrebuiltAgreed ==
    stage = "generated" => \A u, v \in units :
        \A q \in u.plugins, r \in v.plugins :
            /\ q.id = r.id => q.prebuilt = r.prebuilt
            /\ q.prebuilt => q.allowed /\ opts.loadPrebuilt
            /\ opts.loadMacros /\ ~q.builtin =>
                   q.id \in DOMAIN macros /\ macros[q.id] = q.prebuilt

(* No wait for the lockfile, the channel or an answer lasts forever, and   *)
(* nothing goes round and round: the command gets to its units or fails,   *)
(* the thread of the resolver ends unless `resolve` gives up on it, and so *)
(* does every unification, however features enable each other.  "You need  *)
(* to start a job and call OnceMap::done eventually or other tasks will    *)
(* hang" (once-map/src/lib.rs).                                            *)
CommandEnds ==
    <>[](/\ stage \in {"building", "generated", "failed"}
         /\ ThreadEnded
         /\ unification # "running")
=============================================================================
