---------------------------- MODULE BuildCommand ----------------------------
(***************************************************************************)
(* The commands `scarb build` and `scarb check` (src/scarb/src/ops/        *)
(* compile.rs) around the incremental compilation of a unit: which units   *)
(* are compiled and in what order, the compiler thread of each, the        *)
(* offloader thread that writes artifacts beside it (internal/             *)
(* offloader.rs), post-processing by macros, joining and failing.          *)
(*                                                                         *)
(* Commands of several processes share the target directory.  An artifact  *)
(* is truncated when it is opened and locked afterwards (create_rw), and   *)
(* written through a buffer that is flushed when it is dropped.            *)
(***************************************************************************)
EXTENDS IncrementalBuild, Artifacts

CONSTANTS
    Scenes,      \* what is checked together: a set of scene names
    Commands,    \* the commands of a scene: [op, packages, include, exclude,
                 \* names], names and include empty for no restriction
    Units,       \* the units of the workspace in a scene, a sequence
    MaxCommands, \* bounds the commands of a scene
    Alone,       \* scenes with one command at a time
    MostEdits,   \* bounds the edits of a scene
    Faultless,   \* scenes where nothing fails
    Intended,    \* the contracts whose classes a user of the scene expects
    Main         \* the main component of the Cairo units

ASSUME CommandsAssumption ==
    /\ Commands \in [Scenes -> SUBSET [op : {"build", "check"},
                                       packages : SUBSET STRING,
                                       include : SUBSET STRING,
                                       exclude : SUBSET STRING,
                                       names : SUBSET STRING]]
    /\ MaxCommands \in [Scenes -> Nat] /\ Alone \subseteq Scenes
    /\ MostEdits \in [Scenes -> Nat] /\ Faultless \subseteq Scenes
    /\ Intended \in [Scenes -> SUBSET Contracts]
    /\ Main \in Component
    /\ \A s \in Scenes :
          /\ Units[s] \in Seq(ToSet(Units[s]))
          /\ \A u \in ToSet(Units[s]) :
                u.kind \in {"macro", "lib", "executable", "starknet-contract", "test"}
          \* check_unique_targets (core/workspace.rs:202), for all the members
          /\ \A u, v \in ToSet(Units[s]) :
                u.kind # "macro" /\ u.kind = v.kind /\ u.target = v.target => u = v

VARIABLES
    scene,     \* the scene, for ever the same
    commands,  \* the commands started so far
    step,      \* where the command of each process is
    plan,      \* the units it has still to process, the present one first
    needed,    \* the macros its units need, and whether it builds or checks
    outs,      \* the outputs the compiler has still to produce
    held,      \* the error or the panic with which compile() ended
    queue,     \* the outputs in the channel to the offloader
    writer,    \* the offloader thread: off, running, failed
    open,      \* the output each of the two threads has opened
    program,   \* what the present unit was compiled from, and should be
    clean,     \* history: nothing stale was compiled or written
    built,     \* macros whose shared library is in the target directory
    file,      \* the artifacts
    cut        \* history: artifacts whose last write was cut

driver == <<scene, commands, step, plan, needed, outs, held, queue, writer,
            open, program, clean, built, file, cut>>
allvars == <<vars, driver>>

Thread == {"compiler", "offloader"}
Nobody == [file |-> [target |-> "none", stem |-> <<>>, ext |-> "none"], what |-> <<>>, offload |-> FALSE]
Missing == [state |-> "missing", what |-> <<>>, made |-> Hollow]
Empty == [state |-> "empty", what |-> <<>>, made |-> Hollow]
Torn == [state |-> "torn", what |-> <<>>, made |-> Hollow]
Whole(b, out) == [state |-> "whole", what |-> out.what, made |-> program[b].made]
Unmade == [made |-> Hollow, goal |-> Hollow]
NoMacros == [op |-> "build", macros |-> {}, packages |-> {}]

Unit(b) == Head(plan[b])
Cairo(u) == u.kind # "macro"

CommandInit ==
    /\ Init
    /\ scene \in Scenes
    /\ commands = 0
    /\ step = [b \in Build |-> "off"]
    /\ plan = [b \in Build |-> <<>>]
    /\ needed = [b \in Build |-> NoMacros]
    /\ outs = [b \in Build |-> <<>>]
    /\ held = [b \in Build |-> "none"]
    /\ queue = [b \in Build |-> <<>>]
    /\ writer = [b \in Build |-> "off"]
    /\ open = [b \in Build |-> [t \in Thread |-> Nobody]]
    /\ program = [b \in Build |-> Unmade]
    /\ clean = [b \in Build |-> TRUE]
    /\ built = {}
    /\ file = [f \in {} |-> Missing]
    /\ cut = {}

Now(f) == IF f \in DOMAIN file THEN file[f] ELSE Missing
Become(f, content) ==
    file' = [g \in DOMAIN file \cup {f} |-> IF g = f THEN content ELSE file[g]]

(***************************************************************************)
(* Which units, and in what order.                                         *)
(***************************************************************************)
(* The filter of process(): macros are kept, for Cairo units may need them.*)
Wanted(command, u) ==
    \/ ~Cairo(u)
    \/ /\ u.package \in command.packages
       /\ command.include = {} \/ u.kind \in command.include
       /\ command.names = {} \/ u.target \in command.names
       /\ u.kind \notin command.exclude

(* The units of a sequence that are in a set, in their order.              *)
Filter(units, chosen) ==
    FlattenSeq([i \in 1..Len(units) |-> When(units[i] \in chosen, units[i])])

(* sorted_by_key is stable: macros first.                                  *)
Selected(command) ==
    LET wanted == {u \in ToSet(Units[scene]) : Wanted(command, u)}
    IN  Filter(Units[scene], {u \in wanted : ~Cairo(u)})
            \o Filter(Units[scene], {u \in wanted : Cairo(u)})

(* plugins_required_for_units                                              *)
Required(units) ==
    UNION {units[i].plugins : i \in {j \in 1..Len(units) : Cairo(units[j])}}

(***************************************************************************)
(* A command: one unit after the other, each in a thread of its own.       *)
(***************************************************************************)
Move(b, s) == step' = [step EXCEPT ![b] = s]

(* process() has resolved the workspace and generated the units.           *)
StartCommand(b, command) ==
    /\ step[b] = "off" /\ pc[b] = "off"
    /\ scene \in Alone => \A o \in Build : step[o] = "off"
    /\ commands < MaxCommands[scene] /\ commands' = commands + 1
    /\ Move(b, "next")
    /\ plan' = [plan EXCEPT ![b] = Selected(command)]
    /\ needed' = [needed EXCEPT ![b] = [op |-> command.op,
                                        macros |-> Required(Selected(command)),
                                        packages |-> command.packages]]
    /\ UNCHANGED <<vars, scene, outs, held, queue, writer, open, program,
                   clean, built, file, cut>>

NextUnit(b) == plan' = [plan EXCEPT ![b] = Tail(@)]

(* The command ends: well when no unit is left, otherwise at the first     *)
(* unit that fails or panics.                                              *)
EndCommand(b) ==
    /\ Move(b, "off")
    /\ plan' = [plan EXCEPT ![b] = <<>>]
    /\ needed' = [needed EXCEPT ![b] = NoMacros]
    /\ held' = [held EXCEPT ![b] = "none"]
    /\ outs' = [outs EXCEPT ![b] = <<>>]
    /\ program' = [program EXCEPT ![b] = Unmade]
    /\ clean' = [clean EXCEPT ![b] = TRUE]

Succeed(b) ==
    /\ step[b] = "next" /\ plan[b] = <<>>
    /\ EndCommand(b)
    /\ UNCHANGED <<vars, scene, commands, queue, writer, open, built,
                   file, cut>>

(* compile_units passes over macros that no unit needs and nobody asked    *)
(* for; compile_unit_inner has nothing to do for those with a library.     *)
Skipped(b, u) ==
    IF needed[b].op = "build"
    THEN u.prebuilt \/ u.package \notin needed[b].macros \cup needed[b].packages
    ELSE u.prebuilt /\ u.package \in needed[b].macros

AtMacro(b) == step[b] = "next" /\ plan[b] # <<>> /\ ~Cairo(Unit(b))

SkipMacro(b) ==
    /\ AtMacro(b) /\ Skipped(b, Unit(b))
    /\ NextUnit(b)
    /\ UNCHANGED <<vars, scene, commands, step, needed, outs, held, queue,
                   writer, open, program, clean, built, file, cut>>

(* Cargo builds the library, but for a macro that check_units only checks. *)
CompileMacro(b) ==
    /\ AtMacro(b) /\ ~Skipped(b, Unit(b))
    /\ NextUnit(b)
    /\ built' = IF needed[b].op = "check" /\ Unit(b).package \notin needed[b].macros
                THEN built ELSE built \cup {Unit(b).package}
    /\ UNCHANGED <<vars, scene, commands, step, needed, outs, held, queue,
                   writer, open, program, clean, file, cut>>

OtherThanFaults == <<source, digest, cache, lock, pc, stage, hashed, compiled,
                     started, edits, disturbed, spoiled>>

(* Cargo fails.                                                            *)
MacroFails(b) ==
    /\ AtMacro(b) /\ ~Skipped(b, Unit(b)) /\ Fault
    /\ EndCommand(b)
    /\ UNCHANGED <<OtherThanFaults, scene, commands, queue, writer, open, built,
                   file, cut>>

Libraries(b) == {m \in Unit(b).plugins :
                    ~\E i \in 1..Len(Units[scene]) :
                        /\ Units[scene][i].package = m
                        /\ Units[scene][i].prebuilt}

(* build_scarb_root_database loads the libraries of the macros, which have *)
(* to be there.  Then the offloader is started and the compiler called, or *)
(* the unit is only checked.                                               *)
LoadDatabase(b) ==
    /\ step[b] = "next" /\ plan[b] # <<>> /\ Cairo(Unit(b))
    /\ IF ~(Libraries(b) \subseteq built)
       THEN EndCommand(b) /\ UNCHANGED writer
       ELSE IF needed[b].op = "check"
       THEN /\ NextUnit(b)
            /\ UNCHANGED <<step, needed, outs, held, program, clean, writer>>
       ELSE /\ Move(b, "compiler")
            /\ writer' = [writer EXCEPT ![b] = "running"]
            /\ UNCHANGED <<plan, needed, outs, held, program, clean>>
    /\ UNCHANGED <<vars, scene, commands, queue, open, built, file, cut>>

(* A unit that is only checked has diagnostics that are errors.            *)
CheckFails(b) ==
    /\ step[b] = "next" /\ plan[b] # <<>> /\ Cairo(Unit(b))
    /\ needed[b].op = "check" /\ Libraries(b) \subseteq built /\ Fault
    /\ EndCommand(b)
    /\ UNCHANGED <<OtherThanFaults, scene, commands, queue, writer, open, built,
                   file, cut>>

(***************************************************************************)
(* CompilerRepository::compile: load, compile and write, save.             *)
(***************************************************************************)
Untouched == UNCHANGED driver

LoadUnit(b) ==
    /\ step[b] = "compiler"
    /\ Hash(b) \/ \E c \in Component : Load(b, c)
    /\ Untouched

(* The compiler has the program, and goes on to write it.                  *)
CompileUnit(b) ==
    /\ step[b] = "compiler" /\ Compile(b)
    /\ program' = [program EXCEPT ![b] = [made |-> compiled'[b][Main],
                                          goal |-> Of(Main, source)]]
    /\ clean' = [clean EXCEPT ![b] = b \notin disturbed]
    /\ outs' = [outs EXCEPT ![b] = Outputs(Unit(b))]
    /\ UNCHANGED <<scene, commands, step, plan, needed, held, queue, writer,
                   open, built, file, cut>>

Writing(b) == step[b] = "compiler" /\ pc[b] = "saving" /\ outs[b] # <<>>

(* offload() sends the output to the thread; it panics if that has failed. *)
Offload(b) ==
    /\ Writing(b) /\ Head(outs[b]).offload
    /\ IF writer[b] = "running"
       THEN /\ queue' = [queue EXCEPT ![b] = Append(@, Head(outs[b]))]
            /\ outs' = [outs EXCEPT ![b] = Tail(@)]
            /\ UNCHANGED <<vars, step, held>>
       ELSE /\ Leave(b) /\ Move(b, "unwinding")
            /\ held' = [held EXCEPT ![b] = "panic"]
            /\ outs' = [outs EXCEPT ![b] = <<>>]
            /\ disturbed' = disturbed \ {b}
            /\ UNCHANGED <<lock, faults, spoiled, queue>>
    /\ UNCHANGED <<scene, commands, plan, needed, writer, open, program,
                   clean, built, file, cut>>

(* Opening an artifact truncates it, whoever holds the lock.               *)
Truncate(b, t, out) ==
    /\ open[b][t] = Nobody
    /\ open' = [open EXCEPT ![b][t] = out]
    /\ Become(out.file, Empty)
    /\ cut' = cut \ {out.file}

OpenDirect(b) ==
    /\ Writing(b) /\ ~Head(outs[b]).offload
    /\ Truncate(b, "compiler", Head(outs[b]))
    /\ UNCHANGED <<vars, scene, commands, step, plan, needed, outs, held,
                   queue, writer, program, clean, built>>

OpenOffloaded(b) ==
    /\ writer[b] = "running" /\ queue[b] # <<>>
    /\ Truncate(b, "offloader", Head(queue[b]))
    /\ queue' = [queue EXCEPT ![b] = Tail(@)]
    /\ UNCHANGED <<vars, scene, commands, step, plan, needed, outs, held,
                   writer, program, clean, built>>

Busy(o) == step[o] # "off" /\ program[o] # Unmade

(* With the lock: what is in the file by now is overwritten, and the rest  *)
(* of it stays if it is longer.  Builds that have compiled something else  *)
(* find this instead.                                                      *)
Write(b, t) ==
    LET out == open[b][t] IN
    /\ out # Nobody
    /\ open' = [open EXCEPT ![b][t] = Nobody]
    /\ \/ Become(out.file, Whole(b, out)) /\ UNCHANGED cut
       \/ /\ Now(out.file) \notin {Empty, Whole(b, out)}
          /\ Become(out.file, Torn) /\ cut' = cut \cup {out.file}
    /\ clean' = [o \in Build |->
                    clean[o] /\ (Busy(o) => program[o].made = program[b].made)]

(* The disk is full, or the file cannot be locked.                         *)
Garble(b, t) ==
    LET out == open[b][t] IN
    /\ out # Nobody /\ Fault
    /\ open' = [open EXCEPT ![b][t] = Nobody]
    /\ Become(out.file, Torn)
    /\ cut' = cut \cup {out.file}

WriteDirect(b) ==
    /\ Write(b, "compiler")
    /\ outs' = [outs EXCEPT ![b] = Tail(@)]
    /\ UNCHANGED <<vars, scene, commands, step, plan, needed, held, queue,
                   writer, program, built>>

(* JSON is written through a buffer; an error that appears only when the   *)
(* buffer is dropped is not seen.                                          *)
Buffered(out) == out.file.ext \notin {"sierra", "casm"}

LoseDirect(b) ==
    /\ Buffered(open[b]["compiler"]) /\ Garble(b, "compiler")
    /\ outs' = [outs EXCEPT ![b] = Tail(@)]
    /\ UNCHANGED <<OtherThanFaults, scene, commands, step, plan, needed, held,
                   queue, writer, program, clean, built>>

WriteOffloaded(b) ==
    /\ Write(b, "offloader")
    /\ UNCHANGED <<vars, scene, commands, step, plan, needed, outs, held,
                   queue, writer, program, built>>

LoseOffloaded(b) ==
    /\ Buffered(open[b]["offloader"]) /\ Garble(b, "offloader")
    /\ UNCHANGED <<OtherThanFaults, scene, commands, step, plan, needed, outs,
                   held, queue, writer, program, clean, built>>

(* The offloader ends at the first workload that fails; the rest is lost.  *)
OffloadedFails(b) ==
    /\ Garble(b, "offloader")
    /\ writer' = [writer EXCEPT ![b] = "failed"]
    /\ queue' = [queue EXCEPT ![b] = <<>>]
    /\ UNCHANGED <<OtherThanFaults, scene, commands, step, plan, needed, outs,
                   held, program, clean, built>>

(* A compiler returns its error: nothing is saved.                         *)
DirectFails(b) ==
    /\ pc[b] = "saving" /\ step[b] = "compiler"
    /\ LET out == open[b]["compiler"] IN
       /\ out # Nobody
       /\ open' = [open EXCEPT ![b]["compiler"] = Nobody]
       /\ Become(out.file, Torn) /\ cut' = cut \cup {out.file}
    /\ Leave(b) /\ Fault
    /\ disturbed' = disturbed \ {b}
    /\ Move(b, "post")
    /\ held' = [held EXCEPT ![b] = "error"]
    /\ outs' = [outs EXCEPT ![b] = <<>>]
    /\ UNCHANGED <<lock, spoiled, scene, commands, plan, needed, queue,
                   writer, program, clean, built>>

(* Loading, diagnostics or compiling fail.                                 *)
CompileFails(b) ==
    /\ step[b] = "compiler" /\ pc[b] = "loading" /\ Stop(b)
    /\ Move(b, "post")
    /\ held' = [held EXCEPT ![b] = "error"]
    /\ UNCHANGED <<scene, commands, plan, needed, outs, queue, writer, open,
                   program, clean, built, file, cut>>

SaveUnit(b) ==
    /\ step[b] = "compiler" /\ outs[b] = <<>>
    /\ \E c \in Component :
          \/ FindFresh(b, c) \/ FindStale(b, c) \/ OpenDigest(b, c)
          \/ WriteDigest(b, c) \/ OpenCache(b, c) \/ WriteCache(b, c)
    /\ Untouched

(* A component's save fails: either no cache can be generated, which is no *)
(* error, or its task panics and with it, once the others have ended, the  *)
(* compiler thread.                                                        *)
CutSaveOfUnit(b) ==
    /\ step[b] = "compiler" /\ outs[b] = <<>>
    /\ \E c \in Component : CutSave(b, c)
    /\ held' \in {held, [held EXCEPT ![b] = "panic"]}
    /\ UNCHANGED <<scene, commands, step, plan, needed, outs, queue, writer,
                   open, program, clean, built, file, cut>>

FinishUnit(b) ==
    /\ step[b] = "compiler" /\ outs[b] = <<>> /\ Finish(b)
    /\ Move(b, IF held[b] = "panic" THEN "unwinding" ELSE "post")
    /\ UNCHANGED <<scene, commands, plan, needed, outs, held, queue, writer,
                   open, program, clean, built, file, cut>>

(***************************************************************************)
(* After compile(): post-processing, the join, the result.                 *)
(***************************************************************************)
(* The macros' callbacks run even if compile() has failed.                 *)
PostProcess(b) ==
    /\ step[b] = "post"
    /\ Move(b, "join")
    /\ UNCHANGED <<vars, scene, commands, plan, needed, outs, held, queue,
                   writer, open, program, clean, built, file, cut>>

(* An error of theirs takes the place of compile()'s, and the offloader is *)
(* dropped instead of joined: the scope waits for it, its error is lost.   *)
PostProcessFails(b) ==
    /\ step[b] = "post" /\ Unit(b).plugins # {} /\ Fault
    /\ Move(b, "unwinding")
    /\ held' = [held EXCEPT ![b] = "error"]
    /\ UNCHANGED <<OtherThanFaults, scene, commands, plan, needed, outs, queue,
                   writer, open, program, clean, built, file, cut>>

(* The channel is closed: the thread ends when it has nothing left to do.  *)
Drained(b) ==
    /\ open[b]["offloader"] = Nobody
    /\ writer[b] = "failed" \/ queue[b] = <<>>

Unwind(b) ==
    /\ step[b] = "unwinding" /\ Drained(b)
    /\ EndCommand(b)
    /\ writer' = [writer EXCEPT ![b] = "off"]
    /\ UNCHANGED <<vars, scene, commands, queue, open, built, file, cut>>

(* Mutant of Join: the result of the offloader is not looked at.           *)
Join_Ignored(b) ==
    /\ step[b] = "join" /\ Drained(b)
    /\ writer' = [writer EXCEPT ![b] = "off"]
    /\ IF held[b] = "error"
       THEN EndCommand(b)
       ELSE /\ NextUnit(b) /\ Move(b, "next")
            /\ program' = [program EXCEPT ![b] = Unmade]
            /\ UNCHANGED <<needed, held, outs, clean>>
    /\ UNCHANGED <<vars, scene, commands, queue, open, built, file, cut>>

(* offloader.join()?, then the result of compile().                        *)
Join(b) ==
    /\ step[b] = "join" /\ Drained(b)
    /\ writer' = [writer EXCEPT ![b] = "off"]
    /\ IF writer[b] = "failed" \/ held[b] = "error"
       THEN EndCommand(b)
       ELSE /\ NextUnit(b) /\ Move(b, "next")
            /\ program' = [program EXCEPT ![b] = Unmade]
            /\ UNCHANGED <<needed, held, outs, clean>>
    /\ UNCHANGED <<vars, scene, commands, queue, open, built, file, cut>>

(* The process is killed: what it has opened is empty or torn.             *)
Kill(b) ==
    /\ step[b] # "off"
    /\ IF pc[b] = "off" THEN Fault /\ UNCHANGED OtherThanFaults ELSE Stop(b)
    /\ EndCommand(b)
    /\ writer' = [writer EXCEPT ![b] = "off"]
    /\ queue' = [queue EXCEPT ![b] = <<>>]
    /\ open' = [open EXCEPT ![b] = [t \in Thread |-> Nobody]]
    /\ LET left == {open[b][t].file : t \in {x \in Thread : open[b][x] # Nobody}}
       IN  /\ file' = [f \in DOMAIN file |-> IF f \in left THEN Torn ELSE file[f]]
           /\ cut' = cut \cup left
    /\ UNCHANGED <<scene, commands, built>>

CommandStep(b) ==
    \/ \E command \in Commands[scene] : StartCommand(b, command)
    \/ Succeed(b) \/ SkipMacro(b) \/ CompileMacro(b) \/ MacroFails(b)
    \/ LoadDatabase(b) \/ CheckFails(b)
    \/ LoadUnit(b) \/ CompileUnit(b) \/ CompileFails(b)
    \/ Offload(b) \/ OpenDirect(b) \/ WriteDirect(b) \/ LoseDirect(b)
    \/ DirectFails(b)
    \/ OpenOffloaded(b) \/ WriteOffloaded(b) \/ LoseOffloaded(b)
    \/ OffloadedFails(b)
    \/ SaveUnit(b) \/ CutSaveOfUnit(b) \/ FinishUnit(b)
    \/ PostProcess(b) \/ PostProcessFails(b) \/ Unwind(b) \/ Join(b)
    \/ Kill(b)

CommandNext ==
    \/ scene = "unit" /\ Next /\ Untouched
    \/ /\ scene # "unit"
       /\ \/ \E b \in Build : CommandStep(b)
          \/ /\ edits < MostEdits[scene]
             /\ \E c \in Edited, v \in Version : Edit(c, v) /\ Untouched
       /\ scene \in Faultless => faults' = faults

CommandSpec == CommandInit /\ [][CommandNext]_allvars
-----------------------------------------------------------------------------
(* Two contracts of a unit share a file if one is called as the path of    *)
(* the other reads (contract_selector.rs:61-73): the later one is there.   *)
Unshared(outputs) ==
    {out \in outputs : \A o \in outputs : o.file = out.file => o = out}

(* A unit that was compiled well has left every artifact whole, made from  *)
(* the sources that were there when it was compiled, one for each contract *)
(* its manifest selects; whatever the offloader still had to write when    *)
(* the compiler was done.  Excepted are units compiled from moving sources *)
(* or stale caches, or while another build wrote something else, files     *)
(* that another build is rewriting, and writes cut by a kill or by an      *)
(* error that the dropped buffer swallowed (helpers.rs:150-154), and files *)
(* that two contracts share.                                               *)
ArtifactsCurrent ==
    [][\A b \in Build :
          step[b] = "join" /\ step'[b] = "next" /\ clean[b] =>
             LET outputs == ToSet(Outputs(Unit(b)))
             IN  /\ Unit(b).kind = "starknet-contract" =>
                       Intended[scene] \subseteq {out.what : out \in outputs}
                 /\ \A out \in Unshared(outputs) :
                       \/ out.file \in cut
                       \/ \E o \in Build \ {b}, t \in Thread :
                             open[o][t].file = out.file
                       \/ Now(out.file) = [state |-> "whole",
                                              what |-> out.what,
                                              made |-> program[b].goal]]_allvars
=============================================================================
