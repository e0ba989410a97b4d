----------------------------- MODULE ProgramRun -----------------------------
(***************************************************************************)
(* `scarb execute`, `scarb prove` and `scarb verify` on one package        *)
(* (src/extensions).  An execution leaves the files of its run in a        *)
(* directory of its own, whose number is its identifier; `prove` proves    *)
(* what such a directory holds, or first has `execute` fill one it has     *)
(* made; `verify` checks a proof.  None of them takes a lock.  The program *)
(* is built by `scarb build`, in a process of its own, too.                *)
(*                                                                         *)
(* A file is absent, partial, or holds what one run left, named by the     *)
(* command whose run it is.                                                *)
(***************************************************************************)
EXTENDS Naturals, Sequences, FiniteSets, SequencesExt

CONSTANTS
    User,         \* commands, each in a process of its own
    TasksOf,      \* of each: what it may be asked to do
    Executables,  \* executable targets: their names and functions
    MaxId,        \* identifiers: MAX_ITERATION_COUNT
    MaxAccidents, \* bounds the commands that meet an accident
    Absent, Partial, Whole

(* A command is one of the three.  An identifier above MaxId names no      *)
(* directory, as one below it may; 0 is that of a `prove --execute`.       *)
ASSUME ProgramAssumption ==
    /\ MaxId \in Nat /\ MaxAccidents \in Nat /\ Absent # Partial /\ {Absent, Partial} \cap User = {}
    /\ \A u \in User : \A t \in TasksOf[u] :
           /\ t.command \in {"execute", "prove", "verify"} /\ t.id \in 0 .. MaxId
           /\ t.command = "verify" => t.id # 0

VARIABLES
    task,         \* what each command was asked to do
    program,      \* of each target: <target>.executable.json
    packageDir,   \* whether target/execute/<package> is there
    executions,   \* executionN: whether it is there, and its files
    exec,         \* of each command: its `execute` process
    proof,        \* of each command: its `prove` process
    verdict,      \* of each command: what `verify` said of which proof
    accidents     \* commands that a kill or an error of another kind met

runVars == <<task, program, packageDir, executions, exec,
             proof, verdict, accidents>>

Files == {"trace", "memory", "public", "private", "pie", "proof"}
NoFiles == [there |-> FALSE, proofDir |-> FALSE,
            files |-> [f \in Files |-> Absent]]
Executing == [stage |-> "none", args |-> Absent, id |-> 0, target |-> Absent,
              left |-> <<>>]
Proving == [stage |-> "none", id |-> 0, inputs |-> {}]

ProgramInit ==
    /\ task \in {t \in [User -> UNION {TasksOf[u] : u \in User}] :
                    \A u \in User : t[u] \in TasksOf[u]}
    /\ program = [e \in Executables |-> Absent]
    /\ packageDir = FALSE
    /\ executions = [n \in 1 .. MaxId |-> NoFiles]
    /\ exec = [u \in User |->
                  IF task[u].command = "execute"
                  THEN [Executing EXCEPT !.stage = "start", !.args = task[u].execute]
                  ELSE Executing]
    /\ proof = [u \in User |->
                  IF task[u].command = "prove"
                  THEN [Proving EXCEPT !.stage = "start"] ELSE Proving]
    /\ verdict = [u \in User |-> [said |-> "nothing", inputs |-> {}]]
    /\ accidents = {}

-----------------------------------------------------------------------------
(* Directories and files                                                   *)

(* create_output_dir: a directory made elsewhere gets its marker and is    *)
(* then given the name; if another command was first, that one stays.      *)
CreatePackageDir == packageDir' = TRUE

IsTaken(n) == executions[n].there

(* incremental_create_output_dir: mkdir fails for what is there.           *)
FirstFree == {n \in 1 .. MaxId : ~IsTaken(n) /\ \A m \in 1 .. n - 1 : IsTaken(m)}

WriteFile(n, file, content) ==
    executions' = [executions EXCEPT ![n].files[file] = content]

-----------------------------------------------------------------------------
(* scarb execute                                                           *)

At(u, stage) == exec[u].stage = stage
ExecGoto(u, stage) == exec' = [exec EXCEPT ![u].stage = stage]
GiveUp(u) == ExecGoto(u, "failed")

OutputOf(args) ==
    IF args.output # "default" THEN args.output
    ELSE IF args.target = "standalone" THEN "standard" ELSE "pie"

(* OutputFormat::validate                                                  *)
Valid(args) == \/ OutputOf(args) = "none"
               \/ OutputOf(args) = "standard" /\ args.target = "standalone"
               \/ OutputOf(args) = "pie" /\ args.target = "bootloader"

(* find_build_target: a target of the name or function asked for; or the   *)
(* only one.                                                               *)
FindTarget(args) ==
    IF args.name # Absent
    THEN {e \in Executables : e.name = args.name}
    ELSE IF args.function # Absent
    THEN {e \in Executables : e.function = args.function}
    ELSE {e \in Executables : Cardinality(Executables) = 1}

Start(u) ==
    /\ At(u, "start")
    /\ IF ~Valid(exec[u].args) THEN GiveUp(u)
       ELSE ExecGoto(u, IF exec[u].args.noBuild THEN "built" ELSE "building")
    /\ UNCHANGED <<task, program, packageDir, executions,
                   proof, verdict, accidents>>

(* `scarb build`, whose failure is that of `execute`.  Programs are        *)
(* truncated and then written.                                             *)
BuildProgram(u) ==
    /\ \/ At(u, "building") /\ ExecGoto(u, "emitting")
             /\ program' = [e \in Executables |-> Partial]
       \/ At(u, "emitting") /\ ExecGoto(u, "built")
             /\ program' = [e \in Executables |-> Whole]
    /\ UNCHANGED <<task, packageDir, executions, proof,
                   verdict, accidents>>

(* load_prebuilt_executable, and a run of what it loads: it is for the     *)
(* prover if the target is standalone.                                     *)
Run(u) ==
    /\ At(u, "built")
    /\ LET found == FindTarget(exec[u].args)
       IN  \/ (\A e \in found : program[e] # Whole) /\ GiveUp(u)
           \/ \E e \in found :
                 /\ program[e] = Whole
                 /\ exec' = [exec EXCEPT
                        ![u].stage = IF OutputOf(exec[u].args) = "none"
                                     THEN "ended" ELSE "directory",
                        ![u].target = e]
    /\ UNCHANGED <<task, program, packageDir, executions,
                   proof, verdict, accidents>>

(* Mutant of WriteOrder: the private input first, which is at hand.        *)
WriteOrder_PrivateFirst(output) ==
    IF output = "pie" THEN <<"pie">>
    ELSE <<"public", "private", "trace", "memory">>

WriteOrder(output) ==
    IF output = "pie" THEN <<"pie">>
    ELSE <<"trace", "memory", "public", "private">>

(* SCARB_EXECUTION_ID                                                      *)
GivenId(u) == IF task[u].command = "prove" THEN proof[u].id ELSE 0

(* get_or_create_output_dir                                                *)
EnterDirectory(u) ==
    /\ At(u, "directory")
    /\ CreatePackageDir
    /\ \/ /\ GivenId(u) # 0 /\ executions[GivenId(u)].there
          /\ exec' = [exec EXCEPT ![u].stage = "writing", ![u].id = GivenId(u),
                                  ![u].left = WriteOrder(OutputOf(exec[u].args))]
          /\ UNCHANGED executions
       \/ /\ GivenId(u) # 0 /\ ~executions[GivenId(u)].there
          /\ GiveUp(u) /\ UNCHANGED executions
       \/ GivenId(u) = 0 /\ \E n \in FirstFree :
          /\ executions' = [executions EXCEPT ![n].there = TRUE]
          /\ exec' = [exec EXCEPT ![u].stage = "writing", ![u].id = n,
                                  ![u].left = WriteOrder(OutputOf(exec[u].args))]
       \/ /\ GivenId(u) = 0 /\ FirstFree = {}
          /\ GiveUp(u) /\ UNCHANGED executions
    /\ UNCHANGED <<task, program, proof, verdict, accidents>>

(* Each file is opened, written through a buffer and flushed, or written   *)
(* at once: it is partial for a while.                                     *)
SaveFile(u) ==
    /\ At(u, "writing")
    /\ LET file == Head(exec[u].left)
           n == exec[u].id
       IN  \/ /\ WriteFile(n, file, Partial)
              /\ executions[n].files[file] # Partial
              /\ UNCHANGED exec
           \/ /\ executions[n].files[file] = Partial
              /\ WriteFile(n, file, u)
              /\ exec' = [exec EXCEPT
                     ![u].left = Tail(@),
                     ![u].stage = IF Len(exec[u].left) = 1 THEN "ended" ELSE @]
    /\ UNCHANGED <<task, program, packageDir, proof, verdict,
                   accidents>>

-----------------------------------------------------------------------------
(* scarb prove                                                             *)

ProvingAt(u, stage) == proof[u].stage = stage
ProofGoto(u, stage) == proof' = [proof EXCEPT ![u].stage = stage]

(* ExecutionArgs::to_args: the flags another process is given; features go *)
(* through the environment.                                                *)
ToArgs(args) ==
    (IF args.noBuild THEN {<<"no-build", Absent>>} ELSE {})
    \cup (IF args.name # Absent THEN {<<"executable-name", args.name>>}
          ELSE IF args.function # Absent
          THEN {<<"executable-function", args.function>>} ELSE {})
    \cup (IF args.output # "default" THEN {<<"output", args.output>>} ELSE {})
    \cup {<<"target", args.target>>}

(* What that process makes of them, with the defaults of ExecutionArgs.    *)
Parsed(flags) ==
    LET value(flag, default) ==
            IF \E f \in flags : f[1] = flag
            THEN (CHOOSE f \in flags : f[1] = flag)[2] ELSE default
    IN  [noBuild |-> \E f \in flags : f[1] = "no-build",
         name |-> value("executable-name", Absent),
         function |-> value("executable-function", Absent),
         output |-> value("output", "default"),
         target |-> value("target", "standalone")]

(* --execute: a directory, and another process to fill it.                 *)
StartProof(u) ==
    /\ ProvingAt(u, "start")
    /\ \/ /\ task[u].id # 0
          /\ proof' = [proof EXCEPT ![u].stage = "resolving", ![u].id = task[u].id]
          /\ UNCHANGED <<packageDir, executions, exec>>
       \/ task[u].id = 0 /\ CreatePackageDir /\ \E n \in FirstFree :
          /\ executions' = [executions EXCEPT ![n].there = TRUE]
          /\ proof' = [proof EXCEPT ![u].stage = "executing", ![u].id = n]
          /\ exec' = [exec EXCEPT ![u].stage = "start",
                                  ![u].args = Parsed(ToArgs(task[u].execute))]
       \/ /\ task[u].id = 0 /\ FirstFree = {}
          /\ CreatePackageDir /\ ProofGoto(u, "failed")
          /\ UNCHANGED <<executions, exec>>
    /\ UNCHANGED <<task, program, verdict, accidents>>

Executed(u) ==
    /\ ProvingAt(u, "executing") /\ exec[u].stage \in {"ended", "failed"}
    /\ ProofGoto(u, IF At(u, "ended") THEN "resolving" ELSE "failed")
    /\ UNCHANGED <<task, program, packageDir, executions, exec,
                   verdict, accidents>>

(* resolve_paths_from_package                                              *)
ResolvePaths(u) ==
    LET n == proof[u].id
        x == executions[n]
        found == /\ x.there /\ x.files["pie"] = Absent
                 /\ x.files["public"] # Absent /\ x.files["private"] # Absent
    IN  /\ ProvingAt(u, "resolving")
        /\ IF found
           THEN /\ executions' = [executions EXCEPT ![n].proofDir = TRUE]
                /\ ProofGoto(u, "adapting")
           ELSE ProofGoto(u, "failed") /\ UNCHANGED executions
        /\ UNCHANGED <<task, program, packageDir, exec,
                       verdict, accidents>>

(* adapt_vm_output: first the two inputs, which are JSON and must parse;   *)
(* the private one names the files of trace and memory, which are binary.  *)
AdaptInputs(u) ==
    LET files == executions[proof[u].id].files
    IN  /\ ProvingAt(u, "adapting")
        /\ IF Partial \in {files["public"], files["private"]}
           THEN ProofGoto(u, "failed")
           ELSE proof' = [proof EXCEPT
                    ![u].stage = "reading",
                    ![u].inputs = {files["public"], files["private"]}]
        /\ UNCHANGED <<task, program, packageDir, executions,
                       exec, verdict, accidents>>

AdaptTrace(u) ==
    LET files == executions[proof[u].id].files
    IN  /\ ProvingAt(u, "reading")
        /\ IF Absent \in {files["trace"], files["memory"]}
           THEN ProofGoto(u, "failed")
           ELSE proof' = [proof EXCEPT
                    ![u].stage = "proving",
                    ![u].inputs = @ \cup {files["trace"], files["memory"]}]
        /\ UNCHANGED <<task, program, packageDir, executions,
                       exec, verdict, accidents>>

(* The proof replaces an older one: partial first, then whole.             *)
SaveProof(u) ==
    /\ \/ ProvingAt(u, "proving") /\ WriteFile(proof[u].id, "proof", Partial)
             /\ ProofGoto(u, "saving")
       \/ ProvingAt(u, "saving") /\ WriteFile(proof[u].id, "proof", proof[u].inputs)
             /\ ProofGoto(u, "proved")
    /\ UNCHANGED <<task, program, packageDir, exec, verdict,
                   accidents>>

(* scarb verify: a partial proof does not parse.                           *)
Verify(u) ==
    LET found == executions[task[u].id].files["proof"]
    IN  /\ task[u].command = "verify" /\ verdict[u].said = "nothing"
        /\ verdict' = [verdict EXCEPT ![u] =
               IF found \in {Absent, Partial}
               THEN [said |-> "failed", inputs |-> {}]
               ELSE [said |-> "verified", inputs |-> found]]
        /\ UNCHANGED <<task, program, packageDir, executions,
                       exec, proof, accidents>>

-----------------------------------------------------------------------------
(* Any process may fail or be killed, those of MaxAccidents commands in a  *)
(* behaviour.  A killed `prove` leaves its `execute` running.              *)
Accident(u) ==
    /\ Cardinality(accidents \cup {u}) <= MaxAccidents
    /\ \/ /\ exec[u].stage \notin {"none", "ended", "failed"} /\ GiveUp(u)
          /\ UNCHANGED proof
       \/ /\ proof[u].stage \notin {"none", "proved", "failed"}
          /\ ProofGoto(u, "failed") /\ UNCHANGED exec
    /\ accidents' = accidents \cup {u}
    /\ UNCHANGED <<task, program, packageDir, executions, verdict>>

ExecuteStep(u) ==
    Start(u) \/ BuildProgram(u) \/ Run(u) \/ EnterDirectory(u) \/ SaveFile(u)
ProveStep(u) ==
    \/ StartProof(u) \/ Executed(u) \/ ResolvePaths(u)
    \/ AdaptInputs(u) \/ AdaptTrace(u) \/ SaveProof(u)

ProgramNext ==
    \E u \in User : ExecuteStep(u) \/ ProveStep(u) \/ Verify(u) \/ Accident(u)

ProgramSpec == ProgramInit /\ [][ProgramNext]_runVars

-----------------------------------------------------------------------------
ProgramTypeOK ==
    /\ \A e \in Executables : program[e] \in {Absent, Partial, Whole}
    /\ packageDir \in BOOLEAN
    /\ \A u \in User : exec[u].id \in 0 .. MaxId /\ proof[u].id \in 0 .. MaxId

OfOneRun(n, inputs) ==
    \E u \in User : inputs = {u} /\ exec[u].stage = "ended" /\ exec[u].id = n

(* What is proved of an execution, and so what `verify` accepts, is one    *)
(* run, all of whose files were complete when they were read: also when    *)
(* the run is still being written, has failed half-way, or other runs and  *)
(* proofs go on in the same package.  `prove --execute` proves the run of  *)
(* the process it has started, of the target it was asked for; and unless  *)
(* there was no identifier left, or that process, asked for the same,      *)
(* failed or was to leave no trace, it does not fail.                      *)
ProofsOfWholeRuns ==
    /\ \A n \in 1 .. MaxId :
           executions[n].files["proof"] \notin {Absent, Partial} =>
               OfOneRun(n, executions[n].files["proof"])
    /\ \A u \in User :
           /\ verdict[u].said = "verified" => OfOneRun(task[u].id, verdict[u].inputs)
           /\ task[u].command = "prove" /\ task[u].id = 0 =>
                /\ proof[u].stage = "proved" =>
                       proof[u].inputs = {u} /\ exec[u].target \in FindTarget(task[u].execute)
                /\ proof[u].stage = "failed" =>
                       \/ u \in accidents \/ proof[u].id = 0
                       \/ At(u, "failed") /\ FindTarget(exec[u].args) = FindTarget(task[u].execute)
                       \/ OutputOf(task[u].execute) # "standard"
=============================================================================
