-------------------------- MODULE MCProcMacroServer --------------------------
(* Seven scenes, for they share no state: what scarb has other programs    *)
(* and the code of macros do.  "server": the macro server gets two requests    *)
(* that are answered, two that panic, enough for the whole pool, and a     *)
(* line that is not a request; pipes that are full at once.  "host": a     *)
(* compiler plugin expands the macros of a small program.  "spans": one    *)
(* macro moves the spans of one token.  "oracles": a program invokes an    *)
(* oracle three times.  "program": three commands execute, prove and       *)
(* verify one package.  "memory": two threads call the library of a macro  *)
(* and expand with it, in an order of their own.  "tree": one command with *)
(* all the processes below it, in a workspace of two packages and with two *)
(* installations of scarb.                                                 *)
EXTENDS ProcMacroServer, ProcMacroHost, ExpansionSpans, Oracles, ProgramRun,
        MacroMemory, CommandTree

CONSTANTS R1, R2, Panic1, Panic2, NotJson, W1, W2, App, Dep, U1, U2, U3,
          A, B, S1, S2

VARIABLE scene

(* All of them.                                                            *)
scenesVars == <<scene, vars, hostVars, spanVars, oracleVars, runVars, memoryVars,
              treeVars>>

Named(package, name, kind) ==
    [package |-> package, name |-> name, kind |-> kind]

MCExpansions == {Named("p", "a", "attr"), Named("q", "b", "attr"),
                 Named("p", "D", "derive"), Named("q", "E", "derive"),
                 Named("p", "run", "executable"), Named("r", "b", "attr")}

Code(component, kind, name, attrs) ==
    [component |-> component, kind |-> kind, name |-> name, attrs |-> attrs,
     derives |-> <<>>, funcs |-> <<>>, keys |-> {}]

FuncOf(name, attrs) == [name |-> name, attrs |-> attrs]

MCPrograms == {
    <<[Code(App, "struct", "S", <<"b", "doc", "a">>)
           EXCEPT !.derives = <<"D", "Drop", "E">>]>>,
    <<[Code(App, "impl", "I", <<"b">>)
           EXCEPT !.funcs = <<FuncOf("f", <<"doc">>), FuncOf("g", <<"a", "b">>),
                              FuncOf("h", <<"a">>)>>],
      [Code(Dep, "struct", "T", <<"b">>) EXCEPT !.derives = <<"Drop">>]>>,
    <<Code(App, "function", "m", <<"a">>), Code(App, "struct", "n", <<"a">>),
      Code(Dep, "function", "o", <<"a", "run">>)>>}

(* App depends on the packages of two macros, or of two with one name; Dep *)
(* on one package of App.                                                  *)
MCUnits == [items : MCPrograms,
            macrosOf : {[c \in {App, Dep} |-> IF c = App THEN of ELSE {"p"}] :
                           of \in {{"p", "q"}, {"q", "r"}}}]

MCResults == [stream : {"empty", "same", "changed"}, data : BOOLEAN,
              keys : {{}, {"k"}}]

Args(noBuild, target, output, name) ==
    [noBuild |-> noBuild, target |-> target, output |-> output,
     name |-> name, function |-> Absent]
Asked(command, id, args) == [command |-> command, id |-> id, execute |-> args]
Standalone == Args(FALSE, "standalone", "default", "x")

MCExecutables == [name : {"x"}, function : {"f"}] \cup [name : {"y"}, function : {"g"}]

MCTasksOf == [u \in {U1, U2, U3} |->
    CASE u = U1 -> {Asked("prove", 0, Standalone), Asked("execute", 0, Standalone),
                    Asked("execute", 0, [Args(TRUE, "standalone", "standard", Absent)
                                             EXCEPT !.function = "g"])}
      [] u = U2 -> {Asked("prove", 0, Standalone), Asked("prove", 1, Standalone),
                    Asked("prove", 0, Args(FALSE, "standalone", "none", "y")),
                    Asked("prove", 0, Args(TRUE, "standalone", "default", Absent)),
                    Asked("execute", 0, Args(FALSE, "standalone", "pie", "x")),
                    Asked("execute", 0, Args(FALSE, "bootloader", "default", "x"))}
      [] u = U3 -> {Asked("verify", 1, Standalone), Asked("prove", 1, Standalone)}]

(* A has a unit test and two integration tests, which are one group, and   *)
(* B has a `test` script.                                                  *)
TestOf(m, n, group) == [kind |-> "test", name |-> <<m, n>>, group |-> group]
MCTargets == [m \in {A, B} |->
    <<[kind |-> "lib", name |-> m, group |-> Nothing], TestOf(m, 0, Nothing)>>
    \o IF m = A THEN <<TestOf(m, 1, <<m, 9>>), TestOf(m, 2, <<m, 9>>)>> ELSE <<>>]

TheTool == [program |-> "tool"]
MCScripts ==
    (A :> ("go" :> <<ScarbCall("build", <<>>), TheTool>>))
    @@ (B :> [script \in {"test", "go", "own"} |-> <<TheTool>>])
    @@ (Root :> ("go" :> <<TheTool>>))

MCMembers == <<A, B>>
MCFeatures == [m \in {A, B} |-> IF m = A THEN {"f"} ELSE {"f", "g"}]
MCPath == <<S2, S1>>
MCInstalled == [s \in {S1, S2} |->
    {"cairo-test", "execute", "prove"} \cup IF s = S2 THEN {"cairo-run"} ELSE {}]

Filters == {<<>>, "package" :> {{A}}, "package" :> {{A}, {B}},
            "package" :> {{A}, {A, B}}, "package" :> {{B}, {}},
            "package" :> {All}, "workspace" :> TRUE, "quiet" :> TRUE}
Featured == {<<>>, "features" :> {"f"}, "features" :> {"g"}, "features" :> {"h"},
             "all_features" :> TRUE,
             ("features" :> {"f"}) @@ ("no_default_features" :> TRUE)}
Globals == {<<>>, ("release" :> TRUE) @@ ("quiet" :> TRUE),
            ("target_dir" :> Elsewhere) @@ ("offline" :> TRUE) @@ ("manifest_path" :> B),
            ("profile" :> "release") @@ ("no_proc_macros" :> TRUE)
            @@ ("global_cache_dir" :> "cache")}
Environments == {("package" :> {{B}}) @@ ("features" :> {"f"}),
                 ("profile" :> "release") @@ ("offline" :> TRUE)
                 @@ ("no_default_features" :> TRUE) @@ ("SCARB" :> S2),
                 "manifest_path" :> A}

CommandLines ==
    [test |-> Filters \cup {f @@ g : f \in {<<>>, "workspace" :> TRUE}, g \in Featured},
     run |-> {f @@ ("script" :> s) : f \in Filters \cup {"workspace_root" :> TRUE},
                                     s \in {"go", "own"}}
             \ {("workspace_root" :> TRUE) @@ ("script" :> "own")},
     build |-> {<<>>}]
    @@ ("cairo-test" :> Filters)
    @@ ("cairo-run" :> {f @@ n : f \in Filters, n \in {<<>>, "no_build" :> TRUE}})
    @@ [e \in {"execute", "prove"} |->
           {f @@ g : f \in {<<>>, "package" :> {{B}}}, g \in Featured}]

MCTyped ==
    {[call |-> [ScarbCall(c, l) EXCEPT !.global = ge[1]], exe |-> S1, dir |-> d, env |-> ge[2]] :
        <<c, l>> \in UNION {{c} \X CommandLines[c] : c \in DOMAIN CommandLines},
        ge \in (Globals \X {<<>>}) \cup ({<<>>} \X Environments),
        d \in {A, Root, Elsewhere}}

(* What is not on the stage has one state.                                 *)
ScenesInit ==
    /\ scene \in {"server", "host", "spans", "oracles", "program", "memory", "tree"}
    /\ Init /\ OraclesInit /\ HostInit /\ ProgramInit /\ MemoryInit
    /\ scene # "memory" => library = [version |-> 1, complete |-> TRUE,
                                      distinct |-> TRUE, stage |-> "closed"]
    /\ scene # "host" => unit = CHOOSE u \in MCUnits : TRUE
    /\ scene # "program" => task = [u \in User |-> CHOOSE t \in TasksOf[u] : TRUE]
    /\ IF scene = "spans" THEN SpanInit
       ELSE /\ loc = [item |-> None, attr |-> None, bare |-> None]
            /\ token = None /\ seen = None /\ shown = None
            /\ emitted = "nothing" /\ spanStage = "parsed"
    /\ IF scene = "tree" THEN TreeInit
       ELSE /\ asked = Nothing /\ stack = <<>> /\ artifacts = <<>> /\ uses = <<>>
            /\ outcome = Nothing /\ accident = Nothing

(* The hosts have called back all they will, the span is shown, the pool   *)
(* of oracles is dropped, or every command has ended.                      *)
Over ==
    \/ /\ scene = "host"
       /\ \/ hostStage = "failed"
          \/ hostStage = "expanding" /\ pending = <<>> /\ \A c \in Component : CalledBack(c)
    \/ scene = "spans" /\ spanStage \in {"shown", "panicked"}
    \/ scene = "oracles" /\ oracleStage = "ending"
    \/ scene = "tree" /\ ~InProgress
    \/ scene = "memory" /\ (aborted \/ library.stage = "refused")
    \/ /\ scene = "program"
       /\ \A u \in User : /\ exec[u].stage \in {"none", "ended", "failed"}
                         /\ proof[u].stage \in {"none", "proved", "failed"}
                         /\ task[u].command = "verify" => verdict[u].said # "nothing"

ScenesNext ==
    \/ /\ scene = "server" /\ Next
       /\ UNCHANGED <<scene, hostVars, spanVars, oracleVars, runVars, memoryVars, treeVars>>
    \/ /\ scene = "host" /\ HostNext
       /\ UNCHANGED <<scene, vars, spanVars, oracleVars, runVars, memoryVars, treeVars>>
    \/ /\ scene = "spans" /\ SpanNext
       /\ UNCHANGED <<scene, vars, hostVars, oracleVars, runVars, memoryVars, treeVars>>
    \/ /\ scene = "oracles" /\ OraclesNext
       /\ UNCHANGED <<scene, vars, hostVars, spanVars, runVars, memoryVars, treeVars>>
    \/ /\ scene = "program" /\ ProgramNext
       /\ UNCHANGED <<scene, vars, hostVars, spanVars, oracleVars, memoryVars, treeVars>>
    \/ /\ scene = "memory" /\ MemoryNext
       /\ UNCHANGED <<scene, vars, hostVars, spanVars, oracleVars, runVars, treeVars>>
    \/ /\ scene = "tree" /\ TreeNext
       /\ UNCHANGED <<scene, vars, hostVars, spanVars, oracleVars, runVars, memoryVars>>
    \/ Over /\ UNCHANGED scenesVars

OfServer(step) == scene = "server" /\ step

(* The fairness is that of the server.                                     *)
ScenesSpec ==
    /\ ScenesInit /\ [][ScenesNext]_scenesVars
    /\ WF_vars(OfServer(ReaderStep)) /\ WF_vars(OfServer(WriterStep))
    /\ WF_vars(OfServer(MainStep))
    /\ WF_vars(OfServer(\E w \in Worker : Take(w)))
    /\ \A w \in Worker : WF_vars(OfServer(WorkerStep(w)))
    /\ \A r \in Line : WF_vars(OfServer(Receive(r)))
=============================================================================
