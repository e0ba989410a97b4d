----------------------------- MODULE CommandTree -----------------------------
(***************************************************************************)
(* The processes of one command (src/scarb/src/bin/scarb, subcommands.rs,  *)
(* ops/subcommands.rs, ops/scripts.rs; src/utils/scarb-ui/src/args;        *)
(* src/scarb-metadata/src/command; src/extensions).  scarb replaces itself *)
(* by the program of an extension; `test` and `run` have a shell run the   *)
(* scripts of packages, whose commands are processes; an extension calls   *)
(* scarb back to describe and to build the workspace, and opens what was   *)
(* built.  What the user asked for reaches them by the environment, the    *)
(* directory and a few arguments.                                          *)
(*                                                                         *)
(* Who starts a process waits for its end, so the tree is a stack.  A      *)
(* manifest is named by its directory, a target directory by the one it is *)
(* in, an installation of scarb by the directory of its programs.  What    *)
(* the command line gives and the environment gives has one name, that of  *)
(* the argument.                                                           *)
(***************************************************************************)
EXTENDS Naturals, FiniteSets, SequencesExt, TLC

CONSTANTS
    Members,    \* the packages of the workspace, in the order of their ids
    Root,       \* where the workspace is, which has no package of its own
    Elsewhere,  \* where there is no manifest
    FeaturesOf, \* of each package
    Targets,    \* of each package: a sequence of [kind, name, group]
    Scripts,    \* of each package and the root: commands, by name
    Installed,  \* of each installation: the extensions in it
    PathDirs,   \* installations in the PATH, in order
    Typed,      \* what may be typed, where, and with which environment
    All,        \* the specification `*`; another is a set of packages
    Nothing

VARIABLES
    asked,      \* the first process, as it was started
    stack,      \* the processes, the one that runs last
    artifacts,  \* by directory, profile, kind and name
    uses,       \* what was tested or run, in order
    outcome,    \* the exit code of the command
    accident    \* the program that failed or was killed

treeVars == <<asked, stack, artifacts, uses, outcome, accident>>

Package == ToSet(Members)

-----------------------------------------------------------------------------
(* Arguments                                                               *)

PackageArgs == {"package", "workspace"}
FeatureArgs == {"features", "all_features", "no_default_features"}
ProfileArgs == {"profile", "release", "dev"}
VerbosityArgs == {"verbosity", "verbose", "quiet", "no_warnings"}

ScarbArgs ==
    {"manifest_path", "offline", "global_cache_dir", "target_dir", "no_proc_macros"}
    \cup VerbosityArgs \cup ProfileArgs

BuildArgs == PackageArgs \cup FeatureArgs \cup {"test", "target_names", "target_kinds"}
MetadataArgs == FeatureArgs
ScriptsRunnerArgs == PackageArgs \cup {"script", "workspace_root"}
TestArgs == PackageArgs \cup FeatureArgs

(* The commands of scarb, those of them that are modelled.  Any other word *)
(* is the name of an extension, and what follows it is for that.           *)
Command ==
    [build |-> BuildArgs, metadata |-> MetadataArgs, run |-> ScriptsRunnerArgs,
     test |-> TestArgs]

(* `prove` is the one with --execute.                                      *)
CairoTestArgs == PackageArgs \cup VerbosityArgs
CairoRunArgs == PackageArgs \cup VerbosityArgs \cup {"no_build"}
ExecuteArgs == CairoRunArgs \cup FeatureArgs
ProveArgs == ExecuteArgs

ExtensionArgs ==
    ("cairo-test" :> CairoTestArgs) @@ ("cairo-run" :> CairoRunArgs)
    @@ ("execute" :> ExecuteArgs) @@ ("prove" :> ProveArgs)

IsBuiltin(call) == call.command \in DOMAIN Command

(* The variables that stand for arguments: SCARB_PACKAGES_FILTER and so on.*)
EnvNames ==
    {"package", "features", "all_features", "no_default_features", "profile",
     "verbosity", "manifest_path", "offline", "global_cache_dir", "target_dir",
     "no_proc_macros", "target_names", "target_kinds"}

Accepted(p) ==
    IF p.program # "scarb" THEN ExtensionArgs[p.program]
    ELSE ScarbArgs \cup IF IsBuiltin(p.call) THEN Command[p.call.command] ELSE {}

(* The command line goes before the environment.                           *)
Given(p) ==
    (IF p.program # "scarb" THEN p.call.local
     ELSE IF IsBuiltin(p.call) THEN p.call.global @@ p.call.local ELSE p.call.global)
    @@ [k \in Accepted(p) \cap EnvNames \cap DOMAIN p.env |-> p.env[k]]

Value(p, k, default) == IF k \in DOMAIN Given(p) THEN Given(p)[k] ELSE default
Flag(p, k) == Value(p, k, FALSE)

(* conflicts_with, which counts what the environment gives.                *)
Conflicts ==
    {{"package", "workspace"}, {"all_features", "no_default_features"},
     {"target_kinds", "target_names"}, {"target_kinds", "test"}, {"release", "dev"},
     {"verbose", "quiet"}, {"no_warnings", "verbose"}, {"no_warnings", "quiet"}}

Profile(p) ==
    IF Flag(p, "release") THEN "release" ELSE IF Flag(p, "dev") THEN "dev"
    ELSE Value(p, "profile", "dev")

Verbosity(p) ==
    IF Flag(p, "no_warnings") THEN "no-warnings" ELSE IF Flag(p, "quiet") THEN "quiet"
    ELSE IF Flag(p, "verbose") THEN "verbose" ELSE Value(p, "verbosity", "normal")

(* FeaturesOpts: the empty word is no name.                                *)
Features(p) ==
    [names |-> IF Flag(p, "all_features") THEN All ELSE Value(p, "features", {}) \ {Nothing},
     default |-> ~Flag(p, "no_default_features")]

ValidFeatures(p, packages) ==
    Features(p).names # All =>
        \A f \in Features(p).names : \E m \in packages : f \in FeaturesOf[m]

(* A list as the value of a variable: an empty one has one empty word.     *)
Joined(words) == IF words = {} THEN {Nothing} ELSE words

(* FeaturesSpec::to_env_vars                                               *)
FeatureVars(p) ==
    ("features" :> Joined(Value(p, "features", {})))
    @@ [k \in {f \in {"all_features", "no_default_features"} : Flag(p, f)} |-> TRUE]

-----------------------------------------------------------------------------
(* Configuration                                                           *)

(* find_manifest_path: all directories but Elsewhere have a manifest.      *)
ManifestPath(p) == Value(p, "manifest_path", p.dir)

HasManifest(p) == ManifestPath(p) # Elsewhere

(* Workspace::target_dir                                                   *)
TargetDir(p) == Value(p, "target_dir", Root)

CacheDir(p) == Value(p, "global_cache_dir", "home")

(* app_exe: $SCARB, or the program that runs.                              *)
AppExe(p) == IF "SCARB" \in DOMAIN p.env THEN p.env["SCARB"] ELSE p.exe

(* get_env_vars: it says nothing of `offline`.                             *)
EnvVars(p, target) ==
    [manifest_path |-> ManifestPath(p), profile |-> Profile(p),
     verbosity |-> Verbosity(p), global_cache_dir |-> CacheDir(p),
     no_proc_macros |-> Flag(p, "no_proc_macros"), SCARB |-> AppExe(p)]
    @@ target

(* Beside scarb, then in the PATH.                                         *)
SubcommandDirs(p) == <<AppExe(p)>> \o PathDirs

FindExternal(p) ==
    SelectSeq(SubcommandDirs(p), LAMBDA d : p.call.command \in Installed[d])

(* get_target_dir: the workspace is read, if there is one.                 *)
ExternalTarget(p) == IF HasManifest(p) THEN "target_dir" :> TargetDir(p) ELSE <<>>

(* execute_external_subcommand: the program of an extension.               *)
External(p) ==
    [p EXCEPT !.program = p.call.command, !.exe = FindExternal(p)[1],
              !.env = EnvVars(p, ExternalTarget(p)) @@ @]

-----------------------------------------------------------------------------
(* The packages filter                                                     *)

(* package_specs: a set, so in any order.                                  *)
PackageSpecs(p) ==
    LET specs == Value(p, "package", {All})
    IN  IF All \in specs THEN {All} ELSE specs

CurrentSelected(p) == ~Flag(p, "workspace") /\ PackageSpecs(p) = {All}

SpecMatches(spec, m) == spec = All \/ m \in spec

DoMatch(p, spec) ==
    SelectSeq(Members, LAMBDA m : Flag(p, "workspace") \/ SpecMatches(spec, m))

(* dedup_by_key: of neighbours.                                            *)
Dedup(packages) ==
    FoldLeft(LAMBDA found, m : IF found # <<>> /\ Last(found) = m THEN found ELSE Append(found, m),
             <<>>, packages)

(* do_match_all: what it may return; nothing if a specification matches no *)
(* package.                                                                *)
DoMatchAll(p) ==
    IF \E spec \in PackageSpecs(p) : DoMatch(p, spec) = <<>> THEN {}
    ELSE {Dedup(FlattenSeq([i \in DOMAIN specs |-> DoMatch(p, specs[i])])) :
             specs \in SetToSeqs(PackageSpecs(p))}

MatchMany(p, manifest) ==
    IF CurrentSelected(p) /\ manifest \in Package THEN {<<manifest>>} ELSE DoMatchAll(p)

MatchOne(p, manifest) == {found \in MatchMany(p, manifest) : Len(found) = 1}

(* generate_for and to_env                                                 *)
FilterVar(found) == "package" :> {{m} : m \in ToSet(found)}

-----------------------------------------------------------------------------
(* Processes                                                               *)

ScarbCall(command, local) ==
    [program |-> "scarb", command |-> command, global |-> <<>>, local |-> local]

Process(call, exe, dir, env) ==
    [program |-> call.program, call |-> call, exe |-> exe, dir |-> dir, env |-> env,
     stage |-> "start", todo |-> <<>>, heard |-> 0, errors |-> <<>>, told |-> Nothing]

TreeInit ==
    /\ \E t \in Typed : asked = Process(t.call, t.exe, t.dir, t.env)
    /\ stack = <<asked>>
    /\ artifacts = <<>> /\ uses = <<>> /\ outcome = Nothing /\ accident = Nothing

InProgress == outcome = Nothing
Top == Last(stack)

GoOn(p) == stack' = Append(Front(stack), p)

(* p waits for the end of another process.                                 *)
StartChild(p, child) == stack' = Front(stack) \o <<p, child>>

(* InternalScarbCommandBuilder::command: what the caller sets goes over    *)
(* its own environment.                                                    *)
ScarbCommand(p, call, env) ==
    Process(call, IF "SCARB" \in DOMAIN p.env THEN p.env["SCARB"] ELSE PathDirs[1],
            p.dir, env @@ p.env)

(* The code, and what metadata has printed, go to who waits.               *)
ExitTelling(code, told) ==
    IF Len(stack) = 1 THEN stack' = <<>> /\ outcome' = code
    ELSE /\ stack' = [Front(stack) EXCEPT ![Len(stack) - 1].heard = code,
                                          ![Len(stack) - 1].told = IF told = Nothing THEN @ ELSE told]
         /\ UNCHANGED outcome

ExitWith(code) == ExitTelling(code, Nothing)

(* FAILURE: also where clap has a code of its own.                         *)
Failure == 1

(* What a program of a script ends with when it fails.                     *)
ToolCode == 7

IsScarb(p, command) == p.program = "scarb" /\ p.call.command = command

(* clap's conflicts, and no workspace where one is needed.                 *)
RefusesArgs(p) ==
    \/ \E c \in Conflicts : c \subseteq DOMAIN Given(p)
    \/ p.program = "scarb" /\ IsBuiltin(p.call) /\ ~HasManifest(p)

Parses(p) == p.stage = "start" /\ p.program \in {"scarb"} \cup DOMAIN ExtensionArgs

RefuseArgs ==
    /\ Parses(Top) /\ RefusesArgs(Top) /\ ExitWith(Failure)
    /\ UNCHANGED <<asked, artifacts, uses, accident>>

Begins(p) == Parses(p) /\ ~RefusesArgs(p)

-----------------------------------------------------------------------------
(* Commands of scarb                                                       *)

ArtifactName(t) == IF t.group = Nothing THEN t.name ELSE t.group

(* CompileOpts: tests only if asked for, then nothing else; of a group, if *)
(* one of its targets is named.                                            *)
Included(p, t) ==
    /\ (t.kind = "test") = Flag(p, "test")
    /\ "target_names" \in DOMAIN Given(p) => t.name \in Given(p)["target_names"]
    /\ "target_kinds" \in DOMAIN Given(p) => t.kind \in Given(p)["target_kinds"]

(* What an artifact is made with.                                          *)
MadeBy(p) == [features |-> Features(p), macros |-> ~Flag(p, "no_proc_macros"),
              profile |-> Profile(p), exe |-> p.exe]

Compiled(p, packages) ==
    LET targets == {t \in UNION {ToSet(Targets[m]) : m \in packages} : Included(p, t)}
    IN  [f \in {<<TargetDir(p), Profile(p), t.kind, ArtifactName(t)>> : t \in targets} |->
            MadeBy(p)]

Build ==
    /\ Begins(Top) /\ IsScarb(Top, "build")
    /\ LET p == Top
           matches == MatchMany(p, ManifestPath(p))
       IN  \/ \E found \in matches :
                 /\ ValidFeatures(p, ToSet(found))
                 /\ artifacts' = Compiled(p, ToSet(found)) @@ artifacts
                 /\ ExitWith(0)
           \/ /\ \A found \in matches : ~ValidFeatures(p, ToSet(found))
              /\ ExitWith(Failure) /\ UNCHANGED artifacts
    /\ UNCHANGED <<asked, uses, accident>>

Metadata ==
    /\ Begins(Top) /\ IsScarb(Top, "metadata")
    /\ IF ValidFeatures(Top, Package)
       THEN ExitTelling(0, [manifest |-> ManifestPath(Top), target |-> TargetDir(Top)])
       ELSE ExitWith(Failure)
    /\ UNCHANGED <<asked, artifacts, uses, accident>>

(* Mutant of CollectEnv: the variables of scarb over those of the caller.  *)
CollectEnv_Swapped(p, custom) ==
    EnvVars(p, "target_dir" :> TargetDir(p)) @@ custom @@ p.env

CollectEnv(p, custom) ==
    custom @@ EnvVars(p, "target_dir" :> TargetDir(p)) @@ p.env

(* execute_script: commands joined by `&&`.  The shell is a part of the    *)
(* process that waits for it.                                              *)
ExecuteScript(p, script, dir, custom) ==
    [Process([program |-> "shell"], AppExe(p), dir, CollectEnv(p, custom))
        EXCEPT !.todo = script]

HasScript(m, name) == name \in DOMAIN Scripts[m]

(* execute_test_subcommand                                                 *)
TestScript(m) ==
    IF HasScript(m, "test") THEN Scripts[m]["test"] ELSE <<ScarbCall("cairo-test", <<>>)>>

TestVars(p, m) == ("manifest_path" :> m) @@ FeatureVars(p)

Test ==
    /\ Begins(Top) /\ IsScarb(Top, "test")
    /\ LET p == Top
           matches == MatchMany(p, ManifestPath(p))
       IN  \/ \E found \in matches :
                 /\ ValidFeatures(p, ToSet(found))
                 /\ GoOn([p EXCEPT !.stage = "testing", !.todo = found])
                 /\ UNCHANGED outcome
           \/ (\A found \in matches : ~ValidFeatures(p, ToSet(found))) /\ ExitWith(Failure)
    /\ UNCHANGED <<asked, artifacts, uses, accident>>

(* The first package whose script fails is the last.                       *)
TestPackage ==
    /\ Top.stage = "testing"
    /\ LET p == Top
       IN  \/ /\ p.heard = 0 /\ p.todo # <<>>
              /\ StartChild([p EXCEPT !.todo = Tail(@)],
                       ExecuteScript(p, TestScript(Head(p.todo)), Head(p.todo),
                                     TestVars(p, Head(p.todo))))
              /\ UNCHANGED outcome
           \/ (p.heard # 0 \/ p.todo = <<>>) /\ ExitWith(p.heard)
    /\ UNCHANGED <<asked, artifacts, uses, accident>>

(* run, where the name of a script is given.                               *)
RunScripts ==
    /\ Begins(Top) /\ IsScarb(Top, "run")
    /\ LET p == Top
           matches == IF Flag(p, "workspace_root") THEN {<<Root>>}
                      ELSE MatchMany(p, ManifestPath(p))
       IN  \/ /\ matches = {} /\ ExitWith(Failure)
           \/ \E found \in matches :
                 /\ GoOn([p EXCEPT !.stage = "running", !.todo = found])
                 /\ UNCHANGED outcome
    /\ UNCHANGED <<asked, artifacts, uses, accident>>

(* build_exit_error: the code of the first script that failed; a script    *)
(* that is not there has none.                                             *)
ExitCode(errors) ==
    LET codes == SelectSeq(errors, LAMBDA e : e # Nothing)
    IN  IF errors = <<>> THEN 0 ELSE IF codes = <<>> THEN Failure ELSE codes[1]

(* All packages, whatever comes of the scripts.                            *)
RunPackageScript ==
    /\ Top.stage = "running"
    /\ LET p == [Top EXCEPT !.heard = 0,
                            !.errors = IF Top.heard = 0 THEN @ ELSE Append(@, Top.heard)]
           name == Value(p, "script", Nothing)
       IN  \/ /\ p.todo # <<>> /\ HasScript(Head(p.todo), name)
              /\ StartChild([p EXCEPT !.todo = Tail(@)],
                       ExecuteScript(p, Scripts[Head(p.todo)][name], Head(p.todo), <<>>))
              /\ UNCHANGED outcome
           \/ /\ p.todo # <<>> /\ ~HasScript(Head(p.todo), name)
              /\ GoOn([p EXCEPT !.todo = Tail(@), !.errors = Append(@, Nothing)])
              /\ UNCHANGED outcome
           \/ p.todo = <<>> /\ ExitWith(ExitCode(p.errors))
    /\ UNCHANGED <<asked, artifacts, uses, accident>>

(* The shell: `scarb` is the one that runs the script, another word is a   *)
(* program of that name.                                                   *)
ShellStep ==
    /\ Top.program = "shell"
    /\ LET p == Top
       IN  \/ /\ p.heard = 0 /\ p.todo # <<>>
              /\ StartChild([p EXCEPT !.todo = Tail(@)],
                       Process(Head(p.todo), p.exe, p.dir, p.env))
              /\ UNCHANGED outcome
           \/ (p.heard # 0 \/ p.todo = <<>>) /\ ExitWith(p.heard)
    /\ UNCHANGED <<asked, artifacts, uses, accident>>

Tool ==
    /\ Top.program = "tool"
    /\ uses' = Append(uses, [what |-> <<"tool", Top.dir>>, made |-> Nothing, by |-> Top.exe])
    /\ \/ ExitWith(0) /\ UNCHANGED accident
       \/ accident = Nothing /\ ExitWith(ToolCode) /\ accident' = "tool"
    /\ UNCHANGED <<asked, artifacts>>

(* The program of an extension in the process of scarb.                    *)
ExecReplace ==
    /\ Begins(Top) /\ Top.program = "scarb" /\ ~IsBuiltin(Top.call)
    /\ IF FindExternal(Top) = <<>> THEN ExitWith(Failure)
       ELSE GoOn(External(Top)) /\ UNCHANGED outcome
    /\ UNCHANGED <<asked, artifacts, uses, accident>>

-----------------------------------------------------------------------------
(* Extensions                                                              *)

IsExtension(p) == p.program \in DOMAIN ExtensionArgs
HasFeatures(p) == "features" \in Accepted(p)
FeaturesToChild(p) == IF HasFeatures(p) THEN FeatureVars(p) ELSE <<>>

Describe ==
    /\ Begins(Top) /\ IsExtension(Top)
    /\ StartChild([Top EXCEPT !.stage = "described"],
             ScarbCommand(Top, ScarbCall("metadata", <<>>), FeaturesToChild(Top)))
    /\ UNCHANGED <<asked, artifacts, uses, outcome, accident>>

Tests(m) == SelectSeq(Targets[m], LAMBDA t : t.kind = "test")
TargetNames(found) == {t.name : t \in UNION {ToSet(Tests(m)) : m \in ToSet(found)}}

(* What an extension starts before it opens anything.                      *)
Prepared(p, found) ==
    LET env == FilterVar(found) @@ ("verbosity" :> Verbosity(p)) @@ FeaturesToChild(p)
    IN  IF p.program = "cairo-test"
        THEN ScarbCommand(p, ScarbCall("build", "test" :> TRUE),
                          ("target_names" :> Joined(TargetNames(found))) @@ env)
        ELSE IF p.program = "prove"
        THEN ScarbCommand(p, ScarbCall("execute", IF Flag(p, "no_build") THEN "no_build" :> TRUE ELSE <<>>), env)
        ELSE ScarbCommand(p, ScarbCall("build", <<>>), env)

MatchPackages ==
    /\ Top.stage = "described"
    /\ LET p == Top
           matches == IF p.heard # 0 THEN {}
                      ELSE IF p.program = "cairo-test" THEN MatchMany(p, p.told.manifest)
                      ELSE MatchOne(p, p.told.manifest)
       IN  \/ matches = {} /\ ExitWith(Failure)
           \/ /\ \E found \in matches :
                    LET next == [p EXCEPT !.stage = "prepared", !.todo = found]
                    IN  IF Flag(p, "no_build") /\ p.program # "prove" THEN GoOn(next)
                        ELSE StartChild(next, Prepared(p, found))
              /\ UNCHANGED outcome
    /\ UNCHANGED <<asked, artifacts, uses, accident>>

(* TargetGroupDeduplicator: each test, or group of tests, of a package     *)
(* once.                                                                   *)
TestGroups(found) ==
    LET groups(m) == [i \in DOMAIN Tests(m) |-> <<m, ArtifactName(Tests(m)[i])>>]
        visited == FlattenSeq([i \in DOMAIN found |-> groups(found[i])])
    IN  FoldLeft(LAMBDA seen, g : IF g \in ToSet(seen) THEN seen
                                  ELSE Append(seen, g), <<>>, visited)

(* What is opened: of kind and name.                                       *)
Opened(p, found) ==
    IF p.program = "cairo-test"
    THEN [i \in DOMAIN TestGroups(found) |-> <<"test", TestGroups(found)[i][2]>>]
    ELSE IF p.program = "prove" THEN <<>>
    ELSE <<<<"lib", found[1]>>>>

(* cairo-test asks metadata for the directory, the others the environment. *)
OpenDir(p) ==
    IF p.program = "cairo-test"
    THEN <<p.told.target, IF "profile" \in DOMAIN p.env THEN p.env["profile"] ELSE "dev">>
    ELSE <<p.env["target_dir"], p.env["profile"]>>

OpenFiles ==
    /\ Top.stage = "prepared"
    /\ LET p == Top
           wanted == Opened(p, p.todo)
           path(i) == OpenDir(p) \o wanted[i]
       IN  IF p.heard # 0 \/ \E i \in DOMAIN wanted : path(i) \notin DOMAIN artifacts
           THEN ExitWith(Failure) /\ UNCHANGED uses
           ELSE /\ uses' = uses \o [i \in DOMAIN wanted |->
                       [what |-> wanted[i], made |-> artifacts[path(i)], by |-> p.exe]]
                /\ ExitWith(0)
    /\ UNCHANGED <<asked, artifacts, accident>>

(* A program of scarb fails, or is killed.                                 *)
ProgramFails ==
    /\ accident = Nothing /\ Top.program \notin {"shell", "tool"}
    /\ accident' = Top.program
    /\ ExitWith(Failure)
    /\ UNCHANGED <<asked, artifacts, uses>>

TreeNext ==
    /\ InProgress
    /\ \/ RefuseArgs \/ Build \/ Metadata \/ Test \/ TestPackage
       \/ RunScripts \/ RunPackageScript \/ ShellStep \/ Tool \/ ExecReplace
       \/ Describe \/ MatchPackages \/ OpenFiles \/ ProgramFails

TreeSpec == TreeInit /\ [][TreeNext]_treeVars

-----------------------------------------------------------------------------
(* What was asked for, read off the first process                          *)

Asker(a) == IF IsBuiltin(a.call) THEN a ELSE [a EXCEPT !.program = a.call.command]

Selected(a) ==
    LET specs == PackageSpecs(Asker(a))
    IN  IF Flag(Asker(a), "workspace") THEN Package
        ELSE IF specs = {All}
        THEN IF ManifestPath(a) \in Package THEN {ManifestPath(a)} ELSE Package
        ELSE UNION specs

(* Of extensions without such arguments it is the environment that says.   *)
FeaturesAsked(a) ==
    Features([a EXCEPT !.call = ScarbCall("build",
        [k \in FeatureArgs \cap DOMAIN a.call.local |-> a.call.local[k]])])

MadeAsAsked(a) == [features |-> FeaturesAsked(a), macros |-> ~Flag(a, "no_proc_macros"),
                   profile |-> Profile(a), exe |-> AppExe(a)]

UsesOf(m, call) ==
    CASE call.program = "tool"         -> {<<"tool", m>>}
      [] call.command = "cairo-test"   -> {<<"test", ArtifactName(t)>> : t \in ToSet(Tests(m))}
      [] OTHER                         -> {}

UsesOfScript(m, script) == UNION {UsesOf(m, script[i]) : i \in DOMAIN script}

Ran(a) == IF Flag(a, "workspace_root") THEN {Root} ELSE Selected(a)

Expected(a) ==
    CASE a.call.command = "test" -> UNION {UsesOfScript(m, TestScript(m)) : m \in Selected(a)}
      [] a.call.command = "run"  ->
            UNION {UsesOfScript(m, Scripts[m][a.call.local["script"]]) :
                      m \in {x \in Ran(a) : HasScript(x, a.call.local["script"])}}
      [] a.call.command = "cairo-test" -> UNION {UsesOf(m, a.call) : m \in Selected(a)}
      [] a.call.command \in {"cairo-run", "execute", "prove"} -> {<<"lib", m>> : m \in Selected(a)}
      [] OTHER -> {}

EachOnce(a) ==
    /\ {uses[i].what : i \in DOMAIN uses} = Expected(a)
    /\ Len(uses) = Cardinality(Expected(a))

(* What cannot be done.                                                    *)
AskedInVain(a) ==
    \/ RefusesArgs(a) \/ RefusesArgs(Asker(a)) \/ ~HasManifest(a)
    \/ ~IsBuiltin(a.call) /\ FindExternal(a) = <<>>
    \/ ~Flag(Asker(a), "workspace") /\ {} \in PackageSpecs(Asker(a))
    \/ a.call.command \in {"cairo-run", "execute", "prove"} /\ Cardinality(Selected(a)) # 1
    \/ ~Flag(a, "workspace_root") /\ FeaturesAsked(a).names # All
       /\ \E f \in FeaturesAsked(a).names : \A m \in Selected(a) : f \notin FeaturesOf[m]
    \/ "no_build" \in DOMAIN a.call.local
    \/ /\ a.call.command = "run"
       /\ \E m \in Ran(a) : ~HasScript(m, a.call.local["script"])

(* Where the code does something else.                                     *)

(* SCARB_PACKAGES_FILTER is for `test` and again for each `cairo-test` it  *)
(* starts: packages of the filter are tested for each of them.             *)
FilterOfEnvironment(a) == a.call.command = "test" /\ "package" \in DOMAIN a.env

(* Specifications that share a package: the duplicates may not be          *)
(* neighbours.                                                             *)
Overlap(a) ==
    \E s, t \in PackageSpecs(Asker(a)) : s # t /\ s \cap t # {}

(* `test` lets a feature of one package pass for all it tests; the build   *)
(* of the others refuses it.                                               *)
SplitFeatures(a) ==
    /\ a.call.command = "test" /\ FeaturesAsked(a).names # All
    /\ \E m \in Selected(a) : ~ (FeaturesAsked(a).names \subseteq FeaturesOf[m])

Offline(p) == Flag(p, "offline")

(* --offline on the command line is not in the environment of children.    *)
OfflineLost(a) == "offline" \in DOMAIN a.call.global

Keeps(p, a) ==
    /\ Profile(p) = Profile(a) /\ CacheDir(p) = CacheDir(a)
    /\ TargetDir(p) = TargetDir(a) /\ p.exe \in {a.exe, AppExe(a)}
    /\ Flag(p, "no_proc_macros") = Flag(a, "no_proc_macros")
    /\ ManifestPath(p) = IF a.call.command = "test" /\ p # stack[1] THEN p.dir ELSE ManifestPath(a)
    /\ Offline(p) = Offline(a) \/ OfflineLost(a)
    /\ Verbosity(p) = Verbosity(a) \/ VerbosityArgs \cap DOMAIN a.call.local # {}

(* Every scarb below a command has its profile, directories, macros and    *)
(* verbosity, and the manifest of the package it is for; a command that    *)
(* ends well has tested or run each package it was asked for, and no       *)
(* other, once, and what it opened for that was built by this command with *)
(* the features that were asked for; one that ends badly was asked for     *)
(* what cannot be done, or a program failed.  `run` runs all scripts,      *)
(* whatever becomes of one, and ends with the code of the first that       *)
(* failed.                                                                 *)
DoneAsAsked ==
    /\ \A i \in DOMAIN stack : stack[i].program = "scarb" => Keeps(stack[i], asked)
    /\ outcome = 0 /\ ~FilterOfEnvironment(asked) /\ ~Overlap(asked) => EachOnce(asked)
    /\ outcome = 0 => \A i \in DOMAIN uses :
          \/ uses[i].made \in {Nothing, MadeAsAsked(asked)}
          \/ "no_build" \in DOMAIN asked.call.local
    /\ outcome \notin {0, Nothing} =>
          \/ accident # Nothing \/ AskedInVain(asked) \/ SplitFeatures(asked)
          \/ FilterOfEnvironment(asked)
    /\ accident = "tool" => outcome \in {Nothing, ToolCode}
    /\ /\ outcome # Nothing /\ asked.call.command = "run"
       /\ accident \in {"tool", Nothing} /\ ~RefusesArgs(asked) /\ ~Overlap(asked)
       /\ Flag(asked, "workspace") \/ {} \notin PackageSpecs(asked)
       => EachOnce(asked)
=============================================================================
