------------------------------ MODULE Manifest ------------------------------
(***************************************************************************)
(* What scarb makes of a Scarb.toml (src/scarb/src/core/manifest,          *)
(* internal/serdex.rs): which text it refuses, what a member inherits from *)
(* its workspace, what a dependency is a dependency on, which targets a    *)
(* package has and which compiler settings a profile has.                  *)
(*                                                                         *)
(* A manifest is a record; its tables are functions from the keys that are *)
(* there.  A directory is the sequence of names that leads to it, and a    *)
(* relative path is the number of its "..", then names.                    *)
(***************************************************************************)
EXTENDS Sequences, SequencesExt, FiniteSetsExt

CONSTANTS
    Directory,  \* the directories there are
    TestFiles,  \* of each directory: the stems of the Cairo files in `tests`
    Setting,    \* the keys of [cairo]
    DevSetting, \* the one whose default is on for the profile `dev` only
    Absent,     \* no such section, or no such key
    Inherit,    \* { workspace = true }
    Failed      \* an error

Section == {"dependencies", "dev-dependencies"}
Builtin == {"dev", "release"}

(* What is left of a manifest that was truncated.                          *)
EmptyDocument ==
    [name |-> Absent, fields |-> <<>>, workspace |-> Absent,
     dependencies |-> [s \in Section |-> <<>>], patch |-> FALSE,
     targets |-> <<>>, tests |-> Absent, features |-> <<>>,
     cairo |-> <<>>, profiles |-> <<>>, tool |-> Absent]

NoWorkspace == [members |-> {}, fields |-> <<>>, dependencies |-> <<>>,
                tool |-> <<>>]

ValueOf(table, key) == IF key \in DOMAIN table THEN table[key] ELSE Absent

(* RelativeUtf8PathBuf::relative_to_file, and the way back.                *)
Joined(dir, path) == SubSeq(dir, 1, Len(dir) - path.up) \o path.down

-----------------------------------------------------------------------------
(* Dependencies                                                            *)

(* An entry has the form it is written in, a shortcut for the version, an  *)
(* inline table or a table, and keys.  One that inherits has no other key  *)
(* than the features it adds; else the file is no manifest at all.         *)
Inherits(entry) == "workspace" \in DOMAIN entry.keys

Parses(doc) ==
    \A s \in Section : \A n \in DOMAIN doc.dependencies[s] :
        LET entry == doc.dependencies[s][n]
        IN  Inherits(entry) =>
                DOMAIN entry.keys \subseteq {"workspace", "features"}

References(keys) == {"branch", "tag", "rev"} \cap DOMAIN keys

(* Where a dependency comes from: not from two places, not from nowhere.   *)
NoSource(keys, dir) ==
    LET has(k) == k \in DOMAIN keys
    IN  \/ References(keys) # {} /\ ~has("git")
        \/ Cardinality(References(keys)) > 1
        \/ {"version", "git", "path"} \cap DOMAIN keys = {}
        \/ has("git") /\ (has("path") \/ has("registry"))
        \/ has("path") /\ Joined(dir, keys["path"]) \notin Directory

DependencySource(keys, dir) ==
    LET has(k) == k \in DOMAIN keys
    IN  IF has("path") THEN <<"path", Joined(dir, keys["path"])>>
        ELSE IF has("git")
        THEN <<"git", keys["git"], {<<k, keys[k]>> : k \in References(keys)}>>
        ELSE <<"registry", ValueOf(keys, "registry")>>

FeaturesOf(keys) == IF "features" \in DOMAIN keys THEN keys["features"] ELSE {}

(* to_dependency: the paths in a manifest are relative to it.              *)
ToDependency(keys, dir) ==
    IF NoSource(keys, dir)
    THEN Failed
    ELSE [source |-> DependencySource(keys, dir),
          version |-> ValueOf(keys, "version"),
          features |-> FeaturesOf(keys),
          default |-> IF "default-features" \in DOMAIN keys
                      THEN keys["default-features"] ELSE TRUE]

(* Mutant of DependencyOf: an inherited path is relative to the member.    *)
DependencyOf_MemberPath(entry, shared, name, dir, root) ==
    IF ~Inherits(entry)
    THEN ToDependency(entry.keys, dir)
    ELSE IF name \notin DOMAIN shared \/ ~entry.keys["workspace"]
         THEN Failed
         ELSE ToDependency([k \in DOMAIN shared[name] \cup
                                  (DOMAIN entry.keys \ {"workspace"}) |->
                               IF k = "features"
                               THEN FeaturesOf(entry.keys)
                                        \cup FeaturesOf(shared[name])
                               ELSE shared[name][k]], dir)

(* An inherited dependency is that of the workspace, with more features,   *)
(* and its path is relative to the manifest of the workspace.              *)
DependencyOf(entry, shared, name, dir, root) ==
    IF ~Inherits(entry)
    THEN ToDependency(entry.keys, dir)
    ELSE IF name \notin DOMAIN shared \/ ~entry.keys["workspace"]
         THEN Failed
         ELSE ToDependency([k \in DOMAIN shared[name] \cup
                                  (DOMAIN entry.keys \ {"workspace"}) |->
                               IF k = "features"
                               THEN FeaturesOf(entry.keys)
                                        \cup FeaturesOf(shared[name])
                               ELSE shared[name][k]], root)

(* A [workspace] section of the package itself goes before the workspace   *)
(* the package is read as a member of.                                     *)
WorkspaceOf(doc, rootDoc) ==
    IF doc.workspace # Absent THEN doc.workspace
    ELSE IF rootDoc.workspace # Absent THEN rootDoc.workspace
    ELSE NoWorkspace

DependenciesOf(doc, rootDoc, dir, root) ==
    [s \in Section |->
        [n \in DOMAIN doc.dependencies[s] |->
            DependencyOf(doc.dependencies[s][n],
                         WorkspaceOf(doc, rootDoc).dependencies, n, dir, root)]]

(* Fields of [package] and tables of [tool].                               *)
InheritedOf(own, shared) ==
    [k \in DOMAIN own |->
        IF own[k] # Inherit THEN own[k]
        ELSE IF k \in DOMAIN shared THEN shared[k] ELSE Failed]

-----------------------------------------------------------------------------
(* Targets                                                                 *)

Target(kind, name, group, external) ==
    [kind |-> kind, name |-> name, group |-> group, external |-> external]

Declared(doc) ==
    [i \in DOMAIN doc.targets |->
        LET t == doc.targets[i]
        IN  Target(t.kind, IF t.name = Absent THEN <<doc.name>> ELSE t.name,
                   Absent, t.external)]

(* Tests that are not listed are found: the package's own, and those in    *)
(* `tests`, which are one crate if there is a `lib.cairo` and otherwise    *)
(* one per file.  They see the contracts that the package's targets build, *)
(* and those in `tests` the package's own too.                             *)
FoundTests(doc, dir, targets) ==
    LET external == UNION {t.external : t \in {u \in ToSet(targets) :
                                       u.kind = "starknet-contract"}}
        unit == Target("test", <<doc.name, "unittest">>, Absent, external)
        all == external \cup {<<doc.name, "*">>}
        group == <<doc.name, "integrationtest">>
    IN  IF "lib" \in TestFiles[dir]
        THEN <<unit, Target("test", <<doc.name, "tests">>, Absent, all)>>
        ELSE <<unit>> \o SetToSeq({Target("test", <<doc.name, f>>, group, all) :
                                       f \in TestFiles[dir]})

IsPlugin(t) == t.kind = "cairo-plugin"

TargetsOf(doc, dir) ==
    LET targets == IF doc.targets = <<>>
                   THEN <<Target("lib", <<doc.name>>, Absent, {})>>
                   ELSE Declared(doc)
    IN  targets \o
            IF doc.tests # Absent
            THEN [i \in DOMAIN doc.tests |->
                     Target("test", doc.tests[i], Absent, {})]
            ELSE IF \E t \in ToSet(targets) : IsPlugin(t)
                 THEN <<>>
                 ELSE FoundTests(doc, dir, targets)

(* check_unique_targets, and for a whole workspace its groups.             *)
UniqueTargets(targets) ==
    \A i, j \in DOMAIN targets :
        i # j => \/ targets[i].kind # targets[j].kind
                 \/ targets[i].name # targets[j].name

UniqueGroups(targets) ==
    \A t, u \in ToSet(targets) :
        t.group # Absent => <<t.kind, t.group>> # <<u.kind, u.name>>

TargetsFit(targets) ==
    /\ UniqueTargets(targets)
    /\ Len(targets) > 1 => \A t \in ToSet(targets) : ~IsPlugin(t)

(* FeaturesDefinition::validate; a feature is <<package or Absent, name>>. *)
FeaturesFit(features) ==
    \A f \in DOMAIN features :
        LET needed == {e[2] : e \in {x \in features[f] : x[1] = Absent}}
        IN  f \notin needed /\ needed \subseteq DOMAIN features

-----------------------------------------------------------------------------
(* Profiles                                                                *)

(* Tables that are written over others: toml_merge.                        *)
Overlaid(above, below) ==
    [k \in DOMAIN above \cup DOMAIN below |->
        IF k \in DOMAIN above THEN above[k] ELSE below[k]]

DefaultSettings(profile) ==
    [k \in Setting |-> k # DevSetting \/ profile = "dev"]

Unprofiled == [inherits |-> Absent, cairo |-> <<>>, tool |-> Absent]
ProfileSection(doc, profile) ==
    IF profile \in DOMAIN doc.profiles THEN doc.profiles[profile]
                                       ELSE Unprofiled

ParentOf(doc, profile) ==
    LET inherits == ProfileSection(doc, profile).inherits
    IN  IF inherits # Absent THEN inherits
        ELSE IF profile \in Builtin THEN profile ELSE "dev"

(* The settings of a profile: its own section, [cairo], the section of the *)
(* profile it inherits, the defaults of that one.                          *)
SettingsOf(doc, profile) ==
    LET parent == ParentOf(doc, profile)
        inherited == Overlaid(ProfileSection(doc, parent).cairo,
                              DefaultSettings(parent))
    IN  Overlaid(ProfileSection(doc, profile).cairo,
                 Overlaid(doc.cairo, inherited))

ProfileTools(doc, profile) ==
    LET own == ProfileSection(doc, profile).tool
        parent == ProfileSection(doc, ParentOf(doc, profile)).tool
    IN  CASE own = Absent -> parent
          [] parent = Absent -> own
          [] OTHER -> Overlaid(own, parent)

(* toml_merge_apply_strategy: a table replaces another, unless it says     *)
(* that it is to be merged with it.                                        *)
Merged(tables, above) ==
    [k \in DOMAIN tables \cup DOMAIN above |->
        IF k \notin DOMAIN above THEN tables[k]
        ELSE IF k \in DOMAIN tables /\
                ValueOf(above[k], "merge-strategy") = "merge"
             THEN Overlaid(above[k], tables[k])
             ELSE above[k]]

(* A package without [tool] has none, whatever its profile says.           *)
ToolsOf(doc, rootDoc, profile) ==
    LET tools == InheritedOf(doc.tool, WorkspaceOf(doc, rootDoc).tool)
        above == ProfileTools(rootDoc, profile)
    IN  IF doc.tool = Absent THEN Absent
        ELSE IF above = Absent \/ Failed \in Range(tools) THEN tools
        ELSE Merged(tools, above)

-----------------------------------------------------------------------------
(* to_manifest: what the package in `dir` is, as a member of the workspace *)
(* in `root`.  Profiles and patches are those of the root.                 *)
PackageOf(doc, rootDoc, dir, root, profile) ==
    IF doc.name = Absent
    THEN Failed
    ELSE LET fields == InheritedOf(doc.fields,
                                   WorkspaceOf(doc, rootDoc).fields)
             dependencies == DependenciesOf(doc, rootDoc, dir, root)
             tools == ToolsOf(doc, rootDoc, profile)
         IN  IF \/ Failed \in Range(fields)
                \/ \E s \in Section : Failed \in Range(dependencies[s])
                \/ doc.patch /\ dir # root
                \/ ~TargetsFit(TargetsOf(doc, dir))
                \/ ~FeaturesFit(doc.features)
                \/ ParentOf(rootDoc, profile) \notin Builtin
                \/ tools # Absent /\ Failed \in Range(tools)
             THEN Failed
             ELSE [name |-> doc.name, fields |-> fields,
                   dependencies |-> dependencies,
                   targets |-> TargetsOf(doc, dir),
                   settings |-> SettingsOf(rootDoc, profile),
                   tools |-> tools]
=============================================================================
