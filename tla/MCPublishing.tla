---------------------------- MODULE MCPublishing ----------------------------
(* Three scenes, for they share no state.  In "publish", two runs of       *)
(* `scarb publish` in one target directory, one of another version         *)
(* elsewhere, and a command that fetches the package.  In "edit", three    *)
(* commands in a workspace: one that adds a dependency, one that adds or   *)
(* removes another or the same, one that only reads; the root is a package *)
(* too, `in` is a workspace of its own below a member, `y` is a package    *)
(* that no workspace lists.  In "doc", the book of a crate that may show,  *)
(* group and re-export its own items and those of another crate.           *)
EXTENDS Publishing, ManifestEditor, ScarbDoc

CONSTANTS P1, P2, E1, C1, M1, M2, M3, X, Y, G, H

VARIABLE scene

Spelt(name, kind, version, place, registry) ==
    [name |-> name, kind |-> kind, version |-> version, git |-> place = "git",
     path |-> place = "path", registry |-> registry]

Source(path, ignored, include) ==
    [path |-> path, ignored |-> ignored, nested |-> FALSE,
     include |-> include, badName |-> FALSE]

Plain == [version |-> "1.0", lib |-> TRUE, plugin |-> FALSE, builtin |-> FALSE,
          cargoLock |-> FALSE, publish |-> TRUE, repository |-> "none",
          readme |-> "none", license |-> "none",
          dependencies |-> {Spelt("a", "normal", "1", "path", "none"),
                            Spelt("t", "test", "2", "git", "none")},
          files |-> {Source("src/lib.cairo", FALSE, "no"),
                     Source("Scarb.toml", FALSE, "no"),
                     Source("Scarb.lock", FALSE, "no")}]

(* It was reworked.                                                        *)
Reworked == [Plain EXCEPT !.dependencies =
                            {Spelt("b", "normal", "1", "none", "elsewhere")},
                        !.plugin = TRUE, !.repository = "dirty",
                        !.readme = "docs/README.md",
                        !.files = @ \cup {Source("docs/README.md", FALSE, "no"),
                                          Source("gen/a.cairo", TRUE, "below")}]
(* A path without a version, a second README, a package not to publish.    *)
Unversioned == [Plain EXCEPT !.dependencies =
                                 {Spelt("a", "test", "any", "path", "none")}]
Withheld == [Reworked EXCEPT !.publish = FALSE]
Twice == [Reworked EXCEPT !.files = @ \cup {Source("README.md", FALSE, "no")}]
Older == [Plain EXCEPT !.version = "0.9"]

MCPackagesOf == [p \in Publisher |->
    CASE p = P1 -> {Plain, Unversioned, Twice}
      [] p = P2 -> {Reworked, Withheld}
      [] OTHER -> {Older}]

MCDirectory == {<<>>, <<"a">>, <<"a", "lib">>, <<"a", "in">>, <<"lib">>,
                <<"x">>, <<"x", "y">>, <<".z">>}
MCHidden == {<<".z">>}
MCTestFiles == [d \in MCDirectory |-> CASE d = <<"a">> -> {"one", "two"}
                                        [] d = <<"lib">> -> {"lib"}
                                        [] OTHER -> {}]

Inline(keys) == [form |-> "inline", keys |-> keys]
InTable(keys) == [form |-> "table", keys |-> keys]
Inherited(features) == Inline(("workspace" :> TRUE) @@
    IF features = {} THEN <<>> ELSE ("features" :> features))
Listed(normal, dev) ==
    [s \in Section |-> IF s = "dependencies" THEN normal ELSE dev]
Named(name) == [EmptyDocument EXCEPT !.name = name,
                                     !.fields = ("version" :> Inherit)]
Alone(name) == [Named(name) EXCEPT !.fields = ("version" :> "3")]
Declares(kind, external) ==
    [kind |-> kind, name |-> Absent, external |-> external]

AppToml == [Named("app") EXCEPT
    !.workspace = [members |-> {<<"*">>, <<"a", "in">>},
                   fields |-> ("version" :> "1"),
                   dependencies |->
                       ("lib" :> ("path" :> [up |-> 0, down |-> <<"lib">>])) @@
                       ("ext" :> (("version" :> "1") @@ ("features" :> {"f"}))),
                   tool |-> ("t" :> ("k" :> "shared"))],
    !.dependencies = Listed(("lib" :> Inherited({})), <<>>),
    !.cairo = (Y :> FALSE),
    !.profiles =
        ("ci" :> [inherits |-> Absent, cairo |-> <<>>,
                  tool |-> ("t" :> (("merge-strategy" :> "merge") @@
                                    ("l" :> "ci")))]) @@
        ("bench" :> [inherits |-> "release", cairo |-> (X :> TRUE),
                     tool |-> Absent]) @@
        ("dev" :> [inherits |-> Absent, cairo |-> (Y :> TRUE),
                   tool |-> Absent])]
AToml == [Named("a") EXCEPT
    !.dependencies = Listed(
        ("lib" :> Inherited({"g"})) @@
        ("foo" :> Inline(("git" :> "u") @@ ("branch" :> "b") @@
                         ("features" :> {"h"}))),
        ("ext" :> Inherited({})) @@ ("bar" :> InTable("version" :> "1"))),
    !.targets = <<Declares("starknet-contract", {<<"lib", "C">>})>>,
    !.features = ("default" :> {<<Absent, "f">>, <<"lib", "g">>}) @@
                 ("f" :> {}),
    !.tool = ("t" :> Inherit)]
LibToml == [Named("lib") EXCEPT
    !.dependencies = Listed(
        ("ext" :> Inherited({"h"})) @@
        ("reg" :> Inline(("version" :> "1") @@ ("registry" :> "R"))), <<>>)]
InToml == [Alone("in") EXCEPT
    !.workspace = NoWorkspace,
    !.dependencies = Listed(
        ("lib" :> Inline("path" :> [up |-> 2, down |-> <<"lib">>])), <<>>)]
YToml == [Alone("y") EXCEPT !.targets = <<Declares("cairo-plugin", {})>>]
ZToml == [EmptyDocument EXCEPT !.patch = TRUE]

MCOriginal == [d \in {<<>>, <<"a">>, <<"lib">>, <<"a", "in">>, <<"x", "y">>, <<".z">>} |->
    CASE d = <<>> -> AppToml
      [] d = <<"a">> -> AToml
      [] d = <<"lib">> -> LibToml
      [] d = <<"a", "in">> -> InToml
      [] d = <<"x", "y">> -> YToml
      [] d = <<".z">> -> ZToml]

Edit(dir, package, op, section, name, ask, profile) ==
    [dir |-> dir, package |-> package, op |-> op, section |-> section,
     name |-> name, ask |-> ask, profile |-> profile, dry |-> FALSE]
Add(dir, package, section, name, ask) ==
    Edit(dir, package, "add", section, name, ask, "ci")
Reads(dir, profile) ==
    Edit(dir, Absent, "none", "dependencies", "none", <<>>, profile)

MCCallsOf == [c \in {M1, M2, M3} |->
    CASE c = M1 ->
           {Add(<<"a">>, Absent, "dependencies", "foo", "path" :> <<"a", "in">>),
            Add(<<>>, "a", "dependencies", "foo", ("git" :> "v") @@ ("tag" :> "t")),
            Add(<<"a">>, Absent, "dev-dependencies", "ext", "version" :> "2"),
            Add(<<"a">>, Absent, "dev-dependencies", "bar", "version" :> "2"),
            Add(<<"lib">>, Absent, "dependencies", "reg", "git" :> "v")}
      [] c = M2 ->
           {Edit(<<"a">>, Absent, "remove", "dependencies", "foo", <<>>, "bench"),
            [Add(<<>>, "a", "dependencies", "foo", "version" :> "3")
                 EXCEPT !.profile = "bench"],
            [Add(<<"a", "in">>, Absent, "dependencies", "lib", "git" :> "v")
                 EXCEPT !.profile = "dev"],
            Edit(<<>>, Absent, "remove", "dependencies", "lib", <<>>, "ci"),
            [Add(<<"a">>, Absent, "dependencies", "new", "version" :> "1")
                 EXCEPT !.dry = TRUE]}
      [] c = M3 -> {Reads(<<>>, "release"), Reads(<<"x", "y">>, "dev"),
                    Reads(<<"a">>, "dev"), Reads(<<"a", "in">>, "dev")}]

Element(kind) ==
    [kind |-> kind, public |-> TRUE, hidden |-> FALSE, group |-> NoGroup, uses |-> {},
     refs |-> {}, signature |-> {}, trait |-> <<>>, args |-> {}]
Grouping(kind, group) == [Element(kind) EXCEPT !.group = group]

(* A private `use` beside the public ones.                                 *)
Uses(targets) == [target : targets, public : {TRUE}]
                 \cup {[target |-> <<"d", "k", "W">>, public |-> FALSE]}

CrateM  == <<"c", "m">>
StructX == <<"c", "m", "X">>
ModuleN == <<"c", "m", "n">>
EnumY   == <<"c", "m", "n", "Y">>
FarK    == <<"d", "k">>
StructZ == <<"d", "k", "Z">>
ConstQ  == <<"d", "Q">>

(* c has a module m and a trait t, which may be named as its list is; an   *)
(* impl of it for a struct, and one for a tuple; m has a struct and a      *)
(* module n with an enum; d, the other crate, has a module k.              *)
Program(uses, m, x, n, k, farUses, z, t) ==
    (<<"c">> :> [Element("modules") EXCEPT !.uses = Uses(uses)]) @@
    (CrateM :> m) @@ (StructX :> x) @@ (ModuleN :> n) @@
    (Append(StructX, "f") :> [Element("part") EXCEPT !.signature = {StructZ, EnumY}]) @@
    (EnumY :> [Element("enums") EXCEPT !.refs = {StructX, Append(StructX, "f")}]) @@
    (Append(EnumY, "V") :> [Element("part") EXCEPT !.refs = {t}]) @@
    (t :> [Element("traits") EXCEPT !.refs = {CrateM, StructZ}]) @@
    (Append(t, "go") :> Element("part")) @@
    (<<"c", "I">> :> [Element("impls") EXCEPT !.trait = t, !.args = {StructX}]) @@
    (<<"c", "J">> :> [Element("impls") EXCEPT !.trait = t, !.args = {<<"tuple">>}]) @@
    (<<"d">> :> Element("modules")) @@
    (FarK :> [Grouping("modules", k) EXCEPT !.uses = Uses(farUses)]) @@
    (StructZ :> Grouping("structs", z)) @@ (ConstQ :> Element("constants")) @@
    (<<"d", "k", "W">> :> Grouping("constants", H))

MCPrograms ==
    {Program(uses, [Grouping("modules", g) EXCEPT !.public = public],
             [x EXCEPT !.refs = {EnumY, Append(EnumY, "V")}],
             [n EXCEPT !.uses = Uses({ConstQ})], k, farUses, z,
             IF k = G /\ z = H THEN <<"c", "traits">> ELSE <<"c", "T">>) :
        uses    \in {{}, {StructX}, {ModuleN, EnumY}, {StructZ}, {FarK}, {FarK, StructZ},
                     {ModuleN}},
        g       \in {NoGroup, G},
        public  \in BOOLEAN,
        x       \in {Element("structs"), Grouping("structs", G),
                     [Element("structs") EXCEPT !.hidden = TRUE]},
        n       \in {Element("modules"), Grouping("modules", H),
                     [Element("modules") EXCEPT !.public = FALSE]},
        k       \in {NoGroup, G},
        farUses \in {{}, {ConstQ}},
        z       \in {NoGroup, H}}

MCRootCrate == <<"c">>

(* What is not on the stage has one state.                                 *)
ScenesInit ==
    /\ scene \in {"publish", "edit", "doc"}
    /\ PublishingInit /\ EditorInit
    /\ scene # "publish" =>
           pkg = [p \in Publisher |-> CHOOSE q \in PackagesOf[p] : TRUE]
    /\ scene # "edit" =>
           call = [c \in Command |-> CHOOSE k \in CallsOf[c] : TRUE]
    /\ IF scene = "doc" THEN DocInit
       ELSE /\ program = <<>> /\ private = FALSE /\ tree = <<>> /\ pending = {}
            /\ summary = {} /\ files = <<>> /\ docStage = "parsed"

ScenesNext ==
    \/ scene = "publish" /\ PublishingNext /\ UNCHANGED <<scene, editVars, docVars>>
    \/ scene = "edit" /\ EditorNext /\ UNCHANGED <<scene, allVars, docVars>>
    \/ scene = "doc" /\ DocNext /\ UNCHANGED <<scene, allVars, editVars>>

ScenesSpec == ScenesInit /\ [][ScenesNext]_<<scene, allVars, editVars, docVars>>
=============================================================================
