------------------------- MODULE MCWorkspaceResolve -------------------------
(* A workspace with two members: R depends on A and on its sibling S; S    *)
(* depends on A, and on T for its tests only.  A, a git package that may   *)
(* be locked, depends on the procedural macro P by path, which is a git    *)
(* dependency from there.  C is `core`.                                    *)
EXTENDS WorkspaceResolve

CONSTANTS R, S, A, P, T, C,
          rangeR, depA, lockA, depS, depP, gitP, devT, depC,
          default, f, g, h   \* features

MCDependencies == [p \in Package |-> CASE p = R -> {depA, depS}
                                       [] p = S -> {depA, devT}
                                       [] p = A -> {depP}
                                       [] OTHER -> {}]
MCRangeKeys == [p \in Package |-> CASE p = R -> {rangeR}
                                    [] p = S -> {depS}
                                    [] p = A -> {depA}
                                    [] p = P -> {gitP}
                                    [] p = T -> {devT}
                                    [] p = C -> {depC}]
MCLocked == [k \in Key |-> IF k = depA THEN lockA ELSE k]
MCRewritten == [p \in Package |-> [k \in Key |->
                   IF p = A /\ k = depP THEN gitP ELSE k]]
MCAnswer == [k \in Key |-> CASE k = rangeR -> R
                             [] k = depS -> S
                             [] k \in {depA, lockA} -> A
                             [] k \in {depP, gitP} -> P
                             [] k = devT -> T
                             [] k = depC -> C]
MCDepKind == [k \in Key |-> IF k = devT THEN "test" ELSE "normal"]

MCFlag == {<<R, default>>, <<R, f>>, <<S, f>>, <<A, default>>, <<A, g>>,
           <<A, h>>, <<T, default>>, <<S, default>>}

NoRequest == [features |-> {}, default |-> TRUE]
Requested(features, withDefault) ==
    [NoRequest EXCEPT !.features = features, !.default = withDefault]

Target(name, kind) ==
    [name |-> name, kind |-> kind, group |-> NoGroup, integration |-> FALSE]
Integration(name) ==
    [name |-> name, kind |-> "test", group |-> "integration",
     integration |-> TRUE]
LibAndTests == <<Target("lib", "lib"), Target("unit", "test"),
                 Integration("one"), Integration("two")>>

Plain(class) ==
    [class |-> class, builtin |-> FALSE, prebuilt |-> FALSE,
     features |-> [x \in {} |-> {}], request |-> [k \in Key |-> NoRequest],
     targets |-> <<>>, reexports |-> {}, allow |-> {}, tool |-> TRUE,
     cairo |-> TRUE]

(* R's feature f enables g of A, which enables h of A.                     *)
Usual == [p \in Package |->
    CASE p = R -> [Plain("lib") EXCEPT
             !.features = (default :> {<<NoPackage, f>>}) @@ (f :> {<<A, g>>}),
             !.request = [k \in Key |-> IF k = depA THEN Requested({}, FALSE)
                                                    ELSE NoRequest],
             !.targets = LibAndTests, !.allow = {A}]
      [] p = S -> [Plain("lib") EXCEPT
             !.features = (f :> {<<A, h>>}),
             !.targets = <<Target("s", "lib"), Target("sunit", "test")>>,
             !.allow = {P}]
      [] p = A -> [Plain("lib") EXCEPT
             !.features = (default :> {<<NoPackage, g>>}) @@
                          (g :> {<<NoPackage, h>>}) @@ (h :> {}),
             !.reexports = {P}]
      [] p = P -> [Plain("plugin") EXCEPT !.prebuilt = TRUE]
      [] p = T -> [Plain("lib") EXCEPT !.features = (default :> {})]
      [] p = C -> Plain("lib")]

Option == [all |-> FALSE, features |-> {}, default |-> TRUE,
           ignoreVersion |-> FALSE, loadPrebuilt |-> TRUE, loadMacros |-> TRUE]

(* The workspace with fewer targets, and a plugin that only tests load.    *)
Small == [Usual EXCEPT ![R].targets = <<Target("unit", "test")>>,
                       ![S].targets = <<Target("s", "lib")>>,
                       ![T] = Plain("plugin")]

Invoke(m, o) == [manifests |-> m, opts |-> o]

(* As usual, and with other options; S does not trust prebuilt macros; h   *)
(* of A needs a package that A does not depend on; A has neither a library *)
(* nor a plugin; a feature asked of A is unknown; tests of R need a plugin *)
(* that S re-exports and uses in its tests only; wrong versions of Cairo;  *)
(* [tool.scarb] of S cannot be read.                                       *)
MCInvocations ==
    << Invoke(Usual, Option),
       Invoke(Small, [Option EXCEPT !.features = {f}, !.default = FALSE]),
       Invoke(Small, [Option EXCEPT !.features = {h}]),
       Invoke([Small EXCEPT ![S].allow = {}, ![P].cairo = FALSE,
                            ![A].cairo = FALSE],
              [Option EXCEPT !.all = TRUE, !.ignoreVersion = TRUE]),
       Invoke([Small EXCEPT ![A].features = (g :> {<<S, default>>}) @@
                                            (h :> {})], Option),
       Invoke([Small EXCEPT ![A].class = "other", ![A].reexports = {}], Option),
       Invoke([Usual EXCEPT ![R].request[depA] = Requested({f}, TRUE)], Option),
       Invoke([Small EXCEPT ![S].reexports = {T}],
              [Option EXCEPT !.loadMacros = FALSE]),
       Invoke([Usual EXCEPT ![A].cairo = FALSE], Option),
       Invoke([Small EXCEPT ![S].tool = FALSE], Option) >>
=============================================================================
