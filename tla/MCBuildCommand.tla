--------------------------- MODULE MCBuildCommand ---------------------------
(* The scene "unit" is incremental compilation alone, by two builds.  In   *)
(* "contracts" and "tests" one command builds contracts, an executable and *)
(* tests, with macros; in "library" two commands build one library.        *)
EXTENDS BuildCommand

CONSTANTS B1, B2, App, Lib

MCReach == [c \in {App, Lib} |-> IF c = App THEN {App, Lib} ELSE {Lib}]

Symmetry == Permutations({B1, B2})

MCScenes == {"unit", "contracts", "tests", "library"}

(* Two contracts of one name, one of a dependency selected by a wildcard   *)
(* and called as the path of the first is written in a file name, one that *)
(* the dependency re-exports from another crate, one left out.             *)
MCContracts == {<<"app", "a", "C">>, <<"app", "b", "C">>,
                <<"dep", "m", "app_a_C">>, <<"far", "n", "E">>, <<"dep", "F">>}
MCWords == [i \in UNION {ToSet(c) : c \in MCContracts} |->
               IF i = "app_a_C" THEN <<"app", "a", "C">> ELSE <<i>>]
MCReexports == {[at |-> <<"dep">>, name |-> "p", target |-> <<"far", "n">>]}
Externals == {[wildcard |-> TRUE, path |-> <<"dep", "m">>],
              [wildcard |-> FALSE, path |-> <<"dep", "p", "E">>]}

Macro(p, ready) == [kind |-> "macro", package |-> p, prebuilt |-> ready]
Target(kind, name, macros, props, external, starknet) ==
    [kind |-> kind, package |-> "app", crate |-> "app", target |-> name,
     plugins |-> macros, props |-> props, external |-> external,
     starknet |-> starknet]

MCUnits == [s \in MCScenes |->
    CASE s = "contracts" ->
            <<Target("starknet-contract", "c", {"m1", "m3"}, {"sierra"}, Externals, TRUE),
              Macro("m1", FALSE), Macro("m2", FALSE), Macro("m3", TRUE)>>
      [] s = "tests" ->
            <<Target("executable", "x", {}, {}, {}, FALSE),
              Target("test", "t", {"m1"}, {}, {}, TRUE), Macro("m1", FALSE)>>
      [] s = "library" ->
            <<Target("lib", "l", {}, {"sierra"}, {}, FALSE)>>
      [] OTHER -> <<>>]

Command(op, packages, include, exclude) ==
    [op |-> op, packages |-> packages, include |-> include,
     exclude |-> exclude, names |-> {}]

MCCommands == [s \in MCScenes |->
    CASE s = "contracts" -> {Command("build", {"app"}, {}, {"test"}),
                             Command("check", {"app", "m2"}, {}, {"test"})}
      [] s = "tests" -> {Command("build", {"app"}, {"test", "executable"}, {})}
      [] s = "library" -> {Command("build", {"app"}, {}, {"test"})}
      [] OTHER -> {}]

MCMaxCommands == [s \in MCScenes |-> CASE s \in {"contracts", "library"} -> 2
                                       [] s = "tests" -> 1
                                       [] OTHER -> 0]
MCMostEdits == [s \in MCScenes |-> 1]
MCIntended == [s \in MCScenes |->
    IF s = "contracts" THEN MCContracts \ {<<"dep", "F">>} ELSE {}]
=============================================================================
