----------------------------- MODULE Artifacts -----------------------------
(***************************************************************************)
(* What the compilers of scarb write for a compilation unit                *)
(* (src/scarb/src/compiler/compilers): the program of a library, the       *)
(* executable, the tests, and a class for each contract the unit selects,  *)
(* and which of the files the compiling thread writes itself and which it  *)
(* hands to the offloader.                                                 *)
(*                                                                         *)
(* A path is the sequence of its segments, which are identifiers.  A file  *)
(* is called by its target, a stem and an extension; a stem is the words   *)
(* that underscores separate, so that a name with underscores and a path   *)
(* joined with them may be one stem.  A target's name is one word.         *)
(***************************************************************************)
EXTENDS Naturals, SequencesExt

CONSTANTS Contracts,  \* the paths of the contracts of all crates
          Reexports,  \* public uses of a module: [at, name, target]
          Words       \* identifiers, split at their underscores

(* A contract is a module in a crate.                                      *)
ASSUME ArtifactsAssumption ==
    /\ IsFiniteSet(Contracts)
    /\ \A c \in Contracts : c \in Seq(DOMAIN Words) /\ Len(c) > 1
    /\ \A i \in DOMAIN Words : Words[i] \in Seq(STRING) /\ Words[i] # <<>>
    /\ \A r \in Reexports : DOMAIN r = {"at", "name", "target"}

CrateOf(path) == path[1]
NameOf(path) == path[Len(path)]

Under(module, path) == IsPrefix(module, path)

(* A selector is a path, or with a wildcard the beginning of one.          *)
Matches(selector, path) ==
    IF selector.wildcard THEN IsPrefix(selector.path, path)
                         ELSE path = selector.path

Matched(selectors, path) == \E s \in selectors : Matches(s, path)

(* find_contracts of the Cairo compiler.                                   *)
FindContracts(crates) == {c \in Contracts : CrateOf(c) \in crates}

(* The path of a contract as a module that re-exports one above it has it. *)
Exported(r, c) ==
    r.at \o <<r.name>> \o SubSeq(c, Len(r.target) + 1, Len(c))

(* Contracts of dependencies that selectors name, by their own path or by  *)
(* one under which a selected crate re-exports them.                       *)
ExternalContracts(selectors) ==
    LET crates == {CrateOf(s.path) : s \in selectors}
    IN  {c \in FindContracts(crates) : Matched(selectors, c)}
          \cup {c \in Contracts :
                  \E r \in Reexports :
                      /\ CrateOf(r.at) \in crates /\ Under(r.target, c)
                      /\ Matched(selectors, Exported(r, c))}

(* Those of the main component and the external ones, each once.           *)
ProjectContracts(unit) ==
    FindContracts({unit.crate}) \cup ExternalContracts(unit.external)

(* ContractFileStemCalculator: a contract is called by its name, and by    *)
(* its path, joined with underscores, if another contract has that name.   *)
(* A third contract may be called just so.                                 *)
Mangled(path) == FlattenSeq([i \in DOMAIN path |-> Words[path[i]]])

Stem(contracts, c) ==
    IF \E d \in contracts \ {c} : NameOf(d) = NameOf(c)
    THEN Mangled(c) ELSE Words[NameOf(c)]

File(unit, stem, ext) == [target |-> unit.target, stem |-> stem, ext |-> ext]

(* An output: a file, what it is about, and whether the offloader gets it. *)
Output(file, what, offload) ==
    [file |-> file, what |-> what, offload |-> offload]

When(condition, output) == IF condition THEN <<output>> ELSE <<>>

LibOutputs(unit) ==
    When("sierra" \in unit.props,
         Output(File(unit, <<>>, "sierra.json"), <<"program">>, TRUE))
    \o When("sierra-text" \in unit.props,
            Output(File(unit, <<>>, "sierra"), <<"program">>, TRUE))
    \o When("casm" \in unit.props,
            Output(File(unit, <<>>, "casm"), <<"program">>, FALSE))

ExecutableOutputs(unit) ==
    <<Output(File(unit, <<>>, "executable.json"), <<"program">>, FALSE)>>

(* The extensions of the files about contracts: those of tests have a      *)
(* prefix.                                                                 *)
ContractExtension(unit) ==
    IF unit.kind = "test"
    THEN [class |-> "test.contract_class.json",
          casm |-> "test.compiled_contract_class.json",
          list |-> "test.starknet_artifacts.json"]
    ELSE [class |-> "contract_class.json",
          casm |-> "compiled_contract_class.json",
          list |-> "starknet_artifacts.json"]

(* ArtifactsWriter::write: the classes of a contract are offloaded, the    *)
(* list of all of them is written by the compiling thread.                 *)
ContractOutputs(unit, contracts, sierra, casm) ==
    FlattenSeq([i \in 1..Cardinality(contracts) |->
        LET c == SetToSeq(contracts)[i]
            stem == Stem(contracts, c)
            ext == ContractExtension(unit)
        IN  When(sierra, Output(File(unit, stem, ext.class), c, TRUE))
            \o When(casm, Output(File(unit, stem, ext.casm), c, TRUE))])
    \o <<Output(File(unit, <<>>, ContractExtension(unit).list), <<"list">>, FALSE)>>

StarknetOutputs(unit) ==
    ContractOutputs(unit, ProjectContracts(unit),
                    "sierra" \in unit.props, "casm" \in unit.props)

(* Contracts of a test are compiled if it has the starknet plugin.         *)
TestOutputs(unit) ==
    <<Output(File(unit, <<>>, "test.sierra.json"), <<"program">>, TRUE),
      Output(File(unit, <<>>, "test.json"), <<"metadata">>, FALSE)>>
    \o (IF unit.starknet
        THEN ContractOutputs(unit, ProjectContracts(unit), TRUE, FALSE)
        ELSE <<>>)

(* The compiler of the unit's target kind.                                 *)
Outputs(unit) ==
    CASE unit.kind = "lib" -> LibOutputs(unit)
      [] unit.kind = "executable" -> ExecutableOutputs(unit)
      [] unit.kind = "starknet-contract" -> StarknetOutputs(unit)
      [] unit.kind = "test" -> TestOutputs(unit)
=============================================================================
