------------------------- MODULE MCResolverProtocol -------------------------
(* A workspace package R depends on A, a git package, and on D, one of a   *)
(* registry.  A depends on B by path, which from a git checkout is a git   *)
(* dependency, and on T for its tests.  C is `core`.                       *)
EXTENDS ResolverProtocol

CONSTANTS R, A, B, C, D, T,
          rangeR, rangeA, rangeB, rangeC, rangeD, \* made from PubGrub's ranges
          depA, lockA,   \* A as declared, and as locked
          depB, gitB,    \* B by path, and seen from A's checkout
          depC, depD, depT

MCDependencies == [p \in Package |-> CASE p = R -> {depA, depD}
                                       [] p = A -> {depB, depT}
                                       [] OTHER -> {}]
MCRangeKeys == [p \in Package |-> CASE p = R -> {rangeR}
                                    [] p = A -> {rangeA}
                                    [] p = B -> {rangeB}
                                    [] p = C -> {rangeC}
                                    [] p = D -> {rangeD, depD}
                                    [] OTHER -> {}]
MCLocked == [k \in Key |-> IF k = depA THEN lockA ELSE k]
MCRewritten == [p \in Package |-> [k \in Key |->
                   IF p = A /\ k = depB THEN gitB ELSE k]]

AnswerOf(found) ==
    [k \in Key |-> CASE k \notin found -> NoPackage
                     [] k = rangeR -> R
                     [] k \in {rangeA, depA, lockA} -> A
                     [] k \in {rangeB, depB, gitB} -> B
                     [] k \in {rangeC, depC} -> C
                     [] k \in {rangeD, depD} -> D
                     [] k = depT -> T]
MCAnswer == AnswerOf(Key)
=============================================================================
