--------------------------- MODULE MCAdvisoryLock ---------------------------
(* Two instances of scarb, three tasks in one of them (one per role in the *)
(* hand-over: the last guard going, the opener, the one that shares).      *)
EXTENDS AdvisoryLock

CONSTANTS P1, P2, T1, T2, T3, T4

MCProcessOf == [t \in {T1, T2, T3, T4} |-> IF t = T4 THEN P2 ELSE P1]
=============================================================================
