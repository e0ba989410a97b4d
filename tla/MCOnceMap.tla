----------------------------- MODULE MCOnceMap -----------------------------
(* Two callers and a bystander for the first key, one caller that has the  *)
(* second key for itself.                                                  *)
EXTENDS OnceMap

CONSTANTS K1, K2, V1, V2, C1, C2, C3, B1

MCKeyOf == [c \in {C1, C2, C3, B1} |-> IF c = C3 THEN K2 ELSE K1]
=============================================================================
