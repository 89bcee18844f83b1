--------------------------- MODULE MCRunLifecycle ---------------------------
(* Instances of RunLifecycle small enough for TLC. *)
EXTENDS RunLifecycle, TLC

CONSTANTS e1, e2
\* step 2 depends on step 1
Chain == [c \in Caps |-> IF c = 2 THEN {1} ELSE {}]
Flat == [c \in Caps |-> {}]

Symmetry == Permutations(Executors)
=============================================================================
