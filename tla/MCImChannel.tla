---------------------------- MODULE MCImChannel ----------------------------
(* Instances of ImChannel small enough for TLC. *)
EXTENDS ImChannel, TLC

CONSTANTS w1, a1, a2
=============================================================================
