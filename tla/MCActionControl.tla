-------------------------- MODULE MCActionControl --------------------------
(* Instances of ActionControl small enough for TLC. *)
EXTENDS ActionControl, TLC

CONSTANTS w1, w2
=============================================================================
