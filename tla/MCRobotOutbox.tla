--------------------------- MODULE MCRobotOutbox ---------------------------
(* Instances of RobotOutbox small enough for TLC. *)
EXTENDS RobotOutbox, TLC

CONSTANTS w1, w2
=============================================================================
