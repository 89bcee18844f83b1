--------------------------- MODULE MCEventStream ---------------------------
(* Instances of EventStream small enough for TLC. *)
EXTENDS EventStream, TLC

CONSTANTS w1, w2, q1, ws, sse
=============================================================================
