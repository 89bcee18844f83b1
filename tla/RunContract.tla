---------------------------- MODULE RunContract ----------------------------
(***************************************************************************)
(* What a Run promises to every client of the control plane, whatever the  *)
(* worker, the Harness and the people who decide on it do: its status only *)
(* follows the edges of domain/run_state.py, nothing about a terminal Run  *)
(* changes any more, a cancelled Run has no step left open, and an answer  *)
(* is published in the very step that completes the Run.                   *)
(***************************************************************************)
CONSTANT Steps          \* names of every step a Run can ever own

VARIABLES status,       \* Run.status
          open,         \* steps that are PENDING, RUNNING or WAITING_APPROVAL
          answered      \* the answer artifact and run.completed are committed

vars == <<status, open, answered>>

RunStatus == {"PENDING", "RUNNING", "WAITING_APPROVAL", "WAITING_USER",
              "REPLANNING", "COMPLETED", "FAILED", "CANCELLED"}

Terminal == {"COMPLETED", "FAILED", "CANCELLED"}

\* allowed_run_transitions: the adjacency of domain/run_state.py
Transitions ==
    [ s \in RunStatus |->
        CASE s = "PENDING"  -> {"RUNNING", "CANCELLED", "FAILED"}
          [] s = "RUNNING"  -> {"WAITING_APPROVAL", "WAITING_USER", "REPLANNING",
                                "COMPLETED", "FAILED", "CANCELLED"}
          [] s \in {"WAITING_APPROVAL", "WAITING_USER", "REPLANNING"} ->
                               {"RUNNING", "FAILED", "CANCELLED"}
          [] OTHER          -> {} ]

Init ==
    /\ status = "PENDING"
    /\ open = {}
    /\ answered = FALSE

\* Planning, dispatch, completion and revival of steps: the status stays.
Work ==
    /\ status \notin Terminal
    /\ status' = status
    /\ open' \in SUBSET Steps
    /\ answered' = answered

\* One edge of the status graph.
Move ==
    /\ status' \in Transitions[status]
    /\ open' \in SUBSET Steps
    /\ status' = "CANCELLED" => open' = {}
    /\ answered' = (status' = "COMPLETED")

Next == Work \/ Move

Spec == Init /\ [][Next]_vars
=============================================================================
