---------------------------- MODULE MCAutomation ----------------------------
(***************************************************************************)
(* Instances of Automation small enough for TLC: a workflow whose steps    *)
(* fork is triggered by hand, one without child Runs gets a schedule.      *)
(***************************************************************************)
EXTENDS Automation, TLC

CONSTANTS w1, w2, k1

\* An analysis and a review side by side, and a notification that waits for both.
Fork == [kind |-> <<"ANALYSIS", "HUMAN_REVIEW", "NOTIFICATION">>, deps |-> <<{}, {}, {1, 2}>>]

Flat == [kind |-> <<"NOTIFICATION", "NOTIFICATION", "NOTIFICATION">>, deps |-> <<{}, {}, {}>>]

\* A reviewer has the last word.
Signed == [kind |-> <<"NOTIFICATION", "NOTIFICATION", "HUMAN_REVIEW">>, deps |-> <<{}, {1}, {2}>>]

Single == [kind |-> <<"ANALYSIS">>, deps |-> <<{}>>]

AllPlans == {Fork, Flat, Signed}
SinglePlan == {Single}

\* Where there is no schedule its clock has run out; where there is one, crashes and
\* keys would add nothing.
MCInit ==
    /\ Init
    /\ wf.plan # Flat => now = Horizon /\ wf.policy # "FORBID"
    /\ wf.plan = Flat => now = 0 /\ wf.policy = "FORBID" /\ crashes = MaxCrashes

\* The action constraint: it bounds what people do, never a step that Fairness is about.
Scope ==
    /\ wf.plan # Flat => /\ ~sched'.exists
                         /\ wf'.status \in {"DRAFT", "ACTIVE"}
    /\ wf.plan = Flat => /\ wf'.status # "RETIRED"
                         /\ \A e \in Execs : exec'[e].key = NoKey /\ exec'[e].status # "CANCELLED"

MCSpec == MCInit /\ [][Next]_vars /\ Fairness
=============================================================================
