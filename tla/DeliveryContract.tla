-------------------------- MODULE DeliveryContract --------------------------
(***************************************************************************)
(* What the durable ledger of replies promises for every message: the      *)
(* vendor is asked to send it at most once, and never after a verdict was  *)
(* recorded; the verdict is recorded once, and says "accepted" or          *)
(* "rejected" only of a message that was sent.  What a later receipt may   *)
(* still do is turn "accepted" into "rejected".                            *)
(***************************************************************************)
EXTENDS Naturals

CONSTANT Messages

VARIABLES sent,         \* sent[m]: how often the vendor was asked to send m
          verdict       \* what the ledger says of each message

vars == <<sent, verdict>>

Verdict == {"open", "accepted", "rejected", "unknown"}

Init ==
    /\ sent = [m \in Messages |-> 0]
    /\ verdict = [m \in Messages |-> "open"]

Send(m) ==
    /\ sent[m] = 0
    /\ verdict[m] = "open"
    /\ sent' = [sent EXCEPT ![m] = 1]
    /\ UNCHANGED verdict

Settle(m, v) ==
    /\ verdict[m] = "open"
    /\ v \in {"accepted", "rejected"} => sent[m] = 1
    /\ verdict' = [verdict EXCEPT ![m] = v]
    /\ UNCHANGED sent

Correct(m) ==
    /\ verdict[m] = "accepted"
    /\ verdict' = [verdict EXCEPT ![m] = "rejected"]
    /\ UNCHANGED sent

Next == \E m \in Messages : Send(m) \/ Correct(m) \/ \E v \in Verdict \ {"open"} : Settle(m, v)

Spec == Init /\ [][Next]_vars
=============================================================================
