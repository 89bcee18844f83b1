--------------------------- MODULE ChangeContract ---------------------------
(***************************************************************************)
(* What the action plane promises to the owner of an external system: a    *)
(* request is sent only while a grant for its purpose stands, the change   *)
(* itself is granted at most once, its rollback only after that grant has  *)
(* ended, and one grant stands at a time.                                  *)
(***************************************************************************)
EXTENDS Naturals, Sequences

VARIABLES grant,        \* the purpose that may act now, or "NONE"
          granted,      \* purposes that were ever granted
          sent          \* requests sent to the provider, in order

vars == <<grant, granted, sent>>

Init == grant = "NONE" /\ granted = {} /\ sent = <<>>

\* A decision opens a grant.
Give(p) ==
    /\ grant = "NONE"
    /\ IF p = "EXECUTE" THEN granted = {} ELSE "EXECUTE" \in granted
    /\ grant' = p /\ granted' = granted \cup {p}
    /\ sent' = sent

\* One request for the granted purpose; its outcome may end the grant.
Send ==
    /\ grant # "NONE"
    /\ Len(sent') = Len(sent) + 1
    /\ sent' = Append(sent, sent'[Len(sent')])
    /\ sent'[Len(sent')].purpose = grant
    /\ grant' \in {grant, "NONE"}
    /\ granted' = granted

\* Withdrawn, timed out or refused.
Revoke == grant' = "NONE" /\ UNCHANGED <<granted, sent>>

Next == (\E p \in {"EXECUTE", "ROLLBACK"} : Give(p)) \/ Send \/ Revoke

Spec == Init /\ [][Next]_vars
=============================================================================
