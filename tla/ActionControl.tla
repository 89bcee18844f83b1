--------------------------- MODULE ActionControl ---------------------------
(***************************************************************************)
(* One governed action: the owner who submits, cancels and rolls back, the *)
(* approver, the action workers under a lease, and the external provider.  *)
(*                                                                         *)
(* Every transaction locks the action row and is one action here, the      *)
(* provider's HTTP call included: ActionWorker._invoke holds the lock      *)
(* while it waits, and a crash rolls everything back but the call.         *)
(*                                                                         *)
(* A timestamp is kept as its distance from now, in ticks.  None is NULL;  *)
(* 0 is "the test of the code on this timestamp finds it passed".          *)
(***************************************************************************)
EXTENDS Integers, FiniteSets, Sequences

CONSTANTS
    Workers,        \* tasks of ActionWorker, over all processes
    Timeout,        \* ActionRequest.timeout_seconds
    Lease,          \* settings.action_lease_seconds
    ApprovalTtl,    \* approval_ttl_minutes of a request
    MaxApprovals,   \* approvals an action may come to own (bound)
    MaxCrashes      \* crashes of workers (bound)

ASSUME ActionTimeAssumption ==
    Timeout \in Nat /\ Lease \in Nat /\ ApprovalTtl \in Nat
ASSUME ActionBoundAssumption == MaxApprovals \in Nat /\ MaxCrashes \in Nat

VARIABLES
    status, deadline, lease, cancelReq, result,     \* the ActionRequest row
    approvals,                                      \* the ActionApproval rows
    attempt,                                        \* the ActionAttempt rows
    pc,                                             \* worker tasks
    sent, applied,                                  \* the provider
    crashes

rowVars == <<status, deadline, lease, cancelReq, result>>
vars == <<rowVars, approvals, attempt, pc, sent, applied, crashes>>

None == -1

Purposes == {"EXECUTE", "ROLLBACK"}

Waiting   == {"WAITING_APPROVAL", "WAITING_ROLLBACK_APPROVAL"}
Claimable == {"APPROVED", "EXECUTING", "ROLLBACK_APPROVED", "ROLLING_BACK"}
Invoking  == {"EXECUTING", "ROLLING_BACK"}

ActionStatus ==
    {"DRAFT", "PREFLIGHT_FAILED", "COMPLETED", "FAILED", "ROLLED_BACK", "ROLLBACK_FAILED",
     "ROLLBACK_REJECTED", "REJECTED", "EXPIRED", "CANCELLED"} \cup Waiting \cup Claimable

ApprovalStatus == {"PENDING", "APPROVED", "REJECTED", "EXPIRED", "CANCELLED"}

Approval == [purpose : Purposes, status : ApprovalStatus, ttl : Nat]

\* input: the recorded outputs that the payload carries as original_output
Attempt == [status : {"ABSENT", "COMPLETED", "FAILED"}, input : SUBSET Purposes]

Key == [purpose : Purposes, ordinal : Nat]
Request == [purpose : Purposes, ordinal : Nat, approval : Nat]

Init ==
    /\ status = "DRAFT" /\ deadline = None /\ lease = None /\ cancelReq = FALSE /\ result = {}
    /\ approvals = <<>>
    /\ attempt = [p \in Purposes |-> [status |-> "ABSENT", input |-> {}]]
    /\ pc = [w \in Workers |-> "idle"]
    /\ sent = <<>> /\ applied = {} /\ crashes = 0
-----------------------------------------------------------------------------
(***************************************************************************)
(* ActionService: the owner and the approver.                              *)
(***************************************************************************)
\* ActionService._create_approval
NewApproval(p) == [purpose |-> p, status |-> "PENDING", ttl |-> ApprovalTtl]

\* (mutant) a failed action may be tried again
PreflightableAgain == status \in {"DRAFT", "PREFLIGHT_FAILED", "FAILED"}

Preflightable == status \in {"DRAFT", "PREFLIGHT_FAILED"}

PreflightFails ==
    /\ Preflightable
    /\ status' = "PREFLIGHT_FAILED"
    /\ UNCHANGED <<deadline, lease, cancelReq, result, approvals, attempt, pc, sent, applied,
                   crashes>>

\* The plan is sealed and its approval requested.
PreflightPasses ==
    /\ Preflightable
    /\ Len(approvals) < MaxApprovals
    /\ status' = "WAITING_APPROVAL"
    /\ approvals' = Append(approvals, NewApproval("EXECUTE"))
    /\ UNCHANGED <<deadline, lease, cancelReq, result, attempt, pc, sent, applied, crashes>>

\* A decision after the expiry raises out of session.begin(), which takes its writes
\* back: it changes nothing.
Decidable(i) == approvals[i].status = "PENDING" /\ approvals[i].ttl > 0

\* ActionService.decide looks at the approval only, not at the status of the action.
Approve(i) ==
    /\ Decidable(i)
    /\ approvals' = [approvals EXCEPT ![i].status = "APPROVED"]
    /\ status' = IF approvals[i].purpose = "EXECUTE" THEN "APPROVED" ELSE "ROLLBACK_APPROVED"
    /\ deadline' = Timeout
    /\ UNCHANGED <<lease, cancelReq, result, attempt, pc, sent, applied, crashes>>

Reject(i) ==
    /\ Decidable(i)
    /\ approvals' = [approvals EXCEPT ![i].status = "REJECTED"]
    /\ status' = IF approvals[i].purpose = "EXECUTE" THEN "REJECTED" ELSE "ROLLBACK_REJECTED"
    /\ UNCHANGED <<deadline, lease, cancelReq, result, attempt, pc, sent, applied, crashes>>

Rollbackable == {"COMPLETED", "FAILED", "ROLLBACK_FAILED", "ROLLBACK_REJECTED"}

RequestRollback ==
    /\ status \in Rollbackable
    /\ Len(approvals) < MaxApprovals
    /\ status' = "WAITING_ROLLBACK_APPROVAL"
    /\ approvals' = Append(approvals, NewApproval("ROLLBACK"))
    /\ UNCHANGED <<deadline, lease, cancelReq, result, attempt, pc, sent, applied, crashes>>

Cancellable ==
    {"DRAFT", "PREFLIGHT_FAILED", "APPROVED", "ROLLBACK_APPROVED"} \cup Waiting

Cancel ==
    /\ status \in Cancellable
    /\ status' = "CANCELLED" /\ cancelReq' = TRUE
    /\ approvals' = [i \in DOMAIN approvals |->
                        IF approvals[i].status = "PENDING"
                        THEN [approvals[i] EXCEPT !.status = "CANCELLED"] ELSE approvals[i]]
    /\ UNCHANGED <<deadline, lease, result, attempt, pc, sent, applied, crashes>>
-----------------------------------------------------------------------------
(***************************************************************************)
(* ActionWorker._claim expires one approval and claims one action in the   *)
(* same transaction.  Those are two different actions of the database: an  *)
(* action whose approval has just expired is not claimable.                *)
(***************************************************************************)
\* (mutant) both purposes end as the rolled-back branch of decide writes it
ExpireAlike(i) ==
    /\ approvals[i].status = "PENDING" /\ approvals[i].ttl = 0
    /\ approvals' = [approvals EXCEPT ![i].status = "EXPIRED"]
    /\ status' = "EXPIRED"
    /\ UNCHANGED <<deadline, lease, cancelReq, result, attempt, pc, sent, applied, crashes>>

ExpireApproval(i) ==
    /\ approvals[i].status = "PENDING" /\ approvals[i].ttl = 0
    /\ approvals' = [approvals EXCEPT ![i].status = "EXPIRED"]
    /\ status' = IF approvals[i].purpose = "EXECUTE" THEN "EXPIRED" ELSE "ROLLBACK_REJECTED"
    /\ UNCHANGED <<deadline, lease, cancelReq, result, attempt, pc, sent, applied, crashes>>

\* (mutant) an action whose worker died is not picked up again
ClaimableOnce == status \in Claimable /\ ~cancelReq /\ lease = None

Due == status \in Claimable /\ ~cancelReq /\ lease \in {None, 0}

\* lease_expires_at < now is strict, hence the extra tick.
Claim(w) ==
    /\ pc[w] = "idle"
    /\ Due
    /\ status' = IF status \in {"APPROVED", "EXECUTING"} THEN "EXECUTING" ELSE "ROLLING_BACK"
    /\ lease' = Lease + 1
    /\ pc' = [pc EXCEPT ![w] = "claimed"]
    /\ UNCHANGED <<deadline, cancelReq, result, approvals, attempt, sent, applied, crashes>>
-----------------------------------------------------------------------------
(***************************************************************************)
(* ActionWorker._invoke.  The purpose is read off the row, so a worker     *)
(* that was slow since its claim acts for whatever the row says by now.    *)
(***************************************************************************)
Purpose == IF status = "EXECUTING" THEN "EXECUTE" ELSE "ROLLBACK"

OfPurpose(p) == {i \in DOMAIN approvals : approvals[i].purpose = p}
Approved(p) == {i \in OfPurpose(p) : approvals[i].status = "APPROVED"}

Newest(S) == CHOOSE i \in S : \A j \in S : j <= i

\* (mutant) an approval that has run out counts
AnyApproval(p) == Approved(p) # {}

\* The approved request with the highest revision has not expired.
ValidApproval(p) == Approved(p) # {} /\ approvals[Newest(Approved(p))].ttl > 0

\* (mutant) every call has a key of its own
FreshKey(p) == [purpose |-> p, ordinal |-> Len(sent) + 1]

\* ActionAttempt.idempotency_key: the ordinal is always 1.
AttemptKey(p) == [purpose |-> p, ordinal |-> 1]

\* action_provider_payload: a rollback carries the output of the execution.
Payload(p) == IF p = "ROLLBACK" THEN result \cap {"EXECUTE"} ELSE {}

\* A recovered attempt has to match the sealed plan, or action_attempt_mismatch.
Matches(p) == attempt[p].status = "ABSENT" \/ attempt[p].input = Payload(p)

Send(p) == sent' = Append(sent, [purpose |-> p, ordinal |-> AttemptKey(p).ordinal,
                                 approval |-> Newest(Approved(p))])

InvokeReturns(w) ==
    /\ pc[w] = "claimed"
    /\ status \notin Invoking
    /\ pc' = [pc EXCEPT ![w] = "idle"]
    /\ UNCHANGED <<rowVars, approvals, attempt, sent, applied, crashes>>

\* ActionWorker._fail
Fail ==
    /\ status' = IF status = "ROLLING_BACK" THEN "ROLLBACK_FAILED" ELSE "FAILED"
    /\ lease' = None
    /\ UNCHANGED <<deadline, cancelReq, result>>

InvokeTimesOut(w) ==
    /\ pc[w] = "claimed"
    /\ status \in Invoking /\ deadline \in {None, 0}
    /\ Fail
    /\ pc' = [pc EXCEPT ![w] = "idle"]
    /\ UNCHANGED <<approvals, attempt, sent, applied, crashes>>

\* No valid approval, a permission or a connector withdrawn: the transaction rolls
\* back and a second one fails the action.
InvokeRaises(w) ==
    /\ pc[w] = "claimed"
    /\ status \in Invoking /\ deadline > 0
    /\ pc' = [pc EXCEPT ![w] = "raised"]
    /\ UNCHANGED <<rowVars, approvals, attempt, sent, applied, crashes>>

MayInvoke(w) ==
    /\ pc[w] = "claimed"
    /\ status \in Invoking /\ deadline > 0
    /\ ValidApproval(Purpose) /\ Matches(Purpose)

Record(p, outcome) ==
    attempt' = [attempt EXCEPT ![p] = [status |-> outcome, input |-> Payload(p)]]

\* ActionWorker._complete
Complete(p) ==
    /\ status' = IF p = "EXECUTE" THEN "COMPLETED" ELSE "ROLLED_BACK"
    /\ result' = IF p = "EXECUTE" THEN {"EXECUTE"} ELSE result \cup {"ROLLBACK"}
    /\ lease' = None /\ UNCHANGED <<deadline, cancelReq>>

\* The provider answers; the output of an attempt that is complete is used again.
InvokeCompletes(w) ==
    /\ MayInvoke(w)
    /\ IF attempt[Purpose].status = "COMPLETED"
       THEN UNCHANGED <<sent, applied>>
       ELSE Send(Purpose) /\ applied' = applied \cup {AttemptKey(Purpose)}
    /\ Record(Purpose, "COMPLETED")
    /\ Complete(Purpose)
    /\ pc' = [pc EXCEPT ![w] = "idle"]
    /\ UNCHANGED <<approvals, crashes>>

\* Refused by policy, schema or rate limit before the call, or the call fails or
\* times out, whatever the provider does with it.
InvokeFails(w) ==
    /\ MayInvoke(w)
    /\ attempt[Purpose].status # "COMPLETED"
    /\ Send(Purpose) \/ UNCHANGED sent
    /\ Record(Purpose, "FAILED")
    /\ Fail
    /\ pc' = [pc EXCEPT ![w] = "idle"]
    /\ UNCHANGED <<approvals, applied, crashes>>

\* ActionWorker._fail_after_exception: the action may have moved on meanwhile.
FailAfterException(w) ==
    /\ pc[w] = "raised"
    /\ IF status \in Invoking THEN Fail ELSE UNCHANGED rowVars
    /\ pc' = [pc EXCEPT ![w] = "idle"]
    /\ UNCHANGED <<approvals, attempt, sent, applied, crashes>>
-----------------------------------------------------------------------------
\* The provider carries a request out, perhaps long after the caller gave up, and
\* treats requests with the same key as one.
ProviderApplies(k) ==
    /\ k \notin applied
    /\ applied' = applied \cup {k}
    /\ UNCHANGED <<rowVars, approvals, attempt, pc, sent, crashes>>

Dies(w) ==
    /\ crashes < MaxCrashes /\ crashes' = crashes + 1
    /\ pc' = [pc EXCEPT ![w] = "idle"]
    /\ UNCHANGED <<rowVars, approvals, attempt, applied>>

Crash(w) == pc[w] # "idle" /\ Dies(w) /\ UNCHANGED sent

\* The worker dies inside _invoke after the request left.
CrashInCall(w) == MayInvoke(w) /\ attempt[Purpose].status # "COMPLETED" /\ Dies(w) /\ Send(Purpose)

\* (mutant) a timestamp that is NULL or has passed goes on counting
SoonerAlways(t) == t - 1

Sooner(t) == IF t > 0 THEN t - 1 ELSE t

Tick ==
    /\ deadline > 0 \/ lease > 0 \/ \E i \in DOMAIN approvals : approvals[i].ttl > 0
    /\ deadline' = Sooner(deadline) /\ lease' = Sooner(lease)
    /\ approvals' = [i \in DOMAIN approvals |-> [approvals[i] EXCEPT !.ttl = Sooner(@)]]
    /\ UNCHANGED <<status, cancelReq, result, attempt, pc, sent, applied, crashes>>
-----------------------------------------------------------------------------
Owner == PreflightFails \/ PreflightPasses \/ RequestRollback \/ Cancel

Approver == \E i \in DOMAIN approvals : Approve(i) \/ Reject(i)

Expiry == \E i \in DOMAIN approvals : ExpireApproval(i)

Invoke(w) ==
    \/ InvokeReturns(w) \/ InvokeTimesOut(w) \/ InvokeRaises(w)
    \/ InvokeCompletes(w) \/ InvokeFails(w) \/ FailAfterException(w)

Provider ==
    \E i \in DOMAIN sent : ProviderApplies([purpose |-> sent[i].purpose, ordinal |-> sent[i].ordinal])

Crashes == \E w \in Workers : Crash(w) \/ CrashInCall(w)

Next ==
    \/ Owner \/ Approver \/ Expiry \/ Provider \/ Tick \/ Crashes
    \/ \E w \in Workers : Claim(w) \/ Invoke(w)

Spec == Init /\ [][Next]_vars

\* The worker loop polls forever and expires approvals on each poll; its tasks are
\* scheduled; the clock advances.  Nothing makes a person decide.
Fairness ==
    /\ WF_vars(Tick) /\ WF_vars(Expiry)
    /\ WF_vars(\E w \in Workers : Claim(w))
    /\ \A w \in Workers : WF_vars(Invoke(w))

FairSpec == Spec /\ Fairness
-----------------------------------------------------------------------------
\* Every variable keeps the type its column has.
ActionTypeOK ==
    /\ status \in ActionStatus /\ cancelReq \in BOOLEAN /\ result \subseteq Purposes
    /\ deadline \in {None} \cup 0..Timeout /\ lease \in {None} \cup 0..(Lease + 1)
    /\ approvals \in Seq(Approval)
    /\ attempt \in [Purposes -> Attempt]
    /\ pc \in [Workers -> {"idle", "claimed", "raised"}]
    /\ sent \in Seq(Request) /\ applied \subseteq Key
    /\ crashes \in 0..MaxCrashes

\* ActionService.decide and _expire_one_approval trust it: an action has a pending
\* approval exactly while it waits, one, for the purpose it waits for.
OnePending ==
    \A i \in DOMAIN approvals : approvals[i].status = "PENDING" =>
        /\ i = Len(approvals)
        /\ status = IF approvals[i].purpose = "EXECUTE" THEN "WAITING_APPROVAL"
                    ELSE "WAITING_ROLLBACK_APPROVAL"

\* ActionGateway: a request leaves only under an approval for its purpose that has not
\* run out, and that no later request for that purpose has replaced.
Authorised ==
    [][Len(sent') > Len(sent) =>
        LET r == sent'[Len(sent')] IN
        /\ r.approval \in Approved(r.purpose) /\ approvals[r.approval].ttl > 0
        /\ \A i \in OfPurpose(r.purpose) : i <= r.approval]_vars

\* Reclaiming an expired lease, and a second approved rollback, use the key of the first
\* call: however often the workers die, the provider carries each purpose out once.
EffectOnce ==
    \A k, l \in applied : k.purpose = l.purpose => k = l

\* The row tells the truth about the provider: a completed or rolled-back action was
\* carried out, and one that was rejected, expired or never claimed was never sent.
RecordTruthful ==
    /\ status = "COMPLETED" => \E k \in applied : k.purpose = "EXECUTE"
    /\ status = "ROLLED_BACK" => \E k \in applied : k.purpose = "ROLLBACK"
    /\ status \in {"DRAFT", "PREFLIGHT_FAILED", "WAITING_APPROVAL", "APPROVED", "REJECTED",
                   "EXPIRED"} => sent = <<>> /\ applied = {}

\* The purpose that a worker may act for now.
Grant ==
    CASE status \in {"APPROVED", "EXECUTING"} -> "EXECUTE"
      [] status \in {"ROLLBACK_APPROVED", "ROLLING_BACK"} -> "ROLLBACK"
      [] OTHER -> "NONE"

\* action_attempt_mismatch is never raised and no complete attempt is done again: what
\* a new worker, or a second rollback, would send is what the attempt on record sent.
AttemptMatches ==
    status \in Claimable /\ attempt[Grant].status # "ABSENT" =>
        attempt[Grant].input = Payload(Grant) /\ attempt[Grant].status = "FAILED"

\* Doing it again does no harm: reclaimed leases, repeated rollbacks and late calls of the
\* gateway find their attempt on record unchanged, and the provider acts on one key.
RepeatsHarmless == EffectOnce /\ AttemptMatches

Contract == INSTANCE ChangeContract WITH
    grant <- Grant, granted <- {p \in Purposes : Approved(p) # {}}

\* Service, workers and provider together implement ChangeContract, through crashes,
\* reclaimed leases and workers that act late.
ImplementsChange == Contract!Spec

\* Once requested, an approval is decided or expires, and once granted the action is
\* carried out or fails, whatever the people do, while workers die finitely often.
ActionSettles == status \in Waiting \cup Claimable ~> status \notin Waiting \cup Claimable
=============================================================================
