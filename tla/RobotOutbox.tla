---------------------------- MODULE RobotOutbox ----------------------------
(***************************************************************************)
(* Replies of the DingTalk robot: the inbox that turns a vendor event into *)
(* a Run, the durable outbox that delivers its answer, the outbox workers, *)
(* the administrators whose decisions authorise a delivery, and the vendor.*)
(*                                                                         *)
(* The messages are direct ones: a group message is no candidate at all    *)
(* without an active audience, which facts has no value for.               *)
(*                                                                         *)
(* A transaction is one action, except dispatch: it holds the outbox row   *)
(* and the shared source fence while the Gateway talks to the vendor, and  *)
(* commits when the vendor has answered.                                   *)
(*                                                                         *)
(* attempt is both attempt_count and fencing_token: claim_next, the only   *)
(* writer of either, increments both.  Times are distances from now (0 has *)
(* passed, None is NULL).                                                  *)
(***************************************************************************)
EXTENDS Integers, FiniteSets, Sequences

CONSTANTS
    Messages,           \* vendor events
    Workers,            \* DingTalkOutboxWorker processes
    Lease, Backoff,     \* lease_seconds, _retry_delay
    MaxAttempts,        \* max_attempts of a delivery
    MaxReconciliations, \* max_reconciliation_attempts
    Versions,           \* versions of the facts a delivery is bound to (bound)
    MaxClaims,          \* claims of a delivery, the requeued ones included (bound)
    MaxCrashes          \* crashes of workers (bound)

ASSUME RobotAssumption ==
    /\ Lease \in Nat /\ Backoff \in Nat
    /\ MaxAttempts \in Nat \ {0} /\ MaxReconciliations \in Nat
    /\ Versions \subseteq Nat \ {0} /\ MaxClaims \in Nat /\ MaxCrashes \in Nat
    /\ IsFiniteSet(Workers)

VARIABLES
    run,        \* run[m]: the inbox message of m and its Run
    done,       \* completed Runs, in the order of completed_at
    box,        \* the DingTalkRobotOutbox rows
    facts,      \* facts[m]: what installation, binding, connector, audience and answer say now
    fresh,      \* fresh[m]: the verifications of m that expire by themselves are valid
    pc,         \* workers
    posts,      \* posts[m]: message POSTs of m that left for the vendor
    fate,       \* fate[m]: what the vendor did with them
    crashes

vars == <<run, done, box, facts, fresh, pc, posts, fate, crashes>>

None == -1
Denied == 0     \* facts that allow no delivery

Final == {"ACCEPTED", "REJECTED", "UNKNOWN"}
BoxStatus == {"ABSENT", "BLOCKED", "QUEUED", "DISPATCHING"} \cup Final

BoxRow == [status : BoxStatus, exhausted : BOOLEAN, attempt : Nat,
           frozen : Versions \cup {Denied}, due : Nat \cup {None}, lease : Nat \cup {None},
           checks : Nat, checked : Nat]

NoBox == [status |-> "ABSENT", exhausted |-> FALSE, attempt |-> 0, frozen |-> Denied,
          due |-> None, lease |-> None, checks |-> 0, checked |-> 0]

Idle == [at |-> "idle", of |-> None, token |-> 0]

\* The worker holds the outbox row and the shared fence.
Holding == {"sending", "posting", "posted"}

Init ==
    /\ run = [m \in Messages |-> "NONE"] /\ done = <<>>
    /\ box = [m \in Messages |-> NoBox]
    /\ facts \in [Messages -> Versions] /\ fresh = [m \in Messages |-> TRUE]
    /\ pc = [w \in Workers |-> Idle]
    /\ posts = [m \in Messages |-> 0] /\ fate = [m \in Messages |-> "none"]
    /\ crashes = 0
-----------------------------------------------------------------------------
(***************************************************************************)
(* ImInboxService and the Run.  A vendor event that is delivered again,    *)
(* and a message that is processed again, find their row and change        *)
(* nothing.                                                                *)
(***************************************************************************)
ledger == <<box, pc, posts, fate, crashes>>

Receive(m) ==
    /\ run[m] = "NONE"
    /\ facts[m] # Denied
    /\ run' = [run EXCEPT ![m] = "RECEIVED"]
    /\ UNCHANGED <<done, facts, fresh, ledger>>

Process(m) ==
    /\ run[m] = "RECEIVED"
    /\ facts[m] # Denied
    /\ run' = [run EXCEPT ![m] = "PENDING"]
    /\ UNCHANGED <<done, facts, fresh, ledger>>

RunCompletes(m) ==
    /\ run[m] = "PENDING"
    /\ run' = [run EXCEPT ![m] = "COMPLETED"]
    /\ done' = Append(done, m)
    /\ UNCHANGED <<facts, fresh, ledger>>

RunFails(m) ==
    /\ run[m] = "PENDING"
    /\ run' = [run EXCEPT ![m] = "FAILED"]
    /\ UNCHANGED <<done, facts, fresh, ledger>>
-----------------------------------------------------------------------------
(***************************************************************************)
(* Administrators and time.  A write to the facts takes the exclusive      *)
(* fence and waits for every dispatch; a verification just runs out.       *)
(***************************************************************************)
\* (mutant) the writers do not wait for the fence
FenceIgnored == TRUE

FenceFree == \A w \in Workers : pc[w].at \notin Holding

ChangeFacts(m, v) ==
    /\ FenceFree
    /\ v # facts[m]
    /\ facts' = [facts EXCEPT ![m] = v]
    /\ UNCHANGED <<run, done, fresh, ledger>>

Verify(m) ==
    /\ FenceFree
    /\ ~fresh[m]
    /\ fresh' = [fresh EXCEPT ![m] = TRUE]
    /\ UNCHANGED <<run, done, facts, ledger>>

RunsOut(m) ==
    /\ fresh[m]
    /\ fresh' = [fresh EXCEPT ![m] = FALSE]
    /\ UNCHANGED <<run, done, facts, ledger>>
-----------------------------------------------------------------------------
(***************************************************************************)
(* enqueue_next takes the oldest completed Run whose delivery is missing   *)
(* or blocked.  It skips the inbox rows that other workers are just        *)
(* looking at.                                                             *)
(***************************************************************************)
Candidate(m) ==
    /\ run[m] = "COMPLETED"
    /\ box[m].status = "ABSENT" \/ (box[m].status = "BLOCKED" /\ ~box[m].exhausted)

Older(m) == {n \in Messages : Candidate(n) /\ \E i, j \in DOMAIN done :
                                                 i < j /\ done[i] = n /\ done[j] = m}

InTurn(m) == Candidate(m) /\ Cardinality(Older(m)) < Cardinality(Workers)

Blocked(row, exhausted) ==
    [row EXCEPT !.status = "BLOCKED", !.exhausted = exhausted, !.due = None, !.lease = None]

SetBox(m, row) == box' = [box EXCEPT ![m] = row]

\* _prepare_queue
EnqueueBlocks(m) ==
    /\ InTurn(m)
    /\ facts[m] = Denied \/ ~fresh[m]
    /\ SetBox(m, Blocked(box[m], FALSE))
    /\ UNCHANGED <<run, done, facts, fresh, pc, posts, fate, crashes>>

Enqueue(m) ==
    /\ InTurn(m)
    /\ facts[m] # Denied /\ fresh[m]
    /\ SetBox(m, [box[m] EXCEPT !.status = "QUEUED", !.exhausted = FALSE, !.frozen = facts[m],
                                !.due = 0, !.lease = None])
    /\ UNCHANGED <<run, done, facts, fresh, pc, posts, fate, crashes>>

\* No worker holds the row, which expire_claims would skip.
Unlocked(m) == \A w \in Workers : pc[w].of = m => pc[w].at \notin Holding

\* (mutant) an expired claim is tried again
ExpiredRequeued(row) == [row EXCEPT !.status = "QUEUED", !.due = 0, !.lease = None]

Expired(row) == [row EXCEPT !.status = "UNKNOWN", !.lease = None]

\* (mutant) a claim of the last attempt is not looked for
OverdueRetryable(m) ==
    box[m].status = "DISPATCHING" /\ box[m].lease = 0 /\ box[m].attempt < MaxAttempts

Overdue(m) == box[m].status = "DISPATCHING" /\ box[m].lease = 0

ExpireClaim(m) ==
    /\ Overdue(m)
    /\ Unlocked(m)
    /\ SetBox(m, Expired(box[m]))
    /\ UNCHANGED <<run, done, facts, fresh, pc, posts, fate, crashes>>
-----------------------------------------------------------------------------
(***************************************************************************)
(* claim_next commits the claim; dispatch then runs in a transaction of    *)
(* its own.                                                                *)
(***************************************************************************)
Claim(w, m) ==
    /\ pc[w] = Idle
    /\ box[m].status = "QUEUED" /\ box[m].due = 0
    /\ box[m].attempt < MaxClaims
    /\ SetBox(m, [box[m] EXCEPT !.status = "DISPATCHING", !.attempt = @ + 1, !.lease = Lease,
                                !.due = None])
    /\ pc' = [pc EXCEPT ![w] = [at |-> "claimed", of |-> m, token |-> box[m].attempt + 1]]
    /\ UNCHANGED <<run, done, facts, fresh, posts, fate, crashes>>

\* The claim is still the worker's own.
Current(w) ==
    LET m == pc[w].of IN box[m].status = "DISPATCHING" /\ box[m].attempt = pc[w].token

\* _dispatch_inputs: everything the delivery was bound to when it was queued still holds
Inputs(m) == facts[m] = box[m].frozen /\ facts[m] # Denied /\ fresh[m]

Finish(w) == pc' = [pc EXCEPT ![w] = Idle]

DispatchStale(w) ==
    /\ pc[w].at = "claimed" /\ Unlocked(pc[w].of)
    /\ ~Current(w)
    /\ Finish(w)
    /\ UNCHANGED <<run, done, box, facts, fresh, posts, fate, crashes>>

\* The fence cannot be had in time, or a precondition has changed.
DispatchBlocks(w, fenced) ==
    /\ pc[w].at = "claimed" /\ Unlocked(pc[w].of)
    /\ Current(w)
    /\ fenced => ~Inputs(pc[w].of)
    /\ SetBox(pc[w].of, Blocked(box[pc[w].of], FALSE))
    /\ Finish(w)
    /\ UNCHANGED <<run, done, facts, fresh, posts, fate, crashes>>

DispatchBegins(w) ==
    /\ pc[w].at = "claimed" /\ Unlocked(pc[w].of)
    /\ Current(w)
    /\ Inputs(pc[w].of)
    /\ pc' = [pc EXCEPT ![w].at = "sending"]
    /\ UNCHANGED <<run, done, box, facts, fresh, posts, fate, crashes>>

\* authorize_send, called when the application token is there
Authorized(m) == box[m].lease # 0 /\ Inputs(m)

Authorize(w) ==
    /\ pc[w].at = "sending"
    /\ Authorized(pc[w].of)
    /\ pc' = [pc EXCEPT ![w].at = "posting"]
    /\ UNCHANGED <<run, done, box, facts, fresh, posts, fate, crashes>>

\* NOT_ATTEMPTED: policy, grant, rate limit, credential, token or authorisation failed.
NotAttempted(row) ==
    IF row.attempt >= MaxAttempts THEN Blocked(row, TRUE)
    ELSE [row EXCEPT !.status = "QUEUED", !.due = Backoff, !.lease = None]

SendRefused(w) ==
    /\ pc[w].at = "sending"
    /\ SetBox(pc[w].of, NotAttempted(box[pc[w].of]))
    /\ Finish(w)
    /\ UNCHANGED <<run, done, facts, fresh, posts, fate, crashes>>

\* The one message POST; the vendor accepts it, rejects it, or never sees it.
Post(w, outcome) ==
    LET m == pc[w].of IN
    /\ pc[w].at = "posting"
    /\ posts' = [posts EXCEPT ![m] = @ + 1]
    /\ fate' = [fate EXCEPT ![m] = outcome]
    /\ pc' = [pc EXCEPT ![w].at = "posted"]
    /\ UNCHANGED <<run, done, box, facts, fresh, crashes>>

\* (mutant) whatever goes wrong after the POST counts as not attempted
OutcomeRetried(row, f, answered) ==
    IF ~answered THEN NotAttempted(row)
    ELSE [row EXCEPT !.status = IF f = "accepted" THEN "ACCEPTED" ELSE "REJECTED",
                     !.lease = None]

\* The answer, or its absence, is written to the row.
SendOutcome(row, f, answered) ==
    [row EXCEPT !.status = IF ~answered THEN "UNKNOWN"
                           ELSE IF f = "accepted" THEN "ACCEPTED" ELSE "REJECTED",
                !.lease = None]

Record(w, answered) ==
    LET m == pc[w].of IN
    /\ pc[w].at = "posted"
    /\ answered => fate[m] # "lost"
    /\ SetBox(m, SendOutcome(box[m], fate[m], answered))
    /\ Finish(w)
    /\ UNCHANGED <<run, done, facts, fresh, posts, fate, crashes>>

\* The worker dies, is cancelled, or its transaction fails: the claim stays as it is.
Crash(w) ==
    /\ pc[w] # Idle
    /\ crashes < MaxCrashes
    /\ crashes' = crashes + 1
    /\ Finish(w)
    /\ UNCHANGED <<run, done, box, facts, fresh, posts, fate>>
-----------------------------------------------------------------------------
(***************************************************************************)
(* Receipts of accepted messages: claim_reconciliation, then reconcile.    *)
(***************************************************************************)
ClaimReconciliation(w, m) ==
    /\ pc[w] = Idle
    /\ box[m].status = "ACCEPTED"
    /\ box[m].checks < MaxReconciliations
    /\ box[m].checked = 0
    /\ SetBox(m, [box[m] EXCEPT !.checks = @ + 1, !.checked = Lease])
    /\ pc' = [pc EXCEPT ![w] = [at |-> "checking", of |-> m, token |-> box[m].checks + 1]]
    /\ UNCHANGED <<run, done, facts, fresh, posts, fate, crashes>>

ReceiptOf(w) ==
    /\ pc[w].at = "checking"
    /\ box[pc[w].of].status = "ACCEPTED" /\ box[pc[w].of].checks = pc[w].token

\* The vendor reports that the message it had accepted was not delivered.  The query asks
\* less than a dispatch (_reconciliation_inputs: not the answer, nor its sources): facts has
\* no version for that part, so whether the query may be made is left open.
ReconcileFailure(w) ==
    /\ ReceiptOf(w)
    /\ SetBox(pc[w].of, [box[pc[w].of] EXCEPT !.status = "REJECTED"])
    /\ Finish(w)
    /\ UNCHANGED <<run, done, facts, fresh, posts, fate, crashes>>

\* Success, no information, changed preconditions or a claim that is not the last one:
\* the row keeps its status.
ReconcileKeeps(w) ==
    /\ pc[w].at = "checking"
    /\ Finish(w)
    /\ UNCHANGED <<run, done, box, facts, fresh, posts, fate, crashes>>
-----------------------------------------------------------------------------
\* (mutant) a time that is NULL or has passed goes on counting
SoonerAlways(t) == t - 1

Sooner(t) == IF t > 0 THEN t - 1 ELSE t

Tick ==
    /\ box' = [m \in Messages |-> [box[m] EXCEPT !.due = Sooner(@), !.lease = Sooner(@),
                                                 !.checked = Sooner(@)]]
    /\ UNCHANGED <<run, done, facts, fresh, pc, posts, fate, crashes>>

Inbox(m) == Receive(m) \/ Process(m) \/ RunCompletes(m) \/ RunFails(m)

Administer(m) == Verify(m) \/ RunsOut(m) \/ \E v \in Versions \cup {Denied} : ChangeFacts(m, v)

Materialize(m) == Enqueue(m) \/ EnqueueBlocks(m)

Dispatch(w) ==
    \/ DispatchStale(w) \/ DispatchBegins(w)
    \/ \E fenced \in BOOLEAN : DispatchBlocks(w, fenced)
    \/ Authorize(w) \/ SendRefused(w)
    \/ \E f \in {"accepted", "rejected", "lost"} : Post(w, f)
    \/ \E answered \in BOOLEAN : Record(w, answered)
    \/ ReconcileFailure(w) \/ ReconcileKeeps(w)

Next ==
    \/ \E m \in Messages : Inbox(m) \/ Administer(m) \/ Materialize(m) \/ ExpireClaim(m)
    \/ \E w \in Workers : Dispatch(w) \/ Crash(w)
    \/ \E w \in Workers, m \in Messages : Claim(w, m) \/ ClaimReconciliation(w, m)
    \/ Tick

Spec == Init /\ [][Next]_vars

\* The loop of every worker runs its round again and again, and time passes.
Fairness ==
    /\ WF_vars(\E m \in Messages : ExpireClaim(m))
    /\ WF_vars(\E m \in Messages : Older(m) = {} /\ Materialize(m))
    /\ \A w \in Workers : WF_vars(Dispatch(w) \/ \E m \in Messages : Claim(w, m))
    /\ WF_vars(Tick)

FairSpec == Spec /\ Fairness
-----------------------------------------------------------------------------
\* The rows have their types, and a worker past its claim works for a message.
RobotTypeOK ==
    /\ run \in [Messages -> {"NONE", "RECEIVED", "PENDING", "COMPLETED", "FAILED"}]
    /\ done \in Seq(Messages)
    /\ box \in [Messages -> BoxRow]
    /\ facts \in [Messages -> Versions \cup {Denied}] /\ fresh \in [Messages -> BOOLEAN]
    /\ pc \in [Workers -> {Idle} \cup [at : {"claimed", "checking"} \cup Holding,
                                      of : Messages, token : Nat]]
    /\ posts \in [Messages -> Nat]
    /\ fate \in [Messages -> {"none", "accepted", "rejected", "lost"}]
    /\ crashes \in Nat

\* A delivery that is or will be queued again has never left for the vendor; what is
\* recorded as accepted was accepted, what is recorded as rejected was answered.
LedgerTruthful ==
    \A m \in Messages :
        /\ box[m].status \in {"ABSENT", "BLOCKED", "QUEUED"} => posts[m] = 0
        /\ box[m].status = "ACCEPTED" => fate[m] = "accepted"
        /\ box[m].status = "REJECTED" => fate[m] \in {"accepted", "rejected"}
        /\ box[m].status # "ABSENT" => run[m] = "COMPLETED"

Verdict(s) ==
    CASE s = "ACCEPTED" -> "accepted"
      [] s = "REJECTED" -> "rejected"
      [] s = "UNKNOWN"  -> "unknown"
      [] OTHER          -> "open"

Contract == INSTANCE DeliveryContract WITH
    sent    <- posts,
    verdict <- [m \in Messages |-> Verdict(box[m].status)]

\* The outbox implements DeliveryContract: through claims, crashes, expiries, requeues and
\* receipts no message is sent a second time or after its verdict.
ImplementsDelivery == Contract!Spec

\* A message leaves only while everything the administrators decide still allows the very
\* text and recipient that were queued, and under a claim nobody has taken away: a
\* revocation that has committed is never overtaken by a POST.
PostAuthorised ==
    [][\A m \in Messages : posts'[m] # posts[m] =>
          /\ posts[m] = 0
          /\ facts[m] # Denied /\ facts[m] = box[m].frozen
          /\ box[m].status = "DISPATCHING"]_vars

\* A claim never stays open, and a completed Run whose reply may be delivered is taken up
\* as long as no older reply is stuck: enqueue_next looks at one candidate a round, the
\* oldest, and a blocked one stays the oldest.
RepliesMove ==
    \A m \in Messages :
        run[m] = "COMPLETED" ~>
            \/ box[m].status \notin {"ABSENT", "DISPATCHING"}
            \/ box[m].status = "ABSENT" /\ Older(m) # {}
=============================================================================
