----------------------------- MODULE ImChannel -----------------------------
(***************************************************************************)
(* Chat channels other than the robot: a trusted vendor event waits in the *)
(* inbox until a worker turns it into a Run; the completed Run gets a      *)
(* delivery; adapters claim deliveries under a lease, post them, and       *)
(* report.  The bridge claims the delivery of the Run it has waited for.   *)
(*                                                                         *)
(* A request to the control plane is one action.  Claiming, posting and    *)
(* reporting are separate: nothing ties the post to a claim that has       *)
(* meanwhile run out.  gen is both send_attempt_count and                  *)
(* claim_generation, which are only ever incremented together.  Times are  *)
(* distances from now (0 has passed, None is NULL).                        *)
(***************************************************************************)
EXTENDS Integers, FiniteSets, Sequences

CONSTANTS
    Trusted,        \* messages that come in as trusted vendor events
    Bridged,        \* calls of the bridge, which starts a Run with each and waits for it
    InboxWorkers, Adapters,
    InboxAttempts,  \* im_inbox_max_attempts
    MaxAttempts,    \* im_delivery_max_attempts
    Lease, Backoff, \* the leases of inbox and outbox, _retry_delay
    MaxFaults       \* crashes, and claims that run out under a live holder (bound)

ASSUME ChannelAssumption ==
    /\ Trusted \cap Bridged = {} /\ IsFiniteSet(Adapters)
    /\ InboxAttempts \in Nat \ {0} /\ MaxAttempts \in Nat \ {0}
    /\ Lease \in Nat /\ Backoff \in Nat /\ MaxFaults \in Nat

VARIABLES
    event,      \* the ImInboxEvent rows
    run,        \* run[m]: status of the Run of m
    runs,       \* runs[m]: Runs started for m
    bound,      \* bound[m]: binding, installation and policy allow m
    refused,    \* refused[m]: an automatic delivery was denied, and audited
    row,        \* the ImDelivery rows
    tries,      \* tries[m]: statuses of its ImDeliveryAttempt rows
    inbox,      \* inbox workers
    adapter,    \* adapters
    accepts,    \* accepts[m]: messages the vendor has accepted
    unsent,     \* unsent[m]: how often an administrator confirmed that nothing was sent
    faults

vars == <<event, run, runs, bound, refused, row, tries, inbox, adapter, accepts, unsent, faults>>

inboxVars  == <<event, run, runs, inbox>>
outboxVars == <<refused, row, tries, adapter, accepts, unsent>>

Messages == Trusted \cup Bridged

None == -1

EventStatus == {"NONE", "PENDING", "PROCESSING", "ACCEPTED", "REJECTED"}
Status == {"ABSENT", "PENDING", "PROCESSING", "SENT", "FAILED", "UNKNOWN"}

EventRow == [status : EventStatus, attempt : Nat, lease : Nat \cup {None}]
Delivery == [status : Status, gen : Nat, lease : Nat \cup {None}, due : Nat \cup {None}]

Idle == [at |-> "idle", of |-> None, token |-> 0]

Init ==
    /\ event = [m \in Messages |-> [status |-> "NONE", attempt |-> 0, lease |-> None]]
    /\ run = [m \in Messages |-> "NONE"] /\ runs = [m \in Messages |-> 0]
    /\ bound = [m \in Messages |-> TRUE] /\ refused = [m \in Messages |-> FALSE]
    /\ row = [m \in Messages |-> [status |-> "ABSENT", gen |-> 0, lease |-> None, due |-> None]]
    /\ tries = [m \in Messages |-> <<>>]
    /\ inbox = [w \in InboxWorkers |-> Idle] /\ adapter = [a \in Adapters |-> Idle]
    /\ accepts = [m \in Messages |-> 0] /\ unsent = [m \in Messages |-> 0]
    /\ faults = 0
-----------------------------------------------------------------------------
(***************************************************************************)
(* The inbox.  An event that the vendor delivers again finds its row.      *)
(***************************************************************************)
AcceptTrustedEvent(m) ==
    /\ m \in Trusted
    /\ event[m].status = "NONE"
    /\ bound[m]
    /\ event' = [event EXCEPT ![m].status = "PENDING"]
    /\ UNCHANGED <<run, runs, inbox, bound, faults, outboxVars>>

InboxClaim(w, m) ==
    /\ inbox[w] = Idle
    /\ event[m].status \in {"PENDING", "PROCESSING"} /\ event[m].lease \in {None, 0}
    /\ event' = [event EXCEPT ![m] = [status |-> "PROCESSING", attempt |-> @.attempt + 1,
                                      lease |-> Lease]]
    /\ inbox' = [inbox EXCEPT ![w] = [at |-> "claimed", of |-> m,
                                      token |-> event[m].attempt + 1]]
    /\ UNCHANGED <<run, runs, bound, faults, outboxVars>>

\* The claim is the worker's own and has not run out.
Holds(w) ==
    LET e == event[inbox[w].of] IN
    e.status = "PROCESSING" /\ e.attempt = inbox[w].token /\ e.lease > 0

Usable(w) == inbox[w].at = "claimed" /\ inbox[w].token <= InboxAttempts

InboxGoes(w, where) == inbox' = [inbox EXCEPT ![w].at = where]

InboxFrees(w) == inbox' = [inbox EXCEPT ![w] = Idle]

\* dispatch_inbox_event: the Run and the status of the event, in one transaction
InboxDispatch(w) ==
    LET m == inbox[w].of IN
    /\ Usable(w) /\ Holds(w)
    /\ bound[m]
    /\ event' = [event EXCEPT ![m].status = "ACCEPTED", ![m].lease = None]
    /\ run' = [run EXCEPT ![m] = "PENDING"] /\ runs' = [runs EXCEPT ![m] = @ + 1]
    /\ InboxFrees(w)
    /\ UNCHANGED <<bound, faults, outboxVars>>

InboxStale(w) ==
    /\ Usable(w) /\ ~Holds(w)
    /\ InboxFrees(w)
    /\ UNCHANGED <<event, run, runs, bound, faults, outboxVars>>

\* The sender is not bound any more, the attempts are used up, or the dispatch failed.
InboxTurnsDown(w, failed) ==
    /\ inbox[w].at = "claimed"
    /\ Usable(w) /\ ~failed => Holds(w) /\ ~bound[inbox[w].of]
    /\ InboxGoes(w, IF Usable(w) /\ failed /\ inbox[w].token < InboxAttempts
                    THEN "releasing" ELSE "rejecting")
    /\ UNCHANGED <<event, run, runs, bound, faults, outboxVars>>

\* _reject and _release are transactions of their own, fenced like the dispatch.
InboxWrites(w, at, status) ==
    /\ inbox[w].at = at
    /\ event' = IF Holds(w)
                THEN [event EXCEPT ![inbox[w].of].status = status, ![inbox[w].of].lease = None]
                ELSE event
    /\ InboxFrees(w)
    /\ UNCHANGED <<run, runs, bound, faults, outboxVars>>

InboxReject(w)  == InboxWrites(w, "rejecting", "REJECTED")
InboxRelease(w) == InboxWrites(w, "releasing", "PENDING")
-----------------------------------------------------------------------------
(***************************************************************************)
(* Runs, and the administrators who bind and revoke.                       *)
(***************************************************************************)
\* ingest_message does not ask whether it has had the message: one that the vendor repeats
\* is another call, and another element of Bridged.
BridgeStarts(m) ==
    /\ m \in Bridged
    /\ run[m] = "NONE"
    /\ bound[m]
    /\ run' = [run EXCEPT ![m] = "PENDING"] /\ runs' = [runs EXCEPT ![m] = @ + 1]
    /\ UNCHANGED <<event, inbox, bound, faults, outboxVars>>

RunEnds(m, status) ==
    /\ run[m] = "PENDING"
    /\ run' = [run EXCEPT ![m] = status]
    /\ UNCHANGED <<event, runs, inbox, bound, faults, outboxVars>>

Bind(m) ==
    /\ bound' = [bound EXCEPT ![m] = ~@]
    /\ UNCHANGED <<faults, inboxVars, outboxVars>>
-----------------------------------------------------------------------------
(***************************************************************************)
(* ImDeliveryService.prepare: without a worker it makes the delivery of a  *)
(* completed Run, with one it claims it at once.                           *)
(***************************************************************************)
Scheduled(m) == m \in Trusted /\ run[m] = "COMPLETED" /\ row[m].status = "ABSENT" /\ ~refused[m]

Schedule(m) ==
    /\ Scheduled(m)
    /\ event[m].status = "ACCEPTED"
    /\ \/ /\ bound[m]
          /\ row' = [row EXCEPT ![m].status = "PENDING"]
          /\ UNCHANGED refused
       \/ /\ ~bound[m]
          /\ refused' = [refused EXCEPT ![m] = TRUE]
          /\ UNCHANGED row
    /\ UNCHANGED <<tries, adapter, accepts, unsent, bound, faults, inboxVars>>

Claimed(d) == [status |-> "PROCESSING", gen |-> d.gen + 1, lease |-> Lease, due |-> None]

TakenBy(a, m) ==
    /\ adapter' = [adapter EXCEPT ![a] = [at |-> "claimed", of |-> m, token |-> row[m].gen + 1]]

BridgePrepares(a, m) ==
    /\ adapter[a] = Idle
    /\ m \in Bridged /\ run[m] = "COMPLETED" /\ bound[m]
    /\ row[m].status = "ABSENT"
    /\ row' = [row EXCEPT ![m] = Claimed(@)]
    /\ tries' = [tries EXCEPT ![m] = Append(@, "PROCESSING")]
    /\ TakenBy(a, m)
    /\ UNCHANGED <<refused, accepts, unsent, bound, faults, inboxVars>>
-----------------------------------------------------------------------------
(***************************************************************************)
(* claim: the request of an adapter first expires one overdue claim, then  *)
(* takes, or turns down, the delivery that is due.                         *)
(***************************************************************************)
\* (mutant) a claim that ran out is due again
ExpiredDue(d) == [d EXCEPT !.status = "FAILED", !.lease = None, !.due = 0]

Expired(d) == [d EXCEPT !.status = "UNKNOWN", !.lease = None]

\* (mutant) the claim of a last attempt is not looked for
OverdueRetryable ==
    {m \in Messages : row[m].status = "PROCESSING" /\ row[m].lease = 0 /\ row[m].gen < MaxAttempts}

Overdue == {m \in Messages : row[m].status = "PROCESSING" /\ row[m].lease = 0}

Claimable ==
    {m \in Messages : /\ row[m].gen < MaxAttempts
                      /\ row[m].status = "PENDING" \/ (row[m].status = "FAILED" /\ row[m].due = 0)}

\* _expire_one_claim, for the set over, which is empty only if nothing is overdue
Expiring(over) == over \subseteq Overdue /\ Cardinality(over) = IF Overdue = {} THEN 0 ELSE 1

SetLast(s, status) == [s EXCEPT ![Len(s)] = status]

\* Nothing is due, or too much was sent in the last minute.
PollFinds(a, over, limited) ==
    /\ adapter[a] = Idle
    /\ Expiring(over)
    /\ limited \/ Claimable = {}
    /\ row' = [m \in Messages |-> IF m \in over THEN Expired(row[m]) ELSE row[m]]
    /\ tries' = [m \in Messages |-> IF m \in over THEN SetLast(tries[m], "UNKNOWN") ELSE tries[m]]
    /\ UNCHANGED <<refused, adapter, accepts, unsent, bound, faults, inboxVars>>

PollDenies(a, over, m) ==
    /\ adapter[a] = Idle
    /\ Expiring(over)
    /\ m \in Claimable /\ ~bound[m]
    /\ row' = [n \in Messages |-> IF n \in over THEN Expired(row[n])
                                  ELSE IF n = m THEN [row[n] EXCEPT !.status = "FAILED", !.due = None]
                                  ELSE row[n]]
    /\ tries' = [n \in Messages |-> IF n \in over THEN SetLast(tries[n], "UNKNOWN") ELSE tries[n]]
    /\ UNCHANGED <<refused, adapter, accepts, unsent, bound, faults, inboxVars>>

PollClaims(a, over, m) ==
    /\ adapter[a] = Idle
    /\ Expiring(over)
    /\ m \in Claimable /\ bound[m]
    /\ row' = [n \in Messages |-> IF n \in over THEN Expired(row[n])
                                  ELSE IF n = m THEN Claimed(row[n]) ELSE row[n]]
    /\ tries' = [n \in Messages |-> IF n \in over THEN SetLast(tries[n], "UNKNOWN")
                                    ELSE IF n = m THEN Append(tries[n], "PROCESSING")
                                    ELSE tries[n]]
    /\ TakenBy(a, m)
    /\ UNCHANGED <<refused, accepts, unsent, bound, faults, inboxVars>>
-----------------------------------------------------------------------------
(***************************************************************************)
(* The adapter posts once per claim and classifies what it hears: a        *)
(* receipt; an ambiguous answer, whether or not the vendor took the        *)
(* message; throttled or not sent at all; rejected for good.               *)
(***************************************************************************)
Post(a, heard, taken) ==
    LET m == adapter[a].of IN
    /\ adapter[a].at = "claimed"
    /\ heard = "receipt" => taken
    /\ taken => heard \in {"receipt", "ambiguous"}
    /\ accepts' = [accepts EXCEPT ![m] = IF taken THEN @ + 1 ELSE @]
    /\ adapter' = [adapter EXCEPT ![a].at = heard]
    /\ UNCHANGED <<refused, row, tries, unsent, bound, faults, inboxVars>>

\* _require_claim
Current(a) ==
    LET d == row[adapter[a].of] IN
    d.status = "PROCESSING" /\ d.gen = adapter[a].token /\ d.lease > 0

\* (mutant) what may have been sent counts as sent
ReportedOptimistic(d, heard) ==
    [d EXCEPT !.status = IF heard \in {"receipt", "ambiguous"} THEN "SENT" ELSE "FAILED",
              !.lease = None]

Reported(d, heard) ==
    CASE heard = "receipt"   -> [d EXCEPT !.status = "SENT", !.lease = None]
      [] heard = "ambiguous" -> [d EXCEPT !.status = "UNKNOWN", !.lease = None]
      [] heard = "throttled" -> [d EXCEPT !.status = "FAILED", !.lease = None,
                                          !.due = IF d.gen < MaxAttempts THEN Backoff ELSE None]
      [] OTHER               -> [d EXCEPT !.status = "FAILED", !.lease = None]

\* complete, mark_unknown and fail.  A completion that got lost is reported as ambiguous.
Report(a, heard) ==
    LET m == adapter[a].of IN
    /\ adapter[a].at \in {"receipt", "ambiguous", "throttled", "rejected"}
    /\ heard = adapter[a].at \/ (adapter[a].at = "receipt" /\ heard = "ambiguous")
    /\ IF Current(a)
       THEN /\ row' = [row EXCEPT ![m] = Reported(@, heard)]
            /\ tries' = [tries EXCEPT ![m] = SetLast(@, Reported(row[m], heard).status)]
       ELSE UNCHANGED <<row, tries>>
    /\ adapter' = [adapter EXCEPT ![a] = Idle]
    /\ UNCHANGED <<refused, accepts, unsent, bound, faults, inboxVars>>
-----------------------------------------------------------------------------
(***************************************************************************)
(* reconcile: the administrator has looked at the vendor's side.           *)
(***************************************************************************)
ReconcileSent(m) ==
    /\ row[m].status = "UNKNOWN"
    /\ accepts[m] > 0
    /\ row' = [row EXCEPT ![m].status = "SENT"]
    /\ tries' = [tries EXCEPT ![m] = SetLast(@, "SENT")]
    /\ UNCHANGED <<refused, adapter, accepts, unsent, bound, faults, inboxVars>>

ReconcileUnsent(m) ==
    /\ row[m].status = "UNKNOWN"
    /\ accepts[m] = 0
    /\ row' = [row EXCEPT ![m].status = "FAILED",
                          ![m].due = IF row[m].gen < MaxAttempts THEN 0 ELSE None]
    /\ tries' = [tries EXCEPT ![m] = SetLast(@, "FAILED")]
    /\ unsent' = [unsent EXCEPT ![m] = @ + 1]
    /\ UNCHANGED <<refused, adapter, accepts, bound, faults, inboxVars>>
-----------------------------------------------------------------------------
\* (mutant) a time that is NULL or has passed goes on counting
SoonerAlways(t) == t - 1

Sooner(t) == IF t > 0 THEN t - 1 ELSE t

\* A worker or an adapter is about to outlive its claim.
Late ==
    \/ \E w \in InboxWorkers : inbox[w] # Idle /\ Holds(w) /\ event[inbox[w].of].lease = 1
    \/ \E a \in Adapters : adapter[a] # Idle /\ Current(a) /\ row[adapter[a].of].lease = 1

Tick ==
    /\ Late => faults < MaxFaults
    /\ faults' = IF Late THEN faults + 1 ELSE faults
    /\ event' = [m \in Messages |-> [event[m] EXCEPT !.lease = Sooner(@)]]
    /\ row' = [m \in Messages |-> [row[m] EXCEPT !.lease = Sooner(@), !.due = Sooner(@)]]
    /\ UNCHANGED <<run, runs, bound, refused, tries, inbox, adapter, accepts, unsent>>

\* A worker or an adapter dies, or the report of an adapter gets lost.
InboxCrash(w) ==
    /\ inbox[w] # Idle /\ faults < MaxFaults
    /\ faults' = faults + 1
    /\ InboxFrees(w)
    /\ UNCHANGED <<event, run, runs, bound, outboxVars>>

AdapterCrash(a) ==
    /\ adapter[a] # Idle /\ faults < MaxFaults
    /\ faults' = faults + 1
    /\ adapter' = [adapter EXCEPT ![a] = Idle]
    /\ UNCHANGED <<refused, row, tries, accepts, unsent, bound, inboxVars>>

InboxWork(w) ==
    \/ InboxDispatch(w) \/ InboxStale(w) \/ InboxReject(w) \/ InboxRelease(w)
    \/ \E failed \in BOOLEAN : InboxTurnsDown(w, failed)

Poll(a) ==
    \E over \in SUBSET Messages :
        \/ \E limited \in BOOLEAN : PollFinds(a, over, limited)
        \/ \E m \in Messages : PollDenies(a, over, m) \/ PollClaims(a, over, m)

Heard == {"receipt", "ambiguous", "throttled", "rejected"}

Deliver(a) ==
    \/ \E heard \in Heard, taken \in BOOLEAN : Post(a, heard, taken)
    \/ \E heard \in Heard : Report(a, heard)

Next ==
    \/ \E m \in Messages :
          \/ AcceptTrustedEvent(m) \/ BridgeStarts(m) \/ Bind(m) \/ Schedule(m)
          \/ RunEnds(m, "COMPLETED") \/ RunEnds(m, "FAILED")
          \/ ReconcileSent(m) \/ ReconcileUnsent(m)
    \/ \E w \in InboxWorkers : InboxWork(w) \/ InboxCrash(w) \/ \E m \in Messages : InboxClaim(w, m)
    \/ \E a \in Adapters : 
          \/ Poll(a) \/ Deliver(a) \/ AdapterCrash(a)
          \/ \E m \in Messages : BridgePrepares(a, m)
    \/ Tick

Spec == Init /\ [][Next]_vars

\* The loops of workers and adapters run, an adapter among them is idle again and again
\* and not always rate limited, and time passes.
Fairness ==
    /\ \A w \in InboxWorkers : WF_vars(InboxWork(w)) /\ WF_vars(\E m \in Messages : InboxClaim(w, m))
    /\ \A m \in Messages : WF_vars(Schedule(m))
    /\ \A a \in Adapters : WF_vars(Poll(a)) /\ WF_vars(Deliver(a))
    /\ WF_vars(Tick)

FairSpec == Spec /\ Fairness
-----------------------------------------------------------------------------
\* The rows have their types, and whoever is not idle works for a message.
ChannelTypeOK ==
    /\ event \in [Messages -> EventRow]
    /\ run \in [Messages -> {"NONE", "PENDING", "COMPLETED", "FAILED"}]
    /\ runs \in [Messages -> Nat]
    /\ bound \in [Messages -> BOOLEAN] /\ refused \in [Messages -> BOOLEAN]
    /\ row \in [Messages -> Delivery] /\ tries \in [Messages -> Seq(Status)]
    /\ inbox \in [InboxWorkers -> {Idle} \cup [at : {"claimed", "rejecting", "releasing"},
                                             of : Messages, token : Nat]]
    /\ adapter \in [Adapters -> {Idle} \cup [at : {"claimed"} \cup Heard, of : Messages,
                                             token : Nat]]
    /\ accepts \in [Messages -> Nat] /\ unsent \in [Messages -> Nat] /\ faults \in Nat

\* The delivery and its attempts tell one story: one attempt per claim, only the last one
\* open, ambiguous or sent, and sent only with a message the vendor has.
AttemptsAgree ==
    \A m \in Messages :
        LET d == row[m] t == tries[m] IN
        /\ Len(t) = d.gen
        /\ \A i \in 1 .. (Len(t) - 1) : t[i] = "FAILED"
        /\ d.status \in {"PROCESSING", "SENT", "UNKNOWN"} => Len(t) > 0 /\ t[Len(t)] = d.status
        /\ d.status = "FAILED" /\ Len(t) > 0 => t[Len(t)] = "FAILED"
        /\ d.status = "SENT" => accepts[m] > 0

\* The vendor accepts a message at most once, unless an administrator confirmed that it
\* was not sent while an adapter whose claim had run out was still about to post it: and
\* even then once more per confirmation.  A trusted event starts one Run, and it is the
\* accepted events that did; nothing of the kind holds of what comes over the bridge.
AcceptedOnce ==
    \A m \in Messages :
        /\ accepts[m] <= 1 + unsent[m]
        /\ m \in Claimable => accepts[m] <= unsent[m]
        /\ m \in Trusted => runs[m] <= 1 /\ (runs[m] = 1 <=> event[m].status = "ACCEPTED")

\* What nobody outside the workers and adapters has to move on: an event that is not
\* settled, a completed Run without its delivery, a delivery that is claimed.
Open(m) ==
    \/ event[m].status \in {"PENDING", "PROCESSING"}
    \/ m \in Trusted /\ run[m] = "COMPLETED" /\ row[m].status = "ABSENT" /\ ~refused[m]
    \/ row[m].status = "PROCESSING"

\* No event, no completed Run and no claim is forgotten, whoever crashed over it.
ChannelMoves == \A m \in Messages : []<>~Open(m)
=============================================================================
