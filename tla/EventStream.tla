---------------------------- MODULE EventStream ----------------------------
(***************************************************************************)
(* The event log of one Run: transactions that append to it, the ledger of *)
(* client requests that makes their retries safe, and its readers, the     *)
(* subscriptions of WebSocket connections and the SSE streams.             *)
(*                                                                         *)
(* A writing transaction is several actions: it takes the row of the Run   *)
(* with its first append, which allocates run_sequence, and keeps it until *)
(* it ends.  A reader sees what has committed when its statement runs; the *)
(* two statements of a poll are two actions, and so is every frame.        *)
(***************************************************************************)
EXTENDS Integers, FiniteSets, FiniteSetsExt

CONSTANTS
    Writers,    \* sessions that write
    Requests,   \* client_request_ids
    Sockets,    \* run.subscribe subscriptions, one client each
    Streams,    \* SSE streams, one client each
    Batch,      \* the limit of a poll
    MaxEvents,  \* events of the Run (bound)
    MaxLapses   \* how often the retention of a request runs out (bound)

None == 0

ASSUME StreamAssumption ==
    /\ Batch \in Nat \ {0} /\ MaxEvents \in Nat /\ MaxLapses \in Nat
    /\ None \notin Requests
    /\ Sockets \cap Streams = {}

VARIABLES
    terminal,   \* the committed status of the Run is terminal
    ended,      \* history: events committed when it became so
    version,    \* Run.aggregate_version, as the holder of the row sees it
    store,      \* the committed events
    tx,         \* the transactions of the writers
    reply,      \* reply[q]: the recorded outcome of a request
    lapses,     \* lapses[q]: how often its record was replaced after its retention
    reader,     \* what the server knows of a subscription or stream
    got         \* got[s]: the sequences its client has processed

vars == <<terminal, ended, version, store, tx, reply, lapses, reader, got>>

writeVars == <<terminal, ended, version, store, tx, reply, lapses>>
readVars  == <<reader, got>>

Readers == Sockets \cup Streams

\* by: the request the event is an effect of; end: run.completed, run.failed, run.cancelled
Event == [seq : Nat, by : Requests \cup {None}, end : BOOLEAN]

NoTx == [open |-> FALSE, key |-> None, again |-> FALSE, events |-> {}, ends |-> FALSE]

Off == [at |-> "off", cursor |-> 0, batch |-> {}, last |-> FALSE]

Init ==
    /\ terminal = FALSE /\ ended = 0 /\ version = 0 /\ store = {}
    /\ tx = [w \in Writers |-> NoTx]
    /\ reply = [q \in Requests |-> None] /\ lapses = [q \in Requests |-> 0]
    /\ reader = [s \in Readers |-> Off] /\ got = [s \in Readers |-> {}]
-----------------------------------------------------------------------------
(***************************************************************************)
(* Transactions.  With a request they start with AppServerRequestStore     *)
(* .claim: its insert waits for a transaction that has inserted the same   *)
(* key, and then finds the record.                                         *)
(***************************************************************************)
Begin(w) ==
    /\ ~tx[w].open
    /\ tx' = [tx EXCEPT ![w].open = TRUE]
    /\ UNCHANGED <<terminal, ended, version, store, reply, lapses, readVars>>

\* (mutant) the record is only looked for, and written when the work is done
ClaimsIfUnrecorded(q) == reply[q] = None

Claims(q) == reply[q] = None /\ \A v \in Writers : tx[v].key # q

Claim(w, q) ==
    /\ ~tx[w].open
    /\ Claims(q)
    /\ tx' = [tx EXCEPT ![w].open = TRUE, ![w].key = q]
    /\ UNCHANGED <<terminal, ended, version, store, reply, lapses, readVars>>

\* The retention is over: the record is deleted with the same transaction.
ClaimLapsed(w, q) ==
    /\ ~tx[w].open
    /\ reply[q] # None /\ lapses[q] < MaxLapses
    /\ \A v \in Writers : tx[v].key # q
    /\ tx' = [tx EXCEPT ![w].open = TRUE, ![w].key = q, ![w].again = TRUE]
    /\ UNCHANGED <<terminal, ended, version, store, reply, lapses, readVars>>

\* (mutant) the next sequence is taken without the row
FreeAlways(w) == TRUE

\* No other transaction holds the row of the Run.
Free(w) == \A v \in Writers \ {w} : tx[v].events = {} /\ ~tx[v].ends

\* EventStore.append, of an event that leaves the status alone
Append1(w) ==
    /\ tx[w].open /\ Free(w)
    /\ version < MaxEvents
    /\ tx[w].key = None \/ tx[w].events = {}
    /\ version' = version + 1
    /\ tx' = [tx EXCEPT ![w].events =
                 @ \cup {[seq |-> version + 1, by |-> tx[w].key, end |-> FALSE]}]
    /\ UNCHANGED <<terminal, ended, store, reply, lapses, readVars>>

\* The Run ends; a rejected approval ends it without an event of that name.
EndRun(w, named) ==
    /\ tx[w].open /\ Free(w)
    /\ ~terminal /\ ~tx[w].ends
    /\ named => version < MaxEvents
    /\ tx[w].key = None \/ tx[w].events = {} \/ ~named
    /\ version' = IF named THEN version + 1 ELSE version
    /\ tx' = [tx EXCEPT ![w].ends = TRUE,
                        ![w].events = @ \cup {e \in {[seq |-> version + 1, by |-> tx[w].key,
                                                      end |-> TRUE]} : named}]
    /\ UNCHANGED <<terminal, ended, store, reply, lapses, readVars>>

\* The outcome of a request is recorded with its effects.
Commit(w) ==
    LET q == tx[w].key IN
    /\ tx[w].open
    /\ store' = store \cup tx[w].events
    /\ terminal' = (terminal \/ tx[w].ends)
    /\ ended' = IF tx[w].ends THEN Cardinality(store') ELSE ended
    /\ reply' = IF q = None THEN reply
                ELSE [reply EXCEPT ![q] = IF tx[w].events = {} THEN -1
                                          ELSE Min({e.seq : e \in tx[w].events})]
    /\ lapses' = IF tx[w].again THEN [lapses EXCEPT ![q] = @ + 1] ELSE lapses
    /\ tx' = [tx EXCEPT ![w] = NoTx]
    /\ UNCHANGED <<version, readVars>>

\* An error, a lost connection or a crash: the row gets its old version back.
Rollback(w) ==
    /\ tx[w].open
    /\ tx' = [tx EXCEPT ![w] = NoTx]
    /\ version' = version - Cardinality(tx[w].events)
    /\ UNCHANGED <<terminal, ended, store, reply, lapses, readVars>>
-----------------------------------------------------------------------------
(***************************************************************************)
(* Readers.  list_run: the first Batch of the committed events after the    *)
(* cursor.  A page is a set of sequences, which Send takes in their order. *)
(***************************************************************************)
Later(cursor) == {n \in {e.seq : e \in store} : n > cursor}

Page(cursor) ==
    {n \in Later(cursor) : Cardinality({k \in Later(cursor) : k <= n}) <= Batch}

Named(page) == \E e \in store : e.end /\ e.seq \in page

SetReader(s, r) == reader' = [reader EXCEPT ![s] = r] /\ UNCHANGED <<writeVars, got>>

\* The client asks for what follows the last event it has processed.
Connect(s) ==
    /\ reader[s].at = "off"
    /\ SetReader(s, [Off EXCEPT !.at = "idle", !.cursor = Max(got[s] \cup {0})])

\* run_event_batch reads the Run, then its events.
PollStatus(s) ==
    /\ s \in Sockets /\ reader[s].at = "idle"
    /\ SetReader(s, [reader[s] EXCEPT !.at = "status", !.last = terminal])

\* (mutant) a full page is taken for the last one
CaughtUpAlways(page) == TRUE

\* (mutant) only an event that names the end completes a subscription
CaughtUpNamed(page) == Named(page)

CaughtUp(page) == Cardinality(page) < Batch

PollEvents(s) ==
    LET page == Page(reader[s].cursor) IN
    /\ reader[s].at = "status"
    /\ SetReader(s, [reader[s] EXCEPT !.at = "sending", !.batch = page,
                                      !.last = @ /\ CaughtUp(page)])

\* The stream asks for events, and only if there is none for the status of the Run.
StreamEvents(s) ==
    LET page == Page(reader[s].cursor) IN
    /\ s \in Streams /\ reader[s].at = "idle"
    /\ SetReader(s, [reader[s] EXCEPT !.at = IF page = {} THEN "empty" ELSE "sending",
                                      !.batch = page, !.last = Named(page)])

StreamStatus(s) ==
    /\ reader[s].at = "empty"
    /\ SetReader(s, [reader[s] EXCEPT !.at = IF terminal THEN "over" ELSE "idle"])

\* A frame is sent, the cursor follows it, the client processes it.
Send(s) ==
    LET n == Min(reader[s].batch) IN
    /\ reader[s].at = "sending" /\ reader[s].batch # {}
    /\ reader' = [reader EXCEPT ![s].cursor = n, ![s].batch = @ \ {n}]
    /\ got' = [got EXCEPT ![s] = @ \cup {n}]
    /\ UNCHANGED writeVars

Finish(s) ==
    /\ reader[s].at = "sending" /\ reader[s].batch = {}
    /\ SetReader(s, [reader[s] EXCEPT !.at = IF reader[s].last THEN "over" ELSE "idle"])

\* The connection breaks, with or without a frame the client has not processed; the
\* client unsubscribes; the access is revoked.
Drop(s) ==
    /\ reader[s].at \notin {"off", "over"}
    /\ SetReader(s, Off)

\* _poll_subscriptions handles ObsionError only.  Anything else, a database error under
\* run_event_batch or an error of the frame, ends the task, while the connection stays open
\* and nothing starts another: the subscription stands still until the client drops it.
PollerDies(s) ==
    /\ s \in Sockets /\ reader[s].at \in {"idle", "status", "sending"}
    /\ SetReader(s, [reader[s] EXCEPT !.at = "stalled", !.batch = {}, !.last = FALSE])
-----------------------------------------------------------------------------
Write(w) ==
    \/ Begin(w) \/ Append1(w) \/ Commit(w) \/ Rollback(w)
    \/ \E named \in BOOLEAN : EndRun(w, named)
    \/ \E q \in Requests : Claim(w, q) \/ ClaimLapsed(w, q)

Read(s) ==
    \/ PollStatus(s) \/ PollEvents(s) \/ StreamEvents(s) \/ StreamStatus(s) \/ Send(s) \/ Finish(s)

Next ==
    \/ \E w \in Writers : Write(w)
    \/ \E s \in Readers : Connect(s) \/ Read(s) \/ Drop(s) \/ PollerDies(s)

Spec == Init /\ [][Next]_vars

\* The poller of a connection runs while it lives, and so does the generator of a stream.
Fairness == \A s \in Readers : WF_vars(Read(s))

FairSpec == Spec /\ Fairness
-----------------------------------------------------------------------------
\* The rows have their types, and no two committed events share a sequence.
StreamTypeOK ==
    /\ terminal \in BOOLEAN /\ ended \in Nat /\ version \in Nat
    /\ store \subseteq Event
    /\ \A e, f \in store : e.seq = f.seq => e = f
    /\ tx \in [Writers -> [open : BOOLEAN, key : Requests \cup {None}, again : BOOLEAN,
                           events : SUBSET Event, ends : BOOLEAN]]
    /\ reply \in [Requests -> Nat \cup {-1}] /\ lapses \in [Requests -> Nat]
    /\ reader \in [Readers -> [at : {"off", "idle", "status", "empty", "sending", "stalled",
                                     "over"},
                               cursor : Nat, batch : SUBSET Nat, last : BOOLEAN]]
    /\ got \in [Readers -> SUBSET Nat]

\* "resumes from the last processed Run cursor without a gap"
\* (docs/product/requirements-traceability.md): whatever commits, rolls back, breaks and
\* reconnects, a client has processed a prefix of the log; and a subscription that is
\* reported as completed has got everything the Run had when it ended.
NoGap ==
    \A s \in Readers :
        /\ got[s] = 1 .. Cardinality(got[s])
        /\ got[s] \subseteq {e.seq : e \in store}
        /\ reader[s].at # "off" => reader[s].cursor = Cardinality(got[s])
        /\ reader[s].at = "over" => terminal
        /\ reader[s].at = "over" /\ s \in Sockets => ended <= Cardinality(got[s])

\* "A reconnect retry cannot repeat an App Server lifecycle mutation"
\* (docs/product/requirements-traceability.md): a request has its effect once while its
\* record is kept, and the record and the effect are there together.
RequestOnce ==
    \A q \in Requests :
        LET effects == {e \in store : e.by = q} IN
        /\ Cardinality(effects) <= 1 + lapses[q]
        /\ reply[q] = None => effects = {}
        /\ reply[q] > 0 => \E e \in effects : e.seq = reply[q]

\* Every subscription and every stream of a Run that has ended is ended as well, unless the
\* poller of its connection has died.
ReadersFinish ==
    \A s \in Readers :
        (terminal /\ reader[s].at # "off") ~> reader[s].at \in {"off", "over", "stalled"}
=============================================================================
