--------------------------- MODULE KnowledgeSync ---------------------------
(***************************************************************************)
(* One managed DingTalk source: workers that scan its directory and read   *)
(* its documents under a lease, the user who pauses, resumes and restarts  *)
(* it, the vendor who moves, edits and withdraws documents meanwhile, and  *)
(* Runs that demand a scan begun after their question and publish answers  *)
(* from what it brought.                                                   *)
(*                                                                         *)
(* Timers count down: a lease or a grant of 0 has run out.  Timestamps and *)
(* generations are kept as what the code asks of them: whether a row was   *)
(* seen and read in the current generation, and for which Runs an event    *)
(* came after the question.  DENIED is not told apart from FAILED.         *)
(***************************************************************************)
EXTENDS Naturals, FiniteSets, Sequences, SequencesExt

CONSTANTS
    Docs,           \* documents (adoc)
    Folders,        \* folders, children of Root
    Root,           \* the root node of the one workspace
    Bodies,         \* texts that a document can have
    Workers,        \* KnowledgeSyncWorkers
    Readers,        \* Runs that search, one after the other
    PageSize,       \* records of a directory page
    WorkLease,      \* WORK_LEASE_SECONDS
    AccessLease,    \* ACCESS_LEASE_SECONDS
    Poll,           \* pause after a complete scan
    Backoff,        \* pause after a failure
    Start,          \* the vendor's documents when the model starts
    MaxActs,        \* changes by the vendor, the administrator and the user (bound); what
                    \* restores access comes free
    MaxFaults       \* crashes, failed directory calls and overrun leases (bound)

None == "none"
Gaps == "gaps"      \* a body the reader cannot get completely
Refused == "refused" \* a body at which accept_read raises what tick does not handle
Done == "done"      \* the completed generation, among those a read is compared with
Scan == "scan"      \* the current scan, among those whose start is remembered

Parents == Folders \cup {Root}
Nodes == Docs \cup Folders

Texts == Bodies \cup {Gaps, Refused}

ASSUME KnowledgeAssumption ==
    /\ PageSize \in Nat \ {0} /\ WorkLease \in Nat \ {0} /\ AccessLease \in Nat
    /\ Poll \in Nat /\ Backoff \in Nat /\ MaxActs \in Nat /\ MaxFaults \in Nat
    /\ Start \in [Docs -> [place : Parents, body : Bodies, open : {TRUE}]]
    /\ IsFiniteSet(Nodes) /\ Docs \cap Folders = {} /\ Root \notin Nodes
    /\ None \notin Workers \cup Nodes \cup {Root}
    /\ Bodies \cap {None, Gaps, Refused} = {} /\ Done \notin Readers /\ Scan \notin Readers

VARIABLES
    source,     \* the KnowledgeSyncSource
    item,       \* item[n]: its KnowledgeSyncItem, and the Document of a document
    worker,     \* the claim that a worker carries through one tick
    reader,     \* the live search and the answer of a Run
    vendor,     \* vendor[d]: where a document is, its text, whether the principal may read it
    linked,     \* connector, its revocation, binding and installation still allow the source
    acts,       \* changes so far
    faults,     \* faults so far
    served,     \* history: what is left of a grant made when the vendor last served d
    shown,      \* history: what the vendor would have served since the question of a Run
    steady      \* history: documents that have not moved since a question or the start of the scan

vars == <<source, item, worker, reader, vendor, linked, acts, faults, served, shown, steady>>

history == <<served, shown, steady>>
world == <<vendor, linked>>
bounds == <<acts, faults>>

NoScan == [stage |-> None, queue |-> <<>>]
Begun  == [stage |-> "workspaces", queue |-> <<>>]

Idle == [at |-> "idle", scan |-> NoScan, node |-> None, page |-> {}, deep |-> {}, more |-> FALSE,
         body |-> None, left |-> 0, after |-> {}]

NoItem == [status |-> "ABSENT", seen |-> FALSE, read |-> FALSE, access |-> 0, body |-> None,
           after |-> {}, upto |-> {}]

Quiet == [at |-> "idle", evidence |-> {}, stale |-> {}]

Init ==
    /\ source = [status |-> "ABSENT", scan |-> NoScan, token |-> None, lease |-> 0, poll |-> 0,
                 started |-> {}, done |-> {}]
    /\ item = [n \in Nodes |-> NoItem]
    /\ worker = [w \in Workers |-> Idle]
    /\ reader = [r \in Readers |-> Quiet]
    /\ vendor = Start /\ linked = TRUE /\ acts = 0 /\ faults = 0
    /\ served = [d \in Docs |-> AccessLease]
    /\ shown = [r \in Readers |-> {}] /\ steady = [x \in Readers \cup {Scan} |-> {}]
-----------------------------------------------------------------------------
(* The vendor *)

Children(p) == {d \in Docs : vendor[d].place = p} \cup IF p = Root THEN Folders ELSE {}

Present == {d \in Docs : vendor[d].place # None}

\* verify_document_reader and the read of the host
Serves(d) == d \in Present /\ vendor[d].open

Text(d) == <<d, vendor[d].body>>

\* Runs with a question whose answer is still open
Asking == {r \in Readers : reader[r].at \in {"waiting", "proved", "found"}}

Act == acts < MaxActs /\ acts' = acts + 1 /\ faults' = faults
Fault == faults < MaxFaults /\ faults' = faults + 1 /\ acts' = acts

\* What changes outside is noted in the history.
Note ==
    /\ served' = [d \in Docs |-> IF Serves(d)' THEN AccessLease ELSE served[d]]
    /\ shown' = [r \in Readers |->
                    IF r \in Asking THEN shown[r] \cup {Text(d)' : d \in {e \in Docs : Serves(e)'}}
                    ELSE shown[r]]
    /\ UNCHANGED <<source, item, worker, reader, linked>>

\* Moved, deleted or created again
Move(d, p) ==
    /\ vendor[d].place # p /\ Act
    /\ vendor' = [vendor EXCEPT ![d].place = p]
    /\ steady' = [x \in DOMAIN steady |-> steady[x] \ {d}]
    /\ Note

Edit(d, b) ==
    /\ vendor[d].body # b /\ Act
    /\ vendor' = [vendor EXCEPT ![d].body = b]
    /\ steady' = steady /\ Note

Share(d) ==
    /\ IF vendor[d].open THEN Act ELSE UNCHANGED bounds
    /\ vendor' = [vendor EXCEPT ![d].open = ~@]
    /\ steady' = steady /\ Note

\* An administrator withdraws or restores what the source rests on.
Link ==
    /\ IF linked THEN Act ELSE UNCHANGED bounds
    /\ linked' = ~linked
    /\ UNCHANGED <<source, item, worker, reader, vendor, history>>
-----------------------------------------------------------------------------
(* The user *)

\* create_source; a second registration changes nothing
CreateSource ==
    /\ source.status = "ABSENT" /\ linked
    /\ source' = [source EXCEPT !.status = "ACTIVE"]
    /\ UNCHANGED <<item, worker, reader, world, bounds, history>>

DisableSource ==
    /\ source.status # "ABSENT" /\ Act
    /\ source' = [source EXCEPT !.status = "PAUSED", !.token = None, !.lease = 0]
    /\ UNCHANGED <<item, worker, reader, world, history>>

ScheduleSource(resume) ==
    /\ source.status = "ACTIVE" \/ (source.status = "PAUSED" /\ resume)
    /\ linked /\ IF source.status = "ACTIVE" THEN Act ELSE UNCHANGED bounds
    /\ item' = IF source.status = "ACTIVE" THEN item
               ELSE [n \in Nodes |-> IF item[n].status = "READY"
                                     THEN [item[n] EXCEPT !.status = "PENDING", !.access = 0]
                                     ELSE item[n]]
    /\ source' = [source EXCEPT !.status = "ACTIVE", !.scan = NoScan, !.token = None,
                                !.lease = 0, !.poll = 0]
    /\ UNCHANGED <<worker, reader, world, history>>
-----------------------------------------------------------------------------
(* One tick of a worker: claim, prepare, call, accept or fail *)

\* Idle workers are alike: it does not matter which of them finds the source due.
ClaimSource ==
    LET w == CHOOSE v \in Workers : worker[v] = Idle IN
    /\ \E v \in Workers : worker[v] = Idle
    /\ source.status = "ACTIVE" /\ source.poll = 0 /\ source.lease = 0
    /\ IF source.scan = NoScan
       THEN /\ source' = [source EXCEPT !.token = w, !.lease = WorkLease, !.started = Asking]
            /\ item' = [n \in Nodes |-> [item[n] EXCEPT !.seen = FALSE, !.read = FALSE]]
            /\ steady' = [steady EXCEPT ![Scan] = Present]
       ELSE /\ source' = [source EXCEPT !.token = w, !.lease = WorkLease]
            /\ UNCHANGED <<item, steady>>
    /\ worker' = [worker EXCEPT ![w] =
                    [Idle EXCEPT !.at = "claimed",
                                 !.scan = IF source.scan = NoScan THEN Begun ELSE source.scan]]
    /\ UNCHANGED <<reader, world, bounds, served, shown>>

\* (mutant) only the pause fences a worker, not a restart or another claim
LockedActive(w) == source.status = "ACTIVE"

\* The claim of w has not been taken away, nor has it run out.
Held(w) == source.token = w /\ source.lease > 0

\* _locked
Locked(w) == source.status = "ACTIVE" /\ Held(w)

Checkpoint(scan, pause) ==
    source' = [source EXCEPT !.scan = scan, !.token = None, !.lease = 0, !.poll = pause]

\* checkpoint_source with complete: what the scan has not seen is missing
Complete ==
    /\ source' = [source EXCEPT !.scan = NoScan, !.token = None, !.lease = 0, !.poll = Poll,
                                !.done = source.started]
    /\ item' = [n \in Nodes |->
                  IF item[n].status = "ABSENT" THEN item[n]
                  ELSE [item[n] EXCEPT
                          !.status = IF item[n].seen THEN @ ELSE "MISSING",
                          !.access = IF item[n].seen THEN @ ELSE 0,
                          !.upto = IF item[n].read THEN @ \cup {Done} ELSE @ \ {Done}]]

\* (mutant) a document that is already READY is not read again
UnreadPending == {d \in Docs : item[d].seen /\ ~item[d].read /\ item[d].status # "READY"}

Unread == {d \in Docs : item[d].seen /\ ~item[d].read}

Become(w, c) == worker' = [worker EXCEPT ![w] = c]

\* An error leaves the unit and its results behind.
Failed(c) == [Idle EXCEPT !.at = "failing", !.scan = c.scan, !.node = c.node]

Prepare(w) ==
    LET c == worker[w] IN
    /\ c.at = "claimed"
    /\ \/ ~Locked(w) /\ Become(w, Idle) /\ UNCHANGED <<source, item>>
       \/ /\ Locked(w) /\ ~linked
          /\ Become(w, Failed(c)) /\ UNCHANGED <<source, item>>
       \/ /\ Locked(w) /\ linked /\ c.scan.stage # "read"
          /\ Become(w, [c EXCEPT !.at = "calling"]) /\ UNCHANGED <<source, item>>
       \/ /\ Locked(w) /\ linked /\ c.scan.stage = "read"
          /\ \E d \in Unread : Become(w, [c EXCEPT !.at = "calling", !.node = d])
          /\ UNCHANGED <<source, item>>
       \/ /\ Locked(w) /\ linked /\ c.scan.stage = "read" /\ Unread = {}
          /\ Complete /\ Become(w, Idle)
    /\ UNCHANGED <<reader, world, bounds, history>>

\* One page of a directory under its cursor, which is what it has returned before
Pages(here) ==
    LET rest == Children(here.parent) \ here.listed
    IN  IF Cardinality(rest) <= PageSize THEN {rest}
        ELSE {some \in SUBSET rest : Cardinality(some) = PageSize}

Discover(w) ==
    LET c == worker[w] IN
    /\ c.at = "calling" /\ c.node = None
    /\ \/ ~linked /\ Become(w, Failed(c))
       \/ /\ linked /\ c.scan.stage = "workspaces"
          /\ Become(w, [c EXCEPT !.at = "answered"])
       \/ /\ linked /\ c.scan.stage = "nodes"
          /\ LET here == Head(c.scan.queue) IN
             \E some \in Pages(here) :
                Become(w, [c EXCEPT
                    !.at = "answered", !.page = some,
                    !.more = Children(here.parent) \ here.listed # some,
                    !.deep = {f \in some \cap Folders : Children(f) # {}}])
    /\ UNCHANGED <<source, item, reader, world, bounds, history>>

\* The reader of the host checks the permission, reads the body ...
Fetch(w) ==
    LET c == worker[w] IN
    /\ c.at = "calling" /\ c.node # None
    /\ Become(w, IF linked /\ Serves(c.node)
                 THEN [c EXCEPT !.at = "fetched", !.body = vendor[c.node].body]
                 ELSE Failed(c))
    /\ UNCHANGED <<source, item, reader, world, bounds, history>>

\* (mutant) the permission is not checked after the read
VerifyNothing(w) ==
    LET c == worker[w] IN
    /\ c.at = "fetched"
    /\ Become(w, [c EXCEPT !.at = "checked"])
    /\ UNCHANGED <<source, item, reader, world, bounds, history>>

\* ... checks the permission again ...
Verify(w) ==
    LET c == worker[w] IN
    /\ c.at = "fetched"
    /\ Become(w, IF Serves(c.node) THEN [c EXCEPT !.at = "checked"] ELSE Failed(c))
    /\ UNCHANGED <<source, item, reader, world, bounds, history>>

\* ... and, when it has looked at binding and connector and closed the client, takes the
\* time: observed_at, from which the grant will count.
Stamp(w) ==
    LET c == worker[w] IN
    /\ c.at = "checked"
    /\ Become(w, IF linked THEN [c EXCEPT !.at = "answered", !.left = AccessLease, !.after = Asking]
                 ELSE Failed(c))
    /\ UNCHANGED <<source, item, reader, world, bounds, history>>

\* Policy refuses, the call fails, repeats a cursor or brings no usable text, or the unit
\* takes too long.  A document may fail whenever it is read, for ever.
Unavailable(w) ==
    /\ worker[w].at \in {"claimed", "calling", "fetched", "checked", "answered"}
    /\ IF worker[w].node = None THEN Fault ELSE UNCHANGED bounds
    /\ Become(w, Failed(worker[w]))
    /\ UNCHANGED <<source, item, reader, world, history>>

\* The scan after a page: its folders join the queue, and the last page ends its directory.
Advance(c) ==
    LET here == Head(c.scan.queue)
        new == SetToSeq({[parent |-> f, listed |-> {}] : f \in c.deep})
        queue == IF c.more THEN <<[here EXCEPT !.listed = @ \cup c.page]>> \o Tail(c.scan.queue) \o new
                 ELSE Tail(c.scan.queue) \o new
    IN  IF c.scan.stage = "workspaces"
        THEN [stage |-> "nodes", queue |-> <<[parent |-> Root, listed |-> {}]>>]
        ELSE [stage |-> IF queue = <<>> THEN "read" ELSE "nodes", queue |-> queue]

\* (mutant) a page that lists a document again restores its old grant
ListedReady(n) ==
    IF n \in Docs /\ item[n].status \in {"READY", "PARTIAL"}
    THEN [item[n] EXCEPT !.seen = TRUE, !.status = "READY"]
    ELSE [item[n] EXCEPT !.seen = TRUE, !.access = 0,
                         !.status = IF n \in Docs THEN "PENDING" ELSE "PARTIAL"]

\* A page confirms the grant of a document that is READY and renews none.
Listed(n) ==
    IF item[n].status = "READY" THEN [item[n] EXCEPT !.seen = TRUE]
    ELSE [item[n] EXCEPT !.seen = TRUE, !.access = 0,
                         !.status = IF n \in Docs THEN "PENDING" ELSE "PARTIAL"]

Repeats(c) == \E n \in c.page : item[n].seen

AcceptPage(w) ==
    LET c == worker[w] IN
    /\ c.at = "answered" /\ c.node = None
    /\ \/ ~Locked(w) /\ Become(w, Idle) /\ UNCHANGED <<source, item>>
       \/ /\ Locked(w) /\ (~linked \/ Repeats(c))
          /\ Become(w, Failed(c)) /\ UNCHANGED <<source, item>>
       \/ /\ Locked(w) /\ linked /\ ~Repeats(c)
          /\ item' = [n \in Nodes |-> IF n \in c.page THEN Listed(n) ELSE item[n]]
          /\ Checkpoint(Advance(c), 0)
          /\ Become(w, Idle)
    /\ UNCHANGED <<reader, world, bounds, history>>

\* The row of a document whose reading was accepted: READY with the grant counted from
\* observed_at, or PARTIAL without one.
Accepted(c) ==
    LET i == [item[c.node] EXCEPT !.seen = TRUE, !.read = TRUE, !.after = c.after,
                                  !.upto = Asking \cup {Done}]
    IN  IF c.body = Gaps THEN [i EXCEPT !.status = "PARTIAL", !.access = 0]
        ELSE [i EXCEPT !.status = "READY", !.access = c.left, !.body = c.body]

\* ingest makes a new version when the text differs; evidence of the old one is stale.  A new
\* version of the same text, whose revision, parser or raw checksum differ, only refuses more:
\* Publish may refuse whatever it holds.
Outdate(c) ==
    reader' = [r \in Readers |->
                 IF /\ reader[r].at = "found" /\ c.body # Gaps
                    /\ c.body # item[c.node].body
                 THEN [reader[r] EXCEPT
                         !.stale = @ \cup ({c.node} \cap {e[1] : e \in reader[r].evidence})]
                 ELSE reader[r]]

\* An exception that tick does not handle takes the transaction back and goes to sync_host:
\* the document stays unread, the lease stays, and the next claim may pick it again.
AcceptRead(w) ==
    LET c == worker[w]
        good == linked /\ c.left > 0
    IN
    /\ c.at = "answered" /\ c.node # None
    /\ \/ /\ ~Locked(w) \/ (good /\ c.body = Refused)
          /\ Become(w, Idle) /\ UNCHANGED <<source, item, reader>>
       \/ /\ Locked(w) /\ ~good
          /\ Become(w, Failed(c)) /\ UNCHANGED <<source, item, reader>>
       \/ /\ Locked(w) /\ good /\ c.body # Refused
          /\ item' = [item EXCEPT ![c.node] = Accepted(c)]
          /\ Outdate(c)
          /\ Checkpoint(c.scan, 0) /\ Become(w, Idle)
    /\ UNCHANGED <<world, bounds, history>>

\* (mutant) a failed document does not count as read
BlamedUnread(c) ==
    IF c.node # None
    THEN [item EXCEPT ![c.node].status = "FAILED", ![c.node].access = 0]
    ELSE [n \in Nodes |-> [item[n] EXCEPT !.access = 0,
                                          !.status = IF @ = "READY" THEN "FAILED" ELSE @]]

\* The rows after a failure: a failed document counts as read and loses its grant, a failed
\* directory takes the grants of all.
Blamed(c) ==
    IF c.node # None
    THEN [item EXCEPT ![c.node].read = TRUE, ![c.node].status = "FAILED", ![c.node].access = 0,
                      ![c.node].upto = Asking \cup {Done}]
    ELSE [n \in Nodes |-> [item[n] EXCEPT !.access = 0,
                                          !.status = IF @ = "READY" THEN "FAILED" ELSE @]]

Failure(w) ==
    LET c == worker[w] IN
    /\ c.at = "failing"
    /\ IF Locked(w) THEN item' = Blamed(c) /\ Checkpoint(c.scan, Backoff)
       ELSE UNCHANGED <<source, item>>
    /\ Become(w, Idle)
    /\ UNCHANGED <<reader, world, bounds, history>>

\* The host of a worker dies anywhere in a tick, or an exception that has nothing to do with
\* the document, of the database for one, ends the tick; the lease stays.
Crash(w) ==
    /\ worker[w] # Idle /\ Fault
    /\ Become(w, Idle)
    /\ UNCHANGED <<source, item, reader, world, history>>
-----------------------------------------------------------------------------
(* Runs *)

\* A Run is created: from now on events count as after its question.
Ask(r) ==
    /\ r \notin Asking
    /\ reader' = [reader EXCEPT ![r] = [Quiet EXCEPT !.at = "waiting"]]
    /\ shown' = [shown EXCEPT ![r] = {Text(d) : d \in {e \in Docs : Serves(e)}}]
    /\ steady' = [steady EXCEPT ![r] = Present]
    /\ UNCHANGED <<source, item, worker, world, bounds, served>>

\* The Run is done with its question, and nothing is compared with it any more.
Leave(r, end) ==
    /\ reader' = [reader EXCEPT ![r] = end]
    /\ source' = [source EXCEPT !.started = @ \ {r}, !.done = @ \ {r}]
    /\ item' = [n \in Nodes |-> [item[n] EXCEPT !.after = @ \ {r}, !.upto = @ \ {r}]]
    /\ worker' = [w \in Workers |-> [worker[w] EXCEPT !.after = @ \ {r}]]
    /\ shown' = [shown EXCEPT ![r] = {}]
    /\ steady' = [steady EXCEPT ![r] = {}]

\* external_access_clause
ExternalAccess(d) ==
    item[d].status = "READY" /\ item[d].access > 0 /\ source.status = "ACTIVE" /\ linked

\* LiveKnowledgeProof.clause
Fresh(r, d) == item[d].status = "READY" /\ r \in item[d].after /\ r \in item[d].upto

Incomplete == {d \in Docs : item[d].status \notin {"ABSENT", "READY", "MISSING"}}

Readable(r) ==
    {d \in Docs : item[d].status = "READY" /\ r \in item[d].after /\ item[d].access > 0
                  /\ Done \in item[d].upto}

\* One round of await_live_sources: proof, refusal, or a demand for an earlier scan
AwaitLiveSources(r) ==
    /\ reader[r].at = "waiting"
    /\ \/ /\ source.status # "ACTIVE" \/ (r \in source.done /\ Incomplete # {} /\ Readable(r) = {})
          /\ Leave(r, Quiet)
       \/ /\ source.status = "ACTIVE" /\ r \in source.done
          /\ Incomplete # {} => Readable(r) # {}
          /\ reader' = [reader EXCEPT ![r].at = "proved"]
          /\ item' = [n \in Nodes |-> [item[n] EXCEPT !.upto = IF Done \in @ THEN @ \cup {r}
                                                               ELSE @ \ {r}]]
          /\ UNCHANGED <<source, worker, shown, steady>>
       \/ /\ source.status = "ACTIVE" /\ r \notin source.done
          /\ source.poll > 0 /\ source.lease = 0
          /\ source' = [source EXCEPT !.poll = 0]
          /\ UNCHANGED <<item, worker, reader, shown, steady>>
    /\ UNCHANGED <<world, bounds, served>>

\* The wait is over without a scan, or the principal has lost knowledge.read.
GiveUp(r) ==
    /\ reader[r].at = "waiting"
    /\ Leave(r, Quiet)
    /\ UNCHANGED <<world, bounds, served>>

\* KnowledgeService.search: the best of what proof and source allow
Search(r) ==
    /\ reader[r].at = "proved"
    /\ \E hits \in SUBSET {d \in Docs : Fresh(r, d) /\ ExternalAccess(d)} :
          IF hits = {} THEN Leave(r, Quiet)
          ELSE /\ reader' = [reader EXCEPT ![r].at = "found",
                                           ![r].evidence = {<<d, item[d].body>> : d \in hits}]
               /\ UNCHANGED <<source, item, worker, shown, steady>>
    /\ UNCHANGED <<world, bounds, served>>

\* KnowledgePublicationGuard.check: access and version are still those of the evidence.
\* Whatever else the guard looks at may refuse.
Publish(r) ==
    LET c == reader[r]
        current == c.stale = {} /\ \A e \in c.evidence : ExternalAccess(e[1])
    IN
    /\ c.at = "found"
    /\ \/ current /\ Leave(r, [Quiet EXCEPT !.at = "published"])
       \/ Leave(r, Quiet)
    /\ UNCHANGED <<world, bounds, served>>
-----------------------------------------------------------------------------
Down(t) == IF t > 0 THEN t - 1 ELSE 0

\* A unit is cut off after 100 of the 120 seconds of its lease: a lease that runs out
\* under its worker is a fault.
Overrun == source.lease = 1 /\ source.token \in Workers /\ worker[source.token] # Idle

\* A reading of d that may still be accepted is between the last check and observed_at.
Unstamped(d) == \E w \in Workers : Held(w) /\ worker[w].at = "checked" /\ worker[w].node = d

Tick ==
    /\ IF Overrun THEN Fault ELSE UNCHANGED bounds
    /\ source' = [source EXCEPT !.lease = Down(@), !.poll = Down(@)]
    /\ item' = [n \in Nodes |-> [item[n] EXCEPT !.access = Down(@)]]
    /\ worker' = [w \in Workers |-> [worker[w] EXCEPT !.left = Down(@)]]
    /\ served' = [d \in Docs |-> IF Serves(d) THEN AccessLease
                                ELSE IF Unstamped(d) THEN served[d] ELSE Down(served[d])]
    /\ UNCHANGED <<reader, world, shown, steady>>

Work(w) ==
    \/ Prepare(w) \/ Discover(w) \/ Fetch(w) \/ Verify(w) \/ Stamp(w)
    \/ AcceptPage(w) \/ AcceptRead(w) \/ Failure(w)

Next ==
    \/ \E d \in Docs : (\E p \in Parents \cup {None} : Move(d, p)) \/ Share(d)
                       \/ \E b \in Texts : Edit(d, b)
    \/ Link \/ CreateSource \/ DisableSource
    \/ \E resume \in BOOLEAN : ScheduleSource(resume)
    \/ ClaimSource
    \/ \E w \in Workers : Work(w) \/ Unavailable(w) \/ Crash(w)
    \/ \E r \in Readers : Ask(r) \/ AwaitLiveSources(r) \/ GiveUp(r) \/ Search(r) \/ Publish(r)
    \/ Tick

Spec == Init /\ [][Next]_vars

\* The loop of sync_host: a tick goes on, a due source is claimed by somebody, time passes.
FairSpec ==
    /\ Spec /\ WF_vars(Tick) /\ WF_vars(ClaimSource)
    /\ \A w \in Workers : WF_vars(Work(w))
-----------------------------------------------------------------------------
Queue == Seq([parent : Parents, listed : SUBSET Nodes])

\* source, items, claims, Runs and vendor hold values of their kinds; timers keep their limits
KnowledgeTypeOK ==
    /\ source \in [status : {"ABSENT", "ACTIVE", "PAUSED"},
                   scan : [stage : {None, "workspaces", "nodes", "read"}, queue : Queue],
                   token : Workers \cup {None}, lease : 0 .. WorkLease, poll : Nat,
                   started : SUBSET Readers, done : SUBSET Readers]
    /\ item \in [Nodes -> [status : {"ABSENT", "PENDING", "READY", "PARTIAL", "MISSING", "FAILED"},
                           seen : BOOLEAN, read : BOOLEAN, access : 0 .. AccessLease,
                           body : Bodies \cup {None}, after : SUBSET Readers,
                           upto : SUBSET (Readers \cup {Done})]]
    /\ \A w \in Workers :
          /\ worker[w].at \in {"idle", "claimed", "calling", "fetched", "checked", "answered",
                             "failing"}
          /\ worker[w].scan.stage = "nodes" => worker[w].scan.queue # <<>>
          /\ worker[w].left \in 0 .. AccessLease
    /\ \A n \in Nodes : (item[n].status = "READY" => item[n].body # None)
                        /\ (item[n].access > 0 => item[n].status = "READY")
    /\ reader \in [Readers -> [at : {"idle", "waiting", "proved", "found", "published"},
                               evidence : SUBSET (Docs \X Bodies), stale : SUBSET Docs]]
    /\ vendor \in [Docs -> [place : Parents \cup {None}, body : Texts, open : BOOLEAN]]
    /\ linked \in BOOLEAN /\ acts \in 0 .. MaxActs /\ faults \in 0 .. MaxFaults

\* A copy is readable only while the source rests on a valid connection, and at most
\* ACCESS_LEASE_SECONDS longer than the vendor lets the principal read the original:
\* whatever is paused, resumed, restarted, crashed over or accepted late.  The time between
\* the last check of a reading and its observed_at comes on top; it is part of one claim, so
\* it is less than WORK_LEASE_SECONDS.
AccessBounded == \A d \in Docs : ExternalAccess(d) => item[d].access <= served[d]

\* An answer rests only on texts that the vendor would have served since its question, and
\* is published only while a grant made when the vendor last served them would last, with
\* the addition of AccessBounded.
AnswersFresh ==
    [][\A r \in Readers : reader[r].at = "found" /\ reader'[r].at = "published" =>
          /\ reader[r].evidence \subseteq shown[r]
          /\ \A e \in reader[r].evidence : served[e[1]] > 0]_vars

\* A scan that completes has seen every document that stayed where it was, and calls none of
\* them missing; a proof never passes over such a document: it was read since the question
\* or is counted as incomplete.
NothingOverlooked ==
    [][/\ source.status = "ACTIVE" /\ source.scan # NoScan /\ source'.scan = NoScan /\ acts' = acts
          => \A d \in steady[Scan] : item[d].seen /\ item[d].read
       /\ \A r \in Readers : reader[r].at = "waiting" /\ reader'[r].at = "proved" =>
            \A d \in steady[r] : Fresh(r, d)' \/ d \in Incomplete]_vars

\* A node that this generation has already seen turns up in the directory that is being
\* listed: AcceptPage refuses the page, and Failure repeats it.
Wedged ==
    source.scan.stage = "nodes" /\
        LET here == Head(source.scan.queue)
        IN  \E n \in Children(here.parent) \ here.listed : item[n].seen

\* The vendor serves an unread document that accept_read cannot take: it stays unread, and
\* the same document is picked again.
Stuck == \E d \in Unread : Serves(d) /\ vendor[d].body = Refused

\* Once directory calls stop failing and workers stop dying, scans end and begin again,
\* however often the documents fail to be read: unless the source is paused or cut off, a
\* document has moved from a listed directory into one that is not, or a document makes
\* accept_read raise what tick does not handle.
ScansRecur ==
    \/ []<>(source.status # "ACTIVE" \/ ~linked \/ Wedged \/ Stuck)
    \/ []<><<source.scan = NoScan /\ source'.scan # NoScan>>_vars
=============================================================================
