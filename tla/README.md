# obSion control plane: a TLA+ verification project

obSion runs investigations ("Runs") for its users: a control plane (Python, PostgreSQL)
queues a Run, a worker claims it under a lease, the Harness plans it, calls capabilities
(tools) through a gateway that enforces policy and approvals, and publishes an answer with
its evidence. Around that core are governed actions (changes to external systems under
approval), an event stream that clients subscribe to, inbound and outbound chat delivery,
scheduled automations and knowledge synchronisation. This project models the parts that
run concurrently, time out, crash or wait for people, checks them with TLC and proves the
most important facts with TLAPS.

All source paths below are relative to `services/control-plane/src/obsion/`.

## 1. Inventory

| Component | Source | State | Operations | Status here |
|---|---|---|---|---|
| Run state machine | `domain/run_state.py`, `domain/enums.py` | `Run.status` | `validate_run_transition` | `RunContract` |
| Run worker | `harness/worker.py` | lease, deadline | poll, `_claim`, time out, execute | `RunLifecycle` |
| Harness runtime | `harness/runtime.py`, `harness/steps.py`, `application/run_lifecycle.py` | steps, plan, budgets, evidence | prepare, waves, retry, replan, investigate, respond, fail, cancel | `RunLifecycle` |
| Capability gateway | `capabilities/gateway.py` | invocations, approvals | policy, approval lookup and creation, rate limit, call | `RunLifecycle` (agent path) |
| Approvals of Runs | `application/approvals.py` | `Approval` rows | approve, reject, late decision | `RunLifecycle` |
| Clarifications | `application/clarifications.py` | `Run.intent.clarification` | ask, answer, expire | `RunLifecycle` |
| Run cancellation | `application/workspaces.py`, `automation/*` | `cancellation_requested_at` | cancel a Run, cancel a child Run | `RunLifecycle` |
| Governed actions | `actions/*` | action, attempts, approvals, lease | preflight, decide, execute, verify, roll back, cancel, expire | `ActionControl`, `ChangeContract` |
| Event stream | `persistence/events.py`, `app_server/websocket.py`, `api/events.py` | per-Run sequence, subscriptions, SSE streams | append, commit, roll back, poll, close, reconnect | `EventStream` |
| Request ledger | `persistence/app_server_requests.py`, `application/app_server.py` | request id, recorded outcome | claim, replay, complete, expire | `EventStream` |
| DingTalk outbox | `application/dingtalk_outbox*.py` | ledger row, fencing token, lease, attempts, receipt | enqueue, claim, dispatch, expire, reconcile | `RobotOutbox`, `DeliveryContract` |
| IM inbox and delivery | `application/im_*.py`, `harness/worker.py` | inbox events, deliveries, attempts | accept, claim, dispatch, reject, release, prepare, report, reconcile | `ImChannel`; the robot's inbox in `RobotOutbox` |
| IM adapter | `apps/im-adapter/src/obsion_im` | what it holds and heard | poll, post, report | `ImChannel` |
| Automation | `automation/*` | workflow, schedule, executions, steps, child Runs | publish, pause, schedule, trigger, fire, claim, advance, review, cancel, fail | `Automation` |
| Knowledge sync | `knowledge/sync*.py`, `api/knowledge_sync.py`, `knowledge/handler.py`, `knowledge/source_access.py` | source row with its scan cursor and lease, items with grants, claims of workers | create, pause, resume, restart, claim, list, read, accept, fail | `KnowledgeSync` |
| Live search and publication | `knowledge/live.py`, `knowledge/service.py`, `knowledge/publication.py` | the proof and the evidence of a Run | await a scan, search, publish | `KnowledgeSync` |
| Rate limiter, circuit breaker | `capabilities/rate_limit.py`, `circuit_breaker.py` | windows, failures | admit, refuse, trip | not modelled; refusals are nondeterministic |
| Planner, understanding, critic, grounding | `harness/*.py` | none | text decisions | outcomes are nondeterministic choices |

`PROJECT.json` lists the rest (clients, connectors, sandbox, registries) with the reason
each is left out: pure I/O, row-at-a-time administration or user interface.

**Interactions.** Workers, the API process and the automation worker share nothing but the
database. Every transaction about a Run takes the Run row's lock before it changes anything
(the gateway does so by its first event append), so transactions are serial and what
interleaves is *whole transactions*. An executor keeps state in memory between them: where
it is in the Run, which jobs of the current wave are in flight and with which result.
Approvals, answers and cancellations arrive from other processes between any two
transactions; a worker may die at any point, including inside the transaction of a tool
call whose effect is already outside.

**What is hard.** (1) A lease and a deadline have to fit so that a crashed or slow worker
is never replaced by a second one that repeats its tool calls. (2) Approvals and answers
release the lease, so from then on two executors may work on one Run. (3) A wave runs its
jobs in parallel, and a tool call and the record of its result are different transactions.
(4) Retry, skip, revival and replan rewrite the plan's graph over several rounds. (5) Four
different services may end a Run. (6) A message handed to a chat vendor cannot be taken back:
a claim that runs out or a lost answer leaves its outcome unknown, and revocations race with
the POST. (7) Automation workers act on executions that people cancel, replace or review
meanwhile. (8) Readers follow a log whose writers commit and roll back. (9) A scan of a vendor's
directory goes over many leases while the vendor moves, edits and withdraws documents, and a copy
must not stay readable for longer than its grant. The hazards in `PROJECT.json` give the line of
each.

**What makes the parts correct.** Run: one terminal event that agrees with the row, a
frozen terminal state, no status off the graph. Worker: one executor, no takeover, always
an end. Harness: dependencies first, no stuck plan, no tool with a side effect called
twice, no answer without evidence. Approvals: one decision, one call. Actions:
no provider call without a live approval, one effect per approval, rollback after execute.
Events: gap-free and exactly once per subscriber. Outbox and inbox: neither lost nor sent
twice when the outcome is known. Automation: the concurrency policy holds, a step runs after
what it depends on, an ended execution stays ended. Knowledge: a copy is readable no longer than
the original allows, and an answer rests on what was read after its question.

## 2. Plan

Order of work; the most important behaviour first. Items 1 to 7 are written.

1. `RunContract`, `RunLifecycle`, `RunLifecycleProofs`, `RunCallsProofs`: a Run.
2. `ChangeContract`, `ActionControl`, `ActionControlProofs`: governed actions.
3. `Automation`, `AutomationProofs`: workflows, their schedules and executions over child Runs.
4. `DeliveryContract`, `RobotOutbox`, `RobotOutboxProofs`: replies of the robot, at most once.
5. `ImChannel`, `ImChannelProofs`: chat channels with adapters, from the vendor event to the delivery.
6. `EventStream`, `EventStreamProofs`: the event log, its readers and the request ledger.
7. `KnowledgeSync`, `KnowledgeSyncProofs`: a managed source, its scans and the answers drawn from it.
8. Left: the rate limiter and the circuit breaker (today their refusals are nondeterministic
   choices), operator invocations, replay Runs.

Every safety property that a run checks, and every refinement, is also a theorem (section 12). Worth
proving next: that what two executors do to one plan is bounded as well, which `CallsBounded` and
`PlanHonoured` leave open after a Run has been handed back.

## 3. RunLifecycle

### State

| Variable | Code |
|---|---|
| `status`, `deadline`, `lease`, `cancelReq` | `Run.status`, `deadline_at`, `lease_expires_at`, `cancellation_requested_at` |
| `planned`, `stepCount`, `replans`, `investigations` | `Run.plan`, `Run.step_count`, counters kept in `Run.plan` |
| `step`, `deps`, `retries`, `transient` | capability `RunStep` rows: status, `depends_on`, `retry_count`, retryable error |
| `core` | the VERIFY, REFLECT and RESPOND rows |
| `evidence` | `Evidence` rows: the steps they are of, and `Attachment` for those of the turn's attachments |
| `approvals`, `lastApproved` | `Approval` rows; the one decided last per step |
| `rounds`, `remaining`, `clarifyTtl` | `Run.intent.clarification` and `waiting_user_expires_at` |
| `pc`, `job`, `waited` | the memory of each `HarnessRuntime.execute` call |
| `invocations`, `lost`, `emitted` | history: tool calls committed or lost in a crash, terminal events |

Timestamps are distances from now in ticks: `None` is NULL, 0 is "passed". `Tick` moves
all of them. `lease_expires_at < now` is strict while `deadline_at <= now` is not, which is
the `+ 1` of `LeaseSpan`.

### Actions

Each action is one transaction together with what the executor does up to the next one.

* worker: `ClaimTimeout`, `Claim`;
* prepare: `PrepareNothing`, `PrepareCancel`, `PrepareRaises`, `PrepareClarify`, `PreparePlan`;
* waves: `StepsReturn`, `StepsCancel`, `StepsRaise`, `StepsSkip`, `StepsDone`, `StepsDispatch`;
* a job: `GatewayAsks`, `GatewayRefuses`, `GatewayLimits`, `GatewayCalls`, then `FinishStep`,
  `FinishLate`, `FinishCancel`, `WaitApproval`, `WaitRaises`;
* replans: `Transient*`, `Missing*`; answer: `Respond*`; failure: `Fail`, `FailNothing`;
* people and services: `Approve`, `Reject`, `ExpireApproval`, `Answer`, `ExpireClarification`,
  `CancelRun`, `RequestChildCancel`, `CancelChild`;
* environment: `Tick`, `Crash`, `CrashInCall`.

The first preparation that commits writes the Evidence of the turn's attachments (`Ingest`), also when it
ends in a question; `_respond` counts that Evidence like any other, and asks for no plan when there is some.

Abstracted: the text of questions, plans, evidence and answers. What planner, policy,
critic and model decide is a nondeterministic choice among the outcomes the code
distinguishes; `AskSteps` and `ReadOnly` fix what a pinned capability version fixes. Left
out: replay Runs, operator invocations and evidence normalisation.

### RunContract

`RunContract` is what a client may rely on: status on the edges of `run_state.py`, nothing
about a terminal Run changes, a cancelled Run has no open step, `run.completed` appears
with the step that completes the Run. `RunLifecycle` implements it (`ImplementsContract`)
with `open` mapped to the open rows and `answered` to the emitted event. `REPLANNING` is
entered and left in one transaction, so it is never visible.

## 4. ActionControl

One governed action (`actions/service.py`, `actions/worker.py`, `actions/gateway.py`) and its
external provider.

| Variable | Code |
|---|---|
| `status`, `deadline`, `lease`, `cancelReq`, `result` | the `ActionRequest` row; `result` is the set of purposes whose output is recorded |
| `approvals` | `ActionApproval` rows in order of creation: purpose, status, remaining time |
| `attempt` | the `ActionAttempt` row per purpose (the ordinal is always 1): status and the output its payload carries |
| `pc` | a worker task: idle, claimed, or raised (between the rolled-back `_invoke` and `_fail_after_exception`) |
| `sent`, `applied` | history of requests with key and approval; keys the provider has carried out |
| `crashes` | bound on worker deaths |

Every transaction locks the action row, and `_invoke` keeps the lock during the HTTP call, so it is
one action; `CrashInCall` is the death of a worker after the request left, which undoes everything
but the request. The provider may carry a request out at any later time (`ProviderApplies`),
also after the caller timed out. It treats equal keys as one request: that is an assumption about
external code, written in the provider contract of the design. A decision after expiry changes nothing, since
`session.begin()` in `api/actions.py` rolls back what `decide` wrote before it raised; the worker's
expiry does the work. Permissions, policies, schemas, rate limits and connectors are
nondeterministic refusals. The branch of `_invoke` that finds a complete attempt is part of
`InvokeCompletes`, and `AttemptMatches` shows that it is never taken.

`ChangeContract` is the promise to the owner of the external system: a request is sent only under
a standing grant for its purpose, one grant at a time, the execution granted once, a rollback
only after it.

## 5. Automation

One workflow (`automation/service.py`, `automation/worker.py`).

| Variable | Code |
|---|---|
| `wf` | the `WorkflowDefinition` row: status, whether a version is published, concurrency policy, the steps of the spec with their types and `depends_on` |
| `sched`, `enabling` | its `WorkflowSchedule` row; `set_schedule_enabled` between its read of the workflow and its commit |
| `exec` | `AutomationExecution` rows with status, step statuses, delivered notifications, deadline, lease, idempotency key or occurrence, and the instant they were created |
| `child` | the Run of every ANALYSIS step: status, whether cancellation was requested, whether a worker executes it |
| `pc`, `now`, `crashes` | worker tasks, the clock the schedule reads, bound |

`trigger_workflow` counts the active executions under the lock of the workflow (`Admit`);
everybody else locks only the execution. `_advance` does not compare the lease, so a worker
whose claim was taken over still advances (`Advance`), and what protects the row is the test for
a terminal status alone. The loop over the steps is one set, `started`: the steps that find
their dependencies complete when their turn comes, where a dependency with a smaller ordinal has
already been dispatched in the same pass (`Seen`, `Dispatched`). An exception rolls the
transaction back and a second transaction fails the execution (`AdvanceRaises`,
`FailAfterException`). A plan has at least one step (`automation/schemas.py` asks for one:
`PlanAssumption`). A rejected review ends as SKIPPED, not FAILED (`RejectStep`): `review_step` writes
FAILED, but sessions do not flush by themselves (`db/session.py:47`), so `_cancel_pending_steps` still selects the row
as WAITING_REVIEW and writes over it. Child Runs are those of `RunLifecycle`, reduced to what the automation
reads and what `RunWorker._claim` skips.

## 6. RobotOutbox and DeliveryContract

The replies of the DingTalk robot to direct messages: `receive`, `process` and the Run, the outbox ledger
(`application/dingtalk_outbox.py`), its workers, the administrators, the vendor.

| Variable | Code |
|---|---|
| `run`, `done` | the inbox message with its Run; completed Runs in the order of `completed_at` |
| `box` | the `DingTalkRobotOutbox` row: status, `blocked_reason` exhausted or not, `attempt_count` (= `fencing_token`), what it was bound to when queued (`frozen`), times, receipt checks |
| `facts`, `fresh` | what installation, binding, connector, access and answer say now, as one version; the verifications that run out by themselves |
| `pc` | a worker: claimed, sending (holds row and fence), posting (authorised), posted, checking a receipt |
| `posts`, `fate` | history: POSTs of a message and what the vendor did |

`claim_next` commits before `dispatch` starts. `dispatch` keeps the row lock and the shared
source fence during the vendor call, so writers of the facts wait (`FenceFree`), while time and
the expiry of verifications do not. Its two checks are two actions (`DispatchBegins`,
`Authorize`): whatever changes in between is caught by the second. `DeliveryContract` is the
promise of the ledger: one POST at most, none after a verdict, and a verdict that says accepted
or rejected only of a message that was sent.

## 7. ImChannel

The other chat channels: trusted events in the inbox (`im_inbox_worker.py`), deliveries
(`im_delivery.py`), the scheduling that a finished Run triggers (`harness/worker.py`), and the adapters
(`apps/im-adapter`), the polling one and the bridge.

| Variable | Code |
|---|---|
| `event`, `inbox` | `ImInboxEvent` rows: status, attempt, lease; inbox workers |
| `run`, `runs` | the Run of a message; how many were started for it |
| `bound`, `refused` | whether binding, installation and policy allow the message; an audited denial of its delivery |
| `row`, `tries` | `ImDelivery` rows; statuses of their `ImDeliveryAttempt` rows |
| `adapter` | the claim an adapter holds and what it heard from the vendor |
| `accepts`, `unsent` | history: messages the vendor accepted, confirmations that nothing was sent |

Unlike `dispatch`, an adapter posts outside any transaction: nothing ties the post to a claim
that has run out. What the model shows is therefore weaker than for the robot (`AcceptedOnce`): one
accepted message, and one more only for each time an administrator confirmed that nothing had been
sent. The administrator tells the truth at the moment of the confirmation (`ReconcileSent`,
`ReconcileUnsent`), which does not exclude an adapter that posts later. The inbox deduplicates trusted events, so one event
starts one Run; `ingest_message` does not, so an element of `Bridged` is one call of the bridge and a
message that the vendor repeats is two of them.

## 8. EventStream

The log of one Run (`persistence/events.py`), the request ledger
(`persistence/app_server_requests.py`), WebSocket subscriptions (`app_server/websocket.py`) and SSE
streams (`api/events.py`).

| Variable | Code |
|---|---|
| `version`, `store` | `Run.aggregate_version` as the holder of the row sees it; committed events with `run_sequence` |
| `tx` | a writing transaction: the request it works for, its events, whether it ends the Run |
| `reply`, `lapses` | the recorded outcome of a `client_request_id`; how often its record expired and was replaced |
| `reader`, `got` | cursor, page and phase of a subscription or stream; what its client has processed |
| `terminal`, `ended` | the committed status; history: events there were when the Run ended |

The first append takes the row of the Run and the transaction keeps it until it ends, so
sequences are committed in the order they were allocated and a rollback gives them back: that is
the fact `NoGap` rests on (to allocate without the row is the mutant of `StreamTypeOK`; the mutant of `NoGap`
takes a full page for the last one). The two statements of a poll are
two actions. A page is the set of the sequences that the query with its LIMIT returns (`Later`, `Page`); `Send` takes
them in their order. `EndRun` may append no terminal event: a rejected approval ends a Run that way, and
`ReadersFinish` shows that subscriptions and streams end all the same. The poller of a connection handles
`ObsionError` only: anything else ends its task while `run` goes on receiving (`PollerDies`), and
the subscription stands still until the client drops it or the connection.

## 9. KnowledgeSync

One managed DingTalk source with one workspace (`knowledge/sync.py`, `sync_queue.py`,
`sync_worker.py`, `sync_host.py`), the access it grants (`source_access.py`), and the Runs that search it live
(`live.py`) and publish what they found (`publication.py`).

| Variable | Code |
|---|---|
| `source` | the `KnowledgeSyncSource` row: status, stage and queue of the scan cursor, lease token and lease, next poll; `started`, `done`: the Runs whose question came before the current and the last complete scan (the code compares `scan_started_at` and `completed_scan_started_at` with the time of the question) |
| `item` | `KnowledgeSyncItem` rows: status, seen and read in this generation, what is left of the grant, the text of the current version; `after`: the Runs whose question is not later than `checked_at`; `upto`: those whose proof, and whether the completed scan, has a generation that `read_generation` reaches |
| `worker` | the claim a worker carries through one tick: claimed, calling, fetched, checked, answered, failing |
| `reader` | a Run: waiting for a scan, proved, found, published |
| `vendor`, `linked` | external: place, text and permission of a document; whether connector, binding and installation allow the source |
| `served`, `shown`, `steady` | history: what is left of a grant made when the vendor last served the document, the texts served since a question, the documents that stayed where they were |

A tick of a worker is claim, prepare, one or two calls of the vendor, and accept or fail; each is an
action of its own, because the pause, the restart, another worker's claim and the vendor come between
them. `Locked` is the test that every transaction of a tick begins with. A directory page is under a
cursor that is modelled by what it has already returned; a page that repeats a node of this
generation is refused, as in the code. A reading is two checks of the permission around the read of the text (`Fetch`, `Verify`), and then
`observed_at` (`Stamp`), from which the grant counts: binding and connector are looked at and the client is closed in
between. A document may fail to be read any number of times, and a text may be one at which `accept_read`
raises what `tick` does not handle (`Refused`). A failure on a document takes its grant, one on a directory takes
all of them. `Complete` marks what the scan has not seen as missing, in the transaction that ends it.
Folders do not move. DENIED and FAILED are one status, since nothing that reads them tells them apart.
`ingest` also makes a new version of the same text when revision, parser or raw checksum differ; the model
makes one when the text differs, and `Publish` may refuse whatever it holds, so the difference is a refusal that it
allows anyway (`Outdate`).

## 10. Runs

| Run | Shows | Bounds |
|---|---|---|
| `solo` | Two workers, crashes, a chain of two steps with one retry, a critic replan and an investigation: `SoleExecutor`, `CallsBounded`, `PlanHonoured` (with the absence of a plan that can neither go on nor end), `TerminalEventOnce`, `ImplementsContract` | 3 steps: two planned and one appended, so skip, revival and an insertion after both all occur; retries and replans 1, so each budget is both unspent and spent; timeout 2 ticks and lease 4, so deadline and lease expire separately; attachments or none (≈ 1,040,000 states) |
| `approval` | One step under ASK beside a free one, as the child of an automation: `ApprovalSingleUse` while a second executor resumes the Run and the first has jobs left | 2 independent steps are the smallest wave with a sibling; 2 executors; TTL 1; attachments or none (≈ 1,240,000 states) |
| `clarify` | Two rounds of questions: `AnswerGrounded`, and `Settles` under fairness | 2 rounds so a stale executor of round 1 meets round 2; attachments, so there may be evidence before there is a plan (≈ 330,000 states) |
| `stale_question` (violation) | A question nobody answers is never expired | one round is enough |
| `lost_wakeup` (violation) | A decision between the request's commit and the parking transaction wakes nobody | as `approval` |
| `action` | A governed action with an execution and two rollback requests: `RepeatsHarmless` (a repeated call carries the key and payload of the first and has no second effect), `RecordTruthful`, `Authorised`, `ImplementsChange`, and `ActionSettles` under fairness | 2 workers, so one is late while the other goes on; 2 crashes, so a recovery may itself be lost; 3 approvals, so a rollback is repeated; lease shorter than the deadline, so a reclaim happens in time and too late |
| `automation` | A workflow that forks into an analysis and a review, one that ends with its review, and a scheduled one: `AdmissionRespected`, `OutcomeTruthful`, `StepsFollowPlan`, `TriggeredOnce`, `ExecutionFinal`, and `ExecutionSettles` under fairness | 2 executions, so one is replaced, refused or skipped because of the other; 1 worker suffices for stale claims because people and replacements write meanwhile; the schedule has 3 occurrences, so an outage can swallow two; the plans split the work (`MCInit`, `Scope`): crashes, keys and child Runs where there is no schedule, misfires and pauses where there is one (≈ 190,000 states) |
| `orphan_child` (violation) | A child Run that waits when its execution ends is never cancelled | one step, one execution |
| `robot` | Two replies and two workers: `LedgerTruthful`, `ImplementsDelivery`, `PostAuthorised`, and `RepliesMove` under fairness | 2 messages, so one may block the other; 2 attempts, so the last one differs; 1 crash at any point, also between POST and record; one version of the facts, which may be withdrawn and come back |
| `chat` | A trusted event and a bridged message, one inbox worker, two adapters: `AttemptsAgree`, `AcceptedOnce`, and `ChannelMoves` under fairness | `MaxFaults` counts crashes and claims that run out under a live holder; two adapters, so one is late while the other polls; one inbox worker (≈ 250,000 states), so a worker that is late for a claim of another is left to the theorem (a run with two has 584,000 states and takes close to five minutes) |
| `events` | Two writers, one request, a subscription and a stream: `NoGap`, `RequestOnce`, and `ReadersFinish` under fairness | pages of 1 and logs of 2 events, so a full page is followed by a last one; 1 expired record; pollers may die (≈ 190,000 states) |
| `knowledge` | A document in a folder, two workers, one Run after the other: `AccessBounded`, `NothingOverlooked`, `AnswersFresh`, and `ScansRecur` under fairness | two workers, so one is late while the other goes on; pages of 1 record, so a directory of two has a cursor; 2 texts, so an edit makes a version; a lease of 2 ticks and a grant of 1, so a grant can run out in a row, in the hands of a worker whose lease goes on, and between search and publication, and `Poll` 0, so it can also live into the next scan; one change, one crash, failed directory call or overrun lease at any moment, and failed documents without bound (≈ 740,000 states, three minutes; grants of 2 ticks pass as well, with ≈ 990,000 states) |

`CHECK_DEADLOCK FALSE`: a Run ends, and the system may then stop. Bounds that are not in the code: `MaxCaps` (steps a
Run may come to own), `MaxApprovals` and `MaxCrashes` (of an action), `Execs`, `Horizon`
and `MaxCrashes` (automation), `MaxClaims`, `Versions` and `MaxCrashes` (robot), `MaxFaults`
(chat), `MaxEvents` and `MaxLapses` (events), `MaxActs` and `MaxFaults` (knowledge; what restores
access is not counted). Executors are interchangeable, hence the symmetry
in the runs of `RunLifecycle` without liveness.

**Fairness** (only `FairSpec`): weak fairness of the clock, of claiming (the worker loop
polls forever) and of each executor's next step (asyncio schedules it, every call has a
timeout). For actions: the clock, the expiry that every poll performs, claiming and each worker's next
transaction; `_claim` is the only place that looks at a dead worker's action, so `ActionSettles`
needs finitely many crashes (`MaxCrashes`). Nobody has to approve, answer or cancel, and crashes may recur; each claim that
crashes costs the lease's time, so the deadline ends the Run. Automation: the clock, the execution
loop of every worker, and the Runs of the children; nobody has to review, so WAITING_REVIEW is
where an execution may stay. Robot: the clock and the three parts of `run_once`, which every round
performs in turn; `enqueue_next` always takes the oldest candidate, so `RepliesMove` exempts a reply
behind an older one. Chat: the loops of inbox workers and adapters, and the reconciliation that
schedules missing deliveries; an adapter is not rate limited for ever. An exception ends the process of a polling adapter
(`apps/im-adapter/src/obsion_im/outbox.py:41`), so its fairness presumes a supervisor that starts it again. Events: the
poller of a connection while it lives, and the generator of a stream; a poller that has died gets no fairness and
`ReadersFinish` exempts its subscriptions; writers and clients need do nothing. Knowledge: the clock and the
loop of `sync_host`, that is, a due source is claimed by somebody and a worker's tick goes on. A unit
of work is cut off after 100 of the 120 seconds of its lease, so a lease that runs out under its worker
counts as a fault.

## 11. Findings and observations

* **lost_wakeup**: see the run. The Run then waits for a decision that has been taken.
* **stale_question**: `ClarificationService.expire` runs only when a late answer arrives,
  while the design says that workers reconcile unanswered requests.
* **orphan_child**: `_fail_execution`, and `_cancel_execution_rows` for a child that is not PENDING,
  only write `cancellation_requested_at`. A child Run that waits for an approval or its user, or whose
  worker died, is never looked at again, while the design speaks of the ordinary cancellation request.

Seen while modelling and not stated as findings: neither `_invoke_step` nor the gateway reads the Run
before the connector is called (`capabilities/gateway.py:1276`), so a job that was already dispatched may
call its tool after a cancellation has committed, while the design speaks of a cancellation that is
checked before every boundary; a rejected approval fails the Run without
`run.failed`, and `_cancel_execution_rows` cancels a PENDING child without `run.cancelled`,
so `TerminalEventOnce` asks for at most one event and for the event of an answer only; a stale executor
may fail a Run whose question was answered meanwhile, and, when the turn came with attachments, may
complete it from these alone, without the plan that the answer was to lead to (`AnswerGrounded` names the case);
a call refused by the rate limiter
spends its approval. Actions: `_fail_after_exception` of a slow worker may fail a rollback that
another worker has just claimed; a second rollback failure sends no notification, because its key is
that of the first; `attempt.approval_id` keeps naming the first rollback approval when a later
one authorises the call; leases are not renewed although the design calls them renewable;
`request_rollback` accepts ROLLBACK_FAILED although the design calls a rollback failure terminal, and
`cancel` of a rollback request leaves a completed action CANCELLED, out of reach of any rollback.
Automation: the deadline of an execution that waits for its reviewer is never enforced; when the last
step is a review, its approval completes the step and leaves the execution to a worker, which fails it
when the deadline or the permission has gone by then, although every step has completed
(`OutcomeTruthful` names this case); a rejection
leaves RUNNING steps and their Runs alone and the rejected step SKIPPED; a schedule may be enabled while its workflow is being
paused, and the next tick switches it off. Robot: a blocked reply stays the oldest candidate, and
younger replies wait behind it; `enqueue_next` locks the inbox row but not the ledger row it joins.
Chat: an adapter that outlives its claim may still post, so a confirmation that nothing was sent can
be followed by a second message. Events: a stream reads the events before the status, so one that
finds no event and then a terminal status closes without the terminal event (the client finds it on
the next request); `_mutate` commits what a handler wrote before it raised an `ObsionError`, together
with the recorded error; a poller that dies leaves its connection open and its subscriptions neither completed nor
in error. Knowledge: a document that moves, while a scan is under way, from a directory that has been
listed into one that has not is met twice in one generation; the page is refused
(`knowledge/sync_worker.py:342`) and retried with the same cursor, and each failure takes the grants
of all documents, until the document moves again or somebody restarts the source. `ScansRecur`
exempts this case (`Wedged`). An exception other than `ObsionError`, `TimeoutError` and `OSError` under `accept_read`
(the database or the object store refuse the text) escapes `tick` and is logged by `sync_host`; nothing marks the document as
read, the lease runs out and the same document is picked again (`Stuck`, exempted as well). And a directory
call that fails every time repeats the same page for ever: `ScansRecur` is about directory calls that stop failing
(`MaxFaults`), while documents may go on failing.
`observed_at` is taken some awaits after the last check of the permission, so a withdrawal in that
window gives a grant that counts from the later moment. `AccessBounded` states the bound with this addition: while
a reading that may still be accepted is between the two, `served` does not run down (`Unstamped`). The window
lies within one claim, hence is shorter than `WORK_LEASE_SECONDS`.

## 12. Proofs

`RunLifecycleProofs` proves, for every number of executors and steps, every plan graph and
every budget and duration (assumptions: the named `ASSUME`s of `RunLifecycle`):

* `TypeCorrect`: `TypeOK`, one lemma per group of actions.
* `Untouched`: a PENDING Run has no step, lease or executor (`PendingFresh`). Needed because
  a PENDING row may be cancelled without closing steps.
* `OneTerminalEvent` and `ContractImplemented`: every step is classified as `Frozen`
  (status, events and steps stay), `Works` (not terminal, status stays) or `Moves` (an edge
  of the graph with its event); `WorkerStep` and `PeopleStep` do so action by action, and both
  theorems, the refinement included, follow from the classification and `PendingFresh`.
* `OneExecutor` and `ExpiredLeaseNeverResumes`: `SoleExecutor` is not inductive alone. The
  strengthening `LeaseInv` adds `LeaseOutlivesDeadline` (a lease that has expired finds the
  deadline passed), `DeadlineKept` (only ended and waiting Runs have no deadline) and
  `LeaseHeld` (an undisturbed Run with a busy executor holds a lease or is over). A claim needs a
  lease that is None or 0 and a deadline that has not passed; 0 is excluded by the
  first, None by the last, so nobody can be busy.

`ActionControlProofs` proves for every number of workers and every duration and bound
(assumptions `ActionTimeAssumption`, `ActionBoundAssumption`): `ActionTypeCorrect`, `PendingUnique`,
`EffectAtMostOnce` and `NeverMismatched` (together `RepeatsAreHarmless`), `RowTruthful`,
`RequestsAuthorised` and `ChangeImplemented` (the refinement). All rest on one inductive invariant, `IInv` =
`ActionTypeOK`, `OnePending`, and three strengthenings:

* `History`: the first approval is for the execution, all later ones are for rollbacks, the
  status tells how many there are and which were granted. `OnePending` is not inductive without
  it: `decide` does not read the action's status, so one has to know that a pending
  approval pins it. It also makes the approval `_invoke` finds (the highest *approved*
  revision) the highest revision altogether (`NewestIsLast`), which is `Authorised`.
* `Ledger`: every request and every effect carries the stable key; a row that was never
  claimed was never sent.
* `Attempts`: an attempt is absent until its purpose is invoked, and the payload of the rollback
  attempt is still the one a new worker would build, because nothing changes the recorded
  output after the execution is over.

The refinement follows from two step lemmas: `Sends` (a request leaves only from an
invoking row, for the purpose of the row) and `ApprovalsStep` (a step keeps the granted
purposes and keeps or ends the grant, or opens exactly one).

`RobotOutboxProofs` proves for every set of messages, every finite set of workers and every duration and
bound (`RobotAssumption`): `RobotTyped`, `RobotTruthful`, `PostsAuthorised` and `DeliveryImplemented`
(the refinement). The inductive invariant `IInv` adds to `RobotTypeOK` and `LedgerTruthful`:

* `Claims`: the token of a worker is at most the row's attempt; a worker that holds the row is
  current and its facts are the frozen ones; before its POST nothing has been sent, after it exactly
  one message has. `PostAuthorised` follows, because administrators wait for the fence.
* `OneHolder`: a fencing token belongs to one worker, so two workers never are current for one row.
* `SentOnce`: at most one POST, and one of every ACCEPTED or REJECTED row. Without it the receipt
  check and the requeue could not be told apart from a resend.

`RunCallsProofs` goes on from `RunLifecycleProofs`, with the same assumptions: `AnswersGrounded`,
`ApprovalsSpentOnce`, `CallsAreBounded`, `PlanIsHonoured`. `StepKinds` first sorts the steps of the
specification into a few kinds (`Still`, `Closes`, `Grows`, and the actions that move steps or jobs), so each
invariant is shown for kinds and not for forty actions.

* `PlanInv` holds whoever executes: without a plan there are no rows, no jobs and no evidence but that of attachments; the rows fill the positions from 1 on and a row depends only on
  earlier ones. Replans append and rewire, so this is a fact about `AppendSteps`. The absence of a deadlock
  follows by taking the least open step (`LeastNumber`): what it depends on is over, hence it can be
  dispatched or skipped.
* `GroundInv` adds that a job that answered has left its evidence: otherwise `FinishStep` of a late
  executor could complete a step on nothing. And a Run with evidence and no plan has been asked about: `EvidenceGrows`
shows that only `PrepareClarify` brings evidence without a plan.
* `ApprovalInv` says for which step the approval at hand was granted.
* `AloneInv` (`WaveInv` and `CallsInv`) holds until the Run is handed to a second executor. It ties every RUNNING row to the
  job that runs it and says that a step which may still be called has a call left; it uses
  `LeaseInv`, because a claim must find nobody at work.

`AutomationProofs` proves for every set of plans, every number of workers, executions and crashes
and every schedule (`PlanAssumption`, `AutomationTimeAssumption`, `AutomationBoundAssumption`):
`AutomationTyped`, `AdmissionHolds`, `OutcomeToldTruly`, `PlanFollowed`, `OccurrencesOnce` and
`EndedStaysEnded`. `IInv` is `AutoTypeOK` with `Rows` (`RowInv`: an execution, its steps and their
Runs agree), `Held` (a worker holds a row that exists), `Admission` and `Schedule`
(what fired lies in the past, and a late execution is behind the schedule, so the next outage cannot fire the
same instant again). `Evolves` is what any operation may make of an execution; it gives
`ExecutionFinal` and carries `Admission`, since nothing but `Admit` makes an execution active. A first attempt
failed on the claim that a failed execution always shows a failed or skipped step: a
plan that ends with a review breaks it (section 11). The property now names that case,
and the run has a plan (`Signed`) in which it happens.

`ImChannelProofs` proves for every set of messages and inbox workers, every finite set of adapters and every duration
and budget (`ChannelAssumption`): `ChannelTyped`, `AttemptsAlwaysAgree`, `MessageAcceptedOnce`.
`AcceptedOnce` is not inductive: an adapter whose claim has run out may still post. `Budget` counts the
accepted messages together with the posts that may still come (`Potential`) and bounds the sum by the
confirmations, one more while a claim stands; `Holders` says that an adapter that was turned away has given its
allowance back, which makes its report, and the next claim, sound. Finiteness of the adapters is needed
to count them.

`EventStreamProofs` proves for every set of writers, requests, subscriptions and streams and every
page size (`StreamAssumption`): `StreamTyped`, `PrefixWithoutGap`, `RequestsOnce`. `Log` says
that the committed sequences are 1 .. n; `Row`, that one transaction at a time holds the row and its
events continue the log up to the version; `Prefixes`, that a client is at a prefix and the page in hand goes on
from there (`PageIs`: a page of a dense log is an interval); `Ledger`, that one transaction works for a
request and nothing is recorded meanwhile.

`KnowledgeSyncProofs` proves for every finite set of documents and folders, every set of workers, Runs and texts,
every page size, duration and bound (`KnowledgeAssumption`): `KnowledgeTyped`, `AccessStaysBounded`,
`AnswersAreFresh`, `NothingIsOverlooked`. `Kinds` sorts the steps by what they write. `IInv` is:

* `Shapes`: types, and what a source, a row and a claim are in themselves.
* `Claimed`: a worker whose token is in the row carries the scan of the row (`LockHolds`). This is the
  fence: whoever was paused, replaced or outlived its lease finds another token.
* `Grants`: every grant, in a row or in the hands of a worker whose claim is held, is at most what the vendor's last
  service allows, and a reading that was checked and is not yet stamped finds `served` whole. `AccessBounded` is not
  inductive without the readings on their way (`HeldStep`, `ClaimChecked`, `ClaimStamped`); a claim that is no longer
  held cannot be accepted, so nothing is asked of it.
* `Questions` and `Reads`: a scan begun after a question reads only what was served since, and the rows that
  count as read by it (`Counts`) hold such texts. `AnswersFresh` needs both: a proof is taken in one
  transaction, the search and the publication come later, and `read_generation` may lag behind.
* `Traversal`: a document that stayed where it was has been seen or is still ahead of the scan, that is, its
  directory, or the root while its folder has not been seen, is in the queue with a cursor that has not passed it
  (`Ahead`, `Meets`), and a page on its way leaves nothing out (`WholePage`).
* `Settled`: a completed scan left no such document missing.

TLC checked the inductive invariants on the runs' instances before they were proved, and this last one also by
simulation with two documents, two folders and two Runs.

Only model-checked: liveness (`Settles`, `ActionSettles`, `ExecutionSettles`, `RepliesMove`,
`ChannelMoves`, `ReadersFinish`, `ScansRecur`), which is outside the prover's reach. The three violations are
counterexamples, and two of them are temporal. Every other property of a run is a theorem.

## 13. Not modelled

See the components with status `not_modelled` in `PROJECT.json`: most of the repository is
administration of rows, HTTP adapters of vendors, text heuristics and user interfaces, which have no
protocol of their own. Within modelled components: replay Runs, operator invocations of the gateway,
editing of workflow versions, sources other than the managed DingTalk one, group messages of the robot, reports of legacy adapters without a
claim, the idempotent creation of actions and the notification inbox, and the contents of every
message. A statement-level race inside one `SELECT ... FOR UPDATE` is below the grain of the models.
