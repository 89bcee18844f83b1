---------------------------- MODULE RunLifecycle ----------------------------
(***************************************************************************)
(* One Run of the control plane: the worker that claims it under a lease,  *)
(* the Harness that prepares, executes, replans and answers it, and the    *)
(* people and services that approve, clarify or cancel it meanwhile.       *)
(*                                                                         *)
(* Every database transaction of the code locks the Run row first (the     *)
(* Capability Gateway by its first event append), so one transaction is    *)
(* one action, and what the code holds in memory between two transactions  *)
(* is the state of an executor: pc, job and waited.                        *)
(*                                                                         *)
(* A timestamp is kept as its distance from now, in ticks.  None is NULL;  *)
(* 0 is "the test of the code on this timestamp finds it passed".          *)
(***************************************************************************)
EXTENDS Integers, FiniteSets, Sequences

CONSTANTS
    Executors,      \* concurrent calls of HarnessRuntime.execute
    MaxCaps,        \* capability steps a Run may come to own (bound)
    Plans,          \* numbers of capability steps the planner may choose
    PlanDeps,       \* depends_on of a planned capability step
    AskSteps,       \* steps on which the policy decides ASK
    ReadOnly,       \* steps whose pinned version has SideEffect.NONE
    Timeout,        \* Run.timeout_seconds
    LeaseGrace,     \* the 30 seconds a lease outlives the timeout
    ApprovalTtl,    \* the 30 minutes of Approval.expires_at
    ClarifyTtl,     \* settings.run_clarification_ttl_seconds
    MaxSteps,       \* Run.max_steps
    MaxRetries,     \* RunStep.max_retries of a capability step
    MaxReplans,     \* settings.run_max_critic_replans
    MaxInvestigations, \* settings.run_max_knowledge_investigation_rounds
    MaxRounds,      \* MAX_CLARIFICATION_ROUNDS
    MayAttach,      \* the turn may come with attachments
    ChildRun,       \* the Run was started by an automation execution
    MayCrash        \* executors may die

\* Positions of the capability steps: RunStep.ordinal less the three preparation steps.
Caps == 1..MaxCaps

ASSUME CapsAssumption == MaxCaps \in Nat /\ Plans \subseteq 0..MaxCaps
ASSUME PlanAssumption ==
    /\ PlanDeps \in [Caps -> SUBSET Caps]
    /\ AskSteps \subseteq Caps /\ ReadOnly \subseteq Caps
\* A planned step depends only on earlier steps.
ASSUME PlanIsDag == \A c \in Caps : \A d \in PlanDeps[c] : d < c
ASSUME TimeAssumption ==
    /\ Timeout \in Nat \ {0} /\ LeaseGrace \in Nat
    /\ ApprovalTtl \in Nat /\ ClarifyTtl \in Nat
ASSUME BudgetAssumption ==
    /\ MaxSteps \in Nat /\ MaxRetries \in Nat /\ MaxReplans \in Nat
    /\ MaxInvestigations \in Nat /\ MaxRounds \in Nat
ASSUME SwitchAssumption ==
    MayAttach \in BOOLEAN /\ ChildRun \in BOOLEAN /\ MayCrash \in BOOLEAN

VARIABLES
    status, deadline, lease, cancelReq,         \* the Run row
    planned, stepCount,                         \* Run.plan, Run.step_count
    replans, investigations,                    \* Run.plan: critic replans, investigations
    step, core, deps, retries, transient,       \* the RunStep rows
    evidence,               \* Evidence rows: the capability steps they are of, Attachment
    approvals, lastApproved,                    \* the Approval rows
    rounds, remaining, clarifyTtl,              \* Run.intent.clarification
    pc, job, waited,                            \* executors
    invocations, lost, emitted      \* tool calls, committed or lost; terminal events

runVars   == <<status, deadline, lease, cancelReq>>
planVars  == <<planned, stepCount, replans, investigations, step, core, deps, retries,
               transient>>
askVars   == <<approvals, lastApproved>>
userVars  == <<rounds, remaining, clarifyTtl>>
execVars  == <<pc, job, waited>>
trace     == <<invocations, lost, emitted>>
vars == <<runVars, planVars, evidence, askVars, userVars, execVars, trace>>

None == -1

RunStatus == {"PENDING", "RUNNING", "WAITING_APPROVAL", "WAITING_USER",
              "COMPLETED", "FAILED", "CANCELLED"}
Terminal  == {"COMPLETED", "FAILED", "CANCELLED"}

Active    == {"PENDING", "RUNNING", "WAITING_APPROVAL"}
Blocking  == {"FAILED", "SKIPPED", "CANCELLED"}
StepStatus == {"ABSENT", "COMPLETED"} \cup Active \cup Blocking
Core      == {"verify", "reflect", "respond"}

Approval == [step : Caps, status : {"PENDING", "APPROVED", "REJECTED", "EXPIRED"},
             used : BOOLEAN, ttl : Nat]

Pcs  == {"idle", "prepare", "steps", "transient", "missing", "respond", "fail"}
Jobs == {"none", "invoke", "ok", "retryable", "fatal", "ask"}

\* The evidence that comes with the turn and is of no capability step.
Attachment == 0

Present == {c \in Caps : step[c] # "ABSENT"}

\* Rows of run_steps: Observe, Understand and Plan, the capability steps, the core steps.
NumSteps == IF planned THEN 6 + Cardinality(Present) ELSE IF rounds > 0 THEN 2 ELSE 0
-----------------------------------------------------------------------------
Init ==
    /\ status = "PENDING" /\ deadline = Timeout /\ lease = None /\ cancelReq = FALSE
    /\ planned = FALSE /\ stepCount = 0
    /\ replans = 0 /\ investigations = 0
    /\ step = [c \in Caps |-> "ABSENT"] /\ core = [k \in Core |-> "ABSENT"]
    /\ deps = PlanDeps /\ retries = [c \in Caps |-> 0] /\ transient = {}
    /\ evidence = {}
    /\ approvals = <<>> /\ lastApproved = [c \in Caps |-> 0]
    /\ rounds = 0 /\ remaining = None /\ clarifyTtl = None
    /\ pc = [e \in Executors |-> "idle"]
    /\ job = [e \in Executors |-> [c \in Caps |-> "none"]]
    /\ waited = [e \in Executors |-> FALSE]
    /\ invocations = [c \in Caps |-> 0] /\ lost = [c \in Caps |-> 0] /\ emitted = <<>>

Goto(e, label) == pc' = [pc EXCEPT ![e] = label] /\ UNCHANGED <<job, waited>>

\* EventStore.append of a terminal event
Emit(name) == emitted' = Append(emitted, name) /\ UNCHANGED <<invocations, lost>>

NoJobs(e) == \A c \in Caps : job[e][c] = "none"

\* cancel_active_run_steps
CancelActive(s) == IF s \in Active THEN "CANCELLED" ELSE s

CancelSteps ==
    /\ step' = [c \in Caps |-> CancelActive(step[c])]
    /\ core' = [k \in Core |-> CancelActive(core[k])]
    /\ UNCHANGED <<planned, stepCount, replans, investigations, deps, retries, transient>>

\* HarnessRuntime._cancel on a Run that is not terminal
Cancel ==
    /\ status' = "CANCELLED" /\ lease' = None /\ UNCHANGED <<deadline, cancelReq>>
    /\ Emit("run.cancelled")
    /\ CancelSteps
    /\ UNCHANGED <<evidence, askVars, userVars>>

\* The Run was found terminal, or nothing applies: the executor only moves on.
MoveOn(e, label) ==
    /\ Goto(e, label)
    /\ UNCHANGED <<runVars, planVars, evidence, askVars, userVars, trace>>
-----------------------------------------------------------------------------
(***************************************************************************)
(* RunWorker._claim: a due Run is claimed under a lease that outlives the  *)
(* timeout, or failed when its deadline has passed.  The timed-out Run     *)
(* keeps its lease and its steps.                                          *)
(***************************************************************************)
\* lease_expires_at < now is strict, hence the extra tick.
LeaseSpan == Timeout + LeaseGrace + 1

\* (mutant) the lease is not looked at
ClaimableAnyLease == status \in {"PENDING", "RUNNING"} /\ ~cancelReq

\* (mutant) a resumed Run is not picked up
ClaimablePending == status = "PENDING" /\ ~cancelReq /\ lease \in {None, 0}

Claimable ==
    /\ status \in {"PENDING", "RUNNING"}
    /\ ~cancelReq
    /\ lease \in {None, 0}

ClaimTimeout ==
    /\ Claimable
    /\ deadline = 0
    /\ status' = "FAILED" /\ UNCHANGED <<deadline, lease, cancelReq>>
    /\ Emit("run.failed")
    /\ UNCHANGED <<planVars, evidence, askVars, userVars, execVars>>

Claim(e) ==
    /\ pc[e] = "idle" /\ NoJobs(e)
    /\ Claimable
    /\ deadline # 0
    /\ status' = "RUNNING" /\ lease' = LeaseSpan /\ UNCHANGED <<deadline, cancelReq>>
    /\ pc' = [pc EXCEPT ![e] = "prepare"]
    /\ waited' = [waited EXCEPT ![e] = FALSE]
    /\ UNCHANGED <<job, planVars, evidence, askVars, userVars, trace>>
-----------------------------------------------------------------------------
(***************************************************************************)
(* HarnessRuntime._prepare.  An exception, here and below, is caught by    *)
(* execute and goes to _fail.                                              *)
(***************************************************************************)
Max2(a, b) == IF a >= b THEN a ELSE b

PrepareNothing(e) ==
    /\ pc[e] = "prepare"
    /\ status \in Terminal \/ planned
    /\ MoveOn(e, "steps")

PrepareCancel(e) ==
    /\ pc[e] = "prepare"
    /\ status \notin Terminal /\ ~planned /\ cancelReq
    /\ Cancel
    /\ Goto(e, "steps")

\* A missing source, context or metric, or an exhausted clarification budget.
PrepareRaises(e) ==
    /\ pc[e] = "prepare"
    /\ status \notin Terminal /\ ~planned /\ ~cancelReq
    /\ MoveOn(e, "fail")

\* _ingest_attachments: the first preparation to commit, whatever it ends in, writes the
\* Evidence of the attachments that can be read.
Ingest == evidence' \in IF MayAttach /\ rounds = 0 THEN {evidence, evidence \cup {Attachment}}
                                                 ELSE {evidence}

\* The Run parks for the user: deadline and lease are dropped and the unspent
\* execution time, at least one second, is kept for the answer.
PrepareClarify(e) ==
    /\ pc[e] = "prepare"
    /\ status = "RUNNING" /\ ~planned /\ ~cancelReq
    /\ rounds < MaxRounds
    /\ status' = "WAITING_USER" /\ deadline' = None /\ lease' = None
    /\ rounds' = rounds + 1 /\ clarifyTtl' = ClarifyTtl
    /\ remaining' = IF deadline = None THEN Timeout ELSE Max2(1, deadline)
    /\ stepCount' = Max2(stepCount, 2)
    /\ Ingest
    /\ Goto(e, "steps")
    /\ UNCHANGED <<cancelReq, planned, replans, investigations, step, core, deps, retries, transient,
                   askVars, trace>>

PreparePlan(e) ==
    /\ pc[e] = "prepare"
    /\ status \notin Terminal /\ ~planned /\ ~cancelReq
    /\ \E n \in Plans :
         step' = [c \in Caps |-> IF c <= n THEN "PENDING" ELSE "ABSENT"]
    /\ core' = [k \in Core |-> "PENDING"]
    /\ planned' = TRUE /\ stepCount' = Max2(stepCount, 3)
    /\ clarifyTtl' = None
    /\ Ingest
    /\ Goto(e, "steps")
    /\ UNCHANGED <<runVars, replans, investigations, deps, retries, transient, askVars,
                   rounds, remaining, trace>>
-----------------------------------------------------------------------------
(***************************************************************************)
(* StepExecutor.next_wave.  A RUNNING or WAITING_APPROVAL step whose       *)
(* dependencies are complete is ready again.  VERIFY depends on every      *)
(* capability step, REFLECT on VERIFY and RESPOND on REFLECT.              *)
(***************************************************************************)
BlockedCaps ==
    {c \in Caps : step[c] \in Active /\ \E d \in deps[c] : step[d] \in Blocking}

CoreBlocker(k) ==
    CASE k = "verify"  -> \E c \in Caps : step[c] \in Blocking
      [] k = "reflect" -> core["verify"] \in Blocking
      [] k = "respond" -> core["reflect"] \in Blocking

BlockedCore == {k \in Core : core[k] \in Active /\ CoreBlocker(k)}

Runnable(c) == step[c] \in Active /\ c \notin BlockedCaps

\* (mutant) a dependency only has to be unblocked
ReadyEager == {c \in Caps : Runnable(c)}

Ready == {c \in Caps : Runnable(c) /\ \A d \in deps[c] : step[d] = "COMPLETED"}

Deadlocked ==
    /\ Ready = {} /\ BlockedCaps = {} /\ BlockedCore = {}
    /\ \E c \in Caps : Runnable(c)
-----------------------------------------------------------------------------
(***************************************************************************)
(* HarnessRuntime._execute_steps: one transaction per wave, then one job   *)
(* per ready step.  The next transaction starts when every job is over.    *)
(***************************************************************************)
AtWave(e) == pc[e] = "steps" /\ NoJobs(e)

\* The previous wave parked on an approval, or the Run is over or parked.
StepsReturn(e) ==
    /\ AtWave(e)
    /\ waited[e] \/ status \in Terminal \cup {"WAITING_APPROVAL", "WAITING_USER"}
    /\ MoveOn(e, "idle")

Scheduling(e) ==
    /\ AtWave(e)
    /\ ~waited[e] /\ status \notin Terminal \cup {"WAITING_APPROVAL", "WAITING_USER"}

StepsCancel(e) ==
    /\ Scheduling(e) /\ cancelReq
    /\ Cancel
    /\ Goto(e, "idle")

InBudget == deadline # 0 /\ NumSteps <= MaxSteps

StepsRaise(e) ==
    /\ Scheduling(e) /\ ~cancelReq
    /\ \/ ~InBudget
       \/ Deadlocked
       \/ /\ BlockedCaps = {} /\ BlockedCore = {} /\ Ready # {}
          /\ stepCount + Cardinality(Ready) > MaxSteps
    /\ MoveOn(e, "fail")

\* Blocked steps become SKIPPED with dependency_failed, and the loop goes round.
StepsSkip(e) ==
    /\ Scheduling(e) /\ ~cancelReq /\ InBudget
    /\ BlockedCaps # {} \/ BlockedCore # {}
    /\ step' = [c \in Caps |-> IF c \in BlockedCaps THEN "SKIPPED" ELSE step[c]]
    /\ core' = [k \in Core |-> IF k \in BlockedCore THEN "SKIPPED" ELSE core[k]]
    /\ UNCHANGED <<runVars, planned, stepCount, replans, investigations, deps, retries,
                   transient, evidence, askVars, userVars, execVars, trace>>

Unblocked(e) ==
    /\ Scheduling(e) /\ ~cancelReq /\ InBudget
    /\ BlockedCaps = {} /\ BlockedCore = {}

StepsDone(e) ==
    /\ Unblocked(e)
    /\ Ready = {} /\ ~Deadlocked
    /\ MoveOn(e, "transient")

StepsDispatch(e) ==
    /\ Unblocked(e)
    /\ Ready # {}
    /\ stepCount + Cardinality(Ready) <= MaxSteps
    /\ step' = [c \in Caps |-> IF c \in Ready THEN "RUNNING" ELSE step[c]]
    /\ stepCount' = stepCount + Cardinality(Ready)
    /\ job' = [job EXCEPT ![e] = [c \in Caps |-> IF c \in Ready THEN "invoke" ELSE "none"]]
    /\ UNCHANGED <<runVars, planned, replans, investigations, core, deps, retries, transient,
                   evidence,
                   askVars, userVars, pc, waited, trace>>
-----------------------------------------------------------------------------
(***************************************************************************)
(* HarnessRuntime._invoke_step: the Gateway's transaction, then a second   *)
(* one that records its result.  Neither the dispatch nor the Gateway      *)
(* looks at the Run again before the tool is called.                       *)
(***************************************************************************)
SetJob(e, c, phase) == job' = [job EXCEPT ![e][c] = phase]

\* (mutant) a spent approval counts
AnyApproval(c) == lastApproved[c] # 0

\* CapabilityGateway._find_approval: the approval decided last, if unused.
FreshApproval(c) == lastApproved[c] # 0 /\ ~approvals[lastApproved[c]].used

\* CapabilityGateway._create_approval
NewApproval(c) == [step |-> c, status |-> "PENDING", used |-> FALSE, ttl |-> ApprovalTtl]

\* Policy says ASK and no approval is usable.
GatewayAsks(e, c) ==
    /\ job[e][c] = "invoke"
    /\ c \in AskSteps /\ ~FreshApproval(c)
    /\ approvals' = Append(approvals, NewApproval(c))
    /\ SetJob(e, c, "ask")
    /\ UNCHANGED <<runVars, planVars, evidence, lastApproved, userVars, pc, waited, trace>>

\* resume_token_used_at of the approval that lets the call through
ConsumeApproval(c) ==
    approvals' = IF c \in AskSteps
                 THEN [approvals EXCEPT ![lastApproved[c]].used = TRUE]
                 ELSE approvals

\* The call passes the policy, with an approval where the policy asks for one.
MayCall(e, c) ==
    /\ job[e][c] = "invoke"
    /\ c \in AskSteps => FreshApproval(c)

\* Denied by policy, grant or input schema, before any approval is looked up.
GatewayRefuses(e, c) ==
    /\ job[e][c] = "invoke"
    /\ SetJob(e, c, "fatal")
    /\ UNCHANGED <<runVars, planVars, evidence, askVars, userVars, pc, waited, trace>>

\* The rate limiter refuses or does not answer, or no executor is installed: the
\* approval is spent and the tool is not called.
GatewayLimits(e, c) ==
    /\ MayCall(e, c)
    /\ ConsumeApproval(c)
    /\ \E result \in {"retryable", "fatal"} : SetJob(e, c, result)
    /\ UNCHANGED <<runVars, planVars, evidence, lastApproved, userVars, pc, waited, trace>>

\* The tool answers and leaves Evidence, or fails with a code that is retryable or not.
GatewayCalls(e, c) ==
    /\ MayCall(e, c)
    /\ ConsumeApproval(c)
    /\ invocations' = [invocations EXCEPT ![c] = @ + 1]
    /\ \/ SetJob(e, c, "ok") /\ evidence' = evidence \cup {c}
       \/ SetJob(e, c, "retryable") /\ UNCHANGED evidence
       \/ SetJob(e, c, "fatal") /\ UNCHANGED evidence
    /\ UNCHANGED <<runVars, planVars, lastApproved, userVars, pc, waited, lost, emitted>>

HasResult(e, c) == job[e][c] \in {"ok", "retryable", "fatal"}

\* HarnessRuntime._finish_step
FinishStep(e, c) ==
    /\ HasResult(e, c)
    /\ status \notin Terminal /\ ~cancelReq
    /\ step' = [step EXCEPT ![c] = IF job[e][c] = "ok" THEN "COMPLETED" ELSE "FAILED"]
    /\ transient' = IF job[e][c] = "retryable" THEN transient \cup {c} ELSE transient \ {c}
    /\ SetJob(e, c, "none")
    /\ UNCHANGED <<runVars, planned, stepCount, replans, investigations, core, deps, retries, evidence,
                   askVars, userVars, pc, waited, trace>>

\* A result that arrives after the end is dropped.
FinishLate(e, c) ==
    /\ HasResult(e, c)
    /\ status \in Terminal
    /\ SetJob(e, c, "none")
    /\ UNCHANGED <<runVars, planVars, evidence, askVars, userVars, pc, waited, trace>>

FinishCancel(e, c) ==
    /\ HasResult(e, c)
    /\ status \notin Terminal /\ cancelReq
    /\ Cancel
    /\ SetJob(e, c, "none")
    /\ UNCHANGED <<pc, waited>>

\* The second transaction of a call that has to wait: Run and step are parked.
WaitApproval(e, c) ==
    /\ job[e][c] = "ask"
    /\ status \in {"RUNNING", "WAITING_APPROVAL"}
    /\ status' = "WAITING_APPROVAL" /\ lease' = None
    /\ step' = [step EXCEPT ![c] = "WAITING_APPROVAL"]
    /\ SetJob(e, c, "none") /\ waited' = [waited EXCEPT ![e] = TRUE]
    /\ UNCHANGED <<deadline, cancelReq, planned, stepCount, replans, investigations, core, deps, retries,
                   transient, evidence, askVars, userVars, pc, trace>>

\* validate_run_transition raises out of asyncio.gather: execute goes to _fail
\* while the other jobs of the wave keep running.
WaitRaises(e, c) ==
    /\ job[e][c] = "ask"
    /\ status \notin {"RUNNING", "WAITING_APPROVAL"}
    /\ SetJob(e, c, "none")
    /\ pc' = [pc EXCEPT ![e] = IF @ = "steps" THEN "fail" ELSE @]
    /\ UNCHANGED <<runVars, planVars, evidence, askVars, userVars, waited, trace>>
-----------------------------------------------------------------------------
(***************************************************************************)
(* HarnessRuntime._replan_transient_failures: read-only steps that failed  *)
(* with a retryable code run once more, and what was skipped because of    *)
(* them is revived.                                                        *)
(***************************************************************************)
\* (mutant) steps with a side effect are retried too
RetryAll == {c \in Caps : step[c] = "FAILED" /\ c \in transient /\ retries[c] < MaxRetries}

RetrySet ==
    {c \in ReadOnly : step[c] = "FAILED" /\ c \in transient /\ retries[c] < MaxRetries}

\* A skipped step revives when a dependency does and all others are complete.
Revives(c, S) ==
    /\ step[c] = "SKIPPED"
    /\ \E d \in deps[c] : d \in S
    /\ \A d \in deps[c] : d \in S \/ step[d] = "COMPLETED"

\* The fixpoint the code iterates to: the least closed superset of R.
Revival(R) ==
    {c \in Caps : \A S \in SUBSET Caps :
        (R \subseteq S /\ \A d \in Caps : Revives(d, S) => d \in S) => c \in S}

CoreRevives(S) ==
    LET all == \A c \in Present : c \in S \/ step[c] = "COMPLETED"
        v == S # {} /\ all /\ core["verify"] = "SKIPPED"
        r == v /\ core["reflect"] = "SKIPPED"
        p == r /\ core["respond"] = "SKIPPED"
    IN {k \in Core : \/ k = "verify" /\ v
                     \/ k = "reflect" /\ r
                     \/ k = "respond" /\ p}

\* Both replans leave alone a Run that is over or waits for an approval.
ReplanIdle == status \in Terminal \cup {"WAITING_APPROVAL"}

TransientNothing(e) ==
    /\ pc[e] = "transient"
    /\ ReplanIdle \/ (~cancelReq /\ RetrySet = {})
    /\ MoveOn(e, "missing")

TransientCancel(e) ==
    /\ pc[e] = "transient"
    /\ ~ReplanIdle /\ cancelReq
    /\ Cancel
    /\ Goto(e, "missing")

\* RUNNING -> REPLANNING -> RUNNING in one transaction.
TransientRetry(e) ==
    LET revived == Revival(RetrySet) IN
    /\ pc[e] = "transient"
    /\ status = "RUNNING" /\ ~cancelReq
    /\ RetrySet # {}
    /\ retries' = [c \in Caps |-> IF c \in RetrySet THEN retries[c] + 1 ELSE retries[c]]
    /\ step' = [c \in Caps |-> IF c \in revived THEN "PENDING" ELSE step[c]]
    /\ core' = [k \in Core |-> IF k \in CoreRevives(revived) THEN "PENDING" ELSE core[k]]
    /\ transient' = transient \ revived
    /\ Goto(e, "steps")
    /\ UNCHANGED <<runVars, planned, stepCount, replans, investigations, deps, evidence, askVars, userVars,
                   trace>>
-----------------------------------------------------------------------------
(***************************************************************************)
(* _apply_gap_replan and _append_capability_replan: new capability steps   *)
(* are inserted before VERIFY, each depending on the last complete one.    *)
(***************************************************************************)
CanGrow(n) ==
    /\ planned /\ status = "RUNNING"
    /\ Cardinality(Present) + n <= MaxCaps
    /\ NumSteps + n <= MaxSteps

LastComplete ==
    {c \in Caps : step[c] = "COMPLETED" /\ \A d \in Caps : step[d] = "COMPLETED" => d <= c}

Grown(n) == (Cardinality(Present) + 1)..(Cardinality(Present) + n)

AppendSteps(n) ==
    /\ step' = [c \in Caps |-> IF c \in Grown(n) THEN "PENDING" ELSE step[c]]
    /\ deps' = [c \in Caps |-> IF c \in Grown(n) THEN LastComplete ELSE deps[c]]

GapReplan(n) == CanGrow(n) /\ replans < MaxReplans /\ replans' = replans + 1 /\ AppendSteps(n)

\* No evidence type is missing, nothing is left to select, or the budget is spent.
MissingNothing(e) ==
    /\ pc[e] = "missing"
    /\ ReplanIdle \/ ~cancelReq
    /\ MoveOn(e, "respond")

MissingCancel(e) ==
    /\ pc[e] = "missing"
    /\ ~ReplanIdle /\ cancelReq
    /\ Cancel
    /\ Goto(e, "respond")

\* VERIFY keeps its status, SKIPPED included.
MissingReplan(e) ==
    /\ pc[e] = "missing"
    /\ ~cancelReq
    /\ \E n \in 1..MaxCaps : GapReplan(n)
    /\ Goto(e, "steps")
    /\ UNCHANGED <<runVars, planned, stepCount, investigations, core, retries, transient, evidence, askVars,
                   userVars, trace>>
-----------------------------------------------------------------------------
(***************************************************************************)
(* HarnessRuntime._respond: one transaction from the evidence to           *)
(* run.completed.                                                          *)
(***************************************************************************)
RespondNothing(e) ==
    /\ pc[e] = "respond"
    /\ status \in Terminal
    /\ MoveOn(e, "idle")

RespondCancel(e) ==
    /\ pc[e] = "respond"
    /\ status \notin Terminal /\ cancelReq
    /\ Cancel
    /\ Goto(e, "idle")

\* No evidence, a refused transition, or a model that does not answer.
RespondRaises(e) ==
    /\ pc[e] = "respond"
    /\ status \notin Terminal /\ ~cancelReq
    /\ MoveOn(e, "fail")

\* (mutant) no plan is as good as a plan without steps
AnswerableUnplanned == evidence # {} \/ Present = {}

\* Only a planned conversation is answered without evidence.  Evidence of attachments is
\* enough, and no plan is asked for: an executor that outlived a question answers so.
Answerable == evidence # {} \/ (planned /\ Present = {})

\* (mutant) the Run is not looked at again before the answer
RespondingBlind(e) == pc[e] = "respond" /\ ~cancelReq /\ Answerable

Responding(e) ==
    /\ pc[e] = "respond"
    /\ status = "RUNNING" /\ ~cancelReq
    /\ Answerable

Pending(K) == Cardinality({k \in K : core[k] = "PENDING"})

\* The knowledge route may spend one more round of investigation.
InvestigationDue ==
    /\ planned /\ evidence # {}
    /\ investigations < MaxInvestigations
    /\ deadline # 0 /\ NumSteps < MaxSteps
    /\ stepCount + Pending({"verify"}) + 5 <= MaxSteps

\* A round that comes to nothing is charged all the same.
Investigated == InvestigationDue /\ investigations' = investigations + 1

\* The critic asks for more evidence: VERIFY is completed and reopened.  A fruitless
\* round of investigation before it leaves REFLECT running.
RespondReplan(e) ==
    /\ Responding(e) /\ evidence # {}
    /\ \E n \in 1..MaxCaps : GapReplan(n)
    /\ \/ /\ UNCHANGED investigations
          /\ core' = [core EXCEPT !["verify"] = "PENDING"]
          /\ stepCount' = stepCount + Pending({"verify"})
       \/ /\ Investigated
          /\ core' = [core EXCEPT !["verify"] = "PENDING",
                                  !["reflect"] = IF @ \in Active THEN "RUNNING" ELSE @]
          /\ stepCount' = stepCount + Pending({"verify", "reflect"})
    /\ Goto(e, "steps")
    /\ UNCHANGED <<runVars, planned, retries, transient, evidence, askVars, userVars, trace>>

\* The round finds a capability to ask: VERIFY and REFLECT are reopened.
RespondInvestigate(e) ==
    /\ Responding(e)
    /\ Investigated
    /\ CanGrow(1) /\ AppendSteps(1)
    /\ core' = [core EXCEPT !["verify"] = "PENDING", !["reflect"] = "PENDING"]
    /\ stepCount' = stepCount + Pending({"verify", "reflect"})
    /\ Goto(e, "steps")
    /\ UNCHANGED <<runVars, planned, replans, retries, transient, evidence, askVars, userVars,
                   trace>>

\* The answer is published, or withheld with an explanation in its place.
RespondComplete(e) ==
    /\ Responding(e)
    /\ status' = "COMPLETED" /\ lease' = None /\ UNCHANGED <<deadline, cancelReq>>
    /\ Investigated \/ UNCHANGED investigations
    /\ core' = [k \in Core |-> IF core[k] \in Active THEN "COMPLETED" ELSE core[k]]
    /\ stepCount' = stepCount + Pending(Core)
    /\ Emit("run.completed")
    /\ Goto(e, "idle")
    /\ UNCHANGED <<planned, replans, step, deps, retries, transient, evidence, askVars,
                   userVars>>

\* HarnessRuntime._fail: no-op on a terminal Run; the steps stay as they are.
Fail(e) ==
    /\ pc[e] = "fail"
    /\ status \notin Terminal
    /\ status' = "FAILED" /\ lease' = None /\ UNCHANGED <<deadline, cancelReq>>
    /\ Emit("run.failed")
    /\ Goto(e, "idle")
    /\ UNCHANGED <<planVars, evidence, askVars, userVars>>

FailNothing(e) ==
    /\ pc[e] = "fail"
    /\ status \in Terminal
    /\ MoveOn(e, "idle")
-----------------------------------------------------------------------------
(***************************************************************************)
(* ApprovalService.decide: locks the approval, then the Run.               *)
(***************************************************************************)
PendingApproval(i) == approvals[i].status = "PENDING"

Resume ==
    IF status = "WAITING_APPROVAL"
    THEN status' = "RUNNING" /\ lease' = None /\ UNCHANGED <<deadline, cancelReq>>
    ELSE UNCHANGED runVars

Approve(i) ==
    /\ PendingApproval(i) /\ approvals[i].ttl > 0
    /\ approvals' = [approvals EXCEPT ![i].status = "APPROVED"]
    /\ lastApproved' = [lastApproved EXCEPT ![approvals[i].step] = i]
    /\ Resume
    /\ UNCHANGED <<planVars, evidence, userVars, execVars, trace>>

\* The Run fails with approval_rejected; no run.failed is appended and lease and
\* steps stay as they are.
Reject(i) ==
    /\ PendingApproval(i) /\ approvals[i].ttl > 0
    /\ approvals' = [approvals EXCEPT ![i].status = "REJECTED"]
    /\ status' = IF status \in Terminal THEN status ELSE "FAILED"
    /\ UNCHANGED <<deadline, lease, cancelReq, lastApproved, planVars, evidence, userVars,
                   execVars, trace>>

\* A decision that comes too late only marks the approval.
ExpireApproval(i) ==
    /\ PendingApproval(i) /\ approvals[i].ttl = 0
    /\ approvals' = [approvals EXCEPT ![i].status = "EXPIRED"]
    /\ UNCHANGED <<runVars, lastApproved, planVars, evidence, userVars, execVars, trace>>

\* ClarificationService.answer
Answer ==
    /\ status = "WAITING_USER" /\ clarifyTtl > 0 /\ remaining # None
    /\ status' = "RUNNING" /\ deadline' = remaining /\ lease' = None
    /\ clarifyTtl' = None
    /\ UNCHANGED <<cancelReq, rounds, remaining, planVars, evidence, askVars, execVars, trace>>

\* ClarificationService.expire, reached only through a late answer.
ExpireClarification ==
    /\ status = "WAITING_USER" /\ clarifyTtl = 0
    /\ status' = "FAILED" /\ deadline' = None /\ lease' = None
    /\ clarifyTtl' = None
    /\ Emit("run.failed")
    /\ UNCHANGED <<cancelReq, rounds, remaining, planVars, evidence, askVars, execVars>>

\* WorkspaceService.cancel_run
CancelRun ==
    /\ status \notin Terminal
    /\ status' = "CANCELLED" /\ cancelReq' = TRUE /\ lease' = None /\ UNCHANGED deadline
    /\ CancelSteps
    /\ Emit("run.cancelled")
    /\ UNCHANGED <<evidence, askVars, userVars, execVars>>

\* AutomationWorker._fail_execution: only the request is written on the child Run,
\* which was read without a lock and may have ended meanwhile.
RequestChildCancel ==
    /\ ChildRun
    /\ ~cancelReq
    /\ cancelReq' = TRUE
    /\ UNCHANGED <<status, deadline, lease, planVars, evidence, askVars, userVars, execVars,
                   trace>>

\* AutomationService._cancel_execution_rows: a child that is still PENDING is closed
\* on the spot, without an event of its own.
CancelChild ==
    /\ ChildRun
    /\ status \notin Terminal
    /\ cancelReq' = TRUE
    /\ status' = IF status = "PENDING" THEN "CANCELLED" ELSE status
    /\ UNCHANGED <<deadline, lease, planVars, evidence, askVars, userVars, execVars, trace>>
-----------------------------------------------------------------------------
\* (mutant) a timestamp that is NULL or has passed goes on counting
SoonerAlways(t) == t - 1

Sooner(t) == IF t > 0 THEN t - 1 ELSE t

Ticking ==
    \/ deadline > 0 \/ lease > 0 \/ clarifyTtl > 0
    \/ \E i \in DOMAIN approvals : approvals[i].ttl > 0

Tick ==
    /\ Ticking
    /\ deadline' = Sooner(deadline) /\ lease' = Sooner(lease)
    /\ clarifyTtl' = Sooner(clarifyTtl)
    /\ approvals' = [i \in DOMAIN approvals |-> [approvals[i] EXCEPT !.ttl = Sooner(@)]]
    /\ UNCHANGED <<status, cancelReq, planVars, evidence, lastApproved, rounds, remaining,
                   execVars, trace>>

Dies(e) ==
    /\ pc' = [pc EXCEPT ![e] = "idle"]
    /\ job' = [job EXCEPT ![e] = [c \in Caps |-> "none"]]
    /\ waited' = [waited EXCEPT ![e] = FALSE]
    /\ UNCHANGED <<runVars, planVars, evidence, askVars, userVars, invocations, emitted>>

\* The process dies; a transaction it was in rolls back.
Crash(e) ==
    /\ MayCrash
    /\ pc[e] # "idle" \/ ~NoJobs(e)
    /\ Dies(e) /\ UNCHANGED lost

\* It dies inside the Gateway's transaction, after the tool was called: the call
\* has happened and nothing of it is recorded.
CrashInCall(e, c) ==
    /\ MayCrash
    /\ MayCall(e, c)
    /\ Dies(e) /\ lost' = [lost EXCEPT ![c] = @ + 1]
-----------------------------------------------------------------------------
Prepare(e) ==
    \/ PrepareNothing(e) \/ PrepareCancel(e) \/ PrepareRaises(e)
    \/ PrepareClarify(e) \/ PreparePlan(e)

ExecuteSteps(e) ==
    \/ StepsReturn(e) \/ StepsCancel(e) \/ StepsRaise(e) \/ StepsSkip(e)
    \/ StepsDone(e) \/ StepsDispatch(e)

InvokeStep(e, c) ==
    \/ GatewayAsks(e, c) \/ GatewayRefuses(e, c) \/ GatewayLimits(e, c) \/ GatewayCalls(e, c)
    \/ FinishStep(e, c) \/ FinishLate(e, c) \/ FinishCancel(e, c)
    \/ WaitApproval(e, c) \/ WaitRaises(e, c)

ReplanTransientFailures(e) == TransientNothing(e) \/ TransientCancel(e) \/ TransientRetry(e)

ReplanMissingEvidence(e) == MissingNothing(e) \/ MissingCancel(e) \/ MissingReplan(e)

Respond(e) ==
    \/ RespondNothing(e) \/ RespondCancel(e) \/ RespondRaises(e)
    \/ RespondReplan(e) \/ RespondInvestigate(e) \/ RespondComplete(e)

\* What an executor does by itself once it has claimed the Run.
Execute(e) ==
    \/ Prepare(e) \/ ExecuteSteps(e) \/ ReplanTransientFailures(e)
    \/ ReplanMissingEvidence(e) \/ Respond(e) \/ Fail(e) \/ FailNothing(e)
    \/ \E c \in Caps : InvokeStep(e, c)

Worker == ClaimTimeout \/ \E e \in Executors : Claim(e) \/ Execute(e)

People ==
    \/ \E i \in DOMAIN approvals : Approve(i) \/ Reject(i) \/ ExpireApproval(i)
    \/ Answer \/ ExpireClarification \/ CancelRun \/ RequestChildCancel \/ CancelChild

Crashes == \E e \in Executors : Crash(e) \/ \E c \in Caps : CrashInCall(e, c)

Next == Worker \/ People \/ Tick \/ Crashes

Spec == Init /\ [][Next]_vars

\* The worker loop polls forever and its tasks are scheduled; the clock advances.
\* Nothing makes a person decide or answer.
Fairness ==
    /\ WF_vars(Tick)
    /\ WF_vars(ClaimTimeout \/ \E e \in Executors : Claim(e))
    /\ \A e \in Executors : WF_vars(Execute(e))

FairSpec == Spec /\ Fairness
-----------------------------------------------------------------------------
\* Every variable keeps the type its column, or the executor's memory, has.
TypeOK ==
    /\ status \in RunStatus /\ cancelReq \in BOOLEAN
    /\ deadline \in {None} \cup 0..Timeout /\ lease \in {None} \cup 0..LeaseSpan
    /\ planned \in BOOLEAN /\ stepCount \in Nat
    /\ replans \in 0..MaxReplans /\ investigations \in 0..MaxInvestigations
    /\ step \in [Caps -> StepStatus] /\ core \in [Core -> StepStatus]
    /\ deps \in [Caps -> SUBSET Caps] /\ retries \in [Caps -> 0..MaxRetries]
    /\ transient \subseteq Caps /\ evidence \subseteq Caps \cup {Attachment}
    /\ approvals \in Seq(Approval) /\ lastApproved \in [Caps -> 0..Len(approvals)]
    /\ rounds \in 0..MaxRounds /\ remaining \in {None} \cup 1..Timeout
    /\ clarifyTtl \in {None} \cup 0..ClarifyTtl
    /\ pc \in [Executors -> Pcs] /\ job \in [Executors -> [Caps -> Jobs]]
    /\ waited \in [Executors -> BOOLEAN]
    /\ invocations \in [Caps -> Nat] /\ lost \in [Caps -> Nat]
    /\ emitted \in Seq({"run.completed", "run.failed", "run.cancelled"})

(***************************************************************************)
(* The Run as its clients see it implements RunContract: whatever the      *)
(* executors that still hold a job, the people who decide late and the     *)
(* clock do, the status follows run_state.py, a terminal Run is frozen     *)
(* with its steps, and a cancelled one has no open step.                   *)
(***************************************************************************)
OpenSteps ==
    {<<"capability", c>> : c \in {d \in Caps : step[d] \in Active}}
        \cup {<<k, 0>> : k \in {j \in Core : core[j] \in Active}}

Contract == INSTANCE RunContract WITH
    Steps <- {<<"capability", c>> : c \in Caps} \cup {<<k, 0>> : k \in Core},
    open <- OpenSteps,
    answered <- \E i \in DOMAIN emitted : emitted[i] = "run.completed"

\* Worker, Harness, approvals, clarifications and cancellation together implement
\* RunContract.
ImplementsContract == Contract!Spec

TerminalEvent(s) ==
    CASE s = "COMPLETED" -> "run.completed"
      [] s = "FAILED" -> "run.failed"
      [] s = "CANCELLED" -> "run.cancelled"
      [] OTHER -> "none"

\* The terminal event of a Run is appended at most once, never before the Run is
\* over, and always names the outcome the row has; an answer always has its event.
TerminalEventOnce ==
    /\ Len(emitted) <= 1
    /\ \A i \in DOMAIN emitted : emitted[i] = TerminalEvent(status)
    /\ status = "COMPLETED" => emitted # <<>>

\* Run.lease_expires_at lies beyond Run.deadline_at: a lease that expires under a
\* dead or slow worker always finds the deadline passed.
LeaseOutlivesDeadline ==
    lease # None => deadline <= 0 \/ deadline < lease

\* A Run is never executed again by taking over an expired lease: _claim only fails
\* it, so a tool that was called before a crash is not called again by recovery.
NoTakeover ==
    [][\A e \in Executors : pc[e] = "idle" /\ pc'[e] = "prepare" => lease # 0]_vars

Busy(e) == pc[e] # "idle" \/ ~NoJobs(e)

\* No approval and no answer has released the Run to a second claim.
Undisturbed ==
    /\ rounds = 0
    /\ \A i \in DOMAIN approvals : approvals[i].status # "APPROVED"

\* Until an approval or an answer hands the Run back, the lease keeps it to one
\* executor, through crashes, timeouts and cancellation.
SoleExecutor ==
    Undisturbed => \A e, f \in Executors : Busy(e) /\ Busy(f) => e = f

\* A capability with a side effect is called at most once and a read-only one once
\* more per charged retry, calls lost in a crash included.
CallsBounded ==
    Undisturbed => \A c \in Caps :
        invocations[c] + lost[c] <= IF c \in ReadOnly THEN 1 + retries[c] ELSE 1

Spent(c) ==
    {i \in DOMAIN approvals : approvals[i].step = c /\ approvals[i].used}

\* CapabilityGateway._find_approval: every recorded call of a step under ASK spent an
\* approval of its own, which somebody granted: two executors cannot pass on one
\* decision.
ApprovalSingleUse ==
    /\ \A c \in AskSteps : invocations[c] <= Cardinality(Spent(c))
    /\ \A i \in DOMAIN approvals : approvals[i].used => approvals[i].status = "APPROVED"

\* The plan is honoured. plan_dependency_deadlock is never raised: whatever is skipped,
\* retried, revived, appended or done twice, a step that could still run has a way forward.
\* And while one executor is at work a job in flight has all its dependencies complete, and
\* when _respond completes the Run nothing is left behind: no step open, no call in flight.
PlanHonoured ==
    /\ ~Deadlocked
    /\ Undisturbed =>
        /\ \A e \in Executors, c \in Caps :
               job[e][c] # "none" /\ status \notin Terminal
                   => \A d \in deps[c] : step[d] = "COMPLETED"
        /\ status = "COMPLETED" =>
               OpenSteps = {} /\ \A e \in Executors : NoJobs(e)

\* HarnessRuntime._respond: a completed Run answers from evidence, or is a planned
\* conversation that has no step to collect any.  It answers without a plan in one case
\* only: a question was put, and the attachments are all there is to answer from.  Every
\* step it calls complete left evidence of its own, whichever executor did it.
AnswerGrounded ==
    status = "COMPLETED" =>
        /\ evidence # {} \/ (planned /\ Present = {})
        /\ planned \/ (rounds > 0 /\ evidence = {Attachment})
        /\ \A c \in Caps : step[c] = "COMPLETED" => c \in evidence

\* A Run that nobody asked to cancel does not stay RUNNING or PENDING: it ends, or it
\* waits for a person, even when executors keep dying.
Settles ==
    status \in {"PENDING", "RUNNING"} ~>
        status \in Terminal \cup {"WAITING_APPROVAL", "WAITING_USER"} \/ cancelReq
-----------------------------------------------------------------------------
(***************************************************************************)
(* What the documentation says and the code does not do.                   *)
(***************************************************************************)
\* docs/architecture/phase-100-context-first-clarification.md: "Unanswered requests
\* expire through worker reconciliation."
UnansweredExpires ==
    status = "WAITING_USER" /\ clarifyTtl = 0 ~> status # "WAITING_USER"

\* docs/architecture/implementation-blueprint.md: waiting for an approval "releases the
\* worker; resume acquires a lease": a Run that waits still has a decision to wait for,
\* unless the request expired.
WakeupNotLost ==
    status = "WAITING_APPROVAL" =>
        \E i \in DOMAIN approvals : approvals[i].status \in {"PENDING", "EXPIRED"}

=============================================================================
