------------------------- MODULE RunLifecycleProofs -------------------------
(***************************************************************************)
(* Theorems about RunLifecycle, for every value of its constants: type     *)
(* correctness, the single terminal event, the implementation of           *)
(* RunContract, and the lease.                                             *)
(***************************************************************************)
EXTENDS RunLifecycle, FiniteSetTheorems, TLAPS

USE DEF vars, runVars, planVars, askVars, userVars, execVars, trace

\* A queued Run, as WorkspaceService creates it, is well typed.
LEMMA TypeInit == Init => TypeOK
  <1> SUFFICES ASSUME Init PROVE TypeOK
    OBVIOUS
  <1>0. /\ cancelReq \in BOOLEAN /\ planned \in BOOLEAN /\ waited \in [Executors -> BOOLEAN]
    BY DEF Init
  <1>1. /\ status \in RunStatus
        /\ deadline \in {None} \cup 0..Timeout /\ lease \in {None} \cup 0..LeaseSpan
        /\ stepCount \in Nat /\ replans \in 0..MaxReplans
        /\ investigations \in 0..MaxInvestigations /\ rounds \in 0..MaxRounds
        /\ remaining \in {None} \cup 1..Timeout /\ clarifyTtl \in {None} \cup 0..ClarifyTtl
    BY TimeAssumption, BudgetAssumption DEF Init, RunStatus, None
  <1>2. /\ step \in [Caps -> StepStatus] /\ core \in [Core -> StepStatus]
        /\ deps \in [Caps -> SUBSET Caps] /\ retries \in [Caps -> 0..MaxRetries]
        /\ transient \subseteq Caps /\ evidence \subseteq Caps \cup {Attachment}
    BY PlanAssumption, BudgetAssumption DEF Init, StepStatus
  <1>3. /\ approvals \in Seq(Approval) /\ lastApproved \in [Caps -> 0..Len(approvals)]
        /\ emitted \in Seq({"run.completed", "run.failed", "run.cancelled"})
    BY DEF Init
  <1>4. /\ pc \in [Executors -> Pcs] /\ job \in [Executors -> [Caps -> Jobs]]
        /\ invocations \in [Caps -> Nat] /\ lost \in [Caps -> Nat]
    BY DEF Init, Pcs, Jobs
  <1> QED BY <1>0, <1>1, <1>2, <1>3, <1>4 DEF TypeOK

\* RunWorker._claim keeps the types when it fails a Run that is past its deadline.
LEMMA TypeTimeout == ASSUME TypeOK, ClaimTimeout PROVE TypeOK'
BY TimeAssumption DEF TypeOK, ClaimTimeout, Claimable, Emit, RunStatus

\* RunWorker._claim keeps the types when it leases the Run to an executor.
LEMMA TypeClaim == ASSUME TypeOK, NEW e \in Executors, Claim(e) PROVE TypeOK'
BY TimeAssumption DEF TypeOK, Claim, Claimable, LeaseSpan, RunStatus, Pcs

\* HarnessRuntime._prepare keeps the types.
LEMMA TypePrepare == ASSUME TypeOK, NEW e \in Executors, Prepare(e) PROVE TypeOK'
  <1>0. Ingest => evidence' \subseteq Caps \cup {Attachment}
    BY DEF TypeOK, Ingest
  <1>1. CASE PrepareClarify(e)
    BY <1>0, <1>1, TimeAssumption, BudgetAssumption
       DEF TypeOK, PrepareClarify, Goto, RunStatus, Pcs, Max2, None
  <1>2. CASE PreparePlan(e)
    BY <1>0, <1>2, TimeAssumption
       DEF TypeOK, PreparePlan, Goto, Pcs, Max2, None, Core, StepStatus, Active
  <1>3. CASE PrepareCancel(e)
    BY <1>3 DEF TypeOK, PrepareCancel, Cancel, CancelSteps, CancelActive, Goto, Pcs, None, Core, StepStatus, Active, Blocking, Emit, RunStatus
  <1>4. CASE PrepareNothing(e) \/ PrepareRaises(e)
    BY <1>4 DEF TypeOK, PrepareNothing, PrepareRaises, MoveOn, Goto, Pcs
  <1> QED BY <1>1, <1>2, <1>3, <1>4 DEF Prepare

\* What HarnessRuntime._cancel writes is well typed, whoever calls it.
LEMMA TypeCancel == ASSUME TypeOK, Cancel PROVE
    /\ status' \in RunStatus /\ cancelReq' \in BOOLEAN
    /\ deadline' \in {None} \cup 0..Timeout /\ lease' \in {None} \cup 0..LeaseSpan
    /\ planned' \in BOOLEAN /\ stepCount' \in Nat
    /\ replans' \in 0..MaxReplans /\ investigations' \in 0..MaxInvestigations
    /\ step' \in [Caps -> StepStatus] /\ core' \in [Core -> StepStatus]
    /\ deps' \in [Caps -> SUBSET Caps] /\ retries' \in [Caps -> 0..MaxRetries]
    /\ transient' \subseteq Caps /\ evidence' \subseteq Caps \cup {Attachment}
    /\ approvals' \in Seq(Approval) /\ lastApproved' \in [Caps -> 0..Len(approvals')]
    /\ rounds' \in 0..MaxRounds /\ remaining' \in {None} \cup 1..Timeout
    /\ clarifyTtl' \in {None} \cup 0..ClarifyTtl
    /\ invocations' \in [Caps -> Nat] /\ lost' \in [Caps -> Nat]
    /\ emitted' \in Seq({"run.completed", "run.failed", "run.cancelled"})
  BY DEF TypeOK, Cancel, CancelSteps, CancelActive, StepStatus, Active, Blocking, Emit, RunStatus

\* A scheduling round of HarnessRuntime._execute_steps keeps the types.
LEMMA TypeSteps == ASSUME TypeOK, NEW e \in Executors, ExecuteSteps(e) PROVE TypeOK'
  <1>1. CASE StepsReturn(e) \/ StepsRaise(e) \/ StepsDone(e)
    BY <1>1 DEF TypeOK, StepsReturn, StepsRaise, StepsDone, MoveOn, Goto, Pcs
  <1>2. CASE StepsCancel(e)
    BY <1>2, TypeCancel DEF TypeOK, StepsCancel, Goto, Pcs
  <1>3. CASE StepsSkip(e)
    BY <1>3 DEF TypeOK, StepsSkip, StepStatus, Blocking
  <1>4. CASE StepsDispatch(e)
    <2>1. Cardinality(Ready) \in Nat
      <3>1. IsFiniteSet(Caps)
        BY FS_Interval, CapsAssumption DEF Caps
      <3> QED BY <3>1, FS_Subset, FS_CardinalityType DEF Ready
    <2> QED
      BY <1>4, <2>1 DEF TypeOK, StepsDispatch, StepStatus, Active, Jobs
  <1> QED BY <1>1, <1>2, <1>3, <1>4 DEF ExecuteSteps

\* Rewriting one Approval row keeps the sequence of rows a sequence of its length.
LEMMA ReplaceApproval ==
    ASSUME approvals \in Seq(Approval), NEW i \in DOMAIN approvals, NEW a \in Approval
    PROVE  /\ [approvals EXCEPT ![i] = a] \in Seq(Approval)
           /\ Len([approvals EXCEPT ![i] = a]) = Len(approvals)
OBVIOUS

\* Moving one job of one executor to another phase keeps the type of job.
LEMMA SetJobType ==
    ASSUME TypeOK, NEW e \in Executors, NEW c \in Caps, NEW p \in Jobs, SetJob(e, c, p)
    PROVE  job' \in [Executors -> [Caps -> Jobs]]
BY DEF TypeOK, SetJob

\* The two transactions of HarnessRuntime._invoke_step keep the types.
LEMMA TypeInvoke ==
    ASSUME TypeOK, NEW e \in Executors, NEW c \in Caps, InvokeStep(e, c) PROVE TypeOK'
  <1>1. CASE GatewayAsks(e, c)
    <2>1. NewApproval(c) \in Approval
      BY TimeAssumption DEF NewApproval, Approval
    <2>2. /\ approvals' \in Seq(Approval)
          /\ lastApproved' \in [Caps -> 0..Len(approvals')]
      BY <1>1, <2>1 DEF GatewayAsks, TypeOK
    <2> QED BY <1>1, <2>2 DEF TypeOK, GatewayAsks, SetJob, Jobs
  <1>2. CASE GatewayRefuses(e, c)
    BY <1>2 DEF TypeOK, GatewayRefuses, SetJob, Jobs
  <1>3. ASSUME MayCall(e, c), ConsumeApproval(c), UNCHANGED lastApproved
        PROVE  approvals' \in Seq(Approval) /\ lastApproved' \in [Caps -> 0..Len(approvals')]
    <2>1. CASE c \notin AskSteps
      BY <1>3, <2>1 DEF TypeOK, ConsumeApproval
    <2>2. CASE c \in AskSteps
      <3> DEFINE i == lastApproved[c]
      <3>1. i \in DOMAIN approvals
        BY <1>3, <2>2 DEF TypeOK, MayCall, FreshApproval
      <3>2. [approvals[i] EXCEPT !.used = TRUE] \in Approval
        <4>1. approvals[i] \in Approval
          BY <3>1 DEF TypeOK
        <4> QED BY <4>1 DEF Approval
      <3>3. approvals' = [approvals EXCEPT ![i] = [approvals[i] EXCEPT !.used = TRUE]]
        BY <1>3, <2>2, <3>1 DEF TypeOK, ConsumeApproval
      <3> QED BY <1>3, <3>1, <3>2, <3>3, ReplaceApproval DEF TypeOK
    <2> QED BY <2>1, <2>2
  <1>4. CASE GatewayLimits(e, c)
    <2>1. job' \in [Executors -> [Caps -> Jobs]]
      BY <1>4 DEF TypeOK, GatewayLimits, SetJob, Jobs
    <2> QED BY <1>4, <1>3, <2>1 DEF TypeOK, GatewayLimits
  <1>5. CASE GatewayCalls(e, c)
    <2>1. job' \in [Executors -> [Caps -> Jobs]]
      <3>1. SetJob(e, c, "ok") \/ SetJob(e, c, "retryable") \/ SetJob(e, c, "fatal")
        BY <1>5 DEF GatewayCalls
      <3> QED BY <3>1, SetJobType DEF Jobs
    <2>2. evidence' \subseteq Caps \cup {Attachment} /\ invocations' \in [Caps -> Nat]
      BY <1>5 DEF TypeOK, GatewayCalls
    <2> QED BY <1>5, <1>3, <2>1, <2>2 DEF TypeOK, GatewayCalls
  <1>6. CASE FinishStep(e, c)
    BY <1>6 DEF TypeOK, FinishStep, SetJob, Jobs, StepStatus, Blocking
  <1>7. CASE FinishLate(e, c)
    BY <1>7 DEF TypeOK, FinishLate, SetJob, Jobs
  <1>8. CASE FinishCancel(e, c)
    BY <1>8, TypeCancel DEF TypeOK, FinishCancel, SetJob, Jobs
  <1>9. CASE WaitApproval(e, c)
    BY <1>9 DEF TypeOK, WaitApproval, SetJob, Jobs, StepStatus, Active, RunStatus
  <1>10. CASE WaitRaises(e, c)
    BY <1>10 DEF TypeOK, WaitRaises, SetJob, Jobs, Pcs
  <1> QED BY <1>1, <1>2, <1>4, <1>5, <1>6, <1>7, <1>8, <1>9, <1>10 DEF InvokeStep

\* There are MaxCaps positions for capability steps.
LEMMA CapsFinite == IsFiniteSet(Caps) /\ Cardinality(Caps) = MaxCaps
BY FS_Interval, CapsAssumption DEF Caps

\* Both replans that follow the waves keep the types.
LEMMA TypeReplan ==
    ASSUME TypeOK, NEW e \in Executors, ReplanTransientFailures(e) \/ ReplanMissingEvidence(e)
    PROVE  TypeOK'
  <1>1. CASE TransientNothing(e) \/ MissingNothing(e)
    BY <1>1 DEF TypeOK, TransientNothing, MissingNothing, MoveOn, Goto, Pcs
  <1>2. CASE TransientCancel(e) \/ MissingCancel(e)
    BY <1>2, TypeCancel DEF TypeOK, TransientCancel, MissingCancel, Goto, Pcs
  <1>3. CASE TransientRetry(e)
    <2>1. retries' \in [Caps -> 0..MaxRetries]
      BY <1>3, BudgetAssumption DEF TypeOK, TransientRetry, RetrySet
    <2> QED BY <1>3, <2>1 DEF TypeOK, TransientRetry, Goto, Pcs, StepStatus, Active
  <1>4. CASE MissingReplan(e)
    <2>1. /\ step' \in [Caps -> StepStatus] /\ deps' \in [Caps -> SUBSET Caps]
          /\ replans' \in 0..MaxReplans
      BY <1>4, BudgetAssumption
         DEF TypeOK, MissingReplan, GapReplan, AppendSteps, LastComplete, StepStatus, Active
    <2> QED BY <1>4, <2>1 DEF TypeOK, MissingReplan, Goto, Pcs
  <1> QED BY <1>1, <1>2, <1>3, <1>4 DEF ReplanTransientFailures, ReplanMissingEvidence

\* The number of core steps that are still PENDING is a natural number.
LEMMA PendingType == ASSUME NEW K \in SUBSET Core PROVE Pending(K) \in Nat
  <1>1. IsFiniteSet(Core)
    <2>1. IsFiniteSet(({"verify"} \cup {"reflect"}) \cup {"respond"})
      BY FS_Singleton, FS_Union
    <2>2. Core = ({"verify"} \cup {"reflect"}) \cup {"respond"}
      BY DEF Core
    <2> QED BY <2>1, <2>2
  <1> QED BY <1>1, FS_Subset, FS_CardinalityType DEF Pending

\* HarnessRuntime._respond and _fail keep the types.
LEMMA TypeRespond ==
    ASSUME TypeOK, NEW e \in Executors, Respond(e) \/ Fail(e) \/ FailNothing(e) PROVE TypeOK'
  <1>1. CASE RespondNothing(e) \/ RespondRaises(e) \/ FailNothing(e)
    BY <1>1 DEF TypeOK, RespondNothing, RespondRaises, FailNothing, MoveOn, Goto, Pcs
  <1>2. CASE RespondCancel(e)
    BY <1>2, TypeCancel DEF TypeOK, RespondCancel, Goto, Pcs
  <1>0. /\ {"verify"} \in SUBSET Core /\ {"verify", "reflect"} \in SUBSET Core
        /\ "PENDING" \in StepStatus /\ "RUNNING" \in StepStatus
        /\ Pending({"verify"}) \in Nat /\ Pending({"verify", "reflect"}) \in Nat
    BY PendingType DEF Core, StepStatus, Active
  <1>a. ASSUME Investigated \/ UNCHANGED investigations
        PROVE  investigations' \in 0..MaxInvestigations
    BY <1>a, BudgetAssumption DEF TypeOK, Investigated, InvestigationDue
  <1>b. ASSUME NEW s \in StepStatus, NEW t \in StepStatus
        PROVE  [core EXCEPT !["verify"] = s, !["reflect"] = t] \in [Core -> StepStatus]
    <2>1. [core EXCEPT !["verify"] = s] \in [Core -> StepStatus]
      BY DEF TypeOK
    <2> QED BY <2>1
  <1>3. CASE RespondReplan(e)
    <2>1. /\ step' \in [Caps -> StepStatus] /\ deps' \in [Caps -> SUBSET Caps]
          /\ replans' \in 0..MaxReplans
      BY <1>3, BudgetAssumption
         DEF TypeOK, RespondReplan, GapReplan, AppendSteps, LastComplete, StepStatus, Active
    <2>2. investigations' \in 0..MaxInvestigations
      BY <1>3, <1>a DEF RespondReplan
    <2>3. stepCount' \in Nat
      BY <1>0, <1>3 DEF TypeOK, RespondReplan
    <2>4. core' \in [Core -> StepStatus]
      <3>1. CASE core' = [core EXCEPT !["verify"] = "PENDING"]
        BY <1>0, <3>1 DEF TypeOK
      <3>2. CASE core' = [core EXCEPT !["verify"] = "PENDING",
                              !["reflect"] = IF @ \in Active THEN "RUNNING" ELSE @]
        <4> DEFINE t == IF core["reflect"] \in Active THEN "RUNNING" ELSE core["reflect"]
        <4>1. t \in StepStatus
          BY <1>0 DEF TypeOK, Core
        <4>2. core' = [core EXCEPT !["verify"] = "PENDING", !["reflect"] = t]
          BY <3>2 DEF TypeOK
        <4> QED BY <1>0, <1>b, <4>1, <4>2
      <3> QED BY <1>3, <3>1, <3>2 DEF RespondReplan
    <2> QED BY <1>3, <2>1, <2>2, <2>3, <2>4 DEF TypeOK, RespondReplan, Goto, Pcs
  <1>4. CASE RespondInvestigate(e)
    <2>1. step' \in [Caps -> StepStatus] /\ deps' \in [Caps -> SUBSET Caps]
      BY <1>4 DEF TypeOK, RespondInvestigate, AppendSteps, LastComplete, StepStatus, Active
    <2>2. investigations' \in 0..MaxInvestigations /\ stepCount' \in Nat
      BY <1>0, <1>4, <1>a DEF TypeOK, RespondInvestigate
    <2>3. core' \in [Core -> StepStatus]
      BY <1>0, <1>4, <1>b DEF RespondInvestigate
    <2> QED BY <1>4, <2>1, <2>2, <2>3 DEF TypeOK, RespondInvestigate, Goto, Pcs
  <1>5. CASE RespondComplete(e)
    <2>1. stepCount' \in Nat /\ core' \in [Core -> StepStatus]
      BY <1>5, PendingType DEF TypeOK, RespondComplete, StepStatus
    <2>2. investigations' \in 0..MaxInvestigations
      BY <1>5, <1>a DEF RespondComplete
    <2> QED BY <1>5, <2>1, <2>2 DEF TypeOK, RespondComplete, Goto, Pcs, Emit, RunStatus
  <1>6. CASE Fail(e)
    BY <1>6 DEF TypeOK, Fail, Goto, Pcs, Emit, RunStatus
  <1> QED BY <1>1, <1>2, <1>3, <1>4, <1>5, <1>6 DEF Respond

\* Approvals, clarifications and cancellation keep the types.
LEMMA TypePeople == ASSUME TypeOK, People PROVE TypeOK'
  <1>1. ASSUME NEW i \in DOMAIN approvals, NEW s \in {"APPROVED", "REJECTED", "EXPIRED"},
               approvals' = [approvals EXCEPT ![i].status = s]
        PROVE  approvals' \in Seq(Approval) /\ Len(approvals') = Len(approvals)
    <2>1. approvals[i] \in Approval
      BY DEF TypeOK
    <2>2. [approvals[i] EXCEPT !.status = s] \in Approval
      BY <2>1 DEF Approval
    <2>3. approvals' = [approvals EXCEPT ![i] = [approvals[i] EXCEPT !.status = s]]
      BY <1>1 DEF TypeOK
    <2> QED BY <2>2, <2>3, ReplaceApproval DEF TypeOK
  <1>2. ASSUME NEW i \in DOMAIN approvals, Approve(i) PROVE TypeOK'
    <2>1. approvals' \in Seq(Approval) /\ Len(approvals') = Len(approvals)
      BY <1>1, <1>2 DEF Approve
    <2>2. lastApproved' \in [Caps -> 0..Len(approvals')]
      <3>1. approvals[i].step \in Caps /\ i \in 0..Len(approvals)
        <4>1. approvals[i] \in Approval /\ i \in 1..Len(approvals) /\ Len(approvals) \in Nat
          BY DEF TypeOK
        <4> QED BY <4>1 DEF Approval
      <3>2. lastApproved' = [lastApproved EXCEPT ![approvals[i].step] = i]
        BY <1>2 DEF Approve
      <3> QED BY <2>1, <3>1, <3>2 DEF TypeOK
    <2> QED BY <1>2, <2>1, <2>2 DEF TypeOK, Approve, Resume, RunStatus
  <1>3. ASSUME NEW i \in DOMAIN approvals, Reject(i) PROVE TypeOK'
    <2>1. approvals' \in Seq(Approval) /\ Len(approvals') = Len(approvals)
      BY <1>1, <1>3 DEF Reject
    <2> QED BY <1>3, <2>1 DEF TypeOK, Reject, RunStatus
  <1>4. ASSUME NEW i \in DOMAIN approvals, ExpireApproval(i) PROVE TypeOK'
    <2>1. approvals' \in Seq(Approval) /\ Len(approvals') = Len(approvals)
      BY <1>1, <1>4 DEF ExpireApproval
    <2> QED BY <1>4, <2>1 DEF TypeOK, ExpireApproval
  <1>5. CASE Answer
    BY <1>5, TimeAssumption DEF TypeOK, Answer, RunStatus, None
  <1>6. CASE ExpireClarification
    BY <1>6 DEF TypeOK, ExpireClarification, RunStatus, Emit
  <1>7. CASE CancelRun
    BY <1>7 DEF TypeOK, CancelRun, CancelSteps, CancelActive, StepStatus, Active, Blocking,
                RunStatus, Emit
  <1>8. CASE RequestChildCancel \/ CancelChild
    BY <1>8 DEF TypeOK, RequestChildCancel, CancelChild, RunStatus
  <1> QED BY <1>2, <1>3, <1>4, <1>5, <1>6, <1>7, <1>8 DEF People

\* The passing of time keeps the types: no timestamp runs past 0.
LEMMA TypeTick == ASSUME TypeOK, Tick PROVE TypeOK'
  <1>1. /\ deadline' \in {None} \cup 0..Timeout /\ lease' \in {None} \cup 0..LeaseSpan
        /\ clarifyTtl' \in {None} \cup 0..ClarifyTtl
    <2>1. /\ deadline' = Sooner(deadline) /\ lease' = Sooner(lease)
          /\ clarifyTtl' = Sooner(clarifyTtl)
      BY DEF Tick
    <2>2. /\ deadline \in {None} \cup 0..Timeout /\ lease \in {None} \cup 0..LeaseSpan
          /\ clarifyTtl \in {None} \cup 0..ClarifyTtl
      BY DEF TypeOK
    <2> QED BY <2>1, <2>2, TimeAssumption DEF Sooner, None, LeaseSpan
  <1>2. \A i \in DOMAIN approvals : [approvals[i] EXCEPT !.ttl = Sooner(@)] \in Approval
    <2> TAKE i \in DOMAIN approvals
    <2>1. approvals[i] \in Approval
      BY DEF TypeOK
    <2>2. Sooner(approvals[i].ttl) \in Nat
      BY <2>1 DEF Approval, Sooner
    <2> QED BY <2>1, <2>2 DEF Approval
  <1>3. approvals' \in Seq(Approval) /\ Len(approvals') = Len(approvals)
    <2>1. Len(approvals) \in Nat /\ DOMAIN approvals = 1..Len(approvals)
      BY DEF TypeOK
    <2>2. approvals' = [i \in 1..Len(approvals) |-> [approvals[i] EXCEPT !.ttl = Sooner(@)]]
      BY <2>1 DEF Tick
    <2> QED BY <1>2, <2>1, <2>2
  <1> QED BY <1>1, <1>3 DEF TypeOK, Tick

\* The death of an executor keeps the types.
LEMMA TypeCrash == ASSUME TypeOK, Crashes PROVE TypeOK'
  <1>1. ASSUME NEW e \in Executors, Crash(e) PROVE TypeOK'
    BY <1>1 DEF TypeOK, Crash, Dies, Pcs, Jobs
  <1>2. ASSUME NEW e \in Executors, NEW c \in Caps, CrashInCall(e, c) PROVE TypeOK'
    <2>1. lost' \in [Caps -> Nat]
      BY <1>2 DEF TypeOK, CrashInCall
    <2> QED BY <1>2, <2>1 DEF TypeOK, CrashInCall, Dies, Pcs, Jobs
  <1> QED BY <1>1, <1>2 DEF Crashes

\* Type correctness of the Run, its steps, its approvals and the executors, for every
\* number of executors and steps and every budget.
THEOREM TypeCorrect == Spec => []TypeOK
  <1>1. TypeOK /\ [Next]_vars => TypeOK'
    <2> SUFFICES ASSUME TypeOK, [Next]_vars PROVE TypeOK'
      OBVIOUS
    <2>1. CASE UNCHANGED vars
      BY <2>1 DEF TypeOK
    <2>2. CASE Worker
      <3>1. CASE ClaimTimeout
        BY <3>1, TypeTimeout
      <3>2. ASSUME NEW e \in Executors, Claim(e) PROVE TypeOK'
        BY <3>2, TypeClaim
      <3>3. ASSUME NEW e \in Executors, Execute(e) PROVE TypeOK'
        <4>1. ASSUME NEW c \in Caps, InvokeStep(e, c) PROVE TypeOK'
          BY <4>1, TypeInvoke
        <4> QED BY <3>3, <4>1, TypePrepare, TypeSteps, TypeReplan, TypeRespond DEF Execute
      <3> QED BY <2>2, <3>1, <3>2, <3>3 DEF Worker
    <2>3. CASE People
      BY <2>3, TypePeople
    <2>4. CASE Tick
      BY <2>4, TypeTick
    <2>5. CASE Crashes
      BY <2>5, TypeCrash
    <2> QED BY <2>1, <2>2, <2>3, <2>4, <2>5 DEF Next
  <1> QED BY TypeInit, <1>1, PTL DEF Spec
-----------------------------------------------------------------------------
(***************************************************************************)
(* What a step may do to what the clients of a Run see.                    *)
(***************************************************************************)
Frozen == UNCHANGED <<status, emitted, step, core>>

\* The Run stays as it is and only its steps change.
Works == status \notin Terminal /\ UNCHANGED <<status, emitted>>

\* One edge of the status graph, with the event it owes.
Moves ==
    /\ status' \in Contract!Transitions[status]
    /\ status' = "CANCELLED" => OpenSteps' = {}
    /\ \/ status' # "COMPLETED" /\ emitted' = emitted
       \/ status' \in Terminal /\ emitted' = Append(emitted, TerminalEvent(status'))

\* A Run nobody has claimed is untouched.
PendingFresh ==
    status = "PENDING" =>
        /\ step = [c \in Caps |-> "ABSENT"] /\ core = [k \in Core |-> "ABSENT"]
        /\ lease = None
        /\ \A e \in Executors : ~Busy(e)

\* The edges of domain/run_state.py that the actions use.
LEMMA Edges ==
    /\ \A s \in RunStatus \ Terminal : {"FAILED", "CANCELLED"} \subseteq Contract!Transitions[s]
    /\ "RUNNING" \in Contract!Transitions["PENDING"]
    /\ {"WAITING_APPROVAL", "WAITING_USER", "COMPLETED"} \subseteq Contract!Transitions["RUNNING"]
    /\ "RUNNING" \in Contract!Transitions["WAITING_APPROVAL"]
    /\ "RUNNING" \in Contract!Transitions["WAITING_USER"]
BY DEF Contract!Transitions, Contract!RunStatus, RunStatus, Terminal

\* HarnessRuntime._cancel takes an edge to CANCELLED and closes every step.
LEMMA CancelMoves == ASSUME TypeOK, status \notin Terminal, Cancel PROVE Moves
  <1>1. OpenSteps' = {}
    BY DEF Cancel, CancelSteps, CancelActive, OpenSteps, Active, TypeOK
  <1> QED BY <1>1, Edges DEF Moves, Cancel, Emit, TerminalEvent, TypeOK, Terminal

\* Whatever a worker does, the client sees nothing, work on an open Run, or one edge.
LEMMA WorkerStep ==
    ASSUME TypeOK, PendingFresh, Worker
    PROVE  Frozen \/ Works \/ Moves
  <1>1. CASE ClaimTimeout
    BY <1>1, Edges DEF ClaimTimeout, Claimable, Moves, Emit, TerminalEvent, Terminal, TypeOK
  <1>2. ASSUME NEW e \in Executors, Claim(e) PROVE Works \/ Moves
    BY <1>2, Edges DEF Claim, Claimable, Works, Moves, Terminal
  <1>3. ASSUME NEW e \in Executors, Prepare(e) PROVE Frozen \/ Works \/ Moves
    <2>1. CASE PrepareNothing(e) \/ PrepareRaises(e)
      BY <2>1 DEF PrepareNothing, PrepareRaises, MoveOn, Frozen
    <2>2. CASE PrepareCancel(e)
      BY <2>2, CancelMoves DEF PrepareCancel
    <2>3. CASE PrepareClarify(e)
      BY <2>3, Edges DEF PrepareClarify, Moves
    <2>4. CASE PreparePlan(e)
      BY <2>4 DEF PreparePlan, Works
    <2> QED BY <1>3, <2>1, <2>2, <2>3, <2>4 DEF Prepare
  <1>4. ASSUME NEW e \in Executors, ExecuteSteps(e) PROVE Frozen \/ Works \/ Moves
    <2>1. CASE StepsReturn(e) \/ StepsRaise(e) \/ StepsDone(e)
      BY <2>1 DEF StepsReturn, StepsRaise, StepsDone, MoveOn, Frozen
    <2>2. CASE StepsCancel(e)
      BY <2>2, CancelMoves DEF StepsCancel, Scheduling
    <2>3. CASE StepsSkip(e) \/ StepsDispatch(e)
      BY <2>3 DEF StepsSkip, StepsDispatch, Unblocked, Scheduling, Works
    <2> QED BY <1>4, <2>1, <2>2, <2>3 DEF ExecuteSteps
  <1>5. ASSUME NEW e \in Executors, NEW c \in Caps, InvokeStep(e, c)
        PROVE  Frozen \/ Works \/ Moves
    <2>1. CASE GatewayAsks(e, c) \/ GatewayRefuses(e, c) \/ GatewayLimits(e, c)
               \/ GatewayCalls(e, c) \/ FinishLate(e, c) \/ WaitRaises(e, c)
      BY <2>1 DEF GatewayAsks, GatewayRefuses, GatewayLimits, GatewayCalls, FinishLate,
                  WaitRaises, Frozen
    <2>2. CASE FinishStep(e, c)
      BY <2>2 DEF FinishStep, Works
    <2>3. CASE FinishCancel(e, c)
      BY <2>3, CancelMoves DEF FinishCancel
    <2>4. CASE WaitApproval(e, c)
      BY <2>4, Edges DEF WaitApproval, Works, Moves, Terminal
    <2> QED BY <1>5, <2>1, <2>2, <2>3, <2>4 DEF InvokeStep
  <1>6. ASSUME NEW e \in Executors, ReplanTransientFailures(e) \/ ReplanMissingEvidence(e)
        PROVE  Frozen \/ Works \/ Moves
    <2>1. CASE TransientNothing(e) \/ MissingNothing(e)
      BY <2>1 DEF TransientNothing, MissingNothing, MoveOn, Frozen
    <2>2. CASE TransientCancel(e) \/ MissingCancel(e)
      BY <2>2, CancelMoves DEF TransientCancel, MissingCancel, ReplanIdle
    <2>3. CASE TransientRetry(e) \/ MissingReplan(e)
      BY <2>3 DEF TransientRetry, MissingReplan, GapReplan, CanGrow, Works, Terminal
    <2> QED BY <1>6, <2>1, <2>2, <2>3 DEF ReplanTransientFailures, ReplanMissingEvidence
  <1>7. ASSUME NEW e \in Executors, Respond(e) \/ Fail(e) \/ FailNothing(e)
        PROVE  Frozen \/ Works \/ Moves
    <2>1. CASE RespondNothing(e) \/ RespondRaises(e) \/ FailNothing(e)
      BY <2>1 DEF RespondNothing, RespondRaises, FailNothing, MoveOn, Frozen
    <2>2. CASE RespondCancel(e)
      BY <2>2, CancelMoves DEF RespondCancel
    <2>3. CASE RespondReplan(e) \/ RespondInvestigate(e)
      BY <2>3 DEF RespondReplan, RespondInvestigate, Responding, Works, Terminal
    <2>4. CASE RespondComplete(e)
      BY <2>4, Edges DEF RespondComplete, Responding, Moves, Emit, TerminalEvent, Terminal
    <2>5. CASE Fail(e)
      BY <2>5, Edges DEF Fail, Moves, Emit, TerminalEvent, Terminal, TypeOK
    <2> QED BY <1>7, <2>1, <2>2, <2>3, <2>4, <2>5 DEF Respond
  <1> QED BY <1>1, <1>2, <1>3, <1>4, <1>5, <1>6, <1>7 DEF Worker, Execute

\* The same for what people and the automation do.
LEMMA PeopleStep ==
    ASSUME TypeOK, PendingFresh, People
    PROVE  Frozen \/ Works \/ Moves
  <1>1. ASSUME NEW i \in DOMAIN approvals, Approve(i) PROVE Frozen \/ Moves
    BY <1>1, Edges DEF Approve, Resume, Frozen, Moves
  <1>2. ASSUME NEW i \in DOMAIN approvals, Reject(i) PROVE Frozen \/ Moves
    BY <1>2, Edges DEF Reject, Frozen, Moves, TypeOK
  <1>3. ASSUME NEW i \in DOMAIN approvals, ExpireApproval(i) PROVE Frozen
    BY <1>3 DEF ExpireApproval, Frozen
  <1>4. CASE Answer
    BY <1>4, Edges DEF Answer, Moves
  <1>5. CASE ExpireClarification
    BY <1>5, Edges DEF ExpireClarification, Moves, Emit, TerminalEvent, Terminal, RunStatus
  <1>6. CASE CancelRun
    <2>1. OpenSteps' = {}
      BY <1>6 DEF CancelRun, CancelSteps, CancelActive, OpenSteps, Active, TypeOK
    <2> QED BY <1>6, <2>1, Edges DEF CancelRun, Moves, Emit, TerminalEvent, TypeOK, Terminal
  <1>7. CASE RequestChildCancel
    BY <1>7 DEF RequestChildCancel, Frozen
  <1>8. CASE CancelChild
    <2>1. CASE status = "PENDING"
      <3>1. OpenSteps' = {}
        BY <1>8, <2>1 DEF CancelChild, PendingFresh, OpenSteps, Active
      <3> QED BY <1>8, <2>1, <3>1, Edges DEF CancelChild, Moves, TypeOK
    <2>2. CASE status # "PENDING"
      BY <1>8, <2>2 DEF CancelChild, Frozen
    <2> QED BY <2>1, <2>2
  <1> QED BY <1>1, <1>2, <1>3, <1>4, <1>5, <1>6, <1>7, <1>8 DEF People

\* The same for every step of the specification.
LEMMA StatusStep ==
    ASSUME TypeOK, PendingFresh, [Next]_vars
    PROVE  Frozen \/ Works \/ Moves
  <1>1. CASE UNCHANGED vars
    BY <1>1 DEF Frozen
  <1>2. CASE Tick
    BY <1>2 DEF Tick, Frozen
  <1>3. CASE Crashes
    BY <1>3 DEF Crashes, Crash, CrashInCall, Dies, Frozen
  <1> QED BY <1>1, <1>2, <1>3, WorkerStep, PeopleStep DEF Next

\* An executor that does anything but claim is busy.
LEMMA ExecuteBusy == ASSUME TypeOK, NEW e \in Executors, Execute(e) PROVE Busy(e)
  <1>1. CASE Prepare(e) \/ ReplanTransientFailures(e) \/ ReplanMissingEvidence(e)
             \/ Respond(e) \/ Fail(e) \/ FailNothing(e)
    BY <1>1 DEF Prepare, PrepareNothing, PrepareCancel, PrepareRaises, PrepareClarify,
                PreparePlan, ReplanTransientFailures, TransientNothing, TransientCancel,
                TransientRetry, ReplanMissingEvidence, MissingNothing, MissingCancel,
                MissingReplan, Respond, RespondNothing, RespondCancel, RespondRaises,
                RespondReplan, RespondInvestigate, RespondComplete, Responding, Fail,
                FailNothing, Busy
  <1>2. CASE ExecuteSteps(e)
    BY <1>2 DEF ExecuteSteps, StepsReturn, StepsCancel, StepsRaise, StepsSkip, StepsDone,
                StepsDispatch, Unblocked, Scheduling, AtWave, Busy
  <1>3. ASSUME NEW c \in Caps, InvokeStep(e, c) PROVE Busy(e)
    BY <1>3 DEF InvokeStep, GatewayAsks, GatewayRefuses, GatewayLimits, GatewayCalls, MayCall,
                FinishStep, FinishLate, FinishCancel, HasResult, WaitApproval, WaitRaises,
                Busy, NoJobs
  <1> QED BY <1>1, <1>2, <1>3 DEF Execute

\* Nothing touches a Run before its first claim, and it never returns to PENDING.
LEMMA PendingFreshStep == ASSUME TypeOK, PendingFresh, [Next]_vars PROVE PendingFresh'
  <1> SUFFICES ASSUME status' = "PENDING"
               PROVE  UNCHANGED <<step, core, lease, pc, job>> /\ status = "PENDING"
    BY DEF PendingFresh, Busy, NoJobs
  <1>1. status = "PENDING"
    BY StatusStep DEF Frozen, Works, Moves, Contract!Transitions, Contract!RunStatus, TypeOK,
                      RunStatus
  <1>2. \A e \in Executors : ~Busy(e)
    BY <1>1 DEF PendingFresh
  <1>3. CASE UNCHANGED vars
    BY <1>1, <1>3
  <1>4. CASE Worker
    BY <1>1, <1>2, <1>4, ExecuteBusy DEF Worker, ClaimTimeout, Claim
  <1>5. CASE People
    BY <1>1, <1>5 DEF People, Approve, Reject, ExpireApproval, Resume, Answer, Terminal,
                      ExpireClarification, CancelRun, RequestChildCancel, CancelChild
  <1>6. CASE Tick
    BY <1>1, <1>6 DEF Tick, Sooner, PendingFresh, None
  <1>7. CASE Crashes
    BY <1>1, <1>2, <1>7 DEF Crashes, Crash, CrashInCall, MayCall, Busy, NoJobs
  <1> QED BY <1>3, <1>4, <1>5, <1>6, <1>7 DEF Next

\* A new Run is untouched.
LEMMA PendingFreshInit == Init => PendingFresh
BY DEF Init, PendingFresh, Busy, NoJobs

\* A Run in the queue has no step, no lease and no executor: RunWorker._claim is the
\* only way out of PENDING that leaves work behind.
THEOREM Untouched == Spec => []PendingFresh
  <1>1. PendingFresh /\ TypeOK /\ [Next]_vars => PendingFresh'
    BY PendingFreshStep
  <1> QED BY PendingFreshInit, TypeCorrect, <1>1, PTL DEF Spec

\* run.completed, run.failed and run.cancelled exclude one another and come at most
\* once, whatever executors and people race for the end of the Run.
THEOREM OneTerminalEvent == Spec => []TerminalEventOnce
  <1>1. Init => TerminalEventOnce
    BY DEF Init, TerminalEventOnce
  <1>2. ASSUME TypeOK, PendingFresh, TerminalEventOnce, [Next]_vars PROVE TerminalEventOnce'
    <2>1. CASE Frozen \/ Works
      BY <1>2, <2>1 DEF Frozen, Works, TerminalEventOnce, TerminalEvent
    <2>2. CASE Moves
      <3>1. status \notin Terminal
        BY <1>2, <2>2
           DEF Moves, Contract!Transitions, Contract!RunStatus, Terminal, TypeOK, RunStatus
      <3>2. Len(emitted) = 0
        <4> SUFFICES ASSUME Len(emitted) # 0 PROVE FALSE
          OBVIOUS
        <4>1. 1 \in DOMAIN emitted /\ emitted[1] \in {"run.completed", "run.failed", "run.cancelled"}
          BY <1>2 DEF TypeOK
        <4> QED BY <1>2, <3>1, <4>1 DEF TerminalEventOnce, TerminalEvent, Terminal
      <3>3. emitted = <<>>
        BY <1>2, <3>2 DEF TypeOK
      <3>4. CASE status' # "COMPLETED" /\ emitted' = emitted
        BY <3>3, <3>4 DEF TerminalEventOnce
      <3>5. CASE emitted' = Append(emitted, TerminalEvent(status'))
        <4>1. emitted' = <<TerminalEvent(status')>>
          BY <3>3, <3>5
        <4> QED BY <4>1 DEF TerminalEventOnce, TerminalEvent
      <3> QED BY <2>2, <3>4, <3>5 DEF Moves
    <2> QED BY <1>2, <2>1, <2>2, StatusStep
  <1> QED BY <1>1, <1>2, TypeCorrect, Untouched, PTL DEF Spec

\* The Harness, its workers and the people around it implement RunContract: the
\* status follows run_state.py and a Run that has ended is frozen with its steps.
THEOREM ContractImplemented == Spec => ImplementsContract
  <1> DEFINE answered == \E i \in DOMAIN emitted : emitted[i] = "run.completed"
  <1>1. Init => Contract!Init
    BY DEF Init, Contract!Init, OpenSteps, Active
  <1>2. ASSUME NEW s, NEW es \in Seq({"run.completed", "run.failed", "run.cancelled"}),
               \A i \in DOMAIN es : es[i] = TerminalEvent(s), s = "COMPLETED" => es # <<>>
        PROVE  (\E i \in DOMAIN es : es[i] = "run.completed") <=> s = "COMPLETED"
    <2>1. CASE s = "COMPLETED"
      <3>1. 1 \in DOMAIN es
        BY <1>2, <2>1
      <3> QED BY <1>2, <2>1, <3>1 DEF TerminalEvent
    <2>2. CASE s # "COMPLETED"
      BY <1>2, <2>2 DEF TerminalEvent
    <2> QED BY <2>1, <2>2
  <1>3. ASSUME TypeOK, TerminalEventOnce, TypeOK', TerminalEventOnce', PendingFresh, [Next]_vars
        PROVE  [Contract!Next]_(Contract!vars)
    <2>1. OpenSteps' \in SUBSET ({<<"capability", c>> : c \in Caps} \cup {<<k, 0>> : k \in Core})
      BY DEF OpenSteps
    <2>2. CASE Frozen
      BY <2>2 DEF Frozen, Contract!vars, OpenSteps
    <2>3. CASE Works
      BY <2>1, <2>3 DEF Works, Contract!Next, Contract!Work, Contract!Terminal, Terminal
    <2>4. CASE Moves
      <3>1. answered' <=> status' = "COMPLETED"
        BY <1>2, <1>3 DEF TypeOK, TerminalEventOnce
      <3> QED BY <2>1, <2>4, <3>1 DEF Moves, Contract!Next, Contract!Move
    <2> QED BY <1>3, <2>2, <2>3, <2>4, StatusStep
  <1> QED
    BY <1>1, <1>3, TypeCorrect, Untouched, OneTerminalEvent, PTL
       DEF Spec, ImplementsContract, Contract!Spec
-----------------------------------------------------------------------------
(***************************************************************************)
(* The lease and the deadline.                                             *)
(***************************************************************************)
\* Only a Run that is parked for its user, or over, has no deadline.
DeadlineKept == deadline = None => status \in Terminal \cup {"WAITING_USER"}

\* A Run that runs without an approval or an answer is under a lease.
LeaseHeld ==
    /\ status = "WAITING_USER" => rounds # 0
    /\ Undisturbed /\ status = "RUNNING" => lease # None

LeaseInv == LeaseOutlivesDeadline /\ DeadlineKept /\ LeaseHeld /\ SoleExecutor

\* The row only keeps its timestamps, or loses its lease on leaving RUNNING.
Keeps ==
    /\ UNCHANGED <<deadline, lease, rounds>>
    /\ status' \in {"RUNNING", "WAITING_USER"} => status' = status

Releases ==
    /\ lease' = None /\ status' # "RUNNING"
    /\ \/ UNCHANGED <<deadline, rounds>> /\ status' # "WAITING_USER"
       \/ deadline' = None /\ status' = "FAILED" /\ UNCHANGED rounds
       \/ deadline' = None /\ status' = "WAITING_USER" /\ rounds' = rounds + 1

\* HarnessRuntime._cancel releases the lease.
LEMMA CancelReleases == ASSUME Cancel PROVE Releases
BY DEF Cancel, Releases

\* How a step can change the timestamps of the Run row.
LEMMA RowStep ==
    ASSUME TypeOK, [Next]_vars
    PROVE  \/ Keeps \/ Releases
           \/ \E e \in Executors : Claim(e)
           \/ Tick \/ Answer
           \/ \E i \in DOMAIN approvals : Approve(i)
  <1>1. CASE UNCHANGED vars
    BY <1>1 DEF Keeps
  <1>2. CASE ClaimTimeout
    BY <1>2 DEF ClaimTimeout, Keeps
  <1>3. ASSUME NEW e \in Executors, Execute(e) PROVE Keeps \/ Releases
    <2>1. CASE Prepare(e)
      BY <2>1, CancelReleases
         DEF Prepare, PrepareNothing, PrepareCancel, PrepareRaises, PrepareClarify, PreparePlan,
             MoveOn, Keeps, Releases
    <2>2. CASE ExecuteSteps(e)
      BY <2>2, CancelReleases
         DEF ExecuteSteps, StepsReturn, StepsCancel, StepsRaise, StepsSkip, StepsDone,
             StepsDispatch, MoveOn, Keeps
    <2>3. ASSUME NEW c \in Caps, InvokeStep(e, c) PROVE Keeps \/ Releases
      BY <2>3, CancelReleases
         DEF InvokeStep, GatewayAsks, GatewayRefuses, GatewayLimits, GatewayCalls, FinishStep,
             FinishLate, FinishCancel, WaitApproval, WaitRaises, Keeps, Releases
    <2>4. CASE ReplanTransientFailures(e) \/ ReplanMissingEvidence(e)
      BY <2>4, CancelReleases
         DEF ReplanTransientFailures, TransientNothing, TransientCancel, TransientRetry,
             ReplanMissingEvidence, MissingNothing, MissingCancel, MissingReplan, MoveOn, Keeps
    <2>5. CASE Respond(e) \/ Fail(e) \/ FailNothing(e)
      BY <2>5, CancelReleases
         DEF Respond, RespondNothing, RespondCancel, RespondRaises, RespondReplan,
             RespondInvestigate, RespondComplete, Fail, FailNothing, MoveOn, Keeps, Releases
    <2> QED BY <1>3, <2>1, <2>2, <2>3, <2>4, <2>5 DEF Execute
  <1>4. CASE People
    BY <1>4 DEF People, Reject, ExpireApproval, ExpireClarification, CancelRun,
                RequestChildCancel, CancelChild, Keeps, Releases
  <1>5. CASE Crashes
    BY <1>5 DEF Crashes, Crash, CrashInCall, Dies, Keeps
  <1> QED BY <1>1, <1>2, <1>3, <1>4, <1>5 DEF Next, Worker

\* A lease granted by _claim goes on outliving the deadline.
LEMMA LeaseStep ==
    ASSUME TypeOK, LeaseOutlivesDeadline, [Next]_vars PROVE LeaseOutlivesDeadline'
  <1>1. CASE Keeps \/ Releases
    BY <1>1 DEF Keeps, Releases, LeaseOutlivesDeadline
  <1>2. ASSUME NEW e \in Executors, Claim(e) PROVE LeaseOutlivesDeadline'
    BY <1>2, TimeAssumption DEF Claim, LeaseSpan, LeaseOutlivesDeadline, TypeOK, None
  <1>3. CASE Tick
    <2>1. deadline' = Sooner(deadline) /\ lease' = Sooner(lease)
      BY <1>3 DEF Tick
    <2>2. deadline \in {None} \cup 0..Timeout /\ lease \in {None} \cup 0..LeaseSpan
      BY DEF TypeOK
    <2> QED BY <2>1, <2>2, TimeAssumption DEF Sooner, LeaseOutlivesDeadline, None, LeaseSpan
  <1>4. CASE Answer
    BY <1>4 DEF Answer, LeaseOutlivesDeadline
  <1>5. ASSUME NEW i \in DOMAIN approvals, Approve(i) PROVE LeaseOutlivesDeadline'
    BY <1>5 DEF Approve, Resume, LeaseOutlivesDeadline
  <1> QED BY <1>1, <1>2, <1>3, <1>4, <1>5, RowStep

\* A Run loses its deadline only when it parks for the user or ends.
LEMMA DeadlineStep ==
    ASSUME TypeOK, PendingFresh, DeadlineKept, [Next]_vars PROVE DeadlineKept'
  <1>1. status \in Terminal => status' = status
    BY StatusStep DEF Frozen, Works, Moves, Contract!Transitions, Contract!RunStatus, Terminal,
                      TypeOK, RunStatus
  <1>2. status = "WAITING_USER" => status' \in Terminal \cup {"WAITING_USER", "RUNNING"}
    BY StatusStep DEF Frozen, Works, Moves, Contract!Transitions, Contract!RunStatus, Terminal,
                      TypeOK, RunStatus
  <1>3. CASE Keeps
    BY <1>1, <1>2, <1>3 DEF Keeps, DeadlineKept
  <1>4. CASE Releases
    BY <1>1, <1>2, <1>4 DEF Releases, DeadlineKept, Terminal
  <1>5. ASSUME NEW e \in Executors, Claim(e) PROVE DeadlineKept'
    BY <1>5 DEF Claim, Claimable, DeadlineKept, Terminal
  <1>6. CASE Tick
    BY <1>6 DEF Tick, Sooner, DeadlineKept, TypeOK, None
  <1>7. CASE Answer
    BY <1>7 DEF Answer, DeadlineKept
  <1>8. ASSUME NEW i \in DOMAIN approvals, Approve(i) PROVE DeadlineKept'
    BY <1>8 DEF Approve, Resume, DeadlineKept, Terminal
  <1> QED BY <1>3, <1>4, <1>5, <1>6, <1>7, <1>8, RowStep

\* An expired lease never leads to a claim.
LEMMA NoClaimOnExpiry ==
    ASSUME TypeOK, LeaseOutlivesDeadline, DeadlineKept, NEW e \in Executors, Claim(e)
    PROVE  lease = None
BY DEF Claim, Claimable, LeaseOutlivesDeadline, DeadlineKept, TypeOK, None, Terminal

\* Only a claim makes an executor busy.
LEMMA BusyStep ==
    ASSUME TypeOK, [Next]_vars, NEW e \in Executors, Busy(e)', ~Busy(e) PROVE Claim(e)
  <1>1. ~Execute(e)
    BY ExecuteBusy
  <1>2. pc[e] = "idle" /\ job[e] = [c \in Caps |-> "none"]
    BY DEF Busy, NoJobs, TypeOK
  <1>3. SUFFICES ASSUME ~Claim(e) PROVE pc'[e] = pc[e] /\ job'[e] = job[e]
    BY <1>2 DEF Busy, NoJobs
  <1>4. CASE UNCHANGED vars
    BY <1>4
  <1>5. ASSUME NEW f \in Executors, Claim(f) PROVE pc'[e] = pc[e] /\ job'[e] = job[e]
    BY <1>3, <1>5 DEF Claim, TypeOK
  <1>6. ASSUME NEW f \in Executors, f # e, Execute(f) PROVE pc'[e] = pc[e] /\ job'[e] = job[e]
    <2>1. CASE Prepare(f)
      BY <1>6, <2>1 DEF Prepare, PrepareNothing, PrepareCancel, PrepareRaises, PrepareClarify,
                        PreparePlan, MoveOn, Goto, TypeOK
    <2>2. CASE ExecuteSteps(f)
      BY <1>6, <2>2 DEF ExecuteSteps, StepsReturn, StepsCancel, StepsRaise, StepsSkip,
                        StepsDone, StepsDispatch, MoveOn, Goto, TypeOK
    <2>3. ASSUME NEW c \in Caps, InvokeStep(f, c) PROVE pc'[e] = pc[e] /\ job'[e] = job[e]
      BY <1>6, <2>3 DEF InvokeStep, GatewayAsks, GatewayRefuses, GatewayLimits, GatewayCalls,
                        FinishStep, FinishLate, FinishCancel, WaitApproval, WaitRaises, SetJob,
                        TypeOK
    <2>4. CASE ReplanTransientFailures(f) \/ ReplanMissingEvidence(f)
      BY <1>6, <2>4 DEF ReplanTransientFailures, TransientNothing, TransientCancel,
                        TransientRetry, ReplanMissingEvidence, MissingNothing, MissingCancel,
                        MissingReplan, MoveOn, Goto, TypeOK
    <2>5. CASE Respond(f) \/ Fail(f) \/ FailNothing(f)
      BY <1>6, <2>5 DEF Respond, RespondNothing, RespondCancel, RespondRaises, RespondReplan,
                        RespondInvestigate, RespondComplete, Fail, FailNothing, MoveOn, Goto,
                        TypeOK
    <2> QED BY <1>6, <2>1, <2>2, <2>3, <2>4, <2>5 DEF Execute
  <1>7. CASE ClaimTimeout \/ People \/ Tick
    BY <1>7 DEF ClaimTimeout, People, Approve, Reject, ExpireApproval, Answer, Tick,
                ExpireClarification, CancelRun, RequestChildCancel, CancelChild
  <1>8. ASSUME NEW f \in Executors, Dies(f) PROVE pc'[e] = pc[e] /\ job'[e] = job[e]
    BY <1>2, <1>8 DEF Dies, TypeOK
  <1> QED
    BY <1>1, <1>4, <1>5, <1>6, <1>7, <1>8 DEF Next, Worker, Crashes, Crash, CrashInCall

\* Only a claim starts an executor.
LEMMA PrepareStep ==
    ASSUME TypeOK, [Next]_vars, NEW e \in Executors, pc[e] = "idle", pc'[e] = "prepare"
    PROVE  Claim(e)
  <1>1. ASSUME NEW f \in Executors, NEW label \in Pcs \ {"prepare"},
               pc' = [pc EXCEPT ![f] = label]
        PROVE  FALSE
    BY <1>1 DEF TypeOK
  <1>2. pc' # pc
    OBVIOUS
  <1>3. ASSUME NEW f \in Executors, Execute(f)
        PROVE  pc' = pc \/ \E label \in Pcs \ {"prepare"} : pc' = [pc EXCEPT ![f] = label]
    <2>1. CASE Prepare(f)
      BY <2>1 DEF Prepare, PrepareNothing, PrepareCancel, PrepareRaises, PrepareClarify,
                  PreparePlan, MoveOn, Goto, Pcs
    <2>2. CASE ExecuteSteps(f)
      BY <2>2 DEF ExecuteSteps, StepsReturn, StepsCancel, StepsRaise, StepsSkip, StepsDone,
                  StepsDispatch, MoveOn, Goto, Pcs
    <2>3. ASSUME NEW c \in Caps, InvokeStep(f, c), pc' # pc
          PROVE  \E label \in Pcs \ {"prepare"} : pc' = [pc EXCEPT ![f] = label]
      <3>1. WaitRaises(f, c)
        BY <2>3 DEF InvokeStep, GatewayAsks, GatewayRefuses, GatewayLimits, GatewayCalls,
                    FinishStep, FinishLate, FinishCancel, WaitApproval
      <3>2. pc[f] = "steps" => pc' = [pc EXCEPT ![f] = "fail"]
        BY <3>1 DEF WaitRaises
      <3>3. pc[f] # "steps" => pc' = pc
        BY <3>1 DEF WaitRaises, TypeOK
      <3> QED BY <2>3, <3>2, <3>3 DEF Pcs
    <2>4. CASE ReplanTransientFailures(f) \/ ReplanMissingEvidence(f)
      BY <2>4 DEF ReplanTransientFailures, TransientNothing, TransientCancel, TransientRetry,
                  ReplanMissingEvidence, MissingNothing, MissingCancel, MissingReplan, MoveOn,
                  Goto, Pcs
    <2>5. CASE Respond(f) \/ Fail(f) \/ FailNothing(f)
      BY <2>5 DEF Respond, RespondNothing, RespondCancel, RespondRaises, RespondReplan,
                  RespondInvestigate, RespondComplete, Fail, FailNothing, MoveOn, Goto, Pcs
    <2> QED BY <1>3, <2>1, <2>2, <2>3, <2>4, <2>5 DEF Execute
  <1>4. ASSUME NEW f \in Executors, Claim(f) PROVE Claim(e)
    BY <1>4 DEF Claim, TypeOK
  <1>5. ~(ClaimTimeout \/ People \/ Tick)
    BY <1>2 DEF ClaimTimeout, People, Approve, Reject, ExpireApproval, Answer, Tick,
                ExpireClarification, CancelRun, RequestChildCancel, CancelChild
  <1>6. ASSUME NEW f \in Executors, Dies(f) PROVE FALSE
    BY <1>6 DEF Dies, TypeOK
  <1> QED
    BY <1>1, <1>2, <1>3, <1>4, <1>5, <1>6 DEF Next, Worker, Crashes, Crash, CrashInCall

\* What has disturbed a Run stays on record.
LEMMA DisturbedStays == ASSUME TypeOK, [Next]_vars, Undisturbed' PROVE Undisturbed
  <1>1. rounds = 0
    <2>1. rounds' = 0 /\ rounds \in Nat
      BY BudgetAssumption DEF Undisturbed, TypeOK
    <2>2. CASE Keeps \/ Releases
      BY <2>1, <2>2 DEF Keeps, Releases
    <2>3. CASE ~(Keeps \/ Releases)
      BY <2>1, <2>3, RowStep DEF Claim, Tick, Answer, Approve
    <2> QED BY <2>2, <2>3
  <1>2. \A i \in DOMAIN approvals : approvals[i].status = "APPROVED" =>
            i \in DOMAIN approvals' /\ approvals'[i].status = "APPROVED"
    <2> SUFFICES ASSUME NEW i \in DOMAIN approvals, approvals[i].status = "APPROVED"
                 PROVE  i \in DOMAIN approvals' /\ approvals'[i].status = "APPROVED"
      OBVIOUS
    <2>0. approvals[i] \in Approval
      BY DEF TypeOK
    <2>1. CASE approvals' = approvals
      BY <2>1
    <2>2. ASSUME NEW e \in Executors, NEW c \in Caps, GatewayAsks(e, c)
          PROVE  i \in DOMAIN approvals' /\ approvals'[i].status = "APPROVED"
      <3>1. NewApproval(c) \in Approval
        BY TimeAssumption DEF NewApproval, Approval
      <3> QED BY <2>2, <3>1 DEF GatewayAsks, TypeOK
    <2>3. ASSUME NEW c \in Caps, ConsumeApproval(c)
          PROVE  i \in DOMAIN approvals' /\ approvals'[i].status = "APPROVED"
      BY <2>0, <2>3 DEF ConsumeApproval, TypeOK, Approval
    <2>4. ASSUME NEW j \in DOMAIN approvals, Approve(j) \/ Reject(j) \/ ExpireApproval(j)
          PROVE  i \in DOMAIN approvals' /\ approvals'[i].status = "APPROVED"
      <3>1. i # j
        BY <2>4 DEF Approve, Reject, ExpireApproval, PendingApproval
      <3> QED BY <2>4, <3>1 DEF Approve, Reject, ExpireApproval, TypeOK
    <2>5. CASE Tick
      BY <2>0, <2>5 DEF Tick, TypeOK, Approval
    <2>6. ASSUME NEW e \in Executors, Execute(e)
          PROVE  \/ approvals' = approvals
                 \/ \E c \in Caps : GatewayAsks(e, c) \/ ConsumeApproval(c)
      BY <2>6 DEF Execute, Prepare, PrepareNothing, PrepareCancel, PrepareRaises,
                  PrepareClarify, PreparePlan, ExecuteSteps, StepsReturn, StepsCancel,
                  StepsRaise, StepsSkip, StepsDone, StepsDispatch, InvokeStep,
                  GatewayRefuses, GatewayLimits, GatewayCalls, FinishStep, FinishLate,
                  FinishCancel, WaitApproval, WaitRaises, ReplanTransientFailures,
                  TransientNothing, TransientCancel, TransientRetry, ReplanMissingEvidence,
                  MissingNothing, MissingCancel, MissingReplan, Respond, RespondNothing,
                  RespondCancel, RespondRaises, RespondReplan, RespondInvestigate,
                  RespondComplete, Fail, FailNothing, MoveOn, Cancel
    <2>7. CASE Worker
      BY <2>1, <2>2, <2>3, <2>6, <2>7 DEF Worker, ClaimTimeout, Claim
    <2>8. CASE People
      BY <2>1, <2>4, <2>8 DEF People, Answer, ExpireClarification, CancelRun,
                              RequestChildCancel, CancelChild
    <2>9. CASE Crashes
      BY <2>1, <2>9 DEF Crashes, Crash, CrashInCall, Dies
    <2> QED BY <2>1, <2>5, <2>7, <2>8, <2>9 DEF Next
  <1> QED BY <1>1, <1>2 DEF Undisturbed

\* An undisturbed Run that is RUNNING keeps its lease.
LEMMA LeaseHeldStep ==
    ASSUME TypeOK, PendingFresh, LeaseHeld, [Next]_vars PROVE LeaseHeld'
  <1>1. status' = "WAITING_USER" => rounds' # 0
    <2>1. rounds \in Nat
      BY BudgetAssumption DEF TypeOK
    <2>3. CASE Releases
      BY <2>1, <2>3 DEF Releases
    <2>4. CASE Keeps
      BY <2>4 DEF Keeps, LeaseHeld
    <2>5. CASE Tick
      BY <2>5 DEF Tick, LeaseHeld
    <2>6. ASSUME NEW i \in DOMAIN approvals, Approve(i)
          PROVE  status' = "WAITING_USER" => rounds' # 0
      <3>1. rounds' = rounds
        BY <2>6 DEF Approve
      <3>2. status' = status \/ status' = "RUNNING"
        BY <2>6 DEF Approve, Resume
      <3> QED BY <3>1, <3>2 DEF LeaseHeld
    <2> QED BY <2>3, <2>4, <2>5, <2>6, RowStep DEF Claim, Answer
  <1>2. ASSUME Undisturbed', status' = "RUNNING" PROVE lease' # None
    <2>1. Undisturbed
      BY <1>2, DisturbedStays
    <2>2. CASE Keeps \/ Releases
      BY <1>2, <2>1, <2>2 DEF Keeps, Releases, LeaseHeld
    <2>3. ASSUME NEW e \in Executors, Claim(e) PROVE lease' # None
      BY <2>3, TimeAssumption DEF Claim, LeaseSpan, None
    <2>4. CASE Tick
      BY <1>2, <2>1, <2>4 DEF Tick, Sooner, LeaseHeld, None, TypeOK
    <2>5. ~Answer
      BY <2>1 DEF Answer, LeaseHeld, Undisturbed
    <2>6. ASSUME NEW i \in DOMAIN approvals, Approve(i) PROVE FALSE
      BY <1>2, <2>6 DEF Approve, Undisturbed, TypeOK
    <2> QED BY <2>2, <2>3, <2>4, <2>5, <2>6, RowStep
  <1> QED BY <1>1, <1>2 DEF LeaseHeld

\* No claim meets a busy executor while the Run is undisturbed.
LEMMA SoleExecutorStep ==
    ASSUME TypeOK, PendingFresh, LeaseInv, [Next]_vars PROVE SoleExecutor'
  <1> SUFFICES ASSUME Undisturbed', NEW e \in Executors, NEW f \in Executors,
                      Busy(e)', Busy(f)', e # f
               PROVE  FALSE
    BY DEF SoleExecutor
  <1>1. Undisturbed
    BY DisturbedStays
  <1>2. ASSUME NEW g \in Executors, Claim(g)
        PROVE  \A h \in Executors : ~Busy(h)
    <2>1. lease = None
      BY <1>2, NoClaimOnExpiry DEF LeaseInv
    <2>2. status = "PENDING"
      BY <1>1, <1>2, <2>1 DEF LeaseInv, LeaseHeld, Claim, Claimable
    <2> QED BY <2>2 DEF PendingFresh
  <1>3. CASE Busy(e) /\ Busy(f)
    BY <1>1, <1>3 DEF LeaseInv, SoleExecutor
  <1>4. CASE ~Busy(e)
    <2>1. Claim(e) /\ ~Busy(f)
      BY <1>2, <1>4, BusyStep
    <2>2. Claim(f)
      BY <2>1, BusyStep
    <2> QED BY <2>1, <2>2 DEF Claim, TypeOK
  <1>5. CASE ~Busy(f)
    <2>1. Claim(f) /\ ~Busy(e)
      BY <1>2, <1>5, BusyStep
    <2>2. Claim(e)
      BY <2>1, BusyStep
    <2> QED BY <2>1, <2>2 DEF Claim, TypeOK
  <1> QED BY <1>3, <1>4, <1>5

\* The inductive invariant of the lease: it outlives the deadline, the deadline is kept,
\* an undisturbed RUNNING Run holds it, hence there is one executor.
LEMMA LeaseInvariant == Spec => []LeaseInv
  <1>1. Init => LeaseInv
    <2> SUFFICES ASSUME Init PROVE LeaseInv
      OBVIOUS
    <2>1. LeaseOutlivesDeadline /\ DeadlineKept
      BY TimeAssumption DEF Init, LeaseOutlivesDeadline, DeadlineKept, None
    <2>2. LeaseHeld /\ SoleExecutor
      BY DEF Init, LeaseHeld, SoleExecutor, Busy, NoJobs
    <2> QED BY <2>1, <2>2 DEF LeaseInv
  <1>2. TypeOK /\ PendingFresh /\ LeaseInv /\ [Next]_vars => LeaseInv'
    BY LeaseStep, DeadlineStep, LeaseHeldStep, SoleExecutorStep DEF LeaseInv
  <1> QED BY <1>1, <1>2, TypeCorrect, Untouched, PTL DEF Spec

\* The lease of RunWorker._claim keeps a Run to one executor until an approval or an
\* answer releases it, whatever crashes, timeouts and cancellations do.
THEOREM OneExecutor == Spec => []SoleExecutor
  <1>1. LeaseInv => SoleExecutor
    BY DEF LeaseInv
  <1> QED BY <1>1, LeaseInvariant, PTL

\* Recovery from an expired lease never executes the Run again: _claim finds the
\* deadline passed and fails it.
THEOREM ExpiredLeaseNeverResumes == Spec => NoTakeover
  <1>1. ASSUME TypeOK, LeaseInv, [Next]_vars
        PROVE  [\A e \in Executors : pc[e] = "idle" /\ pc'[e] = "prepare" => lease # 0]_vars
    <2> SUFFICES ASSUME NEW e \in Executors, pc[e] = "idle", pc'[e] = "prepare"
                 PROVE  lease # 0
      OBVIOUS
    <2>1. CASE Claim(e)
      BY <1>1, <2>1, NoClaimOnExpiry DEF LeaseInv, None
    <2> QED BY <1>1, <2>1, PrepareStep
  <1> QED BY <1>1, TypeCorrect, LeaseInvariant, PTL DEF NoTakeover, Spec
=============================================================================
