--------------------------- MODULE RunCallsProofs ---------------------------
(***************************************************************************)
(* Theorems about what the executors of a Run do with its plan, for every  *)
(* value of the constants of RunLifecycle: the plan never deadlocks and is *)
(* honoured, an answer is grounded, an approval is spent once, and the     *)
(* calls of a capability are bounded.                                      *)
(***************************************************************************)
EXTENDS RunLifecycleProofs, WellFoundedInduction

USE DEF vars, runVars, planVars, askVars, userVars, execVars, trace

\* The steps of a Run fill the positions from 1 on.
Segment == \E n \in 0..MaxCaps : \A c \in Caps : step[c] # "ABSENT" <=> c <= n

\* Whoever executes: without a plan there is nothing but what the attachments say, a step
\* depends only on earlier ones, and a job belongs to a step.
PlanInv ==
    /\ ~planned => /\ \A c \in Caps : step[c] = "ABSENT"
                   /\ evidence \subseteq {Attachment}
                   /\ \A e \in Executors : NoJobs(e)
    /\ Segment
    /\ \A c \in Caps : \A d \in deps[c] : d < c
    /\ \A e \in Executors, c \in Caps : job[e][c] # "none" => step[c] # "ABSENT"

\* A call that answered has left its evidence, and so has every step it completed.  A Run
\* has evidence and no plan only once a question was put.
GroundInv ==
    /\ \A e \in Executors, c \in Caps : job[e][c] = "ok" => c \in evidence
    /\ \A c \in Caps : step[c] = "COMPLETED" => c \in evidence
    /\ ~planned /\ evidence # {} => rounds > 0
    /\ status = "COMPLETED" => evidence # {} \/ (planned /\ Present = {})

\* The approval a step may use was granted for this step.
ApprovalInv ==
    /\ \A c \in Caps : lastApproved[c] # 0 =>
          /\ approvals[lastApproved[c]].status = "APPROVED"
          /\ approvals[lastApproved[c]].step = c
    /\ ApprovalSingleUse

\* What one executor alone keeps of the plan
WaveInv ==
    /\ \A e \in Executors, c \in Caps : job[e][c] # "none" =>
          /\ step[c] \in {"RUNNING", "CANCELLED"}
          /\ status \notin Terminal =>
                /\ step[c] = "RUNNING" /\ pc[e] = "steps"
                /\ \A d \in deps[c] : step[d] = "COMPLETED"
    /\ \A e \in Executors : Busy(e) /\ status \notin Terminal =>
          /\ \A c \in Caps : step[c] = "RUNNING" => job[e][c] # "none"
          /\ pc[e] \in {"transient", "missing", "respond"} =>
                \A c \in Caps : step[c] \notin Active
    /\ status = "COMPLETED" => OpenSteps = {} /\ \A e \in Executors : NoJobs(e)

Calls(c) == invocations[c] + lost[c]
Allowed(c) == IF c \in ReadOnly THEN 1 + retries[c] ELSE 1

\* A step that has not been dispatched, or whose call is about to be made, has a call left.
CallsInv ==
    /\ \A e \in Executors, c \in Caps : job[e][c] = "ask" => c \in AskSteps
    /\ \A c \in Caps :
          /\ c \in AskSteps => Calls(c) = 0
          /\ step[c] = "WAITING_APPROVAL" => c \in AskSteps
          /\ Calls(c) <= Allowed(c)
          /\ step[c] \in {"ABSENT", "PENDING", "SKIPPED"} => Calls(c) < Allowed(c)
          /\ \A e \in Executors : job[e][c] = "invoke" => Calls(c) < Allowed(c)

AloneInv == Undisturbed => WaveInv /\ CallsInv
-----------------------------------------------------------------------------
(***************************************************************************)
(* What a step may do to the plan and to the jobs in flight.               *)
(***************************************************************************)
\* Jobs only end.
Drops == \A e \in Executors, c \in Caps : job'[e][c] \in {job[e][c], "none"}

\* A preparation that ends in a question may bring the evidence of the attachments.
Asked ==
    /\ evidence \subseteq evidence' /\ evidence' \subseteq evidence \cup {Attachment}
    /\ rounds' = rounds + 1

\* The plan stays as it is.
Still ==
    /\ UNCHANGED <<planned, step, deps, retries, invocations, lost>> /\ Drops
    /\ UNCHANGED <<evidence, rounds>> \/ Asked

\* The Run is cancelled, and its open steps with it.
Closes ==
    /\ step' = [c \in Caps |-> CancelActive(step[c])]
    /\ status' = "CANCELLED"
    /\ UNCHANGED <<planned, deps, retries, evidence, rounds, invocations, lost>>
    /\ Drops

\* A replan appends steps.
Grows ==
    /\ \E n \in 1..MaxCaps : CanGrow(n) /\ AppendSteps(n)
    /\ UNCHANGED <<status, planned, retries, evidence, rounds, invocations, lost, job>>

Gateway(e, c) ==
    GatewayAsks(e, c) \/ GatewayRefuses(e, c) \/ GatewayLimits(e, c) \/ GatewayCalls(e, c)

\* Every step of the specification is of one of these kinds.
PlanKinds ==
    \/ Still \/ Closes \/ Grows
    \/ \E e \in Executors :
          PreparePlan(e) \/ StepsSkip(e) \/ StepsDispatch(e) \/ TransientRetry(e)
    \/ \E e \in Executors, c \in Caps :
          Gateway(e, c) \/ FinishStep(e, c) \/ WaitApproval(e, c) \/ CrashInCall(e, c)

\* A job that ends leaves the others alone.
LEMMA SetJobDrops ==
    ASSUME TypeOK, NEW e \in Executors, NEW c \in Caps, SetJob(e, c, "none") PROVE Drops
BY DEF SetJob, Drops, TypeOK

\* The end of an executor ends its jobs and no others.
LEMMA DiesDrops == ASSUME TypeOK, NEW e \in Executors, Dies(e) PROVE Drops
BY DEF Dies, Drops, TypeOK

\* The kinds of what an executor does.
LEMMA ExecuteKinds == ASSUME TypeOK, NEW e \in Executors, Execute(e) PROVE PlanKinds
  <1>0. job' = job => Drops
    BY DEF Drops
  <1>1. CASE Prepare(e)
    <2>1. CASE PrepareNothing(e) \/ PrepareRaises(e) \/ PrepareClarify(e)
      BY <1>0, <2>1 DEF PrepareNothing, PrepareRaises, PrepareClarify, Ingest, MoveOn, Goto, Still,
                        Asked, PlanKinds
    <2>2. CASE PrepareCancel(e)
      BY <1>0, <2>2 DEF PrepareCancel, Cancel, CancelSteps, Emit, Goto, Closes, PlanKinds
    <2> QED BY <1>1, <2>1, <2>2 DEF Prepare, PlanKinds
  <1>2. CASE ExecuteSteps(e)
    <2>1. CASE StepsReturn(e) \/ StepsRaise(e) \/ StepsDone(e)
      BY <1>0, <2>1 DEF StepsReturn, StepsRaise, StepsDone, MoveOn, Goto, Still, PlanKinds
    <2>2. CASE StepsCancel(e)
      BY <1>0, <2>2 DEF StepsCancel, Cancel, CancelSteps, Emit, Goto, Closes, PlanKinds
    <2> QED BY <1>2, <2>1, <2>2 DEF ExecuteSteps, PlanKinds
  <1>3. ASSUME NEW c \in Caps, InvokeStep(e, c) PROVE PlanKinds
    <2>1. CASE FinishLate(e, c) \/ WaitRaises(e, c)
      BY <2>1, SetJobDrops DEF FinishLate, WaitRaises, Still, PlanKinds
    <2>2. CASE FinishCancel(e, c)
      BY <2>2, SetJobDrops DEF FinishCancel, Cancel, CancelSteps, Emit, Closes, PlanKinds
    <2> QED BY <1>3, <2>1, <2>2 DEF InvokeStep, Gateway, PlanKinds
  <1>4. CASE ReplanTransientFailures(e) \/ ReplanMissingEvidence(e)
    <2>1. CASE TransientNothing(e) \/ MissingNothing(e)
      BY <1>0, <2>1 DEF TransientNothing, MissingNothing, MoveOn, Goto, Still, PlanKinds
    <2>2. CASE TransientCancel(e) \/ MissingCancel(e)
      BY <1>0, <2>2
         DEF TransientCancel, MissingCancel, Cancel, CancelSteps, Emit, Goto, Closes, PlanKinds
    <2>3. CASE MissingReplan(e)
      BY <2>3 DEF MissingReplan, GapReplan, Goto, Grows, PlanKinds
    <2> QED BY <1>4, <2>1, <2>2, <2>3 DEF ReplanTransientFailures, ReplanMissingEvidence, PlanKinds
  <1>5. CASE Respond(e) \/ Fail(e) \/ FailNothing(e)
    <2>1. CASE RespondNothing(e) \/ RespondRaises(e) \/ RespondComplete(e) \/ Fail(e) \/ FailNothing(e)
      BY <1>0, <2>1 DEF RespondNothing, RespondRaises, RespondComplete, Fail, FailNothing, MoveOn,
                        Goto, Emit, Still, PlanKinds
    <2>2. CASE RespondCancel(e)
      BY <1>0, <2>2 DEF RespondCancel, Cancel, CancelSteps, Emit, Goto, Closes, PlanKinds
    <2>3. CASE RespondReplan(e)
      BY <2>3 DEF RespondReplan, GapReplan, Goto, Grows, PlanKinds
    <2>4. CASE RespondInvestigate(e)
      <3>1. 1 \in 1..MaxCaps
        <4>1. Cardinality(Present) \in Nat /\ Cardinality(Present) + 1 <= MaxCaps
          <5>1. CanGrow(1)
            BY <2>4 DEF RespondInvestigate
          <5>2. IsFiniteSet(Present)
            BY CapsFinite, FS_Subset DEF Present
          <5> QED BY <5>1, <5>2, FS_CardinalityType DEF CanGrow
        <4> QED BY <4>1, CapsAssumption
      <3> QED BY <2>4, <3>1 DEF RespondInvestigate, Goto, Grows, PlanKinds
    <2> QED BY <1>5, <2>1, <2>2, <2>3, <2>4 DEF Respond
  <1> QED BY <1>1, <1>2, <1>3, <1>4, <1>5 DEF Execute

\* The kinds of every step.
LEMMA StepKinds == ASSUME TypeOK, [Next]_vars PROVE PlanKinds
  <1>0. job' = job => Drops
    BY DEF Drops
  <1>1. CASE UNCHANGED vars
    BY <1>0, <1>1 DEF Still, PlanKinds
  <1>2. CASE Worker
    <2>1. CASE ClaimTimeout
      BY <1>0, <2>1 DEF ClaimTimeout, Emit, Still, PlanKinds
    <2>2. ASSUME NEW e \in Executors, Claim(e) PROVE PlanKinds
      BY <1>0, <2>2 DEF Claim, Still, PlanKinds
    <2> QED BY <1>2, <2>1, <2>2, ExecuteKinds DEF Worker
  <1>3. CASE People
    <2>1. CASE CancelRun
      BY <1>0, <2>1 DEF CancelRun, CancelSteps, Emit, Closes, PlanKinds
    <2>2. ASSUME NEW i \in DOMAIN approvals, Approve(i) \/ Reject(i) \/ ExpireApproval(i)
          PROVE  PlanKinds
      BY <1>0, <2>2 DEF Approve, Reject, ExpireApproval, Still, PlanKinds
    <2>3. CASE Answer \/ ExpireClarification \/ RequestChildCancel \/ CancelChild
      BY <1>0, <2>3 DEF Answer, ExpireClarification, RequestChildCancel, CancelChild, Emit, Still,
                        PlanKinds
    <2> QED BY <1>3, <2>1, <2>2, <2>3 DEF People
  <1>4. CASE Tick
    BY <1>0, <1>4 DEF Tick, Still, PlanKinds
  <1>5. ASSUME NEW e \in Executors, Crash(e) PROVE PlanKinds
    BY <1>5, DiesDrops DEF Crash, Dies, Still, PlanKinds
  <1>6. ASSUME NEW e \in Executors, NEW c \in Caps, CrashInCall(e, c) PROVE PlanKinds
    BY <1>6 DEF PlanKinds
  <1> QED BY <1>1, <1>2, <1>3, <1>4, <1>5, <1>6 DEF Next, Crashes

-----------------------------------------------------------------------------
(***************************************************************************)
(* The plan, whoever executes it.                                          *)
(***************************************************************************)
\* A nonempty set of numbers has a least one.
LEMMA LeastNumber ==
    ASSUME NEW T, T \subseteq Nat, T # {} PROVE \E x \in T : \A y \in T : x <= y
  <1>1. PICK R : IsWellFoundedOn(R, Nat) /\ \A x, y \in Nat : y < x => <<y, x>> \in R
    <2> DEFINE R == OpToRel(<, Nat)
    <2>1. IsWellFoundedOn(R, Nat)
      BY NatLessThanWellFounded, Zenon
    <2>2. \A x, y \in Nat : y < x => <<y, x>> \in R
      BY DEF OpToRel
    <2> HIDE DEF R
    <2> QED BY <2>1, <2>2
  <1>2. PICK x \in T : \A y \in T : ~(<<y, x>> \in R)
    BY <1>1, WFMin
  <1>3. \A y \in T : ~(y < x)
    BY <1>1, <1>2
  <1>4. \A y \in T : x \in Nat /\ y \in Nat
    OBVIOUS
  <1> QED BY <1>3, <1>4

\* The steps fill the positions up to their number.
LEMMA PresentSegment ==
    ASSUME TypeOK, Segment
    PROVE  /\ Cardinality(Present) \in 0..MaxCaps
           /\ \A c \in Caps : step[c] # "ABSENT" <=> c <= Cardinality(Present)
  <1>1. PICK n \in 0..MaxCaps : \A c \in Caps : step[c] # "ABSENT" <=> c <= n
    BY DEF Segment
  <1>2. Present = 1..n
    BY <1>1, CapsAssumption DEF Present, Caps
  <1>3. Cardinality(1..n) = n
    <2>1. n \in Nat /\ 1 \in Int /\ n \in Int
      BY <1>1, CapsAssumption
    <2>2. Cardinality(1..n) = IF 1 > n THEN 0 ELSE n - 1 + 1
      BY <2>1, FS_Interval
    <2> QED BY <2>1, <2>2
  <1> QED BY <1>1, <1>2, <1>3

\* A replan appends behind the last step, and what it appends depends on earlier steps.
LEMMA GrownFresh ==
    ASSUME TypeOK, Segment, NEW n \in 1..MaxCaps, CanGrow(n)
    PROVE  /\ \A c \in Grown(n) \cap Caps : step[c] = "ABSENT"
           /\ \A c \in Grown(n), d \in LastComplete : d < c
           /\ \A c \in Caps : (step[c] # "ABSENT" \/ c \in Grown(n))
                                <=> c <= Cardinality(Present) + n
           /\ Cardinality(Present) + n \in 0..MaxCaps
  <1> DEFINE k == Cardinality(Present)
  <1>1. k \in Nat /\ MaxCaps \in Nat /\ n \in Nat /\ k + n <= MaxCaps
    <2>1. k \in 0..MaxCaps
      BY PresentSegment
    <2> QED BY <2>1, CapsAssumption DEF CanGrow
  <1>2. \A c \in Caps : step[c] # "ABSENT" <=> c <= k
    BY PresentSegment
  <1>3. Grown(n) = (k + 1)..(k + n)
    BY DEF Grown
  <1>4. \A d \in LastComplete : d \in Caps /\ step[d] # "ABSENT"
    BY DEF LastComplete
  <1> HIDE DEF k
  <1>5. \A d \in LastComplete : d \in Nat /\ d <= k
    BY <1>2, <1>4, CapsAssumption DEF Caps
  <1>6. \A c \in Grown(n) \cap Caps : step[c] = "ABSENT"
    BY <1>1, <1>2, <1>3 DEF Caps
  <1>7. \A c \in Grown(n), d \in LastComplete : d < c
    BY <1>1, <1>3, <1>5
  <1>8. \A c \in Caps : (step[c] # "ABSENT" \/ c \in Grown(n)) <=> c <= k + n
    BY <1>1, <1>2, <1>3, CapsAssumption DEF Caps
  <1>9. k + n \in 0..MaxCaps
    BY <1>1
  <1> QED BY <1>6, <1>7, <1>8, <1>9 DEF k

\* Only the steps that are retried and steps that were skipped revive.
LEMMA RevivalBound ==
    ASSUME TypeOK, NEW R \in SUBSET Caps, NEW c \in Revival(R)
    PROVE  c \in R \/ step[c] = "SKIPPED"
  <1> DEFINE S == R \cup {d \in Caps : step[d] = "SKIPPED"}
  <1>1. S \in SUBSET Caps /\ R \subseteq S
    OBVIOUS
  <1>2. \A d \in Caps : Revives(d, S) => d \in S
    BY DEF Revives
  <1>3. c \in S
    BY <1>1, <1>2 DEF Revival
  <1> QED BY <1>3

\* A retry reopens only steps that failed or were skipped.
LEMMA RetryReopens ==
    ASSUME TypeOK, NEW c \in Revival(RetrySet)
    PROVE  /\ c \in Caps /\ step[c] \in {"FAILED", "SKIPPED"}
           /\ step[c] = "FAILED" => c \in RetrySet
  <1>1. RetrySet \in SUBSET Caps
    BY PlanAssumption DEF RetrySet
  <1>2. c \in RetrySet \/ step[c] = "SKIPPED"
    BY <1>1, RevivalBound
  <1>3. c \in Caps
    BY DEF Revival
  <1> QED BY <1>2, <1>3 DEF RetrySet

\* No step comes or goes: the segment stays.
LEMMA SameSegment ==
    ASSUME Segment, \A c \in Caps : step'[c] = "ABSENT" <=> step[c] = "ABSENT" PROVE Segment'
BY DEF Segment

\* A queued Run has no plan.
LEMMA PlanInit == Init => PlanInv
  <1> SUFFICES ASSUME Init PROVE PlanInv
    OBVIOUS
  <1>1. Segment
    <2>1. 0 \in 0..MaxCaps /\ \A c \in Caps : ~(c <= 0)
      BY CapsAssumption DEF Caps
    <2> QED BY <2>1 DEF Init, Segment
  <1>2. \A c \in Caps : \A d \in deps[c] : d < c
    BY PlanIsDag DEF Init
  <1> QED BY <1>1, <1>2 DEF Init, PlanInv, NoJobs

\* Whatever happens keeps the shape of the plan.
LEMMA PlanStep == ASSUME TypeOK, PlanInv, [Next]_vars PROVE PlanInv'
  <1>1. CASE Still
    BY <1>1, SameSegment DEF Still, Asked, Drops, PlanInv, NoJobs
  <1>2. CASE Closes
    <2>1. \A c \in Caps : step'[c] = "ABSENT" <=> step[c] = "ABSENT"
      BY <1>2 DEF Closes, CancelActive, Active
    <2> QED BY <1>2, <2>1, SameSegment DEF Closes, Drops, PlanInv, NoJobs
  <1>3. CASE Grows
    <2>1. PICK n \in 1..MaxCaps : CanGrow(n) /\ AppendSteps(n)
      BY <1>3 DEF Grows
    <2>2. planned' /\ job' = job
      BY <1>3, <2>1 DEF Grows, CanGrow
    <2>3. \A c \in Caps : step'[c] # "ABSENT" <=> (step[c] # "ABSENT" \/ c \in Grown(n))
      BY <2>1 DEF AppendSteps
    <2>4. Segment'
      BY <2>1, <2>3, GrownFresh DEF PlanInv, Segment
    <2>5. \A c \in Caps : deps'[c] = IF c \in Grown(n) THEN LastComplete ELSE deps[c]
      BY <2>1 DEF AppendSteps
    <2>6. \A c \in Caps : \A d \in deps'[c] : d < c
      BY <2>1, <2>5, GrownFresh DEF PlanInv
    <2> QED BY <2>2, <2>3, <2>4, <2>6 DEF PlanInv
  <1>4. ASSUME NEW e \in Executors, PreparePlan(e) PROVE PlanInv'
    <2>1. planned' /\ UNCHANGED <<deps, job>> /\ \A f \in Executors : NoJobs(f)
      BY <1>4 DEF PreparePlan, Goto, PlanInv
    <2>2. Segment'
      BY <1>4, CapsAssumption DEF PreparePlan, Segment
    <2> QED BY <2>1, <2>2 DEF PlanInv, NoJobs
  <1>5. ASSUME NEW e \in Executors, StepsSkip(e) PROVE PlanInv'
    <2>1. \A c \in Caps : step'[c] = "ABSENT" <=> step[c] = "ABSENT"
      BY <1>5 DEF StepsSkip, BlockedCaps, Active
    <2> QED BY <1>5, <2>1, SameSegment DEF StepsSkip, PlanInv, NoJobs
  <1>6. ASSUME NEW e \in Executors, StepsDispatch(e) PROVE PlanInv'
    <2>1. \A c \in Caps : step'[c] = "ABSENT" <=> step[c] = "ABSENT"
      BY <1>6 DEF StepsDispatch, Ready, Runnable, Active
    <2>2. UNCHANGED <<planned, deps>> /\ planned
      BY <1>6 DEF StepsDispatch, Ready, Runnable, Active, PlanInv
    <2>3. \A f \in Executors, c \in Caps : job'[f][c] # "none" => step'[c] # "ABSENT"
      BY <1>6, <2>1 DEF StepsDispatch, Ready, Runnable, Active, PlanInv, TypeOK
    <2> QED BY <2>1, <2>2, <2>3, SameSegment DEF PlanInv
  <1>7. ASSUME NEW e \in Executors, TransientRetry(e) PROVE PlanInv'
    <2>1. \A c \in Caps : step'[c] = IF c \in Revival(RetrySet) THEN "PENDING" ELSE step[c]
      BY <1>7 DEF TransientRetry
    <2>2. \A c \in Caps : step'[c] = "ABSENT" <=> step[c] = "ABSENT"
      BY <2>1, RetryReopens
    <2>3. UNCHANGED <<planned, deps, job>> /\ planned
      BY <1>7, PlanAssumption DEF TransientRetry, Goto, RetrySet, PlanInv
    <2> QED BY <2>2, <2>3, SameSegment DEF PlanInv
  <1>8. ASSUME NEW e \in Executors, NEW c \in Caps, job[e][c] # "none",
               NEW p \in Jobs, SetJob(e, c, p), UNCHANGED <<planned, deps>>,
               \A d \in Caps : step'[d] = "ABSENT" <=> step[d] = "ABSENT"
        PROVE  PlanInv'
    <2>1. planned'
      BY <1>8 DEF PlanInv, NoJobs
    <2>2. \A f \in Executors, d \in Caps : job'[f][d] # "none" => step'[d] # "ABSENT"
      BY SMTT(30), <1>8 DEF SetJob, PlanInv, TypeOK
    <2> QED BY <1>8, <2>1, <2>2, SameSegment DEF PlanInv
  <1>9. ASSUME NEW e \in Executors, NEW c \in Caps, Gateway(e, c) PROVE PlanInv'
    <2>1. /\ job[e][c] # "none" /\ \E p \in Jobs : SetJob(e, c, p)
          /\ UNCHANGED <<planned, deps, step>>
      BY <1>9 DEF Gateway, GatewayAsks, GatewayRefuses, GatewayLimits, GatewayCalls, MayCall, Jobs
    <2> QED BY <1>8, <2>1
  <1>10. ASSUME NEW e \in Executors, NEW c \in Caps, FinishStep(e, c) \/ WaitApproval(e, c)
         PROVE  PlanInv'
    <2>1. /\ job[e][c] # "none" /\ SetJob(e, c, "none") /\ "none" \in Jobs
          /\ UNCHANGED <<planned, deps>>
      BY <1>10 DEF FinishStep, HasResult, WaitApproval, Jobs
    <2>2. \A d \in Caps : step'[d] = "ABSENT" <=> step[d] = "ABSENT"
      <3>1. step[c] # "ABSENT"
        BY <2>1 DEF PlanInv
      <3> QED BY <1>10, <3>1 DEF FinishStep, WaitApproval, TypeOK
    <2> QED BY <1>8, <2>1, <2>2
  <1>11. ASSUME NEW e \in Executors, NEW c \in Caps, CrashInCall(e, c) PROVE PlanInv'
    <2>1. Drops /\ UNCHANGED <<planned, deps, step, evidence>>
      BY <1>11, DiesDrops DEF CrashInCall, Dies
    <2> QED BY <2>1, SameSegment DEF Drops, PlanInv, NoJobs
  <1> QED BY <1>1, <1>2, <1>3, <1>4, <1>5, <1>6, <1>7, <1>9, <1>10, <1>11, StepKinds DEF PlanKinds

\* The plan of a Run keeps its shape under every interleaving of its executors.
LEMMA PlanShape == Spec => []PlanInv
  <1>1. TypeOK /\ PlanInv /\ [Next]_vars => PlanInv'
    BY PlanStep
  <1> QED BY PlanInit, <1>1, TypeCorrect, PTL DEF Spec

\* plan_dependency_deadlock: the earliest step that could still run has its dependencies
\* complete, so it is ready.
LEMMA NoDeadlock == ASSUME TypeOK, PlanInv PROVE ~Deadlocked
  <1> SUFFICES ASSUME Deadlocked PROVE FALSE
    OBVIOUS
  <1> DEFINE T == {c \in Caps : Runnable(c)}
  <1>1. T \subseteq Nat /\ T # {}
    BY CapsAssumption DEF Caps, Deadlocked
  <1>2. PICK c \in T : \A d \in T : c <= d
    BY <1>1, LeastNumber
  <1>3. \A d \in deps[c] : step[d] = "COMPLETED"
    <2> TAKE d \in deps[c]
    <2>1. c \in Caps /\ d \in Caps /\ d < c /\ c \in Nat /\ d \in Nat
      <3>1. c \in Caps /\ d \in Caps
        BY DEF TypeOK
      <3> QED BY <3>1, CapsAssumption DEF PlanInv, Caps
    <2>2. step[d] # "ABSENT"
      <3>1. step[c] # "ABSENT"
        BY DEF Runnable, Active
      <3> QED BY <2>1, <3>1, PresentSegment DEF PlanInv
    <2>3. step[d] \notin Blocking
      BY <2>1 DEF Runnable, BlockedCaps
    <2>4. step[d] \notin Active
      BY <1>2, <2>1 DEF Runnable, Deadlocked
    <2> QED BY <2>1, <2>2, <2>3, <2>4 DEF TypeOK, StepStatus
  <1> QED BY <1>3 DEF Deadlocked, Ready
-----------------------------------------------------------------------------
(***************************************************************************)
(* Answers.                                                                *)
(***************************************************************************)
\* Only _respond completes a Run.
LEMMA CompletesStep ==
    ASSUME TypeOK, [Next]_vars, status' = "COMPLETED", status # "COMPLETED"
    PROVE  \E e \in Executors : RespondComplete(e)
  <1>1. ASSUME NEW e \in Executors, Execute(e) PROVE RespondComplete(e)
    <2>1. ~Cancel
      BY DEF Cancel
    <2>2. UNCHANGED status => FALSE
      OBVIOUS
    <2>3. ~Prepare(e) /\ ~ExecuteSteps(e)
      BY <2>1, <2>2
         DEF Prepare, PrepareNothing, PrepareCancel, PrepareRaises, PrepareClarify, PreparePlan,
             ExecuteSteps, StepsReturn, StepsCancel, StepsRaise, StepsSkip, StepsDone,
             StepsDispatch, MoveOn
    <2>4. \A c \in Caps : ~InvokeStep(e, c)
      BY <2>1, <2>2
         DEF InvokeStep, GatewayAsks, GatewayRefuses, GatewayLimits, GatewayCalls, FinishStep,
             FinishLate, FinishCancel, WaitApproval, WaitRaises
    <2>5. ~ReplanTransientFailures(e) /\ ~ReplanMissingEvidence(e)
      BY <2>1, <2>2
         DEF ReplanTransientFailures, TransientNothing, TransientCancel, TransientRetry,
             ReplanMissingEvidence, MissingNothing, MissingCancel, MissingReplan, MoveOn
    <2>6. CASE Respond(e) \/ Fail(e) \/ FailNothing(e)
      BY <2>1, <2>2, <2>6
         DEF Respond, RespondNothing, RespondCancel, RespondRaises, RespondReplan,
             RespondInvestigate, Fail, FailNothing, MoveOn
    <2> QED BY <1>1, <2>3, <2>4, <2>5, <2>6 DEF Execute
  <1>2. ~UNCHANGED vars /\ ~ClaimTimeout /\ ~Tick /\ ~Crashes
    BY DEF ClaimTimeout, Tick, Crashes, Crash, CrashInCall, Dies
  <1>3. ~People
    BY DEF People, Approve, Reject, ExpireApproval, Resume, Answer, ExpireClarification,
           CancelRun, RequestChildCancel, CancelChild
  <1>4. ~\E e \in Executors : Claim(e)
    BY DEF Claim
  <1> QED BY <1>1, <1>2, <1>3, <1>4 DEF Next, Worker

\* A completed Run stays completed, with its steps.
LEMMA CompletedStays ==
    ASSUME TypeOK, PendingFresh, [Next]_vars, status = "COMPLETED" PROVE Frozen
BY StatusStep DEF Works, Moves, Contract!Transitions, Contract!RunStatus, Terminal, TypeOK

\* Evidence and plan are never taken back, and without a plan evidence comes with a
\* question.
LEMMA EvidenceGrows ==
    ASSUME TypeOK, PlanInv, [Next]_vars
    PROVE  /\ evidence \subseteq evidence' /\ (planned => planned')
           /\ rounds' \in {rounds, rounds + 1} /\ (planned' \/ evidence' = evidence \/ rounds' > 0)
  <1>0. rounds \in Nat
    BY BudgetAssumption DEF TypeOK
  <1>1. CASE Still \/ Closes \/ Grows
    BY <1>0, <1>1 DEF Still, Asked, Closes, Grows
  <1>2. ASSUME NEW e \in Executors, PreparePlan(e)
        PROVE  evidence \subseteq evidence' /\ planned' /\ rounds' = rounds
    BY <1>2 DEF PreparePlan, Ingest
  <1>3. ASSUME NEW e \in Executors, StepsSkip(e) \/ StepsDispatch(e) \/ TransientRetry(e)
        PROVE  UNCHANGED <<evidence, planned, rounds>>
    BY <1>3 DEF StepsSkip, StepsDispatch, TransientRetry
  <1>4. ASSUME NEW e \in Executors, NEW c \in Caps, Gateway(e, c)
        PROVE  evidence \subseteq evidence' /\ planned /\ UNCHANGED <<planned, rounds>>
    <2>1. job[e][c] # "none"
      BY <1>4 DEF Gateway, GatewayAsks, GatewayRefuses, GatewayLimits, GatewayCalls, MayCall
    <2> QED BY <1>4, <2>1 DEF Gateway, GatewayAsks, GatewayRefuses, GatewayLimits, GatewayCalls,
                              PlanInv, NoJobs
  <1>5. ASSUME NEW e \in Executors, NEW c \in Caps,
               FinishStep(e, c) \/ WaitApproval(e, c) \/ CrashInCall(e, c)
        PROVE  UNCHANGED <<evidence, planned, rounds>>
    BY <1>5 DEF FinishStep, WaitApproval, CrashInCall, Dies
  <1> QED BY <1>0, <1>1, <1>2, <1>3, <1>4, <1>5, StepKinds DEF PlanKinds

\* What a step says it has done, it has done: the evidence is there before the step is
\* complete, and before the answer is.
LEMMA GroundStep ==
    ASSUME TypeOK, PendingFresh, PlanInv, GroundInv, [Next]_vars PROVE GroundInv'
  <1>0. evidence \subseteq evidence'
    BY EvidenceGrows
  <1>1. \A e \in Executors, c \in Caps : job'[e][c] = "ok" => c \in evidence'
    <2>1. CASE Drops
      BY <1>0, <2>1 DEF Drops, GroundInv
    <2>2. CASE UNCHANGED job
      BY <1>0, <2>2 DEF GroundInv
    <2>3. ASSUME NEW e \in Executors, StepsDispatch(e)
          PROVE  \A f \in Executors, c \in Caps : job'[f][c] = "ok" => c \in evidence'
      BY <1>0, <2>3 DEF StepsDispatch, GroundInv, TypeOK
    <2>4. ASSUME NEW e \in Executors, NEW c \in Caps, Gateway(e, c)
          PROVE  \A f \in Executors, d \in Caps : job'[f][d] = "ok" => d \in evidence'
      <3>1. PICK p \in Jobs : SetJob(e, c, p) /\ (p = "ok" => c \in evidence')
        BY <2>4 DEF Gateway, GatewayAsks, GatewayRefuses, GatewayLimits, GatewayCalls, Jobs
      <3> QED BY <1>0, <3>1 DEF SetJob, GroundInv, TypeOK
    <2>5. ASSUME NEW e \in Executors, NEW c \in Caps, FinishStep(e, c) \/ WaitApproval(e, c)
          PROVE  Drops
      BY <2>5, SetJobDrops DEF FinishStep, WaitApproval
    <2>6. ASSUME NEW e \in Executors, NEW c \in Caps, CrashInCall(e, c) PROVE Drops
      BY <2>6, DiesDrops DEF CrashInCall
    <2> QED
      BY <2>1, <2>2, <2>3, <2>4, <2>5, <2>6, StepKinds
         DEF PlanKinds, Still, Closes, Grows, PreparePlan, StepsSkip, TransientRetry, Goto
  <1>2. \A c \in Caps : step'[c] = "COMPLETED" => c \in evidence'
    <2>1. CASE \A c \in Caps : step'[c] = "COMPLETED" => step[c] = "COMPLETED"
      BY <1>0, <2>1 DEF GroundInv
    <2>2. ASSUME NEW e \in Executors, NEW d \in Caps, FinishStep(e, d)
          PROVE  \A c \in Caps : step'[c] = "COMPLETED" => c \in evidence'
      BY <1>0, <2>2 DEF FinishStep, GroundInv, TypeOK
    <2>3. CASE Still \/ Closes \/ Grows
      BY <2>1, <2>3 DEF Still, Closes, Grows, AppendSteps, CancelActive
    <2>4. ASSUME NEW e \in Executors,
                 PreparePlan(e) \/ StepsSkip(e) \/ StepsDispatch(e) \/ TransientRetry(e)
          PROVE  \A c \in Caps : step'[c] = "COMPLETED" => step[c] = "COMPLETED"
      BY <2>4 DEF PreparePlan, StepsSkip, StepsDispatch, TransientRetry
    <2>5. ASSUME NEW e \in Executors, NEW d \in Caps,
                 Gateway(e, d) \/ WaitApproval(e, d) \/ CrashInCall(e, d)
          PROVE  \A c \in Caps : step'[c] = "COMPLETED" => step[c] = "COMPLETED"
      BY <2>5 DEF Gateway, GatewayAsks, GatewayRefuses, GatewayLimits, GatewayCalls, WaitApproval,
                  CrashInCall, Dies, TypeOK
    <2> QED BY <2>1, <2>2, <2>3, <2>4, <2>5, StepKinds DEF PlanKinds
  <1>3. ASSUME status' = "COMPLETED" PROVE evidence' # {} \/ (planned' /\ Present' = {})
    <2>1. CASE status = "COMPLETED"
      BY <1>0, <2>1, CompletedStays, EvidenceGrows DEF Frozen, Present, GroundInv
    <2>2. CASE status # "COMPLETED"
      <3>1. PICK e \in Executors : RespondComplete(e)
        BY <1>3, <2>2, CompletesStep
      <3>2. UNCHANGED <<planned, evidence, step>> /\ Answerable
        BY <3>1 DEF RespondComplete, Responding
      <3> QED BY <3>2 DEF Answerable, Present
    <2> QED BY <2>1, <2>2
  <1>4. ~planned' /\ evidence' # {} => rounds' > 0
    <2>1. rounds \in Nat /\ rounds' \in {rounds, rounds + 1}
      BY EvidenceGrows, BudgetAssumption DEF TypeOK
    <2>2. CASE planned' \/ rounds' > 0
      BY <2>2
    <2>3. CASE ~planned' /\ evidence' = evidence
      <3>1. ~planned
        BY <2>3, EvidenceGrows
      <3>2. evidence' # {} => rounds > 0
        BY <2>3, <3>1 DEF GroundInv
      <3> QED BY <2>1, <3>2, SMT
    <2> QED BY <2>2, <2>3, EvidenceGrows
  <1> QED BY <1>1, <1>2, <1>3, <1>4 DEF GroundInv

\* Whatever the executors of a Run do twice or late, _respond completes it from evidence or
\* as a planned conversation, without a plan only from the attachments of a Run that was
\* asked about, and with evidence of its own behind every step it calls complete.
THEOREM AnswersGrounded == Spec => []AnswerGrounded
  <1>1. Init => GroundInv
    BY DEF Init, GroundInv
  <1>2. TypeOK /\ PendingFresh /\ PlanInv /\ GroundInv /\ [Next]_vars => GroundInv'
    BY GroundStep
  <1>3. PlanInv /\ GroundInv => AnswerGrounded
    BY DEF PlanInv, GroundInv, AnswerGrounded
  <1> QED BY <1>1, <1>2, <1>3, TypeCorrect, Untouched, PlanShape, PTL DEF Spec
-----------------------------------------------------------------------------
(***************************************************************************)
(* Approvals.                                                              *)
(***************************************************************************)
\* Rows stay, with their step; a use and a grant are final.
Retains ==
    /\ DOMAIN approvals \subseteq DOMAIN approvals'
    /\ \A i \in DOMAIN approvals :
          /\ approvals'[i].step = approvals[i].step
          /\ approvals[i].used => approvals'[i].used
          /\ approvals[i].status = "APPROVED" => approvals'[i].status = "APPROVED"

\* The spent approvals of a step are finitely many.
LEMMA SpentFinite ==
    ASSUME TypeOK, NEW c \in Caps
    PROVE  IsFiniteSet(Spent(c)) /\ Cardinality(Spent(c)) \in Nat
  <1>1. DOMAIN approvals = 1..Len(approvals) /\ Len(approvals) \in Nat
    BY DEF TypeOK
  <1>2. IsFiniteSet(1..Len(approvals))
    BY <1>1, FS_Interval
  <1>3. Spent(c) \subseteq 1..Len(approvals)
    BY <1>1 DEF Spent
  <1> QED BY <1>2, <1>3, FS_Subset, FS_CardinalityType

\* What is spent stays spent.
LEMMA SpentStays ==
    ASSUME TypeOK, TypeOK', Retains, NEW c \in Caps
    PROVE  Cardinality(Spent(c)) <= Cardinality(Spent(c)')
  <1>1. Spent(c) \subseteq Spent(c)'
    BY DEF Retains, Spent
  <1>2. IsFiniteSet(Spent(c)')
    <2>1. DOMAIN approvals' = 1..Len(approvals') /\ Len(approvals') \in Nat
      BY DEF TypeOK
    <2>2. IsFiniteSet(1..Len(approvals'))
      BY <2>1, FS_Interval
    <2>3. Spent(c)' \subseteq 1..Len(approvals')
      BY <2>1 DEF Spent
    <2> QED BY <2>2, <2>3, FS_Subset
  <1> QED BY <1>1, <1>2, FS_Subset

\* Which steps touch approvals or make recorded calls.
LEMMA ApprovalKinds ==
    ASSUME TypeOK, [Next]_vars
    PROVE  \/ UNCHANGED <<approvals, lastApproved, invocations>>
           \/ \E e \in Executors, c \in Caps :
                 GatewayAsks(e, c) \/ GatewayLimits(e, c) \/ GatewayCalls(e, c)
           \/ \E i \in DOMAIN approvals : Approve(i) \/ Reject(i) \/ ExpireApproval(i)
           \/ Tick
  <1>1. ASSUME NEW e \in Executors, Prepare(e) \/ ExecuteSteps(e)
        PROVE  UNCHANGED <<approvals, lastApproved, invocations>>
    BY <1>1 DEF Prepare, PrepareNothing, PrepareCancel, PrepareRaises, PrepareClarify,
                PreparePlan, ExecuteSteps, StepsReturn, StepsCancel, StepsRaise, StepsSkip,
                StepsDone, StepsDispatch, MoveOn, Cancel, Emit
  <1>2. ASSUME NEW e \in Executors, ReplanTransientFailures(e) \/ ReplanMissingEvidence(e)
        PROVE  UNCHANGED <<approvals, lastApproved, invocations>>
    BY <1>2 DEF ReplanTransientFailures, TransientNothing, TransientCancel, TransientRetry,
                ReplanMissingEvidence, MissingNothing, MissingCancel, MissingReplan, MoveOn,
                Cancel, Emit
  <1>3. ASSUME NEW e \in Executors, Respond(e) \/ Fail(e) \/ FailNothing(e)
        PROVE  UNCHANGED <<approvals, lastApproved, invocations>>
    BY <1>3 DEF Respond, RespondNothing, RespondCancel, RespondRaises, RespondReplan,
                RespondInvestigate, RespondComplete, Fail, FailNothing, MoveOn, Cancel, Emit
  <1>4. ASSUME NEW e \in Executors, NEW c \in Caps, InvokeStep(e, c)
        PROVE  \/ UNCHANGED <<approvals, lastApproved, invocations>>
               \/ GatewayAsks(e, c) \/ GatewayLimits(e, c) \/ GatewayCalls(e, c)
    BY <1>4 DEF InvokeStep, GatewayRefuses, FinishStep, FinishLate, FinishCancel, WaitApproval,
                WaitRaises, Cancel, Emit
  <1>5. CASE UNCHANGED vars \/ ClaimTimeout \/ Crashes
    BY <1>5 DEF ClaimTimeout, Emit, Crashes, Crash, CrashInCall, Dies
  <1>6. ASSUME NEW e \in Executors, Claim(e)
        PROVE  UNCHANGED <<approvals, lastApproved, invocations>>
    BY <1>6 DEF Claim
  <1>7. CASE Answer \/ ExpireClarification \/ CancelRun \/ RequestChildCancel \/ CancelChild
    BY <1>7 DEF Answer, ExpireClarification, CancelRun, RequestChildCancel, CancelChild, Emit
  <1> QED
    BY <1>1, <1>2, <1>3, <1>4, <1>5, <1>6, <1>7 DEF Next, Worker, Execute, People

\* What lets a call through is an approval somebody granted for this step, and is spent on it.
LEMMA ConsumeStep ==
    ASSUME TypeOK, ApprovalInv, NEW e \in Executors, NEW c \in AskSteps,
           MayCall(e, c), ConsumeApproval(c)
    PROVE  /\ Retains /\ DOMAIN approvals' = DOMAIN approvals
           /\ \A i \in DOMAIN approvals : approvals'[i].status = approvals[i].status
           /\ \A i \in DOMAIN approvals :
                 approvals'[i].used <=> approvals[i].used \/ i = lastApproved[c]
           /\ lastApproved[c] \in DOMAIN approvals /\ ~approvals[lastApproved[c]].used
           /\ approvals[lastApproved[c]].step = c
           /\ approvals[lastApproved[c]].status = "APPROVED"
  <1> DEFINE k == lastApproved[c]
  <1>0. c \in Caps
    BY PlanAssumption
  <1>1. k # 0 /\ k \in DOMAIN approvals /\ ~approvals[k].used
    BY <1>0 DEF MayCall, FreshApproval, TypeOK
  <1>2. approvals[k].step = c /\ approvals[k].status = "APPROVED"
    BY <1>0, <1>1 DEF ApprovalInv
  <1>3. approvals' = [approvals EXCEPT ![k] = [approvals[k] EXCEPT !.used = TRUE]]
    BY DEF ConsumeApproval
  <1>4. \A i \in DOMAIN approvals : approvals[i] \in Approval
    BY DEF TypeOK
  <1>5. DOMAIN approvals' = DOMAIN approvals
    BY <1>3
  <1>6. \A i \in DOMAIN approvals :
          approvals'[i] = IF i = k THEN [approvals[i] EXCEPT !.used = TRUE] ELSE approvals[i]
    BY <1>1, <1>3
  <1> HIDE DEF k
  <1>7. \A i \in DOMAIN approvals :
          /\ approvals'[i].step = approvals[i].step
          /\ approvals'[i].status = approvals[i].status
          /\ approvals'[i].used <=> approvals[i].used \/ i = k
    BY <1>4, <1>6 DEF Approval
  <1> QED BY <1>1, <1>2, <1>5, <1>7 DEF Retains, k

\* Rows that only gain a decision, or lose time, keep their use and their step.
LEMMA DecideStep ==
    ASSUME TypeOK, NEW i \in DOMAIN approvals, NEW s \in {"APPROVED", "REJECTED", "EXPIRED"},
           approvals[i].status = "PENDING", approvals' = [approvals EXCEPT ![i].status = s]
    PROVE  /\ Retains /\ DOMAIN approvals' = DOMAIN approvals
           /\ \A j \in DOMAIN approvals : approvals'[j].used = approvals[j].used
           /\ \A j \in DOMAIN approvals : j # i => approvals'[j].status = approvals[j].status
           /\ approvals'[i].status = s
  <1>1. \A j \in DOMAIN approvals : approvals[j] \in Approval
    BY DEF TypeOK
  <1>2. DOMAIN approvals' = DOMAIN approvals
    OBVIOUS
  <1>3. \A j \in DOMAIN approvals :
          approvals'[j] = IF j = i THEN [approvals[j] EXCEPT !.status = s] ELSE approvals[j]
    OBVIOUS
  <1>4. \A j \in DOMAIN approvals :
          /\ approvals'[j].step = approvals[j].step
          /\ approvals'[j].used = approvals[j].used
          /\ approvals'[j].status = IF j = i THEN s ELSE approvals[j].status
    BY <1>1, <1>3 DEF Approval
  <1> QED BY <1>2, <1>4 DEF Retains

\* The approval decided last is a row.
LEMMA LastInDomain ==
    ASSUME TypeOK PROVE \A c \in Caps : lastApproved[c] # 0 => lastApproved[c] \in DOMAIN approvals
  <1>1. Len(approvals) \in Nat /\ DOMAIN approvals = 1..Len(approvals)
    BY DEF TypeOK
  <1>2. lastApproved \in [Caps -> 0..Len(approvals)]
    BY DEF TypeOK
  <1> QED BY <1>1, <1>2

\* Requests, decisions, calls and time keep every call of an ASK step paid for.
LEMMA ApprovalStep ==
    ASSUME TypeOK, TypeOK', ApprovalInv, [Next]_vars PROVE ApprovalInv'
  <1> DEFINE Granted == \A c \in Caps : lastApproved[c] # 0 =>
                            /\ approvals[lastApproved[c]].status = "APPROVED"
                            /\ approvals[lastApproved[c]].step = c
             Paid == \A c \in AskSteps : invocations[c] <= Cardinality(Spent(c))
             Decided == \A i \in DOMAIN approvals : approvals[i].used => approvals[i].status = "APPROVED"
  <1>0. \A c \in Caps : lastApproved[c] # 0 => lastApproved[c] \in DOMAIN approvals
    BY LastInDomain
  <1>1. Granted /\ Paid /\ Decided
    BY DEF ApprovalInv, ApprovalSingleUse
  <1>2. SUFFICES Granted' /\ Paid' /\ Decided'
    BY DEF ApprovalInv, ApprovalSingleUse
  <1>3. ASSUME Retains, UNCHANGED invocations PROVE Paid'
    <2> SUFFICES ASSUME NEW c \in AskSteps PROVE invocations[c] <= Cardinality(Spent(c)')
      BY <1>3
    <2>1. c \in Caps
      BY PlanAssumption
    <2>2. Cardinality(Spent(c)) <= Cardinality(Spent(c)')
      BY <1>3, <2>1, SpentStays
    <2>3. invocations[c] \in Nat /\ Cardinality(Spent(c)) \in Nat
      BY <2>1, SpentFinite DEF TypeOK
    <2>4. Cardinality(Spent(c)') \in Nat
      <3>1. IsFiniteSet(Spent(c)')
        <4>1. DOMAIN approvals' = 1..Len(approvals') /\ Len(approvals') \in Nat
          BY DEF TypeOK
        <4>2. IsFiniteSet(1..Len(approvals'))
          BY <4>1, FS_Interval
        <4>3. Spent(c)' \subseteq 1..Len(approvals')
          BY <4>1 DEF Spent
        <4> QED BY <4>2, <4>3, FS_Subset
      <3> QED BY <3>1, FS_CardinalityType
    <2> QED BY <1>1, <2>2, <2>3, <2>4
  <1>4. ASSUME Retains, UNCHANGED lastApproved PROVE Granted'
    BY <1>0, <1>1, <1>4 DEF Retains
  <1>5. CASE UNCHANGED <<approvals, lastApproved, invocations>>
    <2>1. Retains
      BY <1>5 DEF Retains
    <2> QED BY <1>1, <1>3, <1>4, <1>5, <2>1
  <1>6. ASSUME NEW e \in Executors, NEW c \in Caps, GatewayAsks(e, c)
        PROVE  Granted' /\ Paid' /\ Decided'
    <2>1. approvals' = Append(approvals, NewApproval(c)) /\ UNCHANGED <<lastApproved, invocations>>
      BY <1>6 DEF GatewayAsks
    <2>2. /\ Len(approvals) \in Nat /\ DOMAIN approvals = 1..Len(approvals)
          /\ DOMAIN approvals' = 1..(Len(approvals) + 1)
          /\ \A i \in DOMAIN approvals : approvals'[i] = approvals[i]
          /\ approvals'[Len(approvals) + 1] = NewApproval(c)
      <3>1. approvals \in Seq(Approval) /\ NewApproval(c) \in Approval
        BY TimeAssumption DEF TypeOK, NewApproval, Approval
      <3> QED BY <2>1, <3>1
    <2>3. Retains
      BY <2>2 DEF Retains
    <2>4. Decided'
      BY <1>1, <2>2 DEF NewApproval
    <2> QED BY <1>3, <1>4, <2>1, <2>3, <2>4
  <1>7. ASSUME NEW e \in Executors, NEW c \in Caps, GatewayLimits(e, c) \/ GatewayCalls(e, c)
        PROVE  Granted' /\ Paid' /\ Decided'
    <2>1. /\ MayCall(e, c) /\ ConsumeApproval(c) /\ UNCHANGED lastApproved
          /\ \/ UNCHANGED invocations
             \/ invocations' = [invocations EXCEPT ![c] = @ + 1]
      BY <1>7 DEF GatewayLimits, GatewayCalls
    <2>2. CASE c \notin AskSteps
      <3>1. approvals' = approvals
        BY <2>1, <2>2 DEF ConsumeApproval
      <3>2. Retains
        BY <3>1 DEF Retains
      <3>3. \A d \in AskSteps : invocations'[d] = invocations[d]
        BY <2>1, <2>2, PlanAssumption DEF TypeOK
      <3>4. \A d \in AskSteps : Spent(d)' = Spent(d)
        BY <3>1 DEF Spent
      <3> QED BY <1>1, <1>4, <2>1, <3>1, <3>2, <3>3, <3>4
    <2>3. CASE c \in AskSteps
      <3> DEFINE k == lastApproved[c]
      <3>1. /\ Retains /\ DOMAIN approvals' = DOMAIN approvals
            /\ \A i \in DOMAIN approvals : approvals'[i].status = approvals[i].status
            /\ \A i \in DOMAIN approvals : approvals'[i].used <=> approvals[i].used \/ i = k
            /\ k \in DOMAIN approvals /\ ~approvals[k].used /\ approvals[k].step = c
            /\ approvals[k].status = "APPROVED"
        BY <2>1, <2>3, ConsumeStep
      <3> HIDE DEF k
      <3>2. Decided'
        BY <1>1, <3>1
      <3>3. Spent(c)' = Spent(c) \cup {k} /\ k \notin Spent(c)
        BY <3>1 DEF Spent, Retains
      <3>4. Cardinality(Spent(c)') = Cardinality(Spent(c)) + 1
        BY <3>3, SpentFinite, FS_AddElement
      <3>5. invocations'[c] <= Cardinality(Spent(c)')
        <4>1. invocations[c] \in Nat /\ Cardinality(Spent(c)) \in Nat
          BY SpentFinite DEF TypeOK
        <4>2. invocations'[c] <= invocations[c] + 1
          <5>1. invocations \in [Caps -> Nat]
            BY DEF TypeOK
          <5>2. invocations'[c] \in {invocations[c], invocations[c] + 1}
            BY <2>1, <5>1
          <5> QED BY <4>1, <5>2
        <4>3. invocations[c] <= Cardinality(Spent(c)) /\ invocations'[c] \in Nat
          BY <1>1, <2>3 DEF TypeOK
        <4> QED BY <3>4, <4>1, <4>2, <4>3
      <3>6. \A d \in AskSteps : d # c => Spent(d)' = Spent(d) /\ invocations'[d] = invocations[d]
        <4>1. \A d \in AskSteps : d # c => Spent(d)' = Spent(d)
          BY <3>1 DEF Spent, Retains
        <4>2. \A d \in AskSteps : d # c => invocations'[d] = invocations[d]
          BY <2>1, PlanAssumption DEF TypeOK
        <4> QED BY <4>1, <4>2
      <3>7. Paid'
        BY <1>1, <3>5, <3>6
      <3> QED BY <1>4, <2>1, <3>1, <3>2, <3>7
    <2> QED BY <2>2, <2>3
  <1>8. ASSUME NEW i \in DOMAIN approvals, Approve(i) PROVE Granted' /\ Paid' /\ Decided'
    <2>1. /\ approvals[i].status = "PENDING" /\ UNCHANGED invocations
          /\ approvals' = [approvals EXCEPT ![i].status = "APPROVED"]
          /\ lastApproved' = [lastApproved EXCEPT ![approvals[i].step] = i]
      BY <1>8 DEF Approve, PendingApproval
    <2>2. /\ Retains /\ DOMAIN approvals' = DOMAIN approvals
          /\ \A j \in DOMAIN approvals : approvals'[j].used = approvals[j].used
          /\ \A j \in DOMAIN approvals : j # i => approvals'[j].status = approvals[j].status
          /\ approvals'[i].status = "APPROVED"
      BY <2>1, DecideStep
    <2>3. Decided'
      BY <1>1, <2>1, <2>2
    <2>4. Granted'
      <3>1. \A c \in Caps : lastApproved'[c] = IF c = approvals[i].step THEN i ELSE lastApproved[c]
        BY <2>1 DEF TypeOK
      <3>2. \A j \in DOMAIN approvals : /\ approvals'[j].step = approvals[j].step
                                        /\ approvals[j].status = "APPROVED" => approvals'[j].status = "APPROVED"
        BY <2>2 DEF Retains
      <3> QED BY <1>0, <1>1, <2>2, <3>1, <3>2
    <2> QED BY <1>3, <2>1, <2>2, <2>3, <2>4
  <1>9. ASSUME NEW i \in DOMAIN approvals, Reject(i) \/ ExpireApproval(i)
        PROVE  Granted' /\ Paid' /\ Decided'
    <2>1. /\ approvals[i].status = "PENDING" /\ UNCHANGED <<invocations, lastApproved>>
          /\ \E s \in {"REJECTED", "EXPIRED"} : approvals' = [approvals EXCEPT ![i].status = s]
      BY <1>9 DEF Reject, ExpireApproval, PendingApproval
    <2>2. /\ Retains /\ DOMAIN approvals' = DOMAIN approvals
          /\ \A j \in DOMAIN approvals : approvals'[j].used = approvals[j].used
          /\ \A j \in DOMAIN approvals : j # i => approvals'[j].status = approvals[j].status
      BY <2>1, DecideStep
    <2>3. Decided'
      BY <1>1, <2>1, <2>2
    <2> QED BY <1>3, <1>4, <2>1, <2>2, <2>3
  <1>10. CASE Tick
    <2>1. /\ DOMAIN approvals' = DOMAIN approvals /\ UNCHANGED <<invocations, lastApproved>>
          /\ \A i \in DOMAIN approvals : approvals'[i] = [approvals[i] EXCEPT !.ttl = Sooner(@)]
      BY <1>10 DEF Tick
    <2>2. \A i \in DOMAIN approvals : approvals[i] \in Approval
      BY SMTT(30) DEF TypeOK
    <2>3. \A i \in DOMAIN approvals :
            /\ approvals'[i].step = approvals[i].step
            /\ approvals'[i].status = approvals[i].status
            /\ approvals'[i].used = approvals[i].used
      BY <2>1, <2>2 DEF Approval
    <2>4. Retains /\ Decided'
      BY <1>1, <2>1, <2>3 DEF Retains
    <2> QED BY <1>3, <1>4, <2>1, <2>4
  <1> QED BY <1>5, <1>6, <1>7, <1>8, <1>9, <1>10, ApprovalKinds

\* The approval a step may use was granted for it, and every recorded call of an ASK step has
\* spent one of its own.
LEMMA ApprovalsKept == Spec => []ApprovalInv
  <1>1. Init => ApprovalInv
    <2> SUFFICES ASSUME Init PROVE ApprovalInv
      OBVIOUS
    <2>1. approvals = <<>> /\ \A c \in Caps : lastApproved[c] = 0 /\ invocations[c] = 0
      BY DEF Init
    <2>2. \A c \in AskSteps : Cardinality(Spent(c)) = 0
      <3>1. \A c \in AskSteps : Spent(c) = {}
        BY <2>1 DEF Spent
      <3> QED BY <3>1, FS_EmptySet
    <2>3. \A c \in AskSteps : invocations[c] <= Cardinality(Spent(c))
      <3>1. \A c \in AskSteps : invocations[c] = 0
        BY <2>1, PlanAssumption
      <3> QED BY <2>2, <3>1
    <2> QED BY <2>1, <2>3 DEF ApprovalInv, ApprovalSingleUse
  <1>2. TypeOK /\ TypeOK' /\ ApprovalInv /\ [Next]_vars => ApprovalInv'
    BY ApprovalStep
  <1> QED BY <1>1, <1>2, TypeCorrect, PTL DEF Spec

\* Two executors cannot pass the gateway on one decision: every recorded call of a step under ASK has
\* spent an approval of its own, which somebody granted.
THEOREM ApprovalsSpentOnce == Spec => []ApprovalSingleUse
  <1>1. ApprovalInv => ApprovalSingleUse
    BY DEF ApprovalInv
  <1> QED BY <1>1, ApprovalsKept, PTL
-----------------------------------------------------------------------------
(***************************************************************************)
(* One executor alone.                                                     *)
(***************************************************************************)
\* Until the Run is disturbed, a claim is its first.
LEMMA FirstClaim ==
    ASSUME TypeOK, PendingFresh, LeaseInv, Undisturbed, NEW e \in Executors, Claim(e)
    PROVE  status = "PENDING" /\ \A f \in Executors : ~Busy(f)
  <1>1. lease = None
    BY NoClaimOnExpiry DEF LeaseInv
  <1>2. status = "PENDING"
    BY <1>1 DEF LeaseInv, LeaseHeld, Claim, Claimable
  <1> QED BY <1>2 DEF PendingFresh

\* An undisturbed Run on which somebody works runs, waits for an approval or is over.
LEMMA WorkedOn ==
    ASSUME TypeOK, PendingFresh, LeaseInv, Undisturbed, NEW e \in Executors, Busy(e),
           status \notin Terminal
    PROVE  status \in {"RUNNING", "WAITING_APPROVAL"}
BY DEF TypeOK, PendingFresh, LeaseInv, LeaseHeld, Undisturbed, RunStatus, Terminal

\* Nobody else works on it.
LEMMA Others ==
    ASSUME TypeOK, LeaseInv, Undisturbed, NEW e \in Executors, Busy(e),
           NEW f \in Executors, f # e
    PROVE  pc[f] = "idle" /\ NoJobs(f)
BY DEF LeaseInv, SoleExecutor, Busy

\* A Run that is over is frozen.
LEMMA OverStays ==
    ASSUME TypeOK, PendingFresh, [Next]_vars, status \in Terminal PROVE Frozen
BY StatusStep DEF Works, Moves, Contract!Transitions, Contract!RunStatus, Terminal, TypeOK, RunStatus

\* Jobs begin only while the Run is open.
LEMMA NoNewJobs ==
    ASSUME TypeOK, [Next]_vars, status \in Terminal,
           NEW e \in Executors, NEW c \in Caps, job'[e][c] # "none"
    PROVE  job[e][c] # "none"
  <1>1. CASE Drops
    BY <1>1 DEF Drops
  <1>2. ASSUME NEW f \in Executors, NEW d \in Caps, Gateway(f, d) PROVE job[e][c] # "none"
    <2>1. job[f][d] # "none" /\ \E p \in Jobs : SetJob(f, d, p)
      BY <1>2 DEF Gateway, GatewayAsks, GatewayRefuses, GatewayLimits, GatewayCalls, MayCall, Jobs
    <2> QED BY SMTT(30), <2>1 DEF SetJob, TypeOK
  <1>3. ASSUME NEW f \in Executors, NEW d \in Caps, FinishStep(f, d) \/ WaitApproval(f, d)
        PROVE  Drops
    BY <1>3, SetJobDrops DEF FinishStep, WaitApproval
  <1>4. ASSUME NEW f \in Executors, NEW d \in Caps, CrashInCall(f, d) PROVE Drops
    BY <1>4, DiesDrops DEF CrashInCall
  <1>5. ASSUME NEW f \in Executors, PreparePlan(f) \/ StepsSkip(f) \/ TransientRetry(f)
        PROVE  job' = job
    BY <1>5 DEF PreparePlan, StepsSkip, TransientRetry, Goto
  <1>6. ASSUME NEW f \in Executors PROVE ~StepsDispatch(f)
    BY DEF StepsDispatch, Unblocked, Scheduling
  <1> QED BY <1>1, <1>2, <1>3, <1>4, <1>5, <1>6, StepKinds DEF PlanKinds, Still, Closes, Grows

\* What the waves keep of a Run that is over.
LEMMA WaveOver ==
    ASSUME TypeOK, PendingFresh, WaveInv, [Next]_vars, status \in Terminal PROVE WaveInv'
  <1>1. UNCHANGED <<status, step, core>>
    BY OverStays DEF Frozen
  <1>2. \A e \in Executors, c \in Caps : job'[e][c] # "none" => job[e][c] # "none"
    BY NoNewJobs
  <1>3. OpenSteps' = OpenSteps
    BY <1>1 DEF OpenSteps
  <1> QED BY <1>1, <1>2, <1>3 DEF WaveInv, NoJobs

\* A Run that ends without an answer leaves running and cancelled steps behind.
LEMMA WaveEnds ==
    ASSUME WaveInv, status' \in {"FAILED", "CANCELLED"}, Drops,
           step' = step \/ step' = [c \in Caps |-> CancelActive(step[c])]
    PROVE  WaveInv'
  <1>1. \A e \in Executors, c \in Caps : job'[e][c] # "none" => step'[c] \in {"RUNNING", "CANCELLED"}
    BY DEF WaveInv, Drops, CancelActive, Active
  <1> QED BY <1>1 DEF WaveInv, Terminal

\* Nothing that the waves look at has changed.
LEMMA WaveSame ==
    ASSUME WaveInv, UNCHANGED <<status, step, core, deps, pc, job>> PROVE WaveInv'
BY DEF WaveInv, Busy, NoJobs, OpenSteps, Terminal, Active

\* The executor e of an open Run has no job after its step.
LEMMA WaveRests ==
    ASSUME NEW e \in Executors, status' \notin Terminal,
           \A f \in Executors : NoJobs(f)', \A f \in Executors : f # e => pc'[f] = "idle",
           \A c \in Caps : step'[c] # "RUNNING",
           pc'[e] \in {"transient", "missing", "respond"} => \A c \in Caps : step'[c] \notin Active
    PROVE  WaveInv'
BY DEF WaveInv, Busy, NoJobs, Terminal

\* The only executor of an open Run moves on without a job.
LEMMA WaveMoves ==
    ASSUME TypeOK, LeaseInv, WaveInv, Undisturbed, status \notin Terminal, status' \notin Terminal,
           NEW e \in Executors, Busy(e), NoJobs(e), job' = job,
           NEW label \in Pcs, pc' = [pc EXCEPT ![e] = label],
           \A c \in Caps : step'[c] = "RUNNING" => step[c] = "RUNNING",
           label \in {"transient", "missing", "respond"} => \A c \in Caps : step'[c] \notin Active
    PROVE  WaveInv'
  <1>1. \A f \in Executors : f # e => pc[f] = "idle" /\ NoJobs(f)
    BY Others
  <1>2. \A f \in Executors : NoJobs(f)'
    BY <1>1 DEF NoJobs
  <1>3. pc'[e] = label /\ \A f \in Executors : f # e => pc'[f] = "idle"
    BY <1>1 DEF TypeOK
  <1>4. \A c \in Caps : step'[c] # "RUNNING"
    BY DEF WaveInv, NoJobs
  <1> QED BY <1>2, <1>3, <1>4, WaveRests

\* Away from the waves the only executor of an open Run has no job.
LEMMA WaveAway ==
    ASSUME WaveInv, status \notin Terminal, NEW e \in Executors, pc[e] # "steps" PROVE NoJobs(e)
BY DEF WaveInv, NoJobs

\* _execute_steps leaves nothing to run behind when it goes on to the replans.
LEMMA WaveDone ==
    ASSUME TypeOK, PlanInv, NEW e \in Executors, StepsDone(e)
    PROVE  \A c \in Caps : step[c] \notin Active
BY DEF StepsDone, Unblocked, Deadlocked, Runnable

\* HarnessRuntime._prepare keeps the waves.
LEMMA WavePrepare ==
    ASSUME TypeOK, PendingFresh, LeaseInv, WaveInv, Undisturbed, Undisturbed', status \notin Terminal,
           NEW e \in Executors, Busy(e), Prepare(e)
    PROVE  WaveInv'
  <1>1. NoJobs(e)
    <2>1. pc[e] = "prepare"
      BY DEF Prepare, PrepareNothing, PrepareCancel, PrepareRaises, PrepareClarify, PreparePlan
    <2> QED BY <2>1, WaveAway
  <1>2. CASE PrepareNothing(e)
    <2>1. pc' = [pc EXCEPT ![e] = "steps"] /\ UNCHANGED <<status, step, job>> /\ "steps" \in Pcs
      BY <1>2 DEF PrepareNothing, MoveOn, Goto, Pcs
    <2> QED BY <1>1, <2>1, WaveMoves
  <1>3. CASE PrepareRaises(e)
    <2>1. pc' = [pc EXCEPT ![e] = "fail"] /\ UNCHANGED <<status, step, job>> /\ "fail" \in Pcs
      BY <1>3 DEF PrepareRaises, MoveOn, Goto, Pcs
    <2> QED BY <1>1, <2>1, WaveMoves
  <1>4. CASE PrepareCancel(e)
    BY <1>4, WaveEnds DEF PrepareCancel, Cancel, CancelSteps, Goto, Drops
  <1>5. CASE PrepareClarify(e)
    BY <1>5, BudgetAssumption DEF PrepareClarify, Undisturbed, TypeOK
  <1>6. CASE PreparePlan(e)
    <2>1. pc' = [pc EXCEPT ![e] = "steps"] /\ UNCHANGED <<status, job>> /\ "steps" \in Pcs
      BY <1>6 DEF PreparePlan, Goto, Pcs
    <2>2. \A c \in Caps : step'[c] # "RUNNING"
      BY <1>6 DEF PreparePlan
    <2> QED BY <1>1, <2>1, <2>2, WaveMoves
  <1> QED BY <1>2, <1>3, <1>4, <1>5, <1>6 DEF Prepare

\* A round of _execute_steps keeps the waves.
LEMMA WaveSteps ==
    ASSUME TypeOK, PendingFresh, LeaseInv, PlanInv, WaveInv, Undisturbed, status \notin Terminal,
           NEW e \in Executors, Busy(e), ExecuteSteps(e)
    PROVE  WaveInv'
  <1>1. NoJobs(e) /\ pc[e] = "steps"
    BY DEF ExecuteSteps, StepsReturn, StepsCancel, StepsRaise, StepsSkip, StepsDone, StepsDispatch,
           Unblocked, Scheduling, AtWave
  <1>2. CASE StepsReturn(e)
    <2>1. pc' = [pc EXCEPT ![e] = "idle"] /\ UNCHANGED <<status, step, job>> /\ "idle" \in Pcs
      BY <1>2 DEF StepsReturn, MoveOn, Goto, Pcs
    <2> QED BY <1>1, <2>1, WaveMoves
  <1>3. CASE StepsRaise(e)
    <2>1. pc' = [pc EXCEPT ![e] = "fail"] /\ UNCHANGED <<status, step, job>> /\ "fail" \in Pcs
      BY <1>3 DEF StepsRaise, MoveOn, Goto, Pcs
    <2> QED BY <1>1, <2>1, WaveMoves
  <1>4. CASE StepsCancel(e)
    BY <1>4, WaveEnds DEF StepsCancel, Cancel, CancelSteps, Goto, Drops
  <1>5. CASE StepsSkip(e)
    <2>1. pc' = [pc EXCEPT ![e] = "steps"] /\ UNCHANGED <<status, job>> /\ "steps" \in Pcs
      BY <1>1, <1>5 DEF StepsSkip, Pcs, TypeOK
    <2>2. \A c \in Caps : step'[c] = "RUNNING" => step[c] = "RUNNING"
      BY <1>5 DEF StepsSkip
    <2> QED BY <1>1, <2>1, <2>2, WaveMoves
  <1>6. CASE StepsDone(e)
    <2>1. pc' = [pc EXCEPT ![e] = "transient"] /\ UNCHANGED <<status, step, job>> /\ "transient" \in Pcs
      BY <1>6 DEF StepsDone, MoveOn, Goto, Pcs
    <2>2. \A c \in Caps : step'[c] \notin Active
      BY <1>6, <2>1, WaveDone
    <2> QED BY <1>1, <2>1, <2>2, WaveMoves
  <1>7. CASE StepsDispatch(e)
    <2>1. /\ step' = [c \in Caps |-> IF c \in Ready THEN "RUNNING" ELSE step[c]]
          /\ job' = [job EXCEPT ![e] = [c \in Caps |-> IF c \in Ready THEN "invoke" ELSE "none"]]
          /\ UNCHANGED <<status, pc, deps>>
      BY <1>7 DEF StepsDispatch
    <2>2. \A f \in Executors : f # e => pc[f] = "idle" /\ NoJobs(f)
      BY Others
    <2>3. \A f \in Executors, c \in Caps : job'[f][c] # "none" <=> f = e /\ c \in Ready
      BY <2>1, <2>2 DEF NoJobs, TypeOK
    <2>4. \A c \in Caps : step'[c] = "RUNNING" <=> c \in Ready
      <3>1. \A c \in Caps : step[c] # "RUNNING"
        BY <1>1 DEF WaveInv, NoJobs
      <3> QED BY <2>1, <3>1
    <2>5. \A c \in Ready : \A d \in deps'[c] : step'[d] = "COMPLETED"
      <3>1. \A c \in Ready : \A d \in deps[c] : d \in Caps /\ step[d] = "COMPLETED"
        BY DEF Ready, TypeOK
      <3>2. \A d \in Ready : step[d] # "COMPLETED"
        BY DEF Ready, Runnable, Active
      <3> QED BY <2>1, <3>1, <3>2
    <2>6. \A f \in Executors : Busy(f)' => f = e
      BY <2>1, <2>2, <2>3 DEF Busy, NoJobs
    <2>7. status' \notin Terminal /\ pc'[e] = "steps" /\ status' # "COMPLETED"
      BY <1>1, <2>1 DEF Terminal
    <2> QED BY <2>3, <2>4, <2>5, <2>6, <2>7 DEF WaveInv
  <1> QED BY <1>2, <1>3, <1>4, <1>5, <1>6, <1>7 DEF ExecuteSteps

\* The two transactions of _invoke_step keep the waves.
LEMMA WaveInvoke ==
    ASSUME TypeOK, PendingFresh, LeaseInv, WaveInv, Undisturbed, status \notin Terminal,
           NEW e \in Executors, Busy(e), NEW c \in Caps, InvokeStep(e, c)
    PROVE  WaveInv'
  <1>0. \A f \in Executors : f # e => pc[f] = "idle" /\ NoJobs(f)
    BY Others
  <1>1. CASE Gateway(e, c)
    <2>1. /\ job[e][c] = "invoke" /\ \E p \in Jobs \ {"none"} : SetJob(e, c, p)
          /\ UNCHANGED <<status, step, core, deps, pc>>
      BY <1>1 DEF Gateway, GatewayAsks, GatewayRefuses, GatewayLimits, GatewayCalls, MayCall, Jobs
    <2>2. \A f \in Executors, d \in Caps : job'[f][d] # "none" <=> job[f][d] # "none"
      BY SMTT(30), <2>1 DEF SetJob, TypeOK
    <2>3. \A f \in Executors : Busy(f)' <=> Busy(f)
      BY <2>1, <2>2 DEF Busy, NoJobs
    <2>4. status' # "COMPLETED"
      BY <2>1 DEF Terminal
    <2> QED BY <2>1, <2>2, <2>3, <2>4 DEF WaveInv
  <1>2. CASE FinishStep(e, c) \/ WaitApproval(e, c)
    <2>1. /\ job[e][c] # "none" /\ SetJob(e, c, "none")
          /\ \E s \in {"COMPLETED", "FAILED", "WAITING_APPROVAL"} : step' = [step EXCEPT ![c] = s]
          /\ status' \notin Terminal /\ UNCHANGED <<deps, pc>>
      BY <1>2 DEF FinishStep, HasResult, WaitApproval, Terminal
    <2>2. step[c] = "RUNNING" /\ pc[e] = "steps"
      BY <2>1 DEF WaveInv
    <2>3. \A f \in Executors, d \in Caps :
            job'[f][d] # "none" <=> job[f][d] # "none" /\ ~(f = e /\ d = c)
      BY <2>1 DEF SetJob, TypeOK
    <2>4. \A d \in Caps : d # c => step'[d] = step[d]
      BY <2>1 DEF TypeOK
    <2>5. step'[c] # "RUNNING"
      BY <2>1 DEF TypeOK
    <2>6. \A f \in Executors, d \in Caps : job'[f][d] # "none" =>
            /\ f = e /\ d # c /\ step'[d] = "RUNNING"
            /\ \A x \in deps[d] : step'[x] = "COMPLETED"
      <3>1. ASSUME NEW f \in Executors, NEW d \in Caps, job'[f][d] # "none"
            PROVE  f = e /\ d # c /\ step[d] = "RUNNING" /\ \A x \in deps[d] : step[x] = "COMPLETED"
        BY <1>0, <2>3, <3>1 DEF WaveInv, NoJobs
      <3>2. \A d \in Caps : \A x \in deps[d] : x \in Caps
        BY DEF TypeOK
      <3> QED BY <2>2, <2>4, <3>1, <3>2
    <2>7. \A f \in Executors : Busy(f)' => f = e
      BY <1>0, <2>1, <2>3 DEF Busy, NoJobs
    <2>8. \A d \in Caps : step'[d] = "RUNNING" => job'[e][d] # "none"
      <3>1. \A d \in Caps : step[d] = "RUNNING" => job[e][d] # "none"
        BY DEF WaveInv
      <3> QED BY <2>3, <2>4, <2>5, <3>1
    <2>9. pc' = pc /\ deps' = deps /\ status' # "COMPLETED"
      BY <2>1 DEF Terminal
    <2> QED BY <2>1, <2>2, <2>6, <2>7, <2>8, <2>9 DEF WaveInv
  <1>3. CASE FinishCancel(e, c)
    BY <1>3, SetJobDrops, WaveEnds DEF FinishCancel, Cancel, CancelSteps
  <1>4. ~FinishLate(e, c)
    BY DEF FinishLate
  <1>5. ~WaitRaises(e, c)
    BY WorkedOn DEF WaitRaises
  <1> QED BY <1>1, <1>2, <1>3, <1>4, <1>5 DEF InvokeStep, Gateway

\* The replans keep the waves.
LEMMA WaveReplan ==
    ASSUME TypeOK, PendingFresh, LeaseInv, WaveInv, Undisturbed, status \notin Terminal,
           NEW e \in Executors, Busy(e), ReplanTransientFailures(e) \/ ReplanMissingEvidence(e)
    PROVE  WaveInv'
  <1>1. pc[e] \in {"transient", "missing"} /\ NoJobs(e)
    <2>1. pc[e] \in {"transient", "missing"}
      BY DEF ReplanTransientFailures, TransientNothing, TransientCancel, TransientRetry,
             ReplanMissingEvidence, MissingNothing, MissingCancel, MissingReplan
    <2> QED BY <2>1, WaveAway
  <1>2. \A c \in Caps : step[c] \notin Active
    BY <1>1 DEF WaveInv
  <1>3. CASE TransientNothing(e) \/ MissingNothing(e)
    <2>1. /\ \E label \in Pcs : pc' = [pc EXCEPT ![e] = label]
          /\ UNCHANGED <<status, step, job>>
      BY <1>3 DEF TransientNothing, MissingNothing, MoveOn, Goto, Pcs
    <2> QED BY <1>1, <1>2, <2>1, WaveMoves
  <1>4. CASE TransientCancel(e) \/ MissingCancel(e)
    BY <1>4, WaveEnds DEF TransientCancel, MissingCancel, Cancel, CancelSteps, Goto, Drops
  <1>5. CASE TransientRetry(e) \/ MissingReplan(e)
    <2>1. pc' = [pc EXCEPT ![e] = "steps"] /\ UNCHANGED <<status, job>> /\ "steps" \in Pcs
      BY <1>5 DEF TransientRetry, MissingReplan, Goto, Pcs
    <2>2. \A c \in Caps : step'[c] = "RUNNING" => step[c] = "RUNNING"
      BY <1>5 DEF TransientRetry, MissingReplan, GapReplan, AppendSteps
    <2> QED BY <1>1, <2>1, <2>2, WaveMoves
  <1> QED BY <1>3, <1>4, <1>5 DEF ReplanTransientFailures, ReplanMissingEvidence

\* The answer leaves nothing behind.
LEMMA WaveRespond ==
    ASSUME TypeOK, PendingFresh, LeaseInv, WaveInv, Undisturbed, status \notin Terminal,
           NEW e \in Executors, Busy(e), Respond(e) \/ Fail(e) \/ FailNothing(e)
    PROVE  WaveInv'
  <1>1. pc[e] \in {"respond", "fail"} /\ NoJobs(e)
    <2>1. pc[e] \in {"respond", "fail"}
      BY DEF Respond, RespondNothing, RespondCancel, RespondRaises, RespondReplan,
             RespondInvestigate, RespondComplete, Responding, Fail, FailNothing
    <2> QED BY <2>1, WaveAway
  <1>2. CASE RespondRaises(e)
    <2>1. pc' = [pc EXCEPT ![e] = "fail"] /\ UNCHANGED <<status, step, job>> /\ "fail" \in Pcs
      BY <1>2 DEF RespondRaises, MoveOn, Goto, Pcs
    <2> QED BY <1>1, <2>1, WaveMoves
  <1>3. CASE RespondCancel(e)
    BY <1>3, WaveEnds DEF RespondCancel, Cancel, CancelSteps, Goto, Drops
  <1>4. CASE Fail(e)
    BY <1>4, WaveEnds DEF Fail, Goto, Drops
  <1>5. CASE RespondReplan(e) \/ RespondInvestigate(e)
    <2>1. pc' = [pc EXCEPT ![e] = "steps"] /\ UNCHANGED <<status, job>> /\ "steps" \in Pcs
      BY <1>5 DEF RespondReplan, RespondInvestigate, Goto, Pcs
    <2>2. \A c \in Caps : step'[c] = "RUNNING" => step[c] = "RUNNING"
      BY <1>5 DEF RespondReplan, RespondInvestigate, GapReplan, AppendSteps
    <2> QED BY <1>1, <2>1, <2>2, WaveMoves
  <1>6. CASE RespondComplete(e)
    <2>1. /\ status' = "COMPLETED" /\ UNCHANGED <<step, job>> /\ pc[e] = "respond"
          /\ core' = [k \in Core |-> IF core[k] \in Active THEN "COMPLETED" ELSE core[k]]
      BY <1>6 DEF RespondComplete, Responding, Goto
    <2>2. \A f \in Executors : NoJobs(f)'
      <3>1. \A f \in Executors : NoJobs(f)
        BY <1>1, Others
      <3> QED BY <2>1, <3>1 DEF NoJobs
    <2>3. \A c \in Caps : step'[c] \notin Active
      BY <2>1 DEF WaveInv
    <2>4. \A k \in Core : core'[k] \notin Active
      BY <2>1 DEF Active
    <2>5. OpenSteps' = {}
      BY <2>3, <2>4 DEF OpenSteps
    <2> QED BY <2>1, <2>2, <2>5 DEF WaveInv, NoJobs, Terminal
  <1>7. ~RespondNothing(e) /\ ~FailNothing(e)
    BY DEF RespondNothing, FailNothing
  <1> QED BY <1>2, <1>3, <1>4, <1>5, <1>6, <1>7 DEF Respond

\* Every step keeps the waves of a Run that stays undisturbed.
LEMMA WaveStep ==
    ASSUME TypeOK, PendingFresh, LeaseInv, PlanInv, WaveInv, Undisturbed, Undisturbed', [Next]_vars
    PROVE  WaveInv'
  <1>0. SUFFICES ASSUME status \notin Terminal PROVE WaveInv'
    BY WaveOver
  <1>1. CASE UNCHANGED vars
    BY <1>1, WaveSame
  <1>2. CASE Tick
    BY <1>2, WaveSame DEF Tick
  <1>3. CASE ClaimTimeout
    BY <1>3, WaveEnds DEF ClaimTimeout, Drops
  <1>4. ASSUME NEW e \in Executors, Claim(e) PROVE WaveInv'
    <2>1. status = "PENDING" /\ \A f \in Executors : ~Busy(f)
      BY <1>4, FirstClaim
    <2>2. /\ status' = "RUNNING" /\ UNCHANGED <<step, job>>
          /\ pc' = [pc EXCEPT ![e] = "prepare"]
      BY <1>4 DEF Claim
    <2>3. \A c \in Caps : step'[c] # "RUNNING"
      BY <2>1, <2>2 DEF PendingFresh
    <2>4. \A f \in Executors : NoJobs(f)'
      BY <2>1, <2>2 DEF Busy, NoJobs
    <2>5. pc'[e] = "prepare" /\ \A f \in Executors : f # e => pc'[f] = "idle"
      BY <2>1, <2>2 DEF Busy, TypeOK
    <2>6. status' \notin Terminal
      BY <2>2 DEF Terminal
    <2> QED BY <2>3, <2>4, <2>5, <2>6, WaveRests
  <1>5. ASSUME NEW e \in Executors, Execute(e) PROVE WaveInv'
    <2>1. Busy(e)
      BY <1>5, ExecuteBusy
    <2> QED
      BY <1>0, <1>5, <2>1, WavePrepare, WaveSteps, WaveInvoke, WaveReplan, WaveRespond DEF Execute
  <1>6. CASE People
    <2>1. ASSUME NEW i \in DOMAIN approvals, Approve(i) PROVE FALSE
      <3>1. approvals' = [approvals EXCEPT ![i].status = "APPROVED"] /\ approvals[i] \in Approval
        BY <2>1 DEF Approve, TypeOK
      <3>2. i \in DOMAIN approvals' /\ approvals'[i].status = "APPROVED"
        BY <3>1 DEF Approval
      <3> QED BY <3>2 DEF Undisturbed
    <2>2. ASSUME NEW i \in DOMAIN approvals, Reject(i) PROVE WaveInv'
      BY <1>0, <2>2, WaveEnds DEF Reject, Drops
    <2>3. ASSUME NEW i \in DOMAIN approvals, ExpireApproval(i) PROVE WaveInv'
      BY <2>3, WaveSame DEF ExpireApproval
    <2>4. ~Answer
      BY DEF Answer, LeaseInv, LeaseHeld, Undisturbed
    <2>5. CASE ExpireClarification
      BY <2>5, WaveEnds DEF ExpireClarification, Drops
    <2>6. CASE CancelRun
      BY <2>6, WaveEnds DEF CancelRun, CancelSteps, Drops
    <2>7. CASE RequestChildCancel
      BY <2>7, WaveSame DEF RequestChildCancel
    <2>8. CASE CancelChild
      <3>1. CASE status = "PENDING"
        BY <2>8, <3>1, WaveEnds DEF CancelChild, Drops
      <3>2. CASE status # "PENDING"
        BY <2>8, <3>2, WaveSame DEF CancelChild
      <3> QED BY <3>1, <3>2
    <2> QED BY <1>6, <2>1, <2>2, <2>3, <2>4, <2>5, <2>6, <2>7, <2>8 DEF People
  <1>7. ASSUME NEW e \in Executors, Busy(e), Dies(e) PROVE WaveInv'
    <2>1. \A f \in Executors : f # e => pc[f] = "idle" /\ NoJobs(f)
      BY <1>7, Others
    <2>2. \A f \in Executors : ~Busy(f)'
      BY <1>7, <2>1 DEF Dies, Busy, NoJobs, TypeOK
    <2>3. status' # "COMPLETED"
      BY <1>0, <1>7 DEF Dies, Terminal
    <2> QED BY <2>2, <2>3 DEF WaveInv, Busy, NoJobs
  <1>8. CASE Crashes
    BY <1>7, <1>8 DEF Crashes, Crash, CrashInCall, MayCall, Busy, NoJobs
  <1> QED BY <1>1, <1>2, <1>3, <1>4, <1>5, <1>6, <1>8 DEF Next, Worker

\* Nothing is allowed less than one call.
LEMMA CallsType ==
    ASSUME TypeOK, NEW c \in Caps
    PROVE  /\ Calls(c) \in Nat /\ Allowed(c) \in Nat \ {0} /\ retries[c] \in Nat
           /\ invocations[c] \in Nat /\ lost[c] \in Nat
  <1>1. invocations[c] \in Nat /\ lost[c] \in Nat /\ retries[c] \in Nat
    BY BudgetAssumption DEF TypeOK
  <1> QED BY <1>1 DEF Calls, Allowed

\* Without an approval no step under ASK is called.
LEMMA Unapproved ==
    ASSUME TypeOK, ApprovalInv, Undisturbed, NEW e \in Executors, NEW c \in Caps, MayCall(e, c)
    PROVE  c \notin AskSteps
  <1> SUFFICES ASSUME c \in AskSteps PROVE FALSE
    OBVIOUS
  <1>1. lastApproved[c] # 0
    BY DEF MayCall, FreshApproval
  <1>2. lastApproved[c] \in DOMAIN approvals
    BY <1>1, LastInDomain
  <1> QED BY <1>1, <1>2 DEF ApprovalInv, Undisturbed

\* A step that ends, and takes nothing up, leaves the calls as they are.
LEMMA CallsKept ==
    ASSUME CallsInv, UNCHANGED <<retries, invocations, lost>>, Drops,
           \A c \in Caps :
              /\ step'[c] = "WAITING_APPROVAL" => step[c] = "WAITING_APPROVAL" \/ c \in AskSteps
              /\ step'[c] \in {"ABSENT", "PENDING", "SKIPPED"} => Calls(c) < Allowed(c)
    PROVE  CallsInv'
  <1>1. \A c \in Caps : Calls(c)' = Calls(c) /\ Allowed(c)' = Allowed(c)
    BY DEF Calls, Allowed
  <1>2. \A e \in Executors, c \in Caps : job'[e][c] \in {job[e][c], "none"}
    BY DEF Drops
  <1> QED BY <1>1, <1>2 DEF CallsInv

\* One more call of a step whose call was about to be made.
LEMMA CallsOneMore ==
    ASSUME TypeOK, LeaseInv, WaveInv, CallsInv, Undisturbed,
           NEW e \in Executors, NEW c \in Caps, job[e][c] = "invoke", c \notin AskSteps,
           UNCHANGED <<retries, step>>,
           Calls(c)' = Calls(c) + 1, \A d \in Caps : d # c => Calls(d)' = Calls(d),
           job'[e][c] \notin {"invoke", "ask"},
           \A f \in Executors, d \in Caps : (f # e \/ d # c) => job'[f][d] \in {job[f][d], "none"}
    PROVE  CallsInv'
  <1>1. \A d \in Caps : Allowed(d)' = Allowed(d)
    BY DEF Allowed
  <1>2. step[c] \in {"RUNNING", "CANCELLED"}
    BY DEF WaveInv
  <1>3. \A f \in Executors : f # e => job[f][c] = "none"
    <2>1. Busy(e)
      BY DEF Busy, NoJobs
    <2> QED BY <2>1, Others DEF NoJobs
  <1>4. Calls(c) < Allowed(c)
    BY DEF CallsInv
  <1>5. Calls(c)' <= Allowed(c)
    <2>1. Calls(c) \in Nat /\ Allowed(c) \in Nat
      BY CallsType
    <2> QED BY <1>4, <2>1
  <1>6. \A f \in Executors, d \in Caps : job'[f][d] = "ask" => d \in AskSteps
    BY DEF CallsInv
  <1>7. \A f \in Executors : job'[f][c] # "invoke"
    BY <1>3
  <1>8. \A d \in Caps : d # c =>
          \A f \in Executors : job'[f][d] = "invoke" => job[f][d] = "invoke"
    OBVIOUS
  <1>9. ASSUME NEW d \in Caps, d # c
        PROVE  /\ d \in AskSteps => Calls(d)' = 0
               /\ step'[d] = "WAITING_APPROVAL" => d \in AskSteps
               /\ Calls(d)' <= Allowed(d)'
               /\ step'[d] \in {"ABSENT", "PENDING", "SKIPPED"} => Calls(d)' < Allowed(d)'
               /\ \A f \in Executors : job'[f][d] = "invoke" => Calls(d)' < Allowed(d)'
    BY <1>1, <1>8, <1>9 DEF CallsInv
  <1>10. /\ c \notin AskSteps
         /\ step'[c] \in {"RUNNING", "CANCELLED"}
         /\ Calls(c)' <= Allowed(c)'
         /\ \A f \in Executors : job'[f][c] # "invoke"
    BY <1>1, <1>2, <1>5, <1>7
  <1> QED BY <1>6, <1>9, <1>10 DEF CallsInv

\* Every step keeps the calls of a Run that stays undisturbed within what is allowed.
LEMMA CallsStep ==
    ASSUME TypeOK, PendingFresh, LeaseInv, PlanInv, ApprovalInv, WaveInv, CallsInv,
           Undisturbed, [Next]_vars
    PROVE  CallsInv'
  <1>1. CASE Still
    BY <1>1, CallsKept DEF Still, CallsInv
  <1>2. CASE Closes
    <2>1. \A c \in Caps : step'[c] \in {"ABSENT", "PENDING", "SKIPPED", "WAITING_APPROVAL"} =>
                              step'[c] = step[c]
      BY <1>2 DEF Closes, CancelActive, Active
    <2> QED BY <1>2, <2>1, CallsKept DEF Closes, CallsInv
  <1>3. CASE Grows
    <2>1. PICK n \in 1..MaxCaps : CanGrow(n) /\ AppendSteps(n)
      BY <1>3 DEF Grows
    <2>2. \A c \in Caps : step'[c] = step[c] \/ (step'[c] = "PENDING" /\ step[c] = "ABSENT")
      BY <2>1, GrownFresh DEF AppendSteps, PlanInv
    <2>3. Drops /\ UNCHANGED <<retries, invocations, lost>>
      BY <1>3 DEF Grows, Drops
    <2> QED BY <2>2, <2>3, CallsKept DEF CallsInv
  <1>4. ASSUME NEW e \in Executors, PreparePlan(e) PROVE CallsInv'
    <2>1. \A c \in Caps : step'[c] # "WAITING_APPROVAL" /\ step[c] = "ABSENT"
      BY <1>4 DEF PreparePlan, PlanInv
    <2>2. Drops /\ UNCHANGED <<retries, invocations, lost>>
      BY <1>4 DEF PreparePlan, Goto, Drops
    <2> QED BY <2>1, <2>2, CallsKept DEF CallsInv
  <1>5. ASSUME NEW e \in Executors, Scheduling(e), NEW c \in Caps, step[c] \in Active
        PROVE  Calls(c) < Allowed(c)
    <2>1. NoJobs(e) /\ Busy(e) /\ status \notin Terminal
      BY <1>5 DEF Scheduling, AtWave, Busy
    <2>2. step[c] # "RUNNING"
      BY <2>1 DEF WaveInv, NoJobs
    <2>3. CASE step[c] = "PENDING"
      BY <2>3 DEF CallsInv
    <2>4. CASE step[c] = "WAITING_APPROVAL"
      <3>1. Calls(c) = 0
        BY <2>4 DEF CallsInv
      <3> QED BY <3>1, CallsType
    <2> QED BY <1>5, <2>2, <2>3, <2>4 DEF Active
  <1>6. ASSUME NEW e \in Executors, StepsSkip(e) PROVE CallsInv'
    <2>1. \A c \in Caps :
            step'[c] = step[c] \/ (step'[c] = "SKIPPED" /\ step[c] \in Active)
      BY <1>6 DEF StepsSkip, BlockedCaps
    <2>2. Drops /\ UNCHANGED <<retries, invocations, lost>> /\ Scheduling(e)
      BY <1>6 DEF StepsSkip, Drops
    <2> QED BY <1>5, <2>1, <2>2, CallsKept DEF CallsInv
  <1>7. ASSUME NEW e \in Executors, StepsDispatch(e) PROVE CallsInv'
    <2>1. /\ step' = [c \in Caps |-> IF c \in Ready THEN "RUNNING" ELSE step[c]]
          /\ job' = [job EXCEPT ![e] = [c \in Caps |-> IF c \in Ready THEN "invoke" ELSE "none"]]
          /\ UNCHANGED <<retries, invocations, lost>> /\ Scheduling(e)
      BY <1>7 DEF StepsDispatch, Unblocked
    <2>2. \A c \in Ready : c \in Caps /\ Calls(c) < Allowed(c)
      <3>1. \A c \in Ready : c \in Caps /\ step[c] \in Active
        BY DEF Ready, Runnable
      <3> QED BY <1>5, <2>1, <3>1
    <2>3. \A c \in Caps : Calls(c)' = Calls(c) /\ Allowed(c)' = Allowed(c)
      BY <2>1 DEF Calls, Allowed
    <2>4. \A f \in Executors, c \in Caps :
            job'[f][c] \in {job[f][c], "none"} \/ (job'[f][c] = "invoke" /\ c \in Ready)
      BY <2>1 DEF TypeOK
    <2>5. \A c \in Caps : step'[c] = "RUNNING" \/ step'[c] = step[c]
      BY <2>1
    <2> QED BY <2>2, <2>3, <2>4, <2>5 DEF CallsInv
  <1>8. ASSUME NEW e \in Executors, TransientRetry(e) PROVE CallsInv'
    <2>1. /\ \A c \in Caps : step'[c] = IF c \in Revival(RetrySet) THEN "PENDING" ELSE step[c]
          /\ \A c \in Caps : retries'[c] = IF c \in RetrySet THEN retries[c] + 1 ELSE retries[c]
          /\ UNCHANGED <<job, invocations, lost>>
      BY <1>8 DEF TransientRetry, Goto
    <2>2. \A c \in Caps : Calls(c)' = Calls(c)
      BY <2>1 DEF Calls
    <2>3. \A c \in Caps : /\ Calls(c) \in Nat /\ Allowed(c) \in Nat /\ Allowed(c)' \in Nat
                          /\ Allowed(c)' >= Allowed(c)
                          /\ c \in RetrySet => Allowed(c)' = Allowed(c) + 1
      <3> TAKE c \in Caps
      <3>1. Calls(c) \in Nat /\ Allowed(c) \in Nat /\ retries[c] \in Nat
        BY CallsType
      <3>2. c \in RetrySet => c \in ReadOnly
        BY DEF RetrySet
      <3> QED BY <2>1, <3>1, <3>2 DEF Allowed
    <2>4. \A c \in Caps : Calls(c) <= Allowed(c)
      BY DEF CallsInv
    <2>5. \A c \in Revival(RetrySet) : Calls(c) < Allowed(c)'
      <3> TAKE c \in Revival(RetrySet)
      <3>1. c \in Caps /\ step[c] \in {"FAILED", "SKIPPED"} /\ (step[c] = "FAILED" => c \in RetrySet)
        BY RetryReopens
      <3>2. CASE c \in RetrySet
        BY <2>3, <2>4, <3>1, <3>2
      <3>3. CASE step[c] = "SKIPPED"
        <4>1. Calls(c) < Allowed(c)
          BY <3>1, <3>3 DEF CallsInv
        <4> QED BY <2>3, <3>1, <4>1
      <3> QED BY <3>1, <3>2, <3>3
    <2>6. \A c \in Caps : /\ Calls(c) <= Allowed(c)'
                          /\ Calls(c) < Allowed(c) => Calls(c) < Allowed(c)'
      BY <2>3, <2>4
    <2> QED BY <2>1, <2>2, <2>5, <2>6 DEF CallsInv
  <1>9. ASSUME NEW e \in Executors, NEW c \in Caps, Gateway(e, c) PROVE CallsInv'
    <2>1. CASE GatewayCalls(e, c)
      <3>1. /\ job[e][c] = "invoke" /\ UNCHANGED <<retries, step, lost>>
            /\ invocations' = [invocations EXCEPT ![c] = @ + 1]
            /\ \E p \in {"ok", "retryable", "fatal"} : SetJob(e, c, p)
        BY <2>1 DEF GatewayCalls, MayCall
      <3>2. c \notin AskSteps
        BY <2>1, Unapproved DEF GatewayCalls
      <3>3. Calls(c)' = Calls(c) + 1
        <4>1. invocations'[c] = invocations[c] + 1 /\ lost' = lost
          BY <3>1 DEF TypeOK
        <4>2. invocations[c] \in Nat /\ lost[c] \in Nat
          BY CallsType
        <4> QED BY <4>1, <4>2 DEF Calls
      <3>4. \A d \in Caps : d # c => Calls(d)' = Calls(d)
        BY <3>1 DEF Calls, TypeOK
      <3>5. /\ job'[e][c] \notin {"invoke", "ask"}
            /\ \A f \in Executors, d \in Caps : (f # e \/ d # c) => job'[f][d] = job[f][d]
        BY <3>1 DEF SetJob, TypeOK
      <3> QED BY <3>1, <3>2, <3>3, <3>4, <3>5, CallsOneMore
    <2>2. CASE GatewayAsks(e, c) \/ GatewayRefuses(e, c) \/ GatewayLimits(e, c)
      <3>1. /\ UNCHANGED <<retries, step, invocations, lost>>
            /\ \E p \in Jobs \ {"invoke"} : SetJob(e, c, p) /\ (p = "ask" => c \in AskSteps)
        BY <2>2 DEF GatewayAsks, GatewayRefuses, GatewayLimits, Jobs
      <3>2. \A d \in Caps : Calls(d)' = Calls(d) /\ Allowed(d)' = Allowed(d)
        BY <3>1 DEF Calls, Allowed
      <3>3. \A f \in Executors, d \in Caps :
              /\ job'[f][d] = "invoke" => job[f][d] = "invoke"
              /\ job'[f][d] = "ask" => job[f][d] = "ask" \/ d \in AskSteps
        BY <3>1 DEF SetJob, TypeOK
      <3> QED BY <3>1, <3>2, <3>3 DEF CallsInv
    <2> QED BY <1>9, <2>1, <2>2 DEF Gateway
  <1>10. ASSUME NEW e \in Executors, NEW c \in Caps, FinishStep(e, c) PROVE CallsInv'
    <2>1. /\ SetJob(e, c, "none") /\ UNCHANGED <<retries, invocations, lost>>
          /\ step' = [step EXCEPT ![c] = IF job[e][c] = "ok" THEN "COMPLETED" ELSE "FAILED"]
      BY <1>10 DEF FinishStep
    <2>2. Drops
      BY <2>1, SetJobDrops
    <2>3. \A d \in Caps : step'[d] \in {"COMPLETED", "FAILED"} \/ step'[d] = step[d]
      BY <2>1 DEF TypeOK
    <2> QED BY <2>1, <2>2, <2>3, CallsKept DEF CallsInv
  <1>11. ASSUME NEW e \in Executors, NEW c \in Caps, WaitApproval(e, c) PROVE CallsInv'
    <2>1. /\ SetJob(e, c, "none") /\ UNCHANGED <<retries, invocations, lost>>
          /\ step' = [step EXCEPT ![c] = "WAITING_APPROVAL"] /\ job[e][c] = "ask"
      BY <1>11 DEF WaitApproval
    <2>2. Drops /\ c \in AskSteps
      BY <2>1, SetJobDrops DEF CallsInv
    <2>3. \A d \in Caps : (step'[d] = "WAITING_APPROVAL" /\ d = c) \/ step'[d] = step[d]
      BY <2>1 DEF TypeOK
    <2> QED BY <2>1, <2>2, <2>3, CallsKept DEF CallsInv
  <1>12. ASSUME NEW e \in Executors, NEW c \in Caps, CrashInCall(e, c) PROVE CallsInv'
    <2>1. /\ job[e][c] = "invoke" /\ UNCHANGED <<retries, step, invocations>>
          /\ lost' = [lost EXCEPT ![c] = @ + 1] /\ Dies(e)
      BY <1>12 DEF CrashInCall, MayCall, Dies
    <2>2. c \notin AskSteps
      BY <1>12, Unapproved DEF CrashInCall
    <2>3. Calls(c)' = Calls(c) + 1
      <3>1. lost'[c] = lost[c] + 1 /\ invocations' = invocations
        BY <2>1 DEF TypeOK
      <3>2. invocations[c] \in Nat /\ lost[c] \in Nat
        BY CallsType
      <3> QED BY <3>1, <3>2 DEF Calls
    <2>4. \A d \in Caps : d # c => Calls(d)' = Calls(d)
      BY <2>1 DEF Calls, TypeOK
    <2>5. /\ job'[e][c] = "none"
          /\ \A f \in Executors, d \in Caps : job'[f][d] \in {job[f][d], "none"}
      BY <2>1 DEF Dies, TypeOK
    <2> QED BY <2>1, <2>2, <2>3, <2>4, <2>5, CallsOneMore
  <1> QED BY <1>1, <1>2, <1>3, <1>4, <1>6, <1>7, <1>8, <1>9, <1>10, <1>11, <1>12, StepKinds
          DEF PlanKinds

\* What the lease gives its only executor: the waves and the calls are as the plan says.
LEMMA AloneKept == Spec => []AloneInv
  <1>1. Init => AloneInv
    <2> SUFFICES ASSUME Init PROVE WaveInv /\ CallsInv
      BY DEF AloneInv
    <2>1. \A e \in Executors : ~Busy(e) /\ NoJobs(e)
      BY DEF Init, Busy, NoJobs
    <2>2. WaveInv
      BY <2>1 DEF WaveInv, NoJobs, Init
    <2>3. \A c \in Caps : Calls(c) = 0 /\ Allowed(c) = 1
      BY DEF Init, Calls, Allowed
    <2>4. CallsInv
      BY <2>1, <2>3 DEF CallsInv, NoJobs, Init
    <2> QED BY <2>2, <2>4
  <1>2. TypeOK /\ PendingFresh /\ LeaseInv /\ PlanInv /\ ApprovalInv /\ AloneInv /\ [Next]_vars
          => AloneInv'
    <2> SUFFICES ASSUME TypeOK, PendingFresh, LeaseInv, PlanInv, ApprovalInv, AloneInv, [Next]_vars,
                        Undisturbed'
                 PROVE  WaveInv' /\ CallsInv'
      BY DEF AloneInv
    <2>1. Undisturbed
      BY DisturbedStays
    <2>2. WaveInv /\ CallsInv
      BY <2>1 DEF AloneInv
    <2> QED BY <2>1, <2>2, WaveStep, CallsStep
  <1> QED BY <1>1, <1>2, TypeCorrect, Untouched, LeaseInvariant, PlanShape, ApprovalsKept, PTL DEF Spec

\* A capability with a side effect is called at most once and a read-only one once more per
\* charged retry, calls lost in a crash included, until an approval or an answer hands the Run
\* to a second executor.
THEOREM CallsAreBounded == Spec => []CallsBounded
  <1>1. AloneInv => CallsBounded
    BY DEF AloneInv, CallsInv, CallsBounded, Calls, Allowed
  <1> QED BY <1>1, AloneKept, PTL

\* plan_dependency_deadlock is never raised, a job in flight has its dependencies complete, and
\* the answer leaves no step open and no call in flight.
THEOREM PlanIsHonoured == Spec => []PlanHonoured
  <1>1. ASSUME TypeOK, PlanInv, AloneInv PROVE PlanHonoured
    <2>1. ~Deadlocked
      BY <1>1, NoDeadlock
    <2>2. Undisturbed => WaveInv
      BY <1>1 DEF AloneInv
    <2> QED BY <2>1, <2>2 DEF WaveInv, PlanHonoured
  <1> QED BY <1>1, TypeCorrect, PlanShape, AloneKept, PTL
=============================================================================
