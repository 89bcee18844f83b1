----------------------------- MODULE Automation -----------------------------
(***************************************************************************)
(* One workflow of the automation service: its owner, its schedule, its    *)
(* executions with their steps, the child Runs that the analysis steps     *)
(* start, the reviewers, and the automation workers under a lease.         *)
(*                                                                         *)
(* A transaction that locks the workflow, the execution or the schedule is *)
(* one action.  Enabling a schedule reads the workflow without a lock and  *)
(* is two.  Where the code takes the oldest row and skips the locked ones, *)
(* any row may be the one it gets.                                         *)
(*                                                                         *)
(* Deadlines and leases are kept as their distance from now, in ticks (0   *)
(* has passed, None is NULL); the times of a schedule are absolute.        *)
(***************************************************************************)
EXTENDS Integers, FiniteSets

CONSTANTS
    Steps,          \* ordinals of the steps of a WorkflowSpec
    Plans,          \* the specs the workflow may be created with: type and depends_on
    MaxConcurrency, \* max_concurrency of an ALLOW workflow
    Notify,         \* the outcomes the owner is notified of: notify_on_...
    Keys,           \* idempotency keys of manual triggers
    Workers,        \* tasks of AutomationWorker, over all processes
    Timeout,        \* timeout_seconds of the workflow
    Lease, Poll,    \* automation_lease_seconds, automation_poll_interval_seconds
    Period, Grace,  \* of the schedule: cron_expression, misfire_grace_seconds
    Horizon,        \* last instant of the clock of the schedule (bound)
    Execs,          \* executions the workflow may come to own (bound)
    MaxCrashes      \* crashes of workers (bound)

Kinds == {"ANALYSIS", "NOTIFICATION", "HUMAN_REVIEW"}

\* The notifications of the outcome; that of a NOTIFICATION step is its completion.
Note == {"success", "failure"}

ASSUME PlanAssumption ==
    /\ Steps \subseteq Nat /\ Steps # {}
    /\ Plans \subseteq [kind : [Steps -> Kinds], deps : [Steps -> SUBSET Steps]]
ASSUME AutomationTimeAssumption ==
    /\ Timeout \in Nat /\ Lease \in Nat /\ Poll \in Nat
    /\ Period \in Nat \ {0} /\ Grace \in Nat /\ Horizon \in Nat
ASSUME AutomationBoundAssumption ==
    /\ MaxConcurrency \in Nat \ {0}
    /\ Execs \subseteq Nat /\ MaxCrashes \in Nat
    /\ Notify \subseteq Note

VARIABLES
    wf,         \* the WorkflowDefinition row
    sched,      \* its WorkflowSchedule row
    enabling,   \* set_schedule_enabled has read an ACTIVE workflow
    now,        \* the clock, as the schedule sees it
    exec,       \* the AutomationExecution rows with their steps and notifications
    child,      \* child[e][s]: the Run of step s
    pc,         \* worker tasks
    crashes

vars == <<wf, sched, enabling, now, exec, child, pc, crashes>>

None == -1
NoKey == -2     \* no idempotency key was given: the code makes a unique one
Manual == -3    \* scheduled_for of a manual trigger

Policies == {"FORBID", "ALLOW", "REPLACE"}
Misfire == {"SKIP", "FIRE_ONCE"}

Active   == {"PENDING", "RUNNING", "WAITING_REVIEW"}
Terminal == {"COMPLETED", "FAILED", "CANCELLED", "SKIPPED"}
ExecStatus == {"ABSENT"} \cup Active \cup Terminal
StepStatus == Active \cup Terminal

RunOver == {"COMPLETED", "FAILED", "CANCELLED"}
\* WAITING stands for WAITING_APPROVAL and WAITING_USER
RunStatus == {"ABSENT", "PENDING", "RUNNING", "WAITING"} \cup RunOver

\* asked: cancellation_requested_at is set; held: a RunWorker executes the Run
ChildRow == [status : RunStatus, asked : BOOLEAN, held : BOOLEAN]

NoRun  == [status |-> "ABSENT", asked |-> FALSE, held |-> FALSE]
NewRun == [status |-> "PENDING", asked |-> FALSE, held |-> FALSE]

ExecRow == [status : ExecStatus, step : [Steps -> StepStatus], note : SUBSET Note,
            deadline : Nat, lease : Nat \cup {None},
            key : Keys \cup {NoKey}, occ : Nat \cup {Manual}, at : Nat]

NoExec == [status |-> "ABSENT", step |-> [s \in Steps |-> "PENDING"], note |-> {},
           deadline |-> 0, lease |-> None, key |-> NoKey, occ |-> Manual, at |-> 0]

Init ==
    /\ \E policy \in Policies, plan \in Plans :
          wf = [status |-> "DRAFT", published |-> FALSE, policy |-> policy, plan |-> plan]
    /\ sched = [exists |-> FALSE, enabled |-> FALSE, next |-> 0, misfire |-> "SKIP"]
    /\ enabling = FALSE /\ now \in 0 .. Horizon
    /\ exec = [e \in Execs |-> NoExec]
    /\ child = [e \in Execs |-> [s \in Steps |-> NoRun]]
    /\ pc = [w \in Workers |-> [at |-> "idle", of |-> None]]
    /\ crashes \in 0 .. MaxCrashes
-----------------------------------------------------------------------------
(***************************************************************************)
(* The workflow and its schedule.  create_workflow is Init; the versions   *)
(* of a workflow are reduced to whether one has been published.            *)
(***************************************************************************)
workVars == <<exec, child, pc, crashes>>

PublishVersion ==
    /\ wf.status # "RETIRED"
    /\ wf' = [wf EXCEPT !.status = "ACTIVE", !.published = TRUE]
    /\ UNCHANGED <<sched, enabling, now, workVars>>

SetWorkflowStatus(target) ==
    /\ target = "ACTIVE" => wf.published
    /\ wf.status = "RETIRED" => target = "RETIRED"
    /\ enabling => ~sched.enabled \/ target = "ACTIVE"      \* the row is locked
    /\ wf' = [wf EXCEPT !.status = target]
    /\ sched' = [sched EXCEPT !.enabled = @ /\ target = "ACTIVE"]
    /\ UNCHANGED <<enabling, now, workVars>>

\* next_cron_occurrence, of a cron expression that fires every Period
NextOccurrence(t) == ((t \div Period) + 1) * Period

CreateSchedule(misfire, enabled) ==
    /\ wf.status = "ACTIVE"
    /\ ~sched.exists
    /\ sched' = [exists |-> TRUE, enabled |-> enabled, next |-> NextOccurrence(now),
                 misfire |-> misfire]
    /\ UNCHANGED <<wf, enabling, now, workVars>>

\* set_schedule_enabled holds the schedule and only reads the workflow
ReadToEnable ==
    /\ sched.exists /\ ~enabling
    /\ wf.status = "ACTIVE"
    /\ enabling' = TRUE
    /\ UNCHANGED <<wf, sched, now, workVars>>

EnableSchedule ==
    /\ enabling
    /\ enabling' = FALSE
    /\ sched' = [sched EXCEPT !.enabled = TRUE, !.next = NextOccurrence(now)]
    /\ UNCHANGED <<wf, now, workVars>>

DisableSchedule ==
    /\ sched.exists /\ ~enabling
    /\ sched' = [sched EXCEPT !.enabled = FALSE]
    /\ UNCHANGED <<wf, enabling, now, workVars>>
-----------------------------------------------------------------------------
(***************************************************************************)
(* trigger_workflow: a trigger is admitted, recorded as SKIPPED, or finds  *)
(* its idempotency key taken and changes nothing.                          *)
(***************************************************************************)
ActiveExecs == {e \in Execs : exec[e].status \in Active}

\* (mutant) an execution that waits for its reviewer does not count
AdmittedUnlessRunning ==
    wf.policy = "REPLACE" \/ \A e \in Execs : exec[e].status \notin {"PENDING", "RUNNING"}

Admitted ==
    CASE wf.policy = "FORBID"  -> ActiveExecs = {}
      [] wf.policy = "ALLOW"   -> Cardinality(ActiveExecs) < MaxConcurrency
      [] wf.policy = "REPLACE" -> TRUE

\* _cancel_execution_rows, on an execution x that is not terminal
CancelledExec(x) ==
    [x EXCEPT !.status = "CANCELLED", !.lease = None,
              !.step = [s \in Steps |-> IF @[s] \in Terminal THEN @[s] ELSE "CANCELLED"]]

\* ... and on its child Runs: only a PENDING one is closed
CancelledChild(x, runs) ==
    [s \in Steps |->
        IF x.step[s] \in Terminal \/ runs[s].status \in {"ABSENT"} \cup RunOver
        THEN runs[s]
        ELSE [runs[s] EXCEPT !.asked = TRUE,
                             !.status = IF @ = "PENDING" THEN "CANCELLED" ELSE @]]

NewExec(key, occ) ==
    [status   |-> IF Admitted THEN "PENDING" ELSE "SKIPPED",
     step     |-> [s \in Steps |-> IF Admitted THEN "PENDING" ELSE "SKIPPED"],
     note     |-> {}, deadline |-> Timeout, lease |-> None,
     key      |-> key, occ |-> occ, at |-> now]

Known(key, occ) ==
    \E e \in Execs : /\ exec[e].status # "ABSENT"
                     /\ \/ key # NoKey /\ exec[e].key = key
                        \/ occ # Manual /\ exec[e].occ = occ

Replaced == IF wf.policy = "REPLACE" THEN ActiveExecs ELSE {}

Admit(new, key, occ) ==
    /\ wf.status = "ACTIVE"
    /\ exec[new].status = "ABSENT"
    /\ ~Known(key, occ)
    /\ exec' = [e \in Execs |->
                   IF e = new THEN NewExec(key, occ)
                   ELSE IF e \in Replaced THEN CancelledExec(exec[e]) ELSE exec[e]]
    /\ child' = [e \in Execs |->
                    IF e \in Replaced THEN CancelledChild(exec[e], child[e]) ELSE child[e]]

\* The rows are numbered in the order they are created.
Fresh(e) == exec[e].status = "ABSENT" /\ \A f \in Execs : f < e => exec[f].status # "ABSENT"

TriggerWorkflow(key) ==
    /\ \E new \in Execs : Fresh(new) /\ Admit(new, key, Manual)
    /\ UNCHANGED <<wf, sched, enabling, now, pc, crashes>>
-----------------------------------------------------------------------------
(***************************************************************************)
(* tick_schedules.  The schedule row is locked: nothing fires between the  *)
(* two steps of set_schedule_enabled.                                      *)
(***************************************************************************)
Due == sched.enabled /\ ~enabling /\ sched.next <= now

Misfired == now - sched.next > Grace

\* (mutant) every missed occurrence gets its own turn
FollowingAlways == NextOccurrence(sched.next)

Following == NextOccurrence(IF Misfired THEN now ELSE sched.next)

DisableUnusable ==
    /\ Due
    /\ wf.status # "ACTIVE"
    /\ sched' = [sched EXCEPT !.enabled = FALSE]
    /\ UNCHANGED <<wf, enabling, now, workVars>>

SkipMisfire ==
    /\ Due /\ wf.status = "ACTIVE"
    /\ Misfired /\ sched.misfire = "SKIP"
    /\ sched' = [sched EXCEPT !.next = Following]
    /\ UNCHANGED <<wf, enabling, now, workVars>>

Fires == Due /\ wf.status = "ACTIVE" /\ ~(Misfired /\ sched.misfire = "SKIP")

FireSchedule ==
    /\ Fires
    /\ sched' = [sched EXCEPT !.next = Following]
    /\ \E new \in Execs : Fresh(new) /\ Admit(new, NoKey, sched.next)
    /\ UNCHANGED <<wf, enabling, now, pc, crashes>>

\* The owner has lost the permission or the workspace: the schedule is switched off.
FireDenied ==
    /\ Fires
    /\ sched' = [sched EXCEPT !.next = Following, !.enabled = FALSE]
    /\ UNCHANGED <<wf, enabling, now, workVars>>
-----------------------------------------------------------------------------
(***************************************************************************)
(* AutomationWorker: _claim_execution, then _advance, which locks the      *)
(* execution but does not ask whether the lease is still its own.          *)
(***************************************************************************)
Idle == [at |-> "idle", of |-> None]

\* (mutant) a lease is never taken over
ClaimableUnleased(e) == exec[e].status \in {"PENDING", "RUNNING"} /\ exec[e].lease = None

Claimable(e) == exec[e].status \in {"PENDING", "RUNNING"} /\ exec[e].lease \in {None, 0}

Claim(w, e) ==
    /\ pc[w] = Idle
    /\ Claimable(e)
    /\ exec' = [exec EXCEPT ![e].status = "RUNNING", ![e].lease = Lease]
    /\ pc' = [pc EXCEPT ![w] = [at |-> "advance", of |-> e]]
    /\ UNCHANGED <<wf, sched, enabling, now, child, crashes>>

\* _fail_execution, on an execution x whose steps are st
FailedExec(x, st) ==
    [x EXCEPT !.status = "FAILED", !.lease = None, !.note = @ \cup ({"failure"} \cap Notify),
              !.step = [s \in Steps |-> IF st[s] \in Terminal THEN st[s] ELSE "SKIPPED"]]

\* ... and its child Runs, which are only asked to stop
AskedChild(st, runs) ==
    [s \in Steps |->
        IF st[s] \in Terminal \/ runs[s].status \in {"ABSENT"} \cup RunOver
        THEN runs[s] ELSE [runs[s] EXCEPT !.asked = TRUE]]

Fail(e, st) ==
    /\ exec' = [exec EXCEPT ![e] = FailedExec(exec[e], st)]
    /\ child' = [child EXCEPT ![e] = AskedChild(st, child[e])]

\* _reconcile_analysis_steps
Reconciled(e) ==
    [s \in Steps |->
        CASE exec[e].step[s] = "RUNNING" /\ child[e][s].status = "COMPLETED" -> "COMPLETED"
          [] exec[e].step[s] = "RUNNING" /\ child[e][s].status \in {"FAILED", "CANCELLED"}
                -> "FAILED"
          [] OTHER -> exec[e].step[s]]

Started(s) ==
    CASE wf.plan.kind[s] = "ANALYSIS"     -> "RUNNING"
      [] wf.plan.kind[s] = "NOTIFICATION" -> "COMPLETED"
      [] OTHER                    -> "WAITING_REVIEW"

\* The steps after those in the set started were started.
After(st, started) == [s \in Steps |-> IF s \in started THEN Started(s) ELSE st[s]]

\* The loop goes through the steps in the order of their ordinals: a dependency with a
\* smaller ordinal has had its turn, one with a larger ordinal has not.
Seen(st, started, s, d) == IF d < s THEN After(st, started)[d] ELSE st[d]

\* (mutant) one finished dependency is enough
ReadyAny(st, started, s) ==
    /\ st[s] = "PENDING"
    /\ wf.plan.deps[s] # {} => \E d \in wf.plan.deps[s] : Seen(st, started, s, d) = "COMPLETED"

Ready(st, started, s) ==
    /\ st[s] = "PENDING"
    /\ \A d \in wf.plan.deps[s] : Seen(st, started, s, d) = "COMPLETED"

Dispatched(st, started) == \A s \in Steps : s \in started <=> Ready(st, started, s)

Outcome(after) ==
    CASE \A s \in Steps : after[s] = "COMPLETED"      -> "COMPLETED"
      [] \E s \in Steps : after[s] = "WAITING_REVIEW" -> "WAITING_REVIEW"
      [] OTHER                                        -> "RUNNING"

\* The row after the loop, which has left the steps as after.
AdvancedExec(x, after) ==
    [x EXCEPT !.status = Outcome(after), !.step = after,
              !.lease = IF Outcome(after) = "RUNNING" THEN Poll ELSE None,
              !.note = @ \cup (IF Outcome(after) = "COMPLETED" THEN {"success"} \cap Notify
                               ELSE {})]

StartedChild(started, runs) ==
    [s \in Steps |-> IF s \in started /\ wf.plan.kind[s] = "ANALYSIS" THEN NewRun ELSE runs[s]]

\* (mutant) an execution that ended since it was claimed is advanced all the same
AdvanceableBlind(w) == pc[w].at = "advance"

Advanceable(w) == pc[w].at = "advance" /\ exec[pc[w].of].status \notin Terminal

FreeWorker(w) == pc' = [pc EXCEPT ![w] = Idle] /\ UNCHANGED <<wf, sched, enabling, now, crashes>>

\* The execution has ended meanwhile.
AdvanceEnded(w) ==
    /\ pc[w].at \in {"advance", "fail"}
    /\ exec[pc[w].of].status \in Terminal
    /\ FreeWorker(w)
    /\ UNCHANGED <<exec, child>>

\* The deadline has passed, or the owner has lost automation.trigger.
AdvanceDenied(w, permitted) ==
    LET e == pc[w].of IN
    /\ Advanceable(w)
    /\ exec[e].deadline = 0 \/ ~permitted
    /\ Fail(e, exec[e].step)
    /\ FreeWorker(w)

AdvanceFails(w) ==
    LET e == pc[w].of IN
    /\ Advanceable(w)
    /\ exec[e].deadline > 0
    /\ \E s \in Steps : Reconciled(e)[s] = "FAILED"
    /\ Fail(e, Reconciled(e))
    /\ FreeWorker(w)

Advance(w) ==
    LET e  == pc[w].of
        st == Reconciled(e)
    IN
    /\ Advanceable(w)
    /\ exec[e].deadline > 0
    /\ \A s \in Steps : st[s] # "FAILED"
    /\ \E started \in SUBSET Steps :
          /\ Dispatched(st, started)
          /\ exec' = [exec EXCEPT ![e] = AdvancedExec(exec[e], After(st, started))]
          /\ child' = [child EXCEPT ![e] = StartedChild(started, child[e])]
    /\ FreeWorker(w)

\* An exception takes the transaction back; _execute then fails the execution.
AdvanceRaises(w) ==
    /\ pc[w].at = "advance"
    /\ pc' = [pc EXCEPT ![w].at = "fail"]
    /\ UNCHANGED <<wf, sched, enabling, now, exec, child, crashes>>

\* (mutant) the execution is failed whatever became of it
FailableBlind(w) == pc[w].at = "fail"

Failable(w) == pc[w].at = "fail" /\ exec[pc[w].of].status \notin Terminal

FailAfterException(w) ==
    /\ Failable(w)
    /\ Fail(pc[w].of, exec[pc[w].of].step)
    /\ FreeWorker(w)

Crash(w) ==
    /\ crashes < MaxCrashes
    /\ pc[w] # Idle
    /\ crashes' = crashes + 1
    /\ pc' = [pc EXCEPT ![w] = Idle]
    /\ UNCHANGED <<wf, sched, enabling, now, exec, child>>
-----------------------------------------------------------------------------
(***************************************************************************)
(* People: the owner cancels an execution, a reviewer decides on a step.   *)
(***************************************************************************)
CancelExecution(e) ==
    /\ exec[e].status \in Active
    /\ exec' = [exec EXCEPT ![e] = CancelledExec(exec[e])]
    /\ child' = [child EXCEPT ![e] = CancelledChild(exec[e], child[e])]
    /\ UNCHANGED <<wf, sched, enabling, now, pc, crashes>>

ApproveStep(e, s) ==
    /\ exec[e].step[s] = "WAITING_REVIEW"
    /\ exec' = [exec EXCEPT ![e].step[s] = "COMPLETED", ![e].status = "RUNNING",
                            ![e].lease = None]
    /\ UNCHANGED <<wf, sched, enabling, now, child, pc, crashes>>

\* _cancel_pending_steps: a step that is RUNNING, and its child Run, are left alone
WithdrawnSteps(st) ==
    [t \in Steps |-> IF st[t] \in {"PENDING", "WAITING_REVIEW"} THEN "SKIPPED" ELSE st[t]]

\* review_step writes FAILED to the step, but the session has not flushed it when
\* _cancel_pending_steps selects what is WAITING_REVIEW: the rejected step is among them
\* and ends as SKIPPED.
RejectStep(e, s) ==
    /\ exec[e].step[s] = "WAITING_REVIEW"
    /\ exec' = [exec EXCEPT ![e].step = WithdrawnSteps(@), ![e].status = "FAILED",
                            ![e].lease = None, ![e].note = @ \cup ({"failure"} \cap Notify)]
    /\ UNCHANGED <<wf, sched, enabling, now, child, pc, crashes>>
-----------------------------------------------------------------------------
(***************************************************************************)
(* The child Runs, as RunLifecycle describes them: a Run that was asked to *)
(* stop is not claimed any more, so only a worker that holds it, or a      *)
(* person, can end it.                                                     *)
(***************************************************************************)
SetChild(e, s, row) ==
    /\ child' = [child EXCEPT ![e][s] = row]
    /\ UNCHANGED <<wf, sched, enabling, now, exec, pc, crashes>>

ChildClaim(e, s) ==
    LET r == child[e][s] IN
    /\ r.status \in {"PENDING", "RUNNING"} /\ ~r.held /\ ~r.asked
    /\ SetChild(e, s, [r EXCEPT !.status = "RUNNING", !.held = TRUE])

ChildParks(e, s) ==
    LET r == child[e][s] IN
    /\ r.held
    /\ SetChild(e, s, [r EXCEPT !.status = "WAITING", !.held = FALSE])

\* An approval or an answer; nobody asks whether the Run is to be cancelled.
ChildResumes(e, s) ==
    LET r == child[e][s] IN
    /\ r.status = "WAITING"
    /\ SetChild(e, s, [r EXCEPT !.status = "RUNNING"])

ChildEnds(e, s, outcome) ==
    LET r == child[e][s] IN
    /\ r.held
    /\ SetChild(e, s, [r EXCEPT !.status = outcome, !.held = FALSE])

\* Its owner cancels the Run itself, or its approval is rejected.
ChildClosed(e, s, outcome) ==
    LET r == child[e][s] IN
    /\ r.status \in {"PENDING", "RUNNING", "WAITING"}
    /\ SetChild(e, s, [r EXCEPT !.status = outcome, !.held = FALSE])

\* The worker that executes the Run dies; its lease will expire.
ChildLost(e, s) ==
    /\ child[e][s].held
    /\ crashes < MaxCrashes
    /\ crashes' = crashes + 1
    /\ child' = [child EXCEPT ![e][s].held = FALSE]
    /\ UNCHANGED <<wf, sched, enabling, now, exec, pc>>
-----------------------------------------------------------------------------
\* (mutant) a timestamp that is NULL or has passed goes on counting
SoonerAlways(t) == t - 1

Sooner(t) == IF t > 0 THEN t - 1 ELSE t

\* One tick; the clock of the schedule stops at the horizon.
Tick ==
    /\ now' = IF now < Horizon THEN now + 1 ELSE now
    /\ exec' = [e \in Execs |-> [exec[e] EXCEPT !.deadline = Sooner(@), !.lease = Sooner(@)]]
    /\ UNCHANGED <<wf, sched, enabling, child, pc, crashes>>

Manage ==
    \/ PublishVersion
    \/ \E t \in {"ACTIVE", "PAUSED", "RETIRED"} : SetWorkflowStatus(t)
    \/ \E m \in Misfire, b \in BOOLEAN : CreateSchedule(m, b)
    \/ ReadToEnable \/ EnableSchedule \/ DisableSchedule
    \/ \E k \in Keys \cup {NoKey} : TriggerWorkflow(k)

Scheduler == DisableUnusable \/ SkipMisfire \/ FireSchedule \/ FireDenied

Work(w) ==
    \/ AdvanceEnded(w) \/ AdvanceFails(w) \/ Advance(w)
    \/ \E b \in BOOLEAN : AdvanceDenied(w, b)
    \/ FailAfterException(w)

People ==
    \E e \in Execs : \/ CancelExecution(e)
                     \/ \E s \in Steps : ApproveStep(e, s) \/ RejectStep(e, s)

ChildWork(e, s) ==
    \/ ChildClaim(e, s) \/ ChildParks(e, s)
    \/ \E o \in RunOver : ChildEnds(e, s, o)

Next ==
    \/ Manage \/ Scheduler \/ People \/ Tick
    \/ \E w \in Workers : Work(w) \/ AdvanceRaises(w) \/ Crash(w) \/ \E e \in Execs : Claim(w, e)
    \/ \E e \in Execs, s \in Steps : 
          \/ ChildWork(e, s) \/ ChildResumes(e, s) \/ ChildLost(e, s)
          \/ \E o \in {"FAILED", "CANCELLED"} : ChildClosed(e, s, o)

Spec == Init /\ [][Next]_vars

\* The worker loops run, and time passes; nobody has to trigger, review or cancel anything.
Fairness ==
    /\ WF_vars(Tick)
    /\ \A w \in Workers : WF_vars(Work(w)) /\ WF_vars(\E e \in Execs : Claim(w, e))
    /\ \A e \in Execs, s \in Steps : WF_vars(ChildWork(e, s)) /\ WF_vars(ChildResumes(e, s))

FairSpec == Spec /\ Fairness
-----------------------------------------------------------------------------
\* The rows have their types; leases and deadlines never run below the test that reads them.
AutoTypeOK ==
    /\ wf \in [status : {"DRAFT", "ACTIVE", "PAUSED", "RETIRED"}, published : BOOLEAN,
               policy : Policies, plan : Plans]
    /\ sched \in [exists : BOOLEAN, enabled : BOOLEAN, next : Nat, misfire : Misfire]
    /\ enabling \in BOOLEAN /\ now \in Nat
    /\ exec \in [Execs -> ExecRow]
    /\ child \in [Execs -> [Steps -> ChildRow]]
    /\ pc \in [Workers -> [at : {"idle", "advance", "fail"}, of : Execs \cup {None}]]
    /\ \A w \in Workers : pc[w].at # "idle" => pc[w].of \in Execs
    /\ crashes \in Nat

\* The concurrency policy holds at every moment, whoever triggers, reviews, replaces or
\* advances what: trigger_workflow counts under the lock of the workflow, everybody else
\* writes executions without it.
AdmissionRespected ==
    /\ wf.policy \in {"FORBID", "REPLACE"} => Cardinality(ActiveExecs) <= 1
    /\ wf.policy = "ALLOW" => Cardinality(ActiveExecs) <= MaxConcurrency

\* The owner is told exactly what became of an execution: a success only of one whose
\* steps all completed, a failure only of one that failed, never both, and nothing of one
\* that was cancelled or skipped.  A failed execution shows a step that failed or was
\* skipped, unless all its steps had completed, by a reviewer's hand, and no worker could
\* record that before the deadline or the permission had gone.
OutcomeTruthful ==
    \A e \in Execs :
        LET x == exec[e] IN
        /\ x.note =
              Notify \cap (CASE x.status = "COMPLETED" -> {"success"}
                             [] x.status = "FAILED"    -> {"failure"}
                             [] OTHER                  -> {})
        /\ x.status = "COMPLETED" => \A s \in Steps : x.step[s] = "COMPLETED"
        /\ x.status = "FAILED" =>
              \/ \E s \in Steps : x.step[s] \in {"FAILED", "SKIPPED"}
              \/ /\ \A s \in Steps : x.step[s] = "COMPLETED"
                 /\ \E s \in Steps : wf.plan.kind[s] = "HUMAN_REVIEW"

\* Steps run in the order of their dependencies, an analysis completes only with its Run,
\* and nothing is left waiting in an execution that has ended.  The Runs of a cancelled or
\* failed execution have been asked to stop: only a rejection leaves its RUNNING steps alone,
\* and the review that was rejected, SKIPPED although its turn had come, shows it.
StepsFollowPlan ==
    \A e \in Execs, s \in Steps :
        LET st == exec[e].step IN
        /\ st[s] \in {"RUNNING", "WAITING_REVIEW", "COMPLETED"} =>
              \A d \in wf.plan.deps[s] : st[d] = "COMPLETED"
        /\ wf.plan.kind[s] = "ANALYSIS" /\ st[s] = "COMPLETED" => child[e][s].status = "COMPLETED"
        /\ exec[e].status \in Terminal => st[s] \notin {"PENDING", "WAITING_REVIEW"}
        /\ exec[e].status \in Terminal /\ st[s] = "RUNNING" =>
              /\ exec[e].status = "FAILED"
              /\ \E t \in Steps : /\ wf.plan.kind[t] = "HUMAN_REVIEW" /\ st[t] = "SKIPPED"
                                 /\ \A d \in wf.plan.deps[t] : st[d] = "COMPLETED"
        /\ st[s] \in {"CANCELLED", "SKIPPED"} =>
              child[e][s].status \in {"ABSENT"} \cup RunOver \/ child[e][s].asked

\* An execution that has ended never changes again: not by a worker that claimed it before
\* it was cancelled, replaced or rejected, nor by the failure handler of one.
ExecutionFinal ==
    [][\A e \in Execs : exec[e].status \in Terminal =>
          /\ exec'[e].status = exec[e].status
          /\ exec'[e].step = exec[e].step
          /\ exec'[e].note = exec[e].note]_vars

\* An occurrence of the schedule and an idempotency key lead to one execution, and however
\* many occurrences an outage has swallowed, it is followed by one late execution at most,
\* by none under SKIP.
TriggeredOnce ==
    LET Late(e) == exec[e].occ # Manual /\ exec[e].at - exec[e].occ > Grace IN
    \A e, f \in {g \in Execs : exec[g].status # "ABSENT"} :
        /\ Late(e) => sched.misfire = "FIRE_ONCE"
        /\ e # f =>
              /\ exec[e].occ = Manual \/ exec[e].occ # exec[f].occ
              /\ exec[e].key = NoKey \/ exec[e].key # exec[f].key
              /\ Late(e) /\ Late(f) => exec[e].at # exec[f].at

\* No execution is forgotten: it ends, or it waits for a reviewer.
ExecutionSettles ==
    \A e \in Execs :
        exec[e].status \in {"PENDING", "RUNNING"} ~>
            exec[e].status \in Terminal \cup {"WAITING_REVIEW"}

\* "active child Runs receive the ordinary Run cancellation request"
\* (docs/architecture/automation-design.md): a child Run that was asked to stop ends.
CancelledChildEnds ==
    \A e \in Execs, s \in Steps :
        child[e][s].asked ~> child[e][s].status \in RunOver
=============================================================================
