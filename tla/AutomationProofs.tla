-------------------------- MODULE AutomationProofs --------------------------
(***************************************************************************)
(* Theorems about Automation, for every workflow, schedule, number of      *)
(* workers, executions and crashes.                                        *)
(***************************************************************************)
EXTENDS Automation, FiniteSetTheorems, TLAPS

USE DEF vars, workVars

Runs == [Steps -> ChildRow]
PlanType == [kind : [Steps -> Kinds], deps : [Steps -> SUBSET Steps]]

\* What the owner is told of an execution with this status
Told(status) ==
    CASE status = "COMPLETED" -> {"success"}
      [] status = "FAILED"    -> {"failure"}
      [] OTHER                -> {}

\* One step of an execution x with the Runs of its steps
StepInv(plan, x, runs, s) ==
    /\ x.step[s] \in {"RUNNING", "WAITING_REVIEW", "COMPLETED"} =>
          \A d \in plan.deps[s] : x.step[d] = "COMPLETED"
    /\ x.step[s] \in {"PENDING", "WAITING_REVIEW"} => runs[s].status = "ABSENT"
    /\ x.step[s] = "WAITING_REVIEW" => plan.kind[s] = "HUMAN_REVIEW"
    /\ plan.kind[s] = "ANALYSIS" /\ x.step[s] = "COMPLETED" => runs[s].status = "COMPLETED"
    /\ x.status \in Active => x.step[s] \notin {"FAILED", "CANCELLED", "SKIPPED"}
    /\ x.status \in Terminal => x.step[s] \notin {"PENDING", "WAITING_REVIEW"}
    /\ x.status \in Terminal /\ x.step[s] = "RUNNING" =>
          /\ x.status = "FAILED"
          /\ \E t \in Steps : /\ plan.kind[t] = "HUMAN_REVIEW" /\ x.step[t] = "SKIPPED"
                             /\ \A d \in plan.deps[t] : x.step[d] = "COMPLETED"
    /\ x.step[s] \in {"CANCELLED", "SKIPPED"} =>
          runs[s].status \in {"ABSENT"} \cup RunOver \/ runs[s].asked
    /\ runs[s].held => runs[s].status = "RUNNING"

\* An execution with its steps
RowInv(plan, x, runs) ==
    /\ \A s \in Steps : StepInv(plan, x, runs, s)
    /\ x.status = "ABSENT" => \A s \in Steps : x.step[s] = "PENDING"
    /\ x.note = Notify \cap Told(x.status)
    /\ x.status = "COMPLETED" => \A s \in Steps : x.step[s] = "COMPLETED"
    /\ x.status = "FAILED" =>
          \/ \E s \in Steps : x.step[s] \in {"FAILED", "SKIPPED"}
          \/ /\ \A s \in Steps : x.step[s] = "COMPLETED"
             /\ \E s \in Steps : plan.kind[s] = "HUMAN_REVIEW"
    /\ x.status \in Active /\ (\A s \in Steps : x.step[s] = "COMPLETED") =>
          \E s \in Steps : plan.kind[s] = "HUMAN_REVIEW"

Rows == \A e \in Execs : RowInv(wf.plan, exec[e], child[e])

\* A worker holds an execution that exists.
Held == \A w \in Workers : pc[w].at # "idle" => exec[pc[w].of].status # "ABSENT"

Admission == IsFiniteSet(ActiveExecs) /\ AdmissionRespected

Late(e) == exec[e].occ # Manual /\ exec[e].at - exec[e].occ > Grace

\* An execution of the schedule was created at its time or later, and the schedule has
\* gone past the time of a late one.
Fired(e) ==
    exec[e].occ # Manual =>
        /\ sched.exists /\ exec[e].occ <= exec[e].at /\ exec[e].at <= now
        /\ Late(e) => sched.misfire = "FIRE_ONCE" /\ exec[e].at < sched.next

Present == {e \in Execs : exec[e].status # "ABSENT"}

Apart(e, f) ==
    /\ exec[e].occ = Manual \/ exec[e].occ # exec[f].occ
    /\ exec[e].key = NoKey \/ exec[e].key # exec[f].key
    /\ Late(e) /\ Late(f) => exec[e].at # exec[f].at

Schedule ==
    /\ enabling \/ sched.enabled => sched.exists
    /\ \A e \in Present : Fired(e)
    /\ \A e, f \in Present : e # f => Apart(e, f)

IInv == AutoTypeOK /\ Rows /\ Held /\ Admission /\ Schedule
-----------------------------------------------------------------------------
(* What the operations make of one execution *)

\* An execution goes on: it stays what it was triggered as, it never comes to life again,
\* and once it has ended it stays as it is.
Evolves(x, y) ==
    /\ y.key = x.key /\ y.occ = x.occ /\ y.at = x.at
    /\ y.status = "ABSENT" <=> x.status = "ABSENT"
    /\ y.status \in Active => x.status \in Active
    /\ x.status \in Terminal => y.status = x.status /\ y.step = x.step /\ y.note = x.note

LEMMA Statuses ==
    /\ Active = {"PENDING", "RUNNING", "WAITING_REVIEW"}
    /\ Terminal = {"COMPLETED", "FAILED", "CANCELLED", "SKIPPED"}
    /\ RunOver = {"COMPLETED", "FAILED", "CANCELLED"}
    /\ StepStatus = {"PENDING", "RUNNING", "WAITING_REVIEW",
                     "COMPLETED", "FAILED", "CANCELLED", "SKIPPED"}
    /\ ExecStatus = {"ABSENT", "PENDING", "RUNNING", "WAITING_REVIEW",
                     "COMPLETED", "FAILED", "CANCELLED", "SKIPPED"}
  BY DEF Active, Terminal, RunOver, StepStatus, ExecStatus

\* The owner hears of a success or of a failure.
LEMMA ToldOf ==
    /\ Told("COMPLETED") = {"success"} /\ Told("FAILED") = {"failure"}
    /\ \A st : st \notin {"COMPLETED", "FAILED"} => Told(st) = {}
  BY DEF Told

\* _cancel_execution_rows
LEMMA RowCancelled ==
    ASSUME NEW plan \in PlanType, NEW x \in ExecRow, NEW runs \in Runs,
           RowInv(plan, x, runs), x.status \in Active
    PROVE  /\ CancelledExec(x) \in ExecRow /\ CancelledChild(x, runs) \in Runs
           /\ RowInv(plan, CancelledExec(x), CancelledChild(x, runs))
           /\ Evolves(x, CancelledExec(x))
  <1> DEFINE y == CancelledExec(x)
             r == CancelledChild(x, runs)
             st == [s \in Steps |-> IF x.step[s] \in Terminal THEN x.step[s] ELSE "CANCELLED"]
  <1>1. /\ x.step \in [Steps -> StepStatus] /\ x.note \in SUBSET Note
    BY DEF ExecRow
  <1>2. st \in [Steps -> StepStatus]
    BY <1>1, Statuses
  <1>3. /\ y \in ExecRow /\ y.status = "CANCELLED" /\ y.step = st /\ y.note = x.note
        /\ y.key = x.key /\ y.occ = x.occ /\ y.at = x.at
    <2> HIDE DEF st
    <2>1. y = [x EXCEPT !.status = "CANCELLED", !.lease = None, !.step = st]
      BY DEF CancelledExec, st
    <2>2. "CANCELLED" \in ExecStatus
      BY Statuses
    <2> HIDE DEF y
    <2> QED BY <1>2, <2>1, <2>2 DEF ExecRow
  <1>4. ASSUME NEW s \in Steps
        PROVE  /\ r[s] \in ChildRow
               /\ r[s].held = runs[s].held
               /\ \/ r[s] = runs[s] /\ (x.step[s] \in Terminal \/ runs[s].status \in {"ABSENT"} \cup RunOver)
                  \/ /\ x.step[s] \notin Terminal /\ r[s].asked
                     /\ r[s].status = IF runs[s].status = "PENDING" THEN "CANCELLED" ELSE runs[s].status
    <2>1. runs[s] \in ChildRow
      BY DEF Runs
    <2>2. "CANCELLED" \in RunStatus
      BY DEF RunStatus, RunOver
    <2>3. CASE x.step[s] \in Terminal \/ runs[s].status \in {"ABSENT"} \cup RunOver
      <3>1. r[s] = runs[s]
        BY <2>3 DEF CancelledChild
      <3> QED BY <2>1, <2>3, <3>1
    <2>4. CASE ~(x.step[s] \in Terminal \/ runs[s].status \in {"ABSENT"} \cup RunOver)
      <3>1. r[s] = [runs[s] EXCEPT !.asked = TRUE,
                             !.status = IF @ = "PENDING" THEN "CANCELLED" ELSE @]
        BY <2>4 DEF CancelledChild
      <3> HIDE DEF r
      <3> QED BY <2>1, <2>2, <2>4, <3>1 DEF ChildRow
    <2> QED BY <2>3, <2>4
  <1>5. r \in Runs
    BY <1>4 DEF CancelledChild, Runs
  <1>6. \A s \in Steps : st[s] = IF x.step[s] \in Terminal THEN x.step[s] ELSE "CANCELLED"
    OBVIOUS
  <1> HIDE DEF st, y, r
  <1>7. ASSUME NEW s \in Steps PROVE StepInv(plan, y, r, s)
    <2>1. StepInv(plan, x, runs, s) /\ plan.deps[s] \subseteq Steps
      BY DEF RowInv, PlanType
    <2>2. st[s] \in Terminal /\ st[s] \notin {"PENDING", "RUNNING", "WAITING_REVIEW"}
      BY <1>6, Statuses
    <2>3. st[s] = "COMPLETED" => \A d \in plan.deps[s] : st[d] = "COMPLETED"
      BY <1>6, <2>1, Statuses DEF StepInv
    <2>4. plan.kind[s] = "ANALYSIS" /\ st[s] = "COMPLETED" => r[s].status = "COMPLETED"
      BY <1>4, <1>6, <2>1, Statuses DEF StepInv
    <2>5. st[s] \in {"CANCELLED", "SKIPPED"} => r[s].status \in {"ABSENT"} \cup RunOver \/ r[s].asked
      BY <1>4, <1>6, <2>1 DEF StepInv
    <2>6. r[s].held => r[s].status = "RUNNING"
      BY <1>4, <2>1 DEF StepInv
    <2> QED BY <1>3, <2>2, <2>3, <2>4, <2>5, <2>6, Statuses DEF StepInv
  <1>8. RowInv(plan, y, r)
    <2>1. y.note = Notify \cap Told(y.status)
      BY <1>3, Statuses, ToldOf DEF RowInv
    <2> QED BY <1>3, <1>7, <2>1, Statuses DEF RowInv
  <1>9. Evolves(x, y)
    BY <1>3, Statuses DEF Evolves
  <1> QED BY <1>3, <1>5, <1>8, <1>9 DEF y, r

\* The steps st of an execution that a worker is about to move on
MidInv(plan, st, runs) ==
    /\ st \in [Steps -> StepStatus]
    /\ \A s \in Steps :
          /\ st[s] \in {"RUNNING", "WAITING_REVIEW", "COMPLETED"} =>
                \A d \in plan.deps[s] : st[d] = "COMPLETED"
          /\ st[s] \in {"PENDING", "WAITING_REVIEW"} => runs[s].status = "ABSENT"
          /\ st[s] = "WAITING_REVIEW" => plan.kind[s] = "HUMAN_REVIEW"
          /\ plan.kind[s] = "ANALYSIS" /\ st[s] = "COMPLETED" => runs[s].status = "COMPLETED"
          /\ st[s] \notin {"CANCELLED", "SKIPPED"}
          /\ runs[s].held => runs[s].status = "RUNNING"

LEMMA MidOfRow ==
    ASSUME NEW plan \in PlanType, NEW x \in ExecRow, NEW runs \in Runs,
           RowInv(plan, x, runs), x.status \in Active
    PROVE  /\ MidInv(plan, x.step, runs)
           /\ (\A s \in Steps : x.step[s] = "COMPLETED") => \E s \in Steps : plan.kind[s] = "HUMAN_REVIEW"
  BY DEF RowInv, StepInv, MidInv, ExecRow

\* _fail_execution
LEMMA RowFailed ==
    ASSUME NEW plan \in PlanType, NEW x \in ExecRow, NEW runs \in Runs, NEW st,
           RowInv(plan, x, runs), x.status \in Active, MidInv(plan, st, runs),
           \/ \E s \in Steps : st[s] = "FAILED"
           \/ (\A s \in Steps : st[s] = "COMPLETED") => \E s \in Steps : plan.kind[s] = "HUMAN_REVIEW"
    PROVE  /\ FailedExec(x, st) \in ExecRow /\ AskedChild(st, runs) \in Runs
           /\ RowInv(plan, FailedExec(x, st), AskedChild(st, runs))
           /\ Evolves(x, FailedExec(x, st))
  <1> DEFINE y == FailedExec(x, st)
             r == AskedChild(st, runs)
             after == [s \in Steps |-> IF st[s] \in Terminal THEN st[s] ELSE "SKIPPED"]
             note == x.note \cup ({"failure"} \cap Notify)
  <1>1. st \in [Steps -> StepStatus] /\ x.note \in SUBSET Note /\ x.note = {}
    BY Statuses, ToldOf DEF ExecRow, MidInv, RowInv
  <1>2. after \in [Steps -> StepStatus]
    BY <1>1, Statuses
  <1>3. /\ y \in ExecRow /\ y.status = "FAILED" /\ y.step = after /\ y.note = {"failure"} \cap Notify
        /\ y.key = x.key /\ y.occ = x.occ /\ y.at = x.at
    <2>1. y = [x EXCEPT !.status = "FAILED", !.lease = None, !.note = note, !.step = after]
      BY DEF FailedExec
    <2>2. note \in SUBSET Note /\ note = {"failure"} \cap Notify
      BY <1>1 DEF Note
    <2>3. "FAILED" \in ExecStatus
      BY Statuses
    <2> HIDE DEF y, note, after
    <2> QED BY <1>2, <2>1, <2>2, <2>3 DEF ExecRow
  <1>4. ASSUME NEW s \in Steps
        PROVE  /\ r[s] \in ChildRow
               /\ r[s].held = runs[s].held /\ r[s].status = runs[s].status
               /\ \/ r[s] = runs[s] /\ (st[s] \in Terminal \/ runs[s].status \in {"ABSENT"} \cup RunOver)
                  \/ st[s] \notin Terminal /\ r[s].asked
    <2>1. runs[s] \in ChildRow
      BY DEF Runs
    <2>3. CASE st[s] \in Terminal \/ runs[s].status \in {"ABSENT"} \cup RunOver
      <3>1. r[s] = runs[s]
        BY <2>3 DEF AskedChild
      <3> QED BY <2>1, <2>3, <3>1
    <2>4. CASE ~(st[s] \in Terminal \/ runs[s].status \in {"ABSENT"} \cup RunOver)
      <3>1. r[s] = [runs[s] EXCEPT !.asked = TRUE]
        BY <2>4 DEF AskedChild
      <3> HIDE DEF r
      <3> QED BY <2>1, <2>4, <3>1 DEF ChildRow
    <2> QED BY <2>3, <2>4
  <1>5. r \in Runs
    BY <1>4 DEF AskedChild, Runs
  <1>6. \A s \in Steps : after[s] = IF st[s] \in Terminal THEN st[s] ELSE "SKIPPED"
    OBVIOUS
  <1> HIDE DEF after, y, r
  <1>7. ASSUME NEW s \in Steps PROVE StepInv(plan, y, r, s)
    <2>1. plan.deps[s] \subseteq Steps
      BY DEF PlanType
    <2>2. after[s] \in Terminal /\ after[s] \notin {"PENDING", "RUNNING", "WAITING_REVIEW"}
      BY <1>6, Statuses
    <2>3. after[s] = "COMPLETED" => \A d \in plan.deps[s] : after[d] = "COMPLETED"
      BY <1>6, <2>1, Statuses DEF MidInv
    <2>4. plan.kind[s] = "ANALYSIS" /\ after[s] = "COMPLETED" => r[s].status = "COMPLETED"
      BY <1>4, <1>6, Statuses DEF MidInv
    <2>5. after[s] \in {"CANCELLED", "SKIPPED"} => r[s].status \in {"ABSENT"} \cup RunOver \/ r[s].asked
      BY <1>4, <1>6 DEF MidInv
    <2>6. r[s].held => r[s].status = "RUNNING"
      BY <1>4 DEF MidInv
    <2> QED BY <1>3, <2>2, <2>3, <2>4, <2>5, <2>6, Statuses DEF StepInv
  <1>8. RowInv(plan, y, r)
    <2>1. y.note = Notify \cap Told(y.status)
      BY <1>3, ToldOf
    <2>2. \/ \E s \in Steps : after[s] \in {"FAILED", "SKIPPED"}
          \/ /\ \A s \in Steps : after[s] = "COMPLETED"
             /\ \E s \in Steps : plan.kind[s] = "HUMAN_REVIEW"
      <3>1. CASE \E s \in Steps : st[s] = "FAILED"
        BY <1>6, <3>1, Statuses
      <3>2. CASE \E s \in Steps : st[s] \notin {"FAILED", "COMPLETED"}
        <4>1. PICK s \in Steps : st[s] \notin {"FAILED", "COMPLETED"}
          BY <3>2
        <4>2. st[s] \notin Terminal
          BY <4>1, Statuses DEF MidInv
        <4> QED BY <1>6, <4>2
      <3>3. CASE \A s \in Steps : st[s] = "COMPLETED"
        BY <1>6, <3>3, Statuses
      <3> QED BY <3>1, <3>2, <3>3
    <2> QED BY <1>3, <1>7, <2>1, <2>2, Statuses DEF RowInv
  <1>9. Evolves(x, y)
    BY <1>3, Statuses DEF Evolves
  <1> QED BY <1>3, <1>5, <1>8, <1>9 DEF y, r

\* _reconcile_analysis_steps
LEMMA MidReconciled ==
    ASSUME NEW e \in Execs, NEW plan \in PlanType, exec[e] \in ExecRow, child[e] \in Runs,
           RowInv(plan, exec[e], child[e]), exec[e].status \in Active
    PROVE  MidInv(plan, Reconciled(e), child[e])
  <1> DEFINE st == Reconciled(e)
             old == exec[e].step
             runs == child[e]
  <1>1. old \in [Steps -> StepStatus]
    BY DEF ExecRow
  <1>2. ASSUME NEW s \in Steps
        PROVE  \/ st[s] = old[s] /\ (old[s] = "RUNNING" => runs[s].status # "COMPLETED")
               \/ st[s] = "COMPLETED" /\ old[s] = "RUNNING" /\ runs[s].status = "COMPLETED"
               \/ st[s] = "FAILED" /\ old[s] = "RUNNING"
    BY DEF Reconciled
  <1>3. st \in [Steps -> StepStatus]
    <2>1. ASSUME NEW s \in Steps PROVE st[s] \in StepStatus
      BY <1>1, <1>2, Statuses
    <2>2. st = [s \in Steps |-> st[s]]
      BY DEF Reconciled
    <2> HIDE DEF st
    <2> QED BY <2>1, <2>2
  <1>4. ASSUME NEW s \in Steps
        PROVE  /\ StepInv(plan, exec[e], runs, s) /\ plan.deps[s] \subseteq Steps
               /\ old[s] \notin {"FAILED", "CANCELLED", "SKIPPED"}
    BY DEF RowInv, StepInv, PlanType
  <1> HIDE DEF st
  <1>5. ASSUME NEW s \in Steps
        PROVE  /\ st[s] \in {"RUNNING", "WAITING_REVIEW", "COMPLETED"} =>
                      \A d \in plan.deps[s] : st[d] = "COMPLETED"
               /\ st[s] \in {"PENDING", "WAITING_REVIEW"} => runs[s].status = "ABSENT"
               /\ st[s] = "WAITING_REVIEW" => plan.kind[s] = "HUMAN_REVIEW"
               /\ plan.kind[s] = "ANALYSIS" /\ st[s] = "COMPLETED" => runs[s].status = "COMPLETED"
               /\ st[s] \notin {"CANCELLED", "SKIPPED"}
               /\ runs[s].held => runs[s].status = "RUNNING"
    <2>1. \A d \in plan.deps[s] : old[d] = "COMPLETED" => st[d] = "COMPLETED"
      BY <1>2, <1>4
    <2>2. st[s] \in {"RUNNING", "WAITING_REVIEW", "COMPLETED"} =>
                      \A d \in plan.deps[s] : st[d] = "COMPLETED"
      BY <1>2, <1>4, <2>1 DEF StepInv
    <2> QED BY <1>2, <1>4, <2>2 DEF StepInv
  <1> QED BY <1>3, <1>5 DEF MidInv, st

\* The loop over the steps, and what it leaves behind
LEMMA RowAdvanced ==
    ASSUME wf.plan \in PlanType, NEW x \in ExecRow, NEW runs \in Runs, NEW st,
           RowInv(wf.plan, x, runs), x.status \in Active, MidInv(wf.plan, st, runs),
           \A s \in Steps : st[s] # "FAILED",
           NEW started \in SUBSET Steps, Dispatched(st, started)
    PROVE  /\ AdvancedExec(x, After(st, started)) \in ExecRow /\ StartedChild(started, runs) \in Runs
           /\ RowInv(wf.plan, AdvancedExec(x, After(st, started)), StartedChild(started, runs))
           /\ Evolves(x, AdvancedExec(x, After(st, started)))
  <1> DEFINE after == After(st, started)
             y == AdvancedExec(x, after)
             r == StartedChild(started, runs)
             plan == wf.plan
  <1>1. /\ st \in [Steps -> StepStatus] /\ x.note \in SUBSET Note /\ x.note = {}
    BY Statuses, ToldOf DEF ExecRow, MidInv, RowInv
  <1>2. ASSUME NEW s \in Steps
        PROVE  /\ plan.kind[s] \in Kinds /\ plan.deps[s] \subseteq Steps
               /\ plan.kind[s] = "ANALYSIS" => Started(s) = "RUNNING"
               /\ plan.kind[s] = "NOTIFICATION" => Started(s) = "COMPLETED"
               /\ plan.kind[s] = "HUMAN_REVIEW" => Started(s) = "WAITING_REVIEW"
    BY DEF PlanType, Started, Kinds
  <1>3. ASSUME NEW s \in Steps
        PROVE  /\ s \in started => after[s] = Started(s)
               /\ s \notin started => after[s] = st[s]
               /\ s \in started => st[s] = "PENDING"
    BY DEF After, Dispatched, Ready
  <1>4. \A s \in Steps : st[s] = "COMPLETED" => after[s] = "COMPLETED"
    BY <1>3
  <1>5. ASSUME NEW s \in started
        PROVE  \A d \in plan.deps[s] : after[d] = "COMPLETED"
    <2>1. \A d \in plan.deps[s] : Seen(st, started, s, d) = "COMPLETED"
      BY DEF Dispatched, Ready
    <2> QED BY <1>2, <1>4, <2>1 DEF Seen
  <1>6. after \in [Steps -> StepStatus \ {"FAILED", "CANCELLED", "SKIPPED"}]
    <2>1. ASSUME NEW s \in Steps PROVE after[s] \in StepStatus \ {"FAILED", "CANCELLED", "SKIPPED"}
      BY <1>1, <1>2, <1>3, Statuses DEF Kinds, MidInv
    <2>2. after = [s \in Steps |-> after[s]]
      BY DEF After
    <2> HIDE DEF after
    <2> QED BY <2>1, <2>2
  <1> HIDE DEF after
  <1>7. /\ Outcome(after) \in {"COMPLETED", "WAITING_REVIEW", "RUNNING"}
        /\ Outcome(after) = "COMPLETED" <=> \A s \in Steps : after[s] = "COMPLETED"
    BY DEF Outcome
  <1>8. /\ y \in ExecRow /\ y.status = Outcome(after) /\ y.step = after
        /\ y.note = IF Outcome(after) = "COMPLETED" THEN {"success"} \cap Notify ELSE {}
        /\ y.key = x.key /\ y.occ = x.occ /\ y.at = x.at
    <2> DEFINE lease == IF Outcome(after) = "RUNNING" THEN Poll ELSE None
               note == x.note \cup (IF Outcome(after) = "COMPLETED" THEN {"success"} \cap Notify ELSE {})
               status == Outcome(after)
    <2>1. y = [x EXCEPT !.status = status, !.step = after, !.lease = lease, !.note = note]
      BY DEF AdvancedExec
    <2>2. note \in SUBSET Note /\ note = IF status = "COMPLETED" THEN {"success"} \cap Notify ELSE {}
      BY <1>1 DEF Note
    <2>3. lease \in Nat \cup {None}
      BY AutomationTimeAssumption
    <2>4. after \in [Steps -> StepStatus] /\ status \in ExecStatus
      BY <1>6, <1>7, Statuses
    <2> HIDE DEF y, note, lease, status
    <2>5. /\ y \in ExecRow /\ y.status = status /\ y.step = after /\ y.note = note
          /\ y.key = x.key /\ y.occ = x.occ /\ y.at = x.at
      BY <2>1, <2>2, <2>3, <2>4 DEF ExecRow
    <2> QED BY <2>2, <2>5 DEF status
  <1>9. ASSUME NEW s \in Steps
        PROVE  /\ r[s] \in ChildRow
               /\ r[s] = runs[s] \/ (s \in started /\ plan.kind[s] = "ANALYSIS"
                                     /\ r[s].status = "PENDING" /\ ~r[s].held)
               /\ s \in started /\ plan.kind[s] = "ANALYSIS" => r[s].status = "PENDING"
    <2>1. runs[s] \in ChildRow /\ NewRun \in ChildRow /\ NewRun.status = "PENDING" /\ ~NewRun.held
      BY DEF Runs, NewRun, ChildRow, RunStatus
    <2>2. r[s] = IF s \in started /\ plan.kind[s] = "ANALYSIS" THEN NewRun ELSE runs[s]
      BY DEF StartedChild
    <2> QED BY <2>1, <2>2
  <1>10. r \in Runs
    BY <1>9 DEF StartedChild, Runs
  <1> HIDE DEF y, r
  <1>11. ASSUME NEW s \in Steps PROVE StepInv(plan, y, r, s)
    <2>1. after[s] \in {"RUNNING", "WAITING_REVIEW", "COMPLETED"} =>
             \A d \in plan.deps[s] : after[d] = "COMPLETED"
      <3>1. CASE s \in started
        BY <1>5, <3>1
      <3>2. CASE s \notin started
        BY <1>2, <1>3, <1>4, <3>2 DEF MidInv
      <3> QED BY <3>1, <3>2
    <2>2. after[s] \in {"PENDING", "WAITING_REVIEW"} => r[s].status = "ABSENT"
      BY <1>2, <1>3, <1>9 DEF MidInv, Kinds
    <2>3. after[s] = "WAITING_REVIEW" => plan.kind[s] = "HUMAN_REVIEW"
      BY <1>2, <1>3 DEF MidInv, Kinds
    <2>4. plan.kind[s] = "ANALYSIS" /\ after[s] = "COMPLETED" => r[s].status = "COMPLETED"
      BY <1>2, <1>3, <1>9 DEF MidInv
    <2>5. r[s].held => r[s].status = "RUNNING"
      BY <1>9 DEF MidInv
    <2>6. after[s] \notin {"FAILED", "CANCELLED", "SKIPPED"}
      BY <1>6
    <2>7. y.status \in Terminal => after[s] = "COMPLETED"
      BY <1>7, <1>8, Statuses
    <2> QED BY <1>8, <2>1, <2>2, <2>3, <2>4, <2>5, <2>6, <2>7 DEF StepInv
  <1>12. RowInv(plan, y, r)
    <2>1. y.note = Notify \cap Told(y.status)
      BY <1>7, <1>8, ToldOf
    <2> QED BY <1>7, <1>8, <1>11, <2>1, Statuses DEF RowInv
  <1>13. Evolves(x, y)
    BY <1>7, <1>8, Statuses DEF Evolves
  <1> QED BY <1>8, <1>10, <1>12, <1>13 DEF y, r, after

\* A reviewer approves a step.
LEMMA RowApproved ==
    ASSUME NEW plan \in PlanType, NEW x \in ExecRow, NEW runs \in Runs,
           RowInv(plan, x, runs), NEW s \in Steps, x.step[s] = "WAITING_REVIEW",
           NEW y, y = [x EXCEPT !.step = [x.step EXCEPT ![s] = "COMPLETED"], !.status = "RUNNING",
                                !.lease = None]
    PROVE  y \in ExecRow /\ RowInv(plan, y, runs) /\ Evolves(x, y)
  <1> DEFINE st == [x.step EXCEPT ![s] = "COMPLETED"]
  <1>1. x.step \in [Steps -> StepStatus] /\ x.status \in ExecStatus
    BY DEF ExecRow
  <1>2. /\ st \in [Steps -> StepStatus]
        /\ \A t \in Steps : st[t] = IF t = s THEN "COMPLETED" ELSE x.step[t]
    BY <1>1, Statuses
  <1> HIDE DEF st
  <1>3. /\ y \in ExecRow /\ y.status = "RUNNING" /\ y.step = st /\ y.note = x.note
        /\ y.key = x.key /\ y.occ = x.occ /\ y.at = x.at
    <2>1. y = [x EXCEPT !.step = st, !.status = "RUNNING", !.lease = None]
      BY DEF st
    <2> QED BY ZenonT(60), <1>2, <2>1, Statuses DEF ExecRow
  <1>4. StepInv(plan, x, runs, s)
    BY DEF RowInv
  <1>5. plan.kind[s] = "HUMAN_REVIEW" /\ x.status \in Active
    BY <1>1, <1>4, Statuses DEF StepInv, RowInv
  <1>6. ASSUME NEW t \in Steps PROVE StepInv(plan, y, runs, t)
    <2>1. StepInv(plan, x, runs, t) /\ plan.deps[t] \subseteq Steps
      BY DEF RowInv, PlanType
    <2>2. \A d \in Steps : x.step[d] = "COMPLETED" => st[d] = "COMPLETED"
      BY <1>2
    <2>3. y.status \notin Terminal /\ y.status \in Active
      BY <1>3, Statuses
    <2>4. CASE t = s
      BY <1>2, <1>3, <1>5, <2>1, <2>2, <2>3, <2>4 DEF StepInv
    <2>5. CASE t # s
      BY <1>2, <1>3, <1>5, <2>1, <2>2, <2>3, <2>5 DEF StepInv
    <2> QED BY <2>4, <2>5
  <1>7. RowInv(plan, y, runs)
    <2>1. y.note = Notify \cap Told(y.status)
      BY <1>3, <1>5, Statuses, ToldOf DEF RowInv
    <2> QED BY <1>3, <1>5, <1>6, <2>1 DEF RowInv
  <1>8. Evolves(x, y)
    BY <1>3, <1>5, Statuses DEF Evolves
  <1> QED BY <1>3, <1>7, <1>8

\* A reviewer rejects a step: the steps that run go on.
LEMMA RowRejected ==
    ASSUME NEW plan \in PlanType, NEW x \in ExecRow, NEW runs \in Runs,
           RowInv(plan, x, runs), NEW s \in Steps, x.step[s] = "WAITING_REVIEW",
           NEW y, y = [x EXCEPT !.step = WithdrawnSteps(x.step), !.status = "FAILED",
                                !.lease = None, !.note = x.note \cup ({"failure"} \cap Notify)]
    PROVE  y \in ExecRow /\ RowInv(plan, y, runs) /\ Evolves(x, y)
  <1> DEFINE st == WithdrawnSteps(x.step)
             note == x.note \cup ({"failure"} \cap Notify)
  <1>1. x.step \in [Steps -> StepStatus] /\ x.status \in ExecStatus
    BY DEF ExecRow
  <1>2. \A t \in Steps : st[t] = IF x.step[t] \in {"PENDING", "WAITING_REVIEW"} THEN "SKIPPED"
                                ELSE x.step[t]
    BY DEF WithdrawnSteps
  <1>3. st \in [Steps -> StepStatus]
    BY <1>1, Statuses DEF WithdrawnSteps
  <1>4. StepInv(plan, x, runs, s)
    BY DEF RowInv
  <1>5. plan.kind[s] = "HUMAN_REVIEW" /\ x.status \in Active
    BY <1>1, <1>4, Statuses DEF StepInv, RowInv
  <1>6. note \in SUBSET Note /\ note = {"failure"} \cap Notify
    <2>1. x.note = {}
      BY <1>5, Statuses, ToldOf DEF RowInv
    <2> QED BY <2>1 DEF Note
  <1> HIDE DEF st, note
  <1>7. /\ y \in ExecRow /\ y.status = "FAILED" /\ y.step = st /\ y.note = note
        /\ y.key = x.key /\ y.occ = x.occ /\ y.at = x.at
    <2>1. y = [x EXCEPT !.step = st, !.status = "FAILED", !.lease = None, !.note = note]
      BY DEF st, note
    <2> QED BY ZenonT(60), <1>3, <1>6, <2>1, Statuses DEF ExecRow
  <1>8. ASSUME NEW t \in Steps PROVE StepInv(plan, y, runs, t)
    <2>1. StepInv(plan, x, runs, t) /\ plan.deps[t] \subseteq Steps
      BY DEF RowInv, PlanType
    <2>2. \A d \in Steps : x.step[d] = "COMPLETED" => st[d] = "COMPLETED"
      BY <1>2
    <2>3. y.status \in Terminal /\ y.status \notin Active /\ st[s] = "SKIPPED"
      BY <1>2, <1>7, Statuses
    <2>4. st[t] \notin {"PENDING", "WAITING_REVIEW"}
      BY <1>2
    <2>5. st[t] \in {"RUNNING", "COMPLETED"} => x.step[t] = st[t]
      BY <1>2
    <2>6. st[t] \in {"CANCELLED", "SKIPPED"} =>
             runs[t].status \in {"ABSENT"} \cup RunOver \/ runs[t].asked
      BY <1>2, <2>1 DEF StepInv
    <2>7. \A d \in plan.deps[s] : st[d] = "COMPLETED"
      <3>1. plan.deps[s] \subseteq Steps
        BY DEF PlanType
      <3> QED BY <1>4, <2>2, <3>1 DEF StepInv
    <2> QED BY <1>5, <1>7, <2>1, <2>2, <2>3, <2>4, <2>5, <2>6, <2>7 DEF StepInv
  <1>9. RowInv(plan, y, runs)
    <2>1. y.note = Notify \cap Told(y.status)
      BY <1>6, <1>7, ToldOf
    <2>2. st[s] = "SKIPPED"
      BY <1>2
    <2> QED BY <1>7, <1>8, <2>1, <2>2, Statuses DEF RowInv
  <1>10. Evolves(x, y)
    BY <1>5, <1>7, Statuses DEF Evolves
  <1> QED BY <1>7, <1>9, <1>10

\* A step of the Run of one step
LEMMA RowOfRun ==
    ASSUME NEW plan \in PlanType, NEW x \in ExecRow, NEW runs \in Runs,
           RowInv(plan, x, runs), NEW s \in Steps, NEW run \in ChildRow,
           run.held => run.status = "RUNNING", run.asked = runs[s].asked,
           runs[s].status \notin {"ABSENT"} \cup RunOver
    PROVE  [runs EXCEPT ![s] = run] \in Runs /\ RowInv(plan, x, [runs EXCEPT ![s] = run])
  <1> DEFINE r == [runs EXCEPT ![s] = run]
  <1>1. r \in Runs /\ \A t \in Steps : r[t] = IF t = s THEN run ELSE runs[t]
    BY DEF Runs
  <1> HIDE DEF r
  <1>2. ASSUME NEW t \in Steps PROVE StepInv(plan, x, r, t)
    <2>1. StepInv(plan, x, runs, t)
      BY DEF RowInv
    <2>2. CASE t # s
      BY <1>1, <2>1, <2>2 DEF StepInv
    <2>3. CASE t = s
      BY <1>1, <2>1, <2>3, Statuses DEF StepInv
    <2> QED BY <2>2, <2>3
  <1> QED BY <1>1, <1>2 DEF RowInv, r
-----------------------------------------------------------------------------
(* Steps of the system *)

LEMMA OccurrenceLater ==
    ASSUME NEW t \in Nat
    PROVE  NextOccurrence(t) \in Nat /\ NextOccurrence(t) > t
  <1>1. Period \in Nat \ {0}
    BY AutomationTimeAssumption
  <1> DEFINE q == t \div Period
             r == t % Period
  <1>2. q \in Nat /\ r \in 0 .. (Period - 1) /\ t = Period * q + r
    BY <1>1
  <1> HIDE DEF q, r
  <1>3. (q + 1) * Period = Period * q + Period
    BY <1>1, <1>2
  <1>4. Period * q \in Nat
    BY <1>1, <1>2
  <1>5. (q + 1) * Period \in Nat /\ (q + 1) * Period > t
    BY <1>1, <1>2, <1>3, <1>4
  <1> QED BY <1>5 DEF NextOccurrence, q

\* A step leaves the executions that have ended as they are.
Kept ==
    \A e \in Execs : exec[e].status \in Terminal =>
        /\ exec'[e].status = exec[e].status
        /\ exec'[e].step = exec[e].step
        /\ exec'[e].note = exec[e].note

\* The executions go on, and the schedule goes forward.
LEMMA RowsMove ==
    ASSUME IInv, wf' \in [status : {"DRAFT", "ACTIVE", "PAUSED", "RETIRED"}, published : BOOLEAN,
                          policy : Policies, plan : Plans],
           wf'.plan = wf.plan, wf'.policy = wf.policy,
           sched' \in [exists : BOOLEAN, enabled : BOOLEAN, next : Nat, misfire : Misfire],
           enabling' \in BOOLEAN, now' \in Nat, now' >= now,
           enabling' \/ sched'.enabled => sched'.exists,
           sched.exists => /\ sched'.exists /\ sched'.misfire = sched.misfire
                           /\ sched'.next >= sched.next \/ sched'.next > now,
           exec' \in [Execs -> ExecRow], child' \in [Execs -> Runs],
           \A e \in Execs : RowInv(wf.plan, exec'[e], child'[e]) /\ Evolves(exec[e], exec'[e]),
           pc' \in [Workers -> [at : {"idle", "advance", "fail"}, of : Execs \cup {None}]],
           \A w \in Workers : pc'[w].at # "idle" =>
                                 pc'[w].of \in Execs /\ exec[pc'[w].of].status # "ABSENT",
           crashes' \in Nat
    PROVE  IInv' /\ Kept
  <1>1. AutoTypeOK'
    BY DEF AutoTypeOK, Runs
  <1>2. Rows'
    BY DEF Rows
  <1>3. Held'
    BY DEF Held, Evolves
  <1>4. Admission'
    <2>1. ActiveExecs' \subseteq ActiveExecs
      BY DEF ActiveExecs, Evolves
    <2>2. IsFiniteSet(ActiveExecs) /\ AdmissionRespected
      BY DEF IInv, Admission
    <2>3. /\ IsFiniteSet(ActiveExecs') /\ Cardinality(ActiveExecs') <= Cardinality(ActiveExecs)
          /\ Cardinality(ActiveExecs') \in Nat /\ Cardinality(ActiveExecs) \in Nat
      BY <2>1, <2>2, FS_Subset, FS_CardinalityType
    <2>4. MaxConcurrency \in Nat
      BY AutomationBoundAssumption
    <2> QED BY <2>2, <2>3, <2>4 DEF Admission, AdmissionRespected
  <1>5. ASSUME NEW e \in Execs
        PROVE  /\ exec'[e].key = exec[e].key /\ exec'[e].occ = exec[e].occ /\ exec'[e].at = exec[e].at
               /\ e \in Present' <=> e \in Present
               /\ Late(e)' <=> Late(e)
    BY DEF Evolves, Present, Late
  <1>6. Schedule'
    <2>1. ASSUME NEW e \in Present' PROVE Fired(e)'
      <3>1. e \in Execs /\ e \in Present /\ Fired(e)
        BY <1>5 DEF Present, IInv, Schedule
      <3>2. /\ now \in Nat /\ sched.next \in Nat /\ sched'.next \in Nat
            /\ exec[e].at \in Nat /\ exec[e].occ \in Nat \cup {Manual}
        BY <3>1 DEF IInv, AutoTypeOK, ExecRow
      <3> QED BY <1>5, <3>1, <3>2 DEF Fired
    <2>2. ASSUME NEW e \in Present', NEW f \in Present', e # f PROVE Apart(e, f)'
      <3>1. e \in Execs /\ f \in Execs /\ Apart(e, f)
        BY <1>5, <2>2 DEF Present, IInv, Schedule
      <3> QED BY <1>5, <3>1 DEF Apart
    <2> QED BY <2>1, <2>2 DEF Schedule
  <1>7. Kept
    BY DEF Kept, Evolves
  <1> QED BY <1>1, <1>2, <1>3, <1>4, <1>6, <1>7 DEF IInv

LEMMA EvolvesItself ==
    ASSUME NEW x
    PROVE  Evolves(x, x)
  BY DEF Evolves

\* What every step starts from
LEMMA Facts ==
    ASSUME IInv
    PROVE  /\ wf \in [status : {"DRAFT", "ACTIVE", "PAUSED", "RETIRED"}, published : BOOLEAN,
                      policy : Policies, plan : Plans]
           /\ wf.plan \in PlanType
           /\ sched \in [exists : BOOLEAN, enabled : BOOLEAN, next : Nat, misfire : Misfire]
           /\ enabling \in BOOLEAN /\ now \in Nat /\ crashes \in Nat
           /\ exec \in [Execs -> ExecRow] /\ child \in [Execs -> Runs]
           /\ \A e \in Execs : /\ RowInv(wf.plan, exec[e], child[e]) /\ Evolves(exec[e], exec[e])
                               /\ exec[e] \in ExecRow /\ child[e] \in Runs
           /\ pc \in [Workers -> [at : {"idle", "advance", "fail"}, of : Execs \cup {None}]]
           /\ \A w \in Workers : pc[w].at # "idle" =>
                                    pc[w].of \in Execs /\ exec[pc[w].of].status # "ABSENT"
           /\ enabling \/ sched.enabled => sched.exists
  BY EvolvesItself, PlanAssumption DEF IInv, AutoTypeOK, Rows, Held, Schedule, Runs, PlanType

\* One execution goes on.
LEMMA OneExec ==
    ASSUME IInv, NEW e \in Execs, NEW y \in ExecRow, NEW r \in Runs,
           RowInv(wf.plan, y, r), Evolves(exec[e], y),
           exec' = [exec EXCEPT ![e] = y], child' = [child EXCEPT ![e] = r],
           UNCHANGED <<wf, sched, enabling, now>>,
           pc' \in [Workers -> [at : {"idle", "advance", "fail"}, of : Execs \cup {None}]],
           \A w \in Workers : pc'[w].at # "idle" =>
                                 pc'[w].of \in Execs /\ exec[pc'[w].of].status # "ABSENT",
           crashes' \in Nat
    PROVE  IInv' /\ Kept
  <1>1. exec' \in [Execs -> ExecRow] /\ child' \in [Execs -> Runs]
    BY Facts
  <1>2. ASSUME NEW f \in Execs
        PROVE  RowInv(wf.plan, exec'[f], child'[f]) /\ Evolves(exec[f], exec'[f])
    <2>1. CASE f = e
      <3>1. exec'[f] = y /\ child'[f] = r
        BY <2>1, Facts
      <3> QED BY <2>1, <3>1
    <2>2. CASE f # e
      <3>1. exec'[f] = exec[f] /\ child'[f] = child[f]
        BY <2>2, Facts
      <3> QED BY <3>1, Facts
    <2> QED BY <2>1, <2>2
  <1>3. now' >= now /\ sched'.next >= sched.next
    BY Facts
  <1> QED BY <1>1, <1>2, <1>3, Facts, RowsMove

\* The workflow and its schedule
LEMMA ScheduleStep ==
    ASSUME IInv,
           \/ PublishVersion \/ (\E t \in {"ACTIVE", "PAUSED", "RETIRED"} : SetWorkflowStatus(t))
           \/ (\E m \in Misfire, b \in BOOLEAN : CreateSchedule(m, b))
           \/ ReadToEnable \/ EnableSchedule \/ DisableSchedule
           \/ DisableUnusable \/ SkipMisfire \/ FireDenied
    PROVE  IInv' /\ Kept
  <1> DEFINE Wf == [status : {"DRAFT", "ACTIVE", "PAUSED", "RETIRED"}, published : BOOLEAN,
                    policy : Policies, plan : Plans]
             Sched == [exists : BOOLEAN, enabled : BOOLEAN, next : Nat, misfire : Misfire]
  <1>1. UNCHANGED <<now, exec, child, pc, crashes>>
    BY DEF PublishVersion, SetWorkflowStatus, CreateSchedule, ReadToEnable, EnableSchedule,
           DisableSchedule, DisableUnusable, SkipMisfire, FireDenied
  <1>2. /\ wf \in Wf /\ sched \in Sched /\ enabling \in BOOLEAN /\ now \in Nat
        /\ enabling \/ sched.enabled => sched.exists
    BY Facts
  <1> HIDE DEF Wf, Sched
  <1>3. ASSUME wf' \in Wf, wf'.plan = wf.plan, wf'.policy = wf.policy, sched' \in Sched,
               enabling' \in BOOLEAN, enabling' \/ sched'.enabled => sched'.exists,
               sched.exists => /\ sched'.exists /\ sched'.misfire = sched.misfire
                               /\ sched'.next >= sched.next \/ sched'.next > now
        PROVE  IInv' /\ Kept
    <2>1. /\ exec' \in [Execs -> ExecRow] /\ child' \in [Execs -> Runs]
          /\ \A e \in Execs : RowInv(wf.plan, exec'[e], child'[e]) /\ Evolves(exec[e], exec'[e])
          /\ pc' \in [Workers -> [at : {"idle", "advance", "fail"}, of : Execs \cup {None}]]
          /\ \A w \in Workers : pc'[w].at # "idle" =>
                                   pc'[w].of \in Execs /\ exec[pc'[w].of].status # "ABSENT"
          /\ crashes' \in Nat
      BY <1>1, Facts
    <2>2. now' \in Nat /\ now' >= now
      BY <1>1, <1>2
    <2> QED BY <1>3, <2>1, <2>2, RowsMove DEF Wf, Sched
  <1>4. ASSUME UNCHANGED <<wf, enabling>>, sched' = [sched EXCEPT !.enabled = FALSE]
        PROVE  IInv' /\ Kept
    <2>1. /\ sched' \in Sched /\ sched'.exists = sched.exists /\ sched'.misfire = sched.misfire
          /\ sched'.next = sched.next /\ ~sched'.enabled /\ sched.next \in Nat
      BY <1>2, <1>4 DEF Sched
    <2> QED BY <1>2, <1>3, <1>4, <2>1
  <1>5. CASE PublishVersion
    <2>1. wf' = [wf EXCEPT !.status = "ACTIVE", !.published = TRUE] /\ UNCHANGED <<sched, enabling>>
      BY <1>5 DEF PublishVersion
    <2>2. wf' \in Wf /\ wf'.plan = wf.plan /\ wf'.policy = wf.policy
      BY <1>2, <2>1 DEF Wf
    <2>3. sched'.next >= sched.next
      BY <1>2, <2>1 DEF Sched
    <2> QED BY <1>2, <1>3, <2>1, <2>2, <2>3
  <1>6. ASSUME NEW t \in {"ACTIVE", "PAUSED", "RETIRED"}, SetWorkflowStatus(t)
        PROVE  IInv' /\ Kept
    <2> DEFINE b == sched.enabled /\ t = "ACTIVE"
    <2>1. /\ wf' = [wf EXCEPT !.status = t] /\ UNCHANGED enabling
          /\ sched' = [sched EXCEPT !.enabled = b]
      BY <1>6 DEF SetWorkflowStatus
    <2>2. wf' \in Wf /\ wf'.plan = wf.plan /\ wf'.policy = wf.policy
      BY <1>2, <2>1 DEF Wf
    <2>3. b \in BOOLEAN /\ (b => sched.enabled)
      BY <1>2 DEF Sched
    <2> HIDE DEF b
    <2>4. /\ sched' \in Sched /\ sched'.exists = sched.exists /\ sched'.misfire = sched.misfire
          /\ sched'.next = sched.next /\ sched'.enabled = b /\ sched.next \in Nat
      BY <1>2, <2>1, <2>3 DEF Sched
    <2> QED BY <1>2, <1>3, <2>1, <2>2, <2>3, <2>4
  <1>7. ASSUME NEW m \in Misfire, NEW b \in BOOLEAN, CreateSchedule(m, b)
        PROVE  IInv' /\ Kept
    <2>1. /\ ~sched.exists /\ UNCHANGED <<wf, enabling>>
          /\ sched' = [exists |-> TRUE, enabled |-> b, next |-> NextOccurrence(now), misfire |-> m]
      BY <1>7 DEF CreateSchedule
    <2>2. sched' \in Sched /\ sched'.exists
      BY <1>2, <2>1, OccurrenceLater DEF Sched
    <2> QED BY <1>2, <1>3, <2>1, <2>2
  <1>8. CASE ReadToEnable
    <2>1. sched.exists /\ enabling' = TRUE /\ UNCHANGED <<wf, sched>>
      BY <1>8 DEF ReadToEnable
    <2>2. sched'.next >= sched.next
      BY <1>2, <2>1 DEF Sched
    <2> QED BY <1>2, <1>3, <2>1, <2>2
  <1>9. CASE EnableSchedule
    <2>1. /\ enabling /\ enabling' = FALSE /\ UNCHANGED wf
          /\ sched' = [sched EXCEPT !.enabled = TRUE, !.next = NextOccurrence(now)]
      BY <1>9 DEF EnableSchedule
    <2>2. NextOccurrence(now) \in Nat /\ NextOccurrence(now) > now
      BY <1>2, OccurrenceLater
    <2>3. /\ sched' \in Sched /\ sched'.exists = sched.exists /\ sched'.misfire = sched.misfire
          /\ sched'.next = NextOccurrence(now)
      BY <1>2, <2>1, <2>2 DEF Sched
    <2> QED BY <1>2, <1>3, <2>1, <2>2, <2>3
  <1>10. CASE DisableSchedule \/ DisableUnusable
    BY <1>4, <1>10 DEF DisableSchedule, DisableUnusable
  <1>11. /\ Following \in Nat
         /\ sched.next <= now => Following >= sched.next /\ (Misfired => Following > now)
    <2>1. sched.next \in Nat /\ now \in Nat
      BY <1>2 DEF Sched
    <2>2. CASE Misfired
      BY <2>1, <2>2, OccurrenceLater DEF Following
    <2>3. CASE ~Misfired
      BY <2>1, <2>3, OccurrenceLater DEF Following
    <2> QED BY <2>2, <2>3
  <1>12. CASE SkipMisfire
    <2>1. UNCHANGED <<wf, enabling>> /\ sched.next <= now /\ sched' = [sched EXCEPT !.next = Following]
      BY <1>12 DEF SkipMisfire, Due
    <2>2. /\ sched' \in Sched /\ sched'.exists = sched.exists /\ sched'.misfire = sched.misfire
          /\ sched'.next = Following /\ sched'.enabled = sched.enabled
      BY <1>2, <1>11, <2>1 DEF Sched
    <2> QED BY <1>2, <1>3, <1>11, <2>1, <2>2
  <1>13. CASE FireDenied
    <2>1. /\ UNCHANGED <<wf, enabling>> /\ sched.next <= now
          /\ sched' = [sched EXCEPT !.next = Following, !.enabled = FALSE]
      BY <1>13 DEF FireDenied, Fires, Due
    <2>2. /\ sched' \in Sched /\ sched'.exists = sched.exists /\ sched'.misfire = sched.misfire
          /\ sched'.next = Following /\ ~sched'.enabled
      BY <1>2, <1>11, <2>1 DEF Sched
    <2> QED BY <1>2, <1>3, <1>11, <2>1, <2>2
  <1> QED BY <1>5, <1>6, <1>7, <1>8, <1>9, <1>10, <1>12, <1>13

\* The workers
LEMMA WorkerStep ==
    ASSUME IInv, NEW w \in Workers,
           Work(w) \/ AdvanceRaises(w) \/ Crash(w) \/ \E e \in Execs : Claim(w, e)
    PROVE  IInv' /\ Kept
  <1> DEFINE Pc == [at : {"idle", "advance", "fail"}, of : Execs \cup {None}]
  <1>1. /\ pc \in [Workers -> Pc] /\ pc[w] \in Pc /\ crashes \in Nat
        /\ \A v \in Workers : pc[v].at # "idle" => pc[v].of \in Execs /\ exec[pc[v].of].status # "ABSENT"
        /\ exec \in [Execs -> ExecRow] /\ child \in [Execs -> Runs] /\ wf.plan \in PlanType
    BY Facts
  <1>2. ASSUME NEW e \in Execs
        PROVE  /\ exec[e] \in ExecRow /\ child[e] \in Runs /\ RowInv(wf.plan, exec[e], child[e])
               /\ Evolves(exec[e], exec[e])
    BY Facts
  \* a worker that is given a place, and at most one execution that goes on
  <1>3. ASSUME NEW p \in Pc, pc' = [pc EXCEPT ![w] = p],
               p.at # "idle" => p.of \in Execs /\ exec[p.of].status # "ABSENT",
               UNCHANGED <<wf, sched, enabling, now>>, crashes' \in Nat, NEW e \in Execs,
               NEW y \in ExecRow, NEW r \in Runs, RowInv(wf.plan, y, r), Evolves(exec[e], y),
               exec' = [exec EXCEPT ![e] = y], child' = [child EXCEPT ![e] = r]
        PROVE  IInv' /\ Kept
    <2>1. pc' \in [Workers -> Pc] /\ \A v \in Workers : pc'[v] = IF v = w THEN p ELSE pc[v]
      BY <1>1, <1>3
    <2>2. \A v \in Workers : pc'[v].at # "idle" => pc'[v].of \in Execs /\ exec[pc'[v].of].status # "ABSENT"
      BY <1>1, <1>3, <2>1
    <2> QED BY <1>3, <2>1, <2>2, OneExec
  <1>4. Idle \in Pc /\ Idle.at = "idle"
    BY DEF Idle
  <1> HIDE DEF Pc
  <1>5. ASSUME NEW e \in Execs, exec[e].status # "ABSENT", exec[e].status \notin Terminal
        PROVE  exec[e].status \in Active
    BY <1>2, <1>5, Statuses DEF ExecRow
  \* the steps st of the execution fail it
  <1>6. ASSUME NEW e \in Execs, exec[e].status \in Active, NEW st, Fail(e, st), FreeWorker(w),
               MidInv(wf.plan, st, child[e]),
               \/ \E s \in Steps : st[s] = "FAILED"
               \/ (\A s \in Steps : st[s] = "COMPLETED") => \E s \in Steps : wf.plan.kind[s] = "HUMAN_REVIEW"
        PROVE  IInv' /\ Kept
    <2> DEFINE y == FailedExec(exec[e], st)
               r == AskedChild(st, child[e])
    <2>1. y \in ExecRow /\ r \in Runs /\ RowInv(wf.plan, y, r) /\ Evolves(exec[e], y)
      BY <1>1, <1>2, <1>6, RowFailed
    <2>2. exec' = [exec EXCEPT ![e] = y] /\ child' = [child EXCEPT ![e] = r]
      BY <1>6 DEF Fail
    <2>3. pc' = [pc EXCEPT ![w] = Idle] /\ UNCHANGED <<wf, sched, enabling, now, crashes>>
      BY <1>6 DEF FreeWorker
    <2> HIDE DEF y, r
    <2> QED BY <1>1, <1>3, <1>4, <2>1, <2>2, <2>3
  \* nothing but the place of the worker changes
  <1>7. ASSUME NEW p \in Pc, pc' = [pc EXCEPT ![w] = p], UNCHANGED <<wf, sched, enabling, now, exec, child>>,
               p.at # "idle" => p.of \in Execs /\ exec[p.of].status # "ABSENT",
               crashes' \in Nat, NEW e \in Execs
        PROVE  IInv' /\ Kept
    <2>1. exec' = [exec EXCEPT ![e] = exec[e]] /\ child' = [child EXCEPT ![e] = child[e]]
      BY <1>1, <1>7
    <2> QED BY <1>2, <1>3, <1>7, <2>1
  <1>8. CASE AdvanceEnded(w)
    <2>1. /\ pc[w].at # "idle" /\ pc' = [pc EXCEPT ![w] = Idle]
          /\ UNCHANGED <<wf, sched, enabling, now, exec, child, crashes>>
      BY <1>8 DEF AdvanceEnded, FreeWorker
    <2>2. pc[w].of \in Execs
      BY <1>1, <2>1
    <2> QED BY <1>1, <1>4, <1>7, <2>1, <2>2
  <1>9. ASSUME pc[w].at # "idle", exec[pc[w].of].status \notin Terminal
        PROVE  pc[w].of \in Execs /\ exec[pc[w].of].status \in Active
    BY <1>1, <1>5, <1>9
  <1>10. ASSUME NEW b \in BOOLEAN, AdvanceDenied(w, b) PROVE IInv' /\ Kept
    <2>1. /\ pc[w].at # "idle" /\ exec[pc[w].of].status \notin Terminal
          /\ Fail(pc[w].of, exec[pc[w].of].step) /\ FreeWorker(w)
      BY <1>10 DEF AdvanceDenied, Advanceable
    <2> QED BY <1>1, <1>2, <1>6, <1>9, <2>1, MidOfRow
  <1>11. CASE FailAfterException(w)
    <2>1. /\ pc[w].at # "idle" /\ exec[pc[w].of].status \notin Terminal
          /\ Fail(pc[w].of, exec[pc[w].of].step) /\ FreeWorker(w)
      BY <1>11 DEF FailAfterException, Failable
    <2> QED BY <1>1, <1>2, <1>6, <1>9, <2>1, MidOfRow
  <1>12. CASE AdvanceFails(w)
    <2> DEFINE e == pc[w].of
    <2>1. /\ pc[w].at # "idle" /\ exec[e].status \notin Terminal
          /\ \E s \in Steps : Reconciled(e)[s] = "FAILED"
          /\ Fail(e, Reconciled(e)) /\ FreeWorker(w)
      BY <1>12 DEF AdvanceFails, Advanceable
    <2>2. e \in Execs /\ exec[e].status \in Active
      BY <1>9, <2>1
    <2> HIDE DEF e
    <2>3. MidInv(wf.plan, Reconciled(e), child[e])
      BY <1>1, <1>2, <2>2, MidReconciled
    <2> QED BY <1>6, <2>1, <2>2, <2>3
  <1>13. CASE Advance(w)
    <2> DEFINE e == pc[w].of
               st == Reconciled(e)
    <2>1. /\ pc[w].at # "idle" /\ exec[e].status \notin Terminal
          /\ \A s \in Steps : st[s] # "FAILED"
          /\ \E started \in SUBSET Steps :
                /\ Dispatched(st, started)
                /\ exec' = [exec EXCEPT ![e] = AdvancedExec(exec[e], After(st, started))]
                /\ child' = [child EXCEPT ![e] = StartedChild(started, child[e])]
          /\ FreeWorker(w)
      BY <1>13 DEF Advance, Advanceable
    <2>2. e \in Execs /\ exec[e].status \in Active
      BY <1>9, <2>1
    <2> HIDE DEF e
    <2>3. MidInv(wf.plan, st, child[e])
      BY <1>1, <1>2, <2>2, MidReconciled
    <2> HIDE DEF st
    <2>4. PICK started \in SUBSET Steps :
                /\ Dispatched(st, started)
                /\ exec' = [exec EXCEPT ![e] = AdvancedExec(exec[e], After(st, started))]
                /\ child' = [child EXCEPT ![e] = StartedChild(started, child[e])]
      BY <2>1
    <2> DEFINE y == AdvancedExec(exec[e], After(st, started))
               r == StartedChild(started, child[e])
    <2>5. y \in ExecRow /\ r \in Runs /\ RowInv(wf.plan, y, r) /\ Evolves(exec[e], y)
      BY <1>1, <1>2, <2>1, <2>2, <2>3, <2>4, RowAdvanced
    <2>6. exec' = [exec EXCEPT ![e] = y] /\ child' = [child EXCEPT ![e] = r]
      BY <2>4
    <2>7. pc' = [pc EXCEPT ![w] = Idle] /\ UNCHANGED <<wf, sched, enabling, now, crashes>>
      BY <2>1 DEF FreeWorker
    <2> HIDE DEF y, r
    <2> QED BY <1>1, <1>3, <1>4, <2>2, <2>5, <2>6, <2>7
  <1>14. CASE AdvanceRaises(w)
    <2> DEFINE p == [pc[w] EXCEPT !.at = "fail"]
    <2>1. /\ pc[w].at # "idle" /\ pc' = [pc EXCEPT ![w].at = "fail"]
          /\ UNCHANGED <<wf, sched, enabling, now, exec, child, crashes>>
      BY <1>14 DEF AdvanceRaises
    <2>2. pc' = [pc EXCEPT ![w] = p]
      BY <1>1, <2>1
    <2>3. p \in Pc /\ p.of = pc[w].of
      BY <1>1 DEF Pc
    <2> HIDE DEF p
    <2>4. pc[w].of \in Execs /\ exec[pc[w].of].status # "ABSENT"
      BY <1>1, <2>1
    <2> QED BY <1>1, <1>7, <2>1, <2>2, <2>3, <2>4
  <1>15. CASE Crash(w)
    <2>1. /\ pc[w] # Idle /\ crashes' = crashes + 1 /\ pc' = [pc EXCEPT ![w] = Idle]
          /\ UNCHANGED <<wf, sched, enabling, now, exec, child>>
      BY <1>15 DEF Crash
    <2>2. crashes' \in Nat
      BY <1>1, <2>1
    <2>3. CASE Execs # {}
      BY <1>4, <1>7, <2>1, <2>2, <2>3
    <2>4. CASE Execs = {}
      <3>1. pc' \in [Workers -> Pc] /\ \A v \in Workers : pc'[v] = IF v = w THEN Idle ELSE pc[v]
        BY <1>1, <1>4, <2>1
      <3>2. \A v \in Workers : pc'[v].at # "idle" => pc'[v].of \in Execs /\ exec[pc'[v].of].status # "ABSENT"
        BY <1>1, <1>4, <3>1
      <3>3. now' >= now /\ sched'.next >= sched.next
        BY <2>1, Facts
      <3> QED BY <2>1, <2>2, <3>1, <3>2, <3>3, Facts, RowsMove DEF Pc
    <2> QED BY <2>3, <2>4
  <1>16. ASSUME NEW e \in Execs, Claim(w, e) PROVE IInv' /\ Kept
    <2> DEFINE y == [exec[e] EXCEPT !.status = "RUNNING", !.lease = Lease]
               p == [at |-> "advance", of |-> e]
    <2>1. /\ exec[e].status \in {"PENDING", "RUNNING"}
          /\ exec' = [exec EXCEPT ![e].status = "RUNNING", ![e].lease = Lease]
          /\ pc' = [pc EXCEPT ![w] = p]
          /\ UNCHANGED <<wf, sched, enabling, now, child, crashes>>
      BY <1>16 DEF Claim, Claimable
    <2>2. exec' = [exec EXCEPT ![e] = y] /\ child' = [child EXCEPT ![e] = child[e]]
      BY <1>1, <2>1
    <2>3. /\ y \in ExecRow /\ y.status = "RUNNING" /\ y.step = exec[e].step /\ y.note = exec[e].note
          /\ y.key = exec[e].key /\ y.occ = exec[e].occ /\ y.at = exec[e].at
      BY ZenonT(60), <1>2, Statuses, AutomationTimeAssumption DEF ExecRow
    <2>4. p \in Pc /\ p.of = e
      BY DEF Pc
    <2> HIDE DEF y, p
    <2>5. RowInv(wf.plan, y, child[e])
      <3>1. exec[e].note = {}
        BY <1>2, <2>1, ToldOf DEF RowInv
      <3>2. ASSUME NEW s \in Steps PROVE StepInv(wf.plan, y, child[e], s)
        BY <1>2, <2>1, <2>3, Statuses DEF RowInv, StepInv
      <3> QED BY <1>2, <2>1, <2>3, <3>1, <3>2, Statuses, ToldOf DEF RowInv
    <2>6. Evolves(exec[e], y)
      BY <2>1, <2>3, Statuses DEF Evolves
    <2> QED BY <1>1, <1>2, <1>3, <2>1, <2>2, <2>3, <2>4, <2>5, <2>6
  <1> QED BY <1>8, <1>10, <1>11, <1>12, <1>13, <1>14, <1>15, <1>16 DEF Work

\* The owner and the reviewers
LEMMA PeopleStep ==
    ASSUME IInv, People
    PROVE  IInv' /\ Kept
  <1>1. UNCHANGED <<wf, sched, enabling, now, pc, crashes>>
    BY ZenonT(60) DEF People, CancelExecution, ApproveStep, RejectStep
  <1>2. PICK e \in Execs : \/ CancelExecution(e)
                           \/ \E s \in Steps : ApproveStep(e, s) \/ RejectStep(e, s)
    BY DEF People
  <1>3. /\ exec \in [Execs -> ExecRow] /\ child \in [Execs -> Runs] /\ wf.plan \in PlanType
        /\ exec[e] \in ExecRow /\ child[e] \in Runs /\ RowInv(wf.plan, exec[e], child[e])
    BY Facts
  <1>4. ASSUME NEW y \in ExecRow, NEW r \in Runs, RowInv(wf.plan, y, r), Evolves(exec[e], y),
               exec' = [exec EXCEPT ![e] = y], child' = [child EXCEPT ![e] = r]
        PROVE  IInv' /\ Kept
    <2>1. /\ pc' \in [Workers -> [at : {"idle", "advance", "fail"}, of : Execs \cup {None}]]
          /\ \A w \in Workers : pc'[w].at # "idle" =>
                                   pc'[w].of \in Execs /\ exec[pc'[w].of].status # "ABSENT"
          /\ crashes' \in Nat
      BY <1>1, Facts
    <2> QED BY <1>1, <1>4, <2>1, OneExec
  <1>5. CASE CancelExecution(e)
    <2> DEFINE y == CancelledExec(exec[e])
               r == CancelledChild(exec[e], child[e])
    <2>1. /\ exec[e].status \in Active
          /\ exec' = [exec EXCEPT ![e] = y] /\ child' = [child EXCEPT ![e] = r]
      BY <1>5 DEF CancelExecution
    <2>2. y \in ExecRow /\ r \in Runs /\ RowInv(wf.plan, y, r) /\ Evolves(exec[e], y)
      BY <1>3, <2>1, RowCancelled
    <2> HIDE DEF y, r
    <2> QED BY <1>4, <2>1, <2>2
  <1>6. ASSUME NEW s \in Steps, ApproveStep(e, s) PROVE IInv' /\ Kept
    <2> DEFINE y == [exec[e] EXCEPT !.step = [exec[e].step EXCEPT ![s] = "COMPLETED"],
                                    !.status = "RUNNING", !.lease = None]
    <2>1. /\ exec[e].step[s] = "WAITING_REVIEW" /\ child' = child
          /\ exec' = [exec EXCEPT ![e].step[s] = "COMPLETED", ![e].status = "RUNNING",
                                  ![e].lease = None]
      BY <1>6 DEF ApproveStep
    <2>2. exec' = [exec EXCEPT ![e] = y] /\ child' = [child EXCEPT ![e] = child[e]]
      BY <1>3, <2>1
    <2> HIDE DEF y
    <2>3. y \in ExecRow /\ RowInv(wf.plan, y, child[e]) /\ Evolves(exec[e], y)
      BY <1>3, <2>1, RowApproved DEF y
    <2> QED BY <1>3, <1>4, <2>2, <2>3
  <1>7. ASSUME NEW s \in Steps, RejectStep(e, s) PROVE IInv' /\ Kept
    <2> DEFINE y == [exec[e] EXCEPT !.step = WithdrawnSteps(exec[e].step), !.status = "FAILED",
                                    !.lease = None, !.note = exec[e].note \cup ({"failure"} \cap Notify)]
    <2>1. /\ exec[e].step[s] = "WAITING_REVIEW" /\ child' = child
          /\ exec' = [exec EXCEPT ![e].step = WithdrawnSteps(@), ![e].status = "FAILED",
                            ![e].lease = None, ![e].note = @ \cup ({"failure"} \cap Notify)]
      BY <1>7 DEF RejectStep
    <2>2. exec' = [exec EXCEPT ![e] = y] /\ child' = [child EXCEPT ![e] = child[e]]
      BY <1>3, <2>1
    <2> HIDE DEF y
    <2>3. y \in ExecRow /\ RowInv(wf.plan, y, child[e]) /\ Evolves(exec[e], y)
      BY ZenonT(60), <1>3, <2>1, RowRejected DEF y
    <2> QED BY <1>3, <1>4, <2>2, <2>3
  <1> QED BY SMTT(30), <1>2, <1>5, <1>6, <1>7

\* The child Runs
LEMMA ChildStep ==
    ASSUME IInv, NEW e \in Execs, NEW s \in Steps,
           \/ ChildWork(e, s) \/ ChildResumes(e, s) \/ ChildLost(e, s)
           \/ \E o \in {"FAILED", "CANCELLED"} : ChildClosed(e, s, o)
    PROVE  IInv' /\ Kept
  <1> DEFINE old == child[e][s]
  <1>1. UNCHANGED <<wf, sched, enabling, now, pc, exec>>
    BY DEF ChildWork, ChildClaim, ChildParks, ChildEnds, ChildResumes, ChildLost, ChildClosed, SetChild
  <1>2. /\ exec \in [Execs -> ExecRow] /\ child \in [Execs -> Runs] /\ wf.plan \in PlanType
        /\ exec[e] \in ExecRow /\ child[e] \in Runs /\ RowInv(wf.plan, exec[e], child[e])
        /\ Evolves(exec[e], exec[e]) /\ crashes \in Nat
    BY Facts
  <1>3. old \in ChildRow /\ (old.held => old.status = "RUNNING")
    BY <1>2 DEF Runs, RowInv, StepInv
  <1>4. crashes' \in Nat
    <2>1. crashes' = crashes \/ crashes' = crashes + 1
      BY Zenon DEF ChildWork, ChildClaim, ChildParks, ChildEnds, ChildResumes, ChildLost, ChildClosed, SetChild
    <2> QED BY SMTT(30), <1>2, <2>1
  <1>5. ASSUME NEW run \in ChildRow, child' = [child EXCEPT ![e][s] = run],
               run.held => run.status = "RUNNING", run.asked = old.asked,
               old.status \notin {"ABSENT"} \cup RunOver
        PROVE  IInv' /\ Kept
    <2> DEFINE r == [child[e] EXCEPT ![s] = run]
    <2>1. r \in Runs /\ RowInv(wf.plan, exec[e], r)
      BY <1>2, <1>5, RowOfRun
    <2>2. child' = [child EXCEPT ![e] = r] /\ exec' = [exec EXCEPT ![e] = exec[e]]
      BY <1>1, <1>2, <1>5
    <2> HIDE DEF r
    <2>3. /\ pc' \in [Workers -> [at : {"idle", "advance", "fail"}, of : Execs \cup {None}]]
          /\ \A w \in Workers : pc'[w].at # "idle" =>
                                   pc'[w].of \in Execs /\ exec[pc'[w].of].status # "ABSENT"
      BY <1>1, Facts
    <2> QED BY <1>1, <1>2, <1>4, <2>1, <2>2, <2>3, OneExec
  <1> HIDE DEF old
  <1>6. CASE ChildClaim(e, s)
    <2>1. /\ old.status \in {"PENDING", "RUNNING"}
          /\ child' = [child EXCEPT ![e][s] = [old EXCEPT !.status = "RUNNING", !.held = TRUE]]
      BY <1>6 DEF ChildClaim, SetChild, old
    <2> DEFINE run == [old EXCEPT !.status = "RUNNING", !.held = TRUE]
    <2>2. run \in ChildRow /\ run.status = "RUNNING" /\ run.asked = old.asked
      BY <1>3 DEF ChildRow, RunStatus
    <2> HIDE DEF run
    <2> QED BY <1>5, <2>1, <2>2, Statuses DEF run
  <1>7. ASSUME NEW st \in RunStatus, old.status \notin {"ABSENT"} \cup RunOver,
               child' = [child EXCEPT ![e][s] = [old EXCEPT !.status = st, !.held = FALSE]]
        PROVE  IInv' /\ Kept
    <2> DEFINE run == [old EXCEPT !.status = st, !.held = FALSE]
    <2>1. run \in ChildRow /\ ~run.held /\ run.asked = old.asked
      BY <1>3, <1>7 DEF ChildRow
    <2> HIDE DEF run
    <2> QED BY <1>5, <1>7, <2>1 DEF run
  <1>8. CASE ChildParks(e, s)
    <2>1. /\ old.held /\ "WAITING" \in RunStatus
          /\ child' = [child EXCEPT ![e][s] = [old EXCEPT !.status = "WAITING", !.held = FALSE]]
      BY <1>8 DEF ChildParks, SetChild, old, RunStatus
    <2> QED BY <1>3, <1>7, <2>1, Statuses
  <1>9. ASSUME NEW o \in RunOver, ChildEnds(e, s, o) PROVE IInv' /\ Kept
    <2>1. /\ old.held /\ o \in RunStatus
          /\ child' = [child EXCEPT ![e][s] = [old EXCEPT !.status = o, !.held = FALSE]]
      BY <1>9 DEF ChildEnds, SetChild, old, RunStatus
    <2> QED BY <1>3, <1>7, <2>1, Statuses
  <1>10. ASSUME NEW o \in {"FAILED", "CANCELLED"}, ChildClosed(e, s, o) PROVE IInv' /\ Kept
    <2>1. /\ old.status \in {"PENDING", "RUNNING", "WAITING"} /\ o \in RunStatus
          /\ child' = [child EXCEPT ![e][s] = [old EXCEPT !.status = o, !.held = FALSE]]
      BY <1>10, Statuses DEF ChildClosed, SetChild, old, RunStatus
    <2> QED BY <1>3, <1>7, <2>1, Statuses
  <1>11. CASE ChildResumes(e, s)
    <2>1. /\ old.status = "WAITING" /\ "RUNNING" \in RunStatus
          /\ child' = [child EXCEPT ![e][s] = [old EXCEPT !.status = "RUNNING"]]
      BY <1>11 DEF ChildResumes, SetChild, old, RunStatus
    <2> DEFINE run == [old EXCEPT !.status = "RUNNING"]
    <2>2. run \in ChildRow /\ run.status = "RUNNING" /\ run.asked = old.asked
      BY <1>3, <2>1 DEF ChildRow
    <2> HIDE DEF run
    <2> QED BY <1>5, <2>1, <2>2, Statuses DEF run
  <1>12. CASE ChildLost(e, s)
    <2>1. /\ old.held /\ child' = [child EXCEPT ![e][s].held = FALSE]
      BY <1>12 DEF ChildLost, old
    <2>2. child' = [child EXCEPT ![e][s] = [old EXCEPT !.held = FALSE]]
      BY <1>2, <2>1 DEF old, Runs
    <2> DEFINE run == [old EXCEPT !.held = FALSE]
    <2>3. run \in ChildRow /\ ~run.held /\ run.asked = old.asked
      BY <1>3 DEF ChildRow
    <2> HIDE DEF run
    <2> QED BY <1>3, <1>5, <2>1, <2>2, <2>3, Statuses DEF run
  <1> QED BY <1>6, <1>8, <1>9, <1>10, <1>11, <1>12 DEF ChildWork

LEMMA TickStep ==
    ASSUME IInv, Tick
    PROVE  IInv' /\ Kept
  <1> DEFINE Y(e) == [exec[e] EXCEPT !.deadline = Sooner(@), !.lease = Sooner(@)]
  <1>1. /\ now' = IF now < Horizon THEN now + 1 ELSE now
        /\ exec' = [e \in Execs |-> Y(e)]
        /\ UNCHANGED <<wf, sched, enabling, child, pc, crashes>>
    BY DEF Tick
  <1>2. ASSUME NEW e \in Execs
        PROVE  /\ Y(e) \in ExecRow /\ RowInv(wf.plan, Y(e), child[e]) /\ Evolves(exec[e], Y(e))
    <2>1. /\ exec[e] \in ExecRow /\ child[e] \in Runs /\ RowInv(wf.plan, exec[e], child[e])
      BY Facts
    <2>2. \A t \in Nat : Sooner(t) \in Nat
      BY DEF Sooner
    <2>3. \A t \in Nat \cup {None} : Sooner(t) \in Nat \cup {None}
      BY DEF Sooner, None
    <2> HIDE DEF Sooner
    <2>4. /\ Y(e) \in ExecRow /\ Y(e).status = exec[e].status /\ Y(e).step = exec[e].step
          /\ Y(e).note = exec[e].note
          /\ Y(e).key = exec[e].key /\ Y(e).occ = exec[e].occ /\ Y(e).at = exec[e].at
      BY <2>1, <2>2, <2>3 DEF ExecRow
    <2> HIDE DEF Y
    <2> QED BY <2>1, <2>4 DEF RowInv, StepInv, Evolves
  <1> HIDE DEF Y
  <1>3. /\ exec' \in [Execs -> ExecRow] /\ child' \in [Execs -> Runs]
        /\ \A e \in Execs : RowInv(wf.plan, exec'[e], child'[e]) /\ Evolves(exec[e], exec'[e])
    BY <1>1, <1>2, Facts
  <1>4. now' \in Nat /\ now' >= now /\ sched'.next >= sched.next
    BY <1>1, Facts
  <1> QED BY <1>1, <1>3, <1>4, Facts, RowsMove

\* trigger_workflow, by hand or for the occurrence that is due
LEMMA AdmitStep ==
    ASSUME IInv, NEW new \in Execs, NEW key \in Keys \cup {NoKey}, NEW occ \in Nat \cup {Manual},
           Admit(new, key, occ), UNCHANGED <<wf, enabling, now, pc, crashes>>,
           sched' \in [exists : BOOLEAN, enabled : BOOLEAN, next : Nat, misfire : Misfire],
           sched'.exists = sched.exists, sched'.misfire = sched.misfire,
           sched'.enabled => sched.enabled, sched'.next >= sched.next,
           occ # Manual => /\ sched.exists /\ occ = sched.next /\ sched.next <= now
                           /\ Misfired => sched.misfire # "SKIP" /\ sched'.next > now
    PROVE  IInv' /\ Kept
  <1> DEFINE y == NewExec(key, occ)
  <1>1. /\ exec[new].status = "ABSENT" /\ ~Known(key, occ)
        /\ exec' = [e \in Execs |-> IF e = new THEN y
                        ELSE IF e \in Replaced THEN CancelledExec(exec[e]) ELSE exec[e]]
        /\ child' = [e \in Execs |->
                    IF e \in Replaced THEN CancelledChild(exec[e], child[e]) ELSE child[e]]
    BY DEF Admit
  <1>2. Replaced \subseteq ActiveExecs /\ ActiveExecs \subseteq Execs
        /\ \A e \in Execs : e \in ActiveExecs <=> exec[e].status \in Active
    BY DEF Replaced, ActiveExecs
  <1>3. new \notin Replaced
    BY <1>1, <1>2, Statuses
  <1>4. /\ wf.plan \in PlanType /\ now \in Nat /\ wf.policy \in Policies
        /\ sched \in [exists : BOOLEAN, enabled : BOOLEAN, next : Nat, misfire : Misfire]
        /\ \A e \in Execs : /\ exec[e] \in ExecRow /\ child[e] \in Runs
                            /\ RowInv(wf.plan, exec[e], child[e]) /\ Evolves(exec[e], exec[e])
    BY Facts
  <1>5. ASSUME NEW e \in Execs, e # new
        PROVE  /\ exec'[e] \in ExecRow /\ child'[e] \in Runs
               /\ RowInv(wf.plan, exec'[e], child'[e]) /\ Evolves(exec[e], exec'[e])
               /\ e \in Replaced => exec'[e].status \notin Active
    <2>1. CASE e \in Replaced
      <3>1. exec'[e] = CancelledExec(exec[e]) /\ child'[e] = CancelledChild(exec[e], child[e])
        BY <1>1, <1>5, <2>1
      <3>2. exec[e].status \in Active
        BY <1>2, <2>1
      <3>3. CancelledExec(exec[e]).status = "CANCELLED"
        BY <1>4 DEF CancelledExec, ExecRow
      <3> QED BY <1>4, <3>1, <3>2, <3>3, RowCancelled, Statuses
    <2>2. CASE e \notin Replaced
      <3>1. exec'[e] = exec[e] /\ child'[e] = child[e]
        BY <1>1, <1>5, <2>2
      <3> QED BY <1>4, <2>2, <3>1
    <2> QED BY <2>1, <2>2
  <1>6. /\ exec'[new] = y /\ child'[new] = child[new]
    BY <1>1, <1>3
  <1>7. /\ y.status = IF Admitted THEN "PENDING" ELSE "SKIPPED"
        /\ y.step = [s \in Steps |-> IF Admitted THEN "PENDING" ELSE "SKIPPED"]
        /\ y.note = {} /\ y.key = key /\ y.occ = occ /\ y.at = now
        /\ y \in ExecRow
    <2> DEFINE st == [s \in Steps |-> IF Admitted THEN "PENDING" ELSE "SKIPPED"]
               status == IF Admitted THEN "PENDING" ELSE "SKIPPED"
    <2>1. st \in [Steps -> StepStatus] /\ status \in ExecStatus
      BY Statuses
    <2>2. y = [status |-> status, step |-> st, note |-> {}, deadline |-> Timeout, lease |-> None,
               key |-> key, occ |-> occ, at |-> now]
      BY DEF NewExec
    <2> HIDE DEF st, status, y
    <2>3. y \in ExecRow
      BY <1>4, <2>1, <2>2, AutomationTimeAssumption DEF ExecRow
    <2> QED BY <2>2, <2>3 DEF st, status
  <1> HIDE DEF y
  <1>8. RowInv(wf.plan, y, child[new])
    <2>1. \A s \in Steps : /\ exec[new].step[s] = "PENDING" /\ child[new][s].status = "ABSENT"
                           /\ child[new][s].held => child[new][s].status = "RUNNING"
      BY <1>1, <1>4 DEF RowInv, StepInv
    <2>2. \A s \in Steps : y.step[s] = IF Admitted THEN "PENDING" ELSE "SKIPPED"
      BY <1>7
    <2>3. ASSUME NEW s \in Steps PROVE StepInv(wf.plan, y, child[new], s)
      <3>1. CASE Admitted
        BY <1>7, <2>1, <2>2, <3>1, Statuses DEF StepInv
      <3>2. CASE ~Admitted
        BY <1>7, <2>1, <2>2, <3>2, Statuses DEF StepInv
      <3> QED BY <3>1, <3>2
    <2>4. y.note = Notify \cap Told(y.status)
      BY <1>7, ToldOf
    <2>5. ~(\A s \in Steps : y.step[s] = "COMPLETED")
      BY <2>2, PlanAssumption
    <2> QED BY <1>7, <2>3, <2>4, <2>5 DEF RowInv
  <1>9. ASSUME NEW e \in Execs
        PROVE  exec'[e] \in ExecRow /\ child'[e] \in Runs /\ RowInv(wf.plan, exec'[e], child'[e])
    BY <1>4, <1>5, <1>6, <1>7, <1>8
  <1>10. AutoTypeOK'
    <2>1. exec' \in [Execs -> ExecRow] /\ child' \in [Execs -> Runs]
      BY <1>1, <1>9
    <2> QED BY <2>1 DEF IInv, AutoTypeOK, Runs
  <1>11. Rows'
    BY <1>9 DEF Rows
  <1>12. Held'
    <2>1. \A e \in Execs : exec[e].status # "ABSENT" => exec'[e].status # "ABSENT"
      BY <1>1, <1>5 DEF Evolves
    <2> QED BY <2>1 DEF IInv, AutoTypeOK, Held
  <1>13. Kept
    BY <1>1, <1>5, Statuses DEF Kept, Evolves
  <1>14. Admission'
    <2> DEFINE A == ActiveExecs
               B == ActiveExecs'
    <2>1. IsFiniteSet(A) /\ AdmissionRespected /\ Cardinality(A) \in Nat
      BY FS_CardinalityType DEF IInv, Admission
    <2>2. B \subseteq (A \ Replaced) \cup {new}
      BY <1>2, <1>5 DEF ActiveExecs, Evolves
    <2>3. ~Admitted => new \notin B
      BY <1>6, <1>7, Statuses DEF ActiveExecs
    <2>4. /\ IsFiniteSet({new}) /\ Cardinality({new}) = 1
          /\ IsFiniteSet(A \cup {new}) /\ Cardinality(A \cup {new}) \in Nat
          /\ Cardinality(A \cup {new}) <= Cardinality(A) + 1
      <3>1. IsFiniteSet({new}) /\ Cardinality({new}) = 1
        BY FS_Singleton
      <3>2. /\ IsFiniteSet(A \cup {new})
            /\ Cardinality(A \cup {new}) = IF new \in A THEN Cardinality(A) ELSE Cardinality(A) + 1
        BY <2>1, FS_AddElement
      <3> HIDE DEF A
      <3> QED BY <2>1, <3>1, <3>2
    <2> HIDE DEF A, B
    <2>5. ASSUME NEW S, IsFiniteSet(S), B \subseteq S
          PROVE  /\ IsFiniteSet(B) /\ Cardinality(B) \in Nat /\ Cardinality(S) \in Nat
                 /\ Cardinality(B) <= Cardinality(S)
      BY <2>5, FS_Subset, FS_CardinalityType
    <2>6. IsFiniteSet(B) /\ Cardinality(B) \in Nat
      BY <2>2, <2>4, <2>5
    <2>7. MaxConcurrency \in Nat \ {0}
      BY AutomationBoundAssumption
    <2>8. /\ wf.policy \in {"FORBID", "REPLACE"} => Cardinality(B) <= 1
          /\ wf.policy = "ALLOW" => Cardinality(B) <= MaxConcurrency
      <3>1. CASE ~Admitted
        <4>1. B \subseteq A
          BY <2>2, <2>3, <3>1
        <4>2. Cardinality(B) <= Cardinality(A)
          BY <2>1, <2>5, <4>1
        <4> QED BY <2>1, <2>6, <2>7, <4>2 DEF AdmissionRespected, A
      <3>2. CASE Admitted /\ wf.policy = "FORBID"
        <4>1. A = {}
          BY <3>2 DEF Admitted, A
        <4>2. B \subseteq {new}
          BY <2>2, <4>1
        <4> QED BY <2>4, <2>5, <3>2, <4>2
      <3>3. CASE Admitted /\ wf.policy = "REPLACE"
        <4>1. B \subseteq {new}
          BY <2>2, <3>3 DEF Replaced, A
        <4> QED BY <2>4, <2>5, <3>3, <4>1
      <3>4. CASE Admitted /\ wf.policy = "ALLOW"
        <4>1. Cardinality(A) < MaxConcurrency
          BY <3>4 DEF Admitted, A
        <4>2. Cardinality(B) <= Cardinality(A \cup {new})
          BY <2>2, <2>4, <2>5
        <4> QED BY <2>1, <2>4, <2>6, <2>7, <3>4, <4>1, <4>2
      <3> QED BY <1>4, <3>1, <3>2, <3>3, <3>4 DEF Policies
    <2> QED BY <2>6, <2>8 DEF Admission, AdmissionRespected, B
  <1>15. Schedule'
    <2>1. ASSUME NEW e \in Present
          PROVE  /\ e \in Execs /\ e # new /\ Fired(e)
                 /\ exec'[e].key = exec[e].key /\ exec'[e].occ = exec[e].occ /\ exec'[e].at = exec[e].at
                 /\ Late(e)' <=> Late(e)
                 /\ exec[e].at \in Nat /\ exec[e].occ \in Nat \cup {Manual}
                 /\ key # NoKey => exec[e].key # key
                 /\ occ # Manual => exec[e].occ # occ
      <3>1. e \in Execs /\ e # new /\ exec[e].status # "ABSENT" /\ exec[e] \in ExecRow
        BY <1>1, <1>4 DEF Present
      <3>2. exec'[e].key = exec[e].key /\ exec'[e].occ = exec[e].occ /\ exec'[e].at = exec[e].at
        BY <1>5, <3>1 DEF Evolves
      <3>3. Fired(e)
        BY DEF IInv, Schedule
      <3>4. /\ key # NoKey => exec[e].key # key
            /\ occ # Manual => exec[e].occ # occ
        BY <1>1, <3>1 DEF Known
      <3>5. Late(e)' <=> Late(e)
        BY <3>2 DEF Late
      <3> QED BY <3>1, <3>2, <3>3, <3>4, <3>5 DEF ExecRow
    <2>2. \A e \in Present' : e = new \/ e \in Present
      BY <1>5 DEF Present, Evolves
    <2>3. /\ exec'[new].key = key /\ exec'[new].occ = occ /\ exec'[new].at = now
      BY <1>6, <1>7
    <2>4. sched.next \in Nat /\ sched'.next \in Nat /\ sched.misfire \in Misfire /\ now' = now /\ now \in Nat
      BY <1>4
    <2>5. Late(new)' => Misfired /\ occ # Manual
      BY <2>3 DEF Late, Misfired
    <2>6. ASSUME NEW e \in Present PROVE Fired(e)'
      BY <2>1, <2>4 DEF Fired
    <2>7. Fired(new)'
      BY <2>3, <2>4, <2>5 DEF Fired, Misfire
    <2>8. ASSUME NEW e \in Present, Late(e), Late(new)' PROVE exec[e].at # now
      BY <2>1, <2>4, <2>5, <2>8 DEF Fired, Late
    <2>9. ASSUME NEW e \in Present PROVE Apart(e, new)' /\ Apart(new, e)'
      BY <2>1, <2>3, <2>8 DEF Apart
    <2>10. ASSUME NEW e \in Present, NEW f \in Present, e # f PROVE Apart(e, f)'
      <3>1. Apart(e, f)
        BY <2>10 DEF IInv, Schedule
      <3> QED BY <2>1, <3>1 DEF Apart
    <2>11. enabling' \/ sched'.enabled => sched'.exists
      BY DEF IInv, Schedule
    <2> QED BY <2>2, <2>6, <2>7, <2>9, <2>10, <2>11 DEF Schedule
  <1> QED BY <1>10, <1>11, <1>12, <1>13, <1>14, <1>15 DEF IInv

LEMMA TriggerStep ==
    ASSUME IInv, FireSchedule \/ (\E k \in Keys \cup {NoKey} : TriggerWorkflow(k))
    PROVE  IInv' /\ Kept
  <1> DEFINE Sched == [exists : BOOLEAN, enabled : BOOLEAN, next : Nat, misfire : Misfire]
  <1>1. sched \in Sched /\ sched.next \in Nat /\ now \in Nat
        /\ (enabling \/ sched.enabled => sched.exists)
    BY Facts
  <1> HIDE DEF Sched
  <1>2. ASSUME NEW k \in Keys \cup {NoKey}, TriggerWorkflow(k) PROVE IInv' /\ Kept
    <2>1. PICK new \in Execs : Admit(new, k, Manual)
      BY <1>2 DEF TriggerWorkflow
    <2>2. UNCHANGED <<wf, sched, enabling, now, pc, crashes>>
      BY <1>2 DEF TriggerWorkflow
    <2>3. sched'.next >= sched.next
      BY <1>1, <2>2
    <2> QED BY <1>1, <2>1, <2>2, <2>3, AdmitStep DEF Sched
  <1>3. CASE FireSchedule
    <2>1. PICK new \in Execs : Admit(new, NoKey, sched.next)
      BY <1>3 DEF FireSchedule
    <2>2. /\ UNCHANGED <<wf, enabling, now, pc, crashes>>
          /\ sched' = [sched EXCEPT !.next = Following]
          /\ sched.enabled /\ sched.next <= now /\ ~(Misfired /\ sched.misfire = "SKIP")
      BY <1>3 DEF FireSchedule, Fires, Due
    <2>3. Following \in Nat /\ Following >= sched.next /\ (Misfired => Following > now)
      <3>1. CASE Misfired
        BY <1>1, <2>2, <3>1, OccurrenceLater DEF Following
      <3>2. CASE ~Misfired
        BY <1>1, <3>2, OccurrenceLater DEF Following
      <3> QED BY <3>1, <3>2
    <2>4. /\ sched' \in Sched /\ sched'.exists = sched.exists /\ sched'.misfire = sched.misfire
          /\ sched'.next = Following /\ sched'.enabled = sched.enabled
      BY <1>1, <2>2, <2>3 DEF Sched
    <2>5. sched.next # Manual
      BY <1>1 DEF Manual
    <2> QED BY <1>1, <2>1, <2>2, <2>3, <2>4, <2>5, AdmitStep DEF Sched
  <1> QED BY <1>2, <1>3
-----------------------------------------------------------------------------
LEMMA InvInit == Init => IInv
  <1> SUFFICES ASSUME Init PROVE IInv
    OBVIOUS
  <1>1. PICK policy \in Policies, plan \in Plans :
            wf = [status |-> "DRAFT", published |-> FALSE, policy |-> policy, plan |-> plan]
    BY DEF Init
  <1>2. /\ sched = [exists |-> FALSE, enabled |-> FALSE, next |-> 0, misfire |-> "SKIP"]
        /\ enabling = FALSE /\ now \in 0 .. Horizon
        /\ exec = [e \in Execs |-> NoExec]
        /\ child = [e \in Execs |-> [s \in Steps |-> NoRun]]
        /\ pc = [w \in Workers |-> [at |-> "idle", of |-> None]]
        /\ crashes \in 0 .. MaxCrashes
    BY DEF Init
  <1>3. /\ NoExec \in ExecRow /\ NoExec.status = "ABSENT" /\ NoExec.note = {}
        /\ NoExec.step = [s \in Steps |-> "PENDING"] /\ NoExec.occ = Manual
    BY Statuses DEF NoExec, ExecRow
  <1>4. NoRun \in ChildRow /\ NoRun.status = "ABSENT" /\ ~NoRun.held
    BY DEF NoRun, ChildRow, RunStatus
  <1>5. AutoTypeOK
    <2>1. now \in Nat /\ crashes \in Nat
      BY <1>2, AutomationTimeAssumption, AutomationBoundAssumption
    <2>2. /\ wf \in [status : {"DRAFT", "ACTIVE", "PAUSED", "RETIRED"}, published : BOOLEAN,
                     policy : Policies, plan : Plans]
          /\ sched \in [exists : BOOLEAN, enabled : BOOLEAN, next : Nat, misfire : Misfire]
      BY <1>1, <1>2 DEF Misfire
    <2>3. /\ exec \in [Execs -> ExecRow] /\ child \in [Execs -> [Steps -> ChildRow]]
      BY <1>2, <1>3, <1>4
    <2>4. /\ pc \in [Workers -> [at : {"idle", "advance", "fail"}, of : Execs \cup {None}]]
          /\ \A w \in Workers : pc[w].at = "idle"
      BY <1>2
    <2> QED BY <1>2, <2>1, <2>2, <2>3, <2>4 DEF AutoTypeOK
  <1>6. Rows
    <2> SUFFICES ASSUME NEW e \in Execs PROVE RowInv(wf.plan, exec[e], child[e])
      BY DEF Rows
    <2>1. exec[e] = NoExec /\ \A s \in Steps : child[e][s] = NoRun
      BY <1>2
    <2>2. ASSUME NEW s \in Steps PROVE StepInv(wf.plan, exec[e], child[e], s)
      <3>1. exec[e].step[s] = "PENDING" /\ exec[e].status = "ABSENT"
        BY <1>3, <2>1
      <3> QED BY <1>4, <2>1, <3>1, Statuses DEF StepInv
    <2> QED BY <1>3, <2>1, <2>2, Statuses, ToldOf DEF RowInv
  <1>7. Held
    BY <1>2 DEF Held
  <1>8. Admission
    <2>1. ActiveExecs = {}
      BY <1>2, <1>3, Statuses DEF ActiveExecs
    <2>2. IsFiniteSet({}) /\ Cardinality({}) = 0
      BY FS_EmptySet
    <2> QED BY <2>1, <2>2, AutomationBoundAssumption DEF Admission, AdmissionRespected
  <1>9. Schedule
    <2>1. Present = {}
      BY <1>2, <1>3 DEF Present
    <2> QED BY <1>2, <2>1 DEF Schedule
  <1> QED BY <1>5, <1>6, <1>7, <1>8, <1>9 DEF IInv

LEMMA InvNext == IInv /\ [Next]_vars => IInv' /\ Kept
  <1> SUFFICES ASSUME IInv, [Next]_vars PROVE IInv' /\ Kept
    OBVIOUS
  <1>1. CASE UNCHANGED vars
    <2>1. /\ exec' \in [Execs -> ExecRow] /\ child' \in [Execs -> Runs]
          /\ \A e \in Execs : RowInv(wf.plan, exec'[e], child'[e]) /\ Evolves(exec[e], exec'[e])
      BY <1>1, Facts
    <2>2. now' >= now /\ sched'.next >= sched.next
      BY <1>1, Facts
    <2> QED BY <1>1, <2>1, <2>2, Facts, RowsMove
  <1>2. CASE Manage
    BY <1>2, ScheduleStep, TriggerStep DEF Manage
  <1>3. CASE Scheduler
    BY <1>3, ScheduleStep, TriggerStep DEF Scheduler
  <1>4. ASSUME NEW w \in Workers,
               Work(w) \/ AdvanceRaises(w) \/ Crash(w) \/ \E e \in Execs : Claim(w, e)
        PROVE  IInv' /\ Kept
    BY <1>4, WorkerStep
  <1>5. ASSUME NEW e \in Execs, NEW s \in Steps,
               \/ ChildWork(e, s) \/ ChildResumes(e, s) \/ ChildLost(e, s)
               \/ \E o \in {"FAILED", "CANCELLED"} : ChildClosed(e, s, o)
        PROVE  IInv' /\ Kept
    BY <1>5, ChildStep
  <1> QED BY <1>1, <1>2, <1>3, <1>4, <1>5, PeopleStep, TickStep DEF Next

LEMMA Invariant == Spec => []IInv
  <1>1. IInv /\ [Next]_vars => IInv'
    BY InvNext
  <1> QED BY <1>1, InvInit, PTL DEF Spec
-----------------------------------------------------------------------------
\* The rows of workflow, schedule, executions, steps and child Runs keep their types, and
\* leases and deadlines never run below the tests that read them.
THEOREM AutomationTyped == Spec => []AutoTypeOK
  <1>1. IInv => AutoTypeOK
    BY DEF IInv
  <1> QED BY <1>1, Invariant, PTL

\* trigger_workflow counts under the lock of the workflow and everybody else writes
\* executions without it: still FORBID and REPLACE never have two active executions, and
\* ALLOW never more than max_concurrency.
THEOREM AdmissionHolds == Spec => []AdmissionRespected
  <1>1. IInv => AdmissionRespected
    BY DEF IInv, Admission
  <1> QED BY <1>1, Invariant, PTL

\* The owner is told exactly what became of an execution, whatever workers that claimed it
\* before, their failure handlers, reviewers and cancellations do with it.
THEOREM OutcomeToldTruly == Spec => []OutcomeTruthful
  <1>1. IInv => OutcomeTruthful
    BY DEF IInv, Rows, RowInv, OutcomeTruthful, Told
  <1> QED BY <1>1, Invariant, PTL

\* For every plan: steps run in the order of their dependencies, an analysis completes only
\* with its Run, nothing waits in an execution that has ended, and the Runs of cancelled
\* and skipped steps have been asked to stop.
THEOREM PlanFollowed == Spec => []StepsFollowPlan
  <1>1. IInv => StepsFollowPlan
    BY DEF IInv, Rows, RowInv, StepInv, StepsFollowPlan
  <1> QED BY <1>1, Invariant, PTL

\* An occurrence and an idempotency key lead to one execution, and an outage to one late
\* execution at most, for every period, grace and length of the outage.
THEOREM OccurrencesOnce == Spec => []TriggeredOnce
  <1>1. IInv => TriggeredOnce
    BY DEF IInv, Schedule, Fired, Apart, Late, Present, TriggeredOnce
  <1> QED BY <1>1, Invariant, PTL

\* An execution that has ended never changes again: a worker whose claim was taken over, its
\* _fail_execution, a reviewer and a cancellation all find the terminal status and leave it.
THEOREM EndedStaysEnded == Spec => ExecutionFinal
  <1>1. IInv /\ [Next]_vars => Kept
    BY InvNext
  <1>2. Kept <=> \A e \in Execs : exec[e].status \in Terminal =>
                     /\ exec'[e].status = exec[e].status
                     /\ exec'[e].step = exec[e].step
                     /\ exec'[e].note = exec[e].note
    BY DEF Kept
  <1> QED BY <1>1, <1>2, Invariant, PTL DEF Spec, ExecutionFinal
=============================================================================
