------------------------ MODULE ActionControlProofs ------------------------
(***************************************************************************)
(* Theorems about ActionControl, for every number of workers and every     *)
(* duration and bound.                                                     *)
(***************************************************************************)
EXTENDS ActionControl, TLAPS

USE DEF vars, rowVars

Early == {"WAITING_APPROVAL", "APPROVED", "EXECUTING", "COMPLETED", "FAILED", "REJECTED",
          "EXPIRED"}
Late == {"WAITING_ROLLBACK_APPROVAL", "ROLLBACK_APPROVED", "ROLLING_BACK", "ROLLED_BACK",
         "ROLLBACK_FAILED", "ROLLBACK_REJECTED"}

\* The approvals tell how far the action has come: the first is for the execution, all
\* others are for rollbacks, and the status knows which of them were granted.
History ==
    /\ \A i \in 1..Len(approvals) :
         approvals[i].purpose = IF i = 1 THEN "EXECUTE" ELSE "ROLLBACK"
    /\ status \in {"DRAFT", "PREFLIGHT_FAILED"} => Len(approvals) = 0
    /\ status \in Early => Len(approvals) = 1
    /\ status \in Late => Len(approvals) >= 2
    /\ status \in Late \cup {"APPROVED", "EXECUTING", "COMPLETED", "FAILED"}
         => approvals[1].status = "APPROVED"
    /\ status \in {"ROLLBACK_APPROVED", "ROLLING_BACK"}
         => approvals[Len(approvals)].status = "APPROVED"

\* What the provider has seen.
Ledger ==
    /\ \A i \in 1..Len(sent) : sent[i].ordinal = 1
    /\ \A k \in applied : k = AttemptKey(k.purpose)
    /\ status = "COMPLETED" => AttemptKey("EXECUTE") \in applied
    /\ status = "ROLLED_BACK" => AttemptKey("ROLLBACK") \in applied
    /\ status \in {"DRAFT", "PREFLIGHT_FAILED", "WAITING_APPROVAL", "APPROVED", "REJECTED",
                   "EXPIRED"} => sent = <<>> /\ applied = {}

\* What the attempts have recorded.
Attempts ==
    /\ status \notin {"COMPLETED", "FAILED", "CANCELLED"} \cup Late
         => attempt["EXECUTE"].status = "ABSENT"
    /\ status \notin {"CANCELLED"} \cup Late => attempt["ROLLBACK"].status = "ABSENT"
    /\ attempt["ROLLBACK"].status # "ABSENT" => attempt["ROLLBACK"].input = Payload("ROLLBACK")
    /\ attempt["ROLLBACK"].status = "COMPLETED" => status = "ROLLED_BACK"

IInv == ActionTypeOK /\ OnePending /\ History /\ Ledger /\ Attempts
-----------------------------------------------------------------------------
\* ActionService.decide and the expiry rewrite the status of one approval row.
LEMMA Decided ==
    ASSUME ActionTypeOK, NEW i \in DOMAIN approvals, NEW s \in ApprovalStatus,
           approvals' = [approvals EXCEPT ![i].status = s]
    PROVE  /\ approvals' \in Seq(Approval) /\ Len(approvals') = Len(approvals)
           /\ \A j \in 1..Len(approvals) :
                /\ approvals'[j].purpose = approvals[j].purpose
                /\ approvals'[j].status = IF j = i THEN s ELSE approvals[j].status
  <1>1. approvals[i] \in Approval
    BY DEF ActionTypeOK
  <1> DEFINE a == [approvals[i] EXCEPT !.status = s]
  <1>2. a \in Approval /\ a.purpose = approvals[i].purpose /\ a.status = s
    BY <1>1 DEF Approval
  <1>3. approvals' = [approvals EXCEPT ![i] = a]
    BY DEF ActionTypeOK
  <1> HIDE DEF a
  <1>4. approvals \in Seq(Approval) /\ DOMAIN approvals = 1..Len(approvals)
    BY DEF ActionTypeOK
  <1>5. approvals' \in Seq(Approval) /\ Len(approvals') = Len(approvals)
    BY <1>2, <1>3, <1>4
  <1>6. \A j \in 1..Len(approvals) : approvals'[j] = IF j = i THEN a ELSE approvals[j]
    BY <1>3, <1>4
  <1> QED BY <1>2, <1>5, <1>6

\* ActionService._create_approval adds a pending row at the end.
LEMMA Requested ==
    ASSUME ActionTypeOK, NEW p \in Purposes, approvals' = Append(approvals, NewApproval(p))
    PROVE  /\ approvals' \in Seq(Approval) /\ Len(approvals') = Len(approvals) + 1
           /\ \A j \in 1..Len(approvals) : approvals'[j] = approvals[j]
           /\ approvals'[Len(approvals')].purpose = p
           /\ approvals'[Len(approvals')].status = "PENDING"
  <1>1. NewApproval(p) \in Approval
    BY ActionTimeAssumption DEF NewApproval, Approval, ApprovalStatus
  <1>2. NewApproval(p).purpose = p /\ NewApproval(p).status = "PENDING"
    BY DEF NewApproval
  <1> QED BY <1>1, <1>2 DEF ActionTypeOK

\* ActionService.cancel closes every pending row.
LEMMA Withdrawn ==
    ASSUME ActionTypeOK, Cancel
    PROVE  /\ approvals' \in Seq(Approval) /\ Len(approvals') = Len(approvals)
           /\ \A j \in 1..Len(approvals) :
                /\ approvals'[j].purpose = approvals[j].purpose
                /\ approvals'[j].status = IF approvals[j].status = "PENDING" THEN "CANCELLED"
                                          ELSE approvals[j].status
  <1> DEFINE new(j) == IF approvals[j].status = "PENDING"
                       THEN [approvals[j] EXCEPT !.status = "CANCELLED"] ELSE approvals[j]
  <1>1. Len(approvals) \in Nat /\ DOMAIN approvals = 1..Len(approvals)
    BY DEF ActionTypeOK
  <1>2. ASSUME NEW j \in 1..Len(approvals)
        PROVE  /\ new(j) \in Approval /\ new(j).purpose = approvals[j].purpose
               /\ new(j).status = IF approvals[j].status = "PENDING" THEN "CANCELLED"
                                  ELSE approvals[j].status
    <2>1. approvals[j] \in Approval
      BY <1>1 DEF ActionTypeOK
    <2> QED BY <2>1 DEF Approval, ApprovalStatus
  <1>3. approvals' = [j \in 1..Len(approvals) |-> new(j)]
    BY <1>1 DEF Cancel
  <1> HIDE DEF new
  <1> QED BY <1>1, <1>2, <1>3

\* The clock touches nothing but the remaining time of a row.
LEMMA Aged ==
    ASSUME ActionTypeOK, Tick
    PROVE  /\ approvals' \in Seq(Approval) /\ Len(approvals') = Len(approvals)
           /\ \A j \in 1..Len(approvals) :
                /\ approvals'[j].purpose = approvals[j].purpose
                /\ approvals'[j].status = approvals[j].status
  <1> DEFINE new(j) == [approvals[j] EXCEPT !.ttl = Sooner(@)]
  <1>1. Len(approvals) \in Nat /\ DOMAIN approvals = 1..Len(approvals)
    BY DEF ActionTypeOK
  <1>2. ASSUME NEW j \in 1..Len(approvals)
        PROVE  /\ new(j) \in Approval /\ new(j).purpose = approvals[j].purpose
               /\ new(j).status = approvals[j].status
    <2>1. approvals[j] \in Approval
      BY <1>1 DEF ActionTypeOK
    <2>2. Sooner(approvals[j].ttl) \in Nat
      BY <2>1 DEF Approval, Sooner
    <2> QED BY <2>1, <2>2 DEF Approval
  <1>3. approvals' = [j \in 1..Len(approvals) |-> new(j)]
    BY <1>1 DEF Tick
  <1> HIDE DEF new
  <1> QED BY <1>1, <1>2, <1>3

\* An approval can be decided or expire only while the action waits for it.
LEMMA PendingStatus ==
    ASSUME IInv, NEW i \in DOMAIN approvals, approvals[i].status = "PENDING"
    PROVE  /\ i = Len(approvals)
           /\ \/ i = 1 /\ approvals[i].purpose = "EXECUTE" /\ status = "WAITING_APPROVAL"
              \/ /\ i >= 2 /\ approvals[i].purpose = "ROLLBACK"
                 /\ status = "WAITING_ROLLBACK_APPROVAL"
  <1>1. i \in 1..Len(approvals) /\ Len(approvals) \in Nat
    BY DEF IInv, ActionTypeOK
  <1> QED BY <1>1 DEF IInv, OnePending, History

\* The approval that ActionWorker._invoke finds is the last one requested.
LEMMA NewestIsLast ==
    ASSUME IInv, status \in Claimable
    PROVE  /\ Grant \in Purposes /\ Len(approvals) \in Nat \ {0}
           /\ Newest(Approved(Grant)) = Len(approvals)
           /\ Len(approvals) \in Approved(Grant)
  <1> DEFINE n == Len(approvals)
  <1>1. n \in Nat \ {0} /\ DOMAIN approvals = 1..n
    BY DEF IInv, ActionTypeOK, History, Claimable, Early, Late
  <1>2. Grant \in Purposes /\ approvals[n].purpose = Grant /\ approvals[n].status = "APPROVED"
    BY <1>1 DEF IInv, History, Claimable, Early, Late, Grant, Purposes
  <1>3. n \in Approved(Grant)
    BY <1>1, <1>2 DEF Approved, OfPurpose
  <1>4. \A j \in Approved(Grant) : j \in Nat /\ j <= n
    BY <1>1 DEF Approved, OfPurpose
  <1>5. Newest(Approved(Grant)) = n
    <2> DEFINE S == Approved(Grant)
    <2>1. n \in S /\ \A j \in S : j \in Nat /\ j <= n
      BY <1>3, <1>4
    <2> HIDE DEF S
    <2>2. \A m \in S : (\A j \in S : j <= m) => m = n
      BY <2>1, <1>1
    <2>3. Newest(S) = n
      BY <2>1, <2>2 DEF Newest
    <2> QED BY <2>3 DEF S
  <1> QED BY <1>1, <1>2, <1>3, <1>5
-----------------------------------------------------------------------------
\* A new action satisfies the invariant.
LEMMA InvInit == Init => IInv
  <1> SUFFICES ASSUME Init PROVE IInv
    OBVIOUS
  <1>1. cancelReq \in BOOLEAN
    BY DEF Init
  <1>2. ActionTypeOK
    BY <1>1, ActionTimeAssumption, ActionBoundAssumption
       DEF Init, ActionTypeOK, ActionStatus, None, Attempt, Purposes
  <1>3. OnePending /\ History /\ Ledger /\ Attempts
    BY DEF Init, OnePending, History, Ledger, Attempts, Early, Late, Purposes
  <1> QED BY <1>2, <1>3 DEF IInv

\* The invariant speaks of the row, its approvals, its attempts and the provider only.
LEMMA InvFrame ==
    ASSUME IInv, UNCHANGED <<status, result, approvals, attempt, sent, applied>>, ActionTypeOK'
    PROVE  IInv'
  <1>1. OnePending' /\ History' /\ Ledger'
    BY DEF IInv, OnePending, History, Ledger, AttemptKey
  <1>2. Attempts'
    BY DEF IInv, Attempts, Payload
  <1> QED BY <1>1, <1>2 DEF IInv

\* Preflight that fails, the request of an approval, and its withdrawal.
LEMMA OwnerStep == ASSUME IInv, Owner PROVE IInv'
  <1> USE DEF Early, Late
  <1>1. CASE PreflightFails
    <2>1. ActionTypeOK'
      BY <1>1 DEF IInv, ActionTypeOK, PreflightFails, ActionStatus
    <2>2. OnePending' /\ History' /\ Ledger'
      BY <1>1 DEF IInv, OnePending, History, Ledger, PreflightFails, Preflightable, AttemptKey
    <2>3. Attempts'
      BY <1>1 DEF IInv, Attempts, Payload, PreflightFails, Preflightable
    <2> QED BY <2>1, <2>2, <2>3 DEF IInv
  <1>2. CASE PreflightPasses
    <2>1. /\ approvals' \in Seq(Approval) /\ Len(approvals') = 1
          /\ approvals'[1].purpose = "EXECUTE" /\ approvals'[1].status = "PENDING"
      BY <1>2, Requested DEF IInv, History, PreflightPasses, Preflightable, Purposes
    <2>2. ActionTypeOK'
      BY <1>2, <2>1 DEF IInv, ActionTypeOK, PreflightPasses, ActionStatus, Waiting
    <2>3. OnePending' /\ History'
      BY <1>2, <2>1 DEF OnePending, History, PreflightPasses
    <2>4. Ledger'
      BY <1>2 DEF IInv, Ledger, PreflightPasses, Preflightable, AttemptKey
    <2>5. Attempts'
      BY <1>2 DEF IInv, Attempts, Payload, PreflightPasses, Preflightable
    <2> QED BY <2>2, <2>3, <2>4, <2>5 DEF IInv
  <1>3. CASE RequestRollback
    <2>0. Len(approvals) \in Nat /\ Len(approvals) >= 1 /\ DOMAIN approvals = 1..Len(approvals)
      BY <1>3 DEF IInv, ActionTypeOK, History, RequestRollback, Rollbackable
    <2>1. /\ approvals' \in Seq(Approval) /\ Len(approvals') = Len(approvals) + 1
          /\ \A j \in 1..Len(approvals) : approvals'[j] = approvals[j]
          /\ approvals'[Len(approvals')].purpose = "ROLLBACK"
          /\ approvals'[Len(approvals')].status = "PENDING"
      BY <1>3, Requested DEF IInv, RequestRollback, Purposes
    <2>2. ActionTypeOK'
      BY <1>3, <2>1 DEF IInv, ActionTypeOK, RequestRollback, ActionStatus, Waiting
    <2>3. \A j \in 1..Len(approvals) : approvals[j].status # "PENDING"
      BY <1>3, <2>0, PendingStatus DEF RequestRollback, Rollbackable
    <2>4. OnePending'
      <3> SUFFICES ASSUME NEW j \in DOMAIN approvals', approvals'[j].status = "PENDING"
                   PROVE  j = Len(approvals') /\ approvals'[j].purpose = "ROLLBACK"
        BY <1>3 DEF OnePending, RequestRollback
      <3>1. j \in 1..Len(approvals')
        BY <2>1
      <3> QED BY <3>1, <2>0, <2>1, <2>3
    <2>5. History'
      BY <1>3, <2>0, <2>1 DEF IInv, History, RequestRollback, Rollbackable
    <2>6. Ledger'
      BY <1>3 DEF IInv, Ledger, RequestRollback, AttemptKey
    <2>7. Attempts'
      BY <1>3 DEF IInv, Attempts, Payload, RequestRollback, Rollbackable
    <2> QED BY <2>2, <2>4, <2>5, <2>6, <2>7 DEF IInv
  <1>4. CASE Cancel
    <2>0. Len(approvals) \in Nat /\ DOMAIN approvals = 1..Len(approvals)
      BY DEF IInv, ActionTypeOK
    <2>1. /\ approvals' \in Seq(Approval) /\ Len(approvals') = Len(approvals)
          /\ \A j \in 1..Len(approvals) :
               /\ approvals'[j].purpose = approvals[j].purpose
               /\ approvals'[j].status # "PENDING"
      BY <1>4, Withdrawn DEF IInv
    <2>2. cancelReq' \in BOOLEAN
      BY <1>4 DEF Cancel
    <2>3. ActionTypeOK'
      BY <1>4, <2>1, <2>2 DEF IInv, ActionTypeOK, Cancel, ActionStatus
    <2>4. OnePending'
      BY <2>0, <2>1 DEF OnePending
    <2>5. History'
      BY <1>4, <2>0, <2>1 DEF IInv, History, Cancel
    <2>6. Ledger'
      BY <1>4 DEF IInv, Ledger, Cancel, AttemptKey
    <2>7. Attempts'
      BY <1>4 DEF IInv, Attempts, Payload, Cancel, Cancellable, Waiting
    <2> QED BY <2>3, <2>4, <2>5, <2>6, <2>7 DEF IInv
  <1> QED BY <1>1, <1>2, <1>3, <1>4 DEF Owner

\* The one pending approval leaves PENDING: granted, refused or expired.
LEMMA DecisionStep ==
    ASSUME IInv, NEW i \in DOMAIN approvals, Approve(i) \/ Reject(i) \/ ExpireApproval(i)
    PROVE  IInv'
  <1> USE DEF Early, Late
  <1>0. Len(approvals) \in Nat /\ DOMAIN approvals = 1..Len(approvals)
    BY DEF IInv, ActionTypeOK
  <1>1. approvals[i].status = "PENDING"
    BY DEF Approve, Reject, ExpireApproval, Decidable
  <1>2. /\ i = Len(approvals)
        /\ \/ i = 1 /\ approvals[i].purpose = "EXECUTE" /\ status = "WAITING_APPROVAL"
           \/ /\ i >= 2 /\ approvals[i].purpose = "ROLLBACK"
              /\ status = "WAITING_ROLLBACK_APPROVAL"
    BY <1>1, PendingStatus
  <1>3. PICK s \in {"APPROVED", "REJECTED", "EXPIRED"} :
          /\ approvals' = [approvals EXCEPT ![i].status = s]
          /\ \/ s = "APPROVED" /\ Approve(i)
             \/ s # "APPROVED" /\ (Reject(i) \/ ExpireApproval(i))
    BY DEF Approve, Reject, ExpireApproval
  <1>4. /\ approvals' \in Seq(Approval) /\ Len(approvals') = Len(approvals)
        /\ \A j \in 1..Len(approvals) :
             /\ approvals'[j].purpose = approvals[j].purpose
             /\ approvals'[j].status = IF j = i THEN s ELSE approvals[j].status
    <2>1. ActionTypeOK /\ s \in ApprovalStatus
      BY DEF IInv, ApprovalStatus
    <2>2. approvals' = [approvals EXCEPT ![i].status = s]
      BY <1>3
    <2> QED BY <2>1, <2>2, Decided
  <1>5. \/ i = 1 /\ s = "APPROVED" /\ status' = "APPROVED"
        \/ i >= 2 /\ s = "APPROVED" /\ status' = "ROLLBACK_APPROVED"
        \/ i = 1 /\ s # "APPROVED" /\ status' \in {"REJECTED", "EXPIRED"}
        \/ i >= 2 /\ s # "APPROVED" /\ status' = "ROLLBACK_REJECTED"
    BY <1>2, <1>3 DEF Approve, Reject, ExpireApproval
  <1>6. /\ UNCHANGED <<lease, cancelReq, result, attempt, pc, sent, applied, crashes>>
        /\ deadline' \in {deadline, Timeout}
    BY DEF Approve, Reject, ExpireApproval
  <1>7. ActionTypeOK'
    <2>1. /\ status' \in ActionStatus /\ deadline' \in {None} \cup 0..Timeout
      BY <1>5, <1>6, ActionTimeAssumption DEF IInv, ActionTypeOK, ActionStatus, Claimable, None
    <2> QED BY <1>4, <1>6, <2>1 DEF IInv, ActionTypeOK
  <1>8. OnePending'
    <2>1. \A j \in 1..Len(approvals) : approvals'[j].status # "PENDING"
      BY <1>0, <1>2, <1>4 DEF IInv, OnePending
    <2> QED BY <2>1, <1>0, <1>4 DEF OnePending
  <1>9. History'
    <2>1. \A j \in 1..Len(approvals') :
            approvals'[j].purpose = IF j = 1 THEN "EXECUTE" ELSE "ROLLBACK"
      BY <1>4 DEF IInv, History
    <2>2. CASE i = 1
      BY <1>0, <1>2, <1>4, <1>5, <2>1, <2>2 DEF History
    <2>3. CASE i >= 2
      <3>1. 1 \in 1..Len(approvals) /\ approvals[1].status = "APPROVED" /\ Len(approvals) >= 2
        BY <1>0, <1>2, <2>3 DEF IInv, History
      <3>2. approvals'[1].status = "APPROVED" /\ approvals'[Len(approvals')].status = s
        <4>1. i \in 1..Len(approvals) /\ i # 1
          BY <1>0, <2>3
        <4>2. approvals'[1].status = approvals[1].status
          BY <1>4, <3>1, <4>1
        <4>3. approvals'[i].status = s /\ i = Len(approvals')
          BY <1>2, <1>4, <4>1
        <4> QED BY <3>1, <4>2, <4>3
      <3>3. Len(approvals') >= 2
        BY <1>4, <3>1
      <3> QED BY <1>5, <2>1, <2>3, <3>2, <3>3 DEF History
    <2> QED BY <1>2, <2>2, <2>3
  <1>10. Ledger'
    BY <1>2, <1>5, <1>6 DEF IInv, Ledger, AttemptKey
  <1>11. Attempts'
    BY <1>2, <1>5, <1>6 DEF IInv, Attempts, Payload
  <1> QED BY <1>7, <1>8, <1>9, <1>10, <1>11 DEF IInv

\* What ActionWorker._invoke sends is a request with the stable key.
LEMMA SendStep ==
    ASSUME IInv, status \in Invoking, Send(Purpose)
    PROVE  /\ Purpose = Grant /\ Purpose \in Purposes
           /\ sent' = Append(sent, [purpose |-> Purpose, ordinal |-> 1,
                                    approval |-> Len(approvals)])
           /\ sent' \in Seq(Request)
           /\ \A i \in 1..Len(sent') : sent'[i].ordinal = 1
  <1>1. status \in Claimable /\ Purpose = Grant /\ Purpose \in Purposes
    BY DEF Invoking, Claimable, Purpose, Grant, Purposes
  <1>2. Newest(Approved(Purpose)) = Len(approvals) /\ Len(approvals) \in Nat
    BY <1>1, NewestIsLast
  <1> DEFINE r == [purpose |-> Purpose, ordinal |-> 1, approval |-> Len(approvals)]
  <1>3. sent' = Append(sent, r)
    BY <1>2 DEF Send, AttemptKey
  <1>4. r \in Request /\ r.ordinal = 1
    BY <1>1, <1>2 DEF Request
  <1> HIDE DEF r
  <1>5. sent \in Seq(Request) /\ \A i \in 1..Len(sent) : sent[i].ordinal = 1
    BY DEF IInv, ActionTypeOK, Ledger
  <1>6. sent' \in Seq(Request) /\ \A i \in 1..Len(sent') : sent'[i].ordinal = 1
    BY <1>3, <1>4, <1>5
  <1> QED BY <1>1, <1>3, <1>6 DEF r

\* ActionWorker._fail keeps the approvals and what the provider has seen.
LEMMA FailStep ==
    ASSUME IInv, status \in Invoking, Fail, UNCHANGED <<approvals, applied>>,
           \/ UNCHANGED attempt
           \/ attempt[Purpose].status # "COMPLETED" /\ Record(Purpose, "FAILED"),
           sent' \in Seq(Request), \A i \in 1..Len(sent') : sent'[i].ordinal = 1,
           pc' \in [Workers -> {"idle", "claimed", "raised"}], UNCHANGED crashes
    PROVE  IInv'
  <1> USE DEF Early, Late
  <1>1. \/ status = "EXECUTING" /\ Purpose = "EXECUTE" /\ status' = "FAILED"
        \/ status = "ROLLING_BACK" /\ Purpose = "ROLLBACK" /\ status' = "ROLLBACK_FAILED"
    BY DEF Invoking, Fail, Purpose
  <1>2. attempt' \in [Purposes -> Attempt]
    BY <1>1 DEF IInv, ActionTypeOK, Record, Attempt, Payload, Purposes
  <1>3. ActionTypeOK'
    BY <1>1, <1>2 DEF IInv, ActionTypeOK, Fail, ActionStatus
  <1>4. OnePending'
    BY <1>1 DEF IInv, OnePending, Invoking
  <1>5. History'
    BY <1>1 DEF IInv, History
  <1>6. Ledger'
    BY <1>1 DEF IInv, Ledger, AttemptKey
  <1>7. Attempts'
    BY <1>1, <1>2 DEF IInv, ActionTypeOK, Attempts, Record, Payload, Fail, Purposes, Attempt
  <1> QED BY <1>3, <1>4, <1>5, <1>6, <1>7 DEF IInv

\* ActionWorker._claim and the transactions that only move the worker.
LEMMA WorkerMoves ==
    ASSUME IInv, NEW w \in Workers,
           \/ Claim(w) \/ InvokeReturns(w) \/ InvokeTimesOut(w) \/ InvokeRaises(w)
           \/ FailAfterException(w)
    PROVE  IInv'
  <1>1. CASE Claim(w)
    <2>1. \/ status \in {"APPROVED", "EXECUTING"} /\ status' = "EXECUTING"
          \/ status \in {"ROLLBACK_APPROVED", "ROLLING_BACK"} /\ status' = "ROLLING_BACK"
      BY <1>1 DEF Claim, Due, Claimable
    <2>2. ActionTypeOK'
      BY <1>1, <2>1, ActionTimeAssumption
         DEF IInv, ActionTypeOK, Claim, ActionStatus, Claimable
    <2>3. OnePending' /\ History'
      BY <1>1, <2>1 DEF IInv, OnePending, History, Claim, Early, Late
    <2>4. Ledger'
      BY <1>1, <2>1 DEF IInv, Ledger, Claim, AttemptKey
    <2>5. Attempts'
      BY <1>1, <2>1 DEF IInv, Attempts, Payload, Claim, Late
    <2> QED BY <2>2, <2>3, <2>4, <2>5 DEF IInv
  <1>2. CASE InvokeReturns(w) \/ InvokeRaises(w)
    <2>1. ActionTypeOK'
      BY <1>2 DEF IInv, ActionTypeOK, InvokeReturns, InvokeRaises
    <2> QED BY <1>2, <2>1, InvFrame DEF InvokeReturns, InvokeRaises
  <1>3. sent \in Seq(Request) /\ \A i \in 1..Len(sent) : sent[i].ordinal = 1
    BY DEF IInv, ActionTypeOK, Ledger
  <1>4. pc \in [Workers -> {"idle", "claimed", "raised"}]
    BY DEF IInv, ActionTypeOK
  <1>5. CASE InvokeTimesOut(w)
    BY <1>3, <1>4, <1>5, FailStep DEF InvokeTimesOut
  <1>6. CASE FailAfterException(w)
    <2>1. CASE status \in Invoking
      BY <1>3, <1>4, <1>6, <2>1, FailStep DEF FailAfterException
    <2>2. CASE status \notin Invoking
      <3>1. ActionTypeOK'
        BY <1>6, <2>2 DEF IInv, ActionTypeOK, FailAfterException
      <3> QED BY <1>6, <2>2, <3>1, InvFrame DEF FailAfterException
    <2> QED BY <2>1, <2>2
  <1> QED BY <1>1, <1>2, <1>5, <1>6

\* The provider answers: the action is completed or rolled back.
LEMMA CompleteStep == ASSUME IInv, NEW w \in Workers, InvokeCompletes(w) PROVE IInv'
  <1> USE DEF Early, Late
  <1>0. status \in Invoking
    BY DEF InvokeCompletes, MayInvoke
  <1>1. \/ /\ status = "EXECUTING" /\ Purpose = "EXECUTE" /\ status' = "COMPLETED"
           /\ result' = {"EXECUTE"}
        \/ /\ status = "ROLLING_BACK" /\ Purpose = "ROLLBACK" /\ status' = "ROLLED_BACK"
           /\ result' = result \cup {"ROLLBACK"}
    BY <1>0 DEF Invoking, InvokeCompletes, Complete, Purpose
  <1>2. attempt[Purpose].status # "COMPLETED"
    BY <1>1 DEF IInv, Attempts
  <1>3. Send(Purpose) /\ applied' = applied \cup {AttemptKey(Purpose)}
    BY <1>2 DEF InvokeCompletes
  <1>4. sent' \in Seq(Request) /\ \A i \in 1..Len(sent') : sent'[i].ordinal = 1
    BY <1>0, <1>3, SendStep
  <1>5. attempt' = [attempt EXCEPT ![Purpose] = [status |-> "COMPLETED",
                                                 input |-> Payload(Purpose)]]
    BY DEF InvokeCompletes, Record
  <1>6. result' \subseteq Purposes /\ Payload(Purpose) \subseteq Purposes
    BY <1>1 DEF IInv, ActionTypeOK, Payload, Purposes
  <1>7. attempt' \in [Purposes -> Attempt]
    BY <1>1, <1>5, <1>6 DEF IInv, ActionTypeOK, Attempt, Purposes
  <1>8. applied' \subseteq Key
    BY <1>1, <1>3 DEF IInv, ActionTypeOK, Key, AttemptKey, Purposes
  <1>9. ActionTypeOK'
    BY <1>1, <1>4, <1>6, <1>7, <1>8
       DEF IInv, ActionTypeOK, InvokeCompletes, Complete, ActionStatus
  <1>10. OnePending' /\ History'
    BY <1>1 DEF IInv, OnePending, History, InvokeCompletes
  <1>11. Ledger'
    BY <1>1, <1>3, <1>4 DEF IInv, Ledger, AttemptKey
  <1>12. Attempts'
    BY <1>1, <1>5 DEF IInv, ActionTypeOK, Attempts, Payload, Purposes, Attempt
  <1> QED BY <1>9, <1>10, <1>11, <1>12 DEF IInv

\* The attempt fails, with a request on its way or not.
LEMMA FailedStep == ASSUME IInv, NEW w \in Workers, InvokeFails(w) PROVE IInv'
  <1>0. status \in Invoking
    BY DEF InvokeFails, MayInvoke
  <1>1. sent' \in Seq(Request) /\ \A i \in 1..Len(sent') : sent'[i].ordinal = 1
    <2>1. CASE Send(Purpose)
      BY <1>0, <2>1, SendStep
    <2>2. CASE UNCHANGED sent
      BY <2>2 DEF IInv, ActionTypeOK, Ledger
    <2> QED BY <2>1, <2>2 DEF InvokeFails
  <1>2. pc' \in [Workers -> {"idle", "claimed", "raised"}]
    BY DEF IInv, ActionTypeOK, InvokeFails
  <1> QED BY <1>0, <1>1, <1>2, FailStep DEF InvokeFails

\* The provider, the clock and the death of a worker.
LEMMA OutsideStep == ASSUME IInv, Provider \/ Tick \/ Crashes PROVE IInv'
  <1> USE DEF Early, Late
  <1>1. CASE Provider
    <2>1. PICK i \in DOMAIN sent :
            ProviderApplies([purpose |-> sent[i].purpose, ordinal |-> sent[i].ordinal])
      BY <1>1 DEF Provider
    <2> DEFINE k == [purpose |-> sent[i].purpose, ordinal |-> sent[i].ordinal]
    <2>2. sent # <<>> /\ sent[i] \in Request /\ sent[i].ordinal = 1
      BY <2>1 DEF IInv, ActionTypeOK, Ledger
    <2>3. k = AttemptKey(k.purpose) /\ k \in Key
      BY <2>2 DEF AttemptKey, Key, Request
    <2>4. /\ applied' = applied \cup {k}
          /\ UNCHANGED <<rowVars, approvals, attempt, pc, sent, crashes>>
      BY <2>1 DEF ProviderApplies
    <2> HIDE DEF k
    <2>5. ActionTypeOK'
      BY <2>3, <2>4 DEF IInv, ActionTypeOK
    <2>6. OnePending' /\ History' /\ Attempts'
      BY <2>4 DEF IInv, OnePending, History, Attempts, Payload
    <2>7. Ledger'
      BY <2>2, <2>3, <2>4 DEF IInv, Ledger, AttemptKey
    <2> QED BY <2>5, <2>6, <2>7 DEF IInv
  <1>2. CASE Tick
    <2>0. Len(approvals) \in Nat /\ DOMAIN approvals = 1..Len(approvals)
      BY DEF IInv, ActionTypeOK
    <2>1. /\ approvals' \in Seq(Approval) /\ Len(approvals') = Len(approvals)
          /\ \A j \in 1..Len(approvals) :
               /\ approvals'[j].purpose = approvals[j].purpose
               /\ approvals'[j].status = approvals[j].status
      BY <1>2, Aged DEF IInv
    <2>2. deadline' \in {None} \cup 0..Timeout /\ lease' \in {None} \cup 0..(Lease + 1)
      BY <1>2, ActionTimeAssumption DEF IInv, ActionTypeOK, Tick, Sooner, None
    <2>3. ActionTypeOK'
      BY <1>2, <2>1, <2>2 DEF IInv, ActionTypeOK, Tick
    <2>4. OnePending'
      BY <1>2, <2>0, <2>1 DEF IInv, OnePending, Tick
    <2>5. History'
      BY <1>2, <2>0, <2>1 DEF IInv, History, Tick
    <2>6. Ledger'
      BY <1>2 DEF IInv, Ledger, AttemptKey, Tick
    <2>7. Attempts'
      BY <1>2 DEF IInv, Attempts, Payload, Tick
    <2> QED BY <2>3, <2>4, <2>5, <2>6, <2>7 DEF IInv
  <1>3. ASSUME NEW w \in Workers, Crash(w) PROVE IInv'
    <2>1. ActionTypeOK'
      BY <1>3, ActionBoundAssumption DEF IInv, ActionTypeOK, Crash, Dies
    <2> QED BY <1>3, <2>1, InvFrame DEF Crash, Dies
  <1>4. ASSUME NEW w \in Workers, CrashInCall(w) PROVE IInv'
    <2>1. status \in Invoking /\ Send(Purpose)
      BY <1>4 DEF CrashInCall, MayInvoke
    <2>2. sent' \in Seq(Request) /\ \A i \in 1..Len(sent') : sent'[i].ordinal = 1
      BY <2>1, SendStep
    <2>3. ActionTypeOK'
      BY <1>4, <2>2, ActionBoundAssumption DEF IInv, ActionTypeOK, CrashInCall, Dies
    <2>4. OnePending' /\ History'
      BY <1>4 DEF IInv, OnePending, History, CrashInCall, Dies
    <2>5. Ledger'
      BY <1>4, <2>1, <2>2 DEF IInv, Ledger, AttemptKey, CrashInCall, Dies, Invoking
    <2>6. Attempts'
      BY <1>4 DEF IInv, Attempts, Payload, CrashInCall, Dies
    <2> QED BY <2>3, <2>4, <2>5, <2>6 DEF IInv
  <1> QED BY <1>1, <1>2, <1>3, <1>4 DEF Crashes

\* Every transaction of the action plane preserves the invariant.
LEMMA InvStep == ASSUME IInv, [Next]_vars PROVE IInv'
  <1>1. CASE UNCHANGED vars
    <2>1. ActionTypeOK'
      BY <1>1 DEF IInv, ActionTypeOK
    <2> QED BY <1>1, <2>1, InvFrame
  <1>2. CASE Owner
    BY <1>2, OwnerStep
  <1>3. CASE Approver \/ Expiry
    BY <1>3, DecisionStep DEF Approver, Expiry
  <1>4. ASSUME NEW w \in Workers, Claim(w) \/ Invoke(w) PROVE IInv'
    BY <1>4, WorkerMoves, CompleteStep, FailedStep DEF Invoke
  <1>5. CASE Provider \/ Tick \/ Crashes
    BY <1>5, OutsideStep
  <1> QED BY <1>1, <1>2, <1>3, <1>4, <1>5 DEF Next

\* The inductive invariant holds throughout the life of an action.
LEMMA Invariant == Spec => []IInv
BY InvInit, InvStep, PTL DEF Spec

\* Type correctness of the action row, its approvals and attempts and the workers.
THEOREM ActionTypeCorrect == Spec => []ActionTypeOK
  <1>1. IInv => ActionTypeOK
    BY DEF IInv
  <1> QED BY <1>1, Invariant, PTL

\* At most one approval is pending and the action waits for it, whatever owner, approver
\* and workers do at the same time.
THEOREM PendingUnique == Spec => []OnePending
  <1>1. IInv => OnePending
    BY DEF IInv
  <1> QED BY <1>1, Invariant, PTL

\* The provider carries each purpose out at most once, for any number of crashes,
\* reclaimed leases and rollbacks approved again.
THEOREM EffectAtMostOnce == Spec => []EffectOnce
  <1>1. IInv => EffectOnce
    BY DEF IInv, Ledger, EffectOnce, AttemptKey
  <1> QED BY <1>1, Invariant, PTL

\* The status of the row agrees with what the provider has seen and done.
THEOREM RowTruthful == Spec => []RecordTruthful
  <1>1. IInv => RecordTruthful
    BY DEF IInv, Ledger, RecordTruthful, AttemptKey
  <1> QED BY <1>1, Invariant, PTL

\* A worker never finds an attempt on record that differs from what it would send.
THEOREM NeverMismatched == Spec => []AttemptMatches
  <1>1. IInv => AttemptMatches
    BY DEF IInv, ActionTypeOK, Attempts, AttemptMatches, Claimable, Grant, Late, Attempt,
           Purposes
  <1> QED BY <1>1, Invariant, PTL
-----------------------------------------------------------------------------
(***************************************************************************)
(* Requests to the provider and the implementation of ChangeContract.      *)
(***************************************************************************)
Granted == {p \in Purposes : Approved(p) # {}}

\* However often workers die, requests are repeated and rollbacks approved again, the
\* attempt on record is what would be sent again and each purpose takes effect once.
THEOREM RepeatsAreHarmless == Spec => []RepeatsHarmless
  BY EffectAtMostOnce, NeverMismatched, PTL DEF RepeatsHarmless

\* The steps that reach the provider do so for the standing grant, and no others do.
LEMMA Sends ==
    ASSUME IInv, [Next]_vars
    PROVE  \/ UNCHANGED sent
           \/ /\ status \in Invoking /\ Send(Purpose) /\ UNCHANGED approvals
              /\ approvals[Newest(Approved(Purpose))].ttl > 0
  <1>1. CASE UNCHANGED vars
    BY <1>1
  <1>2. CASE Owner
    BY <1>2 DEF Owner, PreflightFails, PreflightPasses, RequestRollback, Cancel
  <1>3. CASE Approver \/ Expiry
    BY <1>3 DEF Approver, Expiry, Approve, Reject, ExpireApproval
  <1>4. ASSUME NEW w \in Workers, Claim(w) \/ Invoke(w)
        PROVE  \/ UNCHANGED sent
               \/ /\ status \in Invoking /\ Send(Purpose) /\ UNCHANGED approvals
                  /\ approvals[Newest(Approved(Purpose))].ttl > 0
    <2>1. CASE InvokeCompletes(w) \/ InvokeFails(w)
      BY <2>1 DEF InvokeCompletes, InvokeFails, MayInvoke, ValidApproval
    <2>2. CASE \/ Claim(w) \/ InvokeReturns(w) \/ InvokeTimesOut(w) \/ InvokeRaises(w)
               \/ FailAfterException(w)
      BY <2>2 DEF Claim, InvokeReturns, InvokeTimesOut, InvokeRaises, FailAfterException
    <2> QED BY <1>4, <2>1, <2>2 DEF Invoke
  <1>5. CASE Provider \/ Tick
    BY <1>5 DEF Provider, ProviderApplies, Tick
  <1>6. CASE Crashes
    BY <1>6 DEF Crashes, Crash, CrashInCall, Dies, MayInvoke, ValidApproval
  <1> QED BY <1>1, <1>2, <1>3, <1>4, <1>5, <1>6 DEF Next

\* No request reaches a provider without an approval for its purpose that is granted,
\* has not run out and is the last one that was asked for.
THEOREM RequestsAuthorised == Spec => Authorised
  <1> DEFINE A == Len(sent') > Len(sent) =>
        LET r == sent'[Len(sent')] IN
        /\ r.approval \in Approved(r.purpose) /\ approvals[r.approval].ttl > 0
        /\ \A i \in OfPurpose(r.purpose) : i <= r.approval
  <1>1. IInv /\ [Next]_vars => [A]_vars
    <2> SUFFICES ASSUME IInv, [Next]_vars, Len(sent') > Len(sent) PROVE A
      OBVIOUS
    <2>1. Len(sent) \in Nat /\ sent \in Seq(Request)
      BY DEF IInv, ActionTypeOK
    <2>2. /\ status \in Invoking /\ Send(Purpose)
          /\ approvals[Newest(Approved(Purpose))].ttl > 0
      BY <2>1, Sends
    <2>3. /\ Purpose = Grant /\ status \in Claimable
          /\ sent' = Append(sent, [purpose |-> Purpose, ordinal |-> 1,
                                   approval |-> Len(approvals)])
      BY <2>2, SendStep DEF Invoking, Claimable
    <2>4. /\ Newest(Approved(Purpose)) = Len(approvals) /\ Len(approvals) \in Approved(Purpose)
          /\ \A i \in OfPurpose(Purpose) : i <= Len(approvals)
      <3>1. DOMAIN approvals = 1..Len(approvals)
        BY DEF IInv, ActionTypeOK
      <3> QED BY <2>3, <3>1, NewestIsLast DEF OfPurpose
    <2>5. /\ sent'[Len(sent')].purpose = Purpose
          /\ sent'[Len(sent')].approval = Len(approvals)
      BY <2>1, <2>3
    <2> QED BY <2>2, <2>4, <2>5
  <1> QED BY <1>1, Invariant, PTL DEF Spec, Authorised

\* Rewriting rows without granting one leaves the set of granted purposes alone.
LEMMA GrantedFrame ==
    ASSUME IInv, approvals' \in Seq(Approval), Len(approvals') >= Len(approvals),
           \A j \in 1..Len(approvals) :
              /\ approvals'[j].purpose = approvals[j].purpose
              /\ approvals'[j].status = "APPROVED" <=> approvals[j].status = "APPROVED",
           \A j \in 1..Len(approvals') :
              j \notin 1..Len(approvals) => approvals'[j].status # "APPROVED"
    PROVE  Granted' = Granted
  <1>1. DOMAIN approvals = 1..Len(approvals) /\ DOMAIN approvals' = 1..Len(approvals')
        /\ Len(approvals) \in Nat /\ Len(approvals') \in Nat
    BY DEF IInv, ActionTypeOK
  <1>2. \A p \in Purposes : Approved(p)' = Approved(p)
    BY <1>1 DEF Approved, OfPurpose
  <1> QED BY <1>2 DEF Granted

\* The first approval grants the execution, a later one a rollback, and nothing else
\* grants anything.
LEMMA ApprovalsStep ==
    ASSUME IInv, [Next]_vars
    PROVE  \/ Granted' = Granted /\ Grant' \in {Grant, "NONE"}
           \/ /\ Grant = "NONE" /\ UNCHANGED sent /\ Grant' \in Purposes
              /\ Granted' = Granted \cup {Grant'}
              /\ IF Grant' = "EXECUTE" THEN Granted = {} ELSE "EXECUTE" \in Granted
  <1>0. DOMAIN approvals = 1..Len(approvals) /\ Len(approvals) \in Nat
        /\ approvals \in Seq(Approval) /\ ActionTypeOK
    BY DEF IInv, ActionTypeOK
  <1>1. ASSUME UNCHANGED approvals PROVE Granted' = Granted
    BY <1>1 DEF Granted, Approved, OfPurpose
  <1>2. CASE UNCHANGED vars
    BY <1>1, <1>2 DEF Grant
  <1>3. CASE Owner
    <2>1. CASE PreflightFails
      BY <1>1, <2>1 DEF PreflightFails, Grant
    <2>2. CASE PreflightPasses \/ RequestRollback
      <3>1. PICK p \in Purposes : approvals' = Append(approvals, NewApproval(p))
        BY <2>2 DEF PreflightPasses, RequestRollback, Purposes
      <3>2. /\ approvals' \in Seq(Approval) /\ Len(approvals') = Len(approvals) + 1
            /\ \A j \in 1..Len(approvals) : approvals'[j] = approvals[j]
            /\ approvals'[Len(approvals')].status = "PENDING"
        BY <1>0, <3>1, Requested
      <3>3. \A j \in 1..Len(approvals') :
              j \notin 1..Len(approvals) => approvals'[j].status # "APPROVED"
        BY <1>0, <3>2
      <3>4. Granted' = Granted
        BY <1>0, <3>2, <3>3, GrantedFrame
      <3> QED BY <2>2, <3>4 DEF PreflightPasses, RequestRollback, Grant
    <2>3. CASE Cancel
      <3>1. Granted' = Granted
        BY <1>0, <2>3, Withdrawn, GrantedFrame
      <3> QED BY <2>3, <3>1 DEF Cancel, Grant
    <2> QED BY <1>3, <2>1, <2>2, <2>3 DEF Owner
  <1>4. ASSUME NEW i \in DOMAIN approvals, Approve(i)
        PROVE  /\ Grant = "NONE" /\ UNCHANGED sent /\ Grant' \in Purposes
               /\ Granted' = Granted \cup {Grant'}
               /\ IF Grant' = "EXECUTE" THEN Granted = {} ELSE "EXECUTE" \in Granted
    <2>1. /\ i = Len(approvals)
          /\ \/ i = 1 /\ approvals[i].purpose = "EXECUTE" /\ status = "WAITING_APPROVAL"
             \/ /\ i >= 2 /\ approvals[i].purpose = "ROLLBACK"
                /\ status = "WAITING_ROLLBACK_APPROVAL"
      BY <1>4, PendingStatus DEF Approve, Decidable
    <2>2. /\ approvals' \in Seq(Approval) /\ Len(approvals') = Len(approvals)
          /\ \A j \in 1..Len(approvals) :
               /\ approvals'[j].purpose = approvals[j].purpose
               /\ approvals'[j].status = IF j = i THEN "APPROVED" ELSE approvals[j].status
      <3>1. approvals' = [approvals EXCEPT ![i].status = "APPROVED"]
        BY <1>4 DEF Approve
      <3> QED BY <1>0, <3>1, Decided DEF ApprovalStatus
    <2>3. Grant = "NONE" /\ Grant' = approvals[i].purpose /\ UNCHANGED sent
      BY <1>4, <2>1 DEF Approve, Grant
    <2>4. DOMAIN approvals' = 1..Len(approvals)
      BY <2>2
    <2>5. \A p \in Purposes :
            Approved(p)' = IF p = approvals[i].purpose THEN Approved(p) \cup {i} ELSE Approved(p)
      BY <1>0, <2>2, <2>4 DEF Approved, OfPurpose
    <2>6. approvals[i].purpose \in Purposes
      BY <2>1 DEF Purposes
    <2>7. Granted' = Granted \cup {Grant'}
      BY <2>3, <2>5, <2>6 DEF Granted
    <2>8. CASE i = 1
      <3>1. \A p \in Purposes : Approved(p) = {}
        BY <1>0, <1>4, <2>1, <2>8 DEF Approved, OfPurpose, Approve, Decidable
      <3> QED BY <2>1, <2>3, <2>6, <2>7, <2>8, <3>1 DEF Granted
    <2>9. CASE i >= 2
      <3>1. 1 \in Approved("EXECUTE")
        BY <1>0, <2>1, <2>9 DEF IInv, History, Late, Approved, OfPurpose
      <3> QED BY <2>1, <2>3, <2>6, <2>7, <2>9, <3>1 DEF Granted, Purposes
    <2> QED BY <2>1, <2>8, <2>9
  <1>5. ASSUME NEW i \in DOMAIN approvals, Reject(i) \/ ExpireApproval(i)
        PROVE  Granted' = Granted /\ Grant' \in {Grant, "NONE"}
    <2>1. approvals[i].status = "PENDING"
      BY <1>5 DEF Reject, ExpireApproval, Decidable
    <2>2. PICK s \in {"REJECTED", "EXPIRED"} : approvals' = [approvals EXCEPT ![i].status = s]
      BY <1>5 DEF Reject, ExpireApproval
    <2>3. /\ approvals' \in Seq(Approval) /\ Len(approvals') = Len(approvals)
          /\ \A j \in 1..Len(approvals) :
               /\ approvals'[j].purpose = approvals[j].purpose
               /\ approvals'[j].status = IF j = i THEN s ELSE approvals[j].status
      <3>1. s \in ApprovalStatus
        BY DEF ApprovalStatus
      <3> QED BY <1>0, <2>2, <3>1, Decided
    <2>4. Granted' = Granted
      BY <1>0, <2>1, <2>2, <2>3, GrantedFrame
    <2> QED BY <1>5, <2>4 DEF Reject, ExpireApproval, Grant
  <1>6. ASSUME NEW w \in Workers, Claim(w) \/ Invoke(w)
        PROVE  Granted' = Granted /\ Grant' \in {Grant, "NONE"}
    <2>1. UNCHANGED approvals
      BY <1>6 DEF Claim, Invoke, InvokeReturns, InvokeTimesOut, InvokeRaises, InvokeCompletes,
                  InvokeFails, FailAfterException
    <2>2. CASE Claim(w)
      BY <1>1, <2>1, <2>2 DEF Claim, Grant, Due, Claimable
    <2>3. CASE Invoke(w)
      BY <1>1, <2>1, <2>3
         DEF Grant, Invoke, InvokeReturns, InvokeTimesOut, InvokeRaises, InvokeCompletes,
             InvokeFails, FailAfterException, Fail, Complete
    <2> QED BY <1>6, <2>2, <2>3
  <1>7. CASE Provider
    BY <1>1, <1>7 DEF Provider, ProviderApplies, Grant
  <1>8. CASE Tick
    <2>1. Granted' = Granted
      BY <1>0, <1>8, Aged, GrantedFrame
    <2> QED BY <1>8, <2>1 DEF Tick, Grant
  <1>9. CASE Crashes
    BY <1>1, <1>9 DEF Crashes, Crash, CrashInCall, Dies, Grant
  <1> QED BY <1>2, <1>3, <1>4, <1>5, <1>6, <1>7, <1>8, <1>9 DEF Next, Approver, Expiry

\* The action plane keeps its promise to the owners of external systems.
THEOREM ChangeImplemented == Spec => ImplementsChange
  <1>1. Init => Contract!Init
    BY DEF Init, Contract!Init, Grant, Approved, OfPurpose
  <1>2. IInv /\ [Next]_vars => [Contract!Next]_Contract!vars
    <2> SUFFICES ASSUME IInv, [Next]_vars PROVE [Contract!Next]_Contract!vars
      OBVIOUS
    <2>1. CASE UNCHANGED sent
      <3>1. CASE Granted' = Granted /\ Grant' \in {Grant, "NONE"}
        BY <2>1, <3>1 DEF Granted, Contract!vars, Contract!Next, Contract!Revoke
      <3>2. CASE /\ Grant = "NONE" /\ Grant' \in Purposes
                 /\ Granted' = Granted \cup {Grant'}
                 /\ IF Grant' = "EXECUTE" THEN Granted = {} ELSE "EXECUTE" \in Granted
        BY <2>1, <3>2 DEF Granted, Purposes, Contract!Next, Contract!Give
      <3> QED BY <3>1, <3>2, ApprovalsStep
    <2>2. CASE sent' # sent
      <3>1. status \in Invoking /\ Send(Purpose)
        BY <2>2, Sends
      <3>2. /\ Purpose = Grant /\ Grant \in Purposes
            /\ sent' = Append(sent, [purpose |-> Purpose, ordinal |-> 1,
                                     approval |-> Len(approvals)])
        BY <3>1, SendStep
      <3>3. sent \in Seq(Request)
        BY DEF IInv, ActionTypeOK
      <3>4. /\ Len(sent') = Len(sent) + 1 /\ sent' = Append(sent, sent'[Len(sent')])
            /\ sent'[Len(sent')].purpose = Grant
        BY <3>2, <3>3
      <3>5. Granted' = Granted /\ Grant' \in {Grant, "NONE"}
        BY <2>2, ApprovalsStep
      <3>6. Grant # "NONE"
        BY <3>2 DEF Purposes
      <3> QED BY <3>4, <3>5, <3>6 DEF Granted, Contract!Next, Contract!Send
    <2> QED BY <2>1, <2>2
  <1> QED BY <1>1, <1>2, Invariant, PTL DEF Spec, ImplementsChange, Contract!Spec
=============================================================================
