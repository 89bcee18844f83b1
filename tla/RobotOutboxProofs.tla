------------------------- MODULE RobotOutboxProofs -------------------------
(***************************************************************************)
(* Theorems about RobotOutbox, for every set of messages and workers and   *)
(* every duration and bound.                                               *)
(***************************************************************************)
EXTENDS RobotOutbox, TLAPS

USE DEF vars, ledger

Engaged == {"claimed"} \cup Holding

\* What a worker that holds a claim may rely on: its token is not from the future; while
\* it holds the row the claim is its own and the facts are those of the queue; the
\* message has left exactly when the worker says so.
ClaimInv(w) ==
    LET m == pc[w].of IN
    /\ pc[w].at \in Engaged => pc[w].token <= box[m].attempt
    /\ pc[w].at \in Holding => /\ Current(w)
                               /\ facts[m] = box[m].frozen /\ facts[m] # Denied
    /\ pc[w].at \in {"claimed", "sending", "posting"} /\ Current(w) => posts[m] = 0
    /\ pc[w].at = "posted" => posts[m] = 1 /\ fate[m] # "none"

Claims == \A w \in Workers : ClaimInv(w)

\* The fencing token is given to one worker.
OneHolder ==
    \A v, w \in Workers :
        /\ pc[v].at \in Engaged /\ pc[w].at \in Engaged
        /\ pc[v].of = pc[w].of /\ pc[v].token = pc[w].token
        => v = w

\* A message is sent at most once, and what has a verdict of the vendor was sent.
SentOnce ==
    \A m \in Messages : /\ posts[m] \in {0, 1}
                        /\ box[m].status \in {"ACCEPTED", "REJECTED"} => posts[m] = 1

IInv == RobotTypeOK /\ LedgerTruthful /\ Claims /\ OneHolder /\ SentOnce
-----------------------------------------------------------------------------
\* A write to one outbox row.
LEMMA RowWritten ==
    ASSUME RobotTypeOK, NEW m \in Messages, NEW row \in BoxRow, SetBox(m, row)
    PROVE  /\ box' \in [Messages -> BoxRow]
           /\ \A n \in Messages : box'[n] = IF n = m THEN row ELSE box[n]
  BY DEF RobotTypeOK, SetBox

\* A worker is idle, or it works for a message.
LEMMA WorkerType ==
    ASSUME RobotTypeOK, NEW w \in Workers, pc[w].at # "idle"
    PROVE  /\ pc[w].of \in Messages /\ pc[w].token \in Nat
           /\ pc[w].at \in {"claimed", "checking"} \cup Holding
           /\ pc[w] \in [at : {"claimed", "checking"} \cup Holding, of : Messages, token : Nat]
  BY DEF RobotTypeOK, Idle

\* A worker moves on within its claim, or drops it.
LEMMA WorkerMoved ==
    ASSUME RobotTypeOK, NEW w \in Workers, Finish(w)
    PROVE  /\ pc' \in [Workers -> {Idle} \cup [at : {"claimed", "checking"} \cup Holding,
                                               of : Messages, token : Nat]]
           /\ pc'[w].at = "idle"
           /\ \A v \in Workers : v # w => pc'[v] = pc[v]
  BY DEF RobotTypeOK, Finish, Idle

LEMMA InvInit == Init => IInv
  <1> SUFFICES ASSUME Init PROVE IInv
    OBVIOUS
  <1>1. NoBox \in BoxRow
    BY DEF NoBox, BoxRow, BoxStatus, Final, None, Denied
  <1>2. RobotTypeOK
    BY <1>1 DEF Init, RobotTypeOK, Idle
  <1>3. LedgerTruthful /\ Claims /\ OneHolder /\ SentOnce
    BY DEF Init, LedgerTruthful, Claims, ClaimInv, OneHolder, SentOnce, Engaged, Holding,
           Idle, NoBox
  <1> QED BY <1>2, <1>3 DEF IInv

\* The inbox, the Runs and the administrators do not touch the ledger; while a dispatch is
\* under way they do not touch the facts either.
LEMMA OutsideStep ==
    ASSUME IInv, NEW m \in Messages, Inbox(m) \/ Administer(m)
    PROVE  IInv'
  <1>1. UNCHANGED <<box, pc, posts, fate, crashes>>
    BY DEF Inbox, Receive, Process, RunCompletes, RunFails, Administer, Verify, RunsOut,
           ChangeFacts
  <1>2. RobotTypeOK'
    <2>1. CASE Inbox(m)
      <3>1. run' \in [Messages -> {"NONE", "RECEIVED", "PENDING", "COMPLETED", "FAILED"}]
        BY <2>1 DEF IInv, RobotTypeOK, Inbox, Receive, Process, RunCompletes, RunFails
      <3>2. done' \in Seq(Messages)
        <4>1. done \in Seq(Messages) /\ (done' = done \/ done' = Append(done, m))
          BY <2>1 DEF IInv, RobotTypeOK, Inbox, Receive, Process, RunCompletes, RunFails
        <4> QED BY <4>1
      <3>3. UNCHANGED <<facts, fresh>>
        BY <2>1 DEF Inbox, Receive, Process, RunCompletes, RunFails
      <3> QED BY <1>1, <3>1, <3>2, <3>3 DEF IInv, RobotTypeOK
    <2>2. CASE Verify(m) \/ RunsOut(m)
      <3>1. fresh' \in [Messages -> BOOLEAN]
        BY <2>2 DEF IInv, RobotTypeOK, Verify, RunsOut
      <3> QED BY <1>1, <2>2, <3>1 DEF IInv, RobotTypeOK, Verify, RunsOut
    <2>3. ASSUME NEW v \in Versions \cup {Denied}, ChangeFacts(m, v) PROVE RobotTypeOK'
      BY <1>1, <2>3 DEF IInv, RobotTypeOK, ChangeFacts
    <2> QED BY <2>1, <2>2, <2>3 DEF Administer
  <1>3. LedgerTruthful'
    <2>1. \A n \in Messages : run[n] = "COMPLETED" => run'[n] = "COMPLETED"
      BY DEF IInv, RobotTypeOK, Inbox, Receive, Process, RunCompletes, RunFails, Administer,
             Verify, RunsOut, ChangeFacts
    <2> QED BY <1>1, <2>1 DEF IInv, LedgerTruthful
  <1>4. Claims'
    <2>1. facts' = facts \/ \A w \in Workers : pc[w].at \notin Holding
      BY DEF Inbox, Receive, Process, RunCompletes, RunFails, Administer, Verify, RunsOut,
             ChangeFacts, FenceFree
    <2> QED BY <1>1, <2>1 DEF IInv, Claims, ClaimInv, Current
  <1>5. OneHolder' /\ SentOnce'
    BY <1>1 DEF IInv, OneHolder, SentOnce
  <1> QED BY <1>2, <1>3, <1>4, <1>5 DEF IInv

\* A step that changes the row of one message that nobody holds, and leaves it out of
\* DISPATCHING.
LEMMA RowStep ==
    ASSUME IInv, NEW m \in Messages, Materialize(m) \/ ExpireClaim(m)
    PROVE  IInv'
  <1>1. PICK row \in BoxRow :
          /\ SetBox(m, row) /\ row.attempt = box[m].attempt
          /\ row.status \in {"BLOCKED", "QUEUED", "UNKNOWN"}
          /\ row.status # "UNKNOWN" => posts[m] = 0
          /\ run[m] = "COMPLETED"
    <2>1. box[m] \in BoxRow
      BY DEF IInv, RobotTypeOK
    <2>2. CASE EnqueueBlocks(m)
      <3>1. Blocked(box[m], FALSE) \in BoxRow
        BY <2>1 DEF Blocked, BoxRow, BoxStatus, None
      <3> QED BY <2>1, <2>2, <3>1
              DEF EnqueueBlocks, InTurn, Candidate, Blocked, BoxRow, IInv, LedgerTruthful
    <2>3. CASE Enqueue(m)
      <3> DEFINE row == [box[m] EXCEPT !.status = "QUEUED", !.exhausted = FALSE,
                                       !.frozen = facts[m], !.due = 0, !.lease = None]
      <3>1. row \in BoxRow
        BY <2>1 DEF BoxRow, BoxStatus, None, IInv, RobotTypeOK
      <3> QED BY <2>1, <2>3, <3>1
              DEF Enqueue, InTurn, Candidate, BoxRow, IInv, LedgerTruthful
    <2>4. CASE ExpireClaim(m)
      <3>1. Expired(box[m]) \in BoxRow
        BY <2>1 DEF Expired, BoxRow, BoxStatus, Final, None
      <3> QED BY <2>1, <2>4, <3>1 DEF ExpireClaim, Overdue, Expired, BoxRow, IInv, LedgerTruthful
    <2> QED BY <2>2, <2>3, <2>4 DEF Materialize
  <1>2. UNCHANGED <<run, done, facts, fresh, pc, posts, fate, crashes>>
    BY DEF Materialize, Enqueue, EnqueueBlocks, ExpireClaim
  <1>3. /\ box' \in [Messages -> BoxRow]
        /\ \A n \in Messages : box'[n] = IF n = m THEN row ELSE box[n]
    BY <1>1, RowWritten DEF IInv
  <1>4. \A w \in Workers : pc[w].at \in Holding => pc[w].of # m
    BY DEF IInv, Claims, ClaimInv, Current, Materialize, Enqueue, EnqueueBlocks, InTurn,
           Candidate, ExpireClaim, Unlocked
  <1>5. RobotTypeOK'
    BY <1>2, <1>3 DEF IInv, RobotTypeOK
  <1>6. LedgerTruthful' /\ SentOnce'
    BY <1>1, <1>2, <1>3 DEF IInv, LedgerTruthful, SentOnce
  <1>7. Claims'
    <2> SUFFICES ASSUME NEW w \in Workers, pc[w].at \in Engaged PROVE ClaimInv(w)'
      BY <1>2 DEF Claims, ClaimInv, Engaged, Holding
    <2>1. pc[w].of \in Messages
      BY WorkerType DEF IInv, Engaged, Holding
    <2> QED BY <1>1, <1>2, <1>3, <1>4, <2>1
            DEF IInv, Claims, ClaimInv, Current, Engaged, Holding
  <1>8. OneHolder'
    BY <1>2 DEF IInv, OneHolder
  <1> QED BY <1>5, <1>6, <1>7, <1>8 DEF IInv

\* claim_next gives its worker a token nobody has had.
LEMMA ClaimStep ==
    ASSUME IInv, NEW w \in Workers, NEW m \in Messages, Claim(w, m)
    PROVE  IInv'
  <1> DEFINE row == [box[m] EXCEPT !.status = "DISPATCHING", !.attempt = @ + 1,
                                   !.lease = Lease, !.due = None]
             new == [at |-> "claimed", of |-> m, token |-> box[m].attempt + 1]
  <1>1. box[m] \in BoxRow
    BY DEF IInv, RobotTypeOK
  <1>2. row \in BoxRow /\ row.status = "DISPATCHING" /\ row.attempt = box[m].attempt + 1
    <2>1. box[m].attempt + 1 \in Nat /\ Lease \in Nat
      BY <1>1, RobotAssumption DEF BoxRow
    <2> QED BY <1>1, <2>1 DEF BoxRow, BoxStatus, None
  <1>3. /\ box' \in [Messages -> BoxRow]
        /\ \A n \in Messages : box'[n] = IF n = m THEN row ELSE box[n]
    BY <1>2, RowWritten DEF IInv, Claim
  <1>4. /\ UNCHANGED <<run, done, facts, fresh, posts, fate, crashes>>
        /\ box[m].status = "QUEUED" /\ pc' = [pc EXCEPT ![w] = new]
    BY DEF Claim
  <1>5. new \in [at : {"claimed", "checking"} \cup Holding, of : Messages, token : Nat]
    BY <1>1 DEF BoxRow
  <1>6. /\ pc' \in [Workers -> {Idle} \cup [at : {"claimed", "checking"} \cup Holding,
                                            of : Messages, token : Nat]]
        /\ \A v \in Workers : pc'[v] = IF v = w THEN new ELSE pc[v]
    BY <1>4, <1>5 DEF IInv, RobotTypeOK
  <1>7. box[m].attempt \in Nat
    BY <1>1 DEF BoxRow
  <1>8. new.at = "claimed" /\ new.of = m /\ new.token = box[m].attempt + 1
    OBVIOUS
  <1> HIDE DEF row, new
  <1>9. RobotTypeOK'
    BY <1>3, <1>4, <1>6 DEF IInv, RobotTypeOK
  <1>10. LedgerTruthful' /\ SentOnce'
    BY <1>2, <1>3, <1>4 DEF IInv, LedgerTruthful, SentOnce
  <1>11. Claims'
    <2> SUFFICES ASSUME NEW v \in Workers, pc'[v].at \in Engaged PROVE ClaimInv(v)'
      BY DEF Claims, ClaimInv, Engaged, Holding
    <2>1. CASE v = w
      <3>1. posts[m] = 0
        BY <1>4 DEF IInv, LedgerTruthful
      <3> QED BY <1>2, <1>3, <1>4, <1>6, <1>7, <1>8, <2>1, <3>1
              DEF ClaimInv, Engaged, Holding, Current
    <2>2. CASE v # w
      <3>1. pc'[v] = pc[v] /\ pc[v].of \in Messages /\ pc[v].token \in Nat
        BY <1>6, <2>2, WorkerType DEF IInv, Engaged, Holding
      <3>2. ClaimInv(v) /\ pc[v].at \in Engaged
        BY <3>1 DEF IInv, Claims
      <3>3. CASE pc[v].of = m
        BY <1>2, <1>3, <1>4, <1>7, <3>1, <3>2, <3>3 DEF ClaimInv, Current, Engaged, Holding
      <3>4. CASE pc[v].of # m
        BY <1>3, <1>4, <3>1, <3>2, <3>4 DEF ClaimInv, Current
      <3> QED BY <3>3, <3>4
    <2> QED BY <2>1, <2>2
  <1>12. OneHolder'
    <2> SUFFICES ASSUME NEW u \in Workers, NEW v \in Workers, pc'[u].at \in Engaged,
                        pc'[v].at \in Engaged, pc'[u].of = pc'[v].of,
                        pc'[u].token = pc'[v].token
                 PROVE  u = v
      BY DEF OneHolder
    <2>1. \A x \in Workers : pc[x].at \in Engaged /\ pc[x].of = m => pc[x].token # new.token
      <3> TAKE x \in Workers
      <3> HAVE pc[x].at \in Engaged /\ pc[x].of = m
      <3>1. pc[x].token \in Nat /\ pc[x].token <= box[m].attempt
        BY WorkerType DEF IInv, Claims, ClaimInv, Engaged, Holding
      <3> QED BY <1>7, <1>8, <3>1
    <2> QED BY <1>6, <1>8, <2>1 DEF IInv, OneHolder
  <1> QED BY <1>9, <1>10, <1>11, <1>12 DEF IInv

\* A worker lets go of its claim and leaves the ledger as it is, or as an earlier step of
\* its own has made it.
LEMMA DropStep ==
    ASSUME IInv, NEW w \in Workers, Finish(w), UNCHANGED <<run, done, box, facts, fresh>>,
           UNCHANGED <<posts, fate>>, crashes' \in Nat
    PROVE  IInv'
  <1>1. /\ pc' \in [Workers -> {Idle} \cup [at : {"claimed", "checking"} \cup Holding,
                                            of : Messages, token : Nat]]
        /\ pc'[w].at = "idle" /\ \A v \in Workers : v # w => pc'[v] = pc[v]
    BY WorkerMoved DEF IInv
  <1>2. RobotTypeOK' /\ LedgerTruthful' /\ SentOnce'
    BY <1>1 DEF IInv, RobotTypeOK, LedgerTruthful, SentOnce
  <1>3. Claims'
    BY <1>1 DEF IInv, Claims, ClaimInv, Current, Engaged, Holding
  <1>4. OneHolder'
    BY <1>1 DEF IInv, OneHolder, Engaged, Holding
  <1> QED BY <1>2, <1>3, <1>4 DEF IInv

\* A worker ends its claim by writing its verdict to the row: again in the queue or
\* blocked if nothing was sent, else what the vendor did.
LEMMA VerdictStep ==
    ASSUME IInv, NEW w \in Workers, Finish(w), NEW m \in Messages, m = pc[w].of,
           pc[w].at \in Engaged, Current(w), NEW row \in BoxRow, SetBox(m, row),
           row.attempt = box[m].attempt, row.status # "ABSENT",
           row.status # "DISPATCHING",
           row.status \in {"BLOCKED", "QUEUED"} => posts[m] = 0,
           row.status = "ACCEPTED" => fate[m] = "accepted" /\ posts[m] = 1,
           row.status = "REJECTED" => fate[m] \in {"accepted", "rejected"} /\ posts[m] = 1,
           UNCHANGED <<run, done, facts, fresh, posts, fate, crashes>>
    PROVE  IInv'
  <1>1. /\ pc' \in [Workers -> {Idle} \cup [at : {"claimed", "checking"} \cup Holding,
                                            of : Messages, token : Nat]]
        /\ pc'[w].at = "idle" /\ \A v \in Workers : v # w => pc'[v] = pc[v]
    BY WorkerMoved DEF IInv
  <1>2. /\ box' \in [Messages -> BoxRow]
        /\ \A n \in Messages : box'[n] = IF n = m THEN row ELSE box[n]
    BY RowWritten DEF IInv
  <1>3. RobotTypeOK'
    BY <1>1, <1>2 DEF IInv, RobotTypeOK
  <1>4. LedgerTruthful' /\ SentOnce'
    <2>1. box[m].status = "DISPATCHING" /\ row.status \in BoxStatus
      BY DEF Current, BoxRow
    <2> QED BY <1>2, <2>1 DEF IInv, LedgerTruthful, SentOnce, BoxStatus, Final
  <1>5. Claims'
    <2> SUFFICES ASSUME NEW v \in Workers, pc'[v].at \in Engaged PROVE ClaimInv(v)'
      BY DEF Claims, ClaimInv, Engaged, Holding
    <2>1. v # w /\ pc'[v] = pc[v] /\ pc[v].of \in Messages /\ ClaimInv(v)
      BY <1>1, WorkerType DEF IInv, Claims, Engaged, Holding
    <2>2. CASE pc[v].of = m
      <3>1. pc[v].at \notin Holding
        BY <2>1, <2>2 DEF ClaimInv, Current, IInv, OneHolder, Engaged
      <3> QED BY <1>2, <2>1, <2>2, <3>1 DEF ClaimInv, Current, Engaged, Holding
    <2>3. CASE pc[v].of # m
      BY <1>2, <2>1, <2>3 DEF ClaimInv, Current
    <2> QED BY <2>2, <2>3
  <1>6. OneHolder'
    BY <1>1 DEF IInv, OneHolder, Engaged, Holding
  <1> QED BY <1>3, <1>4, <1>5, <1>6 DEF IInv

\* dispatch takes the row, is authorised, and posts.
LEMMA AdvanceStep ==
    ASSUME IInv, NEW w \in Workers,
           DispatchBegins(w) \/ Authorize(w) \/ \E f \in {"accepted", "rejected", "lost"} : Post(w, f)
    PROVE  IInv'
  <1> DEFINE m == pc[w].of
  <1>1. pc[w].at # "idle"
    BY DEF DispatchBegins, Authorize, Post
  <1>2. /\ m \in Messages /\ pc[w].token \in Nat
        /\ pc[w] \in [at : {"claimed", "checking"} \cup Holding, of : Messages, token : Nat]
    BY <1>1, WorkerType DEF IInv
  <1>3. PICK a \in Holding :
          /\ pc' = [pc EXCEPT ![w].at = a]
          /\ a = "sending" => pc[w].at = "claimed" /\ Current(w) /\ Inputs(m) /\ UNCHANGED posts
          /\ a = "posting" => pc[w].at = "sending" /\ UNCHANGED posts
          /\ a = "posted" => /\ pc[w].at = "posting"
                             /\ posts' = [posts EXCEPT ![m] = @ + 1]
    BY DEF DispatchBegins, Authorize, Post, Holding
  <1>4. /\ UNCHANGED <<run, done, box, facts, fresh, crashes>>
        /\ fate' \in [Messages -> {"none", "accepted", "rejected", "lost"}]
        /\ \A n \in Messages : fate'[n] # fate[n] => n = m /\ a = "posted"
        /\ a = "posted" => fate'[m] # "none"
    <2>1. UNCHANGED <<run, done, box, facts, fresh, crashes>>
      BY DEF DispatchBegins, Authorize, Post
    <2>2. CASE a # "posted"
      <3>1. UNCHANGED fate
        BY <1>3, <2>2 DEF DispatchBegins, Authorize, Post, Holding
      <3> QED BY <2>1, <2>2, <3>1 DEF IInv, RobotTypeOK
    <2>3. CASE a = "posted"
      <3>1. PICK f \in {"accepted", "rejected", "lost"} : fate' = [fate EXCEPT ![m] = f]
        BY <1>3, <2>3 DEF DispatchBegins, Authorize, Post
      <3> QED BY <1>2, <2>1, <2>3, <3>1 DEF IInv, RobotTypeOK
    <2> QED BY <2>2, <2>3
  <1>5. pc[w].at \in {"claimed", "sending", "posting"} /\ Current(w)
    BY <1>3 DEF IInv, Claims, ClaimInv, Engaged, Holding
  <1>6. posts[m] = 0
    BY <1>5 DEF IInv, Claims, ClaimInv
  <1>7. /\ posts' \in [Messages -> Nat]
        /\ \A n \in Messages : posts'[n] = IF n = m /\ a = "posted" THEN 1 ELSE posts[n]
    BY <1>2, <1>3, <1>6 DEF IInv, RobotTypeOK, Holding
  <1> DEFINE new == [pc[w] EXCEPT !.at = a]
  <1>8. /\ new \in [at : {"claimed", "checking"} \cup Holding, of : Messages, token : Nat]
        /\ new.at = a /\ new.of = m /\ new.token = pc[w].token
    BY <1>2
  <1>9. pc' = [pc EXCEPT ![w] = new]
    BY <1>3 DEF IInv, RobotTypeOK
  <1>10. /\ pc' \in [Workers -> {Idle} \cup [at : {"claimed", "checking"} \cup Holding,
                                             of : Messages, token : Nat]]
         /\ \A v \in Workers : pc'[v] = IF v = w THEN new ELSE pc[v]
    BY <1>8, <1>9 DEF IInv, RobotTypeOK
  <1> HIDE DEF new, m
  <1>11. RobotTypeOK'
    BY <1>4, <1>7, <1>10 DEF IInv, RobotTypeOK
  <1>12. box[m].status = "DISPATCHING"
    BY <1>5 DEF Current, m
  <1>13. LedgerTruthful' /\ SentOnce'
    BY <1>2, <1>4, <1>7, <1>12 DEF IInv, LedgerTruthful, SentOnce
  <1>14. OneHolder'
    BY <1>5, <1>8, <1>10 DEF IInv, OneHolder, Engaged, Holding, m
  <1>15. Claims'
    <2> SUFFICES ASSUME NEW v \in Workers, pc'[v].at \in Engaged PROVE ClaimInv(v)'
      BY DEF Claims, ClaimInv, Engaged, Holding
    <2>1. CASE v = w
      <3>1. pc'[v].at = a /\ pc'[v].of = m /\ pc'[v].token = pc[w].token
        BY <1>8, <1>10, <2>1
      <3>2. /\ pc[w].token <= box[m].attempt /\ box[m].attempt = pc[w].token
            /\ facts[m] = box[m].frozen /\ facts[m] # Denied
        BY <1>3, <1>5 DEF IInv, Claims, ClaimInv, Current, Inputs, Engaged, Holding, m
      <3> QED BY <1>2, <1>4, <1>6, <1>7, <1>12, <3>1, <3>2
              DEF ClaimInv, Current, Engaged, Holding
    <2>2. CASE v # w
      <3>1. pc'[v] = pc[v] /\ pc[v].of \in Messages /\ ClaimInv(v) /\ pc[v].at \in Engaged
        BY <1>10, <2>2, WorkerType DEF IInv, Claims, Engaged, Holding
      <3>2. CASE pc[v].of = m
        <4>1. ~Current(v)
          BY <1>5, <2>2, <3>1, <3>2 DEF IInv, OneHolder, Current, Engaged, Holding, m
        <4> QED BY <1>4, <3>1, <3>2, <4>1 DEF ClaimInv, Current, Engaged, Holding
      <3>3. CASE pc[v].of # m
        <4>1. posts'[pc[v].of] = posts[pc[v].of] /\ fate'[pc[v].of] = fate[pc[v].of]
          BY <1>4, <1>7, <3>1, <3>3
        <4> QED BY <1>4, <3>1, <4>1 DEF ClaimInv, Current
      <3> QED BY <3>2, <3>3
    <2> QED BY <2>1, <2>2
  <1> QED BY <1>11, <1>13, <1>14, <1>15 DEF IInv

\* dispatch ends: blocked before or refused in the Gateway, or with the vendor's answer.
LEMMA OutcomeStep ==
    ASSUME IInv, NEW w \in Workers,
           \/ \E fenced \in BOOLEAN : DispatchBlocks(w, fenced)
           \/ SendRefused(w)
           \/ \E answered \in BOOLEAN : Record(w, answered)
    PROVE  IInv'
  <1> DEFINE m == pc[w].of
  <1>1. pc[w].at # "idle" /\ pc[w].at \in Engaged
    BY DEF DispatchBlocks, SendRefused, Record, Engaged, Holding
  <1>2. m \in Messages /\ box[m] \in BoxRow
    BY <1>1, WorkerType DEF IInv, RobotTypeOK
  <1>3. Current(w)
    BY DEF IInv, Claims, ClaimInv, DispatchBlocks, SendRefused, Record, Holding
  <1>4. pc[w].at # "posted" => posts[m] = 0
    BY <1>1, <1>3 DEF IInv, Claims, ClaimInv, Engaged, Holding
  <1>5. pc[w].at = "posted" => posts[m] = 1 /\ fate[m] \in {"accepted", "rejected", "lost"}
    BY <1>2 DEF IInv, Claims, ClaimInv, RobotTypeOK
  <1>6. \A x \in BOOLEAN : /\ Blocked(box[m], x) \in BoxRow
                           /\ Blocked(box[m], x).status = "BLOCKED"
                           /\ Blocked(box[m], x).attempt = box[m].attempt
    BY <1>2 DEF Blocked, BoxRow, BoxStatus, None
  <1>7. /\ NotAttempted(box[m]) \in BoxRow
        /\ NotAttempted(box[m]).status \in {"BLOCKED", "QUEUED"}
        /\ NotAttempted(box[m]).attempt = box[m].attempt
    BY <1>2, <1>6, RobotAssumption DEF NotAttempted, BoxRow, BoxStatus, None
  <1>8. \A x \in BOOLEAN : LET row == SendOutcome(box[m], fate[m], x) IN
          /\ row \in BoxRow /\ row.attempt = box[m].attempt
          /\ row.status = IF ~x THEN "UNKNOWN"
                          ELSE IF fate[m] = "accepted" THEN "ACCEPTED" ELSE "REJECTED"
    BY <1>2 DEF SendOutcome, BoxRow, BoxStatus, Final, None
  <1>9. PICK row \in BoxRow :
          /\ SetBox(m, row) /\ row.attempt = box[m].attempt
          /\ row.status \notin {"ABSENT", "DISPATCHING"}
          /\ row.status \in {"BLOCKED", "QUEUED"} => posts[m] = 0
          /\ row.status = "ACCEPTED" => fate[m] = "accepted" /\ posts[m] = 1
          /\ row.status = "REJECTED" => fate[m] \in {"accepted", "rejected"} /\ posts[m] = 1
    <2>1. ASSUME NEW fenced \in BOOLEAN, DispatchBlocks(w, fenced)
          PROVE  SetBox(m, Blocked(box[m], FALSE)) /\ pc[w].at = "claimed"
      BY <2>1 DEF DispatchBlocks
    <2>2. CASE SendRefused(w)
      BY <1>4, <1>7, <2>2 DEF SendRefused
    <2>3. ASSUME NEW x \in BOOLEAN, Record(w, x)
          PROVE  /\ SetBox(m, SendOutcome(box[m], fate[m], x))
                 /\ pc[w].at = "posted" /\ (x => fate[m] # "lost")
      BY <2>3 DEF Record
    <2> HIDE DEF m
    <2>4. CASE \E fenced \in BOOLEAN : DispatchBlocks(w, fenced)
      BY <1>4, <1>6, <2>1, <2>4
    <2>5. CASE \E x \in BOOLEAN : Record(w, x)
      <3>1. PICK x \in BOOLEAN : Record(w, x)
        BY <2>5
      <3>2. /\ SetBox(m, SendOutcome(box[m], fate[m], x))
            /\ pc[w].at = "posted" /\ (x => fate[m] # "lost")
        BY <2>3, <3>1
      <3> DEFINE row == SendOutcome(box[m], fate[m], x)
      <3>3. /\ row \in BoxRow /\ row.attempt = box[m].attempt
            /\ row.status = IF ~x THEN "UNKNOWN"
                            ELSE IF fate[m] = "accepted" THEN "ACCEPTED" ELSE "REJECTED"
        BY <1>8
      <3> HIDE DEF row
      <3>4. SetBox(m, row)
        BY <3>2 DEF row
      <3> QED BY <1>5, <3>2, <3>3, <3>4
    <2> QED BY <2>2, <2>4, <2>5
  <1>10. Finish(w) /\ UNCHANGED <<run, done, facts, fresh, posts, fate, crashes>>
    BY DEF DispatchBlocks, SendRefused, Record
  <1> HIDE DEF m
  <1> QED BY <1>1, <1>2, <1>3, <1>9, <1>10, VerdictStep DEF m

\* A receipt is asked for under a number of its own; its worker holds no claim to send.
LEMMA ReceiptClaimStep ==
    ASSUME IInv, NEW w \in Workers, NEW m \in Messages, ClaimReconciliation(w, m)
    PROVE  IInv'
  <1> DEFINE row == [box[m] EXCEPT !.checks = @ + 1, !.checked = Lease]
             new == [at |-> "checking", of |-> m, token |-> box[m].checks + 1]
  <1>1. box[m] \in BoxRow
    BY DEF IInv, RobotTypeOK
  <1>2. box[m].checks + 1 \in Nat /\ Lease \in Nat
    BY <1>1, RobotAssumption DEF BoxRow
  <1>3. /\ row \in BoxRow /\ row.status = box[m].status /\ row.attempt = box[m].attempt
        /\ row.frozen = box[m].frozen
    BY <1>1, <1>2 DEF BoxRow
  <1>4. /\ box' \in [Messages -> BoxRow]
        /\ \A n \in Messages : box'[n] = IF n = m THEN row ELSE box[n]
    BY <1>3, RowWritten DEF IInv, ClaimReconciliation
  <1>5. UNCHANGED <<run, done, facts, fresh, posts, fate, crashes>>
    BY DEF ClaimReconciliation
  <1>6. /\ pc' \in [Workers -> {Idle} \cup [at : {"claimed", "checking"} \cup Holding,
                                            of : Messages, token : Nat]]
        /\ pc'[w].at = "checking" /\ \A v \in Workers : v # w => pc'[v] = pc[v]
    <2>1. new \in [at : {"claimed", "checking"} \cup Holding, of : Messages, token : Nat]
      BY <1>2
    <2>2. pc' = [pc EXCEPT ![w] = new]
      BY DEF ClaimReconciliation
    <2> QED BY <2>1, <2>2 DEF IInv, RobotTypeOK
  <1> HIDE DEF row, new
  <1>7. RobotTypeOK'
    BY <1>4, <1>5, <1>6 DEF IInv, RobotTypeOK
  <1>8. \A n \in Messages : /\ box'[n].status = box[n].status
                            /\ box'[n].attempt = box[n].attempt
                            /\ box'[n].frozen = box[n].frozen
    BY <1>3, <1>4
  <1>9. LedgerTruthful' /\ SentOnce'
    BY <1>5, <1>8 DEF IInv, LedgerTruthful, SentOnce
  <1>10. Claims'
    <2> SUFFICES ASSUME NEW v \in Workers, pc'[v].at \in Engaged PROVE ClaimInv(v)'
      BY DEF Claims, ClaimInv, Engaged, Holding
    <2>1. pc'[v] = pc[v] /\ pc[v].of \in Messages /\ ClaimInv(v)
      BY <1>6, WorkerType DEF IInv, Claims, Engaged, Holding
    <2> QED BY <1>5, <1>8, <2>1 DEF ClaimInv, Current
  <1>11. OneHolder'
    BY <1>6 DEF IInv, OneHolder, Engaged, Holding
  <1> QED BY <1>7, <1>9, <1>10, <1>11 DEF IInv

LEMMA ReceiptStep ==
    ASSUME IInv, NEW w \in Workers, ReconcileFailure(w)
    PROVE  IInv'
  <1> DEFINE m   == pc[w].of
             row == [box[m] EXCEPT !.status = "REJECTED"]
  <1>1. pc[w].at = "checking" /\ box[m].status = "ACCEPTED"
    BY DEF ReconcileFailure, ReceiptOf
  <1>2. m \in Messages /\ box[m] \in BoxRow
    BY <1>1, WorkerType DEF IInv, RobotTypeOK
  <1>3. row \in BoxRow /\ row.status = "REJECTED" /\ row.attempt = box[m].attempt
    BY <1>2 DEF BoxRow, BoxStatus, Final
  <1>4. /\ box' \in [Messages -> BoxRow]
        /\ \A n \in Messages : box'[n] = IF n = m THEN row ELSE box[n]
    BY <1>2, <1>3, RowWritten DEF IInv, ReconcileFailure
  <1>5. UNCHANGED <<run, done, facts, fresh, posts, fate, crashes>>
    BY DEF ReconcileFailure
  <1>6. /\ pc' \in [Workers -> {Idle} \cup [at : {"claimed", "checking"} \cup Holding,
                                            of : Messages, token : Nat]]
        /\ pc'[w].at = "idle" /\ \A v \in Workers : v # w => pc'[v] = pc[v]
    BY WorkerMoved DEF IInv, ReconcileFailure
  <1> HIDE DEF row, m
  <1>7. RobotTypeOK'
    BY <1>4, <1>5, <1>6 DEF IInv, RobotTypeOK
  <1>8. LedgerTruthful' /\ SentOnce'
    BY <1>1, <1>2, <1>3, <1>4, <1>5 DEF IInv, LedgerTruthful, SentOnce
  <1>9. Claims'
    <2> SUFFICES ASSUME NEW v \in Workers, pc'[v].at \in Engaged PROVE ClaimInv(v)'
      BY DEF Claims, ClaimInv, Engaged, Holding
    <2>1. pc'[v] = pc[v] /\ pc[v].of \in Messages /\ ClaimInv(v) /\ pc[v].at \in Engaged
      BY <1>6, WorkerType DEF IInv, Claims, Engaged, Holding
    <2>2. CASE pc[v].of = m
      BY <1>1, <1>3, <1>4, <1>5, <2>1, <2>2 DEF ClaimInv, Current, Engaged, Holding
    <2>3. CASE pc[v].of # m
      BY <1>4, <1>5, <2>1, <2>3 DEF ClaimInv, Current
    <2> QED BY <2>2, <2>3
  <1>10. OneHolder'
    BY <1>6 DEF IInv, OneHolder, Engaged, Holding
  <1> QED BY <1>7, <1>8, <1>9, <1>10 DEF IInv

\* The clock touches nothing but the times of a row.
LEMMA TickStep == ASSUME IInv, Tick PROVE IInv'
  <1> DEFINE new(m) == [box[m] EXCEPT !.due = Sooner(@), !.lease = Sooner(@),
                                      !.checked = Sooner(@)]
  <1>1. ASSUME NEW m \in Messages
        PROVE  /\ new(m) \in BoxRow /\ new(m).status = box[m].status
               /\ new(m).attempt = box[m].attempt /\ new(m).frozen = box[m].frozen
    <2>1. box[m] \in BoxRow
      BY DEF IInv, RobotTypeOK
    <2>2. /\ Sooner(box[m].due) \in Nat \cup {None} /\ Sooner(box[m].lease) \in Nat \cup {None}
          /\ Sooner(box[m].checked) \in Nat
      BY <2>1 DEF BoxRow, Sooner, None
    <2> QED BY <2>1, <2>2 DEF BoxRow
  <1>2. box' = [m \in Messages |-> new(m)]
    BY DEF Tick
  <1>3. UNCHANGED <<run, done, facts, fresh, pc, posts, fate, crashes>>
    BY DEF Tick
  <1> HIDE DEF new
  <1>4. RobotTypeOK'
    BY <1>1, <1>2, <1>3 DEF IInv, RobotTypeOK
  <1>5. \A n \in Messages : /\ box'[n].status = box[n].status
                            /\ box'[n].attempt = box[n].attempt
                            /\ box'[n].frozen = box[n].frozen
    BY <1>1, <1>2
  <1>6. LedgerTruthful' /\ SentOnce'
    BY <1>3, <1>5 DEF IInv, LedgerTruthful, SentOnce
  <1>7. Claims'
    <2> SUFFICES ASSUME NEW v \in Workers, pc[v].at \in Engaged PROVE ClaimInv(v)'
      BY <1>3 DEF Claims, ClaimInv, Engaged, Holding
    <2>1. pc[v].of \in Messages /\ ClaimInv(v)
      BY WorkerType DEF IInv, Claims, Engaged, Holding
    <2> QED BY <1>3, <1>5, <2>1 DEF ClaimInv, Current
  <1>8. OneHolder'
    BY <1>3 DEF IInv, OneHolder
  <1> QED BY <1>4, <1>6, <1>7, <1>8 DEF IInv

LEMMA InvNext == IInv /\ [Next]_vars => IInv'
  <1> SUFFICES ASSUME IInv, [Next]_vars PROVE IInv'
    OBVIOUS
  <1>1. CASE UNCHANGED vars
    BY <1>1 DEF IInv, RobotTypeOK, LedgerTruthful, Claims, ClaimInv, Current, OneHolder, SentOnce
  <1>2. ASSUME NEW m \in Messages, Inbox(m) \/ Administer(m) PROVE IInv'
    BY <1>2, OutsideStep
  <1>3. ASSUME NEW m \in Messages, Materialize(m) \/ ExpireClaim(m) PROVE IInv'
    BY <1>3, RowStep
  <1>4. ASSUME NEW w \in Workers, Dispatch(w) PROVE IInv'
    <2>1. CASE DispatchStale(w) \/ ReconcileKeeps(w)
      <3>1. /\ Finish(w) /\ UNCHANGED <<run, done, box, facts, fresh>>
            /\ UNCHANGED <<posts, fate>> /\ crashes' \in Nat
        BY <2>1 DEF DispatchStale, ReconcileKeeps, IInv, RobotTypeOK
      <3> QED BY <3>1, DropStep
    <2>2. CASE DispatchBegins(w) \/ Authorize(w)
               \/ \E f \in {"accepted", "rejected", "lost"} : Post(w, f)
      BY <2>2, AdvanceStep
    <2>3. CASE \/ \E fenced \in BOOLEAN : DispatchBlocks(w, fenced)
               \/ SendRefused(w)
               \/ \E answered \in BOOLEAN : Record(w, answered)
      BY <2>3, OutcomeStep
    <2>4. CASE ReconcileFailure(w)
      BY <2>4, ReceiptStep
    <2> QED BY <1>4, <2>1, <2>2, <2>3, <2>4 DEF Dispatch
  <1>5. ASSUME NEW w \in Workers, Crash(w) PROVE IInv'
    <2>1. /\ Finish(w) /\ UNCHANGED <<run, done, box, facts, fresh>>
          /\ UNCHANGED <<posts, fate>> /\ crashes' \in Nat
      BY <1>5 DEF Crash, IInv, RobotTypeOK
    <2> QED BY <2>1, DropStep
  <1>6. ASSUME NEW w \in Workers, NEW m \in Messages, Claim(w, m) \/ ClaimReconciliation(w, m)
        PROVE  IInv'
    BY <1>6, ClaimStep, ReceiptClaimStep
  <1> QED BY <1>1, <1>2, <1>3, <1>4, <1>5, <1>6, TickStep DEF Next

LEMMA Invariant == Spec => []IInv
  BY InvInit, InvNext, PTL DEF Spec

\* Every column of the outbox and every claim keeps its type.
THEOREM RobotTyped == Spec => []RobotTypeOK
  <1>1. IInv => RobotTypeOK
    BY DEF IInv
  <1> QED BY <1>1, Invariant, PTL

\* What DingTalkOutboxService records is what the vendor did: a reply that may be tried
\* again has not left, an accepted one was accepted, a rejected one was answered.
THEOREM RobotTruthful == Spec => []LedgerTruthful
  <1>1. IInv => LedgerTruthful
    BY DEF IInv
  <1> QED BY <1>1, Invariant, PTL
-----------------------------------------------------------------------------
\* Who posts, and in which state of the row.
LEMMA PostStep ==
    ASSUME IInv, [Next]_vars, NEW m \in Messages, posts'[m] # posts[m]
    PROVE  /\ posts[m] = 0 /\ facts[m] # Denied /\ facts[m] = box[m].frozen
           /\ box[m].status = "DISPATCHING" /\ UNCHANGED box
           /\ posts' = [posts EXCEPT ![m] = 1]
  <1>1. PICK w \in Workers, f \in {"accepted", "rejected", "lost"} : Post(w, f)
    BY DEF Next, Inbox, Receive, Process, RunCompletes, RunFails, Administer, Verify, RunsOut,
           ChangeFacts, Materialize, Enqueue, EnqueueBlocks, ExpireClaim, Dispatch,
           DispatchStale, DispatchBegins, DispatchBlocks, Authorize, SendRefused, Record,
           ReconcileFailure, ReconcileKeeps, Crash, Claim, ClaimReconciliation, Tick
  <1>2. pc[w].at = "posting" /\ UNCHANGED box /\ posts' = [posts EXCEPT ![pc[w].of] = @ + 1]
    BY <1>1 DEF Post
  <1>3. pc[w].of \in Messages /\ posts \in [Messages -> Nat]
    BY <1>2, WorkerType DEF IInv, RobotTypeOK
  <1>4. m = pc[w].of
    BY <1>2, <1>3
  <1>5. Current(w) /\ posts[m] = 0 /\ facts[m] # Denied /\ facts[m] = box[m].frozen
    BY <1>2, <1>4 DEF IInv, Claims, ClaimInv, Holding
  <1>6. posts' = [posts EXCEPT ![m] = 1]
    BY <1>2, <1>4, <1>5
  <1> QED BY <1>2, <1>4, <1>5, <1>6 DEF Current

\* A revocation that has committed is never overtaken: authorize_send and the fence see to
\* it that a POST leaves under the facts it was queued with.
THEOREM PostsAuthorised == Spec => PostAuthorised
  <1>1. IInv /\ [Next]_vars =>
          [\A m \in Messages : posts'[m] # posts[m] =>
              /\ posts[m] = 0
              /\ facts[m] # Denied /\ facts[m] = box[m].frozen
              /\ box[m].status = "DISPATCHING"]_vars
    BY PostStep
  <1> QED BY <1>1, Invariant, PTL DEF Spec, PostAuthorised

\* What a step may do to the verdict of a message: nothing, settle one that is open, or
\* turn an accepted message into a rejected one.
SettleRow(m) ==
    /\ box[m].status \notin Final /\ box'[m].status \in Final
    /\ box'[m].status # "UNKNOWN" => posts[m] = 1

CorrectRow(m) == box[m].status = "ACCEPTED" /\ box'[m].status = "REJECTED"

LEMMA VerdictChange ==
    ASSUME IInv, [Next]_vars
    PROVE  \/ \A n \in Messages : Verdict(box'[n].status) = Verdict(box[n].status)
           \/ \E m \in Messages :
                 /\ \A n \in Messages : n # m => box'[n].status = box[n].status
                 /\ SettleRow(m) \/ CorrectRow(m)
                 /\ UNCHANGED posts
  <1>0. IInv' /\ box \in [Messages -> BoxRow] /\ box' \in [Messages -> BoxRow]
    BY InvNext DEF IInv, RobotTypeOK
  <1>1. CASE UNCHANGED box
    BY <1>1
  <1>2. ASSUME NEW m \in Messages, NEW row, SetBox(m, row)
        PROVE  \A n \in Messages : box'[n] = IF n = m THEN row ELSE box[n]
    BY <1>0, <1>2 DEF SetBox
  <1>3. ASSUME NEW m \in Messages, Materialize(m)
        PROVE  \A n \in Messages : Verdict(box'[n].status) = Verdict(box[n].status)
    <2>1. /\ box[m].status \in {"ABSENT", "BLOCKED"}
          /\ \E row : SetBox(m, row) /\ row.status \in {"BLOCKED", "QUEUED"}
      <3>1. box[m] \in BoxRow
        BY <1>0
      <3>2. /\ Blocked(box[m], FALSE).status = "BLOCKED"
            /\ [box[m] EXCEPT !.status = "QUEUED", !.exhausted = FALSE, !.frozen = facts[m],
                              !.due = 0, !.lease = None].status = "QUEUED"
        BY <3>1 DEF Blocked, BoxRow
      <3>3. box[m].status \in {"ABSENT", "BLOCKED"}
        BY <1>3 DEF Materialize, Enqueue, EnqueueBlocks, InTurn, Candidate
      <3>4. CASE Enqueue(m)
        BY <3>2, <3>3, <3>4 DEF Enqueue
      <3>5. CASE EnqueueBlocks(m)
        BY <3>2, <3>3, <3>5 DEF EnqueueBlocks
      <3> QED BY <1>3, <3>4, <3>5 DEF Materialize
    <2> QED BY <1>2, <2>1 DEF Verdict
  <1>4. ASSUME NEW m \in Messages, ExpireClaim(m)
        PROVE  /\ \A n \in Messages : n # m => box'[n].status = box[n].status
               /\ SettleRow(m) /\ UNCHANGED posts
    <2>1. Expired(box[m]).status = "UNKNOWN"
      BY <1>0 DEF Expired, BoxRow
    <2>2. /\ SetBox(m, Expired(box[m])) /\ UNCHANGED posts /\ box[m].status = "DISPATCHING"
      BY <1>4 DEF ExpireClaim, Overdue
    <2> QED BY <1>2, <2>1, <2>2 DEF SettleRow, Final
  <1>5. ASSUME NEW w \in Workers, NEW m \in Messages, Claim(w, m) \/ ClaimReconciliation(w, m)
        PROVE  \A n \in Messages : Verdict(box'[n].status) = Verdict(box[n].status)
    <2>1. box[m] \in BoxRow
      BY <1>0
    <2>2. CASE Claim(w, m)
      <3> DEFINE row == [box[m] EXCEPT !.status = "DISPATCHING", !.attempt = @ + 1,
                                       !.lease = Lease, !.due = None]
      <3>1. row.status = "DISPATCHING"
        BY <2>1 DEF BoxRow
      <3>2. SetBox(m, row) /\ box[m].status = "QUEUED"
        BY <2>2 DEF Claim
      <3> HIDE DEF row
      <3> QED BY <1>2, <3>1, <3>2 DEF Verdict
    <2>3. CASE ClaimReconciliation(w, m)
      <3> DEFINE row == [box[m] EXCEPT !.checks = @ + 1, !.checked = Lease]
      <3>1. row.status = box[m].status
        BY <2>1 DEF BoxRow
      <3>2. SetBox(m, row)
        BY <2>3 DEF ClaimReconciliation
      <3> HIDE DEF row
      <3> QED BY <1>2, <3>1, <3>2
    <2> QED BY <1>5, <2>2, <2>3
  <1>6. CASE Tick
    <2>1. \A m \in Messages : box'[m] = [box[m] EXCEPT !.due = Sooner(@), !.lease = Sooner(@),
                                                       !.checked = Sooner(@)]
      BY <1>6 DEF Tick
    <2>2. \A m \in Messages : box'[m].status = box[m].status
      BY <1>0, <2>1 DEF BoxRow
    <2> QED BY <2>2
  <1>7. ASSUME NEW w \in Workers,
               \/ SendRefused(w) \/ ReconcileFailure(w)
               \/ \E fenced \in BOOLEAN : DispatchBlocks(w, fenced)
               \/ \E answered \in BOOLEAN : Record(w, answered)
        PROVE  \/ \A n \in Messages : Verdict(box'[n].status) = Verdict(box[n].status)
               \/ \E m \in Messages :
                     /\ \A n \in Messages : n # m => box'[n].status = box[n].status
                     /\ SettleRow(m) \/ CorrectRow(m)
                     /\ UNCHANGED posts
    <2> DEFINE m == pc[w].of
    <2>1. m \in Messages
      BY <1>7, WorkerType
         DEF IInv, SendRefused, ReconcileFailure, ReceiptOf, DispatchBlocks, Record
    <2>2. PICK row : SetBox(m, row) /\ UNCHANGED posts
      BY <1>7 DEF SendRefused, ReconcileFailure, DispatchBlocks, Record
    <2>3. \A n \in Messages : box'[n] = IF n = m THEN row ELSE box[n]
      BY <1>2, <2>1, <2>2
    <2>4. CASE ReconcileFailure(w)
      <3>1. /\ box[m].status = "ACCEPTED"
            /\ SetBox(m, [box[m] EXCEPT !.status = "REJECTED"])
        BY <2>4 DEF ReconcileFailure, ReceiptOf
      <3>2. box'[m] = [box[m] EXCEPT !.status = "REJECTED"]
        BY <1>2, <2>1, <3>1
      <3>3. box'[m].status = "REJECTED"
        BY <1>0, <2>1, <3>2 DEF BoxRow
      <3> QED BY <2>1, <2>2, <2>3, <3>1, <3>3 DEF CorrectRow
    <2>5. CASE ~ReconcileFailure(w)
      <3>1. box[m].status = "DISPATCHING"
        BY <1>7, <2>5 DEF IInv, Claims, ClaimInv, Current, SendRefused, DispatchBlocks, Record,
                          Holding
      <3>2. /\ box'[m].status \in BoxStatus /\ UNCHANGED posts
            /\ box'[m].status \in {"ACCEPTED", "REJECTED"} => posts[m] = 1
        BY <1>0, <2>1, <2>2 DEF IInv, SentOnce, BoxRow
      <3> HIDE DEF m
      <3>3. CASE box'[m].status \in Final
        BY <2>1, <2>3, <3>1, <3>2, <3>3 DEF SettleRow, Final
      <3>4. CASE box'[m].status \notin Final
        BY <2>1, <2>3, <3>1, <3>4 DEF Verdict, Final
      <3> QED BY <3>3, <3>4
    <2> QED BY <2>4, <2>5
  <1>8. \/ UNCHANGED box \/ Tick
        \/ \E m \in Messages : Materialize(m) \/ ExpireClaim(m)
        \/ \E w \in Workers, m \in Messages : Claim(w, m) \/ ClaimReconciliation(w, m)
        \/ \E w \in Workers : \/ SendRefused(w) \/ ReconcileFailure(w)
                             \/ \E fenced \in BOOLEAN : DispatchBlocks(w, fenced)
                             \/ \E answered \in BOOLEAN : Record(w, answered)
    BY DEF Next, Inbox, Receive, Process, RunCompletes, RunFails, Administer, Verify, RunsOut,
           ChangeFacts, Dispatch, DispatchStale, DispatchBegins, Authorize, Post,
           ReconcileKeeps, Crash
  <1> QED BY <1>1, <1>3, <1>4, <1>5, <1>6, <1>7, <1>8

\* The outbox, its workers and the vendor implement DeliveryContract, whatever crashes,
\* expires, is requeued or revoked: at most one POST per message, none after a verdict,
\* and a verdict that is recorded once.
THEOREM DeliveryImplemented == Spec => ImplementsDelivery
  <1> DEFINE V == [m \in Messages |-> Verdict(box[m].status)]
  <1>1. Init => Contract!Init
    <2> SUFFICES ASSUME Init PROVE Contract!Init
      OBVIOUS
    <2>1. \A m \in Messages : Verdict(box[m].status) = "open"
      BY DEF Init, NoBox, Verdict
    <2> QED BY <2>1 DEF Init, Contract!Init
  <1>2. IInv /\ [Next]_vars => [Contract!Next]_Contract!vars
    <2> SUFFICES ASSUME IInv, [Next]_vars PROVE [Contract!Next]_Contract!vars
      OBVIOUS
    <2>1. CASE \E m \in Messages : posts'[m] # posts[m]
      <3>1. PICK m \in Messages : posts'[m] # posts[m]
        BY <2>1
      <3>2. /\ posts[m] = 0 /\ box[m].status = "DISPATCHING" /\ UNCHANGED box
            /\ posts' = [posts EXCEPT ![m] = 1]
        BY <3>1, PostStep
      <3>3. V[m] = "open" /\ V' = V
        BY <3>2 DEF Verdict
      <3>4. Contract!Send(m)
        BY <3>2, <3>3 DEF Contract!Send
      <3> QED BY <3>4 DEF Contract!Next
    <2>2. CASE \A m \in Messages : posts'[m] = posts[m]
      <3>0. posts \in [Messages -> Nat] /\ posts' \in [Messages -> Nat]
        BY InvNext DEF IInv, RobotTypeOK
      <3>1. posts' = posts
        BY <2>2, <3>0
      <3>2. CASE \A n \in Messages : Verdict(box'[n].status) = Verdict(box[n].status)
        <4>1. V' = V
          BY <3>2
        <4> QED BY <3>1, <4>1 DEF Contract!vars
      <3>3. ASSUME NEW m \in Messages, SettleRow(m) \/ CorrectRow(m),
                   \A n \in Messages : n # m => box'[n].status = box[n].status
            PROVE  Contract!Next
        <4> DEFINE v == Verdict(box'[m].status)
        <4>1. V' = [V EXCEPT ![m] = v]
          BY <3>3
        <4>2. CASE SettleRow(m)
          <5>1. /\ V[m] = "open" /\ v \in {"accepted", "rejected", "unknown"}
                /\ v \in {"accepted", "rejected"} => posts[m] = 1
            BY <4>2 DEF SettleRow, Verdict, Final
          <5>2. v \in Contract!Verdict \ {"open"}
            BY <5>1 DEF Contract!Verdict
          <5> HIDE DEF v
          <5>3. Contract!Settle(m, v)
            BY <3>1, <4>1, <5>1 DEF Contract!Settle
          <5> QED BY <5>2, <5>3 DEF Contract!Next
        <4>3. CASE CorrectRow(m)
          <5>1. V[m] = "accepted" /\ v = "rejected"
            BY <4>3 DEF CorrectRow, Verdict
          <5>2. Contract!Correct(m)
            BY <3>1, <4>1, <5>1 DEF Contract!Correct
          <5> QED BY <5>2 DEF Contract!Next
        <4> QED BY <3>3, <4>2, <4>3
      <3> QED BY <3>2, <3>3, VerdictChange
    <2> QED BY <2>1, <2>2
  <1> QED BY <1>1, <1>2, Invariant, PTL DEF Spec, ImplementsDelivery, Contract!Spec
=============================================================================
