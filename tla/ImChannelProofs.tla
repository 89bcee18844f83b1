-------------------------- MODULE ImChannelProofs --------------------------
(***************************************************************************)
(* Theorems about ImChannel, for every set of messages, every number of    *)
(* inbox workers, every finite set of adapters and every duration, budget  *)
(* and bound.                                                              *)
(***************************************************************************)
EXTENDS ImChannel, FiniteSetTheorems, TLAPS

USE DEF vars, inboxVars, outboxVars

\* An event and its Run: an accepted event has started one, a bridged message has none.
StartInv(m) ==
    /\ m \in Trusted => runs[m] \in {0, 1} /\ (runs[m] = 1 <=> event[m].status = "ACCEPTED")
    /\ m \in Bridged => event[m].status = "NONE" /\ runs[m] = IF run[m] = "NONE" THEN 0 ELSE 1

Starts == \A m \in Messages : StartInv(m)

\* What AttemptsAgree says of a delivery d with the attempts t and x accepted messages, and
\* that a delivery nobody has claimed has no attempt.
Agree(d, t, x) ==
    /\ Len(t) = d.gen
    /\ \A i \in 1 .. (Len(t) - 1) : t[i] = "FAILED"
    /\ d.status \in {"PROCESSING", "SENT", "UNKNOWN"} => Len(t) > 0 /\ t[Len(t)] = d.status
    /\ d.status = "FAILED" /\ Len(t) > 0 => t[Len(t)] = "FAILED"
    /\ d.status = "SENT" => x > 0
    /\ d.status \in {"ABSENT", "PENDING"} => d.gen = 0

Story == \A m \in Messages : Agree(row[m], tries[m], accepts[m])

\* The adapters that have claimed m and not yet posted it, whether or not the claim stands.
Pending(m) == {a \in Adapters : adapter[a].at = "claimed" /\ adapter[a].of = m}

\* The messages the vendor has accepted, and those it may yet be asked to.
Potential(m) == accepts[m] + Cardinality(Pending(m))

Unclaimed == {"ABSENT", "PENDING", "FAILED"}

\* Every confirmation that nothing was sent allows for one message that was sent all the
\* same; a claim allows for one more until its adapter knows that it was turned away.
Budget ==
    \A m \in Messages :
        /\ Potential(m) <= unsent[m] + 1
        /\ row[m].status \in Unclaimed => Potential(m) <= unsent[m]

\* What an adapter holds: a token that is not from the future; a receipt only of a message
\* the vendor has; and if its claim stands and it was turned away, the claim's allowance
\* is free again.
HolderInv(a, m) ==
    adapter[a].at # "idle" /\ adapter[a].of = m =>
        /\ adapter[a].token <= row[m].gen
        /\ adapter[a].at = "receipt" => accepts[m] > 0
        /\ /\ adapter[a].at \in {"throttled", "rejected"}
           /\ row[m].status = "PROCESSING" /\ row[m].gen = adapter[a].token
           => Potential(m) <= unsent[m]

Holders == \A a \in Adapters, m \in Messages : HolderInv(a, m)

IInv == ChannelTypeOK /\ Starts /\ Story /\ Budget /\ Holders
-----------------------------------------------------------------------------
\* An adapter is idle, or it works for a message.
LEMMA AdapterType ==
    ASSUME ChannelTypeOK, NEW a \in Adapters, adapter[a].at # "idle"
    PROVE  /\ adapter[a].of \in Messages /\ adapter[a].token \in Nat
           /\ adapter[a].at \in {"claimed"} \cup Heard
           /\ adapter[a] \in [at : {"claimed"} \cup Heard, of : Messages, token : Nat]
  BY DEF ChannelTypeOK, Idle

\* So is an inbox worker.
LEMMA InboxType ==
    ASSUME ChannelTypeOK, NEW w \in InboxWorkers, inbox[w].at # "idle"
    PROVE  /\ inbox[w].of \in Messages /\ inbox[w].token \in Nat
           /\ inbox[w] \in [at : {"claimed", "rejecting", "releasing"}, of : Messages, token : Nat]
  BY DEF ChannelTypeOK, Idle

\* SetLast overwrites the last attempt and keeps the others.
LEMMA LastSet ==
    ASSUME NEW t \in Seq(Status), NEW s \in Status, Len(t) > 0
    PROVE  /\ SetLast(t, s) \in Seq(Status) /\ Len(SetLast(t, s)) = Len(t)
           /\ SetLast(t, s)[Len(t)] = s
           /\ \A i \in 1 .. (Len(t) - 1) : SetLast(t, s)[i] = t[i]
  BY DEF SetLast

\* Replacing the last attempt by the status of the row keeps the story, when the row had an
\* attempt, keeps its generation, and becomes SENT only with an accepted message.
LEMMA AgreeLast ==
    ASSUME NEW d \in Delivery, NEW e \in Delivery, NEW t \in Seq(Status), NEW x \in Nat,
           Agree(d, t, x), d.status \in {"PROCESSING", "UNKNOWN"},
           e.gen = d.gen, e.status \in {"SENT", "UNKNOWN", "FAILED"}, e.status = "SENT" => x > 0
    PROVE  /\ Agree(e, SetLast(t, e.status), x) /\ SetLast(t, e.status) \in Seq(Status)
  <1>1. Len(t) > 0 /\ e.status \in Status
    BY DEF Agree, Delivery, Status
  <1> DEFINE u == SetLast(t, e.status)
  <1>2. /\ u \in Seq(Status) /\ Len(u) = Len(t) /\ u[Len(t)] = e.status
        /\ \A i \in 1 .. (Len(t) - 1) : u[i] = t[i]
    BY <1>1, LastSet
  <1> HIDE DEF u
  <1>3. Agree(e, u, x)
    BY <1>1, <1>2 DEF Agree
  <1> QED BY <1>2, <1>3 DEF u

\* A claim appends an open attempt.
LEMMA AgreeClaimed ==
    ASSUME NEW d \in Delivery, NEW t \in Seq(Status), NEW x \in Nat,
           Agree(d, t, x), d.status \in Unclaimed
    PROVE  /\ Claimed(d) \in Delivery
           /\ Agree(Claimed(d), Append(t, "PROCESSING"), x)
           /\ Append(t, "PROCESSING") \in Seq(Status)
  <1> DEFINE e == Claimed(d)  u == Append(t, "PROCESSING")
  <1>1. e \in Delivery /\ e.gen = d.gen + 1 /\ e.status = "PROCESSING"
    BY ChannelAssumption DEF Claimed, Delivery, Status, None
  <1>2. /\ u \in Seq(Status) /\ Len(u) = Len(t) + 1 /\ u[Len(t) + 1] = "PROCESSING"
        /\ \A i \in 1 .. Len(t) : u[i] = t[i]
    BY DEF Status
  <1>3. \A i \in 1 .. Len(t) : t[i] = "FAILED"
    BY DEF Agree, Unclaimed, Delivery
  <1> HIDE DEF e, u
  <1>4. Agree(e, u, x)
    BY <1>1, <1>2, <1>3 DEF Agree, Delivery
  <1> QED BY <1>1, <1>2, <1>4 DEF e, u

\* A row that keeps status and generation keeps its story, also when more is accepted.
LEMMA AgreeSame ==
    ASSUME NEW d, NEW e, NEW t, NEW x \in Nat, NEW y \in Nat, Agree(d, t, x),
           e.status = d.status, e.gen = d.gen, y >= x
    PROVE  Agree(e, t, y)
  BY DEF Agree

\* What the code makes of a delivery is a delivery with the generation of its claim.
LEMMA Rows ==
    ASSUME NEW d \in Delivery
    PROVE  /\ Expired(d) \in Delivery /\ Expired(d).gen = d.gen /\ Expired(d).status = "UNKNOWN"
           /\ \A heard \in Heard :
                 /\ Reported(d, heard) \in Delivery /\ Reported(d, heard).gen = d.gen
                 /\ Reported(d, heard).status = CASE heard = "receipt" -> "SENT"
                                                  [] heard = "ambiguous" -> "UNKNOWN"
                                                  [] OTHER -> "FAILED"
  BY ChannelAssumption DEF Expired, Reported, Heard, Delivery, Status, None
-----------------------------------------------------------------------------
(* How many messages may be on their way *)

LEMMA PendingFinite ==
    ASSUME NEW m \in Messages
    PROVE  /\ IsFiniteSet(Pending(m)) /\ Cardinality(Pending(m)) \in Nat
           /\ IsFiniteSet(Pending(m)') /\ Cardinality(Pending(m)') \in Nat
  <1>1. Pending(m) \subseteq Adapters /\ Pending(m)' \subseteq Adapters
    BY DEF Pending
  <1>2. IsFiniteSet(Pending(m)) /\ IsFiniteSet(Pending(m)')
    BY <1>1, ChannelAssumption, FS_Subset
  <1> QED BY <1>2, FS_CardinalityType

LEMMA PotentialAfter ==
    ASSUME NEW m \in Messages
    PROVE  Potential(m)' = accepts'[m] + Cardinality(Pending(m)')
  BY DEF Potential

\* An idle adapter that takes m raises the potential of m by one.
LEMMA PotentialTaken ==
    ASSUME ChannelTypeOK, NEW a \in Adapters, NEW m \in Messages, adapter[a] = Idle,
           TakenBy(a, m), UNCHANGED accepts, NEW n \in Messages
    PROVE  Potential(n)' = IF n = m THEN Potential(n) + 1 ELSE Potential(n)
  <1>1. CASE n = m
    <2>1. Pending(n)' = Pending(n) \cup {a} /\ a \notin Pending(n)
      BY <1>1 DEF ChannelTypeOK, TakenBy, Idle, Pending
    <2>2. Cardinality(Pending(n)') = Cardinality(Pending(n)) + 1
      BY <2>1, PendingFinite, FS_AddElement
    <2> QED BY <1>1, <2>2, PendingFinite, PotentialAfter DEF Potential, ChannelTypeOK
  <1>2. CASE n # m
    <2>1. Pending(n)' = Pending(n)
      BY <1>2 DEF ChannelTypeOK, TakenBy, Idle, Pending
    <2> QED BY <1>2, <2>1, PotentialAfter DEF Potential
  <1> QED BY <1>1, <1>2

\* A post moves the message from the pending to the accepted, or drops it.
LEMMA PotentialPosted ==
    ASSUME ChannelTypeOK, NEW a \in Adapters, NEW heard \in Heard, NEW taken \in BOOLEAN,
           Post(a, heard, taken), NEW n \in Messages
    PROVE  Potential(n)' = IF n = adapter[a].of /\ ~taken THEN Potential(n) - 1 ELSE Potential(n)
  <1>0. adapter[a].of \in Messages /\ adapter[a].at = "claimed"
    BY AdapterType DEF Post
  <1>1. CASE n = adapter[a].of
    <2>1. Pending(n)' = Pending(n) \ {a} /\ a \in Pending(n)
      BY <1>0, <1>1 DEF ChannelTypeOK, Post, Heard, Pending
    <2>2. Cardinality(Pending(n)') = Cardinality(Pending(n)) - 1
      BY <2>1, PendingFinite, FS_RemoveElement
    <2>3. accepts'[n] = IF taken THEN accepts[n] + 1 ELSE accepts[n]
      BY <1>1 DEF ChannelTypeOK, Post
    <2>4. accepts[n] \in Nat
      BY DEF ChannelTypeOK
    <2>5. CASE taken
      BY <1>1, <2>2, <2>3, <2>4, <2>5, PendingFinite, PotentialAfter DEF Potential
    <2>6. CASE ~taken
      BY <1>1, <2>2, <2>3, <2>4, <2>6, PendingFinite, PotentialAfter DEF Potential
    <2> QED BY <2>5, <2>6
  <1>2. CASE n # adapter[a].of
    <2>1. Pending(n)' = Pending(n) /\ accepts'[n] = accepts[n]
      BY <1>0, <1>2 DEF ChannelTypeOK, Post, Heard, Pending
    <2> QED BY <1>2, <2>1, PotentialAfter DEF Potential
  <1> QED BY <1>1, <1>2

\* An adapter that goes idle raises no potential.
LEMMA PotentialFreed ==
    ASSUME ChannelTypeOK, NEW a \in Adapters, UNCHANGED accepts,
           adapter' = [adapter EXCEPT ![a] = Idle], NEW n \in Messages
    PROVE  Potential(n)' <= Potential(n)
  <1>1. Pending(n)' \subseteq Pending(n)
    BY DEF ChannelTypeOK, Pending, Idle
  <1>2. Cardinality(Pending(n)') <= Cardinality(Pending(n))
    BY <1>1, PendingFinite, FS_Subset
  <1> QED BY <1>2, PendingFinite, PotentialAfter DEF Potential, ChannelTypeOK

\* Nobody's potential changes unless adapters or vendor act.
LEMMA PotentialKept ==
    ASSUME UNCHANGED <<adapter, accepts>>, NEW n \in Messages
    PROVE  Potential(n)' = Potential(n)
  BY DEF Potential, Pending
-----------------------------------------------------------------------------
(* What several actions have in common *)

LEMMA PotentialType ==
    ASSUME ChannelTypeOK, NEW n \in Messages
    PROVE  Potential(n) \in Nat
  BY PendingFinite DEF Potential, ChannelTypeOK

\* Rows move while adapters and vendor stand still: no delivery becomes claimed, and one
\* that is free again was free before or is confirmed not to have been sent.
LEMMA RowsMove ==
    ASSUME IInv, UNCHANGED <<adapter, accepts>>,
           row' \in [Messages -> Delivery], unsent' \in [Messages -> Nat],
           \A n \in Messages :
              /\ Agree(row'[n], tries'[n], accepts[n]) /\ row'[n].gen = row[n].gen
              /\ row'[n].status = "PROCESSING" => row[n].status = "PROCESSING"
              /\ \/ /\ unsent'[n] = unsent[n]
                    /\ row'[n].status \in Unclaimed => row[n].status \in Unclaimed
                 \/ unsent'[n] = unsent[n] + 1
    PROVE  Story' /\ Budget' /\ Holders'
  <1>1. Story'
    BY DEF Story
  <1>2. \A n \in Messages : /\ Potential(n)' = Potential(n) /\ Potential(n) \in Nat
                            /\ unsent[n] \in Nat /\ unsent'[n] \in Nat
    BY PotentialKept, PotentialType DEF IInv, ChannelTypeOK
  <1>3. Budget'
    BY <1>2 DEF IInv, Budget
  <1>4. ASSUME NEW a \in Adapters, NEW n \in Messages PROVE HolderInv(a, n)'
    <2>1. HolderInv(a, n)
      BY DEF IInv, Holders
    <2> QED BY <1>2, <2>1 DEF HolderInv
  <1> QED BY <1>1, <1>3, <1>4 DEF Holders

\* An idle adapter takes m, while overdue claims of others may run out.
LEMMA ClaimStep ==
    ASSUME IInv, NEW a \in Adapters, NEW m \in Messages, adapter[a] = Idle, TakenBy(a, m),
           UNCHANGED <<accepts, unsent>>, row[m].status \in Unclaimed,
           row' \in [Messages -> Delivery],
           row'[m] = Claimed(row[m]), tries'[m] = Append(tries[m], "PROCESSING"),
           \A n \in Messages \ {m} :
              \/ row'[n] = row[n] /\ tries'[n] = tries[n]
              \/ /\ row[n].status = "PROCESSING" /\ row'[n] = Expired(row[n])
                 /\ tries'[n] = SetLast(tries[n], "UNKNOWN")
    PROVE  Story' /\ Budget' /\ Holders'
  <1>1. \A n \in Messages : /\ row[n] \in Delivery /\ tries[n] \in Seq(Status)
                            /\ accepts[n] \in Nat /\ unsent[n] \in Nat /\ Potential(n) \in Nat
                            /\ Agree(row[n], tries[n], accepts[n])
    BY PotentialType DEF IInv, ChannelTypeOK, Story
  <1>2. Agree(row'[m], tries'[m], accepts[m]) /\ row'[m].gen = row[m].gen + 1
        /\ row'[m].status = "PROCESSING"
    BY <1>1, AgreeClaimed DEF Claimed
  <1>3. ASSUME NEW n \in Messages \ {m}
        PROVE  /\ Agree(row'[n], tries'[n], accepts[n]) /\ row'[n].gen = row[n].gen
               /\ \/ row'[n] = row[n]
                  \/ row[n].status = "PROCESSING" /\ row'[n].status = "UNKNOWN"
    <2>1. CASE row'[n] = row[n] /\ tries'[n] = tries[n]
      BY <1>1, <2>1
    <2>2. CASE /\ row[n].status = "PROCESSING" /\ row'[n] = Expired(row[n])
               /\ tries'[n] = SetLast(tries[n], "UNKNOWN")
      <3>1. /\ Expired(row[n]) \in Delivery /\ Expired(row[n]).gen = row[n].gen
            /\ Expired(row[n]).status = "UNKNOWN"
        BY <1>1, Rows
      <3>2. Agree(Expired(row[n]), SetLast(tries[n], "UNKNOWN"), accepts[n])
        BY <1>1, <2>2, <3>1, AgreeLast
      <3> QED BY <2>2, <3>1, <3>2
    <2> QED BY <2>1, <2>2
  <1>4. \A n \in Messages : Potential(n)' = IF n = m THEN Potential(n) + 1 ELSE Potential(n)
    BY PotentialTaken DEF IInv
  <1>5. Story'
    BY <1>2, <1>3 DEF Story
  <1>6. Budget'
    BY SMTT(30), <1>1, <1>2, <1>3, <1>4 DEF IInv, Budget, Unclaimed
  <1>7. ASSUME NEW b \in Adapters, NEW n \in Messages PROVE HolderInv(b, n)'
    <2>1. HolderInv(b, n)
      BY DEF IInv, Holders
    <2>2. CASE b = a
      <3>1. adapter'[b] = [at |-> "claimed", of |-> m, token |-> row[m].gen + 1]
        BY <2>2 DEF TakenBy, IInv, ChannelTypeOK
      <3> QED BY <1>1, <1>2, <3>1 DEF HolderInv, Delivery
    <2>3. CASE b # a
      <3>1. adapter'[b] = adapter[b]
        BY <2>3 DEF TakenBy, IInv, ChannelTypeOK
      <3>2. adapter[b].at # "idle" => adapter[b].token \in Nat
        BY AdapterType DEF IInv
      <3>3. CASE n = m
        BY <1>1, <1>2, <2>1, <3>1, <3>2, <3>3 DEF HolderInv, Delivery
      <3>4. CASE n # m
        BY <1>1, <1>3, <1>4, <2>1, <3>1, <3>4 DEF HolderInv
      <3> QED BY <3>3, <3>4
    <2> QED BY <2>2, <2>3
  <1> QED BY <1>5, <1>6, <1>7 DEF Holders

\* Rows and adapters that stand still keep their invariants.
LEMMA OutboxSame ==
    ASSUME IInv, UNCHANGED <<row, tries, adapter, accepts, unsent>>
    PROVE  Story' /\ Budget' /\ Holders'
  <1>1. \A n \in Messages : Agree(row[n], tries[n], accepts[n])
    BY DEF IInv, Story
  <1>2. row' \in [Messages -> Delivery] /\ unsent' \in [Messages -> Nat]
    BY DEF IInv, ChannelTypeOK
  <1> QED BY <1>1, <1>2, RowsMove

\* Events and Runs that stand still keep theirs.
LEMMA InboxSame ==
    ASSUME Starts, UNCHANGED <<run, runs>>,
           \A m \in Messages : event'[m].status = event[m].status
    PROVE  Starts'
  BY DEF Starts, StartInv
-----------------------------------------------------------------------------
\* An event gets a new status.
LEMMA EventWritten ==
    ASSUME ChannelTypeOK, NEW m \in Messages, NEW status \in EventStatus,
           \/ event' = [event EXCEPT ![m].status = status]
           \/ event' = [event EXCEPT ![m].status = status, ![m].lease = None]
    PROVE  /\ event' \in [Messages -> EventRow]
           /\ \A n \in Messages :
                 event'[n].status = IF n = m THEN status ELSE event[n].status
  <1>1. event \in [Messages -> EventRow] /\ event[m] \in EventRow
    BY DEF ChannelTypeOK
  <1>2. PICK e \in EventRow : e.status = status /\ event' = [event EXCEPT ![m] = e]
    <2>1. [event[m] EXCEPT !.status = status] \in EventRow
      BY <1>1 DEF EventRow
    <2>2. [event[m] EXCEPT !.status = status, !.lease = None] \in EventRow
      BY <1>1 DEF EventRow
    <2>3. CASE event' = [event EXCEPT ![m].status = status]
      BY <1>1, <2>1, <2>3 DEF EventRow
    <2>4. CASE event' = [event EXCEPT ![m].status = status, ![m].lease = None]
      <3>1. event' = [event EXCEPT ![m] = [event[m] EXCEPT !.status = status, !.lease = None]]
        BY <1>1, <2>4
      <3> QED BY <1>1, <2>2, <3>1 DEF EventRow
    <2> QED BY <2>3, <2>4
  <1> QED BY <1>1, <1>2

LEMMA InvInit == Init => IInv
  <1> SUFFICES ASSUME Init PROVE IInv
    OBVIOUS
  <1>1. ChannelTypeOK
    BY ChannelAssumption
       DEF Init, ChannelTypeOK, EventRow, EventStatus, Delivery, Status, Idle, None
  <1>2. Starts
    BY ChannelAssumption DEF Init, Starts, StartInv, Messages
  <1>3. Story
    BY DEF Init, Story, Agree
  <1>4. \A m \in Messages : Potential(m) = 0
    <2> TAKE m \in Messages
    <2>1. Pending(m) = {}
      BY DEF Init, Pending, Idle
    <2>2. Cardinality(Pending(m)) = 0
      BY <2>1, FS_EmptySet
    <2> QED BY <2>2 DEF Init, Potential
  <1>5. Budget
    BY <1>4 DEF Init, Budget
  <1>6. Holders
    BY DEF Init, Holders, HolderInv, Idle
  <1> QED BY <1>1, <1>2, <1>3, <1>5, <1>6 DEF IInv

\* Events, workers and Runs: the outbox stands still.
LEMMA InboxStep ==
    ASSUME IInv,
           \/ \E m \in Messages : \/ AcceptTrustedEvent(m) \/ BridgeStarts(m) \/ Bind(m)
                                  \/ \E status \in {"COMPLETED", "FAILED"} : RunEnds(m, status)
           \/ \E w \in InboxWorkers : \/ InboxWork(w) \/ InboxCrash(w)
                                      \/ \E m \in Messages : InboxClaim(w, m)
    PROVE  IInv'
  <1>1. UNCHANGED <<refused, row, tries, adapter, accepts, unsent>>
    BY Zenon DEF AcceptTrustedEvent, BridgeStarts, Bind, RunEnds, InboxWork, InboxDispatch, InboxStale,
           InboxReject, InboxRelease, InboxWrites, InboxTurnsDown, InboxCrash, InboxClaim
  <1>2. Story' /\ Budget' /\ Holders'
    BY <1>1, OutboxSame
  <1>3. SUFFICES ASSUME TRUE PROVE Starts' /\ ChannelTypeOK'
    BY <1>2 DEF IInv
  <1>4. SUFFICES /\ event' \in [Messages -> EventRow]
                 /\ run' \in [Messages -> {"NONE", "PENDING", "COMPLETED", "FAILED"}]
                 /\ runs' \in [Messages -> Nat] /\ bound' \in [Messages -> BOOLEAN]
                 /\ inbox' \in [InboxWorkers -> {Idle} \cup [at : {"claimed", "rejecting", "releasing"},
                                                            of : Messages, token : Nat]]
                 /\ faults' \in Nat /\ Starts'
    BY <1>1 DEF IInv, ChannelTypeOK
  <1> USE DEF IInv, ChannelTypeOK
  <1>5. ASSUME NEW m \in Messages, AcceptTrustedEvent(m)
        PROVE  event' \in [Messages -> EventRow] /\ Starts'
    <2>1. /\ event' \in [Messages -> EventRow]
          /\ \A n \in Messages : event'[n].status = IF n = m THEN "PENDING" ELSE event[n].status
      BY <1>5, EventWritten DEF AcceptTrustedEvent, EventStatus
    <2> QED BY <1>5, <2>1, ChannelAssumption DEF AcceptTrustedEvent, Starts, StartInv, Messages
  <1>6. ASSUME NEW m \in Messages, BridgeStarts(m)
        PROVE  /\ run' \in [Messages -> {"NONE", "PENDING", "COMPLETED", "FAILED"}]
               /\ runs' \in [Messages -> Nat] /\ Starts'
    BY <1>6, ChannelAssumption DEF BridgeStarts, Starts, StartInv, Messages
  <1>7. ASSUME NEW m \in Messages, Bind(m)
        PROVE  bound' \in [Messages -> BOOLEAN] /\ Starts'
    BY <1>7, InboxSame DEF Bind
  <1>8. ASSUME NEW m \in Messages, NEW status \in {"COMPLETED", "FAILED"}, RunEnds(m, status)
        PROVE  run' \in [Messages -> {"NONE", "PENDING", "COMPLETED", "FAILED"}] /\ Starts'
    BY <1>8, ChannelAssumption DEF RunEnds, Starts, StartInv, Messages
  <1>9. ASSUME NEW w \in InboxWorkers, NEW m \in Messages, InboxClaim(w, m)
        PROVE  /\ event' \in [Messages -> EventRow] /\ Starts'
               /\ inbox' \in [InboxWorkers -> {Idle} \cup [at : {"claimed", "rejecting", "releasing"},
                                                          of : Messages, token : Nat]]
    BY SMTT(30), <1>9, ChannelAssumption DEF InboxClaim, EventRow, EventStatus, Starts, StartInv, Messages
  <1>10. ASSUME NEW w \in InboxWorkers, InboxDispatch(w)
         PROVE  /\ event' \in [Messages -> EventRow] /\ Starts'
                /\ run' \in [Messages -> {"NONE", "PENDING", "COMPLETED", "FAILED"}]
                /\ runs' \in [Messages -> Nat]
                /\ inbox' \in [InboxWorkers -> {Idle} \cup [at : {"claimed", "rejecting", "releasing"},
                                                           of : Messages, token : Nat]]
    <2>1. inbox[w].of \in Messages
      BY <1>10, InboxType DEF InboxDispatch, Usable
    <2>2. PICK m \in Messages : m = inbox[w].of
      BY <2>1
    <2>3. /\ event' \in [Messages -> EventRow]
          /\ \A n \in Messages : event'[n].status = IF n = m THEN "ACCEPTED" ELSE event[n].status
      <3>1. event' = [event EXCEPT ![m].status = "ACCEPTED", ![m].lease = None]
        BY <1>10, <2>2 DEF InboxDispatch
      <3>2. "ACCEPTED" \in EventStatus
        BY DEF EventStatus
      <3> QED BY ZenonT(60), <3>1, <3>2, EventWritten
    <2>4. /\ run' = [run EXCEPT ![m] = "PENDING"] /\ runs' = [runs EXCEPT ![m] = @ + 1]
          /\ event[m].status = "PROCESSING"
      BY <1>10, <2>2 DEF InboxDispatch, Holds
    <2>5. m \in Trusted /\ m \notin Bridged /\ runs[m] = 0
      BY <2>4, ChannelAssumption DEF Starts, StartInv, Messages
    <2>6. ASSUME NEW n \in Messages PROVE StartInv(n)'
      <3>1. StartInv(n)
        BY DEF Starts
      <3>2. CASE n = m
        BY <2>3, <2>4, <2>5, <3>2 DEF StartInv
      <3>3. CASE n # m
        BY <2>3, <2>4, <3>1, <3>3 DEF StartInv
      <3> QED BY <3>2, <3>3
    <2>7. /\ run' \in [Messages -> {"NONE", "PENDING", "COMPLETED", "FAILED"}]
          /\ runs' \in [Messages -> Nat]
      BY <2>4
    <2>8. InboxFrees(w)
      BY <1>10 DEF InboxDispatch
    <2> QED BY <2>3, <2>6, <2>7, <2>8 DEF Starts, InboxFrees
  <1>11. ASSUME NEW w \in InboxWorkers,
                \/ InboxReject(w) \/ InboxRelease(w) \/ InboxStale(w) \/ InboxCrash(w)
                \/ \E failed \in BOOLEAN : InboxTurnsDown(w, failed)
         PROVE  /\ event' \in [Messages -> EventRow] /\ Starts'
                /\ inbox' \in [InboxWorkers -> {Idle} \cup [at : {"claimed", "rejecting", "releasing"},
                                                           of : Messages, token : Nat]]
                /\ faults' \in Nat
    <2>1. CASE InboxReject(w) \/ InboxRelease(w)
      <3>1. inbox[w].of \in Messages
        BY <2>1, InboxType DEF InboxReject, InboxRelease, InboxWrites
      <3>2. PICK status \in {"REJECTED", "PENDING"} :
              event' = IF Holds(w)
                       THEN [event EXCEPT ![inbox[w].of].status = status, ![inbox[w].of].lease = None]
                       ELSE event
        BY <2>1 DEF InboxReject, InboxRelease, InboxWrites
      <3>3. UNCHANGED <<run, runs, faults>> /\ InboxFrees(w)
        BY <2>1 DEF InboxReject, InboxRelease, InboxWrites
      <3>4. ASSUME Holds(w) PROVE event' \in [Messages -> EventRow] /\ Starts'
        <4>0. PICK m \in Messages : m = inbox[w].of
          BY <3>1
        <4>1. /\ event' \in [Messages -> EventRow]
              /\ \A n \in Messages : event'[n].status = IF n = m THEN status ELSE event[n].status
          <5>1. event' = [event EXCEPT ![m].status = status, ![m].lease = None]
            BY <3>2, <3>4, <4>0
          <5>2. status \in EventStatus
            BY DEF EventStatus
          <5> QED BY ZenonT(60), <5>1, <5>2, EventWritten
        <4>2. event[m].status = "PROCESSING"
          BY <3>4, <4>0 DEF Holds
        <4>3. ASSUME NEW n \in Messages PROVE StartInv(n)'
          <5>1. StartInv(n)
            BY DEF Starts
          <5> QED BY <3>3, <4>1, <4>2, <5>1 DEF StartInv
        <4> QED BY <4>1, <4>3 DEF Starts
      <3>5. ASSUME ~Holds(w) PROVE event' \in [Messages -> EventRow] /\ Starts'
        BY <3>2, <3>3, <3>5, InboxSame
      <3> QED BY <3>3, <3>4, <3>5 DEF InboxFrees
    <2>2. CASE InboxStale(w) \/ InboxCrash(w)
      <3>1. UNCHANGED <<event, run, runs>> /\ InboxFrees(w) /\ faults' \in Nat
        BY SMTT(30), <2>2 DEF InboxStale, InboxCrash
      <3>2. Starts'
        BY <3>1, InboxSame
      <3> QED BY <3>1, <3>2 DEF InboxFrees
    <2>3. CASE \E failed \in BOOLEAN : InboxTurnsDown(w, failed)
      <3>1. inbox[w] \in [at : {"claimed", "rejecting", "releasing"}, of : Messages, token : Nat]
        BY <2>3, InboxType DEF InboxTurnsDown
      <3>2. UNCHANGED <<event, run, runs, faults>>
            /\ \E where \in {"rejecting", "releasing"} : InboxGoes(w, where)
        BY <2>3 DEF InboxTurnsDown
      <3>3. Starts'
        BY <3>2, InboxSame
      <3>4. PICK where \in {"rejecting", "releasing"} : inbox' = [inbox EXCEPT ![w].at = where]
        BY <3>2 DEF InboxGoes
      <3>5. [inbox[w] EXCEPT !.at = where]
               \in [at : {"claimed", "rejecting", "releasing"}, of : Messages, token : Nat]
        BY <3>1
      <3>6. inbox' = [inbox EXCEPT ![w] = [inbox[w] EXCEPT !.at = where]]
        BY <3>4
      <3> QED BY <3>2, <3>3, <3>5, <3>6
    <2> QED BY <1>11, <2>1, <2>2, <2>3
  <1>12. CASE \E m \in Messages : \/ AcceptTrustedEvent(m) \/ BridgeStarts(m) \/ Bind(m)
                                  \/ \E status \in {"COMPLETED", "FAILED"} : RunEnds(m, status)
    BY <1>5, <1>6, <1>7, <1>8, <1>12 DEF AcceptTrustedEvent, BridgeStarts, Bind, RunEnds
  <1>13. CASE \E w \in InboxWorkers : \/ InboxWork(w) \/ InboxCrash(w)
                                      \/ \E m \in Messages : InboxClaim(w, m)
    <2>1. PICK w \in InboxWorkers : \/ InboxWork(w) \/ InboxCrash(w)
                                    \/ \E m \in Messages : InboxClaim(w, m)
      BY <1>13
    <2>2. CASE \E m \in Messages : InboxClaim(w, m)
      BY <1>9, <2>2 DEF InboxClaim
    <2>3. CASE InboxDispatch(w)
      BY <1>10, <2>3 DEF InboxDispatch
    <2>4. CASE ~InboxDispatch(w) /\ ~\E m \in Messages : InboxClaim(w, m)
      <3>1. UNCHANGED <<run, runs, bound>>
        BY <2>1, <2>4 DEF InboxWork, InboxStale, InboxReject, InboxRelease, InboxWrites,
                          InboxTurnsDown, InboxCrash
      <3> QED BY SMTT(30), <1>11, <2>1, <2>4, <3>1 DEF InboxWork
    <2> QED BY <2>2, <2>3, <2>4
  <1> QED BY SMTT(30), <1>12, <1>13

\* Schedule, and the administrator's confirmations.
LEMMA RowStep ==
    ASSUME IInv, NEW m \in Messages, Schedule(m) \/ ReconcileSent(m) \/ ReconcileUnsent(m)
    PROVE  IInv'
  <1>0. /\ row \in [Messages -> Delivery] /\ tries \in [Messages -> Seq(Status)]
        /\ unsent \in [Messages -> Nat] /\ accepts \in [Messages -> Nat]
        /\ \A n \in Messages : Agree(row[n], tries[n], accepts[n])
    BY DEF IInv, ChannelTypeOK, Story
  <1>1. /\ UNCHANGED <<adapter, accepts, event, run, runs, inbox, bound, faults>>
        /\ refused' \in [Messages -> BOOLEAN]
    BY DEF Schedule, ReconcileSent, ReconcileUnsent, IInv, ChannelTypeOK
  <1>2. Starts'
    BY <1>1, InboxSame DEF IInv
  <1>3. PICK e \in Delivery :
          /\ row' = [row EXCEPT ![m] = e] /\ e.gen = row[m].gen
          /\ \/ /\ UNCHANGED <<tries, unsent>> /\ e.status = row[m].status
             \/ /\ UNCHANGED <<tries, unsent>> /\ row[m].status = "ABSENT" /\ e.status = "PENDING"
             \/ /\ row[m].status = "UNKNOWN" /\ e.status = "SENT" /\ accepts[m] > 0
                /\ tries' = [tries EXCEPT ![m] = SetLast(@, "SENT")] /\ UNCHANGED unsent
             \/ /\ row[m].status = "UNKNOWN" /\ e.status = "FAILED"
                /\ tries' = [tries EXCEPT ![m] = SetLast(@, "FAILED")]
                /\ unsent' = [unsent EXCEPT ![m] = @ + 1]
    <2>1. row[m] \in Delivery
      BY <1>0
    <2>2. CASE Schedule(m) /\ bound[m]
      <3>1. [row[m] EXCEPT !.status = "PENDING"] \in Delivery
        BY <2>1 DEF Delivery, Status
      <3> QED BY <1>0, <2>1, <2>2, <3>1 DEF Schedule, Scheduled, Delivery
    <2>3. CASE Schedule(m) /\ ~bound[m]
      <3>1. row' = [row EXCEPT ![m] = row[m]] /\ UNCHANGED <<tries, unsent>>
        BY <1>0, <2>3 DEF Schedule
      <3> QED BY <2>1, <3>1
    <2>4. CASE ReconcileSent(m)
      <3>1. [row[m] EXCEPT !.status = "SENT"] \in Delivery
        BY <2>1 DEF Delivery, Status
      <3> QED BY <1>0, <2>1, <2>4, <3>1 DEF ReconcileSent, Delivery
    <2>5. CASE ReconcileUnsent(m)
      <3> DEFINE e == [row[m] EXCEPT !.status = "FAILED",
                                     !.due = IF row[m].gen < MaxAttempts THEN 0 ELSE None]
      <3>1. e \in Delivery /\ e.gen = row[m].gen /\ e.status = "FAILED"
        BY <2>1 DEF Delivery, Status, None
      <3>2. row' = [row EXCEPT ![m] = e]
        BY <1>0, <2>5 DEF ReconcileUnsent
      <3> HIDE DEF e
      <3> QED BY <2>5, <3>1, <3>2 DEF ReconcileUnsent
    <2> QED BY <2>2, <2>3, <2>4, <2>5
  <1>4. /\ row' \in [Messages -> Delivery] /\ unsent' \in [Messages -> Nat]
        /\ row'[m] = e /\ unsent'[m] \in {unsent[m], unsent[m] + 1}
        /\ \A n \in Messages \ {m} :
              row'[n] = row[n] /\ tries'[n] = tries[n] /\ unsent'[n] = unsent[n]
    <2>1. row' \in [Messages -> Delivery] /\ row'[m] = e
          /\ \A n \in Messages \ {m} : row'[n] = row[n]
      BY <1>0, <1>3
    <2>2. UNCHANGED unsent \/ unsent' = [unsent EXCEPT ![m] = @ + 1]
      BY <1>3
    <2>3. /\ unsent' \in [Messages -> Nat] /\ unsent'[m] \in {unsent[m], unsent[m] + 1}
          /\ \A n \in Messages \ {m} : unsent'[n] = unsent[n]
      BY SMTT(30), <1>0, <2>2
    <2>4. \A n \in Messages \ {m} : tries'[n] = tries[n]
      BY <1>0, <1>3
    <2> QED BY <2>1, <2>3, <2>4
  <1>5. Agree(e, tries'[m], accepts[m]) /\ tries'[m] \in Seq(Status)
    <2>1. CASE /\ UNCHANGED tries
               /\ \/ e.status = row[m].status
                  \/ row[m].status = "ABSENT" /\ e.status = "PENDING"
      <3>1. Agree(row[m], tries[m], accepts[m]) /\ tries'[m] = tries[m]
        BY <1>0, <2>1
      <3> QED BY <1>0, <1>3, <2>1, <3>1 DEF Agree
    <2>2. CASE e.status \in {"SENT", "FAILED"} /\ row[m].status = "UNKNOWN"
               /\ tries'[m] = SetLast(tries[m], e.status) /\ (e.status = "SENT" => accepts[m] > 0)
      BY <1>0, <1>3, <2>2, AgreeLast
    <2>3. CASE tries' = [tries EXCEPT ![m] = SetLast(@, e.status)] /\ row[m].status = "UNKNOWN"
               /\ e.status \in {"SENT", "FAILED"} /\ (e.status = "SENT" => accepts[m] > 0)
      BY <1>0, <2>2, <2>3
    <2>4. CASE row[m].status = "UNKNOWN"
      <3>1. \/ UNCHANGED tries /\ e.status = row[m].status
            \/ /\ tries' = [tries EXCEPT ![m] = SetLast(@, e.status)]
               /\ e.status \in {"SENT", "FAILED"} /\ (e.status = "SENT" => accepts[m] > 0)
        BY <1>3, <2>4
      <3> QED BY <2>1, <2>3, <2>4, <3>1
    <2>5. CASE row[m].status # "UNKNOWN"
      BY <1>3, <2>1, <2>5
    <2> QED BY <2>4, <2>5
  <1>6. tries' \in [Messages -> Seq(Status)]
    BY <1>0, <1>3, <1>5
  <1>7. Story' /\ Budget' /\ Holders'
    <2>1. ASSUME NEW n \in Messages
          PROVE  /\ Agree(row'[n], tries'[n], accepts[n]) /\ row'[n].gen = row[n].gen
                 /\ row'[n].status = "PROCESSING" => row[n].status = "PROCESSING"
                 /\ \/ /\ unsent'[n] = unsent[n]
                       /\ row'[n].status \in Unclaimed => row[n].status \in Unclaimed
                    \/ unsent'[n] = unsent[n] + 1
      <3>1. CASE n = m
        BY <1>0, <1>3, <1>4, <1>5, <3>1 DEF Unclaimed
      <3>2. CASE n # m
        BY <1>0, <1>4, <3>2
      <3> QED BY <3>1, <3>2
    <2> QED BY <1>1, <1>4, <2>1, RowsMove
  <1> QED BY <1>1, <1>2, <1>4, <1>6, <1>7 DEF IInv, ChannelTypeOK

\* Time passes: only distances change.
LEMMA TickStep ==
    ASSUME IInv, Tick
    PROVE  IInv'
  <1>0. /\ row \in [Messages -> Delivery] /\ event \in [Messages -> EventRow]
        /\ \A n \in Messages : Agree(row[n], tries[n], accepts[n]) /\ accepts[n] \in Nat
    BY DEF IInv, ChannelTypeOK, Story
  <1>1. \A t \in Nat \cup {None} : Sooner(t) \in Nat \cup {None}
    BY DEF Sooner, None
  <1>2. ASSUME NEW n \in Messages
        PROVE  /\ row'[n] \in Delivery /\ row'[n].status = row[n].status /\ row'[n].gen = row[n].gen
               /\ event'[n] \in EventRow /\ event'[n].status = event[n].status
    <2>1. /\ row'[n] = [row[n] EXCEPT !.lease = Sooner(@), !.due = Sooner(@)]
          /\ event'[n] = [event[n] EXCEPT !.lease = Sooner(@)]
      BY DEF Tick
    <2>2. row[n] \in Delivery /\ event[n] \in EventRow
      BY <1>0
    <2>3. /\ Sooner(row[n].lease) \in Nat \cup {None} /\ Sooner(row[n].due) \in Nat \cup {None}
          /\ Sooner(event[n].lease) \in Nat \cup {None}
      BY <1>1, <2>2 DEF Delivery, EventRow
    <2>4. row'[n] \in Delivery /\ row'[n].status = row[n].status /\ row'[n].gen = row[n].gen
      BY <2>1, <2>2, <2>3 DEF Delivery
    <2>5. event'[n] \in EventRow /\ event'[n].status = event[n].status
      BY <2>1, <2>2, <2>3 DEF EventRow
    <2> QED BY <2>4, <2>5
  <1>3. row' \in [Messages -> Delivery] /\ event' \in [Messages -> EventRow]
    BY <1>2 DEF Tick
  <1>4. Story' /\ Budget' /\ Holders'
    <2>1. ASSUME NEW n \in Messages PROVE Agree(row'[n], tries'[n], accepts[n])
      <3>1. tries'[n] = tries[n] /\ accepts[n] \in Nat /\ accepts[n] >= accepts[n]
        <4>1. UNCHANGED tries
          BY DEF Tick
        <4> QED BY <1>0, <4>1
      <3> QED BY <1>0, <1>2, <3>1, AgreeSame
    <2>2. unsent' \in [Messages -> Nat] /\ UNCHANGED <<adapter, accepts, unsent>>
      BY DEF Tick, IInv, ChannelTypeOK
    <2> QED BY <1>2, <1>3, <2>1, <2>2, RowsMove
  <1>5. Starts'
    <2>1. Starts /\ UNCHANGED <<run, runs>>
      BY DEF Tick, IInv
    <2> QED BY <1>2, <2>1, InboxSame
  <1>6. faults' \in Nat
    <2>1. faults' = faults \/ faults' = faults + 1
      BY DEF Tick
    <2> QED BY <2>1 DEF IInv, ChannelTypeOK
  <1>7. UNCHANGED <<run, runs, bound, refused, tries, inbox, adapter, accepts, unsent>>
    BY DEF Tick
  <1> QED BY <1>3, <1>4, <1>5, <1>6, <1>7 DEF IInv, ChannelTypeOK

\* The request of an adapter for work: what is overdue becomes ambiguous, what is due is
\* claimed or turned down.
LEMMA PollStep ==
    ASSUME IInv, NEW a \in Adapters, Poll(a)
    PROVE  IInv'
  <1>0. /\ row \in [Messages -> Delivery] /\ tries \in [Messages -> Seq(Status)]
        /\ unsent \in [Messages -> Nat] /\ accepts \in [Messages -> Nat]
        /\ \A n \in Messages : Agree(row[n], tries[n], accepts[n])
    BY DEF IInv, ChannelTypeOK, Story
  <1>1. UNCHANGED <<refused, accepts, unsent, bound, faults, event, run, runs, inbox>>
    BY DEF Poll, PollFinds, PollDenies, PollClaims
  <1>2. Starts'
    BY <1>1, InboxSame DEF IInv
  <1>3. ASSUME NEW n \in Messages, row[n].status = "PROCESSING"
        PROVE  /\ Expired(row[n]) \in Delivery /\ Expired(row[n]).gen = row[n].gen
               /\ Expired(row[n]).status = "UNKNOWN"
               /\ Agree(Expired(row[n]), SetLast(tries[n], "UNKNOWN"), accepts[n])
               /\ SetLast(tries[n], "UNKNOWN") \in Seq(Status)
    <2>1. /\ Expired(row[n]) \in Delivery /\ Expired(row[n]).gen = row[n].gen
          /\ Expired(row[n]).status = "UNKNOWN"
      BY <1>0, Rows
    <2> QED BY <1>0, <1>3, <2>1, AgreeLast
  <1>4. PICK over \in SUBSET Messages :
          \/ \E limited \in BOOLEAN : PollFinds(a, over, limited)
          \/ \E m \in Messages : PollDenies(a, over, m) \/ PollClaims(a, over, m)
    BY SMTT(30) DEF Poll
  <1>5. over \subseteq {m \in Messages : row[m].status = "PROCESSING"}
    BY <1>4 DEF PollFinds, PollDenies, PollClaims, Expiring, Overdue
  <1>6. ASSUME NEW limited \in BOOLEAN, PollFinds(a, over, limited)
        PROVE  IInv'
    <2>1. \A n \in Messages :
            /\ row'[n] = IF n \in over THEN Expired(row[n]) ELSE row[n]
            /\ tries'[n] = IF n \in over THEN SetLast(tries[n], "UNKNOWN") ELSE tries[n]
      BY <1>6 DEF PollFinds
    <2>2. /\ row' \in [Messages -> Delivery] /\ tries' \in [Messages -> Seq(Status)]
          /\ UNCHANGED adapter
      BY <1>0, <1>3, <1>5, <1>6 DEF PollFinds
    <2>3. \A n \in Messages :
              /\ Agree(row'[n], tries'[n], accepts[n]) /\ row'[n].gen = row[n].gen
              /\ row'[n].status = "PROCESSING" => row[n].status = "PROCESSING"
              /\ row'[n].status \in Unclaimed => row[n].status \in Unclaimed
      BY <1>0, <1>3, <1>5, <2>1 DEF Unclaimed
    <2>4. Story' /\ Budget' /\ Holders'
      BY <1>0, <1>1, <2>2, <2>3, RowsMove
    <2> QED BY <1>1, <1>2, <2>2, <2>4 DEF IInv, ChannelTypeOK
  <1>7. ASSUME NEW m \in Messages, PollDenies(a, over, m)
        PROVE  IInv'
    <2> DEFINE e == [row[m] EXCEPT !.status = "FAILED", !.due = None]
    <2>0. e \in Delivery /\ e.gen = row[m].gen /\ e.status = "FAILED"
          /\ row[m].status \in {"PENDING", "FAILED"} /\ m \notin over
      BY <1>0, <1>5, <1>7 DEF PollDenies, Claimable, Delivery, Status
    <2>1. \A n \in Messages :
            /\ row'[n] = IF n \in over THEN Expired(row[n]) ELSE IF n = m THEN e ELSE row[n]
            /\ tries'[n] = IF n \in over THEN SetLast(tries[n], "UNKNOWN") ELSE tries[n]
      BY <1>7 DEF PollDenies
    <2>2. Agree(e, tries[m], accepts[m])
      BY <1>0, <2>0 DEF Agree
    <2>3. DOMAIN row' = Messages /\ DOMAIN tries' = Messages /\ UNCHANGED adapter
          /\ row' = [n \in Messages |-> row'[n]] /\ tries' = [n \in Messages |-> tries'[n]]
      BY <1>7 DEF PollDenies
    <2> HIDE DEF e
    <2>4. row' \in [Messages -> Delivery] /\ tries' \in [Messages -> Seq(Status)]
      <3>1. ASSUME NEW n \in Messages PROVE row'[n] \in Delivery /\ tries'[n] \in Seq(Status)
        <4>1. CASE n \in over  BY <1>3, <1>5, <2>1, <4>1
        <4>2. CASE n \notin over /\ n = m  BY <1>0, <2>0, <2>1, <4>2
        <4>3. CASE n \notin over /\ n # m  BY <1>0, <2>1, <4>3
        <4> QED  BY <4>1, <4>2, <4>3
      <3> QED  BY ONLY <2>3, <3>1
    <2>5. \A n \in Messages :
              /\ Agree(row'[n], tries'[n], accepts[n]) /\ row'[n].gen = row[n].gen
              /\ row'[n].status = "PROCESSING" => row[n].status = "PROCESSING"
              /\ row'[n].status \in Unclaimed => row[n].status \in Unclaimed
      BY <1>0, <1>3, <1>5, <2>0, <2>1, <2>2 DEF Unclaimed
    <2>6. Story' /\ Budget' /\ Holders'
      BY <1>0, <1>1, <2>3, <2>4, <2>5, RowsMove
    <2> QED BY <1>1, <1>2, <2>3, <2>4, <2>6 DEF IInv, ChannelTypeOK
  <1>8. ASSUME NEW m \in Messages, PollClaims(a, over, m)
        PROVE  IInv'
    <2>0. row[m].status \in Unclaimed /\ m \notin over /\ adapter[a] = Idle /\ TakenBy(a, m)
      BY <1>5, <1>8 DEF PollClaims, Claimable, Unclaimed
    <2>1. \A n \in Messages :
            /\ row'[n] = IF n \in over THEN Expired(row[n])
                         ELSE IF n = m THEN Claimed(row[n]) ELSE row[n]
            /\ tries'[n] = IF n \in over THEN SetLast(tries[n], "UNKNOWN")
                           ELSE IF n = m THEN Append(tries[n], "PROCESSING") ELSE tries[n]
      BY <1>8 DEF PollClaims
    <2>2. Claimed(row[m]) \in Delivery /\ Append(tries[m], "PROCESSING") \in Seq(Status)
      BY <1>0, <2>0, AgreeClaimed
    <2>3. row' = [n \in Messages |-> row'[n]] /\ tries' = [n \in Messages |-> tries'[n]]
      BY <1>8 DEF PollClaims
    <2>4. row' \in [Messages -> Delivery] /\ tries' \in [Messages -> Seq(Status)]
      <3>1. ASSUME NEW n \in Messages PROVE row'[n] \in Delivery /\ tries'[n] \in Seq(Status)
        <4>1. CASE n \in over  BY <1>3, <1>5, <2>1, <4>1
        <4>2. CASE n \notin over /\ n = m  BY <2>1, <2>2, <4>2
        <4>3. CASE n \notin over /\ n # m  BY <1>0, <2>1, <4>3
        <4> QED  BY <4>1, <4>2, <4>3
      <3> QED  BY ONLY <2>3, <3>1
    <2>5. Story' /\ Budget' /\ Holders'
      BY <1>1, <1>5, <2>0, <2>1, <2>4, ClaimStep
    <2>6. adapter' \in [Adapters -> {Idle} \cup [at : {"claimed"} \cup Heard, of : Messages,
                                                token : Nat]]
      BY <1>0, <2>0 DEF TakenBy, Delivery, IInv, ChannelTypeOK
    <2> QED BY <1>1, <1>2, <2>4, <2>5, <2>6 DEF IInv, ChannelTypeOK
  <1> QED BY <1>4, <1>6, <1>7, <1>8

LEMMA BridgeStep ==
    ASSUME IInv, NEW a \in Adapters, NEW m \in Messages, BridgePrepares(a, m)
    PROVE  IInv'
  <1>0. /\ row \in [Messages -> Delivery] /\ tries \in [Messages -> Seq(Status)]
        /\ accepts \in [Messages -> Nat]
        /\ \A n \in Messages : Agree(row[n], tries[n], accepts[n])
    BY DEF IInv, ChannelTypeOK, Story
  <1>1. /\ UNCHANGED <<refused, accepts, unsent, bound, faults, event, run, runs, inbox>>
        /\ row[m].status \in Unclaimed /\ adapter[a] = Idle /\ TakenBy(a, m)
        /\ row' = [row EXCEPT ![m] = Claimed(@)]
        /\ tries' = [tries EXCEPT ![m] = Append(@, "PROCESSING")]
    BY DEF BridgePrepares, Unclaimed
  <1>2. Starts'
    BY <1>1, InboxSame DEF IInv
  <1>3. Claimed(row[m]) \in Delivery /\ Append(tries[m], "PROCESSING") \in Seq(Status)
    BY <1>0, <1>1, AgreeClaimed
  <1>4. row' \in [Messages -> Delivery] /\ tries' \in [Messages -> Seq(Status)]
    BY <1>0, <1>1, <1>3
  <1>5. /\ row'[m] = Claimed(row[m]) /\ tries'[m] = Append(tries[m], "PROCESSING")
        /\ \A n \in Messages \ {m} : row'[n] = row[n] /\ tries'[n] = tries[n]
    BY <1>0, <1>1
  <1>6. Story' /\ Budget' /\ Holders'
    BY <1>1, <1>4, <1>5, ClaimStep
  <1>7. adapter' \in [Adapters -> {Idle} \cup [at : {"claimed"} \cup Heard, of : Messages,
                                              token : Nat]]
    BY <1>0, <1>1 DEF TakenBy, Delivery, IInv, ChannelTypeOK
  <1> QED BY <1>1, <1>2, <1>4, <1>6, <1>7 DEF IInv, ChannelTypeOK

\* The post, which the vendor takes or not.
LEMMA PostStep ==
    ASSUME IInv, NEW a \in Adapters, NEW heard \in Heard, NEW taken \in BOOLEAN,
           Post(a, heard, taken)
    PROVE  IInv'
  <1>1. PICK m \in Messages : m = adapter[a].of
    BY AdapterType DEF Post, IInv
  <1>2. /\ UNCHANGED <<refused, row, tries, unsent, bound, faults, event, run, runs, inbox>>
        /\ accepts' = [accepts EXCEPT ![m] = IF taken THEN @ + 1 ELSE @]
        /\ adapter' = [adapter EXCEPT ![a].at = heard]
        /\ heard = "receipt" => taken
        /\ taken => heard \in {"receipt", "ambiguous"}
        /\ adapter[a].at = "claimed"
    BY <1>1 DEF Post
  <1>3. Starts'
    BY <1>2, InboxSame DEF IInv
  <1>4. /\ adapter[a] \in [at : {"claimed"} \cup Heard, of : Messages, token : Nat]
        /\ adapter \in [Adapters -> {Idle} \cup [at : {"claimed"} \cup Heard, of : Messages,
                                                token : Nat]]
    BY <1>2, AdapterType DEF IInv, ChannelTypeOK
  <1>5. /\ adapter'[a].at = heard /\ adapter'[a].of = m /\ adapter'[a].token = adapter[a].token
        /\ adapter'[a] \in [at : {"claimed"} \cup Heard, of : Messages, token : Nat]
        /\ \A b \in Adapters \ {a} : adapter'[b] = adapter[b]
    BY <1>1, <1>2, <1>4
  <1>6. adapter' \in [Adapters -> {Idle} \cup [at : {"claimed"} \cup Heard, of : Messages,
                                              token : Nat]]
    BY <1>2, <1>4, <1>5
  <1>7. \A n \in Messages :
          /\ accepts[n] \in Nat /\ accepts'[n] \in Nat /\ accepts'[n] >= accepts[n]
          /\ n # m => accepts'[n] = accepts[n]
          /\ n = m /\ taken => accepts'[n] > 0
    BY <1>2 DEF IInv, ChannelTypeOK
  <1>8. accepts' \in [Messages -> Nat]
    BY <1>2 DEF IInv, ChannelTypeOK
  <1>9. \A n \in Messages :
          /\ Potential(n)' = IF n = m /\ ~taken THEN Potential(n) - 1 ELSE Potential(n)
          /\ Potential(n) \in Nat /\ unsent[n] \in Nat
    BY ZenonT(60), <1>1, PotentialPosted, PotentialType DEF IInv, ChannelTypeOK
  <1>10. Story'
    <2>1. ASSUME NEW n \in Messages PROVE Agree(row'[n], tries'[n], accepts'[n])
      BY <1>2, <1>7, AgreeSame DEF IInv, Story
    <2> QED BY <2>1 DEF Story
  <1>11. Budget'
    <2> SUFFICES ASSUME NEW n \in Messages
                 PROVE  /\ Potential(n)' <= unsent'[n] + 1
                        /\ row'[n].status \in Unclaimed => Potential(n)' <= unsent'[n]
      BY DEF Budget
    <2>1. Potential(n)' <= Potential(n)
      BY <1>9
    <2>2. Potential(n)' \in Int
      BY <1>9
    <2> QED BY <1>2, <1>9, <2>1, <2>2 DEF IInv, Budget
  <1>12. ASSUME NEW b \in Adapters, NEW n \in Messages PROVE HolderInv(b, n)'
    <2>1. HolderInv(b, n)
      BY DEF IInv, Holders
    <2>2. Potential(n) <= unsent[n] + 1
      BY DEF IInv, Budget
    <2>3. CASE b = a
      <3>1. CASE heard \in {"throttled", "rejected"}
        <4>1. ~taken
          BY <1>2, <3>1
        <4>2. n = m => Potential(n)' <= unsent[n]
          BY <1>9, <2>2, <4>1
        <4> QED BY <1>1, <1>2, <1>5, <2>1, <2>3, <3>1, <4>2 DEF HolderInv
      <3>2. CASE heard \notin {"throttled", "rejected"}
        BY <1>1, <1>2, <1>5, <1>7, <2>1, <2>3, <3>2 DEF HolderInv
      <3> QED BY <3>1, <3>2
    <2>4. CASE b # a
      <3>1. adapter'[b] = adapter[b] /\ row' = row /\ unsent' = unsent
        BY <1>2, <1>5, <2>4
      <3>2. /\ accepts[n] > 0 => accepts'[n] > 0
            /\ Potential(n) <= unsent[n] => Potential(n)' <= unsent[n]
        BY <1>7, <1>9
      <3> QED BY <2>1, <3>1, <3>2 DEF HolderInv
    <2> QED BY <2>3, <2>4
  <1> QED BY <1>2, <1>3, <1>6, <1>8, <1>10, <1>11, <1>12 DEF IInv, ChannelTypeOK, Holders

\* An adapter is done with a delivery: it reports, or it dies.
LEMMA ReportStep ==
    ASSUME IInv, NEW a \in Adapters,
           AdapterCrash(a) \/ \E heard \in Heard : Report(a, heard)
    PROVE  IInv'
  <1>1. PICK m \in Messages : m = adapter[a].of
    BY AdapterType DEF Report, AdapterCrash, Idle, IInv, ChannelTypeOK
  <1>2. /\ UNCHANGED <<refused, accepts, unsent, bound, event, run, runs, inbox>>
        /\ adapter' = [adapter EXCEPT ![a] = Idle] /\ adapter[a].at # "idle"
        /\ faults' \in Nat
    <2>1. /\ UNCHANGED <<refused, accepts, unsent, bound, event, run, runs, inbox>>
          /\ adapter' = [adapter EXCEPT ![a] = Idle] /\ adapter[a] # Idle
          /\ faults' \in {faults, faults + 1}
      BY DEF Report, AdapterCrash, Idle
    <2>2. adapter[a].at # "idle"
      BY <2>1 DEF IInv, ChannelTypeOK, Heard
    <2> QED BY <2>1, <2>2 DEF IInv, ChannelTypeOK
  <1>3. Starts'
    BY <1>2, InboxSame DEF IInv
  <1>4. /\ row[m] \in Delivery /\ tries[m] \in Seq(Status) /\ Agree(row[m], tries[m], accepts[m])
        /\ row \in [Messages -> Delivery] /\ tries \in [Messages -> Seq(Status)]
        /\ HolderInv(a, m) /\ accepts[m] \in Nat /\ unsent[m] \in Nat
    BY DEF IInv, ChannelTypeOK, Story, Holders
  <1>5. \/ UNCHANGED <<row, tries>>
        \/ \E e \in Delivery :
              /\ row' = [row EXCEPT ![m] = e] /\ e.gen = row[m].gen
              /\ tries' = [tries EXCEPT ![m] = SetLast(@, e.status)]
              /\ e.status \in {"SENT", "UNKNOWN", "FAILED"} /\ row[m].status = "PROCESSING"
              /\ e.status = "SENT" => accepts[m] > 0
              /\ e.status = "FAILED" => Potential(m) <= unsent[m]
    <2>1. CASE AdapterCrash(a) \/ ~Current(a)
      BY <2>1 DEF AdapterCrash, Report
    <2>2. ASSUME NEW heard \in Heard, Report(a, heard), Current(a)
          PROVE  \E e \in Delivery :
                    /\ row' = [row EXCEPT ![m] = e] /\ e.gen = row[m].gen
                    /\ tries' = [tries EXCEPT ![m] = SetLast(@, e.status)]
                    /\ e.status \in {"SENT", "UNKNOWN", "FAILED"} /\ row[m].status = "PROCESSING"
                    /\ e.status = "SENT" => accepts[m] > 0
                    /\ e.status = "FAILED" => Potential(m) <= unsent[m]
      <3> DEFINE e == Reported(row[m], heard)
      <3>1. /\ e \in Delivery /\ e.gen = row[m].gen
            /\ e.status = CASE heard = "receipt" -> "SENT" [] heard = "ambiguous" -> "UNKNOWN"
                            [] OTHER -> "FAILED"
        BY <1>4, Rows
      <3>2. /\ row' = [row EXCEPT ![m] = e] /\ tries' = [tries EXCEPT ![m] = SetLast(@, e.status)]
            /\ row[m].status = "PROCESSING" /\ row[m].gen = adapter[a].token
            /\ heard = adapter[a].at \/ (adapter[a].at = "receipt" /\ heard = "ambiguous")
        BY <1>1, <2>2 DEF Report, Current
      <3> HIDE DEF e
      <3>3. heard = "receipt" => accepts[m] > 0
        BY <1>1, <1>2, <1>4, <3>2 DEF HolderInv
      <3>4. heard \in {"throttled", "rejected"} => Potential(m) <= unsent[m]
        BY <1>1, <1>2, <1>4, <3>2 DEF HolderInv
      <3> QED BY <3>1, <3>2, <3>3, <3>4 DEF Heard
    <2> QED BY <2>1, <2>2
  <1>6. \A n \in Messages : /\ Potential(n)' <= Potential(n) /\ Potential(n)' \in Int
                            /\ Potential(n) \in Nat /\ unsent[n] \in Nat
    <2> TAKE n \in Messages
    <2>1. Cardinality(Pending(n)') \in Nat /\ accepts'[n] \in Nat /\ unsent[n] \in Nat
      BY <1>2, PendingFinite DEF IInv, ChannelTypeOK
    <2>2. Potential(n)' \in Int
      BY <2>1, PotentialAfter
    <2>3. Potential(n)' <= Potential(n) /\ Potential(n) \in Nat
      BY <1>2, PotentialFreed, PotentialType DEF IInv
    <2> QED BY <2>1, <2>2, <2>3
  <1>7. /\ row' \in [Messages -> Delivery] /\ tries' \in [Messages -> Seq(Status)]
        /\ \A n \in Messages :
              /\ Agree(row'[n], tries'[n], accepts[n]) /\ row'[n].gen = row[n].gen
              /\ row'[n].status = "PROCESSING" => row[n].status = "PROCESSING"
              /\ row'[n].status \in Unclaimed => Potential(n) <= unsent[n]
    <2>0. \A n \in Messages : Agree(row[n], tries[n], accepts[n])
                              /\ (row[n].status \in Unclaimed => Potential(n) <= unsent[n])
      BY DEF IInv, Story, Budget
    <2>1. CASE UNCHANGED <<row, tries>>
      BY <1>4, <2>0, <2>1
    <2>2. ASSUME NEW e \in Delivery,
                 row' = [row EXCEPT ![m] = e], e.gen = row[m].gen,
                 tries' = [tries EXCEPT ![m] = SetLast(@, e.status)],
                 e.status \in {"SENT", "UNKNOWN", "FAILED"}, row[m].status = "PROCESSING",
                 e.status = "SENT" => accepts[m] > 0,
                 e.status = "FAILED" => Potential(m) <= unsent[m]
          PROVE  <1>7!:
      <3>1. Agree(e, SetLast(tries[m], e.status), accepts[m])
            /\ SetLast(tries[m], e.status) \in Seq(Status)
        BY <1>4, <2>2, AgreeLast
      <3>2. /\ row' \in [Messages -> Delivery] /\ row'[m] = e
            /\ \A n \in Messages \ {m} : row'[n] = row[n]
        BY <1>4, <2>2
      <3>3. /\ tries' \in [Messages -> Seq(Status)] /\ tries'[m] = SetLast(tries[m], e.status)
            /\ \A n \in Messages \ {m} : tries'[n] = tries[n]
        BY <1>4, <2>2, <3>1
      <3>4. ASSUME NEW n \in Messages
            PROVE  /\ Agree(row'[n], tries'[n], accepts[n]) /\ row'[n].gen = row[n].gen
                   /\ row'[n].status = "PROCESSING" => row[n].status = "PROCESSING"
                   /\ row'[n].status \in Unclaimed => Potential(n) <= unsent[n]
        <4>1. CASE n = m
          BY <2>2, <3>1, <3>2, <3>3, <4>1 DEF Unclaimed
        <4>2. CASE n # m
          BY <2>0, <3>2, <3>3, <4>2
        <4> QED BY <4>1, <4>2
      <3> QED BY <3>2, <3>3, <3>4
    <2> QED BY <1>5, <2>1, <2>2
  <1>8. Story'
    BY <1>2, <1>7 DEF Story
  <1>9. Budget'
    BY <1>2, <1>6, <1>7 DEF IInv, Budget
  <1>10. ASSUME NEW b \in Adapters, NEW n \in Messages PROVE HolderInv(b, n)'
    <2>1. HolderInv(b, n)
      BY DEF IInv, Holders
    <2>2. CASE b = a
      BY <1>2, <2>2 DEF HolderInv, Idle, IInv, ChannelTypeOK
    <2>3. CASE b # a
      <3>1. adapter'[b] = adapter[b]
        BY <1>2, <2>3 DEF IInv, ChannelTypeOK
      <3> QED BY <1>2, <1>6, <1>7, <2>1, <3>1 DEF HolderInv
    <2> QED BY <2>2, <2>3
  <1>11. adapter' \in [Adapters -> {Idle} \cup [at : {"claimed"} \cup Heard, of : Messages,
                                               token : Nat]]
    BY <1>2 DEF IInv, ChannelTypeOK
  <1> QED BY <1>2, <1>3, <1>7, <1>8, <1>9, <1>10, <1>11 DEF IInv, ChannelTypeOK, Holders

LEMMA InvNext == IInv /\ [Next]_vars => IInv'
  <1> SUFFICES ASSUME IInv, [Next]_vars PROVE IInv'
    OBVIOUS
  <1>1. CASE UNCHANGED vars
    <2>1. Story' /\ Budget' /\ Holders'
      BY <1>1, OutboxSame
    <2>2. Starts'
      BY <1>1, InboxSame DEF IInv
    <2> QED BY <1>1, <2>1, <2>2 DEF IInv, ChannelTypeOK
  <1>2. CASE Next
    BY <1>2, InboxStep, RowStep, TickStep, PollStep, BridgeStep, PostStep, ReportStep
       DEF Next, Deliver
  <1> QED BY <1>1, <1>2

LEMMA Invariant == Spec => []IInv
  BY InvInit, InvNext, PTL DEF Spec

\* Rows, workers and adapters keep their types, and the attempts and leases of an
\* ImInboxEvent or ImDelivery their limits, for every number of claims, crashes and late
\* reports.
THEOREM ChannelTyped == Spec => []ChannelTypeOK
  BY Invariant, PTL DEF IInv

\* An ImDelivery and its ImDeliveryAttempt rows tell one story, whichever claim ran out and
\* whatever an adapter reported late, an administrator confirmed or a policy turned down.
THEOREM AttemptsAlwaysAgree == Spec => []AttemptsAgree
  <1>1. IInv => AttemptsAgree
    BY DEF IInv, Story, Agree, AttemptsAgree
  <1> QED BY <1>1, Invariant, PTL

\* The vendor accepts a message at most once, and once more for each confirmation of an
\* administrator that nothing was sent, however late adapters post; an ImInboxEvent starts at
\* most one Run, however many inbox workers there are and however often its claim runs out.
THEOREM MessageAcceptedOnce == Spec => []AcceptedOnce
  <1>1. IInv => AcceptedOnce
    <2> SUFFICES ASSUME IInv, NEW m \in Messages
                 PROVE  /\ accepts[m] <= 1 + unsent[m]
                        /\ m \in Claimable => accepts[m] <= unsent[m]
                        /\ m \in Trusted => /\ runs[m] <= 1
                                            /\ runs[m] = 1 <=> event[m].status = "ACCEPTED"
      BY DEF AcceptedOnce
    <2>1. /\ accepts[m] \in Nat /\ unsent[m] \in Nat /\ Cardinality(Pending(m)) \in Nat
      BY PendingFinite DEF IInv, ChannelTypeOK
    <2>2. accepts[m] <= Potential(m)
      BY <2>1 DEF Potential
    <2>3. Potential(m) \in Nat
      BY PotentialType DEF IInv
    <2>4. /\ Potential(m) <= unsent[m] + 1
          /\ row[m].status \in Unclaimed => Potential(m) <= unsent[m]
      BY DEF IInv, Budget
    <2>5. m \in Claimable => row[m].status \in Unclaimed
      BY DEF Claimable, Unclaimed
    <2>6. m \in Trusted => runs[m] <= 1 /\ (runs[m] = 1 <=> event[m].status = "ACCEPTED")
      BY DEF IInv, Starts, StartInv, Messages
    <2> QED BY <2>1, <2>2, <2>3, <2>4, <2>5, <2>6
  <1> QED BY <1>1, Invariant, PTL
=============================================================================
