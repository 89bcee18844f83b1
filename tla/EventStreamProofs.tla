------------------------- MODULE EventStreamProofs -------------------------
(***************************************************************************)
(* Theorems about EventStream, for every set of writers, requests,         *)
(* subscriptions and streams, every page size and every bound.             *)
(***************************************************************************)
EXTENDS EventStream, FiniteSetTheorems, TLAPS

USE DEF vars, writeVars, readVars

Seqs(events) == {e.seq : e \in events}

\* The committed log is finite and dense, an event that names the end is of a Run that
\* has ended, and the Run had no more events then than it has now.
Log ==
    /\ IsFiniteSet(store)
    /\ Seqs(store) = 1 .. Cardinality(store)
    /\ \A e \in store : e.end => terminal
    /\ ended <= Cardinality(store)

\* A transaction that has appended or ended the Run holds its row.
Holds(w) == tx[w].events # {} \/ tx[w].ends

\* The events of a transaction continue the committed log up to the version of the row.
TxInv(w) ==
    /\ ~tx[w].open => tx[w] = NoTx
    /\ IsFiniteSet(tx[w].events)
    /\ tx[w].events # {} => /\ Seqs(tx[w].events) = (Cardinality(store) + 1) .. version
                            /\ version > Cardinality(store)
                            /\ Cardinality(tx[w].events) = version - Cardinality(store)
    /\ \A e, f \in tx[w].events : e.seq = f.seq => e = f
    /\ \A e \in tx[w].events : e.by = tx[w].key /\ (e.end => tx[w].ends)
    /\ tx[w].ends => ~terminal
    /\ tx[w].again => tx[w].key # None
    /\ tx[w].key # None => \A e, f \in tx[w].events : e = f

Row ==
    /\ \A w \in Writers : TxInv(w)
    /\ \A v, w \in Writers : Holds(v) /\ Holds(w) => v = w
    /\ (\A w \in Writers : tx[w].events = {}) => version = Cardinality(store)

\* A client has a prefix of the log up to the cursor, and the page that is being sent goes
\* on from there; what is the last page of a subscription reaches the end of the Run.
PrefixInv(s) ==
    /\ \E k \in 0 .. Cardinality(store) :
          got[s] = 1 .. k /\ (reader[s].at # "off" => reader[s].cursor = k)
    /\ reader[s].at = "sending" =>
          \E k \in reader[s].cursor .. Cardinality(store) :
              /\ reader[s].batch = (reader[s].cursor + 1) .. k
              /\ reader[s].last /\ s \in Sockets => ended <= k
    /\ reader[s].at \in {"status", "sending"} /\ reader[s].last => terminal
    /\ reader[s].at = "status" => s \in Sockets
    /\ reader[s].at = "empty" => s \in Streams
    /\ reader[s].at = "over" => terminal /\ (s \in Sockets => ended <= reader[s].cursor)

Prefixes == \A s \in Readers : PrefixInv(s)

Effects(q) == {e \in store : e.by = q}

\* One transaction works for a request, with nothing recorded unless the record has lapsed.
RequestInv(q) ==
    /\ \A v, w \in Writers : tx[v].key = q /\ tx[w].key = q => v = w
    /\ \A w \in Writers : tx[w].key = q /\ ~tx[w].again => reply[q] = None
    /\ Cardinality(Effects(q)) <= 1 + lapses[q]
    /\ reply[q] = None => Effects(q) = {}
    /\ reply[q] > 0 => \E e \in Effects(q) : e.seq = reply[q]

Ledger == \A q \in Requests : RequestInv(q)

IInv == StreamTypeOK /\ Log /\ Row /\ Prefixes /\ Ledger
-----------------------------------------------------------------------------
(* Pages *)

LEMMA LogLength ==
    ASSUME Log
    PROVE  Cardinality(store) \in Nat
  BY FS_CardinalityType DEF Log

\* The length of a range
LEMMA RangeLength ==
    ASSUME NEW c \in Nat, NEW n \in Nat, c <= n
    PROVE  IsFiniteSet((c + 1) .. n) /\ Cardinality((c + 1) .. n) = n - c
  <1>1. c + 1 \in Int /\ n \in Int
    OBVIOUS
  <1>2. /\ IsFiniteSet((c + 1) .. n)
        /\ Cardinality((c + 1) .. n) = IF c + 1 > n THEN 0 ELSE n - (c + 1) + 1
    BY <1>1, FS_Interval
  <1> QED BY <1>2

\* A page goes on from the cursor, and one that is not full reaches the end of the log.
LEMMA PageIs ==
    ASSUME Log, NEW c \in 0 .. Cardinality(store)
    PROVE  \E k \in c .. Cardinality(store) :
              /\ Page(c) = (c + 1) .. k
              /\ CaughtUp(Page(c)) => k = Cardinality(store)
  <1> DEFINE N == Cardinality(store)
             k == IF N <= c + Batch THEN N ELSE c + Batch
  <1>1. N \in Nat /\ c \in Nat /\ c <= N /\ Batch \in Nat \ {0}
    BY LogLength, StreamAssumption
  <1>2. Later(c) = (c + 1) .. N
    BY <1>1 DEF Later, Log, Seqs
  <1> HIDE DEF N
  <1>3. ASSUME NEW n \in (c + 1) .. N
        PROVE  Cardinality({j \in Later(c) : j <= n}) = n - c
    <2>1. {j \in Later(c) : j <= n} = (c + 1) .. n
      BY <1>1, <1>2, <1>3
    <2>2. n \in Nat /\ c <= n
      BY <1>1, <1>3
    <2> QED BY <1>1, <2>1, <2>2, RangeLength
  <1>4. Page(c) = {n \in (c + 1) .. N : n - c <= Batch}
    BY <1>2, <1>3 DEF Page
  <1>5. k \in c .. N /\ Page(c) = (c + 1) .. k
    BY <1>1, <1>4
  <1>6. Cardinality((c + 1) .. k) = k - c
    <2>1. k \in Nat /\ c <= k
      BY <1>1, <1>5
    <2> HIDE DEF k
    <2> QED BY <1>1, <2>1, RangeLength
  <1>7. CaughtUp(Page(c)) => k = N
    BY <1>1, <1>5, <1>6 DEF CaughtUp
  <1> QED BY <1>5, <1>7 DEF N

LEMMA MinOfRange ==
    ASSUME NEW a \in Nat, NEW b \in Nat, a <= b
    PROVE  Min(a .. b) = a
  <1>1. a \in a .. b /\ \A y \in a .. b : a =< y
    OBVIOUS
  <1>2. \A x \in a .. b : (\A y \in a .. b : x =< y) => x = a
    BY <1>1
  <1> QED BY <1>1, <1>2 DEF Min

LEMMA MaxOfPrefix ==
    ASSUME NEW k \in Nat
    PROVE  Max((1 .. k) \cup {0}) = k
  <1> DEFINE S == (1 .. k) \cup {0}
  <1>1. k \in S /\ \A y \in S : k >= y
    OBVIOUS
  <1>2. \A x \in S : (\A y \in S : x >= y) => x = k
    BY <1>1
  <1> HIDE DEF S
  <1>3. Max(S) = k
    BY <1>1, <1>2 DEF Max
  <1> QED BY <1>3 DEF S
-----------------------------------------------------------------------------
(* Readers *)

\* Readers move and the log stands still.
LEMMA ReadersOnly ==
    ASSUME IInv, UNCHANGED writeVars
    PROVE  Log' /\ Row' /\ Ledger'
  BY ZenonT(60) DEF IInv, Log, Row, TxInv, Holds, Ledger, RequestInv, Effects

\* One reader changes.
LEMMA OneReader ==
    ASSUME IInv, UNCHANGED writeVars, NEW s \in Readers,
           NEW r \in [at : {"off", "idle", "status", "empty", "sending", "stalled", "over"},
                      cursor : Nat, batch : SUBSET Nat, last : BOOLEAN],
           NEW g \in SUBSET Nat,
           reader' = [reader EXCEPT ![s] = r], got' = [got EXCEPT ![s] = g],
           PrefixInv(s)'
    PROVE  IInv'
  <1>1. StreamTypeOK'
    BY DEF IInv, StreamTypeOK
  <1>2. ASSUME NEW t \in Readers, t # s PROVE PrefixInv(t)'
    <2>1. reader'[t] = reader[t] /\ got'[t] = got[t]
      BY <1>2 DEF IInv, StreamTypeOK
    <2>2. PrefixInv(t)
      BY DEF IInv, Prefixes
    <2> QED BY <2>1, <2>2 DEF PrefixInv
  <1> QED BY <1>1, <1>2, ReadersOnly DEF IInv, Prefixes

LEMMA ReaderStep ==
    ASSUME IInv, NEW s \in Readers, Connect(s) \/ Read(s) \/ Drop(s) \/ PollerDies(s)
    PROVE  IInv'
  <1> DEFINE N == Cardinality(store)
             R == [at : {"off", "idle", "status", "empty", "sending", "stalled", "over"},
                   cursor : Nat, batch : SUBSET Nat, last : BOOLEAN]
  <1>1. /\ N \in Nat /\ ended \in Nat /\ terminal \in BOOLEAN /\ ended <= N
        /\ reader \in [Readers -> R] /\ got \in [Readers -> SUBSET Nat]
        /\ reader[s] \in R /\ got[s] \in SUBSET Nat
    BY LogLength DEF IInv, StreamTypeOK, Log
  <1>2. PrefixInv(s)
    BY DEF IInv, Prefixes
  <1>3. PICK k \in 0 .. N : got[s] = 1 .. k /\ (reader[s].at # "off" => reader[s].cursor = k)
    BY <1>2 DEF PrefixInv
  <1> HIDE DEF N
  \* a reader that changes by SetReader alone
  <1>4. ASSUME NEW r \in R, SetReader(s, r),
               r.at # "off" => r.cursor = k,
               r.at = "sending" => \E j \in r.cursor .. N :
                                      /\ r.batch = (r.cursor + 1) .. j
                                      /\ r.last /\ s \in Sockets => ended <= j,
               r.at \in {"status", "sending"} /\ r.last => terminal,
               r.at = "status" => s \in Sockets, r.at = "empty" => s \in Streams,
               r.at = "over" => terminal /\ (s \in Sockets => ended <= r.cursor)
        PROVE  IInv'
    <2>1. /\ reader' = [reader EXCEPT ![s] = r] /\ got' = [got EXCEPT ![s] = got[s]]
          /\ UNCHANGED writeVars
      BY <1>1, <1>4 DEF SetReader
    <2>2. reader'[s] = r /\ got'[s] = got[s]
      BY <1>1, <2>1
    <2>3. PrefixInv(s)'
      BY <1>3, <1>4, <2>1, <2>2 DEF PrefixInv, N
    <2> QED BY <1>1, <2>1, <2>3, OneReader
  <1> HIDE DEF R
  <1>5. CASE Connect(s)
    <2> DEFINE r == [Off EXCEPT !.at = "idle", !.cursor = Max(got[s] \cup {0})]
    <2>1. Max(got[s] \cup {0}) = k /\ k \in Nat
      BY <1>1, <1>3, MaxOfPrefix
    <2>2. r \in R /\ r.at = "idle" /\ r.cursor = k
      BY <2>1 DEF Off, R
    <2>3. SetReader(s, r)
      BY <1>5 DEF Connect
    <2> HIDE DEF r
    <2> QED BY <1>4, <2>2, <2>3
  <1>6. CASE PollStatus(s)
    <2> DEFINE r == [reader[s] EXCEPT !.at = "status", !.last = terminal]
    <2>1. r \in R /\ r.at = "status" /\ r.cursor = reader[s].cursor /\ r.last = terminal
      BY <1>1 DEF R
    <2>2. SetReader(s, r) /\ s \in Sockets /\ reader[s].cursor = k
      BY <1>3, <1>6 DEF PollStatus
    <2> HIDE DEF r
    <2> QED BY <1>4, <2>1, <2>2
  <1>7. ASSUME reader[s].at # "off"
        PROVE  \E j \in k .. N : /\ Page(reader[s].cursor) = (k + 1) .. j
                                 /\ CaughtUp(Page(reader[s].cursor)) => j = N
    BY <1>3, <1>7, PageIs DEF IInv, N
  <1>8. CASE PollEvents(s)
    <2> DEFINE page == Page(reader[s].cursor)
               r == [reader[s] EXCEPT !.at = "sending", !.batch = page, !.last = @ /\ CaughtUp(page)]
    <2>1. PICK j \in k .. N : page = (k + 1) .. j /\ (CaughtUp(page) => j = N)
      BY <1>7, <1>8 DEF PollEvents
    <2>2. reader[s].cursor = k /\ s \in Sockets /\ (reader[s].last => terminal)
      BY <1>2, <1>3, <1>8 DEF PollEvents, PrefixInv
    <2>3. page \in SUBSET Nat
      BY <1>1, <2>1
    <2>4. SetReader(s, r)
      BY <1>8 DEF PollEvents
    <2> HIDE DEF page
    <2>5. /\ r \in R /\ r.at = "sending" /\ r.cursor = k /\ r.batch = page
          /\ r.last => terminal /\ CaughtUp(page)
      BY <1>1, <2>2, <2>3 DEF R, CaughtUp
    <2> HIDE DEF r
    <2>6. r.batch = (r.cursor + 1) .. j /\ (r.last => ended <= j)
      BY <1>1, <2>1, <2>5
    <2> QED BY <1>4, <2>1, <2>2, <2>4, <2>5, <2>6
  <1>9. CASE StreamEvents(s)
    <2> DEFINE page == Page(reader[s].cursor)
               r == [reader[s] EXCEPT !.at = IF page = {} THEN "empty" ELSE "sending",
                                      !.batch = page, !.last = Named(page)]
    <2>1. PICK j \in k .. N : page = (k + 1) .. j
      BY <1>7, <1>9 DEF StreamEvents
    <2>2. reader[s].cursor = k /\ s \in Streams /\ s \notin Sockets /\ SetReader(s, r)
      BY <1>3, <1>9, StreamAssumption DEF StreamEvents
    <2>3. page \in SUBSET Nat
      BY <1>1, <2>1
    <2>4. Named(page) \in BOOLEAN /\ (Named(page) => terminal)
      BY DEF Named, IInv, Log
    <2> HIDE DEF page
    <2>5. /\ r \in R /\ r.at \in {"empty", "sending"} /\ r.cursor = k /\ r.batch = page
          /\ r.last => terminal
      BY <1>1, <2>2, <2>3, <2>4 DEF R
    <2> HIDE DEF r
    <2> QED BY <1>4, <2>1, <2>2, <2>5
  <1>10. CASE StreamStatus(s)
    <2> DEFINE r == [reader[s] EXCEPT !.at = IF terminal THEN "over" ELSE "idle"]
    <2>1. /\ SetReader(s, r) /\ reader[s].cursor = k /\ s \in Streams /\ s \notin Sockets
      BY <1>2, <1>3, <1>10, StreamAssumption DEF StreamStatus, PrefixInv
    <2>2. r \in R /\ r.at \in {"over", "idle"} /\ r.cursor = k /\ (r.at = "over" => terminal)
      BY <1>1, <2>1 DEF R
    <2> HIDE DEF r
    <2> QED BY <1>4, <2>1, <2>2
  <1>11. CASE Finish(s)
    <2> DEFINE r == [reader[s] EXCEPT !.at = IF reader[s].last THEN "over" ELSE "idle"]
    <2>1. /\ SetReader(s, r) /\ reader[s].cursor = k /\ reader[s].batch = {}
          /\ reader[s].last => terminal
      BY <1>2, <1>3, <1>11 DEF Finish, PrefixInv
    <2>2. PICK j \in k .. N : /\ reader[s].batch = (k + 1) .. j
                              /\ reader[s].last /\ s \in Sockets => ended <= j
      BY <1>2, <1>11, <2>1 DEF Finish, PrefixInv, N
    <2>3. j = k
      <3>1. k \in Int /\ j \in Int /\ k <= j
        BY <1>1
      <3>2. k + 1 \notin (k + 1) .. j
        BY <2>1, <2>2
      <3> QED BY <3>1, <3>2
    <2>4. /\ r \in R /\ r.at \in {"over", "idle"} /\ r.cursor = k
          /\ r.at = "over" => reader[s].last
      BY <1>1, <2>1 DEF R
    <2> HIDE DEF r
    <2> QED BY <1>4, <2>1, <2>2, <2>3, <2>4
  <1>12. CASE Drop(s)
    <2>1. Off \in R /\ Off.at = "off" /\ SetReader(s, Off)
      BY <1>12 DEF Off, R, Drop
    <2> QED BY <1>4, <2>1
  <1>14. CASE PollerDies(s)
    <2> DEFINE r == [reader[s] EXCEPT !.at = "stalled", !.batch = {}, !.last = FALSE]
    <2>1. SetReader(s, r) /\ reader[s].at # "off"
      BY <1>14 DEF PollerDies
    <2>2. r \in R /\ r.at = "stalled" /\ r.cursor = k
      BY <1>1, <1>3, <2>1 DEF R
    <2> HIDE DEF r
    <2> QED BY <1>4, <2>1, <2>2
  <1>13. CASE Send(s)
    <2> DEFINE n == Min(reader[s].batch)
               r == [reader[s] EXCEPT !.cursor = n, !.batch = @ \ {n}]
    <2>1. reader[s].cursor = k /\ reader[s].at = "sending" /\ reader[s].batch # {}
      BY <1>3, <1>13 DEF Send
    <2>2. PICK j \in k .. N : /\ reader[s].batch = (k + 1) .. j
                              /\ reader[s].last /\ s \in Sockets => ended <= j
      BY <1>2, <2>1 DEF PrefixInv, N
    <2>3. k + 1 <= j /\ k \in Nat /\ j \in Nat
      BY <1>1, <2>1, <2>2
    <2>4. n = k + 1
      BY <2>2, <2>3, MinOfRange
    <2>5. /\ reader' = [reader EXCEPT ![s] = r] /\ got' = [got EXCEPT ![s] = got[s] \cup {n}]
          /\ UNCHANGED writeVars
      <3>1. /\ reader' = [reader EXCEPT ![s].cursor = n, ![s].batch = @ \ {n}]
            /\ got' = [got EXCEPT ![s] = @ \cup {n}] /\ UNCHANGED writeVars
        BY <1>13 DEF Send
      <3> HIDE DEF n
      <3> QED BY <1>1, <3>1
    <2> HIDE DEF n
    <2>6. /\ r \in R /\ r.at = "sending" /\ r.cursor = n /\ r.batch = reader[s].batch \ {n}
          /\ r.last = reader[s].last
      <3>1. n \in Nat /\ reader[s].batch \ {n} \in SUBSET Nat
        BY <1>1, <2>3, <2>4 DEF R
      <3> QED BY <1>1, <2>1, <3>1 DEF R
    <2> HIDE DEF r
    <2>7. got[s] \cup {n} = 1 .. n /\ r.batch = (n + 1) .. j /\ n \in 0 .. N /\ j \in n .. N
          /\ got[s] \cup {n} \in SUBSET Nat
      BY <1>1, <1>3, <2>2, <2>3, <2>4, <2>6
    <2>8. reader'[s] = r /\ got'[s] = got[s] \cup {n}
      BY <1>1, <2>5
    <2>9. r.last => terminal /\ (s \in Sockets => ended <= j)
      BY <1>2, <2>1, <2>2, <2>6 DEF PrefixInv
    <2>10. PrefixInv(s)'
      BY <2>5, <2>6, <2>7, <2>8, <2>9 DEF PrefixInv, N
    <2> QED BY <2>5, <2>6, <2>7, <2>10, OneReader DEF R
  <1> QED BY <1>5, <1>6, <1>8, <1>9, <1>10, <1>11, <1>12, <1>13, <1>14 DEF Read
-----------------------------------------------------------------------------
(* Transactions *)

TxType == [open : BOOLEAN, key : Requests \cup {None}, again : BOOLEAN,
           events : SUBSET Event, ends : BOOLEAN]

\* The transactions that a writer does not work on keep their part of the invariant,
\* since they hold nothing or nothing they depend on changes.
LEMMA OtherTx ==
    ASSUME IInv, NEW w \in Writers, NEW x \in TxType, tx' = [tx EXCEPT ![w] = x],
           \/ \A v \in Writers : v # w => ~Holds(v)
           \/ UNCHANGED <<version, store, terminal>>,
           NEW v \in Writers, v # w
    PROVE  tx'[v] = tx[v] /\ TxInv(v)'
  <1>1. tx'[v] = tx[v]
    BY DEF IInv, StreamTypeOK
  <1>2. TxInv(v)
    BY DEF IInv, Row
  <1>3. CASE UNCHANGED <<version, store, terminal>>
    BY <1>1, <1>2, <1>3 DEF TxInv
  <1>4. CASE ~Holds(v)
    BY <1>1, <1>2, <1>4 DEF TxInv, Holds
  <1> QED BY <1>1, <1>3, <1>4

\* A step of a transaction that has not ended with it: the log stands still.
LEMMA TxStep ==
    ASSUME IInv, NEW w \in Writers, NEW x \in TxType, tx' = [tx EXCEPT ![w] = x],
           UNCHANGED <<terminal, ended, store, reply, lapses, reader, got>>,
           version' \in Nat, TxInv(w)',
           \/ \A v \in Writers : v # w => ~Holds(v)
           \/ version' = version /\ (x.events # {} \/ x.ends => Holds(w)),
           \/ x.events # {}
           \/ \E v \in Writers : v # w /\ tx[v].events # {}
           \/ version' = Cardinality(store),
           \A q \in Requests : x.key = q =>
               \/ tx[w].key = q /\ x.again = tx[w].again
               \/ (\A v \in Writers : tx[v].key # q) /\ (x.again \/ reply[q] = None)
    PROVE  IInv'
  <1>1. tx'[w] = x /\ tx \in [Writers -> TxType]
    BY DEF IInv, StreamTypeOK, TxType
  <1>2. StreamTypeOK'
    BY <1>1 DEF IInv, StreamTypeOK, TxType
  <1>3. Log' /\ Prefixes'
    BY DEF IInv, Log, Prefixes, PrefixInv
  <1>4. ASSUME NEW v \in Writers, v # w PROVE tx'[v] = tx[v] /\ TxInv(v)'
    BY <1>4, OtherTx
  <1>5. Row'
    <2>1. \A v \in Writers : TxInv(v)'
      BY <1>4
    <2>2. ASSUME NEW u \in Writers, NEW v \in Writers, Holds(u)', Holds(v)' PROVE u = v
      <3>1. \A a \in Writers : a # w => (Holds(a)' <=> Holds(a))
        BY <1>4 DEF Holds
      <3>2. Holds(w)' <=> (x.events # {} \/ x.ends)
        BY <1>1 DEF Holds
      <3>3. \A a, b \in Writers : Holds(a) /\ Holds(b) => a = b
        BY DEF IInv, Row
      <3> QED BY <2>2, <3>1, <3>2, <3>3
    <2>3. (\A v \in Writers : tx'[v].events = {}) => version' = Cardinality(store)
      BY <1>1, <1>4
    <2> QED BY <2>1, <2>2, <2>3 DEF Row
  <1>6. ASSUME NEW q \in Requests PROVE RequestInv(q)'
    <2>1. RequestInv(q)
      BY DEF IInv, Ledger
    <2>2. Effects(q)' = Effects(q)
      BY DEF Effects
    <2>3. \A a, b \in Writers : tx'[a].key = q /\ tx'[b].key = q => a = b
      BY <1>1, <1>4, <2>1 DEF RequestInv
    <2>4. \A a \in Writers : tx'[a].key = q /\ ~tx'[a].again => reply[q] = None
      BY <1>1, <1>4, <2>1 DEF RequestInv
    <2> QED BY <2>1, <2>2, <2>3, <2>4 DEF RequestInv
  <1> QED BY <1>2, <1>3, <1>5, <1>6 DEF IInv, Ledger

\* What the steps of a transaction start from
LEMMA TxFacts ==
    ASSUME IInv, NEW w \in Writers
    PROVE  /\ Cardinality(store) \in Nat /\ version \in Nat /\ terminal \in BOOLEAN
           /\ tx \in [Writers -> TxType] /\ tx[w] \in TxType /\ TxInv(w)
           /\ \A v \in Writers : v # w /\ Holds(w) => ~Holds(v)
           /\ (\A v \in Writers : tx[v].events = {}) => version = Cardinality(store)
  BY LogLength DEF IInv, StreamTypeOK, Row, TxType

LEMMA OpenStep ==
    ASSUME IInv, NEW w \in Writers,
           Begin(w) \/ (\E q \in Requests : Claim(w, q) \/ ClaimLapsed(w, q))
    PROVE  IInv'
  <1>1. ~tx[w].open
    BY DEF Begin, Claim, ClaimLapsed
  <1>2. /\ tx \in [Writers -> TxType] /\ tx[w] \in TxType
        /\ tx[w].events = {} /\ ~tx[w].ends /\ ~tx[w].again /\ tx[w].key = None
    BY <1>1, TxFacts DEF TxInv, NoTx
  <1>3. UNCHANGED <<terminal, ended, version, store, reply, lapses, reader, got>>
    BY DEF Begin, Claim, ClaimLapsed
  <1>4. ASSUME NEW x \in TxType, tx' = [tx EXCEPT ![w] = x],
               x.open, x.events = {}, ~x.ends, x.again => x.key # None,
               x.key # None => (\A v \in Writers : tx[v].key # x.key) /\ (x.again \/ reply[x.key] = None)
        PROVE  IInv'
    <2>1. tx'[w] = x
      BY <1>2, <1>4
    <2>2. TxInv(w)'
      <3>1. IsFiniteSet({})
        BY FS_EmptySet
      <3> QED BY <1>4, <2>1, <3>1 DEF TxInv
    <2>3. \/ x.events # {}
          \/ \E v \in Writers : v # w /\ tx[v].events # {}
          \/ version' = Cardinality(store)
      BY <1>2, <1>3, TxFacts
    <2>4. \A p \in Requests : x.key = p =>
               \/ tx[w].key = p /\ x.again = tx[w].again
               \/ (\A v \in Writers : tx[v].key # p) /\ (x.again \/ reply[p] = None)
      BY <1>4, StreamAssumption
    <2>5. version' \in Nat
      BY <1>3, TxFacts
    <2> QED BY <1>3, <1>4, <2>1, <2>2, <2>3, <2>4, <2>5, TxStep
  <1>5. CASE Begin(w)
    <2> DEFINE x == [tx[w] EXCEPT !.open = TRUE]
    <2>1. tx' = [tx EXCEPT ![w] = x]
      BY <1>2, <1>5 DEF Begin
    <2>2. x \in TxType /\ x.open /\ x.events = {} /\ ~x.ends /\ ~x.again /\ x.key = None
      BY <1>2 DEF TxType
    <2> HIDE DEF x
    <2> QED BY <1>4, <2>1, <2>2
  <1>6. ASSUME NEW q \in Requests, Claim(w, q) PROVE IInv'
    <2> DEFINE x == [tx[w] EXCEPT !.open = TRUE, !.key = q]
    <2>1. tx' = [tx EXCEPT ![w] = x]
      <3>1. tx' = [tx EXCEPT ![w].open = TRUE, ![w].key = q]
        BY <1>6 DEF Claim
      <3> QED BY <1>2, <3>1
    <2>2. x \in TxType /\ x.open /\ x.events = {} /\ ~x.ends /\ ~x.again /\ x.key = q
      BY <1>2 DEF TxType
    <2>3. reply[q] = None /\ \A v \in Writers : tx[v].key # q
      BY <1>6 DEF Claim, Claims
    <2> HIDE DEF x
    <2> QED BY <1>4, <2>1, <2>2, <2>3
  <1>7. ASSUME NEW q \in Requests, ClaimLapsed(w, q) PROVE IInv'
    <2> DEFINE x == [tx[w] EXCEPT !.open = TRUE, !.key = q, !.again = TRUE]
    <2>1. tx' = [tx EXCEPT ![w] = x]
      <3>1. tx' = [tx EXCEPT ![w].open = TRUE, ![w].key = q, ![w].again = TRUE]
        BY <1>7 DEF ClaimLapsed
      <3> QED BY <1>2, <3>1
    <2>2. x \in TxType /\ x.open /\ x.events = {} /\ ~x.ends /\ x.again /\ x.key = q
      BY <1>2 DEF TxType
    <2>3. q # None /\ \A v \in Writers : tx[v].key # q
      BY <1>7, StreamAssumption DEF ClaimLapsed
    <2> HIDE DEF x
    <2> QED BY <1>4, <2>1, <2>2, <2>3
  <1> QED BY <1>5, <1>6, <1>7

\* Nobody else holds the row that a transaction may take.
LEMMA FreeRow ==
    ASSUME IInv, NEW w \in Writers, Free(w)
    PROVE  /\ \A v \in Writers : v # w => ~Holds(v)
           /\ tx[w].events = {} => version = Cardinality(store)
  <1>1. \A v \in Writers : v # w => ~Holds(v) /\ tx[v].events = {}
    BY DEF Free, Holds
  <1> QED BY <1>1, TxFacts

\* One more event of a transaction
LEMMA GrowStep ==
    ASSUME IInv, NEW w \in Writers, Free(w), tx[w].open,
           tx[w].key = None \/ tx[w].events = {},
           NEW end \in BOOLEAN, NEW x \in TxType, tx' = [tx EXCEPT ![w] = x],
           x.open, x.key = tx[w].key, x.again = tx[w].again,
           x.events = tx[w].events \cup {[seq |-> version + 1, by |-> tx[w].key, end |-> end]},
           x.ends = (tx[w].ends \/ end), end => ~terminal,
           version' = version + 1,
           UNCHANGED <<terminal, ended, store, reply, lapses, reader, got>>
    PROVE  IInv'
  <1> DEFINE N == Cardinality(store)
             e == [seq |-> version + 1, by |-> tx[w].key, end |-> end]
             E == tx[w].events
  <1>1. /\ N \in Nat /\ version \in Nat /\ terminal \in BOOLEAN /\ tx[w] \in TxType
        /\ tx \in [Writers -> TxType] /\ TxInv(w)
    BY TxFacts
  <1>2. /\ \A v \in Writers : v # w => ~Holds(v)
        /\ E = {} => version = N
    BY FreeRow
  <1>3. /\ IsFiniteSet(E) /\ (E # {} => Seqs(E) = (N + 1) .. version /\ version > N
                                       /\ Cardinality(E) = version - N)
        /\ \A f, g \in E : f.seq = g.seq => f = g
        /\ \A f \in E : f.by = tx[w].key /\ (f.end => tx[w].ends)
        /\ tx[w].ends => ~terminal
        /\ tx[w].again => tx[w].key # None
    BY <1>1 DEF TxInv
  <1>4. e.seq = version + 1 /\ e.by = tx[w].key /\ e.end = end /\ x.events = E \cup {e}
    OBVIOUS
  <1> HIDE DEF N, e, E
  <1>0. N \in Nat /\ version \in Nat
    BY <1>1
  <1>5. Seqs(E) = (N + 1) .. version /\ version >= N /\ Cardinality(E) = version - N
    <2>1. CASE E # {}
      BY <1>1, <1>3, <2>1
    <2>2. CASE E = {}
      <3>1. Cardinality(E) = 0 /\ Seqs(E) = {}
        BY <2>2, FS_EmptySet DEF Seqs
      <3>2. version = N
        BY <1>2, <2>2
      <3>3. (N + 1) .. N = {} /\ N >= N /\ N - N = 0
        BY <1>0
      <3> QED BY <3>1, <3>2, <3>3
    <2> QED BY <2>1, <2>2
  <1>6. \A f \in E : f.seq \in (N + 1) .. version
    BY <1>5 DEF Seqs
  <1>7. e \notin E
    BY <1>1, <1>4, <1>6
  <1>8. /\ IsFiniteSet(x.events) /\ Cardinality(x.events) = (version + 1) - N
    <2>1. IsFiniteSet(E \cup {e}) /\ Cardinality(E \cup {e}) = Cardinality(E) + 1
      BY <1>3, <1>7, FS_AddElement
    <2>2. (version - N) + 1 = (version + 1) - N
      BY <1>0
    <2> QED BY <1>4, <1>5, <2>1, <2>2
  <1>9. Seqs(x.events) = (N + 1) .. (version + 1)
    <2>1. Seqs(E \cup {e}) = Seqs(E) \cup {version + 1}
      BY <1>4 DEF Seqs
    <2>2. ((N + 1) .. version) \cup {version + 1} = (N + 1) .. (version + 1)
      BY <1>0, <1>5
    <2> QED BY <1>4, <1>5, <2>1, <2>2
  <1>10. \A f, g \in x.events : f.seq = g.seq => f = g
    <2>1. \A f \in E : f.seq # version + 1
      BY <1>1, <1>6
    <2> QED BY <1>3, <1>4, <2>1
  <1>11. \A f \in x.events : f.by = x.key /\ (f.end => x.ends)
    BY <1>3, <1>4
  <1>12. x.key # None => \A f, g \in x.events : f = g
    BY <1>4 DEF E
  <1>13. tx'[w] = x
    BY <1>1
  <1>14. TxInv(w)'
    <2>1. version + 1 > N /\ Cardinality(store') = N
      BY <1>1, <1>5 DEF N
    <2>2. x.ends => ~terminal
      BY <1>3
    <2>3. x.again => x.key # None
      BY <1>3
    <2>4. /\ Seqs(x.events) = (Cardinality(store') + 1) .. version'
          /\ version' > Cardinality(store')
          /\ Cardinality(x.events) = version' - Cardinality(store')
      <3>1. version' = version + 1
        OBVIOUS
      <3>2. Seqs(x.events) = (Cardinality(store') + 1) .. version'
        BY <1>9, <2>1, <3>1, Zenon
      <3>3. Cardinality(x.events) = version' - Cardinality(store')
        BY <1>8, <2>1, <3>1, Zenon
      <3>4. version' > Cardinality(store')
        BY <2>1, <3>1, Zenon
      <3> QED BY <3>2, <3>3, <3>4
    <2> QED BY <1>8, <1>10, <1>11, <1>12, <1>13, <2>2, <2>3, <2>4 DEF TxInv
  <1>15. \A p \in Requests : x.key = p => tx[w].key = p /\ x.again = tx[w].again
    OBVIOUS
  <1>16. x.events # {} /\ version' \in Nat
    BY <1>1, <1>4
  <1> QED BY <1>2, <1>14, <1>15, <1>16, TxStep

LEMMA AppendStep ==
    ASSUME IInv, NEW w \in Writers, Append1(w)
    PROVE  IInv'
  <1> DEFINE e == [seq |-> version + 1, by |-> tx[w].key, end |-> FALSE]
             x == [tx[w] EXCEPT !.events = @ \cup {e}]
  <1>1. /\ Free(w) /\ tx[w].open /\ (tx[w].key = None \/ tx[w].events = {})
        /\ version' = version + 1
        /\ tx' = [tx EXCEPT ![w].events = @ \cup {e}]
        /\ UNCHANGED <<terminal, ended, store, reply, lapses, reader, got>>
    BY DEF Append1
  <1>2. /\ tx \in [Writers -> TxType] /\ tx[w] \in TxType /\ version \in Nat
    BY TxFacts
  <1>3. e \in Event
    BY <1>2 DEF Event, TxType
  <1>4. tx' = [tx EXCEPT ![w] = x]
    BY <1>1, <1>2
  <1> HIDE DEF e
  <1>5. /\ x \in TxType /\ x.open = tx[w].open /\ x.key = tx[w].key /\ x.again = tx[w].again
        /\ x.events = tx[w].events \cup {e} /\ x.ends = tx[w].ends
    BY <1>2, <1>3 DEF TxType
  <1> HIDE DEF x
  <1>6. x.ends = (tx[w].ends \/ FALSE)
    BY <1>2, <1>5 DEF TxType
  <1> QED BY <1>1, <1>4, <1>5, <1>6, GrowStep DEF e

LEMMA EndStep ==
    ASSUME IInv, NEW w \in Writers, NEW named \in BOOLEAN, EndRun(w, named)
    PROVE  IInv'
  <1> DEFINE e == [seq |-> version + 1, by |-> tx[w].key, end |-> TRUE]
             x == [tx[w] EXCEPT !.ends = TRUE, !.events = @ \cup {f \in {e} : named}]
  <1>1. /\ Free(w) /\ tx[w].open /\ ~terminal /\ ~tx[w].ends
        /\ tx[w].key = None \/ tx[w].events = {} \/ ~named
        /\ version' = IF named THEN version + 1 ELSE version
        /\ tx' = [tx EXCEPT ![w].ends = TRUE, ![w].events = @ \cup {f \in {e} : named}]
        /\ UNCHANGED <<terminal, ended, store, reply, lapses, reader, got>>
    BY DEF EndRun
  <1>2. /\ tx \in [Writers -> TxType] /\ tx[w] \in TxType /\ version \in Nat /\ TxInv(w)
    BY TxFacts
  <1>3. e \in Event
    BY <1>2 DEF Event, TxType
  <1>4. tx' = [tx EXCEPT ![w] = x]
    BY <1>1, <1>2
  <1> HIDE DEF e
  <1>5. /\ x \in TxType /\ x.open = tx[w].open /\ x.key = tx[w].key /\ x.again = tx[w].again
        /\ x.events = tx[w].events \cup {f \in {e} : named} /\ x.ends
    BY <1>2, <1>3 DEF TxType
  <1> HIDE DEF x
  <1>6. CASE named
    <2>1. x.events = tx[w].events \cup {e}
      BY <1>5, <1>6
    <2>2. x.ends = (tx[w].ends \/ TRUE)
      BY <1>5 DEF TxType
    <2> QED BY <1>1, <1>4, <1>5, <1>6, <2>1, <2>2, GrowStep DEF e
  <1>7. CASE ~named
    <2>1. x.events = tx[w].events /\ version' = version
      BY <1>1, <1>5, <1>7
    <2>2. tx'[w] = x
      BY <1>2, <1>4
    <2>3. TxInv(w)'
      BY ZenonT(60), <1>1, <1>2, <1>5, <2>1, <2>2 DEF TxInv
    <2>4. /\ \A v \in Writers : v # w => ~Holds(v)
          /\ tx[w].events = {} => version = Cardinality(store)
      BY <1>1, FreeRow
    <2> QED BY ZenonT(60), <1>1, <1>2, <1>4, <1>5, <2>1, <2>3, <2>4, TxStep
  <1> QED BY <1>6, <1>7

LEMMA RollbackStep ==
    ASSUME IInv, NEW w \in Writers, Rollback(w)
    PROVE  IInv'
  <1>1. /\ tx' = [tx EXCEPT ![w] = NoTx]
        /\ version' = version - Cardinality(tx[w].events)
        /\ UNCHANGED <<terminal, ended, store, reply, lapses, reader, got>>
    BY DEF Rollback
  <1>2. /\ tx \in [Writers -> TxType] /\ version \in Nat /\ Cardinality(store) \in Nat
        /\ TxInv(w)
        /\ \A v \in Writers : v # w /\ Holds(w) => ~Holds(v)
        /\ (\A v \in Writers : tx[v].events = {}) => version = Cardinality(store)
    BY TxFacts
  <1>3. /\ NoTx \in TxType /\ NoTx.events = {} /\ ~NoTx.ends /\ NoTx.key = None /\ ~NoTx.again
    BY DEF NoTx, TxType
  <1>4. Cardinality({}) = 0 /\ IsFiniteSet({})
    BY FS_EmptySet
  <1>5. TxInv(w)'
    <2>1. tx'[w] = NoTx
      BY <1>1, <1>2
    <2> QED BY <1>3, <1>4, <2>1 DEF TxInv
  <1>6. CASE tx[w].events = {}
    <2>1. version' = version
      BY <1>1, <1>2, <1>4, <1>6
    <2> QED BY <1>1, <1>2, <1>3, <1>5, <1>6, <2>1, StreamAssumption, TxStep
  <1>7. CASE tx[w].events # {}
    <2>1. Cardinality(tx[w].events) = version - Cardinality(store)
      BY <1>2, <1>7 DEF TxInv
    <2>2. version' = Cardinality(store)
      BY <1>1, <1>2, <2>1
    <2> QED BY <1>1, <1>2, <1>3, <1>5, <1>7, <2>2, StreamAssumption, TxStep DEF Holds
  <1> QED BY <1>6, <1>7

LEMMA CommitStep ==
    ASSUME IInv, NEW w \in Writers, Commit(w)
    PROVE  IInv'
  <1> DEFINE N == Cardinality(store)
             M == Cardinality(store')
             E == tx[w].events
             q == tx[w].key
  <1>1. /\ N \in Nat /\ version \in Nat /\ terminal \in BOOLEAN /\ tx[w] \in TxType
        /\ tx \in [Writers -> TxType] /\ TxInv(w)
        /\ \A v \in Writers : v # w /\ Holds(w) => ~Holds(v)
        /\ (\A v \in Writers : tx[v].events = {}) => version = N
    BY TxFacts
  <1>2. /\ store' = store \cup E
        /\ terminal' = (terminal \/ tx[w].ends)
        /\ ended' = IF tx[w].ends THEN M ELSE ended
        /\ tx' = [tx EXCEPT ![w] = NoTx]
        /\ version' = version /\ reader' = reader /\ got' = got
    BY DEF Commit
  <1>3. /\ reply' = IF q = None THEN reply
                    ELSE [reply EXCEPT ![q] = IF E = {} THEN -1 ELSE Min(Seqs(E))]
        /\ lapses' = IF tx[w].again THEN [lapses EXCEPT ![q] = @ + 1] ELSE lapses
    BY DEF Commit, Seqs
  <1>4. /\ IsFiniteSet(E) /\ (E # {} => /\ Seqs(E) = (N + 1) .. version
                                        /\ version > N
                                        /\ Cardinality(E) = version - N)
        /\ \A f, g \in E : f.seq = g.seq => f = g
        /\ \A f \in E : f.by = q /\ (f.end => tx[w].ends)
        /\ tx[w].ends => ~terminal
        /\ tx[w].again => q # None
        /\ q # None => \A f, g \in E : f = g
    BY <1>1 DEF TxInv
  <1>5. /\ IsFiniteSet(store) /\ Seqs(store) = 1 .. N
        /\ \A e \in store : e.end => terminal
        /\ ended <= N /\ ended \in Nat
        /\ store \subseteq Event /\ E \subseteq Event
        /\ \A e, f \in store : e.seq = f.seq => e = f
    BY <1>1 DEF IInv, Log, StreamTypeOK, TxType
  <1>6. NoTx \in TxType /\ NoTx.events = {} /\ ~NoTx.ends /\ NoTx.key = None /\ ~NoTx.again
    BY DEF NoTx, TxType
  <1>7. tx'[w] = NoTx
    BY <1>1, <1>2
  <1> HIDE DEF N, M, E, q
  <1>8. \A e \in store, f \in E : e.seq < f.seq
    <2>1. ASSUME NEW e \in store, NEW f \in E PROVE e.seq < f.seq
      <3>1. e.seq \in 1 .. N
        BY <1>5 DEF Seqs
      <3>2. f.seq \in (N + 1) .. version
        BY <1>4 DEF Seqs
      <3> QED BY <1>1, <3>1, <3>2
    <2> QED BY <2>1
  <1>9. /\ IsFiniteSet(store') /\ M \in Nat /\ N <= M
        /\ E = {} => M = N /\ store' = store
        /\ E # {} => M = version
    <2>1. CASE E = {}
      BY <1>1, <1>2, <1>5, <2>1 DEF M, N
    <2>2. CASE E # {}
      <3>1. store \cap E = {}
        <4>1. \A e \in store : e.seq \in Nat
          BY <1>5 DEF Event
        <4> QED BY <1>8, <4>1
      <3>2. IsFiniteSet(store \cup E)
            /\ Cardinality(store \cup E) = Cardinality(store) + Cardinality(E) - Cardinality(store \cap E)
        BY <1>4, <1>5, FS_Union
      <3>3. Cardinality(store \cap E) = 0
        BY <3>1, FS_EmptySet
      <3>4. Cardinality(E) = version - N /\ version > N
        BY <1>4, <2>2
      <3>5. M = N + ((version - N) - 0)
        BY <1>2, <3>2, <3>3, <3>4 DEF M, N
      <3> QED BY <1>1, <1>2, <2>2, <3>2, <3>4, <3>5
    <2> QED BY <2>1, <2>2
  <1>10. Log'
    <2>1. Seqs(store') = 1 .. M
      <3>1. Seqs(store') = Seqs(store) \cup Seqs(E)
        BY <1>2 DEF Seqs
      <3>2. CASE E = {}
        BY <1>5, <1>9, <3>2
      <3>3. CASE E # {}
        BY <1>1, <1>4, <1>5, <1>9, <3>1, <3>3
      <3> QED BY <3>2, <3>3
    <2>2. \A e \in store' : e.end => terminal'
      BY <1>2, <1>4, <1>5
    <2>3. ended' <= M
      BY <1>1, <1>2, <1>5, <1>9
    <2> QED BY <1>9, <2>1, <2>2, <2>3 DEF Log, M
  <1>11. \/ \A v \in Writers : v # w => ~Holds(v)
         \/ UNCHANGED <<version, store, terminal>>
    <2>1. CASE Holds(w)
      BY <1>1, <2>1
    <2>2. CASE ~Holds(w)
      <3>1. E = {} /\ ~tx[w].ends
        BY <2>2 DEF Holds, E
      <3> QED BY <1>1, <1>2, <1>9, <3>1
    <2> QED BY <2>1, <2>2
  <1>12. ASSUME NEW v \in Writers, v # w PROVE tx'[v] = tx[v] /\ TxInv(v)'
    BY <1>2, <1>6, <1>11, <1>12, OtherTx
  <1>13. Row'
    <2>1. TxInv(w)'
      <3>1. IsFiniteSet({})
        BY FS_EmptySet
      <3> QED BY <1>6, <1>7, <3>1 DEF TxInv
    <2>2. \A v \in Writers : TxInv(v)'
      BY <1>12, <2>1
    <2>3. ASSUME NEW u \in Writers, NEW v \in Writers, Holds(u)', Holds(v)' PROVE u = v
      <3>1. ~Holds(w)'
        BY <1>6, <1>7 DEF Holds
      <3>2. \A a \in Writers : a # w => (Holds(a)' <=> Holds(a))
        BY <1>12 DEF Holds
      <3>3. \A a, b \in Writers : Holds(a) /\ Holds(b) => a = b
        BY DEF IInv, Row
      <3> QED BY <2>3, <3>1, <3>2, <3>3
    <2>4. ASSUME \A v \in Writers : tx'[v].events = {} PROVE version' = M
      <3>1. \A v \in Writers : v # w => tx[v].events = {}
        BY <1>12, <2>4
      <3> QED BY <1>1, <1>2, <1>9, <3>1 DEF E
    <2> QED BY <2>2, <2>3, <2>4 DEF Row, M
  <1>14. ASSUME NEW s \in Readers PROVE PrefixInv(s)'
    <2>1. PrefixInv(s)
      BY DEF IInv, Prefixes
    <2>2. terminal => terminal' /\ ended' = ended
      BY <1>2, <1>4
    <2>3. reader'[s] = reader[s] /\ got'[s] = got[s]
      BY <1>2
    <2>4. reader[s].at # "off" => reader[s].cursor \in Nat
      BY DEF IInv, StreamTypeOK
    <2>5. \E k \in 0 .. M : got[s] = 1 .. k /\ (reader[s].at # "off" => reader[s].cursor = k)
      BY <1>1, <1>9, <2>1 DEF PrefixInv, N
    <2>6. reader[s].at = "sending" =>
          \E k \in reader[s].cursor .. M :
              /\ reader[s].batch = (reader[s].cursor + 1) .. k
              /\ reader[s].last /\ s \in Sockets => ended' <= k
      BY <1>1, <1>9, <2>1, <2>2, <2>4 DEF PrefixInv, N
    <2> QED BY <2>1, <2>2, <2>3, <2>5, <2>6 DEF PrefixInv, M
  <1>15. /\ reply \in [Requests -> Nat \cup {-1}] /\ lapses \in [Requests -> Nat]
         /\ q \in Requests \cup {None}
    BY <1>1 DEF IInv, StreamTypeOK, q, TxType
  <1>16. ASSUME E # {}, q # None
         PROVE  \E e \in E : E = {e} /\ Min(Seqs(E)) = e.seq /\ e.seq \in Nat \ {0} /\ e.by = q
    <2>1. PICK e \in E : E = {e}
      BY <1>4, <1>16
    <2>2. e.seq \in (N + 1) .. version /\ Seqs(E) = {e.seq}
      BY <1>4, <2>1 DEF Seqs
    <2>3. e.seq \in Nat \ {0}
      BY <1>1, <2>2
    <2>4. {e.seq} = e.seq .. e.seq
      BY <2>3
    <2>5. Min(Seqs(E)) = e.seq
      <3>1. e.seq \in Nat /\ e.seq <= e.seq
        BY <2>3
      <3>2. Min(e.seq .. e.seq) = e.seq
        BY <3>1, MinOfRange
      <3> QED BY <2>2, <2>4, <3>2
    <2> QED BY <1>4, <2>1, <2>3, <2>5
  <1>17. /\ reply' \in [Requests -> Nat \cup {-1}] /\ lapses' \in [Requests -> Nat]
         /\ \A p \in Requests : p # q => reply'[p] = reply[p] /\ lapses'[p] = lapses[p]
         /\ q # None => reply'[q] = IF E = {} THEN -1 ELSE Min(Seqs(E))
         /\ q # None => lapses'[q] = IF tx[w].again THEN lapses[q] + 1 ELSE lapses[q]
    <2> DEFINE a == IF E = {} THEN -1 ELSE Min(Seqs(E))
    <2>1. q # None => a \in Nat \cup {-1}
      BY <1>16
    <2>2. reply' = IF q = None THEN reply ELSE [reply EXCEPT ![q] = a]
      BY <1>3
    <2> HIDE DEF a
    <2>3. /\ reply' \in [Requests -> Nat \cup {-1}]
          /\ \A p \in Requests : p # q => reply'[p] = reply[p]
          /\ q # None => reply'[q] = a
      BY <1>15, <2>1, <2>2
    <2>4. /\ lapses' \in [Requests -> Nat]
          /\ \A p \in Requests : p # q => lapses'[p] = lapses[p]
          /\ q # None => lapses'[q] = IF tx[w].again THEN lapses[q] + 1 ELSE lapses[q]
      BY <1>3, <1>4, <1>15
    <2> QED BY <2>3, <2>4 DEF a
  <1>18. ASSUME NEW p \in Requests PROVE RequestInv(p)'
    <2>1. RequestInv(p)
      BY DEF IInv, Ledger
    <2>2. p # None
      BY StreamAssumption
    <2>3. \A a \in Writers : tx'[a].key = p => a # w /\ tx[a].key = p /\ tx'[a].again = tx[a].again
      BY <1>6, <1>7, <1>12, <2>2
    <2>4. \A a, b \in Writers : tx'[a].key = p /\ tx'[b].key = p => a = b
      BY <2>1, <2>3 DEF RequestInv
    <2>5. CASE p # q
      <3>1. Effects(p)' = Effects(p)
        BY <1>2, <1>4, <2>5 DEF Effects
      <3>2. reply'[p] = reply[p] /\ lapses'[p] = lapses[p]
        BY <1>17, <2>5
      <3> QED BY <2>1, <2>3, <2>4, <3>1, <3>2 DEF RequestInv
    <2>6. CASE p = q
      <3>1. \A a \in Writers : tx'[a].key # p
        BY <2>1, <2>3, <2>6 DEF RequestInv, q
      <3>2. Effects(p)' = Effects(p) \cup E
        BY <1>2, <1>4, <2>6 DEF Effects
      <3>3. IsFiniteSet(Effects(p))
        BY <1>5, FS_Subset DEF Effects
      <3>4. CASE E = {}
        <4>1. Effects(p)' = Effects(p)
          BY <3>2, <3>4
        <4>2. reply'[p] = -1 /\ lapses'[p] >= lapses[p] /\ lapses[p] \in Nat /\ lapses'[p] \in Nat
          BY <1>15, <1>17, <2>2, <2>6, <3>4
        <4>3. Cardinality(Effects(p)) \in Nat
          BY <3>3, FS_CardinalityType
        <4>4. Cardinality(Effects(p)) <= 1 + lapses'[p]
          BY <2>1, <4>2, <4>3 DEF RequestInv
        <4>5. reply'[p] # None /\ ~(reply'[p] > 0)
          BY <4>2 DEF None
        <4> QED BY <2>4, <3>1, <4>1, <4>4, <4>5 DEF RequestInv
      <3>5. CASE E # {}
        <4>1. PICK e \in E : E = {e} /\ Min(Seqs(E)) = e.seq /\ e.seq \in Nat \ {0} /\ e.by = q
          BY <1>16, <2>2, <2>6, <3>5
        <4>2. reply'[p] = e.seq /\ e.seq \in Nat \ {0} /\ e \in Effects(p)'
          BY <1>17, <2>2, <2>6, <3>2, <3>5, <4>1
        <4>3. /\ lapses'[p] = IF tx[w].again THEN lapses[p] + 1 ELSE lapses[p]
              /\ lapses[p] \in Nat
          BY <1>15, <1>17, <2>2, <2>6
        <4>4. Cardinality(Effects(p) \cup {e}) <= 1 + lapses'[p]
          <5>1. /\ Cardinality(Effects(p)) \in Nat
                /\ Cardinality(Effects(p) \cup {e}) \in Nat
                /\ Cardinality(Effects(p) \cup {e}) <= Cardinality(Effects(p)) + 1
            <6>1. /\ IsFiniteSet(Effects(p) \cup {e})
                  /\ \/ Cardinality(Effects(p) \cup {e}) = Cardinality(Effects(p))
                     \/ Cardinality(Effects(p) \cup {e}) = Cardinality(Effects(p)) + 1
              BY <3>3, FS_AddElement
            <6>2. /\ Cardinality(Effects(p)) \in Nat
                  /\ Cardinality(Effects(p) \cup {e}) \in Nat
              BY <3>3, <6>1, FS_CardinalityType
            <6> QED BY <6>1, <6>2
          <5>2. CASE tx[w].again
            BY <2>1, <4>3, <5>1, <5>2 DEF RequestInv
          <5>3. CASE ~tx[w].again
            <6>1. reply[p] = None
              BY <2>1, <2>6, <5>3 DEF RequestInv, q
            <6>2. Cardinality(Effects(p)) = 0
              BY <2>1, <6>1, FS_EmptySet DEF RequestInv
            <6> QED BY <4>3, <5>1, <5>3, <6>2
          <5> QED BY <5>2, <5>3
        <4>5. reply'[p] # None
          BY <4>2 DEF None
        <4> QED BY <2>4, <3>1, <3>2, <4>1, <4>2, <4>4, <4>5 DEF RequestInv
      <3> QED BY <3>4, <3>5
    <2> QED BY <2>5, <2>6
  <1>19. StreamTypeOK'
    <2>1. terminal' \in BOOLEAN /\ ended' \in Nat /\ version' \in Nat
      BY <1>1, <1>2, <1>5, <1>9 DEF TxType
    <2>2. store' \subseteq Event
      BY <1>2, <1>5
    <2>3. \A e, f \in store' : e.seq = f.seq => e = f
      <3>1. \A e \in store, f \in E : e.seq # f.seq
        <4>1. \A e \in store : e.seq \in Nat
          BY <1>5 DEF Event
        <4> QED BY <1>8, <4>1
      <3> QED BY <1>2, <1>4, <1>5, <3>1
    <2>4. tx' \in [Writers -> TxType]
      BY <1>1, <1>2, <1>6
    <2> QED BY <1>2, <1>17, <2>1, <2>2, <2>3, <2>4 DEF IInv, StreamTypeOK, TxType
  <1> QED BY <1>10, <1>13, <1>14, <1>18, <1>19 DEF IInv, Prefixes, Ledger
-----------------------------------------------------------------------------
LEMMA InvInit == Init => IInv
  <1> SUFFICES ASSUME Init PROVE IInv
    OBVIOUS
  <1>1. IsFiniteSet({}) /\ Cardinality({}) = 0
    BY FS_EmptySet
  <1>2. /\ tx = [w \in Writers |-> NoTx] /\ reader = [s \in Readers |-> Off]
        /\ got = [s \in Readers |-> {}] /\ store = {} /\ version = 0 /\ ended = 0
        /\ terminal = FALSE /\ reply = [p \in Requests |-> None]
        /\ lapses = [p \in Requests |-> 0]
    BY DEF Init
  <1>3. StreamTypeOK
    BY <1>2 DEF StreamTypeOK, NoTx, Off, None, Event
  <1>4. Log
    BY <1>1, <1>2 DEF Log, Seqs
  <1>5. Row
    BY <1>1, <1>2 DEF Row, TxInv, Holds, NoTx
  <1>6. ASSUME NEW s \in Readers PROVE PrefixInv(s)
    <2>1. got[s] = {} /\ reader[s].at = "off" /\ Cardinality(store) = 0
      BY <1>1, <1>2 DEF Off
    <2>2. 0 \in 0 .. 0 /\ 1 .. 0 = {}
      OBVIOUS
    <2> QED BY <2>1, <2>2 DEF PrefixInv
  <1>7. ASSUME NEW p \in Requests PROVE RequestInv(p)
    <2>1. Effects(p) = {} /\ reply[p] = 0 /\ lapses[p] = 0
      BY <1>2 DEF Effects, None
    <2>2. \A w \in Writers : tx[w].key # p
      BY <1>2, StreamAssumption DEF NoTx
    <2> QED BY <1>1, <2>1, <2>2 DEF RequestInv, None
  <1> QED BY <1>3, <1>4, <1>5, <1>6, <1>7 DEF IInv, Prefixes, Ledger

LEMMA InvNext == IInv /\ [Next]_vars => IInv'
  <1> SUFFICES ASSUME IInv, [Next]_vars PROVE IInv'
    OBVIOUS
  <1>1. CASE UNCHANGED vars
    <2>1. UNCHANGED <<writeVars, readVars>>
      BY <1>1
    <2>2. Log' /\ Row' /\ Ledger'
      BY <2>1, ReadersOnly
    <2>3. StreamTypeOK' /\ Prefixes'
      BY <2>1 DEF IInv, StreamTypeOK, Prefixes, PrefixInv
    <2> QED BY <2>2, <2>3 DEF IInv
  <1>2. ASSUME NEW w \in Writers, Write(w) PROVE IInv'
    BY <1>2, OpenStep, AppendStep, EndStep, CommitStep, RollbackStep DEF Write
  <1>3. ASSUME NEW s \in Readers, Connect(s) \/ Read(s) \/ Drop(s) \/ PollerDies(s) PROVE IInv'
    BY <1>3, ReaderStep
  <1> QED BY <1>1, <1>2, <1>3 DEF Next

LEMMA Invariant == Spec => []IInv
  BY InvInit, InvNext, PTL DEF Spec
-----------------------------------------------------------------------------
\* The rows of a Run, its events and its requests keep their types, and no two committed
\* events share a sequence (the unique constraint on run_events), for every number of
\* concurrent transactions.
THEOREM StreamTyped == Spec => []StreamTypeOK
  <1>1. IInv => StreamTypeOK
    BY DEF IInv
  <1> QED BY <1>1, Invariant, PTL

\* Whatever commits, rolls back, breaks and reconnects, a client of run.subscribe or of the
\* SSE stream has processed a prefix of the log, and a subscription that is reported as
\* completed has everything the Run had when it ended.
THEOREM PrefixWithoutGap == Spec => []NoGap
  <1>1. IInv => NoGap
    <2> SUFFICES ASSUME IInv, NEW s \in Readers
                 PROVE  /\ got[s] = 1 .. Cardinality(got[s])
                        /\ got[s] \subseteq {e.seq : e \in store}
                        /\ reader[s].at # "off" => reader[s].cursor = Cardinality(got[s])
                        /\ reader[s].at = "over" => terminal
                        /\ reader[s].at = "over" /\ s \in Sockets => ended <= Cardinality(got[s])
      BY DEF NoGap
    <2>1. PrefixInv(s) /\ Cardinality(store) \in Nat /\ Seqs(store) = 1 .. Cardinality(store)
      BY LogLength DEF IInv, Prefixes, Log
    <2>2. PICK k \in 0 .. Cardinality(store) :
              got[s] = 1 .. k /\ (reader[s].at # "off" => reader[s].cursor = k)
      BY <2>1 DEF PrefixInv
    <2>3. Cardinality(got[s]) = k
      <3>1. k \in Nat /\ 0 \in Nat /\ 0 <= k
        BY <2>1
      <3>2. Cardinality((0 + 1) .. k) = k - 0
        BY <3>1, RangeLength
      <3> QED BY <2>2, <3>1, <3>2
    <2>4. got[s] \subseteq Seqs(store)
      BY <2>1, <2>2
    <2> QED BY <2>1, <2>2, <2>3, <2>4 DEF PrefixInv, Seqs
  <1> QED BY <1>1, Invariant, PTL

\* A request of the app server has its effect once while its record is kept, however often
\* and concurrently it is retried, and the record and the effect are there together.
THEOREM RequestsOnce == Spec => []RequestOnce
  <1>1. IInv => RequestOnce
    BY DEF IInv, Ledger, RequestInv, RequestOnce, Effects
  <1> QED BY <1>1, Invariant, PTL
=============================================================================
