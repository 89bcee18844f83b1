------------------------ MODULE KnowledgeSyncProofs ------------------------
(***************************************************************************)
(* Theorems about KnowledgeSync, for every value of its constants: types,  *)
(* the bound on grants, the freshness of answers, and that no scan and no  *)
(* proof passes over a document that stays where it is.                    *)
(***************************************************************************)
EXTENDS KnowledgeSync, FiniteSetTheorems, SequenceTheorems, TLAPS

Scans == [stage : {None, "workspaces", "nodes", "read"}, queue : Queue]

Sources == [status : {"ABSENT", "ACTIVE", "PAUSED"}, scan : Scans, token : Workers \cup {None},
            lease : 0 .. WorkLease, poll : Nat, started : SUBSET Readers, done : SUBSET Readers]

Rows == [status : {"ABSENT", "PENDING", "READY", "PARTIAL", "MISSING", "FAILED"},
         seen : BOOLEAN, read : BOOLEAN, access : 0 .. AccessLease, body : Bodies \cup {None},
         after : SUBSET Readers, upto : SUBSET (Readers \cup {Done})]

Claims == [at : {"idle", "claimed", "calling", "fetched", "checked", "answered", "failing"}, scan : Scans,
           node : Docs \cup {None}, page : SUBSET Nodes, deep : SUBSET Folders, more : BOOLEAN,
           body : Texts \cup {None}, left : 0 .. AccessLease, after : SUBSET Readers]

Searches == [at : {"idle", "waiting", "proved", "found", "published"},
             evidence : SUBSET (Docs \X Bodies), stale : SUBSET Docs]

Originals == [place : Parents \cup {None}, body : Texts, open : BOOLEAN]

\* The source, a row and a claim have their types and are coherent in themselves.
SourceSound(s) ==
    /\ s \in Sources
    /\ s.scan.stage = "nodes" => s.scan.queue # <<>>
    /\ s.scan.stage = "read" => s.scan.queue = <<>>

RowSound(i) ==
    /\ i \in Rows
    /\ i.status = "READY" => i.body # None
    /\ i.access > 0 => i.status = "READY"

ClaimSound(c) ==
    /\ c \in Claims
    /\ c.scan.stage = "nodes" => c.scan.queue # <<>>
    /\ c.scan.stage = "read" => c.scan.queue = <<>>
    /\ c.at \in {"fetched", "checked"} => c.node # None
    /\ c.at \in {"fetched", "checked", "answered"} /\ c.node # None => c.body # None
    /\ c.node # None => c.scan.stage = "read"
    /\ c.node = None => c.left = 0
    /\ c.scan.stage # "nodes" => c.page = {}
    /\ c.at = "claimed" => c.node = None /\ c.page = {}
    /\ c.at = "answered" /\ c.node = None => c.scan.stage \in {"workspaces", "nodes"}

\* Everything that the steps of the model read has its type, history included.
Shapes ==
    /\ SourceSound(source)
    /\ item = [n \in Nodes |-> item[n]] /\ \A n \in Nodes : RowSound(item[n])
    /\ worker = [w \in Workers |-> worker[w]] /\ \A w \in Workers : ClaimSound(worker[w])
    /\ reader \in [Readers -> Searches]
    /\ vendor \in [Docs -> Originals] /\ linked \in BOOLEAN
    /\ acts \in 0 .. MaxActs /\ faults \in 0 .. MaxFaults
    /\ served \in [Docs -> 0 .. AccessLease]
    /\ shown \in [Readers -> SUBSET (Docs \X Texts)]
    /\ steady \in [Readers \cup {Scan} -> SUBSET Docs]

\* The worker still carries the claim that the row names.
Holds(w) == source.token = w /\ worker[w].at # "idle"

\* A valid claim is about the scan of the row, and a scan begins with nothing seen.
Claimed ==
    /\ \A w \in Workers : Holds(w) =>
          /\ worker[w].scan = IF source.scan = NoScan THEN Begun ELSE source.scan
          /\ source.scan = NoScan => \A n \in Nodes : ~item[n].seen
    /\ source.scan.stage = "workspaces" => \A n \in Nodes : ~item[n].seen
    /\ source.scan.stage = None => source.scan = NoScan

\* Every grant, in the row or on its way in a claim that is still held, counts from a time
\* when the vendor served; between the last check and observed_at that time stands still.
Grants ==
    /\ \A d \in Docs : Serves(d) => served[d] = AccessLease
    /\ \A d \in Docs : item[d].access <= served[d]
    /\ \A w \in Workers : Held(w) /\ worker[w].node # None =>
          /\ worker[w].left <= served[worker[w].node]
          /\ worker[w].at = "checked" => served[worker[w].node] = AccessLease

\* Scans begun after a question, and what the vendor has served since
Questions ==
    /\ source.done \subseteq source.started /\ source.started \subseteq Asking
    /\ \A r \in Asking, d \in Docs : Serves(d) => Text(d) \in shown[r]
    /\ \A r \in Readers : reader[r].at \in {"proved", "found"} => r \in source.done
    /\ \A r \in Readers : reader[r].at = "found" => reader[r].evidence \subseteq shown[r]

\* The row of d counts for Run r as read since its question.
Counts(r, d) ==
    \/ item[d].read
    \/ r \in source.done /\ Done \in item[d].upto
    \/ reader[r].at \in {"proved", "found"} /\ r \in item[d].upto

\* What a claim has fetched was served since the question of r, and checked since.
Brings(c, r) ==
    c.at \in {"fetched", "checked", "answered"} /\ c.node # None =>
        <<c.node, c.body>> \in shown[r] /\ (c.at = "answered" => r \in c.after)

\* What a scan begun after a question reads has been served since the question.
Reads ==
    /\ \A w \in Workers, r \in source.started : Holds(w) => Brings(worker[w], r)
    /\ \A d \in Docs, r \in source.started : item[d].status = "READY" /\ Counts(r, d) =>
          <<d, item[d].body>> \in shown[r] /\ r \in item[d].after

\* The members of a sequence
Entries(q) == {q[i] : i \in DOMAIN q}

\* A document is met when its directory is in the queue, or the root is and the directory
\* has not been seen.
Meets(e, d) ==
    \/ e.parent = vendor[d].place /\ d \notin e.listed
    \/ /\ vendor[d].place \in Folders /\ ~item[vendor[d].place].seen
       /\ e.parent = Root /\ vendor[d].place \notin e.listed

Ahead(scan, d) ==
    scan.stage \in {None, "workspaces"} \/ \E e \in Entries(scan.queue) : Meets(e, d)

\* A page on its way leaves out nothing that stayed where it was.
WholePage(c) ==
    c.at = "answered" /\ c.scan.stage = "nodes" =>
        LET here == Head(c.scan.queue) IN
        /\ \A d \in steady[Scan] : vendor[d].place = here.parent =>
              d \in here.listed \/ d \in c.page \/ c.more
        /\ \A f \in Folders : here.parent = Root => f \in here.listed \/ f \in c.page \/ c.more
        /\ \A d \in steady[Scan] : vendor[d].place \in c.page => vendor[d].place \in c.deep

Traversal ==
    /\ \A x \in Readers \cup {Scan} : steady[x] \subseteq Present
    /\ \A d \in steady[Scan] : item[d].seen \/ Ahead(source.scan, d)
    /\ \A w \in Workers : Holds(w) => WholePage(worker[w])

\* What a completed scan leaves of a document that stayed where it was
Settled ==
    /\ \A n \in Nodes : item[n].seen => item[n].status \notin {"ABSENT", "MISSING"}
    /\ \A r \in source.started : steady[r] \subseteq steady[Scan]
    /\ \A r \in source.done : \A d \in steady[r] :
          /\ item[d].status \notin {"ABSENT", "MISSING"}
          /\ item[d].status = "READY" => Done \in item[d].upto

IInv == Shapes /\ Claimed /\ Grants /\ Questions /\ Reads /\ Traversal /\ Settled
-----------------------------------------------------------------------------
(* Sequences and their members *)

LEMMA EntriesOfConcat ==
    ASSUME NEW S, NEW s \in Seq(S), NEW t \in Seq(S)
    PROVE  s \o t \in Seq(S) /\ Entries(s \o t) = Entries(s) \cup Entries(t)
<1>1. /\ Len(s) \in Nat /\ DOMAIN s = 1 .. Len(s)
      /\ Len(t) \in Nat /\ DOMAIN t = 1 .. Len(t)
  BY LenProperties
<1>2. /\ s \o t \in Seq(S) /\ Len(s \o t) = Len(s) + Len(t)
      /\ \A i \in 1 .. Len(s) + Len(t) : (s \o t)[i] = IF i <= Len(s) THEN s[i] ELSE t[i - Len(s)]
  BY ConcatProperties
<1>3. DOMAIN (s \o t) = 1 .. Len(s) + Len(t)
  BY <1>2, LenProperties
<1>4. ASSUME NEW x \in Entries(s \o t) PROVE x \in Entries(s) \cup Entries(t)
  <2>1. PICK i \in DOMAIN (s \o t) : x = (s \o t)[i]  BY <1>4 DEF Entries
  <2>2. CASE i <= Len(s)
    <3>1. x = s[i] /\ i \in DOMAIN s  BY <1>1, <1>2, <1>3, <2>1, <2>2
    <3> QED  BY <3>1 DEF Entries
  <2>3. CASE ~(i <= Len(s))
    <3>1. x = t[i - Len(s)] /\ i - Len(s) \in DOMAIN t  BY <1>1, <1>2, <1>3, <2>1, <2>3
    <3> QED  BY <3>1 DEF Entries
  <2> QED  BY <2>2, <2>3
<1>5. ASSUME NEW x \in Entries(s) PROVE x \in Entries(s \o t)
  <2>1. PICK i \in DOMAIN s : x = s[i]  BY <1>5 DEF Entries
  <2>2. i \in DOMAIN (s \o t) /\ (s \o t)[i] = x  BY <1>1, <1>2, <1>3, <2>1
  <2> QED  BY <2>2 DEF Entries
<1>6. ASSUME NEW x \in Entries(t) PROVE x \in Entries(s \o t)
  <2>1. PICK i \in DOMAIN t : x = t[i]  BY <1>6 DEF Entries
  <2>2. i + Len(s) \in DOMAIN (s \o t) /\ (s \o t)[i + Len(s)] = x  BY <1>1, <1>2, <1>3, <2>1
  <2> QED  BY <2>2 DEF Entries
<1> QED  BY <1>2, <1>4, <1>5, <1>6

LEMMA EntriesOfHeadTail ==
    ASSUME NEW S, NEW s \in Seq(S), s # <<>>
    PROVE  /\ Head(s) \in S /\ Tail(s) \in Seq(S)
           /\ Entries(s) = {Head(s)} \cup Entries(Tail(s))
<1>1. /\ Len(s) \in Nat /\ DOMAIN s = 1 .. Len(s) /\ Len(s) # 0
  BY LenProperties, EmptySeq
<1>2. /\ Head(s) \in S /\ Tail(s) \in Seq(S) /\ Len(Tail(s)) = Len(s) - 1
      /\ \A i \in 1 .. Len(Tail(s)) : Tail(s)[i] = s[i + 1]
  BY HeadTailProperties
<1>3. DOMAIN Tail(s) = 1 .. Len(s) - 1 /\ Head(s) = s[1]
  BY <1>2, LenProperties
<1>4. ASSUME NEW x \in Entries(s) PROVE x \in {Head(s)} \cup Entries(Tail(s))
  <2>1. PICK i \in DOMAIN s : x = s[i]  BY <1>4 DEF Entries
  <2>2. CASE i = 1  BY <2>1, <2>2, <1>3
  <2>3. CASE i # 1
    <3>1. i - 1 \in DOMAIN Tail(s) /\ Tail(s)[i - 1] = x  BY <1>1, <1>2, <1>3, <2>1, <2>3
    <3> QED  BY <3>1 DEF Entries
  <2> QED  BY <2>2, <2>3
<1>5. ASSUME NEW x \in Entries(Tail(s)) PROVE x \in Entries(s)
  <2>1. PICK i \in DOMAIN Tail(s) : x = Tail(s)[i]  BY <1>5 DEF Entries
  <2>2. i + 1 \in DOMAIN s /\ s[i + 1] = x  BY <1>1, <1>2, <1>3, <2>1
  <2> QED  BY <2>2 DEF Entries
<1>6. Head(s) \in Entries(s)
  <2>1. 1 \in DOMAIN s  BY <1>1
  <2> QED  BY <2>1, <1>3 DEF Entries
<1> QED  BY <1>2, <1>4, <1>5, <1>6

LEMMA EntriesOfOne ==
    ASSUME NEW x
    PROVE  Entries(<<x>>) = {x} /\ Entries(<<>>) = {}
<1>1. DOMAIN <<x>> = {1} /\ <<x>>[1] = x  OBVIOUS
<1>2. DOMAIN <<>> = {}  OBVIOUS
<1> QED  BY <1>1, <1>2 DEF Entries

\* SetToSeq lists every member of a finite set.
LEMMA EntriesOfSet ==
    ASSUME NEW S, IsFiniteSet(S)
    PROVE  SetToSeq(S) \in Seq(S) /\ Entries(SetToSeq(S)) = S
<1> DEFINE N == Cardinality(S)
<1> DEFINE q == SetToSeq(S)
<1>1. N \in Nat /\ ExistsBijection(1 .. N, S)
  BY FS_CardinalityType
<1>2. \E f \in [1 .. N -> S] : IsInjective(f)
  BY <1>1 DEF ExistsBijection, Bijection, Injection, IsInjective
<1>3. q \in [1 .. N -> S] /\ IsInjective(q)
  BY <1>2 DEF SetToSeq
<1>4. q \in Injection(1 .. N, S)
  BY <1>3 DEF Injection, IsInjective
<1>5. Cardinality(1 .. N) = Cardinality(S)
  BY <1>1, FS_Interval
<1>6. q \in Surjection(1 .. N, S)
  BY <1>4, <1>5, FS_Injection
<1>7. Entries(q) = S
  BY <1>3, <1>6 DEF Surjection, Entries
<1>8. q \in Seq(S)
  BY <1>1, <1>3, IsASeq
<1> QED  BY <1>7, <1>8
-----------------------------------------------------------------------------
(* What the steps of a worker make of scan, claim and rows *)

Entry == [parent : Parents, listed : SUBSET Nodes]

NewEntries(c) == {[parent |-> g, listed |-> {}] : g \in c.deep}

\* The entry of a directory that has more pages
Resumed(c) ==
    [parent |-> Head(c.scan.queue).parent, listed |-> Head(c.scan.queue).listed \cup c.page]

LEMMA NewEntriesFinite ==
    ASSUME NEW c, c \in Claims
    PROVE  IsFiniteSet(NewEntries(c)) /\ NewEntries(c) \subseteq Entry
<1> DEFINE h == [g \in c.deep |-> [parent |-> g, listed |-> {}]]
<1>1. c.deep \subseteq Folders
  BY DEF Claims
<1>2. IsFiniteSet(c.deep)
  BY <1>1, KnowledgeAssumption, FS_Subset DEF Nodes
<1>3. h \in Surjection(c.deep, NewEntries(c))
  BY DEF Surjection, NewEntries
<1>4. IsFiniteSet(NewEntries(c))
  BY <1>2, <1>3, FS_Surjection
<1>5. NewEntries(c) \subseteq Entry
  BY <1>1 DEF NewEntries, Entry, Parents
<1> QED  BY <1>4, <1>5

LEMMA AdvanceFirst ==
    ASSUME NEW c, ClaimSound(c), c.scan.stage = "workspaces"
    PROVE  Advance(c) = [stage |-> "nodes", queue |-> <<[parent |-> Root, listed |-> {}]>>]
BY DEF Advance

LEMMA EntryResumed ==
    ASSUME NEW e \in Entry, NEW P
    PROVE  [e EXCEPT !.listed = @ \cup P] = [parent |-> e.parent, listed |-> e.listed \cup P]
BY DEF Entry

LEMMA ConcatThree ==
    ASSUME NEW S, NEW x \in S, NEW s \in Seq(S), NEW t \in Seq(S)
    PROVE  /\ s \o t \in Seq(S) /\ Entries(s \o t) = Entries(s) \cup Entries(t)
           /\ <<x>> \o s \o t \in Seq(S)
           /\ Entries(<<x>> \o s \o t) = {x} \cup Entries(s) \cup Entries(t)
<1>1. <<x>> \in Seq(S)
  OBVIOUS
<1>2. Entries(<<x>>) = {x}
  BY EntriesOfOne
<1>3. s \o t \in Seq(S) /\ Entries(s \o t) = Entries(s) \cup Entries(t)
  BY EntriesOfConcat
<1>4. <<x>> \o s \in Seq(S) /\ Entries(<<x>> \o s) = Entries(<<x>>) \cup Entries(s)
  BY ZenonT(60), <1>1, EntriesOfConcat
<1>5. /\ <<x>> \o s \o t \in Seq(S)
      /\ Entries(<<x>> \o s \o t) = Entries(<<x>> \o s) \cup Entries(t)
  <2> DEFINE u == <<x>> \o s
  <2>1. u \in Seq(S)  BY <1>4
  <2> HIDE DEF u
  <2>2. u \o t \in Seq(S) /\ Entries(u \o t) = Entries(u) \cup Entries(t)
    BY <2>1, EntriesOfConcat
  <2> QED  BY <2>2 DEF u
<1> QED  BY <1>2, <1>3, <1>4, <1>5

\* The queue after a page
LEMMA AdvanceNext ==
    ASSUME NEW c, ClaimSound(c), c.scan.stage = "nodes"
    PROVE  LET a == Advance(c) IN
           /\ a \in Scans /\ a.stage \in {"nodes", "read"}
           /\ a.stage = "nodes" => a.queue # <<>>
           /\ a.stage = "read" => a.queue = <<>>
           /\ Head(c.scan.queue) \in Entries(c.scan.queue)
           /\ Entries(c.scan.queue) \ {Head(c.scan.queue)} \subseteq Entries(a.queue)
           /\ NewEntries(c) \subseteq Entries(a.queue)
           /\ c.more => Resumed(c) \in Entries(a.queue)
<1> DEFINE q == c.scan.queue
           here == Head(q)
           new == SetToSeq({[parent |-> f, listed |-> {}] : f \in c.deep})
           queue == IF c.more THEN <<[here EXCEPT !.listed = @ \cup c.page]>> \o Tail(q) \o new
                    ELSE Tail(q) \o new
<1>1. q \in Seq(Entry) /\ q # <<>> /\ c.page \subseteq Nodes /\ c.more \in BOOLEAN /\ c \in Claims
  BY DEF ClaimSound, Claims, Scans, Queue, Entry
<1>2. here \in Entry /\ Tail(q) \in Seq(Entry) /\ Entries(q) = {here} \cup Entries(Tail(q))
  BY <1>1, EntriesOfHeadTail
<1>3. new = SetToSeq(NewEntries(c))
  BY DEF NewEntries
<1>4. new \in Seq(NewEntries(c)) /\ Entries(new) = NewEntries(c) /\ NewEntries(c) \subseteq Entry
  BY <1>1, <1>3, NewEntriesFinite, EntriesOfSet
<1>5. new \in Seq(Entry)
  BY <1>4, SeqMonotonic
<1>6. [here EXCEPT !.listed = @ \cup c.page] = Resumed(c) /\ Resumed(c) \in Entry
  <2>1. here.parent \in Parents /\ here.listed \in SUBSET Nodes
    BY <1>2 DEF Entry
  <2>2. here = [parent |-> here.parent, listed |-> here.listed]
    BY <1>2 DEF Entry
  <2>3. Resumed(c) = [parent |-> here.parent, listed |-> here.listed \cup c.page]
    BY DEF Resumed
  <2>4. Resumed(c) \in Entry
    BY <1>1, <2>1, <2>3 DEF Entry
  <2>5. [here EXCEPT !.listed = @ \cup c.page] = Resumed(c)
    BY <1>2, <2>3, EntryResumed
  <2> QED  BY <2>4, <2>5
<1> HIDE DEF new, here, q, queue
<1>9. /\ Tail(q) \o new \in Seq(Entry)
      /\ Entries(Tail(q) \o new) = Entries(Tail(q)) \cup Entries(new)
      /\ <<Resumed(c)>> \o Tail(q) \o new \in Seq(Entry)
      /\ Entries(<<Resumed(c)>> \o Tail(q) \o new)
            = {Resumed(c)} \cup Entries(Tail(q)) \cup Entries(new)
  <2>1. Tail(q) \in Seq(Entry) /\ new \in Seq(Entry) /\ Resumed(c) \in Entry
    BY <1>2, <1>5, <1>6
  <2> DEFINE x == Resumed(c)
             rest == Tail(q)
  <2>2. x \in Entry /\ rest \in Seq(Entry)
    BY <2>1
  <2> HIDE DEF x, rest
  <2>3. /\ rest \o new \in Seq(Entry) /\ Entries(rest \o new) = Entries(rest) \cup Entries(new)
        /\ <<x>> \o rest \o new \in Seq(Entry)
        /\ Entries(<<x>> \o rest \o new) = {x} \cup Entries(rest) \cup Entries(new)
    BY <2>1, <2>2, ConcatThree
  <2> QED  BY <2>3 DEF x, rest
<1>12. /\ queue \in Seq(Entry)
       /\ Entries(Tail(q)) \subseteq Entries(queue) /\ NewEntries(c) \subseteq Entries(queue)
       /\ c.more => Resumed(c) \in Entries(queue)
  <2>1. CASE c.more
    <3>1. queue = <<Resumed(c)>> \o Tail(q) \o new  BY <2>1, <1>6 DEF queue
    <3>2. queue \in Seq(Entry) /\ Entries(queue) = {Resumed(c)} \cup Entries(Tail(q)) \cup Entries(new)
      BY <3>1, <1>9, Zenon
    <3> QED  BY <3>2, <1>4
  <2>2. CASE ~c.more
    <3>1. queue = Tail(q) \o new  BY <2>2 DEF queue
    <3> QED  BY <3>1, <1>4, <1>9, <2>2
  <2> QED  BY <2>1, <2>2
<1>13. Advance(c) = [stage |-> IF queue = <<>> THEN "read" ELSE "nodes", queue |-> queue]
  BY DEF Advance, queue, new, here, q
<1>14. Advance(c) \in Scans
  BY <1>12, <1>13 DEF Scans, Queue, Entry
<1> QED  BY <1>2, <1>12, <1>13, <1>14 DEF here, q
-----------------------------------------------------------------------------
(* The kinds of steps *)

\* The vendor changes one document.
Outside(d, v) ==
    /\ vendor' = [vendor EXCEPT ![d] = v]
    /\ \/ steady' = [x \in DOMAIN steady |-> steady[x] \ {d}]
       \/ steady' = steady /\ v.place = vendor[d].place
    /\ Note

\* The claim c that a worker goes on with, when its tick touches no row
Goes(w, c) ==
    \/ c = Idle
    \/ worker[w].at # "idle" /\ c = Failed(worker[w])
    \/ /\ worker[w].at = "claimed" /\ worker[w].scan.stage # "read"
       /\ c = [worker[w] EXCEPT !.at = "calling"]
    \/ /\ worker[w].at = "claimed" /\ worker[w].scan.stage = "read"
       /\ \E d \in Docs : c = [worker[w] EXCEPT !.at = "calling", !.node = d]
    \/ /\ worker[w].at = "calling" /\ worker[w].node = None /\ worker[w].scan.stage = "workspaces"
       /\ c = [worker[w] EXCEPT !.at = "answered"]

GoesListed(w, c) ==
    /\ worker[w].at = "calling" /\ worker[w].node = None /\ worker[w].scan.stage = "nodes"
    /\ LET here == Head(worker[w].scan.queue) IN
       \E some \in Pages(here) :
          c = [worker[w] EXCEPT !.at = "answered", !.page = some,
                                !.more = Children(here.parent) \ here.listed # some,
                                !.deep = {f \in some \cap Folders : Children(f) # {}}]

GoesFetched(w, c) ==
    /\ worker[w].at = "calling" /\ worker[w].node # None /\ Serves(worker[w].node)
    /\ c = [worker[w] EXCEPT !.at = "fetched", !.body = vendor[worker[w].node].body]

GoesChecked(w, c) ==
    /\ worker[w].at = "fetched" /\ Serves(worker[w].node)
    /\ c = [worker[w] EXCEPT !.at = "checked"]

GoesStamped(w, c) ==
    /\ worker[w].at = "checked"
    /\ c = [worker[w] EXCEPT !.at = "answered", !.left = AccessLease, !.after = Asking]

Carries(w, c) ==
    /\ Goes(w, c) \/ GoesListed(w, c) \/ GoesFetched(w, c) \/ GoesChecked(w, c) \/ GoesStamped(w, c)
    /\ Become(w, c)
    /\ UNCHANGED <<source, item, reader, world, history>>

\* The tick ends and its results are in the rows.
Completes(w) ==
    /\ worker[w].at = "claimed" /\ Locked(w) /\ worker[w].scan.stage = "read" /\ Unread = {}
    /\ Complete /\ Become(w, Idle)
    /\ UNCHANGED <<reader, world, history>>

Lists(w) ==
    /\ worker[w].at = "answered" /\ worker[w].node = None /\ Locked(w)
    /\ item' = [n \in Nodes |-> IF n \in worker[w].page THEN Listed(n) ELSE item[n]]
    /\ Checkpoint(Advance(worker[w]), 0) /\ Become(w, Idle)
    /\ UNCHANGED <<reader, world, history>>

ReadsIn(w) ==
    /\ worker[w].at = "answered" /\ worker[w].node # None /\ Locked(w) /\ worker[w].body # Refused
    /\ item' = [item EXCEPT ![worker[w].node] = Accepted(worker[w])]
    /\ Outdate(worker[w]) /\ Checkpoint(worker[w].scan, 0) /\ Become(w, Idle)
    /\ UNCHANGED <<world, history>>

Blames(w) ==
    /\ worker[w].at = "failing" /\ Locked(w)
    /\ item' = Blamed(worker[w]) /\ Checkpoint(worker[w].scan, Backoff) /\ Become(w, Idle)
    /\ UNCHANGED <<reader, world, history>>

\* A Run leaves, is proved or has found.
Leaves(r, end) ==
    /\ \/ end = Quiet
       \/ /\ end = [Quiet EXCEPT !.at = "published"] /\ reader[r].at = "found"
          /\ \A e \in reader[r].evidence : ExternalAccess(e[1])
    /\ Leave(r, end)
    /\ UNCHANGED <<world, served>>

Proves(r) ==
    /\ reader[r].at = "waiting" /\ r \in source.done
    /\ reader' = [reader EXCEPT ![r].at = "proved"]
    /\ item' = [n \in Nodes |-> [item[n] EXCEPT !.upto = IF Done \in @ THEN @ \cup {r} ELSE @ \ {r}]]
    /\ UNCHANGED <<source, worker, world, history>>

Demands ==
    /\ source' = [source EXCEPT !.poll = 0]
    /\ UNCHANGED <<item, worker, reader, world, history>>

Finds(r) ==
    /\ reader[r].at = "proved"
    /\ \E hits \in SUBSET {d \in Docs : Fresh(r, d)} :
          reader' = [reader EXCEPT ![r].at = "found", ![r].evidence = {<<d, item[d].body>> : d \in hits}]
    /\ UNCHANGED <<source, item, worker, world, history>>

Passes ==
    /\ source' = [source EXCEPT !.lease = Down(@), !.poll = Down(@)]
    /\ item' = [n \in Nodes |-> [item[n] EXCEPT !.access = Down(@)]]
    /\ worker' = [w \in Workers |-> [worker[w] EXCEPT !.left = Down(@)]]
    /\ served' = [d \in Docs |-> IF Serves(d) THEN AccessLease
                                ELSE IF Unstamped(d) THEN served[d] ELSE Down(served[d])]
    /\ UNCHANGED <<reader, world, shown, steady>>

Still == UNCHANGED <<source, item, worker, reader, vendor, history>>

Kind ==
    \/ \E d \in Docs, v \in Originals : Outside(d, v)
    \/ Still
    \/ CreateSource \/ DisableSource \/ (\E resume \in BOOLEAN : ScheduleSource(resume)) \/ ClaimSource
    \/ \E w \in Workers : \/ \E c : Carries(w, c)
                          \/ Completes(w) \/ Lists(w) \/ ReadsIn(w) \/ Blames(w)
    \/ \E r \in Readers : \/ Ask(r) \/ Proves(r) \/ Finds(r)
                          \/ \E end : Leaves(r, end)
    \/ Demands \/ Passes

USE DEF vars, history, world, bounds

LEMMA BoundsKept ==
    ASSUME Shapes, [Next]_vars
    PROVE  acts' \in 0 .. MaxActs /\ faults' \in 0 .. MaxFaults /\ linked' \in BOOLEAN
<1>1. acts \in 0 .. MaxActs /\ faults \in 0 .. MaxFaults /\ MaxActs \in Nat /\ MaxFaults \in Nat
      /\ linked \in BOOLEAN
  BY KnowledgeAssumption DEF Shapes
<1>2. \/ Act \/ Fault \/ UNCHANGED <<acts, faults>>
  BY ZenonT(60) DEF Next, Move, Share, Edit, Link, CreateSource, DisableSource, ScheduleSource, ClaimSource,
         Work, Prepare, Discover, Fetch, Verify, Stamp, AcceptPage, AcceptRead, Failure, Unavailable, Crash,
         Ask, AwaitLiveSources, GiveUp, Search, Publish, Tick
<1>3. linked' = linked \/ linked' = ~linked
  BY Zenon DEF Next, Move, Share, Edit, Link, CreateSource, DisableSource, ScheduleSource, ClaimSource,
         Work, Prepare, Discover, Fetch, Verify, Stamp, AcceptPage, AcceptRead, Failure, Unavailable, Crash,
         Ask, AwaitLiveSources, GiveUp, Search, Publish, Tick, Note
<1>4. acts' \in 0 .. MaxActs /\ faults' \in 0 .. MaxFaults
  BY <1>1, <1>2 DEF Act, Fault
<1> QED  BY <1>1, <1>3, <1>4

LEMMA OutsideKind ==
    ASSUME Shapes, NEW d \in Docs,
           \/ \E p \in Parents \cup {None} : Move(d, p)
           \/ Share(d)
           \/ \E b \in Texts : Edit(d, b)
    PROVE  \E v \in Originals : Outside(d, v)
<1>1. vendor[d] \in Originals /\ vendor \in [Docs -> Originals]
  BY DEF Shapes
<1>2. ASSUME NEW p \in Parents \cup {None}, Move(d, p) PROVE \E v \in Originals : Outside(d, v)
  <2> DEFINE v == [vendor[d] EXCEPT !.place = p]
  <2>1. v \in Originals  BY <1>1 DEF Originals
  <2>2. vendor' = [vendor EXCEPT ![d] = v]  BY <1>2, <1>1 DEF Move
  <2> HIDE DEF v
  <2>3. Outside(d, v)  BY <1>2, <2>2 DEF Move, Outside
  <2> QED  BY <2>1, <2>3
<1>3. ASSUME Share(d) PROVE \E v \in Originals : Outside(d, v)
  <2> DEFINE v == [vendor[d] EXCEPT !.open = ~vendor[d].open]
  <2>1. v \in Originals /\ v.place = vendor[d].place  BY <1>1 DEF Originals
  <2>2. vendor' = [vendor EXCEPT ![d] = v]  BY <1>3, <1>1 DEF Share
  <2> HIDE DEF v
  <2>3. Outside(d, v)  BY <1>3, <2>1, <2>2 DEF Share, Outside
  <2> QED  BY <2>1, <2>3
<1>4. ASSUME NEW b \in Texts, Edit(d, b) PROVE \E v \in Originals : Outside(d, v)
  <2> DEFINE v == [vendor[d] EXCEPT !.body = b]
  <2>1. v \in Originals /\ v.place = vendor[d].place  BY <1>1 DEF Originals
  <2>2. vendor' = [vendor EXCEPT ![d] = v]  BY <1>4, <1>1 DEF Edit
  <2> HIDE DEF v
  <2>3. Outside(d, v)  BY <1>4, <2>1, <2>2 DEF Edit, Outside
  <2> QED  BY <2>1, <2>3
<1> QED  BY <1>2, <1>3, <1>4

LEMMA WorkKind ==
    ASSUME Shapes, NEW w \in Workers, Work(w) \/ Unavailable(w) \/ Crash(w)
    PROVE  \/ \E c : Carries(w, c)
           \/ Completes(w) \/ Lists(w) \/ ReadsIn(w) \/ Blames(w)
<1> DEFINE old == worker[w]
<1> USE DEF Carries
<1>1. CASE Prepare(w)
  <2>0. UNCHANGED <<reader, world, history>> /\ old.at = "claimed"
    BY <1>1 DEF Prepare
  <2>1. CASE Become(w, Idle) /\ UNCHANGED <<source, item>>
    BY <2>0, <2>1 DEF Goes
  <2>2. CASE Become(w, Failed(old)) /\ UNCHANGED <<source, item>>
    BY <2>0, <2>2 DEF Goes
  <2>3. CASE /\ Locked(w) /\ linked /\ old.scan.stage # "read"
             /\ Become(w, [old EXCEPT !.at = "calling"]) /\ UNCHANGED <<source, item>>
    BY <2>0, <2>3 DEF Goes
  <2>4. CASE /\ Locked(w) /\ linked /\ old.scan.stage = "read"
             /\ \E d \in Unread : Become(w, [old EXCEPT !.at = "calling", !.node = d])
             /\ UNCHANGED <<source, item>>
    <3>1. PICK d \in Unread : Become(w, [old EXCEPT !.at = "calling", !.node = d])
      BY <2>4
    <3>2. d \in Docs
      BY DEF Unread
    <3> QED  BY <2>0, <2>4, <3>1, <3>2 DEF Goes
  <2>5. CASE /\ Locked(w) /\ linked /\ old.scan.stage = "read" /\ Unread = {}
             /\ Complete /\ Become(w, Idle)
    BY SMTT(30), <2>0, <2>5 DEF Completes
  <2> QED  BY <1>1, <2>1, <2>2, <2>3, <2>4, <2>5 DEF Prepare
<1>2. CASE Discover(w)
  <2>0. UNCHANGED <<source, item, reader, world, history>> /\ old.at = "calling" /\ old.node = None
    BY Zenon, <1>2 DEF Discover
  <2>1. CASE Become(w, Failed(old))
    BY <2>0, <2>1 DEF Goes
  <2>2. CASE old.scan.stage = "workspaces" /\ Become(w, [old EXCEPT !.at = "answered"])
    BY SMTT(30), <2>0, <2>2 DEF Goes
  <2>3. CASE /\ old.scan.stage = "nodes"
             /\ LET here == Head(old.scan.queue) IN
                \E some \in Pages(here) :
                   Become(w, [old EXCEPT
                       !.at = "answered", !.page = some,
                       !.more = Children(here.parent) \ here.listed # some,
                       !.deep = {f \in some \cap Folders : Children(f) # {}}])
    BY Zenon, <2>0, <2>3 DEF GoesListed
  <2> QED  BY ZenonT(60), <1>2, <2>1, <2>2, <2>3 DEF Discover
<1>3. CASE Fetch(w)
  <2>0. UNCHANGED <<source, item, reader, world, history>> /\ old.at = "calling" /\ old.node # None
    BY <1>3 DEF Fetch
  <2>1. CASE linked /\ Serves(old.node)
    <3>1. Become(w, [old EXCEPT !.at = "fetched", !.body = vendor[old.node].body])
      BY <1>3, <2>1 DEF Fetch
    <3> QED  BY <2>0, <2>1, <3>1 DEF GoesFetched
  <2>2. CASE ~(linked /\ Serves(old.node))
    <3>1. Become(w, Failed(old))
      BY <1>3, <2>2 DEF Fetch
    <3> QED  BY <2>0, <3>1 DEF Goes
  <2> QED  BY <2>1, <2>2
<1>4. CASE Verify(w)
  <2>0. UNCHANGED <<source, item, reader, world, history>> /\ old.at = "fetched"
    BY <1>4 DEF Verify
  <2>1. CASE Serves(old.node)
    <3>1. Become(w, [old EXCEPT !.at = "checked"])
      BY <1>4, <2>1 DEF Verify
    <3> QED  BY <2>0, <2>1, <3>1 DEF GoesChecked
  <2>2. CASE ~Serves(old.node)
    <3>1. Become(w, Failed(old))
      BY <1>4, <2>2 DEF Verify
    <3> QED  BY <2>0, <3>1 DEF Goes
  <2> QED  BY <2>1, <2>2
<1>10. CASE Stamp(w)
  <2>0. UNCHANGED <<source, item, reader, world, history>> /\ old.at = "checked"
    BY <1>10 DEF Stamp
  <2>1. CASE linked
    <3>1. Become(w, [old EXCEPT !.at = "answered", !.left = AccessLease, !.after = Asking])
      BY <1>10, <2>1 DEF Stamp
    <3> QED  BY <2>0, <2>1, <3>1 DEF GoesStamped
  <2>2. CASE ~linked
    <3>1. Become(w, Failed(old))
      BY <1>10, <2>2 DEF Stamp
    <3> QED  BY <2>0, <3>1 DEF Goes
  <2> QED  BY <2>1, <2>2
<1>5. CASE AcceptPage(w)
  <2>0. UNCHANGED <<reader, world, history>> /\ old.at = "answered" /\ old.node = None
    BY <1>5 DEF AcceptPage
  <2>1. CASE Become(w, Idle) /\ UNCHANGED <<source, item>>
    BY <2>0, <2>1 DEF Goes
  <2>2. CASE Become(w, Failed(old)) /\ UNCHANGED <<source, item>>
    BY <2>0, <2>2 DEF Goes
  <2>3. CASE /\ Locked(w) /\ linked /\ ~Repeats(old)
             /\ item' = [n \in Nodes |-> IF n \in old.page THEN Listed(n) ELSE item[n]]
             /\ Checkpoint(Advance(old), 0)
             /\ Become(w, Idle)
    BY <2>0, <2>3 DEF Lists
  <2> QED  BY <1>5, <2>1, <2>2, <2>3 DEF AcceptPage
<1>6. CASE AcceptRead(w)
  <2>0. UNCHANGED <<world, history>> /\ old.at = "answered" /\ old.node # None
    BY <1>6 DEF AcceptRead
  <2>1. CASE Become(w, Idle) /\ UNCHANGED <<source, item, reader>>
    BY <2>0, <2>1 DEF Goes
  <2>2. CASE Become(w, Failed(old)) /\ UNCHANGED <<source, item, reader>>
    BY <2>0, <2>2 DEF Goes
  <2>3. CASE /\ Locked(w) /\ old.body # Refused
             /\ item' = [item EXCEPT ![old.node] = Accepted(old)]
             /\ Outdate(old) /\ Checkpoint(old.scan, 0) /\ Become(w, Idle)
    BY <2>0, <2>3 DEF ReadsIn
  <2> QED  BY <1>6, <2>1, <2>2, <2>3 DEF AcceptRead
<1>7. CASE Failure(w)
  <2>0. UNCHANGED <<reader, world, history>> /\ old.at = "failing" /\ Become(w, Idle)
    BY <1>7 DEF Failure
  <2>1. CASE Locked(w)
    <3>1. item' = Blamed(old) /\ Checkpoint(old.scan, Backoff)  BY <1>7, <2>1 DEF Failure
    <3> QED  BY <2>0, <2>1, <3>1 DEF Blames
  <2>2. CASE ~Locked(w)
    <3>1. UNCHANGED <<source, item>>  BY <1>7, <2>2 DEF Failure
    <3> QED  BY <2>0, <3>1 DEF Goes
  <2> QED  BY <2>1, <2>2
<1>8. CASE Unavailable(w)
  <2>1. old.at # "idle" /\ Become(w, Failed(old)) /\ UNCHANGED <<source, item, reader, world, history>>
    BY <1>8 DEF Unavailable
  <2> QED  BY <2>1 DEF Goes
<1>9. CASE Crash(w)
  <2>1. Become(w, Idle) /\ UNCHANGED <<source, item, reader, world, history>>
    BY <1>9 DEF Crash
  <2> QED  BY <2>1 DEF Goes
<1> QED  BY <1>1, <1>2, <1>3, <1>4, <1>5, <1>6, <1>7, <1>8, <1>9, <1>10 DEF Work

LEMMA RunKind ==
    ASSUME Shapes, NEW r \in Readers, AwaitLiveSources(r) \/ GiveUp(r) \/ Search(r) \/ Publish(r)
    PROVE  Proves(r) \/ Finds(r) \/ Demands \/ \E end : Leaves(r, end)
<1>0. UNCHANGED <<world, served>>
  BY DEF AwaitLiveSources, GiveUp, Search, Publish
<1>1. CASE Leave(r, Quiet)
  BY <1>0, <1>1 DEF Leaves
<1>2. CASE AwaitLiveSources(r)
  <2>1. CASE /\ r \in source.done
             /\ reader' = [reader EXCEPT ![r].at = "proved"]
             /\ item' = [n \in Nodes |-> [item[n] EXCEPT !.upto = IF Done \in @ THEN @ \cup {r}
                                                                  ELSE @ \ {r}]]
             /\ UNCHANGED <<source, worker, shown, steady>>
    <3>1. reader[r].at = "waiting"  BY <1>2 DEF AwaitLiveSources
    <3> QED  BY <1>0, <2>1, <3>1 DEF Proves
  <2>2. CASE source' = [source EXCEPT !.poll = 0] /\ UNCHANGED <<item, worker, reader, shown, steady>>
    BY <1>0, <2>2 DEF Demands
  <2> QED  BY <1>1, <1>2, <2>1, <2>2 DEF AwaitLiveSources
<1>3. CASE GiveUp(r)
  BY <1>1, <1>3 DEF GiveUp
<1>4. CASE Search(r)
  <2>1. reader[r].at = "proved"  BY <1>4 DEF Search
  <2>2. PICK hits \in SUBSET {d \in Docs : Fresh(r, d) /\ ExternalAccess(d)} :
          IF hits = {} THEN Leave(r, Quiet)
          ELSE /\ reader' = [reader EXCEPT ![r].at = "found",
                                           ![r].evidence = {<<d, item[d].body>> : d \in hits}]
               /\ UNCHANGED <<source, item, worker, shown, steady>>
    BY <1>4 DEF Search
  <2>3. CASE hits = {}  BY <2>2, <2>3, <1>1
  <2>4. CASE hits # {}
    <3>1. hits \in SUBSET {d \in Docs : Fresh(r, d)}  BY <2>2
    <3> QED  BY <1>0, <2>1, <2>2, <2>4, <3>1 DEF Finds
  <2> QED  BY <2>3, <2>4
<1>5. CASE Publish(r)
  <2>1. CASE /\ \A e \in reader[r].evidence : ExternalAccess(e[1])
             /\ Leave(r, [Quiet EXCEPT !.at = "published"])
    <3>1. reader[r].at = "found"  BY <1>5 DEF Publish
    <3> QED  BY <1>0, <2>1, <3>1 DEF Leaves
  <2> QED  BY <1>1, <1>5, <2>1 DEF Publish
<1> QED  BY <1>2, <1>3, <1>4, <1>5

LEMMA Kinds ==
    ASSUME Shapes, [Next]_vars
    PROVE  Kind
<1>1. CASE UNCHANGED vars
  <2>1. Still  BY <1>1 DEF Still
  <2> QED  BY <2>1 DEF Kind
<1>2. CASE \E d \in Docs : (\E p \in Parents \cup {None} : Move(d, p)) \/ Share(d)
                           \/ \E b \in Texts : Edit(d, b)
  BY <1>2, OutsideKind DEF Kind
<1>3. CASE Link
  <2>1. Still  BY <1>3 DEF Still, Link
  <2> QED  BY <2>1 DEF Kind
<1>4. CASE CreateSource \/ DisableSource \/ (\E resume \in BOOLEAN : ScheduleSource(resume))
           \/ ClaimSource
  BY <1>4 DEF Kind
<1>5. CASE \E w \in Workers : Work(w) \/ Unavailable(w) \/ Crash(w)
  BY <1>5, WorkKind DEF Kind
<1>6. CASE \E r \in Readers : Ask(r) \/ AwaitLiveSources(r) \/ GiveUp(r) \/ Search(r) \/ Publish(r)
  BY <1>6, RunKind DEF Kind
<1>7. CASE Tick
  <2>1. Passes  BY <1>7 DEF Tick, Passes
  <2> QED  BY <2>1 DEF Kind
<1> QED  BY <1>1, <1>2, <1>3, <1>4, <1>5, <1>6, <1>7 DEF Next
-----------------------------------------------------------------------------
(* Types *)

LEMMA ScansKnown ==
    /\ NoScan \in Scans /\ NoScan.stage = None /\ NoScan.queue = <<>>
    /\ Begun \in Scans /\ Begun.stage = "workspaces" /\ Begun.queue = <<>> /\ Begun # NoScan
<1>1. <<>> \in Queue
  BY EmptySeq DEF Queue
<1>2. Begun.stage # NoScan.stage
  BY DEF Begun, NoScan, None
<1> QED  BY <1>1, <1>2 DEF NoScan, Begun, Scans

LEMMA IdleClaim ==
    /\ ClaimSound(Idle) /\ Idle.at = "idle" /\ Idle.node = None /\ Idle.left = 0 /\ Idle.scan = NoScan
<1>1. Idle \in Claims
  BY ScansKnown, KnowledgeAssumption DEF Idle, Claims
<1> QED  BY <1>1, ScansKnown DEF Idle, ClaimSound, None

LEMMA FailedClaim ==
    ASSUME NEW c, ClaimSound(c)
    PROVE  LET g == Failed(c) IN
           ClaimSound(g) /\ g.at = "failing" /\ g.scan = c.scan /\ g.node = c.node /\ g.left = 0
<1> DEFINE g == Failed(c)
<1>1. c.scan \in Scans /\ c.node \in Docs \cup {None}
  BY DEF ClaimSound, Claims
<1>2. Idle \in Claims
  BY IdleClaim DEF ClaimSound
<1>3. g = [Idle EXCEPT !.at = "failing", !.scan = c.scan, !.node = c.node]
  BY DEF Failed
<1>4. /\ g.at = "failing" /\ g.scan = c.scan /\ g.node = c.node /\ g.left = 0 /\ g.page = {}
      /\ g \in Claims
  BY <1>1, <1>2, <1>3, IdleClaim DEF Claims, Idle
<1> HIDE DEF g
<1>5. ClaimSound(g)
  BY <1>4 DEF ClaimSound
<1> QED  BY <1>4, <1>5 DEF g

LEMMA ClaimGoes ==
    ASSUME Shapes, NEW w \in Workers, NEW c, Goes(w, c)
    PROVE  /\ ClaimSound(c) /\ c.at \in {"idle", "failing", "calling", "answered"}
           /\ c.at # "idle" => worker[w].at # "idle" /\ c.scan = worker[w].scan
           /\ c.node # None => c.left = 0 /\ c.at # "answered"
           /\ c.at = "answered" => c.scan.stage = "workspaces"
<1> DEFINE o == worker[w]
<1>0. ClaimSound(o) /\ o \in Claims
  BY DEF Shapes, ClaimSound
<1>1. CASE c = Idle
  BY <1>1, IdleClaim
<1>2. CASE o.at # "idle" /\ c = Failed(o)
  BY <1>0, <1>2, FailedClaim
<1>3. CASE /\ o.at = "claimed" /\ o.scan.stage # "read"
           /\ c = [o EXCEPT !.at = "calling"]
  <2> HIDE DEF o
  <2>1. /\ c \in Claims /\ c.at = "calling" /\ c.scan = o.scan /\ c.node = o.node /\ c.page = o.page
        /\ c.left = o.left
    BY <1>0, <1>3 DEF Claims
  <2>2. o.node = None /\ o.page = {} /\ o.left = 0
    BY <1>0, <1>3 DEF ClaimSound
  <2>3. ClaimSound(c)
    BY <1>0, <2>1, <2>2 DEF ClaimSound
  <2>4. o.at # "idle"  BY <1>3
  <2> QED  BY <2>1, <2>2, <2>3, <2>4 DEF o
<1>4. CASE /\ o.at = "claimed" /\ o.scan.stage = "read"
           /\ \E d \in Docs : c = [o EXCEPT !.at = "calling", !.node = d]
  <2> HIDE DEF o
  <2>0. PICK d \in Docs : c = [o EXCEPT !.at = "calling", !.node = d]
    BY <1>4
  <2>1. /\ c \in Claims /\ c.at = "calling" /\ c.scan = o.scan /\ c.node = d /\ c.page = o.page
        /\ c.left = o.left
    BY <1>0, <2>0 DEF Claims
  <2>2. o.node = None /\ o.page = {} /\ o.left = 0 /\ d # None
    BY <1>0, <1>4, KnowledgeAssumption DEF ClaimSound, Nodes
  <2>3. ClaimSound(c)
    BY <1>0, <1>4, <2>1, <2>2 DEF ClaimSound
  <2>4. o.at # "idle"  BY <1>4
  <2> QED  BY <2>1, <2>2, <2>3, <2>4 DEF o
<1>5. CASE /\ o.at = "calling" /\ o.node = None /\ o.scan.stage = "workspaces"
           /\ c = [o EXCEPT !.at = "answered"]
  <2> HIDE DEF o
  <2>1. /\ c \in Claims /\ c.at = "answered" /\ c.scan = o.scan /\ c.node = o.node /\ c.page = o.page
        /\ c.left = o.left
    BY <1>0, <1>5 DEF Claims
  <2>3. ClaimSound(c)
    BY <1>0, <1>5, <2>1 DEF ClaimSound
  <2>4. o.at # "idle"  BY <1>5
  <2> QED  BY <1>5, <2>1, <2>3, <2>4 DEF o
<1> QED  BY <1>1, <1>2, <1>3, <1>4, <1>5 DEF Goes

\* A page of a directory is some of what it has left, and all of it when it says so.
LEMMA ClaimListed ==
    ASSUME Shapes, NEW w \in Workers, NEW c, GoesListed(w, c)
    PROVE  LET here == Head(worker[w].scan.queue) IN
           /\ ClaimSound(c) /\ c.at = "answered" /\ c.node = None
           /\ worker[w].at # "idle" /\ c.scan = worker[w].scan /\ c.scan.stage = "nodes"
           /\ c.page \subseteq Children(here.parent) \ here.listed
           /\ ~c.more => c.page = Children(here.parent) \ here.listed
           /\ c.deep = {f \in c.page \cap Folders : Children(f) # {}}
<1> DEFINE o == worker[w]
           here == Head(o.scan.queue)
<1>0. ClaimSound(o) /\ o \in Claims
  BY DEF Shapes, ClaimSound
<1>1. o.at = "calling" /\ o.node = None /\ o.scan.stage = "nodes"
  BY SMTT(30) DEF GoesListed
<1>2. PICK some \in Pages(here) :
          c = [o EXCEPT !.at = "answered", !.page = some,
                        !.more = Children(here.parent) \ here.listed # some,
                        !.deep = {f \in some \cap Folders : Children(f) # {}}]
  BY Zenon DEF GoesListed
<1>3. some \subseteq Children(here.parent) \ here.listed
  BY DEF Pages
<1>4. \A p : Children(p) \subseteq Nodes
  BY DEF Children, Nodes
<1> DEFINE more == Children(here.parent) \ here.listed # some
           deep == {f \in some \cap Folders : Children(f) # {}}
<1>5. some \in SUBSET Nodes /\ more \in BOOLEAN /\ deep \in SUBSET Folders
  BY <1>3, <1>4
<1>6. c = [o EXCEPT !.at = "answered", !.page = some, !.more = more, !.deep = deep]
  BY <1>2
<1> HIDE DEF more, deep
<1>7. /\ c \in Claims /\ c.at = "answered" /\ c.scan = o.scan /\ c.node = o.node /\ c.page = some
      /\ c.left = o.left /\ c.more = more /\ c.deep = deep
  <2> HIDE DEF o, here
  <2> QED  BY <1>0, <1>5, <1>6 DEF Claims
<1>8. ClaimSound(c)
  <2> HIDE DEF o, here
  <2> QED  BY <1>0, <1>1, <1>7 DEF ClaimSound
<1>9. ~c.more => c.page = Children(here.parent) \ here.listed
  BY <1>7 DEF more
<1>10. c.deep = {f \in c.page \cap Folders : Children(f) # {}}
  BY <1>7 DEF deep
<1> QED  BY <1>1, <1>3, <1>7, <1>8, <1>9, <1>10

LEMMA ClaimFetched ==
    ASSUME Shapes, NEW w \in Workers, NEW c, GoesFetched(w, c)
    PROVE  LET o == worker[w] IN
           /\ ClaimSound(c) /\ c.at = "fetched" /\ c.scan = o.scan /\ c.node = o.node
           /\ c.left = o.left /\ c.node \in Docs /\ <<c.node, c.body>> = Text(c.node)
           /\ o.at # "idle" /\ Serves(c.node)
<1> DEFINE o == worker[w]
           b == vendor[o.node].body
<1>0. ClaimSound(o) /\ o \in Claims
  BY DEF Shapes, ClaimSound
<1>1. o.at = "calling" /\ o.node # None /\ Serves(o.node) /\ c = [o EXCEPT !.at = "fetched", !.body = b]
  BY DEF GoesFetched
<1>2. o.node \in Docs
  BY <1>0, <1>1 DEF Claims
<1>3. b \in Texts /\ b # None
  <2>1. vendor[o.node] \in Originals  BY <1>2 DEF Shapes
  <2>2. b \in Texts  BY <2>1 DEF Originals
  <2> QED  BY <2>2, KnowledgeAssumption DEF Texts, Gaps, Refused, None
<1> HIDE DEF b
<1>4. /\ c \in Claims /\ c.at = "fetched" /\ c.scan = o.scan /\ c.node = o.node /\ c.page = o.page
      /\ c.left = o.left /\ c.body = b
  <2> HIDE DEF o
  <2> QED  BY <1>0, <1>1, <1>3 DEF Claims
<1>5. ClaimSound(c)
  <2> HIDE DEF o
  <2> QED  BY <1>0, <1>1, <1>3, <1>4 DEF ClaimSound
<1>6. <<c.node, c.body>> = Text(c.node)
  BY <1>4 DEF Text, b
<1> QED  BY <1>1, <1>2, <1>4, <1>5, <1>6

LEMMA ClaimChecked ==
    ASSUME Shapes, NEW w \in Workers, NEW c, GoesChecked(w, c)
    PROVE  LET o == worker[w] IN
           /\ ClaimSound(c) /\ c.at = "checked" /\ c.scan = o.scan /\ c.node = o.node
           /\ c.left = o.left /\ c.node \in Docs /\ c.body = o.body
           /\ o.at = "fetched" /\ Serves(c.node)
<1> DEFINE o == worker[w]
<1>0. ClaimSound(o) /\ o \in Claims
  BY DEF Shapes, ClaimSound
<1>1. o.at = "fetched" /\ Serves(o.node) /\ c = [o EXCEPT !.at = "checked"]
  BY DEF GoesChecked
<1>2. o.node \in Docs /\ o.node # None
  BY <1>0, <1>1 DEF Claims, ClaimSound
<1>3. /\ c \in Claims /\ c.at = "checked" /\ c.scan = o.scan /\ c.node = o.node /\ c.page = o.page
      /\ c.left = o.left /\ c.body = o.body
  <2> HIDE DEF o
  <2> QED  BY <1>0, <1>1 DEF Claims
<1>4. ClaimSound(c)
  <2> HIDE DEF o
  <2> QED  BY <1>0, <1>1, <1>2, <1>3 DEF ClaimSound
<1> QED  BY <1>1, <1>2, <1>3, <1>4

LEMMA ClaimStamped ==
    ASSUME Shapes, NEW w \in Workers, NEW c, GoesStamped(w, c)
    PROVE  LET o == worker[w] IN
           /\ ClaimSound(c) /\ c.at = "answered" /\ c.scan = o.scan /\ c.node = o.node
           /\ c.left = AccessLease /\ c.node \in Docs /\ c.body = o.body /\ c.after = Asking
           /\ o.at = "checked" /\ c.scan.stage = "read"
<1> DEFINE o == worker[w]
<1>0. ClaimSound(o) /\ o \in Claims
  BY DEF Shapes, ClaimSound
<1>1. /\ o.at = "checked"
      /\ c = [o EXCEPT !.at = "answered", !.left = AccessLease, !.after = Asking]
  BY DEF GoesStamped
<1>2. o.node \in Docs /\ o.node # None
  BY <1>0, <1>1 DEF Claims, ClaimSound
<1>3. AccessLease \in 0 .. AccessLease /\ Asking \in SUBSET Readers
  BY KnowledgeAssumption DEF Asking
<1>4. /\ c \in Claims /\ c.at = "answered" /\ c.scan = o.scan /\ c.node = o.node /\ c.page = o.page
      /\ c.left = AccessLease /\ c.body = o.body /\ c.after = Asking
  <2> HIDE DEF o
  <2> QED  BY <1>0, <1>1, <1>3 DEF Claims
<1>5. ClaimSound(c)
  <2> HIDE DEF o
  <2> QED  BY <1>0, <1>1, <1>2, <1>4 DEF ClaimSound
<1>6. c.scan.stage = "read"
  BY <1>0, <1>2, <1>4 DEF ClaimSound
<1> QED  BY <1>1, <1>2, <1>4, <1>5, <1>6

\* What the steps make of one row, in terms of its fields
LEMMA RowCompleted ==
    ASSUME Shapes, Complete, NEW n \in Nodes
    PROVE  LET i == item[n]
               j == item'[n]
           IN  /\ RowSound(j) /\ j.access <= i.access
               /\ j.seen = i.seen /\ j.read = i.read /\ j.body = i.body /\ j.after = i.after
               /\ j.status \in {i.status, "MISSING"} /\ (i.seen => j.status = i.status)
               /\ \A r \in Readers : r \in j.upto <=> r \in i.upto
               /\ j.status # "ABSENT" => (Done \in j.upto <=> i.read)
<1> DEFINE i == item[n]
           j == item'[n]
           s == IF i.seen THEN i.status ELSE "MISSING"
           a == IF i.seen THEN i.access ELSE 0
           u == IF i.read THEN i.upto \cup {Done} ELSE i.upto \ {Done}
<1>0. RowSound(i) /\ i \in Rows /\ i.access \in Nat
  BY DEF Shapes, RowSound, Rows
<1>1. j = IF i.status = "ABSENT" THEN i ELSE [i EXCEPT !.status = s, !.access = a, !.upto = u]
  BY DEF Complete
<1>2. CASE i.status = "ABSENT"
  BY <1>0, <1>1, <1>2
<1>3. CASE i.status # "ABSENT"
  <2>1. /\ s \in {"ABSENT", "PENDING", "READY", "PARTIAL", "MISSING", "FAILED"}
        /\ a \in 0 .. AccessLease /\ a <= i.access /\ (a > 0 => s = i.status /\ a = i.access)
        /\ s \in {i.status, "MISSING"} /\ (i.seen => s = i.status)
    BY <1>0, KnowledgeAssumption DEF Rows
  <2>2. /\ u \in SUBSET (Readers \cup {Done}) /\ (Done \in u <=> i.read)
        /\ \A r \in Readers : r \in u <=> r \in i.upto
    BY <1>0, KnowledgeAssumption DEF Rows
  <2>3. j = [i EXCEPT !.status = s, !.access = a, !.upto = u]
    BY <1>1, <1>3
  <2> HIDE DEF i, j, s, a, u
  <2>4. /\ j \in Rows /\ j.status = s /\ j.access = a /\ j.upto = u
        /\ j.seen = i.seen /\ j.read = i.read /\ j.body = i.body /\ j.after = i.after
    BY <1>0, <2>1, <2>2, <2>3 DEF Rows
  <2>5. RowSound(j)
    BY <1>0, <2>1, <2>4 DEF RowSound
  <2>6. j.access <= i.access  BY <2>1, <2>4
  <2> QED  BY <2>1, <2>2, <2>4, <2>5, <2>6 DEF i, j
<1> QED  BY <1>2, <1>3

LEMMA RowListed ==
    ASSUME Shapes, NEW n \in Nodes
    PROVE  LET i == item[n]
               j == Listed(n)
           IN  /\ RowSound(j) /\ j.access <= i.access
               /\ j.seen /\ j.read = i.read /\ j.body = i.body /\ j.after = i.after /\ j.upto = i.upto
               /\ j.status = "READY" <=> i.status = "READY"
               /\ j.status \in {"READY", "PENDING", "PARTIAL"}
<1> DEFINE i == item[n]
           j == Listed(n)
           s == IF n \in Docs THEN "PENDING" ELSE "PARTIAL"
<1>0. RowSound(i) /\ i \in Rows /\ i.access \in Nat
  BY DEF Shapes, RowSound, Rows
<1>1. j = IF i.status = "READY" THEN [i EXCEPT !.seen = TRUE]
          ELSE [i EXCEPT !.seen = TRUE, !.access = 0, !.status = s]
  BY DEF Listed
<1>2. CASE i.status = "READY"
  <2>1. j = [i EXCEPT !.seen = TRUE]  BY <1>1, <1>2
  <2> HIDE DEF i, j, s
  <2>2. /\ j \in Rows /\ j.seen = TRUE /\ j.status = i.status /\ j.access = i.access /\ j.upto = i.upto
        /\ j.read = i.read /\ j.body = i.body /\ j.after = i.after
    BY <1>0, <2>1 DEF Rows
  <2>3. RowSound(j)  BY <1>0, <2>2 DEF RowSound
  <2> QED  BY <1>0, <1>2, <2>2, <2>3 DEF i, j
<1>3. CASE i.status # "READY"
  <2>1. j = [i EXCEPT !.seen = TRUE, !.access = 0, !.status = s]  BY <1>1, <1>3
  <2>2. s \in {"PENDING", "PARTIAL"} /\ 0 \in 0 .. AccessLease  BY KnowledgeAssumption
  <2> HIDE DEF i, j, s
  <2>3. /\ j \in Rows /\ j.seen = TRUE /\ j.status = s /\ j.access = 0 /\ j.upto = i.upto
        /\ j.read = i.read /\ j.body = i.body /\ j.after = i.after
    BY <1>0, <2>1, <2>2 DEF Rows
  <2>4. RowSound(j)  BY <1>0, <2>2, <2>3 DEF RowSound
  <2> QED  BY <1>0, <1>3, <2>2, <2>3, <2>4 DEF i, j
<1> QED  BY <1>2, <1>3

LEMMA RowAccepted ==
    ASSUME Shapes, NEW c, ClaimSound(c), c.node # None, c.at = "answered", c.body # Refused
    PROVE  LET j == Accepted(c) IN
           /\ c.node \in Docs /\ RowSound(j) /\ j.access <= c.left
           /\ j.seen /\ j.read /\ j.after = c.after /\ Done \in j.upto
           /\ j.status \in {"READY", "PARTIAL"} /\ (j.status = "READY" => j.body = c.body)
<1> DEFINE o == item[c.node]
           u == Asking \cup {Done}
           i == [o EXCEPT !.seen = TRUE, !.read = TRUE, !.after = c.after, !.upto = u]
           j == Accepted(c)
<1>0. c.node \in Docs /\ c.node \in Nodes /\ c.after \in SUBSET Readers /\ c.left \in 0 .. AccessLease
      /\ c.body \in Bodies \cup {Gaps}
  BY DEF ClaimSound, Claims, Nodes, Texts
<1>1. RowSound(o) /\ o \in Rows
  BY <1>0 DEF Shapes, RowSound
<1>2. u \in SUBSET (Readers \cup {Done}) /\ Done \in u
  BY DEF Asking
<1>3. j = IF c.body = Gaps THEN [i EXCEPT !.status = "PARTIAL", !.access = 0]
          ELSE [i EXCEPT !.status = "READY", !.access = c.left, !.body = c.body]
  BY DEF Accepted
<1> HIDE DEF u, o, j
<1>4. i \in Rows /\ i.seen = TRUE /\ i.read = TRUE /\ i.after = c.after /\ i.upto = u
  BY <1>0, <1>1, <1>2 DEF Rows
<1> HIDE DEF i
<1>5. CASE c.body = Gaps
  <2>1. j = [i EXCEPT !.status = "PARTIAL", !.access = 0]  BY <1>3, <1>5
  <2>2. 0 \in 0 .. AccessLease /\ 0 <= c.left  BY <1>0, KnowledgeAssumption
  <2>3. /\ j \in Rows /\ j.status = "PARTIAL" /\ j.access = 0 /\ j.upto = u
        /\ j.seen /\ j.read /\ j.after = c.after
    BY <1>4, <2>1, <2>2 DEF Rows
  <2>4. RowSound(j)  BY <2>3 DEF RowSound
  <2> QED  BY <1>0, <1>2, <2>2, <2>3, <2>4 DEF j
<1>6. CASE c.body # Gaps
  <2>1. j = [i EXCEPT !.status = "READY", !.access = c.left, !.body = c.body]  BY <1>3, <1>6
  <2>2. c.body \in Bodies /\ c.body # None  BY <1>0, <1>6, KnowledgeAssumption DEF None
  <2>3. /\ j \in Rows /\ j.status = "READY" /\ j.access = c.left /\ j.upto = u /\ j.body = c.body
        /\ j.seen /\ j.read /\ j.after = c.after
    BY <1>0, <1>4, <2>1, <2>2 DEF Rows
  <2>4. RowSound(j)  BY <2>2, <2>3 DEF RowSound
  <2>5. c.left <= c.left  BY <1>0
  <2> QED  BY <1>0, <1>2, <2>3, <2>4, <2>5 DEF j
<1> QED  BY <1>5, <1>6

LEMMA RowBlamed ==
    ASSUME Shapes, NEW c, ClaimSound(c), NEW n \in Nodes
    PROVE  LET i == item[n]
               j == Blamed(c)[n]
           IN  \/ j = i /\ c.node # None
               \/ /\ RowSound(j) /\ j.access = 0 /\ j.seen = i.seen /\ j.body = i.body
                  /\ j.after = i.after /\ j.status # "READY" /\ j.status \in {i.status, "FAILED"}
<1> DEFINE i == item[n]
           j == Blamed(c)[n]
           u == Asking \cup {Done}
           s == IF i.status = "READY" THEN "FAILED" ELSE i.status
<1>0. RowSound(i) /\ i \in Rows /\ 0 \in 0 .. AccessLease /\ item = [m \in Nodes |-> item[m]]
  BY KnowledgeAssumption DEF Shapes, RowSound
<1>1. CASE c.node # None /\ n # c.node
  <2>1. c.node \in Nodes  BY <1>1 DEF ClaimSound, Claims, Nodes
  <2>2. j = i  BY <1>0, <1>1, <2>1 DEF Blamed
  <2> QED  BY <1>1, <2>2
<1>2. CASE c.node # None /\ n = c.node
  <2>1. j = [i EXCEPT !.read = TRUE, !.status = "FAILED", !.access = 0, !.upto = u]
    BY <1>0, <1>2 DEF Blamed
  <2>2. u \in SUBSET (Readers \cup {Done})  BY DEF Asking
  <2> HIDE DEF i, j, u
  <2>3. /\ j \in Rows /\ j.access = 0 /\ j.seen = i.seen /\ j.body = i.body /\ j.after = i.after
        /\ j.status = "FAILED"
    BY <1>0, <2>1, <2>2 DEF Rows
  <2>4. RowSound(j)  BY <2>3 DEF RowSound
  <2> QED  BY <2>3, <2>4 DEF i, j
<1>3. CASE c.node = None
  <2>1. j = [i EXCEPT !.access = 0, !.status = s]
    BY <1>3 DEF Blamed
  <2>2. s \in {i.status, "FAILED"} /\ s # "READY"  OBVIOUS
  <2> HIDE DEF i, j, s
  <2>3. /\ j \in Rows /\ j.access = 0 /\ j.seen = i.seen /\ j.body = i.body /\ j.after = i.after
        /\ j.status = s
    BY <1>0, <2>1, <2>2 DEF Rows
  <2>4. RowSound(j)  BY <2>2, <2>3 DEF RowSound
  <2> QED  BY <2>2, <2>3, <2>4 DEF i, j
<1> QED  BY <1>1, <1>2, <1>3

LEMMA RowClaimed ==
    ASSUME Shapes, NEW n \in Nodes
    PROVE  LET i == item[n]
               j == [i EXCEPT !.seen = FALSE, !.read = FALSE]
           IN  /\ RowSound(j) /\ j.access = i.access /\ ~j.seen /\ ~j.read
               /\ j.body = i.body /\ j.after = i.after /\ j.upto = i.upto /\ j.status = i.status
<1> DEFINE i == item[n]
           j == [i EXCEPT !.seen = FALSE, !.read = FALSE]
<1>0. RowSound(i) /\ i \in Rows
  BY DEF Shapes, RowSound
<1> HIDE DEF i
<1>1. /\ j \in Rows /\ j.access = i.access /\ ~j.seen /\ ~j.read
      /\ j.body = i.body /\ j.after = i.after /\ j.upto = i.upto /\ j.status = i.status
  BY <1>0 DEF Rows
<1> HIDE DEF j
<1>2. RowSound(j)  BY <1>0, <1>1 DEF RowSound
<1> QED  BY <1>1, <1>2 DEF i, j

LEMMA RowScheduled ==
    ASSUME Shapes, NEW n \in Nodes
    PROVE  LET i == item[n]
               j == [i EXCEPT !.status = "PENDING", !.access = 0]
           IN  /\ RowSound(j) /\ j.access = 0 /\ j.seen = i.seen /\ j.read = i.read
               /\ j.body = i.body /\ j.after = i.after /\ j.upto = i.upto /\ j.status = "PENDING"
<1> DEFINE i == item[n]
           j == [i EXCEPT !.status = "PENDING", !.access = 0]
<1>0. RowSound(i) /\ i \in Rows /\ 0 \in 0 .. AccessLease
  BY KnowledgeAssumption DEF Shapes, RowSound
<1> HIDE DEF i
<1>1. /\ j \in Rows /\ j.access = 0 /\ j.seen = i.seen /\ j.read = i.read
      /\ j.body = i.body /\ j.after = i.after /\ j.upto = i.upto /\ j.status = "PENDING"
  BY <1>0 DEF Rows
<1> HIDE DEF j
<1>2. RowSound(j)  BY <1>0, <1>1 DEF RowSound
<1> QED  BY <1>1, <1>2 DEF i, j

LEMMA RowLeft ==
    ASSUME Shapes, NEW n \in Nodes, NEW r \in Readers, NEW end, Leave(r, end)
    PROVE  LET i == item[n]
               j == item'[n]
           IN  /\ RowSound(j) /\ j.access = i.access /\ j.seen = i.seen /\ j.read = i.read
               /\ j.body = i.body /\ j.after = i.after \ {r} /\ j.upto = i.upto \ {r}
               /\ j.status = i.status
<1> DEFINE i == item[n]
           a == i.after \ {r}
           u == i.upto \ {r}
           j == item'[n]
<1>0. RowSound(i) /\ i \in Rows
  BY DEF Shapes, RowSound
<1>1. a \in SUBSET Readers /\ u \in SUBSET (Readers \cup {Done})
  BY <1>0 DEF Rows
<1>2. j = [i EXCEPT !.after = a, !.upto = u]
  BY DEF Leave
<1> HIDE DEF i, j, a, u
<1>3. /\ j \in Rows /\ j.access = i.access /\ j.seen = i.seen /\ j.read = i.read
      /\ j.body = i.body /\ j.after = a /\ j.upto = u /\ j.status = i.status
  BY <1>0, <1>1, <1>2 DEF Rows
<1>4. RowSound(j)
  BY <1>0, <1>3 DEF RowSound
<1> QED  BY <1>3, <1>4 DEF i, j, a, u

LEMMA RowProved ==
    ASSUME Shapes, NEW n \in Nodes, NEW r \in Readers
    PROVE  LET i == item[n]
               j == [i EXCEPT !.upto = IF Done \in @ THEN @ \cup {r} ELSE @ \ {r}]
           IN  /\ RowSound(j) /\ j.access = i.access /\ j.seen = i.seen /\ j.read = i.read
               /\ j.body = i.body /\ j.after = i.after /\ j.status = i.status
               /\ Done \in j.upto <=> Done \in i.upto
               /\ r \in j.upto <=> Done \in i.upto
               /\ \A q \in Readers \ {r} : q \in j.upto <=> q \in i.upto
<1> DEFINE i == item[n]
           u == IF Done \in i.upto THEN i.upto \cup {r} ELSE i.upto \ {r}
           j == [i EXCEPT !.upto = u]
<1>0. RowSound(i) /\ i \in Rows
  BY DEF Shapes, RowSound
<1>1. u \in SUBSET (Readers \cup {Done})
  BY <1>0 DEF Rows
<1>2. /\ Done \in u <=> Done \in i.upto
      /\ r \in u <=> Done \in i.upto
      /\ \A q \in Readers \ {r} : q \in u <=> q \in i.upto
  BY KnowledgeAssumption
<1>3. [i EXCEPT !.upto = IF Done \in @ THEN @ \cup {r} ELSE @ \ {r}] = j
  OBVIOUS
<1> HIDE DEF i, u
<1>4. /\ j \in Rows /\ j.access = i.access /\ j.seen = i.seen /\ j.read = i.read
      /\ j.body = i.body /\ j.after = i.after /\ j.upto = u /\ j.status = i.status
  BY <1>0, <1>1 DEF Rows
<1>5. RowSound(j)
  <2> HIDE DEF j
  <2> QED  BY <1>0, <1>4 DEF RowSound
<1> QED  BY <1>2, <1>3, <1>4, <1>5 DEF i

LEMMA DownSmaller ==
    ASSUME NEW m \in Nat, NEW k \in 0 .. m
    PROVE  Down(k) \in 0 .. m /\ Down(k) <= k /\ (Down(k) > 0 => k > 0)
BY DEF Down

LEMMA RowPassed ==
    ASSUME Shapes, NEW n \in Nodes
    PROVE  LET i == item[n]
               j == [i EXCEPT !.access = Down(@)]
           IN  /\ RowSound(j) /\ j.access = Down(i.access) /\ j.seen = i.seen /\ j.read = i.read
               /\ j.body = i.body /\ j.after = i.after /\ j.upto = i.upto /\ j.status = i.status
<1> DEFINE i == item[n]
           a == Down(i.access)
           j == [i EXCEPT !.access = a]
<1>0. RowSound(i) /\ i \in Rows /\ i.access \in 0 .. AccessLease
  BY DEF Shapes, RowSound, Rows
<1>1. a \in 0 .. AccessLease /\ (a > 0 => i.access > 0)
  BY <1>0, DownSmaller, KnowledgeAssumption
<1>2. [i EXCEPT !.access = Down(@)] = j
  OBVIOUS
<1> HIDE DEF i, a
<1>3. /\ j \in Rows /\ j.access = a /\ j.seen = i.seen /\ j.read = i.read
      /\ j.body = i.body /\ j.after = i.after /\ j.upto = i.upto /\ j.status = i.status
  BY <1>0, <1>1 DEF Rows
<1>4. RowSound(j)
  <2> HIDE DEF j
  <2> QED  BY <1>0, <1>1, <1>3 DEF RowSound
<1> QED  BY <1>2, <1>3, <1>4 DEF i, a

\* The claims that a departing Run or the clock touches
LEMMA ClaimTouched ==
    ASSUME NEW c, ClaimSound(c), NEW r
    PROVE  LET g == [c EXCEPT !.after = @ \ {r}]
               h == [c EXCEPT !.left = Down(@)]
           IN  /\ ClaimSound(g) /\ g.at = c.at /\ g.scan = c.scan /\ g.node = c.node /\ g.page = c.page
               /\ g.deep = c.deep /\ g.more = c.more /\ g.body = c.body /\ g.left = c.left
               /\ g.after = c.after \ {r}
               /\ ClaimSound(h) /\ h.at = c.at /\ h.scan = c.scan /\ h.node = c.node /\ h.page = c.page
               /\ h.deep = c.deep /\ h.more = c.more /\ h.body = c.body /\ h.after = c.after
               /\ h.left = Down(c.left)
<1> DEFINE a == c.after \ {r}
           t == Down(c.left)
           g == [c EXCEPT !.after = a]
           h == [c EXCEPT !.left = t]
<1>0. c \in Claims /\ c.left \in 0 .. AccessLease
  BY DEF ClaimSound, Claims
<1>1. a \in SUBSET Readers /\ t \in 0 .. AccessLease /\ (c.left = 0 => t = 0)
  BY <1>0, DownSmaller, KnowledgeAssumption DEF Claims, Down
<1>2. [c EXCEPT !.after = @ \ {r}] = g /\ [c EXCEPT !.left = Down(@)] = h
  OBVIOUS
<1> HIDE DEF a, t
<1>3. /\ g \in Claims /\ g.at = c.at /\ g.scan = c.scan /\ g.node = c.node /\ g.page = c.page
      /\ g.deep = c.deep /\ g.more = c.more /\ g.body = c.body /\ g.left = c.left
      /\ g.after = a
  BY <1>0, <1>1 DEF Claims
<1>4. /\ h \in Claims /\ h.at = c.at /\ h.scan = c.scan /\ h.node = c.node /\ h.page = c.page
      /\ h.deep = c.deep /\ h.more = c.more /\ h.body = c.body /\ h.after = c.after
      /\ h.left = t
  BY <1>0, <1>1 DEF Claims
<1>5. ClaimSound(g)
  <2> HIDE DEF g, h
  <2> QED  BY <1>3 DEF ClaimSound
<1>6. ClaimSound(h)
  <2> HIDE DEF g, h
  <2> QED  BY <1>1, <1>4 DEF ClaimSound
<1> QED  BY <1>2, <1>3, <1>4, <1>5, <1>6 DEF a, t

\* What the steps make of the source, in terms of its fields
LEMMA SourceTyped ==
    ASSUME Shapes
    PROVE  /\ source \in Sources /\ source.scan \in Scans /\ source.started \subseteq Readers
           /\ source.done \subseteq Readers /\ WorkLease \in 0 .. WorkLease /\ 0 \in 0 .. WorkLease
           /\ None \in Workers \cup {None} /\ NoScan \in Scans
           /\ source.lease \in 0 .. WorkLease /\ source.poll \in Nat
BY ScansKnown, KnowledgeAssumption DEF Shapes, SourceSound, Sources

LEMMA SourceCheckpointed ==
    ASSUME Shapes, NEW scan \in Scans, NEW pause \in Nat, Checkpoint(scan, pause),
           scan.stage = "nodes" => scan.queue # <<>>,
           scan.stage = "read" => scan.queue = <<>>
    PROVE  /\ SourceSound(source') /\ source'.scan = scan /\ source'.token = None
           /\ source'.started = source.started /\ source'.done = source.done
<1>1. source' = [source EXCEPT !.scan = scan, !.token = None, !.lease = 0, !.poll = pause]
  BY DEF Checkpoint
<1>2. /\ source' \in Sources /\ source'.scan = scan /\ source'.token = None
      /\ source'.started = source.started /\ source'.done = source.done
  BY <1>1, SourceTyped DEF Sources
<1> QED  BY <1>2 DEF SourceSound

LEMMA SourceCompleted ==
    ASSUME Shapes, Complete
    PROVE  /\ SourceSound(source') /\ source'.scan = NoScan /\ source'.token = None
           /\ source'.started = source.started /\ source'.done = source.started
<1>1. source' = [source EXCEPT !.scan = NoScan, !.token = None, !.lease = 0, !.poll = Poll,
                               !.done = source.started]
  BY DEF Complete
<1>2. /\ source' \in Sources /\ source'.scan = NoScan /\ source'.token = None
      /\ source'.started = source.started /\ source'.done = source.started
  BY <1>1, SourceTyped, KnowledgeAssumption DEF Sources
<1>3. source'.scan.stage = None /\ source'.scan.queue = <<>>
  BY <1>2, ScansKnown
<1> QED  BY <1>2, <1>3 DEF SourceSound, None

LEMMA SourceScheduled ==
    ASSUME Shapes, NEW resume, ScheduleSource(resume)
    PROVE  /\ SourceSound(source') /\ source'.scan = NoScan /\ source'.token = None
           /\ source'.started = source.started /\ source'.done = source.done
<1>1. source' = [source EXCEPT !.status = "ACTIVE", !.scan = NoScan, !.token = None,
                               !.lease = 0, !.poll = 0]
  BY DEF ScheduleSource
<1>2. /\ source' \in Sources /\ source'.scan = NoScan /\ source'.token = None
      /\ source'.started = source.started /\ source'.done = source.done
  BY <1>1, SourceTyped DEF Sources
<1>3. source'.scan.stage = None /\ source'.scan.queue = <<>>
  BY <1>2, ScansKnown
<1> QED  BY <1>2, <1>3 DEF SourceSound, None

LEMMA SourceClaimed ==
    ASSUME Shapes, ClaimSource
    PROVE  \E w \in Workers :
           /\ worker[w] = Idle
           /\ SourceSound(source') /\ source'.scan = source.scan /\ source'.token = w
           /\ source'.done = source.done
           /\ source.scan = NoScan =>
                /\ source'.started = Asking /\ steady' = [steady EXCEPT ![Scan] = Present]
                /\ item' = [n \in Nodes |-> [item[n] EXCEPT !.seen = FALSE, !.read = FALSE]]
           /\ source.scan # NoScan =>
                source'.started = source.started /\ steady' = steady /\ item' = item
           /\ worker' = [worker EXCEPT ![w] =
                           [Idle EXCEPT !.at = "claimed",
                                        !.scan = IF source.scan = NoScan THEN Begun ELSE source.scan]]
           /\ UNCHANGED <<reader, vendor, linked, served, shown>>
<1> DEFINE w == CHOOSE v \in Workers : worker[v] = Idle
<1>1. w \in Workers /\ worker[w] = Idle
  BY DEF ClaimSource
<1>2. /\ worker' = [worker EXCEPT ![w] =
                      [Idle EXCEPT !.at = "claimed",
                                   !.scan = IF source.scan = NoScan THEN Begun ELSE source.scan]]
      /\ UNCHANGED <<reader, vendor, linked, served, shown>>
  BY DEF ClaimSource
<1>3. Asking \in SUBSET Readers
  BY DEF Asking
<1>4. CASE source.scan = NoScan
  <2>1. /\ source' = [source EXCEPT !.token = w, !.lease = WorkLease, !.started = Asking]
        /\ steady' = [steady EXCEPT ![Scan] = Present]
        /\ item' = [n \in Nodes |-> [item[n] EXCEPT !.seen = FALSE, !.read = FALSE]]
    BY <1>4 DEF ClaimSource
  <2> HIDE DEF w
  <2>2. /\ source' \in Sources /\ source'.scan = source.scan /\ source'.token = w
        /\ source'.started = Asking /\ source'.done = source.done
    BY <1>1, <1>3, <2>1, SourceTyped DEF Sources
  <2>3. SourceSound(source')  BY <2>2 DEF SourceSound, Shapes
  <2> QED  BY <1>1, <1>2, <1>4, <2>1, <2>2, <2>3
<1>5. CASE source.scan # NoScan
  <2>1. /\ source' = [source EXCEPT !.token = w, !.lease = WorkLease]
        /\ item' = item /\ steady' = steady
    BY <1>5 DEF ClaimSource
  <2> HIDE DEF w
  <2>2. /\ source' \in Sources /\ source'.scan = source.scan /\ source'.token = w
        /\ source'.started = source.started /\ source'.done = source.done
    BY <1>1, <2>1, SourceTyped DEF Sources
  <2>3. SourceSound(source')  BY <2>2 DEF SourceSound, Shapes
  <2> QED  BY <1>1, <1>2, <1>5, <2>1, <2>2, <2>3
<1> QED  BY <1>4, <1>5

LEMMA SourceLeft ==
    ASSUME Shapes, NEW r \in Readers, NEW end, Leave(r, end)
    PROVE  /\ SourceSound(source') /\ source'.scan = source.scan /\ source'.token = source.token
           /\ source'.started = source.started \ {r} /\ source'.done = source.done \ {r}
           /\ source'.lease = source.lease
<1> DEFINE s == source.started \ {r}
           t == source.done \ {r}
<1>0. s \in SUBSET Readers /\ t \in SUBSET Readers
  BY SourceTyped
<1>1. source' = [source EXCEPT !.started = s, !.done = t]
  BY DEF Leave
<1> HIDE DEF s, t
<1>2. /\ source' \in Sources /\ source'.scan = source.scan /\ source'.token = source.token
      /\ source'.started = s /\ source'.done = t /\ source'.lease = source.lease
  BY <1>0, <1>1, SourceTyped DEF Sources
<1> QED  BY <1>2 DEF SourceSound, Shapes, s, t

\* The rest: a source that is registered, paused, demanded, or only grows older
LEMMA SourceTouched ==
    ASSUME Shapes, CreateSource \/ DisableSource \/ Demands \/ Passes
    PROVE  /\ SourceSound(source') /\ source'.scan = source.scan
           /\ source'.token \in {source.token, None} /\ (source'.lease > 0 => source.lease > 0)
           /\ source'.started = source.started /\ source'.done = source.done
<1>1. source' \in Sources /\ source'.scan = source.scan
      /\ source'.token \in {source.token, None} /\ (source'.lease > 0 => source.lease > 0)
      /\ source'.started = source.started /\ source'.done = source.done
  <2>1. CASE CreateSource
    <3>1. source' = [source EXCEPT !.status = "ACTIVE"]  BY <2>1 DEF CreateSource
    <3> QED  BY <3>1, SourceTyped DEF Sources
  <2>2. CASE DisableSource
    <3>1. source' = [source EXCEPT !.status = "PAUSED", !.token = None, !.lease = 0]
      BY <2>2 DEF DisableSource
    <3>2. source'.lease = 0  BY <3>1, SourceTyped DEF Sources
    <3>3. ~(source'.lease > 0)  BY <3>2
    <3> QED  BY <3>1, <3>3, SourceTyped DEF Sources
  <2>3. CASE Demands
    <3>1. source' = [source EXCEPT !.poll = 0]  BY <2>3 DEF Demands
    <3> QED  BY <3>1, SourceTyped DEF Sources
  <2>4. CASE Passes
    <3> DEFINE l == Down(source.lease)
               p == Down(source.poll)
    <3>1. source' = [source EXCEPT !.lease = l, !.poll = p]
      BY <2>4 DEF Passes
    <3>2. l \in 0 .. WorkLease /\ p \in Nat /\ (l > 0 => source.lease > 0)
      BY SourceTyped, KnowledgeAssumption DEF Down
    <3> HIDE DEF l, p
    <3> QED  BY <3>1, <3>2, SourceTyped DEF Sources
  <2> QED  BY <2>1, <2>2, <2>3, <2>4
<1> QED  BY <1>1 DEF SourceSound, Shapes

LEMMA SourceStep ==
    ASSUME Shapes, Kind
    PROVE  SourceSound(source')
<1>0. SourceSound(source) /\ \A w \in Workers : ClaimSound(worker[w]) /\ worker[w].scan \in Scans
  BY DEF Shapes, ClaimSound, Claims
<1>1. ASSUME source' = source PROVE SourceSound(source')
  BY <1>0, <1>1
<1>2. ASSUME NEW d \in Docs, NEW v, Outside(d, v) PROVE source' = source
  BY <1>2 DEF Outside, Note
<1>3. ASSUME NEW w \in Workers, NEW c, Carries(w, c) PROVE source' = source
  BY <1>3 DEF Carries
<1>4. ASSUME NEW w \in Workers, Completes(w) PROVE SourceSound(source')
  BY <1>4, SourceCompleted DEF Completes
<1>5. ASSUME NEW w \in Workers, Lists(w) PROVE SourceSound(source')
  <2> DEFINE c == worker[w]
             a == Advance(c)
  <2>1. ClaimSound(c) /\ c.at = "answered" /\ c.node = None /\ Checkpoint(a, 0)
    BY <1>0, <1>5 DEF Lists
  <2>2. c.scan.stage \in {"workspaces", "nodes"}
    BY <2>1 DEF ClaimSound
  <2>3. CASE c.scan.stage = "workspaces"
    <3> DEFINE e == [parent |-> Root, listed |-> {}]
    <3>1. a = [stage |-> "nodes", queue |-> <<e>>]
      BY <2>1, <2>3, AdvanceFirst
    <3>2. e \in Entry
      BY DEF Entry, Parents
    <3> HIDE DEF a, e
    <3>3. a \in Scans /\ a.stage = "nodes" /\ a.queue # <<>>
      BY <3>1, <3>2 DEF Scans, Queue, Entry
    <3> QED  BY <2>1, <3>3, SourceCheckpointed
  <2>4. CASE c.scan.stage = "nodes"
    <3>1. a \in Scans /\ (a.stage = "nodes" => a.queue # <<>>) /\ (a.stage = "read" => a.queue = <<>>)
      BY <2>1, <2>4, AdvanceNext
    <3> HIDE DEF a
    <3> QED  BY <2>1, <3>1, SourceCheckpointed
  <2> QED  BY <2>2, <2>3, <2>4
<1>6. ASSUME NEW w \in Workers, ReadsIn(w) PROVE SourceSound(source')
  <2>1. Checkpoint(worker[w].scan, 0)  BY <1>6 DEF ReadsIn
  <2> QED  BY <1>0, <2>1, SourceCheckpointed DEF ClaimSound
<1>7. ASSUME NEW w \in Workers, Blames(w) PROVE SourceSound(source')
  <2>1. Checkpoint(worker[w].scan, Backoff)  BY <1>7 DEF Blames
  <2> QED  BY <1>0, <2>1, SourceCheckpointed, KnowledgeAssumption DEF ClaimSound
<1>8. ASSUME NEW r \in Readers, Ask(r) \/ Proves(r) \/ Finds(r) PROVE source' = source
  BY <1>8 DEF Ask, Proves, Finds
<1>9. ASSUME NEW r \in Readers, NEW end, Leaves(r, end) PROVE SourceSound(source')
  BY <1>9, SourceLeft DEF Leaves
<1>10. CASE Still
  BY <1>1, <1>10 DEF Still
<1>11. ASSUME NEW resume \in BOOLEAN, ScheduleSource(resume) PROVE SourceSound(source')
  BY <1>11, SourceScheduled
<1>12. CASE ClaimSource
  BY <1>12, SourceClaimed
<1>13. CASE CreateSource \/ DisableSource \/ Demands \/ Passes
  BY <1>13, SourceTouched
<1> QED  BY <1>1, <1>2, <1>3, <1>4, <1>5, <1>6, <1>7, <1>8, <1>9, <1>10, <1>11, <1>12, <1>13 DEF Kind

LEMMA RowsStep ==
    ASSUME Shapes, Kind
    PROVE  item' = [n \in Nodes |-> item'[n]] /\ \A n \in Nodes : RowSound(item'[n])
<1>0. /\ item = [n \in Nodes |-> item[n]] /\ \A n \in Nodes : RowSound(item[n])
      /\ \A w \in Workers : ClaimSound(worker[w])
  BY DEF Shapes
<1> DEFINE Good == item' = [n \in Nodes |-> item'[n]] /\ \A n \in Nodes : RowSound(item'[n])
<1>1. ASSUME item' = item PROVE Good
  BY <1>0, <1>1
<1>2. ASSUME NEW d \in Docs, NEW v, Outside(d, v) PROVE item' = item
  BY <1>2 DEF Outside, Note
<1>3. ASSUME NEW w \in Workers, NEW c, Carries(w, c) PROVE item' = item
  BY <1>3 DEF Carries
<1>4. ASSUME NEW w \in Workers, Completes(w) PROVE Good
  <2>1. Complete  BY <1>4 DEF Completes
  <2>2. item' = [n \in Nodes |-> item'[n]]  BY <2>1 DEF Complete
  <2>3. \A n \in Nodes : RowSound(item'[n])  BY <2>1, RowCompleted
  <2> QED  BY <2>2, <2>3
<1>5. ASSUME NEW w \in Workers, Lists(w) PROVE Good
  <2>1. item' = [n \in Nodes |-> IF n \in worker[w].page THEN Listed(n) ELSE item[n]]
    BY <1>5 DEF Lists
  <2>2. \A n \in Nodes : RowSound(Listed(n))  BY RowListed
  <2> QED  BY <1>0, <2>1, <2>2
<1>6. ASSUME NEW w \in Workers, ReadsIn(w) PROVE Good
  <2>1. /\ item' = [item EXCEPT ![worker[w].node] = Accepted(worker[w])]
        /\ worker[w].at = "answered" /\ worker[w].node # None /\ worker[w].body # Refused
    BY <1>6 DEF ReadsIn
  <2>2. RowSound(Accepted(worker[w]))  BY <1>0, <2>1, RowAccepted
  <2> QED  BY <1>0, <2>1, <2>2
<1>7. ASSUME NEW w \in Workers, Blames(w) PROVE Good
  <2>1. item' = Blamed(worker[w])  BY SMTT(30), <1>7 DEF Blames
  <2>2. item' = [n \in Nodes |-> item'[n]]  BY Zenon, <1>0, <2>1 DEF Blamed
  <2>3. \A n \in Nodes : RowSound(item'[n])  BY <1>0, <2>1, RowBlamed
  <2> QED  BY <2>2, <2>3
<1>8. ASSUME NEW r \in Readers, Ask(r) \/ Finds(r) PROVE item' = item
  BY <1>8 DEF Ask, Finds
<1>9. ASSUME NEW r \in Readers, Proves(r) PROVE Good
  BY <1>9, RowProved DEF Proves
<1>10. ASSUME NEW r \in Readers, NEW end, Leaves(r, end) PROVE Good
  <2>1. Leave(r, end)  BY <1>10 DEF Leaves
  <2>2. item' = [n \in Nodes |-> item'[n]]  BY <2>1 DEF Leave
  <2>3. \A n \in Nodes : RowSound(item'[n])  BY <2>1, RowLeft
  <2> QED  BY <2>2, <2>3
<1>11. CASE Still \/ CreateSource \/ DisableSource \/ Demands
  BY <1>1, <1>11 DEF Still, CreateSource, DisableSource, Demands
<1>12. ASSUME NEW resume \in BOOLEAN, ScheduleSource(resume) PROVE Good
  <2>1. \/ item' = item
        \/ item' = [n \in Nodes |-> IF item[n].status = "READY"
                                    THEN [item[n] EXCEPT !.status = "PENDING", !.access = 0]
                                    ELSE item[n]]
    BY <1>12 DEF ScheduleSource
  <2> QED  BY <1>0, <2>1, RowScheduled
<1>13. CASE ClaimSource
  <2>1. item' = item \/ item' = [n \in Nodes |-> [item[n] EXCEPT !.seen = FALSE, !.read = FALSE]]
    BY <1>13, SourceClaimed
  <2> QED  BY <1>0, <2>1, RowClaimed
<1>14. CASE Passes
  BY <1>14, RowPassed DEF Passes
<1> QED  BY <1>1, <1>2, <1>3, <1>4, <1>5, <1>6, <1>7, <1>8, <1>9, <1>10, <1>11, <1>12, <1>13, <1>14
         DEF Kind

LEMMA ClaimCarried ==
    ASSUME Shapes, NEW w \in Workers, NEW c, Carries(w, c)
    PROVE  /\ ClaimSound(c) /\ worker' = [worker EXCEPT ![w] = c] /\ worker'[w] = c
           /\ \A v \in Workers \ {w} : worker'[v] = worker[v]
           /\ c.at # "idle" => worker[w].at # "idle" /\ c.scan = worker[w].scan
<1>1. worker' = [worker EXCEPT ![w] = c]
  BY DEF Carries, Become
<1>2. worker = [v \in Workers |-> worker[v]]
  BY DEF Shapes
<1>3. ClaimSound(c) /\ (c.at # "idle" => worker[w].at # "idle" /\ c.scan = worker[w].scan)
  <2>1. CASE Goes(w, c)  BY <2>1, ClaimGoes
  <2>2. CASE GoesListed(w, c)  BY <2>2, ClaimListed
  <2>3. CASE GoesFetched(w, c)  BY <2>3, ClaimFetched
  <2>4. CASE GoesChecked(w, c)  BY <2>4, ClaimChecked
  <2>5. CASE GoesStamped(w, c)  BY <2>5, ClaimStamped
  <2> QED  BY <2>1, <2>2, <2>3, <2>4, <2>5 DEF Carries
<1> QED  BY <1>1, <1>2, <1>3

LEMMA ClaimBegun ==
    ASSUME Shapes, NEW scan \in Scans, scan.stage = "nodes" => scan.queue # <<>>,
           scan.stage = "read" => scan.queue = <<>>
    PROVE  LET c == [Idle EXCEPT !.at = "claimed", !.scan = scan] IN
           ClaimSound(c) /\ c.at = "claimed" /\ c.scan = scan /\ c.node = None /\ c.left = 0
<1> DEFINE c == [Idle EXCEPT !.at = "claimed", !.scan = scan]
<1>1. Idle \in Claims /\ Idle.page = {} /\ Idle.node = None /\ Idle.left = 0
  BY IdleClaim DEF ClaimSound, Idle
<1>2. /\ c \in Claims /\ c.at = "claimed" /\ c.scan = scan /\ c.node = None /\ c.left = 0
      /\ c.page = {}
  BY <1>1 DEF Claims
<1> HIDE DEF c
<1>3. ClaimSound(c)  BY <1>2 DEF ClaimSound
<1> QED  BY <1>2, <1>3 DEF c

LEMMA ClaimsStep ==
    ASSUME Shapes, Kind
    PROVE  worker' = [w \in Workers |-> worker'[w]] /\ \A w \in Workers : ClaimSound(worker'[w])
<1>0. worker = [w \in Workers |-> worker[w]] /\ \A w \in Workers : ClaimSound(worker[w])
  BY DEF Shapes
<1> DEFINE Good == worker' = [w \in Workers |-> worker'[w]] /\ \A w \in Workers : ClaimSound(worker'[w])
<1>1. ASSUME worker' = worker PROVE Good
  BY <1>0, <1>1
<1>2. ASSUME NEW d \in Docs, NEW v, Outside(d, v) PROVE worker' = worker
  BY <1>2 DEF Outside, Note
<1>3. ASSUME NEW w \in Workers, NEW c, ClaimSound(c), worker' = [worker EXCEPT ![w] = c] PROVE Good
  BY <1>0, <1>3
<1>4. ASSUME NEW w \in Workers, NEW c, Carries(w, c) PROVE Good
  BY <1>3, <1>4, ClaimCarried
<1>5. ASSUME NEW w \in Workers, Completes(w) \/ Lists(w) \/ ReadsIn(w) \/ Blames(w) PROVE Good
  <2>1. worker' = [worker EXCEPT ![w] = Idle]
    BY <1>5 DEF Completes, Lists, ReadsIn, Blames, Become
  <2> QED  BY <1>3, <2>1, IdleClaim
<1>6. ASSUME NEW r \in Readers, Ask(r) \/ Finds(r) \/ Proves(r) PROVE worker' = worker
  BY <1>6 DEF Ask, Finds, Proves
<1>7. ASSUME NEW r \in Readers, NEW end, Leaves(r, end) PROVE Good
  <2>1. worker' = [w \in Workers |-> [worker[w] EXCEPT !.after = @ \ {r}]]
    BY <1>7 DEF Leaves, Leave
  <2> QED  BY <1>0, <2>1, ClaimTouched
<1>8. CASE Still \/ CreateSource \/ DisableSource \/ Demands
  BY <1>1, <1>8 DEF Still, CreateSource, DisableSource, Demands
<1>9. ASSUME NEW resume \in BOOLEAN, ScheduleSource(resume) PROVE worker' = worker
  BY <1>9 DEF ScheduleSource
<1>10. CASE ClaimSource
  <2> DEFINE scan == IF source.scan = NoScan THEN Begun ELSE source.scan
             c == [Idle EXCEPT !.at = "claimed", !.scan = scan]
  <2>1. PICK w \in Workers : worker' = [worker EXCEPT ![w] = c]
    BY <1>10, SourceClaimed
  <2>2. scan \in Scans /\ (scan.stage = "nodes" => scan.queue # <<>>)
        /\ (scan.stage = "read" => scan.queue = <<>>)
    BY SourceTyped, ScansKnown DEF Shapes, SourceSound
  <2> HIDE DEF scan
  <2>3. ClaimSound(c)  BY <2>2, ClaimBegun
  <2> QED  BY <1>3, <2>1, <2>3
<1>11. CASE Passes
  <2>1. worker' = [w \in Workers |-> [worker[w] EXCEPT !.left = Down(@)]]
    BY <1>11 DEF Passes
  <2> QED  BY <1>0, <2>1, ClaimTouched
<1> QED  BY <1>1, <1>2, <1>4, <1>5, <1>6, <1>7, <1>8, <1>9, <1>10, <1>11 DEF Kind

LEMMA ReadersStep ==
    ASSUME Shapes, Kind
    PROVE  reader' \in [Readers -> Searches]
<1>0. reader \in [Readers -> Searches]
  BY DEF Shapes
<1>1. ASSUME NEW r \in Readers, NEW s \in Searches, reader' = [reader EXCEPT ![r] = s]
      PROVE  reader' \in [Readers -> Searches]
  BY <1>0, <1>1
<1>2. Quiet \in Searches
  BY DEF Quiet, Searches
<1>3. ASSUME NEW d \in Docs, NEW v, Outside(d, v) PROVE reader' = reader
  BY <1>3 DEF Outside, Note
<1>4. ASSUME NEW w \in Workers, NEW c, Carries(w, c) PROVE reader' = reader
  BY <1>4 DEF Carries
<1>5. ASSUME NEW w \in Workers, Completes(w) \/ Lists(w) \/ Blames(w) PROVE reader' = reader
  BY <1>5 DEF Completes, Lists, Blames
<1>6. ASSUME NEW w \in Workers, ReadsIn(w) PROVE reader' \in [Readers -> Searches]
  <2> DEFINE c == worker[w]
  <2>1. Outdate(c) /\ c.node # None  BY <1>6 DEF ReadsIn
  <2>2. c.node \in Docs  BY <2>1 DEF Shapes, ClaimSound, Claims
  <2>3. \A r \in Readers :
          [reader[r] EXCEPT !.stale = @ \cup ({c.node} \cap {e[1] : e \in reader[r].evidence})]
             \in Searches
    BY <1>0, <2>2 DEF Searches
  <2> QED  BY <1>0, <2>1, <2>3 DEF Outdate
<1>7. ASSUME NEW r \in Readers, Ask(r) PROVE reader' \in [Readers -> Searches]
  <2>1. [Quiet EXCEPT !.at = "waiting"] \in Searches  BY <1>2 DEF Searches
  <2> QED  BY <1>1, <1>7, <2>1 DEF Ask
<1>8. ASSUME NEW r \in Readers, Proves(r) PROVE reader' \in [Readers -> Searches]
  <2>1. [reader[r] EXCEPT !.at = "proved"] \in Searches  BY <1>0 DEF Searches
  <2>2. reader' = [reader EXCEPT ![r] = [reader[r] EXCEPT !.at = "proved"]]  BY <1>0, <1>8 DEF Proves
  <2> QED  BY <1>1, <2>1, <2>2
<1>9. ASSUME NEW r \in Readers, Finds(r) PROVE reader' \in [Readers -> Searches]
  <2>1. PICK hits \in SUBSET {d \in Docs : Fresh(r, d)} :
           reader' = [reader EXCEPT ![r].at = "found",
                                    ![r].evidence = {<<d, item[d].body>> : d \in hits}]
    BY <1>9 DEF Finds
  <2> DEFINE e == {<<d, item[d].body>> : d \in hits}
             s == [reader[r] EXCEPT !.at = "found", !.evidence = e]
  <2>2. e \subseteq Docs \X Bodies
    <3>1. ASSUME NEW d \in hits PROVE d \in Docs /\ item[d].body \in Bodies
      <4>1. d \in Docs /\ item[d].status = "READY"  BY <2>1 DEF Fresh
      <4>2. RowSound(item[d])  BY <4>1 DEF Shapes, Nodes
      <4> QED  BY <4>1, <4>2 DEF RowSound, Rows
    <3> QED  BY <3>1
  <2> HIDE DEF e
  <2>3. s \in Searches  BY <1>0, <2>2 DEF Searches
  <2>4. reader' = [reader EXCEPT ![r] = s]  BY <1>0, <2>1 DEF e
  <2> QED  BY <1>1, <2>3, <2>4
<1>10. ASSUME NEW r \in Readers, NEW end, Leaves(r, end) PROVE reader' \in [Readers -> Searches]
  <2>1. [Quiet EXCEPT !.at = "published"] \in Searches  BY <1>2 DEF Searches
  <2>2. end \in Searches  BY SMTT(30), <1>2, <1>10, <2>1 DEF Leaves
  <2> QED  BY <1>1, <1>10, <2>2 DEF Leaves, Leave
<1>11. CASE \/ Still \/ CreateSource \/ DisableSource \/ Demands \/ Passes \/ ClaimSource
            \/ \E resume \in BOOLEAN : ScheduleSource(resume)
  BY <1>0, <1>11 DEF Still, CreateSource, DisableSource, Demands, Passes, ClaimSource, ScheduleSource
<1> QED  BY <1>0, <1>3, <1>4, <1>5, <1>6, <1>7, <1>8, <1>9, <1>10, <1>11 DEF Kind

LEMMA HistoryStep ==
    ASSUME Shapes, Kind
    PROVE  /\ vendor' \in [Docs -> Originals] /\ served' \in [Docs -> 0 .. AccessLease]
           /\ shown' \in [Readers -> SUBSET (Docs \X Texts)]
           /\ steady' \in [Readers \cup {Scan} -> SUBSET Docs]
<1>0. /\ vendor \in [Docs -> Originals] /\ served \in [Docs -> 0 .. AccessLease]
      /\ shown \in [Readers -> SUBSET (Docs \X Texts)]
      /\ steady \in [Readers \cup {Scan} -> SUBSET Docs]
  BY DEF Shapes
<1>1. AccessLease \in Nat /\ AccessLease \in 0 .. AccessLease /\ Present \subseteq Docs
  BY KnowledgeAssumption DEF Present
<1>2. CASE \E d \in Docs, v \in Originals : Outside(d, v)
  <2>1. PICK d \in Docs, v \in Originals : Outside(d, v)  BY <1>2
  <2>2. vendor' \in [Docs -> Originals]  BY <1>0, <2>1 DEF Outside
  <2>3. Note  BY <2>1 DEF Outside
  <2>4. served' \in [Docs -> 0 .. AccessLease]  BY <1>0, <1>1, <2>3 DEF Note
  <2>5. \A e \in Docs : Text(e)' \in Docs \X Texts  BY <2>2 DEF Text, Originals
  <2>6. shown' \in [Readers -> SUBSET (Docs \X Texts)]  BY <1>0, <2>3, <2>5 DEF Note
  <2>7. steady' \in [Readers \cup {Scan} -> SUBSET Docs]  BY <1>0, <2>1 DEF Outside
  <2> QED  BY <2>2, <2>4, <2>6, <2>7
<1>3. CASE \/ Still \/ CreateSource \/ DisableSource \/ Demands
           \/ \E resume \in BOOLEAN : ScheduleSource(resume)
           \/ \E w \in Workers : \/ \E c : Carries(w, c)
                                 \/ Completes(w) \/ Lists(w) \/ ReadsIn(w) \/ Blames(w)
           \/ \E r \in Readers : Proves(r) \/ Finds(r)
  <2>1. UNCHANGED <<vendor, served, shown, steady>>
    BY <1>3 DEF Still, CreateSource, DisableSource, Demands, ScheduleSource, Carries, Completes, Lists,
                ReadsIn, Blames, Proves, Finds
  <2> QED  BY SMTT(30), <1>0, <2>1
<1>4. CASE ClaimSource
  <2>1. UNCHANGED <<vendor, served, shown>>
        /\ (steady' = steady \/ steady' = [steady EXCEPT ![Scan] = Present])
    BY <1>4, SourceClaimed
  <2> QED  BY <1>0, <1>1, <2>1
<1>5. CASE Passes
  <2>1. UNCHANGED <<vendor, shown, steady>>
        /\ served' = [d \in Docs |-> IF Serves(d) THEN AccessLease
                                    ELSE IF Unstamped(d) THEN served[d] ELSE Down(served[d])]
    BY <1>5 DEF Passes
  <2>2. \A d \in Docs : Down(served[d]) \in 0 .. AccessLease
    BY <1>0, <1>1, DownSmaller
  <2> QED  BY <1>0, <1>1, <2>1, <2>2
<1>6. ASSUME NEW r \in Readers, Ask(r) \/ \E end : Leaves(r, end)
      PROVE  /\ vendor' = vendor /\ served' = served
             /\ shown' \in [Readers -> SUBSET (Docs \X Texts)]
             /\ steady' \in [Readers \cup {Scan} -> SUBSET Docs]
  <2>1. CASE Ask(r)
    <3>1. \A e \in Docs : Text(e) \in Docs \X Texts  BY <1>0 DEF Text, Originals
    <3>2. /\ UNCHANGED <<vendor, served>>
          /\ shown' = [shown EXCEPT ![r] = {Text(d) : d \in {e \in Docs : Serves(e)}}]
          /\ steady' = [steady EXCEPT ![r] = Present]
      BY <2>1 DEF Ask
    <3> QED  BY <1>0, <1>1, <3>1, <3>2
  <2>2. CASE \E end : Leaves(r, end)
    <3>1. /\ UNCHANGED <<vendor, served>>
          /\ shown' = [shown EXCEPT ![r] = {}] /\ steady' = [steady EXCEPT ![r] = {}]
      BY <2>2 DEF Leaves, Leave
    <3> QED  BY <1>0, <3>1
  <2> QED  BY <1>6, <2>1, <2>2
<1> QED  BY <1>0, <1>2, <1>3, <1>4, <1>5, <1>6 DEF Kind

LEMMA ShapesStep ==
    ASSUME Shapes, [Next]_vars
    PROVE  Shapes' /\ Kind
<1>1. Kind
  BY Kinds
<1>2. acts' \in 0 .. MaxActs /\ faults' \in 0 .. MaxFaults /\ linked' \in BOOLEAN
  BY BoundsKept
<1>3. SourceSound(source')
  BY <1>1, SourceStep
<1>4. item' = [n \in Nodes |-> item'[n]] /\ \A n \in Nodes : RowSound(item'[n])
  BY <1>1, RowsStep
<1>5. worker' = [w \in Workers |-> worker'[w]] /\ \A w \in Workers : ClaimSound(worker'[w])
  BY <1>1, ClaimsStep
<1>6. reader' \in [Readers -> Searches]
  BY <1>1, ReadersStep
<1>7. /\ vendor' \in [Docs -> Originals] /\ served' \in [Docs -> 0 .. AccessLease]
      /\ shown' \in [Readers -> SUBSET (Docs \X Texts)]
      /\ steady' \in [Readers \cup {Scan} -> SUBSET Docs]
  BY <1>1, HistoryStep
<1> QED  BY <1>1, <1>2, <1>3, <1>4, <1>5, <1>6, <1>7 DEF Shapes

LEMMA InitShapes ==
    ASSUME Init
    PROVE  Shapes
<1>1. SourceSound(source)
  <2>1. /\ source.scan = NoScan /\ source \in Sources
    BY ScansKnown, KnowledgeAssumption DEF Init, Sources
  <2> QED  BY <2>1, ScansKnown DEF SourceSound, None
<1>2. NoItem \in Rows /\ RowSound(NoItem)
  <2>1. NoItem \in Rows  BY KnowledgeAssumption DEF NoItem, Rows
  <2> QED  BY <2>1 DEF NoItem, RowSound
<1>3. item = [n \in Nodes |-> item[n]] /\ \A n \in Nodes : RowSound(item[n])
  BY <1>2 DEF Init
<1>4. worker = [w \in Workers |-> worker[w]] /\ \A w \in Workers : ClaimSound(worker[w])
  BY IdleClaim DEF Init
<1>5. reader \in [Readers -> Searches]
  BY DEF Init, Quiet, Searches
<1>6. vendor \in [Docs -> Originals]
  BY KnowledgeAssumption DEF Init, Originals, Texts
<1>7. linked \in BOOLEAN /\ acts \in 0 .. MaxActs /\ faults \in 0 .. MaxFaults
      /\ served \in [Docs -> 0 .. AccessLease]
  BY KnowledgeAssumption DEF Init
<1>8. shown \in [Readers -> SUBSET (Docs \X Texts)]
      /\ steady \in [Readers \cup {Scan} -> SUBSET Docs]
  BY DEF Init
<1> QED  BY <1>1, <1>3, <1>4, <1>5, <1>6, <1>7, <1>8 DEF Shapes

LEMMA ShapesTyped ==
    ASSUME Shapes
    PROVE  KnowledgeTypeOK
<1>1. source \in [status : {"ABSENT", "ACTIVE", "PAUSED"},
                  scan : [stage : {None, "workspaces", "nodes", "read"}, queue : Queue],
                  token : Workers \cup {None}, lease : 0 .. WorkLease, poll : Nat,
                  started : SUBSET Readers, done : SUBSET Readers]
  BY DEF Shapes, SourceSound, Sources, Scans
<1>2. \A n \in Nodes : item[n] \in Rows
      /\ (item[n].status = "READY" => item[n].body # None)
      /\ (item[n].access > 0 => item[n].status = "READY")
  BY DEF Shapes, RowSound
<1>3. item \in [Nodes -> Rows]
  <2>1. item = [n \in Nodes |-> item[n]]  BY DEF Shapes
  <2> QED  BY <1>2, <2>1
<1>4. \A w \in Workers :
          /\ worker[w].at \in {"idle", "claimed", "calling", "fetched", "checked", "answered",
                             "failing"}
          /\ worker[w].scan.stage = "nodes" => worker[w].scan.queue # <<>>
          /\ worker[w].left \in 0 .. AccessLease
  BY DEF Shapes, ClaimSound, Claims
<1>5. /\ reader \in [Readers -> Searches] /\ vendor \in [Docs -> Originals]
      /\ linked \in BOOLEAN /\ acts \in 0 .. MaxActs /\ faults \in 0 .. MaxFaults
  BY DEF Shapes
<1> QED  BY <1>1, <1>2, <1>3, <1>4, <1>5 DEF KnowledgeTypeOK, Rows, Searches, Originals

\* Source, rows, claims, Runs and vendor keep their types and timers their limits, through
\* every claim, page, reading, failure, crash and departure (knowledge/sync.py).
THEOREM KnowledgeTyped == Spec => []KnowledgeTypeOK
<1>1. Init => Shapes
  BY InitShapes
<1>2. Shapes /\ [Next]_vars => Shapes'
  BY ShapesStep
<1>3. Shapes => KnowledgeTypeOK
  BY ShapesTyped
<1> QED  BY <1>1, <1>2, <1>3, PTL DEF Spec
-----------------------------------------------------------------------------
(* Claims and grants *)

LEMMA LockHolds ==
    ASSUME Shapes, Claimed, NEW w \in Workers, Locked(w), worker[w].at # "idle"
    PROVE  /\ Holds(w)
           /\ worker[w].scan = IF source.scan = NoScan THEN Begun ELSE source.scan
           /\ source.scan = NoScan => \A n \in Nodes : ~item[n].seen
           /\ worker[w].scan.stage # "workspaces" => source.scan # NoScan /\ worker[w].scan = source.scan
           /\ worker[w].scan.stage = "workspaces" => \A n \in Nodes : ~item[n].seen
<1>1. Holds(w)
  BY DEF Locked, Held, Holds
<1>2. /\ worker[w].scan = IF source.scan = NoScan THEN Begun ELSE source.scan
      /\ source.scan = NoScan => \A n \in Nodes : ~item[n].seen
      /\ source.scan.stage = "workspaces" => \A n \in Nodes : ~item[n].seen
  BY <1>1 DEF Claimed
<1> QED  BY <1>1, <1>2, ScansKnown

LEMMA NobodyHolds ==
    ASSUME source'.token = None, NEW w \in Workers
    PROVE  ~(Holds(w)')
BY KnowledgeAssumption DEF Holds

\* Steps that leave the scan and what it has seen alone
Calm ==
    \/ \E d \in Docs, v \in Originals : Outside(d, v)
    \/ Still \/ CreateSource \/ DisableSource \/ Demands \/ Passes
    \/ \E w \in Workers : \E c : Carries(w, c)
    \/ \E r \in Readers : \/ Ask(r) \/ Proves(r) \/ Finds(r)
                          \/ \E end : Leaves(r, end)

LEMMA CalmSteps ==
    ASSUME Shapes, Calm
    PROVE  /\ source'.scan = source.scan /\ source'.token \in {source.token, None}
           /\ source'.lease > 0 => source.lease > 0
           /\ \A n \in Nodes : /\ item'[n].seen = item[n].seen /\ item'[n].status = item[n].status
                               /\ item'[n].body = item[n].body /\ item'[n].read = item[n].read
                               /\ item'[n].access <= item[n].access
           /\ \A w \in Workers : worker'[w].at # "idle" =>
                 worker[w].at # "idle" /\ worker'[w].scan = worker[w].scan
<1> DEFINE S == /\ source'.scan = source.scan /\ source'.token \in {source.token, None}
                /\ source'.lease > 0 => source.lease > 0
           Same(n) == /\ item'[n].seen = item[n].seen /\ item'[n].status = item[n].status
                      /\ item'[n].body = item[n].body /\ item'[n].read = item[n].read
                      /\ item'[n].access <= item[n].access
           I == \A n \in Nodes : Same(n)
           W == \A w \in Workers : worker'[w].at # "idle" =>
                   worker[w].at # "idle" /\ worker'[w].scan = worker[w].scan
<1>0. \A n \in Nodes : item[n].access \in 0 .. AccessLease /\ item[n].access <= item[n].access
  BY KnowledgeAssumption DEF Shapes, RowSound, Rows
<1>1. source' = source => S
  OBVIOUS
<1>2. item' = item => I
  BY <1>0
<1>3. worker' = worker => W
  OBVIOUS
<1>4. CASE \/ \E d \in Docs, v \in Originals : Outside(d, v)
           \/ Still \/ \E r \in Readers : Ask(r) \/ Finds(r)
  <2>1. UNCHANGED <<source, item, worker>>
    BY <1>4 DEF Outside, Note, Still, Ask, Finds
  <2> QED  BY <2>1, <1>1, <1>2, <1>3
<1>5. CASE CreateSource \/ DisableSource \/ Demands
  <2>1. UNCHANGED <<item, worker>>
    BY <1>5 DEF CreateSource, DisableSource, Demands
  <2> QED  BY <1>2, <1>3, <1>5, <2>1, SourceTouched
<1>6. CASE Passes
  <2>1. I
    <3>1. \A n \in Nodes : Down(item[n].access) <= item[n].access
      BY <1>0, KnowledgeAssumption, DownSmaller
    <3>2. \A n \in Nodes : item'[n] = [item[n] EXCEPT !.access = Down(@)]
      BY <1>6 DEF Passes
    <3> QED  BY ZenonT(60), <3>1, <3>2, RowPassed
  <2>2. W
    <3>1. ASSUME NEW w \in Workers
          PROVE  worker'[w].at = worker[w].at /\ worker'[w].scan = worker[w].scan
      <4>1. worker'[w] = [worker[w] EXCEPT !.left = Down(@)]  BY <1>6 DEF Passes
      <4>2. ClaimSound(worker[w])  BY DEF Shapes
      <4> QED  BY ONLY <4>1, <4>2, ClaimTouched
    <3> QED  BY <3>1
  <2> QED  BY <1>6, <2>1, <2>2, SourceTouched
<1>7. ASSUME NEW w \in Workers, NEW c, Carries(w, c) PROVE S /\ I /\ W
  <2>1. UNCHANGED <<source, item>>  BY <1>7 DEF Carries
  <2>2. W  BY <1>7, ClaimCarried
  <2> QED  BY <1>1, <1>2, <2>1, <2>2
<1>8. ASSUME NEW r \in Readers, Proves(r) PROVE S /\ I /\ W
  <2>1. UNCHANGED <<source, worker>>
        /\ \A n \in Nodes : item'[n] = [item[n] EXCEPT !.upto = IF Done \in @ THEN @ \cup {r} ELSE @ \ {r}]
    BY <1>8 DEF Proves
  <2>2. I
    <3>1. ASSUME NEW n \in Nodes
          PROVE  /\ item'[n].seen = item[n].seen /\ item'[n].status = item[n].status
                 /\ item'[n].body = item[n].body /\ item'[n].read = item[n].read
                 /\ item'[n].access = item[n].access
      <4>1. item'[n] = [item[n] EXCEPT !.upto = IF Done \in @ THEN @ \cup {r} ELSE @ \ {r}]  BY <2>1
      <4> QED  BY ONLY <4>1, Shapes, n \in Nodes, r \in Readers, RowProved
    <3> QED  BY <1>0, <3>1
  <2> QED  BY <1>1, <1>3, <2>1, <2>2
<1>9. ASSUME NEW r \in Readers, NEW end, Leaves(r, end) PROVE S /\ I /\ W
  <2>1. Leave(r, end)  BY <1>9 DEF Leaves
  <2>2. I
    <3> QED  BY <1>0, <2>1, RowLeft
  <2>3. W
    <3>1. ASSUME NEW w \in Workers
          PROVE  worker'[w].at = worker[w].at /\ worker'[w].scan = worker[w].scan
      <4>1. worker'[w] = [worker[w] EXCEPT !.after = @ \ {r}]  BY <2>1 DEF Leave
      <4>2. ClaimSound(worker[w])  BY DEF Shapes
      <4> QED  BY ONLY <4>1, <4>2, ClaimTouched
    <3> QED  BY <3>1
  <2> QED  BY <2>1, <2>2, <2>3, SourceLeft
<1> QED  BY <1>4, <1>5, <1>6, <1>7, <1>8, <1>9 DEF Calm

LEMMA KindCalm ==
    ASSUME Kind
    PROVE  \/ Calm
           \/ (\E resume \in BOOLEAN : ScheduleSource(resume)) \/ ClaimSource
           \/ \E w \in Workers : Completes(w) \/ Lists(w) \/ ReadsIn(w) \/ Blames(w)
BY Zenon DEF Kind, Calm

\* The scan that a tick leaves in the row
LEMMA ScanWritten ==
    ASSUME Shapes, NEW w \in Workers
    PROVE  /\ Completes(w) => source'.scan = NoScan /\ source'.token = None
           /\ Lists(w) => /\ source'.scan = Advance(worker[w]) /\ source'.token = None
                          /\ worker[w].scan.stage \in {"workspaces", "nodes"}
                          /\ source'.scan.stage \in {"nodes", "read"}
           /\ ReadsIn(w) => /\ source'.scan = worker[w].scan /\ source'.token = None
                            /\ worker[w].scan.stage = "read" /\ worker[w].scan.queue = <<>>
           /\ Blames(w) => source'.scan = worker[w].scan /\ source'.token = None
<1> DEFINE c == worker[w]
<1>0. ClaimSound(c) /\ c \in Claims /\ source \in Sources
  BY DEF Shapes, ClaimSound, SourceSound
<1>1. ASSUME NEW scan, NEW pause, Checkpoint(scan, pause)
      PROVE  source'.scan = scan /\ source'.token = None
  <2>1. source' = [source EXCEPT !.scan = scan, !.token = None, !.lease = 0, !.poll = pause]
    BY <1>1 DEF Checkpoint
  <2> QED  BY <1>0, <2>1 DEF Sources
<1>2. Completes(w) => source'.scan = NoScan /\ source'.token = None
  BY SourceCompleted DEF Completes
<1>3. ASSUME Lists(w)
      PROVE  /\ source'.scan = Advance(c) /\ source'.token = None
             /\ c.scan.stage \in {"workspaces", "nodes"} /\ source'.scan.stage \in {"nodes", "read"}
  <2>1. Checkpoint(Advance(c), 0) /\ c.at = "answered" /\ c.node = None  BY <1>3 DEF Lists
  <2>2. source'.scan = Advance(c) /\ source'.token = None  BY <1>1, <2>1
  <2>3. c.scan.stage \in {"workspaces", "nodes"}  BY <1>0, <2>1 DEF ClaimSound
  <2>4. Advance(c).stage \in {"nodes", "read"}
    <3>1. CASE c.scan.stage = "workspaces"  BY <1>0, <3>1, AdvanceFirst
    <3>2. CASE c.scan.stage = "nodes"  BY <1>0, <3>2, AdvanceNext
    <3> QED  BY <2>3, <3>1, <3>2
  <2> QED  BY <2>2, <2>3, <2>4
<1>4. ASSUME ReadsIn(w)
      PROVE  /\ source'.scan = c.scan /\ source'.token = None
             /\ c.scan.stage = "read" /\ c.scan.queue = <<>>
  <2>1. Checkpoint(c.scan, 0) /\ c.node # None  BY <1>4 DEF ReadsIn
  <2>2. source'.scan = c.scan /\ source'.token = None  BY <1>1, <2>1
  <2> QED  BY <1>0, <2>1, <2>2 DEF ClaimSound
<1>5. ASSUME Blames(w) PROVE source'.scan = c.scan /\ source'.token = None
  <2>1. Checkpoint(c.scan, Backoff)  BY <1>5 DEF Blames
  <2> QED  BY <1>1, <2>1
<1> QED  BY <1>2, <1>3, <1>4, <1>5

LEMMA ClaimedStep ==
    ASSUME Shapes, Claimed, Kind
    PROVE  Claimed'
<1>1. ASSUME source'.token = None,
             source'.scan.stage = "workspaces" => \A n \in Nodes : ~item'[n].seen,
             source'.scan.stage = None => source'.scan = NoScan
      PROVE  Claimed'
  BY <1>1, NobodyHolds DEF Claimed
<1>2. CASE Calm
  <2>1. /\ source'.scan = source.scan /\ source'.token \in {source.token, None}
        /\ \A n \in Nodes : item'[n].seen = item[n].seen
        /\ \A w \in Workers : worker'[w].at # "idle" =>
              worker[w].at # "idle" /\ worker'[w].scan = worker[w].scan
    BY <1>2, CalmSteps
  <2>2. ASSUME NEW w \in Workers, Holds(w)'
        PROVE  Holds(w) /\ worker'[w].scan = worker[w].scan
    BY <2>1, <2>2, KnowledgeAssumption DEF Holds
  <2> QED  BY <2>1, <2>2 DEF Claimed
<1>3. ASSUME NEW resume \in BOOLEAN, ScheduleSource(resume) PROVE Claimed'
  <2>1. source'.scan = NoScan /\ source'.token = None  BY <1>3, SourceScheduled
  <2>2. source'.scan.stage # "workspaces"  BY <2>1, ScansKnown DEF None
  <2> QED  BY <1>1, <2>1, <2>2
<1>4. CASE ClaimSource
  <2> DEFINE scan == IF source.scan = NoScan THEN Begun ELSE source.scan
             c == [Idle EXCEPT !.at = "claimed", !.scan = scan]
  <2>1. PICK w \in Workers :
           /\ source'.scan = source.scan /\ source'.token = w
           /\ source.scan = NoScan =>
                item' = [n \in Nodes |-> [item[n] EXCEPT !.seen = FALSE, !.read = FALSE]]
           /\ source.scan # NoScan => item' = item
           /\ worker' = [worker EXCEPT ![w] = c]
    BY <1>4, SourceClaimed
  <2>2. scan \in Scans /\ (scan.stage = "nodes" => scan.queue # <<>>)
        /\ (scan.stage = "read" => scan.queue = <<>>)
    BY SourceTyped, ScansKnown DEF Shapes, SourceSound
  <2>3. c.scan = scan
    <3> HIDE DEF scan
    <3> QED  BY <2>2, ClaimBegun
  <2>4. worker'[w] = c
    <3> HIDE DEF c
    <3>1. worker = [v \in Workers |-> worker[v]]  BY DEF Shapes
    <3> QED  BY <2>1, <3>1
  <2>5. source.scan = NoScan => \A n \in Nodes : ~item'[n].seen
    BY <2>1, RowClaimed
  <2>6. \A v \in Workers : Holds(v)' => v = w
    BY <2>1 DEF Holds
  <2>7. worker'[w].scan = IF source'.scan = NoScan THEN Begun ELSE source'.scan
    BY <2>1, <2>3, <2>4
  <2>8. source.scan.stage = "workspaces" => source.scan # NoScan
    BY ScansKnown DEF None
  <2> QED  BY <2>1, <2>5, <2>6, <2>7, <2>8 DEF Claimed
<1>5. ASSUME NEW w \in Workers, Completes(w) PROVE Claimed'
  <2>1. source'.scan = NoScan /\ source'.token = None  BY <1>5, ScanWritten
  <2>2. source'.scan.stage # "workspaces"  BY <2>1, ScansKnown DEF None
  <2> QED  BY <1>1, <2>1, <2>2
<1>6. ASSUME NEW w \in Workers, Lists(w) \/ ReadsIn(w) PROVE Claimed'
  <2>1. source'.token = None /\ source'.scan.stage \in {"nodes", "read"}  BY <1>6, ScanWritten
  <2>2. source'.scan.stage # "workspaces" /\ source'.scan.stage # None  BY <2>1 DEF None
  <2> QED  BY <1>1, <2>1, <2>2
<1>7. ASSUME NEW w \in Workers, Blames(w) PROVE Claimed'
  <2>1. source'.scan = worker[w].scan /\ source'.token = None  BY <1>7, ScanWritten
  <2>2. worker[w].at # "idle" /\ Locked(w) /\ item' = Blamed(worker[w])  BY <1>7 DEF Blames
  <2>3. ClaimSound(worker[w])  BY DEF Shapes
  <2>4. \A n \in Nodes : item'[n].seen = item[n].seen  BY <2>2, <2>3, RowBlamed
  <2>5. worker[w].scan.stage = "workspaces" => \A n \in Nodes : ~item[n].seen
    BY <2>2, LockHolds
  <2>6. worker[w].scan.stage = None => worker[w].scan = NoScan
    <3>1. worker[w].scan = IF source.scan = NoScan THEN Begun ELSE source.scan  BY <2>2, LockHolds
    <3> QED  BY <3>1, ScansKnown DEF Claimed, None
  <2> QED  BY <1>1, <2>1, <2>4, <2>5, <2>6
<1> QED  BY <1>2, <1>3, <1>4, <1>5, <1>6, <1>7, KindCalm

LEMMA ServedFrame ==
    ASSUME Shapes, Kind
    PROVE  \/ \E d \in Docs, v \in Originals : Outside(d, v)
           \/ Passes
           \/ vendor' = vendor /\ served' = served
<1>1. ASSUME NEW r \in Readers, Ask(r) \/ Proves(r) \/ Finds(r) \/ \E end : Leaves(r, end)
      PROVE  vendor' = vendor /\ served' = served
  BY <1>1 DEF Ask, Proves, Finds, Leaves
<1>2. ASSUME NEW w \in Workers, (\E c : Carries(w, c)) \/ Completes(w) \/ Lists(w) \/ ReadsIn(w) \/ Blames(w)
      PROVE  vendor' = vendor /\ served' = served
  BY <1>2 DEF Carries, Completes, Lists, ReadsIn, Blames
<1>3. ASSUME \/ Still \/ CreateSource \/ DisableSource \/ Demands \/ ClaimSource
             \/ \E resume \in BOOLEAN : ScheduleSource(resume)
      PROVE  vendor' = vendor /\ served' = served
  BY <1>3 DEF Still, CreateSource, DisableSource, Demands, ClaimSource, ScheduleSource
<1> QED  BY <1>1, <1>2, <1>3 DEF Kind

\* Only an accepted reading extends a grant, to what its claim carries.
LEMMA AccessExtended ==
    ASSUME Shapes, Kind, NEW n \in Nodes
    PROVE  \/ item'[n].access <= item[n].access
           \/ \E w \in Workers : Held(w) /\ worker[w].node = n /\ item'[n].access <= worker[w].left
<1>0. RowSound(item[n]) /\ item[n].access \in 0 .. AccessLease /\ item[n].access <= item[n].access
      /\ 0 <= item[n].access
  BY KnowledgeAssumption DEF Shapes, RowSound, Rows
<1>1. CASE Calm
  BY <1>1, CalmSteps
<1>2. ASSUME NEW resume \in BOOLEAN, ScheduleSource(resume) PROVE item'[n].access <= item[n].access
  <2>1. item'[n] = item[n] \/ item'[n] = [item[n] EXCEPT !.status = "PENDING", !.access = 0]
    BY <1>2 DEF ScheduleSource
  <2> QED  BY <1>0, <2>1, RowScheduled
<1>3. CASE ClaimSource
  <2>1. item'[n] = item[n] \/ item'[n] = [item[n] EXCEPT !.seen = FALSE, !.read = FALSE]
    BY <1>3, SourceClaimed
  <2> QED  BY <1>0, <2>1, RowClaimed
<1>4. ASSUME NEW w \in Workers, Completes(w) PROVE item'[n].access <= item[n].access
  BY <1>4, RowCompleted DEF Completes
<1>5. ASSUME NEW w \in Workers, Lists(w) PROVE item'[n].access <= item[n].access
  <2>1. item'[n] = item[n] \/ item'[n] = Listed(n)
    BY <1>5 DEF Lists
  <2> QED  BY <1>0, <2>1, RowListed
<1>6. ASSUME NEW w \in Workers, ReadsIn(w)
      PROVE  \/ item'[n].access <= item[n].access
             \/ Held(w) /\ worker[w].node = n /\ item'[n].access <= worker[w].left
  <2> DEFINE c == worker[w]
  <2>0. Held(w)
    BY <1>6 DEF ReadsIn, Locked
  <2>1. /\ item' = [item EXCEPT ![c.node] = Accepted(c)]
        /\ ClaimSound(c) /\ c.node # None /\ c.at = "answered" /\ c.body # Refused
        /\ item = [m \in Nodes |-> item[m]]
    BY <1>6 DEF ReadsIn, Shapes
  <2>2. Accepted(c).access <= c.left
    BY <2>1, RowAccepted
  <2>3. item'[n] = item[n] \/ (c.node = n /\ item'[n] = Accepted(c))
    BY <2>1
  <2> QED  BY <1>0, <2>0, <2>2, <2>3
<1>7. ASSUME NEW w \in Workers, Blames(w) PROVE item'[n].access <= item[n].access
  <2>1. item'[n] = Blamed(worker[w])[n] /\ ClaimSound(worker[w])
    BY <1>7 DEF Blames, Shapes
  <2>2. item'[n] = item[n] \/ item'[n].access = 0
    BY <2>1, RowBlamed
  <2> QED  BY <1>0, <2>2
<1> QED  BY <1>1, <1>2, <1>3, <1>4, <1>5, <1>6, <1>7, KindCalm

\* A claim that is held was held before, or is new and empty.
LEMMA HeldStep ==
    ASSUME Shapes, Kind, NEW w \in Workers, Held(w)', worker'[w].node # None
    PROVE  Held(w)
<1>0. source'.token = w /\ source'.lease > 0 /\ w # None
  BY KnowledgeAssumption DEF Held
<1>1. CASE Calm
  BY <1>0, <1>1, CalmSteps DEF Held
<1>2. ASSUME NEW resume \in BOOLEAN, ScheduleSource(resume) PROVE FALSE
  BY <1>0, <1>2, SourceScheduled
<1>3. ASSUME NEW v \in Workers, Completes(v) \/ Lists(v) \/ ReadsIn(v) \/ Blames(v) PROVE FALSE
  BY <1>0, <1>3, ScanWritten
<1>4. CASE ClaimSource
  <2> DEFINE scan == IF source.scan = NoScan THEN Begun ELSE source.scan
             c == [Idle EXCEPT !.at = "claimed", !.scan = scan]
  <2>1. PICK v \in Workers : source'.token = v /\ worker' = [worker EXCEPT ![v] = c]
    BY <1>4, SourceClaimed
  <2>2. scan \in Scans /\ (scan.stage = "nodes" => scan.queue # <<>>)
        /\ (scan.stage = "read" => scan.queue = <<>>)
    BY SourceTyped, ScansKnown DEF Shapes, SourceSound
  <2> HIDE DEF scan
  <2>3. c.node = None  BY <2>2, ClaimBegun
  <2> HIDE DEF c
  <2>4. worker'[w] = c
    <3>1. worker = [u \in Workers |-> worker[u]]  BY DEF Shapes
    <3> QED  BY <1>0, <2>1, <3>1
  <2> QED  BY <2>3, <2>4
<1> QED  BY <1>1, <1>2, <1>3, <1>4, KindCalm

\* A claim comes by a grant only from the check, at which the vendor serves its document.
LEMMA LeftExtended ==
    ASSUME Shapes, Kind, NEW w \in Workers, worker'[w].node # None
    PROVE  \/ /\ worker'[w].node = worker[w].node /\ worker'[w].left <= worker[w].left
              /\ worker'[w].at = "checked" => worker[w].at = "checked"
           \/ worker'[w].left = 0 /\ worker'[w].at # "checked"
           \/ /\ UNCHANGED <<vendor, served>> /\ worker'[w].node = worker[w].node
              /\ worker'[w].left <= worker[w].left /\ Serves(worker[w].node)
           \/ /\ UNCHANGED <<vendor, served>> /\ worker'[w].node = worker[w].node
              /\ worker[w].at = "checked" /\ worker'[w].at # "checked" /\ worker'[w].left = AccessLease
<1>0. /\ ClaimSound(worker[w]) /\ worker[w].left \in 0 .. AccessLease
      /\ worker[w].left <= worker[w].left /\ worker = [v \in Workers |-> worker[v]]
  BY KnowledgeAssumption DEF Shapes, ClaimSound, Claims
<1> DEFINE Kept == /\ worker'[w].node = worker[w].node /\ worker'[w].left <= worker[w].left
                   /\ worker'[w].at = "checked" => worker[w].at = "checked"
           Empty == worker'[w].left = 0 /\ worker'[w].at # "checked"
           Checked == /\ UNCHANGED <<vendor, served>> /\ worker'[w].node = worker[w].node
                      /\ worker'[w].left <= worker[w].left /\ Serves(worker[w].node)
           Stamped == /\ UNCHANGED <<vendor, served>> /\ worker'[w].node = worker[w].node
                      /\ worker[w].at = "checked" /\ worker'[w].at # "checked"
                      /\ worker'[w].left = AccessLease
           Good == Kept \/ Empty \/ Checked \/ Stamped
<1>1. ASSUME worker'[w] = worker[w] PROVE Kept
  BY <1>0, <1>1
<1>2. ASSUME NEW v \in Workers, NEW c, Carries(v, c) PROVE Good
  <2>1. v # w => worker'[w] = worker[w]  BY <1>2, ClaimCarried
  <2>2. CASE v = w
    <3>0. worker'[w] = c /\ UNCHANGED <<vendor, served>>  BY <1>2, <2>2, ClaimCarried DEF Carries
    <3>1. CASE Goes(w, c)
      <4>1. c.left = 0 /\ c.at # "checked"  BY <3>0, <3>1, ClaimGoes
      <4> QED  BY <3>0, <4>1
    <3>2. CASE GoesListed(w, c)  BY <3>0, <3>2, ClaimListed
    <3>3. CASE GoesFetched(w, c)
      <4>1. c.node = worker[w].node /\ c.left = worker[w].left /\ c.at # "checked"  BY <3>3, ClaimFetched
      <4> QED  BY <1>0, <3>0, <4>1
    <3>4. CASE GoesChecked(w, c)
      <4>1. c.node = worker[w].node /\ c.left = worker[w].left /\ Serves(c.node)  BY <3>4, ClaimChecked
      <4>2. Checked  BY <1>0, <3>0, <4>1
      <4> QED  BY <4>2
    <3>5. CASE GoesStamped(w, c)
      <4>1. /\ c.node = worker[w].node /\ worker[w].at = "checked" /\ c.at # "checked"
            /\ c.left = AccessLease
        BY <3>5, ClaimStamped
      <4>2. Stamped  BY <3>0, <4>1
      <4> QED  BY <4>2
    <3> QED  BY <1>2, <2>2, <3>1, <3>2, <3>3, <3>4, <3>5 DEF Carries
  <2> QED  BY <1>1, <2>1, <2>2
<1>3. ASSUME NEW v \in Workers, Completes(v) \/ Lists(v) \/ ReadsIn(v) \/ Blames(v) PROVE Good
  <2>1. worker' = [worker EXCEPT ![v] = Idle]
    BY <1>3 DEF Completes, Lists, ReadsIn, Blames, Become
  <2>2. worker'[w] = worker[w] \/ worker'[w] = Idle  BY <1>0, <2>1
  <2> QED  BY <1>1, <2>2, IdleClaim
<1>4. ASSUME NEW r \in Readers, NEW end, Leaves(r, end) PROVE Kept
  <2>1. worker'[w] = [worker[w] EXCEPT !.after = @ \ {r}]
    BY <1>4 DEF Leaves, Leave
  <2>2. /\ worker'[w].node = worker[w].node /\ worker'[w].left = worker[w].left
        /\ worker'[w].at = worker[w].at
    BY ONLY <1>0, <2>1, ClaimTouched
  <2> QED  BY <1>0, <2>2
<1>5. ASSUME Passes PROVE Kept
  <2>1. worker'[w] = [worker[w] EXCEPT !.left = Down(@)]
    BY <1>5 DEF Passes
  <2>2. /\ worker'[w].node = worker[w].node /\ worker'[w].left = Down(worker[w].left)
        /\ worker'[w].at = worker[w].at
    BY ONLY <1>0, <2>1, ClaimTouched
  <2>3. Down(worker[w].left) <= worker[w].left
    BY <1>0, DownSmaller, KnowledgeAssumption
  <2> QED  BY <2>2, <2>3
<1>6. ASSUME ClaimSource PROVE Good
  <2> DEFINE scan == IF source.scan = NoScan THEN Begun ELSE source.scan
             c == [Idle EXCEPT !.at = "claimed", !.scan = scan]
  <2>1. PICK v \in Workers : worker' = [worker EXCEPT ![v] = c]
    BY <1>6, SourceClaimed
  <2>2. scan \in Scans /\ (scan.stage = "nodes" => scan.queue # <<>>)
        /\ (scan.stage = "read" => scan.queue = <<>>)
    BY SourceTyped, ScansKnown DEF Shapes, SourceSound
  <2> HIDE DEF scan
  <2>3. c.left = 0 /\ c.at # "checked"  BY <2>2, ClaimBegun
  <2> HIDE DEF c
  <2>4. worker'[w] = worker[w] \/ worker'[w] = c  BY SMTT(30), <1>0, <2>1
  <2> QED  BY <1>1, <2>3, <2>4
<1>7. ASSUME \/ Still \/ CreateSource \/ DisableSource \/ Demands
             \/ \E resume \in BOOLEAN : ScheduleSource(resume)
             \/ \E d \in Docs, v \in Originals : Outside(d, v)
             \/ \E r \in Readers : Ask(r) \/ Proves(r) \/ Finds(r)
      PROVE  Kept
  <2>1. worker' = worker
    BY <1>7 DEF Still, CreateSource, DisableSource, Demands, ScheduleSource, Outside, Note, Ask, Proves,
                Finds
  <2> QED  BY <1>1, <2>1
<1>8. Good
  <2> HIDE DEF Kept, Empty, Checked, Stamped
  <2> QED  BY Zenon, <1>2, <1>3, <1>4, <1>5, <1>6, <1>7 DEF Kind
<1> QED  BY <1>8

LEMMA GrantsStep ==
    ASSUME Shapes, Shapes', Grants, Kind
    PROVE  Grants'
<1>0. /\ \A d \in Docs : /\ served[d] \in 0 .. AccessLease /\ served'[d] \in 0 .. AccessLease
                         /\ item[d].access \in 0 .. AccessLease /\ item'[d].access \in 0 .. AccessLease
      /\ \A w \in Workers : /\ worker[w].left \in 0 .. AccessLease /\ worker'[w].left \in 0 .. AccessLease
                            /\ worker'[w].node \in Docs \cup {None} /\ worker[w].node \in Docs \cup {None}
      /\ AccessLease \in Nat /\ None \notin Docs
  BY KnowledgeAssumption DEF Shapes, RowSound, Rows, ClaimSound, Claims, Nodes
<1>1. CASE Passes
  <2>1. vendor' = vendor /\ \A d \in Docs : Serves(d)' = Serves(d)
    BY <1>1 DEF Passes, Serves, Present
  <2>2. \A d \in Docs : served'[d] = IF Serves(d) THEN AccessLease
                                     ELSE IF Unstamped(d) THEN served[d] ELSE Down(served[d])
    BY <1>1 DEF Passes
  <2>3. ASSUME NEW d \in Docs, NEW k \in 0 .. AccessLease, k <= served[d] PROVE Down(k) <= served'[d]
    BY <1>0, <2>2, <2>3 DEF Down
  <2>4. \A d \in Docs : item'[d].access = Down(item[d].access)
    <3>1. ASSUME NEW d \in Docs PROVE item'[d].access = Down(item[d].access)
      <4>1. d \in Nodes /\ item'[d] = [item[d] EXCEPT !.access = Down(@)]  BY <1>1 DEF Passes, Nodes
      <4> QED  BY ONLY Shapes, <4>1, RowPassed
    <3> QED  BY <3>1
  <2>5. \A d \in Docs : Serves(d)' => served'[d] = AccessLease  BY <2>1, <2>2
  <2>6. \A d \in Docs : item'[d].access <= served'[d]  BY <1>0, <2>3, <2>4 DEF Grants
  <2>7. ASSUME NEW w \in Workers, Held(w)', worker'[w].node # None
        PROVE  /\ worker'[w].left <= served'[worker'[w].node]
               /\ worker'[w].at = "checked" => served'[worker'[w].node] = AccessLease
    <3>1. /\ worker'[w].node = worker[w].node /\ worker'[w].left = Down(worker[w].left)
          /\ worker'[w].at = worker[w].at
      <4>1. worker'[w] = [worker[w] EXCEPT !.left = Down(@)]  BY <1>1 DEF Passes
      <4>2. ClaimSound(worker[w])  BY DEF Shapes
      <4> QED  BY ONLY <4>1, <4>2, ClaimTouched
    <3>2. Held(w)  BY <2>7, HeldStep
    <3>3. /\ worker[w].left <= served[worker[w].node]
          /\ worker[w].at = "checked" => served[worker[w].node] = AccessLease
      BY <2>7, <3>1, <3>2 DEF Grants
    <3>4. worker[w].at = "checked" => Unstamped(worker[w].node)
      BY <3>2 DEF Unstamped
    <3>5. worker[w].node \in Docs /\ worker[w].left \in 0 .. AccessLease  BY <1>0, <2>7, <3>1
    <3>6. worker'[w].left <= served'[worker'[w].node]  BY <2>3, <3>1, <3>3, <3>5
    <3>7. worker'[w].at = "checked" => served'[worker'[w].node] = AccessLease
      BY <2>2, <3>1, <3>3, <3>4, <3>5
    <3> QED  BY <3>6, <3>7
  <2> QED  BY <2>5, <2>6, <2>7 DEF Grants
<1>2. CASE ~Passes
  <2>1. /\ \A d \in Docs : served[d] <= served'[d]
        /\ \A d \in Docs : Serves(d)' => served'[d] = AccessLease
    <3>1. CASE \E d \in Docs, v \in Originals : Outside(d, v)
      <4>1. \A d \in Docs : served'[d] = IF Serves(d)' THEN AccessLease ELSE served[d]
        BY <3>1 DEF Outside, Note
      <4> QED  BY <1>0, <4>1
    <3>2. CASE vendor' = vendor /\ served' = served
      <4>1. \A d \in Docs : Serves(d)' = Serves(d)  BY <3>2 DEF Serves, Present
      <4> QED  BY <1>0, <3>2, <4>1 DEF Grants
    <3> QED  BY <1>2, <3>1, <3>2, ServedFrame
  <2>2. \A d \in Docs : item'[d].access <= served'[d]
    <3> SUFFICES ASSUME NEW d \in Docs PROVE item'[d].access <= served'[d]
      OBVIOUS
    <3>1. \/ item'[d].access <= item[d].access
          \/ \E w \in Workers : Held(w) /\ worker[w].node = d /\ item'[d].access <= worker[w].left
      BY AccessExtended DEF Nodes
    <3>2. /\ item[d].access <= served[d]
          /\ \A w \in Workers : Held(w) /\ worker[w].node = d => worker[w].left <= served[d]
      BY <1>0 DEF Grants
    <3> QED  BY <1>0, <2>1, <3>1, <3>2
  <2>3. ASSUME NEW w \in Workers, Held(w)', worker'[w].node # None
        PROVE  /\ worker'[w].left <= served'[worker'[w].node]
               /\ worker'[w].at = "checked" => served'[worker'[w].node] = AccessLease
    <3> DEFINE d == worker'[w].node
    <3>0. d \in Docs /\ served[d] \in 0 .. AccessLease /\ served'[d] \in 0 .. AccessLease
          /\ served[d] <= served'[d] /\ AccessLease \in Nat /\ worker'[w].left \in 0 .. AccessLease
          /\ worker[w].left \in 0 .. AccessLease
      BY <1>0, <2>1, <2>3
    <3>1. Held(w)  BY <2>3, HeldStep
    <3>2. worker[w].node # None =>
             /\ worker[w].left <= served[worker[w].node]
             /\ worker[w].at = "checked" => served[worker[w].node] = AccessLease
      BY <3>1 DEF Grants
    <3>3. \/ /\ worker'[w].node = worker[w].node /\ worker'[w].left <= worker[w].left
             /\ worker'[w].at = "checked" => worker[w].at = "checked"
          \/ worker'[w].left = 0 /\ worker'[w].at # "checked"
          \/ /\ UNCHANGED <<vendor, served>> /\ worker'[w].node = worker[w].node
             /\ worker'[w].left <= worker[w].left /\ Serves(worker[w].node)
          \/ /\ UNCHANGED <<vendor, served>> /\ worker'[w].node = worker[w].node
             /\ worker[w].at = "checked" /\ worker'[w].at # "checked" /\ worker'[w].left = AccessLease
      BY <2>3, LeftExtended
    <3>4. CASE /\ worker'[w].node = worker[w].node /\ worker'[w].left <= worker[w].left
               /\ worker'[w].at = "checked" => worker[w].at = "checked"
      BY <2>3, <3>0, <3>2, <3>4
    <3>5. CASE worker'[w].left = 0 /\ worker'[w].at # "checked"
      BY <3>0, <3>5
    <3>6. CASE /\ UNCHANGED <<vendor, served>> /\ worker'[w].node = worker[w].node
               /\ worker'[w].left <= worker[w].left /\ Serves(worker[w].node)
      <4>1. served[d] = AccessLease  BY <3>0, <3>6 DEF Grants
      <4> QED  BY <2>3, <3>0, <3>2, <3>6, <4>1
    <3>7. CASE /\ UNCHANGED <<vendor, served>> /\ worker'[w].node = worker[w].node
               /\ worker[w].at = "checked" /\ worker'[w].at # "checked" /\ worker'[w].left = AccessLease
      BY <2>3, <3>0, <3>2, <3>7
    <3> QED  BY <3>3, <3>4, <3>5, <3>6, <3>7
  <2> QED  BY <2>1, <2>2, <2>3 DEF Grants
<1> QED  BY <1>1, <1>2

LEMMA InitGrants ==
    ASSUME Init
    PROVE  Grants
<1>1. \A d \in Docs : served[d] = AccessLease /\ item[d].access = 0
  BY DEF Init, NoItem, Nodes
<1>2. \A w \in Workers : worker[w].node = None
  BY IdleClaim DEF Init
<1> QED  BY <1>1, <1>2, KnowledgeAssumption DEF Grants

\* A copy is readable at most ACCESS_LEASE_SECONDS longer than the vendor lets the principal
\* read the original, whatever is paused, resumed, crashed over or accepted late
\* (external_access_clause, accept_read, and _failure of the sync worker).  The time from the
\* last check of a reading to its observed_at, less than one WORK_LEASE_SECONDS, comes on top.
THEOREM AccessStaysBounded == Spec => []AccessBounded
<1>1. Init => Shapes /\ Grants
  BY InitShapes, InitGrants
<1>2. Shapes /\ Grants /\ [Next]_vars => Shapes' /\ Grants'
  BY ShapesStep, GrantsStep
<1>3. Grants => AccessBounded
  BY DEF Grants, AccessBounded
<1> QED  BY <1>1, <1>2, <1>3, PTL DEF Spec
-----------------------------------------------------------------------------
(* Questions, and the readings they rest on *)

\* Steps that neither begin nor end anything for a Run
Aside ==
    \/ Still \/ CreateSource \/ DisableSource \/ Demands \/ Passes
    \/ \E resume \in BOOLEAN : ScheduleSource(resume)
    \/ \E w \in Workers : (\E c : Carries(w, c)) \/ Lists(w) \/ ReadsIn(w) \/ Blames(w)

LEMMA AsideSteps ==
    ASSUME Shapes, Aside
    PROVE  /\ source'.started = source.started /\ source'.done = source.done
           /\ UNCHANGED <<vendor, shown, steady>>
           /\ \A r \in Readers : reader'[r].at = reader[r].at /\ reader'[r].evidence = reader[r].evidence
<1>0. source \in Sources /\ reader \in [Readers -> Searches]
  BY SMTT(30) DEF Shapes, SourceSound
<1>1. UNCHANGED <<vendor, shown, steady>>
  BY DEF Aside, Still, CreateSource, DisableSource, Demands, Passes, ScheduleSource, Carries, Lists,
         ReadsIn, Blames
<1>2. ASSUME NEW scan, NEW pause, Checkpoint(scan, pause)
      PROVE  source'.started = source.started /\ source'.done = source.done
  <2>1. source' = [source EXCEPT !.scan = scan, !.token = None, !.lease = 0, !.poll = pause]
    BY <1>2 DEF Checkpoint
  <2> QED  BY <1>0, <2>1 DEF Sources
<1>3. source'.started = source.started /\ source'.done = source.done
  <2>1. CASE CreateSource \/ DisableSource \/ Demands \/ Passes  BY <2>1, SourceTouched
  <2>2. CASE \E resume \in BOOLEAN : ScheduleSource(resume)  BY <2>2, SourceScheduled
  <2>3. CASE Still \/ \E w \in Workers : \E c : Carries(w, c)  BY <2>3 DEF Still, Carries
  <2>4. CASE \E w \in Workers : Lists(w) \/ ReadsIn(w) \/ Blames(w)
    BY <2>4, <1>2 DEF Lists, ReadsIn, Blames
  <2> QED  BY <2>1, <2>2, <2>3, <2>4 DEF Aside
<1>4. \A r \in Readers : reader'[r].at = reader[r].at /\ reader'[r].evidence = reader[r].evidence
  <2>1. CASE \E w \in Workers : ReadsIn(w)
    <3>1. PICK w \in Workers : ReadsIn(w)  BY <2>1
    <3>2. Outdate(worker[w])  BY <3>1 DEF ReadsIn
    <3> QED  BY <1>0, <3>2 DEF Outdate, Searches
  <2>2. CASE ~ \E w \in Workers : ReadsIn(w)
    <3>1. reader' = reader
      BY <2>2 DEF Aside, Still, CreateSource, DisableSource, Demands, Passes, ScheduleSource, Carries,
                  Lists, Blames
    <3> QED  BY <3>1
  <2> QED  BY <2>1, <2>2
<1> QED  BY <1>1, <1>3, <1>4

LEMMA KindAside ==
    ASSUME Kind
    PROVE  \/ Aside \/ ClaimSource
           \/ \E d \in Docs, v \in Originals : Outside(d, v)
           \/ \E w \in Workers : Completes(w)
           \/ \E r \in Readers : \/ Ask(r) \/ Proves(r) \/ Finds(r)
                                 \/ \E end : Leaves(r, end)
BY Zenon DEF Kind, Aside

LEMMA RunAsks ==
    ASSUME Shapes, NEW r \in Readers, Ask(r)
    PROVE  /\ UNCHANGED <<source, item, worker, vendor>> /\ r \notin Asking
           /\ reader'[r].at = "waiting" /\ \A q \in Readers \ {r} : reader'[q] = reader[q]
           /\ shown'[r] = {Text(d) : d \in {e \in Docs : Serves(e)}}
           /\ \A q \in Readers \ {r} : shown'[q] = shown[q]
           /\ steady'[r] = Present /\ \A x \in (Readers \cup {Scan}) \ {r} : steady'[x] = steady[x]
<1>1. /\ reader \in [Readers -> Searches] /\ shown \in [Readers -> SUBSET (Docs \X Texts)]
      /\ steady \in [Readers \cup {Scan} -> SUBSET Docs]
  BY DEF Shapes
<1>2. [Quiet EXCEPT !.at = "waiting"].at = "waiting"
  BY DEF Quiet
<1> QED  BY <1>1, <1>2 DEF Ask

LEMMA RunLeaves ==
    ASSUME Shapes, NEW r \in Readers, NEW end, Leaves(r, end)
    PROVE  /\ UNCHANGED vendor /\ reader'[r].at \in {"idle", "published"}
           /\ \A q \in Readers \ {r} : reader'[q] = reader[q] /\ shown'[q] = shown[q]
           /\ steady'[r] = {} /\ \A x \in (Readers \cup {Scan}) \ {r} : steady'[x] = steady[x]
           /\ source'.scan = source.scan /\ source'.token = source.token
           /\ source'.started = source.started \ {r} /\ source'.done = source.done \ {r}
<1>1. /\ reader \in [Readers -> Searches] /\ shown \in [Readers -> SUBSET (Docs \X Texts)]
      /\ steady \in [Readers \cup {Scan} -> SUBSET Docs]
  BY DEF Shapes
<1>2. Leave(r, end)
  BY DEF Leaves
<1>3. end.at \in {"idle", "published"}
  BY DEF Leaves, Quiet
<1>4. /\ reader' = [reader EXCEPT ![r] = end] /\ shown' = [shown EXCEPT ![r] = {}]
      /\ steady' = [steady EXCEPT ![r] = {}]
  BY <1>2 DEF Leave
<1>5. UNCHANGED vendor  BY DEF Leaves
<1> QED  BY <1>1, <1>2, <1>3, <1>4, <1>5, SourceLeft

LEMMA RunProves ==
    ASSUME Shapes, NEW r \in Readers, Proves(r)
    PROVE  /\ UNCHANGED <<source, worker, vendor, shown, steady>> /\ r \in source.done
           /\ reader[r].at = "waiting" /\ reader'[r].at = "proved"
           /\ \A q \in Readers \ {r} : reader'[q] = reader[q]
<1>1. reader \in [Readers -> Searches]  BY DEF Shapes
<1>2. reader' = [reader EXCEPT ![r].at = "proved"]  BY DEF Proves
<1>3. reader'[r] = [reader[r] EXCEPT !.at = "proved"] /\ \A q \in Readers \ {r} : reader'[q] = reader[q]
  BY <1>1, <1>2
<1>4. reader'[r].at = "proved"  BY <1>1, <1>3 DEF Searches
<1> QED  BY <1>3, <1>4 DEF Proves

LEMMA RunFinds ==
    ASSUME Shapes, NEW r \in Readers, Finds(r)
    PROVE  /\ UNCHANGED <<source, item, worker, vendor, shown, steady>>
           /\ reader[r].at = "proved" /\ reader'[r].at = "found"
           /\ \A q \in Readers \ {r} : reader'[q] = reader[q]
           /\ \A e \in reader'[r].evidence : \E d \in Docs : Fresh(r, d) /\ e = <<d, item[d].body>>
<1>1. reader \in [Readers -> Searches]  BY DEF Shapes
<1>2. PICK hits \in SUBSET {d \in Docs : Fresh(r, d)} :
         reader' = [reader EXCEPT ![r].at = "found", ![r].evidence = {<<d, item[d].body>> : d \in hits}]
  BY DEF Finds
<1> DEFINE e == {<<d, item[d].body>> : d \in hits}
<1>3. \A x \in e : \E d \in Docs : Fresh(r, d) /\ x = <<d, item[d].body>>
  BY <1>2
<1>4. reader' = [reader EXCEPT ![r].at = "found", ![r].evidence = e]
  BY <1>2
<1> HIDE DEF e
<1>5. /\ reader'[r] = [reader[r] EXCEPT !.at = "found", !.evidence = e]
      /\ \A q \in Readers \ {r} : reader'[q] = reader[q]
  BY <1>1, <1>4
<1>6. reader'[r].at = "found" /\ reader'[r].evidence = e
  BY <1>1, <1>5 DEF Searches
<1> QED  BY <1>3, <1>5, <1>6 DEF Finds

LEMMA OutsideShown ==
    ASSUME Shapes, NEW d \in Docs, NEW v \in Originals, Outside(d, v)
    PROVE  /\ UNCHANGED <<source, item, worker, reader>>
           /\ \A r \in Readers : shown[r] \subseteq shown'[r]
           /\ \A r \in Asking : \A e \in Docs : Serves(e)' => Text(e)' \in shown'[r]
           /\ \A x \in Readers \cup {Scan} : steady'[x] \subseteq steady[x]
           /\ \A x \in Readers \cup {Scan}, e \in Docs :
                 e \in steady[x] => (e \in steady'[x] <=> (e # d \/ steady' = steady))
           /\ \A x \in Readers \cup {Scan} : \A e \in steady'[x] : vendor'[e].place = vendor[e].place
<1>0. /\ vendor \in [Docs -> Originals] /\ steady \in [Readers \cup {Scan} -> SUBSET Docs]
      /\ shown \in [Readers -> SUBSET (Docs \X Texts)]
  BY DEF Shapes
<1>1. Note  BY DEF Outside
<1>2. shown' = [r \in Readers |->
                  IF r \in Asking THEN shown[r] \cup {Text(e)' : e \in {g \in Docs : Serves(g)'}}
                  ELSE shown[r]]
      /\ UNCHANGED <<source, item, worker, reader>>
  BY <1>1 DEF Note
<1>3. Asking \subseteq Readers  BY DEF Asking
<1>4. \A r \in Readers : shown[r] \subseteq shown'[r]  BY <1>2
<1>5. \A r \in Asking : \A e \in Docs : Serves(e)' => Text(e)' \in shown'[r]  BY <1>2, <1>3
<1>6. vendor' = [vendor EXCEPT ![d] = v]
      /\ (\/ steady' = [x \in DOMAIN steady |-> steady[x] \ {d}]
          \/ steady' = steady /\ v.place = vendor[d].place)
  BY DEF Outside
<1>7. /\ \A x \in Readers \cup {Scan} : steady'[x] \subseteq steady[x]
      /\ \A x \in Readers \cup {Scan}, e \in Docs :
            e \in steady[x] => (e \in steady'[x] <=> (e # d \/ steady' = steady))
      /\ \A x \in Readers \cup {Scan} : \A e \in steady'[x] : vendor'[e].place = vendor[e].place
  BY <1>0, <1>6
<1> QED  BY <1>2, <1>4, <1>5, <1>7

LEMMA AskingIs ==
    \A r : r \in Asking <=> r \in Readers /\ reader[r].at \in {"waiting", "proved", "found"}
BY DEF Asking

LEMMA AskingBecomes ==
    \A r : r \in Asking' <=> r \in Readers /\ reader'[r].at \in {"waiting", "proved", "found"}
BY DEF Asking

LEMMA QuestionsStep ==
    ASSUME Shapes, Questions, Reads, Kind
    PROVE  Questions'
<1> DEFINE Q1 == source.done \subseteq source.started /\ source.started \subseteq Asking
           Q2 == \A r \in Asking, d \in Docs : Serves(d) => Text(d) \in shown[r]
           Q3 == \A r \in Readers : reader[r].at \in {"proved", "found"} => r \in source.done
           Q4 == \A r \in Readers : reader[r].at = "found" => reader[r].evidence \subseteq shown[r]
<1>0. Q1 /\ Q2 /\ Q3 /\ Q4
  BY DEF Questions
<1>1. ASSUME Q1', Q2', Q3', Q4' PROVE Questions'
  BY <1>1 DEF Questions
<1>2. ASSUME vendor' = vendor, shown' = shown, source'.started = source.started,
             source'.done = source.done,
             \A r \in Readers : reader'[r].at = reader[r].at /\ reader'[r].evidence = reader[r].evidence
      PROVE  Questions'
  <2>1. Asking' = Asking  BY <1>2, AskingIs, AskingBecomes
  <2>2. Q1'  BY <1>0, <1>2, <2>1
  <2>3. Q2'  BY <1>0, <1>2, <2>1 DEF Serves, Present, Text
  <2>4. Q3'  BY <1>0, <1>2
  <2>5. Q4'  BY <1>0, <1>2
  <2> QED  BY <1>1, <2>2, <2>3, <2>4, <2>5
<1>3. CASE Aside
  BY <1>2, <1>3, AsideSteps
<1>4. CASE ClaimSource
  <2>1. /\ UNCHANGED <<reader, vendor, shown>> /\ source'.done = source.done
        /\ source'.started \in {source.started, Asking}
    BY <1>4, SourceClaimed
  <2>2. Asking' = Asking  BY <2>1 DEF Asking
  <2>3. Q1'  BY <1>0, <2>1, <2>2
  <2>4. Q2'  BY <1>0, <2>1, <2>2 DEF Serves, Present, Text
  <2>5. Q3'  BY <1>0, <2>1
  <2>6. Q4'  BY <1>0, <2>1
  <2> QED  BY <1>1, <2>3, <2>4, <2>5, <2>6
<1>5. ASSUME NEW d \in Docs, NEW v \in Originals, Outside(d, v) PROVE Questions'
  <2>1. /\ UNCHANGED <<source, item, worker, reader>>
        /\ \A r \in Readers : shown[r] \subseteq shown'[r]
        /\ \A r \in Asking : \A e \in Docs : Serves(e)' => Text(e)' \in shown'[r]
    BY <1>5, OutsideShown
  <2>2. Asking' = Asking  BY <2>1 DEF Asking
  <2>3. Q1'  BY <1>0, <2>1, <2>2
  <2>4. Q2'  BY <2>1, <2>2
  <2>5. Q3'  BY <1>0, <2>1
  <2>6. Q4'  BY <1>0, <2>1
  <2> QED  BY <1>1, <2>3, <2>4, <2>5, <2>6
<1>6. ASSUME NEW w \in Workers, Completes(w) PROVE Questions'
  <2>1. UNCHANGED <<reader, vendor, shown>> /\ Complete  BY <1>6 DEF Completes
  <2>2. source'.started = source.started /\ source'.done = source.started  BY <2>1, SourceCompleted
  <2>3. Asking' = Asking  BY <2>1 DEF Asking
  <2>4. Q1'  BY <1>0, <2>2, <2>3
  <2>5. Q2'  BY <1>0, <2>1, <2>3 DEF Serves, Present, Text
  <2>6. Q3'  BY <1>0, <2>1, <2>2
  <2>7. Q4'  BY <1>0, <2>1
  <2> QED  BY <1>1, <2>4, <2>5, <2>6, <2>7
<1>7. ASSUME NEW r \in Readers, Ask(r) PROVE Questions'
  <2>1. /\ UNCHANGED <<source, vendor>> /\ r \notin Asking /\ reader'[r].at = "waiting"
        /\ \A q \in Readers \ {r} : reader'[q] = reader[q] /\ shown'[q] = shown[q]
        /\ shown'[r] = {Text(d) : d \in {e \in Docs : Serves(e)}}
    BY <1>7, RunAsks
  <2>2. Asking' = Asking \cup {r}  BY <2>1, AskingIs, AskingBecomes
  <2>3. \A d \in Docs : Serves(d)' = Serves(d) /\ Text(d)' = Text(d)  BY <2>1 DEF Serves, Present, Text
  <2>4. Q1'  BY <1>0, <2>1, <2>2
  <2>5. Q2'  BY <1>0, <2>1, <2>2, <2>3, AskingIs
  <2>6. Q3'  BY <1>0, <2>1
  <2>7. Q4'  BY <1>0, <2>1
  <2> QED  BY <1>1, <2>4, <2>5, <2>6, <2>7
<1>8. ASSUME NEW r \in Readers, NEW end, Leaves(r, end) PROVE Questions'
  <2>1. /\ UNCHANGED vendor /\ reader'[r].at \in {"idle", "published"}
        /\ \A q \in Readers \ {r} : reader'[q] = reader[q] /\ shown'[q] = shown[q]
        /\ source'.started = source.started \ {r} /\ source'.done = source.done \ {r}
    BY <1>8, RunLeaves
  <2>2. Asking' = Asking \ {r}  BY <2>1, AskingIs, AskingBecomes
  <2>3. \A d \in Docs : Serves(d)' = Serves(d) /\ Text(d)' = Text(d)  BY <2>1 DEF Serves, Present, Text
  <2>4. Q1'  BY <1>0, <2>1, <2>2
  <2>5. Q2'  BY <1>0, <2>1, <2>2, <2>3, AskingIs
  <2>6. Q3'  BY <1>0, <2>1
  <2>7. Q4'  BY <1>0, <2>1
  <2> QED  BY <1>1, <2>4, <2>5, <2>6, <2>7
<1>9. ASSUME NEW r \in Readers, Proves(r) PROVE Questions'
  <2>1. /\ UNCHANGED <<source, vendor, shown>> /\ r \in source.done
        /\ reader[r].at = "waiting" /\ reader'[r].at = "proved"
        /\ \A q \in Readers \ {r} : reader'[q] = reader[q]
    BY <1>9, RunProves
  <2>2. Asking' = Asking  BY <2>1, AskingIs, AskingBecomes
  <2>4. Q1'  BY <1>0, <2>1, <2>2
  <2>5. Q2'  BY <1>0, <2>1, <2>2 DEF Serves, Present, Text
  <2>6. Q3'  BY <1>0, <2>1
  <2>7. Q4'  BY <1>0, <2>1
  <2> QED  BY <1>1, <2>4, <2>5, <2>6, <2>7
<1>10. ASSUME NEW r \in Readers, Finds(r) PROVE Questions'
  <2>1. /\ UNCHANGED <<source, item, vendor, shown>>
        /\ reader[r].at = "proved" /\ reader'[r].at = "found"
        /\ \A q \in Readers \ {r} : reader'[q] = reader[q]
        /\ \A e \in reader'[r].evidence : \E d \in Docs : Fresh(r, d) /\ e = <<d, item[d].body>>
    BY <1>10, RunFinds
  <2>2. Asking' = Asking  BY <2>1, AskingIs, AskingBecomes
  <2>3. reader'[r].evidence \subseteq shown[r]
    <3>1. r \in source.started  BY <1>0, <2>1
    <3>2. ASSUME NEW d \in Docs, Fresh(r, d) PROVE <<d, item[d].body>> \in shown[r]
      <4>1. item[d].status = "READY" /\ Counts(r, d)  BY <2>1, <3>2 DEF Fresh, Counts
      <4> QED  BY <3>1, <4>1 DEF Reads
    <3> QED  BY <2>1, <3>2
  <2>4. Q1'  BY <1>0, <2>1, <2>2
  <2>5. Q2'  BY <1>0, <2>1, <2>2 DEF Serves, Present, Text
  <2>6. Q3'  BY <1>0, <2>1
  <2>7. Q4'  BY <1>0, <2>1, <2>3
  <2> QED  BY <1>1, <2>4, <2>5, <2>6, <2>7
<1> QED  BY <1>3, <1>4, <1>5, <1>6, <1>7, <1>8, <1>9, <1>10, KindAside

\* What a valid claim brings
LEMMA BringsStep ==
    ASSUME Shapes, Questions, Reads, Kind
    PROVE  \A w \in Workers, r \in source'.started : Holds(w)' => Brings(worker[w], r)'
<1> SUFFICES ASSUME NEW w \in Workers, NEW r \in source'.started, Holds(w)'
             PROVE  Brings(worker[w], r)'
  OBVIOUS
<1>0. source'.token = w /\ worker'[w].at # "idle" /\ None \notin Workers
  BY KnowledgeAssumption DEF Holds
<1>1. ASSUME worker'[w] = worker[w], source'.token = source.token, r \in source.started,
             shown[r] \subseteq shown'[r]
      PROVE  Brings(worker[w], r)'
  <2>1. Holds(w)  BY <1>0, <1>1 DEF Holds
  <2>2. Brings(worker[w], r)  BY <1>1, <2>1 DEF Reads
  <2> QED  BY <1>1, <2>2 DEF Brings
<1>2. source.started \subseteq Asking /\ Asking \subseteq Readers
  BY DEF Questions, Asking
<1>3. ASSUME NEW d \in Docs, NEW v \in Originals, Outside(d, v) PROVE Brings(worker[w], r)'
  <2>1. UNCHANGED <<source, worker>> /\ \A q \in Readers : shown[q] \subseteq shown'[q]
    BY <1>3, OutsideShown
  <2> QED  BY <1>1, <1>2, <2>1
<1>4. CASE Still
  BY <1>1, <1>4 DEF Still
<1>5. CASE CreateSource
  <2>1. source' = [source EXCEPT !.status = "ACTIVE"] /\ UNCHANGED <<worker, shown>>
    BY <1>5 DEF CreateSource
  <2>2. source'.token = source.token /\ source'.started = source.started
    BY <2>1, SourceTyped DEF Sources
  <2> QED  BY <1>1, <2>1, <2>2
<1>6. CASE DisableSource
  <2>1. source' = [source EXCEPT !.status = "PAUSED", !.token = None, !.lease = 0]
    BY <1>6 DEF DisableSource
  <2>2. source'.token = None  BY <2>1, SourceTyped DEF Sources
  <2> QED  BY <1>0, <2>2
<1>7. CASE Demands
  <2>1. source' = [source EXCEPT !.poll = 0] /\ UNCHANGED <<worker, shown>>
    BY <1>7 DEF Demands
  <2>2. source'.token = source.token /\ source'.started = source.started
    BY <2>1, SourceTyped DEF Sources
  <2> QED  BY <1>1, <2>1, <2>2
<1>8. CASE Passes
  <2>1. UNCHANGED shown /\ source'.token = source.token /\ source'.started = source.started
    <3>1. source' = [source EXCEPT !.lease = Down(@), !.poll = Down(@)] /\ UNCHANGED shown
      BY <1>8 DEF Passes
    <3> QED  BY <3>1, SourceTyped DEF Sources
  <2>2. /\ worker'[w].at = worker[w].at /\ worker'[w].node = worker[w].node
        /\ worker'[w].body = worker[w].body /\ worker'[w].after = worker[w].after
    <3>1. worker'[w] = [worker[w] EXCEPT !.left = Down(@)]  BY <1>8 DEF Passes
    <3>2. ClaimSound(worker[w])  BY DEF Shapes
    <3> QED  BY ONLY <3>1, <3>2, ClaimTouched
  <2>3. Holds(w)  BY <1>0, <2>1, <2>2 DEF Holds
  <2>4. Brings(worker[w], r)  BY <2>1, <2>3 DEF Reads
  <2> QED  BY <2>1, <2>2, <2>4 DEF Brings
<1>9. CASE (\E resume \in BOOLEAN : ScheduleSource(resume))
           \/ \E v \in Workers : Completes(v) \/ Lists(v) \/ ReadsIn(v) \/ Blames(v)
  <2>1. source'.token = None  BY <1>9, SourceScheduled, ScanWritten
  <2> QED  BY <1>0, <2>1
<1>10. CASE ClaimSource
  <2> DEFINE scan == IF source.scan = NoScan THEN Begun ELSE source.scan
             c == [Idle EXCEPT !.at = "claimed", !.scan = scan]
  <2>1. PICK v \in Workers : source'.token = v /\ worker' = [worker EXCEPT ![v] = c]
    BY <1>10, SourceClaimed
  <2>2. c.at = "claimed"  BY IdleClaim DEF Idle
  <2> HIDE DEF c
  <2>3. worker'[w] = c
    <3>1. worker = [u \in Workers |-> worker[u]]  BY DEF Shapes
    <3> QED  BY <1>0, <2>1, <3>1
  <2> QED  BY <2>2, <2>3 DEF Brings
<1>11. ASSUME NEW v \in Workers, NEW c, Carries(v, c) PROVE Brings(worker[w], r)'
  <2>0. /\ UNCHANGED <<source, vendor, shown>> /\ worker'[v] = c
        /\ \A u \in Workers \ {v} : worker'[u] = worker[u]
        /\ c.at # "idle" => worker[v].at # "idle"
    BY <1>11, ClaimCarried DEF Carries
  <2>1. CASE v # w
    BY <1>1, <2>0, <2>1
  <2>2. CASE v = w
    <3>0. worker'[w] = c /\ Holds(w) /\ r \in source.started /\ r \in Asking /\ shown'[r] = shown[r]
      BY <1>0, <1>2, <2>0, <2>2 DEF Holds
    <3>1. CASE Goes(w, c)
      BY <3>0, <3>1, ClaimGoes DEF Brings
    <3>2. CASE GoesListed(w, c)
      BY <3>0, <3>2, ClaimListed DEF Brings
    <3>3. CASE GoesFetched(w, c)
      <4>1. c.at = "fetched" /\ c.node \in Docs /\ <<c.node, c.body>> = Text(c.node) /\ Serves(c.node)
        BY <3>3, ClaimFetched
      <4>2. Text(c.node) \in shown[r]  BY <3>0, <4>1 DEF Questions
      <4> QED  BY <3>0, <4>1, <4>2 DEF Brings
    <3>5. CASE GoesChecked(w, c)
      <4>1. /\ c.at = "checked" /\ c.node = worker[w].node /\ c.node \in Docs
            /\ c.body = worker[w].body /\ worker[w].at = "fetched"
        BY <3>5, ClaimChecked
      <4>2. worker[w].node # None  BY <4>1, KnowledgeAssumption DEF Nodes
      <4>3. Brings(worker[w], r)  BY <3>0 DEF Reads
      <4>4. <<c.node, c.body>> \in shown[r]  BY <4>1, <4>2, <4>3 DEF Brings
      <4> QED  BY <3>0, <4>1, <4>4 DEF Brings
    <3>4. CASE GoesStamped(w, c)
      <4>1. /\ c.at = "answered" /\ c.node = worker[w].node /\ c.node \in Docs /\ c.after = Asking
            /\ c.body = worker[w].body /\ worker[w].at = "checked"
        BY <3>4, ClaimStamped
      <4>2. worker[w].node # None  BY <4>1, KnowledgeAssumption DEF Nodes
      <4>3. Brings(worker[w], r)  BY <3>0 DEF Reads
      <4>4. <<c.node, c.body>> \in shown[r]  BY <4>1, <4>2, <4>3 DEF Brings
      <4> QED  BY <3>0, <4>1, <4>4 DEF Brings
    <3> QED  BY <1>11, <2>2, <3>1, <3>2, <3>3, <3>4, <3>5 DEF Carries
  <2> QED  BY <2>1, <2>2
<1>12. ASSUME NEW q \in Readers, Ask(q) PROVE Brings(worker[w], r)'
  <2>1. UNCHANGED <<source, worker>> /\ q \notin Asking /\ \A u \in Readers \ {q} : shown'[u] = shown[u]
    BY <1>12, RunAsks
  <2> QED  BY <1>1, <1>2, <2>1
<1>13. ASSUME NEW q \in Readers, Proves(q) \/ Finds(q) PROVE Brings(worker[w], r)'
  <2>1. UNCHANGED <<source, worker, shown>>  BY <1>13, RunProves, RunFinds
  <2> QED  BY <1>1, <2>1
<1>14. ASSUME NEW q \in Readers, NEW end, Leaves(q, end) PROVE Brings(worker[w], r)'
  <2>1. /\ \A u \in Readers \ {q} : shown'[u] = shown[u]
        /\ source'.token = source.token /\ source'.started = source.started \ {q}
    BY <1>14, RunLeaves
  <2>2. /\ worker'[w].at = worker[w].at /\ worker'[w].node = worker[w].node
        /\ worker'[w].body = worker[w].body /\ worker'[w].after = worker[w].after \ {q}
    <3>1. worker'[w] = [worker[w] EXCEPT !.after = @ \ {q}]  BY <1>14 DEF Leaves, Leave
    <3>2. ClaimSound(worker[w])  BY DEF Shapes
    <3> QED  BY ONLY <3>1, <3>2, ClaimTouched
  <2>3. Holds(w)  BY <1>0, <2>1, <2>2 DEF Holds
  <2>4. Brings(worker[w], r) /\ r # q /\ r \in Readers  BY <1>2, <2>1, <2>3 DEF Reads
  <2> QED  BY <2>1, <2>2, <2>4 DEF Brings
<1> QED  BY <1>3, <1>4, <1>5, <1>6, <1>7, <1>8, <1>9, <1>10, <1>11, <1>12, <1>13, <1>14 DEF Kind

\* What a row that counts for a Run holds
LEMMA RowsCountStep ==
    ASSUME Shapes, Claimed, Questions, Reads, Kind
    PROVE  \A d \in Docs, r \in source'.started : item'[d].status = "READY" /\ Counts(r, d)' =>
              <<d, item'[d].body>> \in shown'[r] /\ r \in item'[d].after
<1> SUFFICES ASSUME NEW d \in Docs, NEW r \in source'.started, item'[d].status = "READY", Counts(r, d)'
             PROVE  <<d, item'[d].body>> \in shown'[r] /\ r \in item'[d].after
  OBVIOUS
<1> DEFINE Goal == <<d, item'[d].body>> \in shown'[r] /\ r \in item'[d].after
<1>0. \/ item'[d].read
      \/ r \in source'.done /\ Done \in item'[d].upto
      \/ reader'[r].at \in {"proved", "found"} /\ r \in item'[d].upto
  BY DEF Counts
<1>1. ASSUME r \in source.started, item[d].status = "READY", item'[d].body = item[d].body,
             Counts(r, d), r \in item[d].after => r \in item'[d].after, shown[r] \subseteq shown'[r]
      PROVE  Goal
  BY <1>1 DEF Reads
<1>2. /\ source.started \subseteq Asking /\ Asking \subseteq Readers /\ source.done \subseteq source.started
      /\ \A q \in Readers : reader[q].at \in {"proved", "found"} => q \in source.done
  BY DEF Questions, Asking
<1>3. d \in Nodes
  BY DEF Nodes
<1>4. ASSUME NEW e \in Docs, NEW v \in Originals, Outside(e, v) PROVE Goal
  <2>1. UNCHANGED <<source, item, reader>> /\ \A q \in Readers : shown[q] \subseteq shown'[q]
    BY <1>4, OutsideShown
  <2> QED  BY <1>0, <1>1, <1>2, <2>1 DEF Counts
<1>5. ASSUME source'.started = source.started, source'.done = source.done, shown' = shown,
             \A q \in Readers : reader'[q].at = reader[q].at,
             item[d].status = "READY",
             item'[d].body = item[d].body, item'[d].after = item[d].after,
             item'[d].read = item[d].read, item'[d].upto = item[d].upto
      PROVE  Goal
  BY <1>0, <1>1, <1>2, <1>5 DEF Counts
<1>6. CASE Aside
  <2>0. /\ source'.started = source.started /\ source'.done = source.done /\ shown' = shown
        /\ \A q \in Readers : reader'[q].at = reader[q].at
    BY <1>6, AsideSteps
  <2>1. CASE item'[d] = item[d]
    BY <1>5, <2>0, <2>1
  <2>2. CASE Still \/ CreateSource \/ DisableSource \/ Demands \/ \E w \in Workers : \E c : Carries(w, c)
    <3>1. item' = item  BY <2>2 DEF Still, CreateSource, DisableSource, Demands, Carries
    <3> QED  BY <2>1, <3>1
  <2>3. CASE Passes
    <3>1. item'[d] = [item[d] EXCEPT !.access = Down(@)]  BY <1>3, <2>3 DEF Passes
    <3>2. /\ item'[d].status = item[d].status /\ item'[d].body = item[d].body
          /\ item'[d].after = item[d].after /\ item'[d].read = item[d].read /\ item'[d].upto = item[d].upto
      BY ONLY Shapes, <1>3, <3>1, RowPassed
    <3> QED  BY <1>5, <2>0, <3>2
  <2>4. CASE \E resume \in BOOLEAN : ScheduleSource(resume)
    <3>1. item'[d] = item[d] \/ item'[d] = [item[d] EXCEPT !.status = "PENDING", !.access = 0]
      BY <1>3, <2>4 DEF ScheduleSource
    <3>2. [item[d] EXCEPT !.status = "PENDING", !.access = 0].status = "PENDING"
      BY <1>3, RowScheduled
    <3> QED  BY <2>1, <3>1, <3>2
  <2>5. ASSUME NEW w \in Workers, Lists(w) PROVE Goal
    <3>1. item'[d] = item[d] \/ item'[d] = Listed(d)  BY <1>3, <2>5 DEF Lists
    <3>2. CASE item'[d] = Listed(d)
      <4>1. /\ item'[d].status = "READY" <=> item[d].status = "READY"
            /\ item'[d].body = item[d].body
            /\ item'[d].after = item[d].after /\ item'[d].read = item[d].read
            /\ item'[d].upto = item[d].upto
        BY <1>3, <3>2, RowListed
      <4> QED  BY <1>5, <2>0, <4>1
    <3> QED  BY <2>1, <3>1, <3>2
  <2>6. ASSUME NEW w \in Workers, ReadsIn(w) PROVE Goal
    <3> DEFINE c == worker[w]
    <3>1. /\ item' = [item EXCEPT ![c.node] = Accepted(c)] /\ Locked(w)
          /\ ClaimSound(c) /\ c.node # None /\ c.at = "answered" /\ c.at # "idle" /\ c.body # Refused
          /\ item = [m \in Nodes |-> item[m]]
      BY <2>6 DEF ReadsIn, Shapes
    <3>2. item'[d] = item[d] \/ (c.node = d /\ item'[d] = Accepted(c))
      BY <1>3, <3>1
    <3>3. CASE c.node = d /\ item'[d] = Accepted(c)
      <4>1. item'[d].body = c.body /\ item'[d].after = c.after  BY <3>1, <3>3, RowAccepted
      <4>2. Holds(w)  BY <3>1, LockHolds
      <4>3. Brings(c, r)  BY <2>0, <4>2 DEF Reads
      <4>4. <<c.node, c.body>> \in shown[r] /\ r \in c.after  BY <3>1, <4>3 DEF Brings
      <4> QED  BY <2>0, <3>3, <4>1, <4>4
    <3> QED  BY <2>1, <3>2, <3>3
  <2>7. ASSUME NEW w \in Workers, Blames(w) PROVE Goal
    <3>1. item'[d] = Blamed(worker[w])[d] /\ ClaimSound(worker[w])
      BY <2>7 DEF Blames, Shapes
    <3>2. item'[d] = item[d]
      BY <1>3, <3>1, RowBlamed
    <3> QED  BY <2>1, <3>2
  <2> QED  BY <1>6, <2>2, <2>3, <2>4, <2>5, <2>6, <2>7 DEF Aside
<1>7. CASE ClaimSource
  <2>1. /\ UNCHANGED <<reader, shown>> /\ source'.done = source.done
        /\ source.scan # NoScan => item' = item /\ source'.started = source.started
        /\ source.scan = NoScan =>
             /\ source'.started = Asking
             /\ item' = [n \in Nodes |-> [item[n] EXCEPT !.seen = FALSE, !.read = FALSE]]
    BY <1>7, SourceClaimed
  <2>2. CASE source.scan # NoScan
    BY <1>5, <2>1, <2>2
  <2>3. CASE source.scan = NoScan
    <3>1. item'[d] = [item[d] EXCEPT !.seen = FALSE, !.read = FALSE]  BY <1>3, <2>1, <2>3
    <3>2. /\ ~item'[d].read /\ item'[d].body = item[d].body /\ item'[d].after = item[d].after
          /\ item'[d].upto = item[d].upto /\ item'[d].status = item[d].status
      BY <1>3, <3>1, RowClaimed
    <3>3. r \in Readers  BY <1>2, <2>1, <2>3
    <3>4. r \in source.done /\ Counts(r, d)  BY <1>0, <1>2, <2>1, <3>2, <3>3 DEF Counts
    <3> QED  BY <1>1, <1>2, <2>1, <3>2, <3>4
  <2> QED  BY <2>2, <2>3
<1>8. ASSUME NEW w \in Workers, Completes(w) PROVE Goal
  <2>1. UNCHANGED <<reader, shown>> /\ Complete  BY <1>8 DEF Completes
  <2>2. source'.started = source.started /\ source'.done = source.started  BY <2>1, SourceCompleted
  <2>3. /\ item'[d].read = item[d].read /\ item'[d].body = item[d].body /\ item'[d].after = item[d].after
        /\ item'[d].status \in {item[d].status, "MISSING"}
        /\ \A q \in Readers : q \in item'[d].upto <=> q \in item[d].upto
        /\ item'[d].status # "ABSENT" => (Done \in item'[d].upto <=> item[d].read)
    BY <1>3, <2>1, RowCompleted
  <2>4. r \in source.started /\ r \in Readers  BY <1>2, <2>2
  <2>5. Counts(r, d)  BY <1>0, <2>1, <2>3, <2>4 DEF Counts
  <2> QED  BY <1>1, <2>1, <2>3, <2>4, <2>5
<1>9. ASSUME NEW q \in Readers, Ask(q) PROVE Goal
  <2>1. /\ UNCHANGED <<source, item>> /\ q \notin Asking
        /\ \A u \in Readers \ {q} : reader'[u] = reader[u] /\ shown'[u] = shown[u]
    BY <1>9, RunAsks
  <2>2. r # q /\ r \in Readers  BY <1>2, <2>1
  <2>3. Counts(r, d)  BY <1>0, <2>1, <2>2 DEF Counts
  <2> QED  BY <1>1, <2>1, <2>2, <2>3
<1>10. ASSUME NEW q \in Readers, Proves(q) PROVE Goal
  <2>1. /\ UNCHANGED <<source, shown>> /\ q \in source.done
        /\ \A u \in Readers \ {q} : reader'[u] = reader[u]
    BY <1>10, RunProves
  <2>2. item'[d] = [item[d] EXCEPT !.upto = IF Done \in @ THEN @ \cup {q} ELSE @ \ {q}]
    BY <1>3, <1>10 DEF Proves
  <2>3. /\ item'[d].read = item[d].read /\ item'[d].body = item[d].body
        /\ item'[d].after = item[d].after /\ item'[d].status = item[d].status
        /\ Done \in item'[d].upto <=> Done \in item[d].upto
        /\ q \in item'[d].upto <=> Done \in item[d].upto
        /\ \A u \in Readers \ {q} : u \in item'[d].upto <=> u \in item[d].upto
    BY ONLY Shapes, <1>3, q \in Readers, <2>2, RowProved
  <2>4. r \in Readers  BY <1>2, <2>1
  <2>5. Counts(r, d)  BY <1>0, <2>1, <2>3, <2>4 DEF Counts
  <2> QED  BY <1>1, <2>1, <2>3, <2>5
<1>11. ASSUME NEW q \in Readers, Finds(q) PROVE Goal
  <2>1. /\ UNCHANGED <<source, item, shown>> /\ reader[q].at = "proved"
        /\ \A u \in Readers \ {q} : reader'[u] = reader[u]
    BY <1>11, RunFinds
  <2>2. r \in Readers  BY <1>2, <2>1
  <2>3. Counts(r, d)  BY <1>0, <2>1, <2>2 DEF Counts
  <2> QED  BY <1>1, <2>1, <2>3
<1>12. ASSUME NEW q \in Readers, NEW end, Leaves(q, end) PROVE Goal
  <2>1. /\ \A u \in Readers \ {q} : reader'[u] = reader[u] /\ shown'[u] = shown[u]
        /\ source'.started = source.started \ {q} /\ source'.done = source.done \ {q}
    BY <1>12, RunLeaves
  <2>2. /\ item'[d].read = item[d].read /\ item'[d].body = item[d].body
        /\ item'[d].after = item[d].after \ {q} /\ item'[d].upto = item[d].upto \ {q}
        /\ item'[d].status = item[d].status
    BY <1>3, <1>12, RowLeft DEF Leaves
  <2>3. r \in source.started /\ r # q /\ r \in Readers  BY <1>2, <2>1
  <2>4. Counts(r, d)  BY <1>0, <2>1, <2>2, <2>3 DEF Counts
  <2> QED  BY <1>1, <2>1, <2>2, <2>3, <2>4
<1> QED  BY <1>4, <1>6, <1>7, <1>8, <1>9, <1>10, <1>11, <1>12, KindAside

LEMMA ReadsStep ==
    ASSUME Shapes, Claimed, Questions, Reads, Kind
    PROVE  Reads'
<1>1. \A w \in Workers, r \in source'.started : Holds(w)' => Brings(worker[w], r)'
  BY BringsStep
<1>2. \A d \in Docs, r \in source'.started : item'[d].status = "READY" /\ Counts(r, d)' =>
         <<d, item'[d].body>> \in shown'[r] /\ r \in item'[d].after
  BY RowsCountStep
<1> QED  BY <1>1, <1>2 DEF Reads
-----------------------------------------------------------------------------
(* What a scan meets *)

\* What has stayed put, and the documents that did
LEMMA SteadyFrame ==
    ASSUME Shapes, Kind, ~ClaimSource
    PROVE  /\ steady'[Scan] \subseteq steady[Scan]
           /\ \A d \in steady'[Scan] : vendor'[d].place = vendor[d].place
<1>1. CASE Aside \/ \E w \in Workers : Completes(w)
  BY <1>1, AsideSteps DEF Completes
<1>2. CASE \E d \in Docs, v \in Originals : Outside(d, v)
  BY <1>2, OutsideShown
<1>3. Scan \notin Readers
  BY KnowledgeAssumption
<1>4. CASE \E r \in Readers : \/ Ask(r) \/ Proves(r) \/ Finds(r)
                              \/ \E end : Leaves(r, end)
  <2>1. vendor' = vendor /\ steady'[Scan] = steady[Scan]
    BY <1>3, <1>4, RunAsks, RunProves, RunFinds, RunLeaves
  <2> QED  BY <2>1
<1> QED  BY <1>1, <1>2, <1>4, KindAside

LEMMA PresentStep ==
    ASSUME Shapes, Shapes', Kind, \A x \in Readers \cup {Scan} : steady[x] \subseteq Present
    PROVE  \A x \in Readers \cup {Scan} : steady'[x] \subseteq Present'
<1>0. /\ \A x \in Readers \cup {Scan} : steady'[x] \subseteq Docs
      /\ steady \in [Readers \cup {Scan} -> SUBSET Docs]
  BY DEF Shapes
<1>1. ASSUME vendor' = vendor PROVE Present' = Present
  BY <1>1 DEF Present
<1>2. CASE Aside \/ \E w \in Workers : Completes(w)
  <2>1. UNCHANGED <<vendor, steady>>  BY <1>2, AsideSteps DEF Completes
  <2> QED  BY <1>1, <2>1
<1>3. CASE ClaimSource
  <2>1. vendor' = vendor /\ (steady' = steady \/ steady' = [steady EXCEPT ![Scan] = Present])
    BY <1>3, SourceClaimed
  <2> QED  BY <1>0, <1>1, <2>1
<1>4. ASSUME NEW d \in Docs, NEW v \in Originals, Outside(d, v)
      PROVE  \A x \in Readers \cup {Scan} : steady'[x] \subseteq Present'
  <2>1. \A x \in Readers \cup {Scan} :
           steady'[x] \subseteq steady[x] /\ \A e \in steady'[x] : vendor'[e].place = vendor[e].place
    BY <1>4, OutsideShown
  <2> QED  BY <1>0, <2>1 DEF Present
<1>5. ASSUME NEW r \in Readers, Proves(r) \/ Finds(r)
      PROVE  UNCHANGED <<vendor, steady>>
  BY <1>5, RunProves, RunFinds
<1>6. ASSUME NEW r \in Readers, Ask(r)
      PROVE  \A x \in Readers \cup {Scan} : steady'[x] \subseteq Present'
  <2>1. /\ vendor' = vendor /\ steady'[r] = Present
        /\ \A x \in (Readers \cup {Scan}) \ {r} : steady'[x] = steady[x]
    BY <1>6, RunAsks
  <2> QED  BY <1>1, <2>1
<1>7. ASSUME NEW r \in Readers, NEW end, Leaves(r, end)
      PROVE  \A x \in Readers \cup {Scan} : steady'[x] \subseteq Present'
  <2>1. /\ vendor' = vendor /\ steady'[r] = {}
        /\ \A x \in (Readers \cup {Scan}) \ {r} : steady'[x] = steady[x]
    BY <1>7, RunLeaves
  <2> QED  BY <1>1, <2>1
<1> QED  BY <1>1, <1>2, <1>3, <1>4, <1>5, <1>6, <1>7, KindAside

LEMMA ScanKnown ==
    Scan \in Readers \cup {Scan}
OBVIOUS

\* Where the place of a document can be
LEMMA PlaceKnown ==
    ASSUME Shapes, NEW d \in Docs, d \in Present
    PROVE  /\ vendor[d].place \in Folders \cup {Root} /\ Root \notin Nodes
           /\ Folders \subseteq Nodes /\ Docs \subseteq Nodes /\ Docs \cap Folders = {}
<1>1. vendor[d].place \in Parents \cup {None} /\ vendor[d].place # None
  BY DEF Shapes, Originals, Present
<1> QED  BY <1>1, KnowledgeAssumption DEF Parents, Nodes

\* A document that is ahead stays ahead while scan, sightings and its place do.
LEMMA AheadFrame ==
    ASSUME NEW scan, NEW d \in Docs, vendor'[d].place = vendor[d].place,
           \A f \in Folders : item'[f].seen => item[f].seen,
           Ahead(scan, d)
    PROVE  scan.stage \in {None, "workspaces"} \/ \E e \in Entries(scan.queue) : Meets(e, d)'
<1>1. CASE scan.stage \in {None, "workspaces"}
  BY <1>1
<1>2. ASSUME NEW e \in Entries(scan.queue), Meets(e, d) PROVE Meets(e, d)'
  BY <1>2 DEF Meets
<1> QED  BY <1>1, <1>2 DEF Ahead

LEMMA AheadPrimed ==
    ASSUME NEW d \in Docs,
           source'.scan.stage \in {None, "workspaces"} \/ \E e \in Entries(source'.scan.queue) : Meets(e, d)'
    PROVE  Ahead(source.scan, d)'
BY DEF Ahead, Entries

\* The first page puts the root before a scan that has seen nothing.
LEMMA RootAhead ==
    ASSUME Shapes, NEW d \in Docs, d \in Present, vendor' = vendor,
           \A n \in Nodes : ~item'[n].seen,
           source'.scan = [stage |-> "nodes", queue |-> <<[parent |-> Root, listed |-> {}]>>]
    PROVE  Ahead(source.scan, d)'
<1> DEFINE e == [parent |-> Root, listed |-> {}]
<1>1. source'.scan.queue = <<e>>
  OBVIOUS
<1>2. e.parent = Root /\ e.listed = {}
  OBVIOUS
<1> HIDE DEF e
<1>3. Entries(source'.scan.queue) = {e}
  BY <1>1, EntriesOfOne
<1>4. Meets(e, d)'
  BY <1>2, PlaceKnown DEF Meets
<1> QED  BY <1>3, <1>4, AheadPrimed

\* A page takes nothing off the queue that it does not bring.
LEMMA PageAhead ==
    ASSUME Shapes, NEW w \in Workers, Lists(w), worker[w].scan.stage = "nodes",
           worker[w].scan = source.scan, WholePage(worker[w]),
           NEW d \in steady[Scan], d \in Docs, d \in Present, d \notin worker[w].page,
           Ahead(source.scan, d)
    PROVE  Ahead(source.scan, d)'
<1> DEFINE c == worker[w]
           here == Head(c.scan.queue)
           q == source'.scan.queue
<1>0. ClaimSound(c) /\ c.at = "answered" /\ vendor' = vendor
      /\ item' = [n \in Nodes |-> IF n \in c.page THEN Listed(n) ELSE item[n]]
  BY DEF Shapes, Lists
<1>1. source'.scan = Advance(c)
  BY ScanWritten
<1>2. /\ here \in Entries(c.scan.queue)
      /\ Entries(c.scan.queue) \ {here} \subseteq Entries(q)
      /\ NewEntries(c) \subseteq Entries(q)
      /\ c.more => Resumed(c) \in Entries(q)
  BY <1>0, <1>1, AdvanceNext
<1>3. /\ vendor[d].place = here.parent => d \in here.listed \/ d \in c.page \/ c.more
      /\ \A f \in Folders : here.parent = Root => f \in here.listed \/ f \in c.page \/ c.more
      /\ vendor[d].place \in c.page => vendor[d].place \in c.deep
  BY <1>0 DEF WholePage
<1>4. /\ vendor[d].place \in Folders \cup {Root} /\ Root \notin Nodes /\ Folders \subseteq Nodes
  BY PlaceKnown
<1>5. /\ Resumed(c).parent = here.parent /\ Resumed(c).listed = here.listed \cup c.page
      /\ \A g \in c.deep : [parent |-> g, listed |-> {}] \in NewEntries(c)
  BY DEF Resumed, NewEntries
<1>6. PICK e \in Entries(c.scan.queue) : Meets(e, d)
  <2>1. c.scan.stage \notin {None, "workspaces"}  BY DEF None
  <2> QED  BY <2>1 DEF Ahead
<1>7. \A f \in Folders \ c.page : item'[f] = item[f]
  BY <1>0, <1>4
<1>8. SUFFICES \E x \in Entries(q) : Meets(x, d)'
  BY AheadPrimed
<1>9. CASE vendor[d].place \in c.page
  <2>1. PICK x : x = [parent |-> vendor[d].place, listed |-> {}]  OBVIOUS
  <2>2. x \in Entries(q)  BY <1>2, <1>3, <1>5, <1>9, <2>1
  <2>3. x.parent = vendor[d].place /\ x.listed = {}  BY <2>1
  <2>4. Meets(x, d)'  BY <1>0, <2>3 DEF Meets
  <2> QED  BY <2>2, <2>4
<1>10. CASE vendor[d].place \notin c.page /\ e # here
  <2>1. e \in Entries(q)  BY <1>2, <1>6, <1>10
  <2>2. Meets(e, d)'  BY <1>0, <1>6, <1>7, <1>10 DEF Meets
  <2> QED  BY <2>1, <2>2
<1>11. CASE vendor[d].place \notin c.page /\ e = here
  <2>1. c.more  BY <1>3, <1>6, <1>11 DEF Meets
  <2>2. Resumed(c) \in Entries(q)  BY <1>2, <2>1
  <2>3. PICK x : x = Resumed(c)  OBVIOUS
  <2>4. x.parent = here.parent /\ x.listed = here.listed \cup c.page  BY <1>5, <2>3
  <2>5. Meets(x, d)'  BY <1>0, <1>6, <1>7, <1>11, <2>4 DEF Meets
  <2> QED  BY <2>2, <2>3, <2>5
<1> QED  BY <1>9, <1>10, <1>11

LEMMA AheadStep ==
    ASSUME Shapes, Shapes', Claimed, Traversal, Kind
    PROVE  \A d \in steady'[Scan] : item'[d].seen \/ Ahead(source.scan, d)'
<1> SUFFICES ASSUME NEW d \in steady'[Scan] PROVE item'[d].seen \/ Ahead(source.scan, d)'
  OBVIOUS
<1>0. /\ d \in Docs /\ d \in Nodes /\ Folders \subseteq Nodes /\ Docs \cap Folders = {}
      /\ steady[Scan] \subseteq Docs
  BY ScanKnown, KnowledgeAssumption DEF Shapes, Nodes
<1>1. ASSUME source'.scan.stage \in {None, "workspaces"} PROVE Ahead(source.scan, d)'
  BY <1>1 DEF Ahead
<1>2. ASSUME source'.scan = source.scan, d \in steady[Scan], vendor'[d].place = vendor[d].place,
             \A n \in Nodes : item'[n].seen = item[n].seen
      PROVE  item'[d].seen \/ Ahead(source.scan, d)'
  <2>1. item[d].seen \/ Ahead(source.scan, d)  BY <1>2 DEF Traversal
  <2>2. CASE Ahead(source.scan, d)
    <3>1. source.scan.stage \in {None, "workspaces"}
          \/ \E e \in Entries(source.scan.queue) : Meets(e, d)'
      BY <1>0, <1>2, <2>2, AheadFrame
    <3> QED  BY <1>0, <1>2, <3>1, AheadPrimed
  <2> QED  BY <1>0, <1>2, <2>1, <2>2
<1>3. CASE ClaimSource
  <2>1. /\ source'.scan = source.scan /\ vendor' = vendor
        /\ source.scan # NoScan => item' = item /\ steady' = steady
    BY <1>3, SourceClaimed
  <2>2. CASE source.scan = NoScan  BY <1>1, <2>1, <2>2, ScansKnown
  <2>3. CASE source.scan # NoScan  BY <1>2, <2>1, <2>3
  <2> QED  BY <2>2, <2>3
<1>4. CASE ~ClaimSource
  <2>0. d \in steady[Scan] /\ vendor'[d].place = vendor[d].place  BY <1>4, SteadyFrame
  <2>1. CASE Calm
    <3>1. source'.scan = source.scan /\ \A n \in Nodes : item'[n].seen = item[n].seen
      BY <2>1, CalmSteps
    <3> QED  BY <1>2, <2>0, <3>1
  <2>2. CASE (\E resume \in BOOLEAN : ScheduleSource(resume)) \/ \E w \in Workers : Completes(w)
    <3>1. source'.scan = NoScan  BY <2>2, SourceScheduled, ScanWritten
    <3> QED  BY <1>1, <3>1, ScansKnown
  <2>3. ASSUME NEW w \in Workers, Lists(w) PROVE item'[d].seen \/ Ahead(source.scan, d)'
    <3> DEFINE c == worker[w]
    <3>1. /\ ClaimSound(c) /\ c.at = "answered" /\ c.at # "idle" /\ Locked(w) /\ vendor' = vendor
          /\ item' = [n \in Nodes |-> IF n \in c.page THEN Listed(n) ELSE item[n]]
      BY <2>3 DEF Lists, Shapes
    <3>2. source'.scan = Advance(c) /\ c.scan.stage \in {"workspaces", "nodes"}
      BY <2>3, ScanWritten
    <3>3. /\ Holds(w)
          /\ c.scan.stage # "workspaces" => source.scan # NoScan /\ c.scan = source.scan
          /\ c.scan.stage = "workspaces" => \A n \in Nodes : ~item[n].seen
      BY <3>1, LockHolds
    <3>4. d \in Present  BY <2>0, ScanKnown DEF Traversal
    <3>5. CASE c.scan.stage = "workspaces"
      <4>1. c.page = {}  BY <3>1, <3>5 DEF ClaimSound
      <4>2. \A n \in Nodes : ~item'[n].seen  BY <3>1, <3>3, <3>5, <4>1
      <4>3. source'.scan = [stage |-> "nodes", queue |-> <<[parent |-> Root, listed |-> {}]>>]
        BY <3>1, <3>2, <3>5, AdvanceFirst
      <4> QED  BY <1>0, <3>1, <3>4, <4>2, <4>3, RootAhead
    <3>6. CASE c.scan.stage = "nodes"
      <4>1. c.scan = source.scan  BY <3>3, <3>6
      <4>2. WholePage(c)  BY <3>3 DEF Traversal
      <4>3. item[d].seen \/ Ahead(source.scan, d)  BY <2>0 DEF Traversal
      <4>4. CASE d \in c.page
        <5>1. item'[d] = Listed(d)  BY <1>0, <3>1, <4>4
        <5> QED  BY <1>0, <5>1, RowListed
      <4>5. CASE d \notin c.page /\ item[d].seen
        BY <1>0, <3>1, <4>5
      <4>6. CASE d \notin c.page /\ Ahead(source.scan, d)
        BY <1>0, <2>0, <2>3, <3>4, <3>6, <4>1, <4>2, <4>6, PageAhead
      <4> QED  BY <4>3, <4>4, <4>5, <4>6
    <3> QED  BY <3>2, <3>5, <3>6
  <2>4. ASSUME NEW w \in Workers, ReadsIn(w) PROVE item'[d].seen
    <3> DEFINE c == worker[w]
    <3>1. /\ item' = [item EXCEPT ![c.node] = Accepted(c)] /\ Locked(w)
          /\ ClaimSound(c) /\ c.node # None /\ c.at = "answered" /\ c.at # "idle" /\ c.body # Refused
          /\ item = [m \in Nodes |-> item[m]]
      BY <2>4 DEF ReadsIn, Shapes
    <3>2. c.scan.stage = "read" /\ c.scan.queue = <<>>  BY <2>4, ScanWritten
    <3>3. c.scan = source.scan  BY <3>1, <3>2, LockHolds
    <3>4. ~Ahead(source.scan, d)
      <4>1. Entries(source.scan.queue) = {}  BY <3>2, <3>3, EntriesOfOne
      <4>2. source.scan.stage \notin {None, "workspaces"}  BY <3>2, <3>3 DEF None
      <4> QED  BY <4>1, <4>2 DEF Ahead
    <3>5. item[d].seen  BY <2>0, <3>4 DEF Traversal
    <3>6. item'[d] = item[d] \/ item'[d] = Accepted(c)  BY <1>0, <3>1
    <3>7. Accepted(c).seen  BY <3>1, RowAccepted
    <3> QED  BY <3>5, <3>6, <3>7
  <2>5. ASSUME NEW w \in Workers, Blames(w) PROVE item'[d].seen \/ Ahead(source.scan, d)'
    <3> DEFINE c == worker[w]
    <3>1. item' = Blamed(c) /\ ClaimSound(c) /\ Locked(w) /\ c.at # "idle"
      BY <2>5 DEF Blames, Shapes
    <3>2. source'.scan = c.scan  BY <2>5, ScanWritten
    <3>3. \A n \in Nodes : item'[n].seen = item[n].seen  BY <3>1, RowBlamed
    <3>4. CASE c.scan.stage = "workspaces"  BY <1>1, <3>2, <3>4
    <3>5. CASE c.scan.stage # "workspaces"
      <4>1. c.scan = source.scan  BY <3>1, <3>5, LockHolds
      <4> QED  BY <1>2, <2>0, <3>2, <3>3, <4>1
    <3> QED  BY <3>4, <3>5
  <2> QED  BY <1>4, <2>1, <2>2, <2>3, <2>4, <2>5, KindCalm
<1> QED  BY <1>3, <1>4

\* Only a new page changes what a valid claim carries of pages.
LEMMA PageFrame ==
    ASSUME Shapes, Kind, NEW w \in Workers, Holds(w)'
    PROVE  \/ ClaimSource /\ worker'[w].at = "claimed"
           \/ /\ ~ClaimSource /\ Holds(w)
              /\ worker'[w].at = worker[w].at /\ worker'[w].scan = worker[w].scan
              /\ worker'[w].page = worker[w].page /\ worker'[w].deep = worker[w].deep
              /\ worker'[w].more = worker[w].more
           \/ ~ClaimSource /\ \E c : Carries(w, c) /\ worker'[w] = c
<1>0. source'.token = w /\ worker'[w].at # "idle" /\ None \notin Workers
  BY KnowledgeAssumption DEF Holds
<1>1. CASE ClaimSource
  <2> DEFINE scan == IF source.scan = NoScan THEN Begun ELSE source.scan
             c == [Idle EXCEPT !.at = "claimed", !.scan = scan]
  <2>1. PICK v \in Workers : source'.token = v /\ worker' = [worker EXCEPT ![v] = c]
    BY <1>1, SourceClaimed
  <2>2. c.at = "claimed"  BY IdleClaim DEF Idle
  <2> HIDE DEF c
  <2>3. worker'[w] = c
    <3>1. worker = [u \in Workers |-> worker[u]]  BY DEF Shapes
    <3> QED  BY <1>0, <2>1, <3>1
  <2> QED  BY <1>1, <2>2, <2>3
<1>2. CASE ~ClaimSource
  <2> DEFINE Same == /\ worker'[w].at = worker[w].at /\ worker'[w].scan = worker[w].scan
                     /\ worker'[w].page = worker[w].page /\ worker'[w].deep = worker[w].deep
                     /\ worker'[w].more = worker[w].more
  <2>1. CASE (\E resume \in BOOLEAN : ScheduleSource(resume))
             \/ \E v \in Workers : Completes(v) \/ Lists(v) \/ ReadsIn(v) \/ Blames(v)
    <3>1. source'.token = None  BY <2>1, SourceScheduled, ScanWritten
    <3> QED  BY <1>0, <3>1
  <2>2. CASE Calm
    <3>0. source'.token = source.token  BY <1>0, <2>2, CalmSteps
    <3>1. ASSUME Same PROVE Holds(w)  BY <1>0, <3>0, <3>1 DEF Holds
    <3>2. CASE \/ \E d \in Docs, v \in Originals : Outside(d, v)
               \/ Still \/ CreateSource \/ DisableSource \/ Demands
               \/ \E r \in Readers : Ask(r) \/ Proves(r) \/ Finds(r)
      <4>1. worker' = worker
        BY <3>2 DEF Outside, Note, Still, CreateSource, DisableSource, Demands, Ask, Proves, Finds
      <4> QED  BY <1>2, <3>1, <4>1
    <3>3. CASE Passes
      <4>1. worker'[w] = [worker[w] EXCEPT !.left = Down(@)]  BY <3>3 DEF Passes
      <4>2. ClaimSound(worker[w])  BY DEF Shapes
      <4>3. Same  BY ONLY <4>1, <4>2, ClaimTouched
      <4> QED  BY <1>2, <3>1, <4>3
    <3>4. ASSUME NEW r \in Readers, NEW end, Leaves(r, end) PROVE Same
      <4>1. worker'[w] = [worker[w] EXCEPT !.after = @ \ {r}]  BY <3>4 DEF Leaves, Leave
      <4>2. ClaimSound(worker[w])  BY DEF Shapes
      <4> QED  BY ONLY <4>1, <4>2, ClaimTouched
    <3>5. ASSUME NEW v \in Workers, NEW c, Carries(v, c)
          PROVE  Same \/ (Carries(w, c) /\ worker'[w] = c)
      <4>1. v = w \/ worker'[w] = worker[w]  BY <3>5, ClaimCarried
      <4> QED  BY <3>5, <4>1, ClaimCarried
    <3> QED  BY <1>2, <2>2, <3>1, <3>2, <3>3, <3>4, <3>5 DEF Calm
  <2> QED  BY <1>2, <2>1, <2>2, KindCalm
<1> QED  BY <1>1, <1>2

LEMMA WholePageStep ==
    ASSUME Shapes, Traversal, Kind
    PROVE  \A w \in Workers : Holds(w)' => WholePage(worker[w])'
<1> SUFFICES ASSUME NEW w \in Workers, Holds(w)' PROVE WholePage(worker[w])'
  OBVIOUS
<1>0. steady[Scan] \subseteq Docs /\ steady[Scan] \subseteq Present
  BY ScanKnown DEF Shapes, Traversal
<1>1. CASE ClaimSource /\ worker'[w].at = "claimed"
  BY <1>1 DEF WholePage
<1>2. CASE /\ ~ClaimSource /\ Holds(w)
           /\ worker'[w].at = worker[w].at /\ worker'[w].scan = worker[w].scan
           /\ worker'[w].page = worker[w].page /\ worker'[w].deep = worker[w].deep
           /\ worker'[w].more = worker[w].more
  <2>1. WholePage(worker[w])  BY <1>2 DEF Traversal
  <2>2. /\ steady'[Scan] \subseteq steady[Scan]
        /\ \A d \in steady'[Scan] : vendor'[d].place = vendor[d].place
    BY <1>2, SteadyFrame
  <2> QED  BY <1>2, <2>1, <2>2 DEF WholePage
<1>3. ASSUME NEW c, Carries(w, c), worker'[w] = c PROVE WholePage(worker[w])'
  <2>0. vendor' = vendor /\ steady' = steady  BY <1>3 DEF Carries
  <2>1. CASE Goes(w, c)
    <3>1. ~(c.at = "answered" /\ c.scan.stage = "nodes")  BY <2>1, ClaimGoes
    <3> QED  BY <1>3, <3>1 DEF WholePage
  <2>2. CASE GoesFetched(w, c)
    <3>1. ~(c.at = "answered" /\ c.scan.stage = "nodes")  BY <2>2, ClaimFetched
    <3> QED  BY <1>3, <3>1 DEF WholePage
  <2>3. CASE GoesStamped(w, c)
    <3>1. ~(c.at = "answered" /\ c.scan.stage = "nodes")  BY <2>3, ClaimStamped
    <3> QED  BY <1>3, <3>1 DEF WholePage
  <2>5. CASE GoesChecked(w, c)
    <3>1. ~(c.at = "answered" /\ c.scan.stage = "nodes")  BY <2>5, ClaimChecked
    <3> QED  BY <1>3, <3>1 DEF WholePage
  <2>4. CASE GoesListed(w, c)
    <3> DEFINE here == Head(c.scan.queue)
    <3>1. /\ ClaimSound(c)
          /\ ~c.more => c.page = Children(here.parent) \ here.listed
          /\ c.deep = {f \in c.page \cap Folders : Children(f) # {}}
      <4>1. c.scan = worker[w].scan  BY <2>4, ClaimListed
      <4> QED  BY <2>4, <4>1, ClaimListed
    <3>2. \A d \in steady[Scan] : d \in Children(vendor[d].place)
      BY <1>0 DEF Children
    <3>3. Folders \subseteq Children(Root)
      BY DEF Children
    <3>4. c.page \subseteq Nodes
      BY <3>1 DEF ClaimSound, Claims
    <3>5. \A d \in steady[Scan] : vendor[d].place \in Folders \cup {Root} /\ Root \notin Nodes
      BY <1>0, PlaceKnown
    <3>6. /\ \A d \in steady[Scan] : vendor[d].place = here.parent =>
                d \in here.listed \/ d \in c.page \/ c.more
          /\ \A f \in Folders : here.parent = Root => f \in here.listed \/ f \in c.page \/ c.more
      BY <3>1, <3>2, <3>3
    <3>7. \A d \in steady[Scan] : vendor[d].place \in c.page => vendor[d].place \in c.deep
      BY <3>1, <3>2, <3>4, <3>5
    <3> QED  BY <1>3, <2>0, <3>6, <3>7 DEF WholePage
  <2> QED  BY <1>3, <2>1, <2>2, <2>3, <2>4, <2>5 DEF Carries
<1> QED  BY <1>1, <1>2, <1>3, PageFrame

LEMMA TraversalStep ==
    ASSUME Shapes, Shapes', Claimed, Traversal, Kind
    PROVE  Traversal'
<1>1. \A x \in Readers \cup {Scan} : steady'[x] \subseteq Present'
  BY PresentStep DEF Traversal
<1>2. \A d \in steady'[Scan] : item'[d].seen \/ Ahead(source.scan, d)'
  BY AheadStep
<1>3. \A w \in Workers : Holds(w)' => WholePage(worker[w])'
  BY WholePageStep
<1> QED  BY <1>1, <1>2, <1>3 DEF Traversal

\* A scan that completes has seen and read every document that stayed where it was.
LEMMA CompletesWhole ==
    ASSUME Shapes, Claimed, Traversal, NEW w \in Workers, Completes(w)
    PROVE  \A d \in steady[Scan] : d \in Docs /\ item[d].seen /\ item[d].read
<1>1. /\ worker[w].at = "claimed" /\ worker[w].at # "idle" /\ Locked(w) /\ Unread = {}
      /\ worker[w].scan.stage = "read"
  BY DEF Completes
<1>2. source.scan = worker[w].scan
  BY <1>1, LockHolds
<1>3. source.scan.stage = "read" /\ source.scan.queue = <<>>
  BY <1>1, <1>2 DEF Shapes, SourceSound
<1>4. Entries(source.scan.queue) = {}
  BY <1>3, EntriesOfOne
<1>5. \A d \in steady[Scan] : ~Ahead(source.scan, d)
  BY <1>3, <1>4 DEF Ahead, None
<1>6. \A d \in steady[Scan] : d \in Docs /\ item[d].seen
  BY <1>5, ScanKnown DEF Traversal, Shapes
<1> QED  BY <1>1, <1>6 DEF Unread

LEMMA SeenStep ==
    ASSUME Shapes, Kind, \A n \in Nodes : item[n].seen => item[n].status \notin {"ABSENT", "MISSING"}
    PROVE  \A n \in Nodes : item'[n].seen => item'[n].status \notin {"ABSENT", "MISSING"}
<1> SUFFICES ASSUME NEW n \in Nodes, item'[n].seen PROVE item'[n].status \notin {"ABSENT", "MISSING"}
  OBVIOUS
<1> DEFINE Goal == item'[n].status \notin {"ABSENT", "MISSING"}
<1>1. CASE Calm
  BY <1>1, CalmSteps
<1>2. ASSUME NEW resume \in BOOLEAN, ScheduleSource(resume) PROVE Goal
  <2>1. item'[n] = item[n] \/ item'[n] = [item[n] EXCEPT !.status = "PENDING", !.access = 0]
    BY <1>2 DEF ScheduleSource
  <2> QED  BY <2>1, RowScheduled
<1>3. CASE ClaimSource
  <2>1. item'[n] = item[n] \/ item'[n] = [item[n] EXCEPT !.seen = FALSE, !.read = FALSE]
    BY <1>3, SourceClaimed
  <2> QED  BY <2>1, RowClaimed
<1>4. ASSUME NEW w \in Workers, Completes(w) PROVE Goal
  <2>1. item'[n].seen = item[n].seen /\ (item[n].seen => item'[n].status = item[n].status)
    BY <1>4, RowCompleted DEF Completes
  <2> QED  BY <2>1
<1>5. ASSUME NEW w \in Workers, Lists(w) PROVE Goal
  <2>1. item'[n] = item[n] \/ item'[n] = Listed(n)  BY <1>5 DEF Lists
  <2>2. Listed(n).status \in {"READY", "PENDING", "PARTIAL"}  BY RowListed
  <2> QED  BY <2>1, <2>2
<1>6. ASSUME NEW w \in Workers, ReadsIn(w) PROVE Goal
  <2> DEFINE c == worker[w]
  <2>1. /\ item' = [item EXCEPT ![c.node] = Accepted(c)]
        /\ ClaimSound(c) /\ c.node # None /\ c.at = "answered" /\ c.body # Refused
        /\ item = [m \in Nodes |-> item[m]]
    BY <1>6 DEF ReadsIn, Shapes
  <2>2. item'[n] = item[n] \/ item'[n] = Accepted(c)  BY <2>1
  <2>3. Accepted(c).status \in {"READY", "PARTIAL"}  BY <2>1, RowAccepted
  <2> QED  BY <2>2, <2>3
<1>7. ASSUME NEW w \in Workers, Blames(w) PROVE Goal
  <2>1. item'[n] = Blamed(worker[w])[n] /\ ClaimSound(worker[w])  BY <1>7 DEF Blames, Shapes
  <2>2. \/ item'[n] = item[n]
        \/ item'[n].seen = item[n].seen /\ item'[n].status \in {item[n].status, "FAILED"}
    <3> DEFINE j == Blamed(worker[w])[n]
    <3>1. j = item[n] \/ (j.seen = item[n].seen /\ j.status \in {item[n].status, "FAILED"})
      BY <2>1, RowBlamed, Zenon
    <3> HIDE DEF j
    <3>2. item'[n] = j  BY <2>1 DEF j
    <3> QED  BY <3>1, <3>2
  <2>3. CASE item'[n] = item[n]  BY <2>3
  <2>4. CASE item'[n].seen = item[n].seen /\ item'[n].status \in {item[n].status, "FAILED"}
    BY <2>4
  <2> QED  BY <2>2, <2>3, <2>4
<1> QED  BY <1>1, <1>2, <1>3, <1>4, <1>5, <1>6, <1>7, KindCalm

LEMMA StartedSteadyStep ==
    ASSUME Shapes, Questions, Traversal, Kind, \A r \in source.started : steady[r] \subseteq steady[Scan]
    PROVE  \A r \in source'.started : steady'[r] \subseteq steady'[Scan]
<1>0. /\ source.started \subseteq Readers /\ source.started \subseteq Asking /\ Asking \subseteq Readers
      /\ Scan \notin Readers /\ steady \in [Readers \cup {Scan} -> SUBSET Docs]
  BY KnowledgeAssumption, SourceTyped DEF Questions, Asking, Shapes
<1>1. CASE Aside \/ \E w \in Workers : Completes(w)
  <2>1. source'.started = source.started /\ steady' = steady
    <3>1. CASE Aside  BY <3>1, AsideSteps
    <3>2. ASSUME NEW w \in Workers, Completes(w)
          PROVE  source'.started = source.started /\ steady' = steady
      <4>1. Complete /\ steady' = steady  BY <3>2 DEF Completes
      <4> QED  BY <4>1, SourceCompleted
    <3> QED  BY <1>1, <3>1, <3>2
  <2> QED  BY <2>1
<1>2. CASE ClaimSource
  <2>1. /\ source.scan = NoScan => source'.started = Asking /\ steady' = [steady EXCEPT ![Scan] = Present]
        /\ source.scan # NoScan => source'.started = source.started /\ steady' = steady
    BY <1>2, SourceClaimed
  <2>2. \A r \in Readers : steady[r] \subseteq Present  BY DEF Traversal
  <2> QED  BY <1>0, <2>1, <2>2
<1>3. ASSUME NEW d \in Docs, NEW v \in Originals, Outside(d, v)
      PROVE  \A r \in source'.started : steady'[r] \subseteq steady'[Scan]
  <2>1. /\ source' = source
        /\ \/ steady' = [x \in DOMAIN steady |-> steady[x] \ {d}]
           \/ steady' = steady
    BY <1>3 DEF Outside, Note
  <2> QED  BY <1>0, <2>1
<1>4. ASSUME NEW q \in Readers, Ask(q) PROVE \A r \in source'.started : steady'[r] \subseteq steady'[Scan]
  <2>1. /\ source' = source /\ q \notin Asking
        /\ \A x \in (Readers \cup {Scan}) \ {q} : steady'[x] = steady[x]
    BY <1>4, RunAsks
  <2> QED  BY <1>0, <2>1
<1>5. ASSUME NEW q \in Readers, Proves(q) \/ Finds(q)
      PROVE  \A r \in source'.started : steady'[r] \subseteq steady'[Scan]
  <2>1. source' = source /\ steady' = steady  BY <1>5, RunProves, RunFinds
  <2> QED  BY <2>1
<1>6. ASSUME NEW q \in Readers, NEW end, Leaves(q, end)
      PROVE  \A r \in source'.started : steady'[r] \subseteq steady'[Scan]
  <2>1. /\ source'.started = source.started \ {q}
        /\ \A x \in (Readers \cup {Scan}) \ {q} : steady'[x] = steady[x]
    BY <1>6, RunLeaves
  <2> QED  BY <1>0, <2>1
<1> QED  BY <1>1, <1>2, <1>3, <1>4, <1>5, <1>6, KindAside

\* What a completed scan has settled stays settled until the Run is gone.
LEMMA DoneStep ==
    ASSUME Shapes, Claimed, Questions, Traversal, Settled, Kind
    PROVE  \A r \in source'.done : \A d \in steady'[r] :
              /\ item'[d].status \notin {"ABSENT", "MISSING"}
              /\ item'[d].status = "READY" => Done \in item'[d].upto
<1> SUFFICES ASSUME NEW r \in source'.done, NEW d \in steady'[r]
             PROVE  /\ item'[d].status \notin {"ABSENT", "MISSING"}
                    /\ item'[d].status = "READY" => Done \in item'[d].upto
  OBVIOUS
<1> DEFINE Goal == /\ item'[d].status \notin {"ABSENT", "MISSING"}
                   /\ item'[d].status = "READY" => Done \in item'[d].upto
<1>0. /\ source.done \subseteq source.started /\ source.started \subseteq Readers
      /\ source.started \subseteq Asking /\ Scan \notin Readers /\ Done \notin Readers
      /\ steady \in [Readers \cup {Scan} -> SUBSET Docs] /\ Docs \subseteq Nodes
  BY KnowledgeAssumption, SourceTyped DEF Questions, Shapes, Nodes
<1>1. ASSUME r \in source.done, d \in steady[r]
      PROVE  /\ d \in Docs /\ d \in Nodes /\ item[d].status \notin {"ABSENT", "MISSING"}
             /\ item[d].status = "READY" => Done \in item[d].upto
  BY <1>0, <1>1 DEF Settled
<1>2. ASSUME r \in source.done, d \in steady[r], item'[d].status = item[d].status,
             Done \in item[d].upto => Done \in item'[d].upto
      PROVE  Goal
  BY <1>1, <1>2
<1>3. CASE Aside
  <2>0. r \in source.done /\ d \in steady[r]  BY <1>3, AsideSteps
  <2>1. d \in Nodes /\ d \in Docs  BY <1>1, <2>0
  <2>2. CASE Still \/ CreateSource \/ DisableSource \/ Demands \/ \E w \in Workers : \E c : Carries(w, c)
    <3>1. item' = item  BY <2>2 DEF Still, CreateSource, DisableSource, Demands, Carries
    <3> QED  BY <1>2, <2>0, <3>1
  <2>3. CASE Passes
    <3>1. item'[d] = [item[d] EXCEPT !.access = Down(@)]  BY <2>1, <2>3 DEF Passes
    <3>2. item'[d].status = item[d].status /\ item'[d].upto = item[d].upto
      BY ONLY Shapes, <2>1, <3>1, RowPassed
    <3> QED  BY <1>2, <2>0, <3>2
  <2>4. CASE \E resume \in BOOLEAN : ScheduleSource(resume)
    <3>1. item'[d] = item[d] \/ item'[d] = [item[d] EXCEPT !.status = "PENDING", !.access = 0]
      BY <2>1, <2>4 DEF ScheduleSource
    <3>2. [item[d] EXCEPT !.status = "PENDING", !.access = 0].status = "PENDING"
      BY <2>1, RowScheduled
    <3> QED  BY <1>2, <2>0, <3>1, <3>2
  <2>5. ASSUME NEW w \in Workers, Lists(w) PROVE Goal
    <3>1. item'[d] = item[d] \/ item'[d] = Listed(d)  BY <2>1, <2>5 DEF Lists
    <3>2. /\ Listed(d).status = "READY" <=> item[d].status = "READY"
          /\ Listed(d).upto = item[d].upto /\ Listed(d).status \in {"READY", "PENDING", "PARTIAL"}
      BY <2>1, RowListed
    <3>3. CASE item'[d] = item[d]  BY <1>2, <2>0, <3>3
    <3>4. CASE item'[d] = Listed(d)  BY <1>1, <2>0, <3>2, <3>4
    <3> QED  BY <3>1, <3>3, <3>4
  <2>6. ASSUME NEW w \in Workers, ReadsIn(w) PROVE Goal
    <3> DEFINE c == worker[w]
    <3>1. /\ item' = [item EXCEPT ![c.node] = Accepted(c)]
          /\ ClaimSound(c) /\ c.node # None /\ c.at = "answered" /\ c.body # Refused
          /\ item = [m \in Nodes |-> item[m]]
      BY <2>6 DEF ReadsIn, Shapes
    <3>2. item'[d] = item[d] \/ item'[d] = Accepted(c)  BY <2>1, <3>1
    <3>3. Accepted(c).status \in {"READY", "PARTIAL"} /\ Done \in Accepted(c).upto
      BY <3>1, RowAccepted
    <3> QED  BY <1>2, <2>0, <3>2, <3>3
  <2>7. ASSUME NEW w \in Workers, Blames(w) PROVE Goal
    <3> DEFINE j == Blamed(worker[w])[d]
    <3>1. item'[d] = j /\ ClaimSound(worker[w])  BY <2>7 DEF Blames, Shapes
    <3>2. j = item[d] \/ (j.status # "READY" /\ j.status \in {item[d].status, "FAILED"})
      BY <2>1, <3>1, RowBlamed, Zenon
    <3> HIDE DEF j
    <3>3. CASE j = item[d]  BY <1>2, <2>0, <3>1, <3>3
    <3>4. CASE j.status # "READY" /\ j.status \in {item[d].status, "FAILED"}
      BY <1>1, <2>0, <3>1, <3>4
    <3> QED  BY <3>2, <3>3, <3>4
  <2> QED  BY <1>3, <2>2, <2>3, <2>4, <2>5, <2>6, <2>7 DEF Aside
<1>4. CASE ClaimSource
  <2>1. /\ source'.done = source.done
        /\ steady' = steady \/ steady' = [steady EXCEPT ![Scan] = Present]
        /\ item' = item \/ item' = [n \in Nodes |-> [item[n] EXCEPT !.seen = FALSE, !.read = FALSE]]
    BY <1>4, SourceClaimed
  <2>2. r \in source.done /\ d \in steady[r]  BY <1>0, <2>1
  <2>3. d \in Nodes  BY <1>1, <2>2
  <2>4. item'[d].status = item[d].status /\ item'[d].upto = item[d].upto
    <3>1. item'[d] = item[d] \/ item'[d] = [item[d] EXCEPT !.seen = FALSE, !.read = FALSE]
      BY <2>1, <2>3
    <3> QED  BY <2>3, <3>1, RowClaimed
  <2> QED  BY <1>2, <2>2, <2>4
<1>5. ASSUME NEW e \in Docs, NEW v \in Originals, Outside(e, v) PROVE Goal
  <2>1. UNCHANGED <<source, item>> /\ \A x \in Readers \cup {Scan} : steady'[x] \subseteq steady[x]
    BY <1>5, OutsideShown
  <2>2. r \in source.done /\ d \in steady[r]  BY <1>0, <2>1
  <2> QED  BY <1>2, <2>1, <2>2
<1>6. ASSUME NEW w \in Workers, Completes(w) PROVE Goal
  <2>1. Complete /\ steady' = steady  BY <1>6 DEF Completes
  <2>2. r \in source.started  BY <2>1, SourceCompleted
  <2>3. d \in steady[Scan]  BY <2>1, <2>2 DEF Settled
  <2>4. d \in Docs /\ item[d].seen /\ item[d].read  BY <1>6, <2>3, CompletesWhole
  <2>5. d \in Nodes  BY <1>0, <2>4
  <2>6. item'[d].status = item[d].status /\ (item'[d].status # "ABSENT" => Done \in item'[d].upto)
    BY <2>1, <2>4, <2>5, RowCompleted
  <2>7. item[d].status \notin {"ABSENT", "MISSING"}  BY <2>4, <2>5 DEF Settled
  <2> QED  BY <2>6, <2>7
<1>7. ASSUME NEW q \in Readers, Ask(q) PROVE Goal
  <2>1. /\ UNCHANGED <<source, item>> /\ q \notin Asking
        /\ \A x \in (Readers \cup {Scan}) \ {q} : steady'[x] = steady[x]
    BY <1>7, RunAsks
  <2>2. r \in source.done /\ d \in steady[r]  BY <1>0, <2>1
  <2> QED  BY <1>2, <2>1, <2>2
<1>8. ASSUME NEW q \in Readers, Proves(q) PROVE Goal
  <2>1. source' = source /\ steady' = steady  BY <1>8, RunProves
  <2>2. r \in source.done /\ d \in steady[r]  BY <2>1
  <2>3. d \in Nodes  BY <1>1, <2>2
  <2>4. item'[d] = [item[d] EXCEPT !.upto = IF Done \in @ THEN @ \cup {q} ELSE @ \ {q}]
    BY <1>8, <2>3 DEF Proves
  <2>5. item'[d].status = item[d].status /\ (Done \in item'[d].upto <=> Done \in item[d].upto)
    BY ONLY Shapes, q \in Readers, <2>3, <2>4, RowProved
  <2> QED  BY <1>2, <2>2, <2>5
<1>9. ASSUME NEW q \in Readers, Finds(q) PROVE Goal
  <2>1. UNCHANGED <<source, item, steady>>  BY <1>9, RunFinds
  <2> QED  BY <1>2, <2>1
<1>10. ASSUME NEW q \in Readers, NEW end, Leaves(q, end) PROVE Goal
  <2>1. /\ source'.done = source.done \ {q}
        /\ \A x \in (Readers \cup {Scan}) \ {q} : steady'[x] = steady[x]
    BY <1>10, RunLeaves
  <2>2. r \in source.done /\ d \in steady[r]  BY <1>0, <2>1
  <2>3. d \in Nodes  BY <1>1, <2>2
  <2>4. item'[d].status = item[d].status /\ item'[d].upto = item[d].upto \ {q}
    BY <1>10, <2>3, RowLeft DEF Leaves
  <2> QED  BY <1>0, <1>2, <2>2, <2>4
<1> QED  BY <1>3, <1>4, <1>5, <1>6, <1>7, <1>8, <1>9, <1>10, KindAside

LEMMA SettledStep ==
    ASSUME Shapes, Claimed, Questions, Traversal, Settled, Kind
    PROVE  Settled'
<1>1. \A n \in Nodes : item'[n].seen => item'[n].status \notin {"ABSENT", "MISSING"}
  BY SeenStep DEF Settled
<1>2. \A r \in source'.started : steady'[r] \subseteq steady'[Scan]
  BY StartedSteadyStep DEF Settled
<1>3. \A r \in source'.done : \A d \in steady'[r] :
         /\ item'[d].status \notin {"ABSENT", "MISSING"}
         /\ item'[d].status = "READY" => Done \in item'[d].upto
  BY DoneStep
<1> QED  BY <1>1, <1>2, <1>3 DEF Settled
-----------------------------------------------------------------------------
(* The inductive invariant, and what follows from it *)

LEMMA InitIInv ==
    ASSUME Init
    PROVE  IInv
<1>1. Shapes
  BY InitShapes
<1>2. Grants
  BY InitGrants
<1>3. /\ source.scan = NoScan /\ source.started = {} /\ source.done = {}
      /\ \A n \in Nodes : item[n] = NoItem
      /\ \A w \in Workers : worker[w] = Idle
      /\ \A r \in Readers : reader[r] = Quiet
      /\ \A x \in Readers \cup {Scan} : steady[x] = {}
  BY DEF Init
<1>4. \A w \in Workers : ~Holds(w)
  BY <1>3, IdleClaim DEF Holds
<1>5. \A n \in Nodes : ~item[n].seen
  BY <1>3 DEF NoItem
<1>6. Asking = {} /\ \A r \in Readers : reader[r].at = "idle"
  BY <1>3 DEF Asking, Quiet
<1>7. Claimed
  BY <1>3, <1>4, <1>5 DEF Claimed
<1>8. Questions
  BY <1>3, <1>6 DEF Questions
<1>9. Reads
  BY <1>3 DEF Reads
<1>10. Traversal
  BY <1>3, <1>4, ScanKnown DEF Traversal
<1>11. Settled
  BY <1>3, <1>5 DEF Settled
<1> QED  BY <1>1, <1>2, <1>7, <1>8, <1>9, <1>10, <1>11 DEF IInv

LEMMA NextIInv ==
    ASSUME IInv, [Next]_vars
    PROVE  IInv' /\ Kind
<1>1. Shapes /\ Claimed /\ Grants /\ Questions /\ Reads /\ Traversal /\ Settled
  BY DEF IInv
<1>2. Shapes' /\ Kind
  BY <1>1, ShapesStep
<1>3. Claimed'
  BY <1>1, <1>2, ClaimedStep
<1>4. Grants'
  BY <1>1, <1>2, GrantsStep
<1>5. Questions'
  BY <1>1, <1>2, QuestionsStep
<1>6. Reads'
  BY <1>1, <1>2, ReadsStep
<1>7. Traversal'
  BY <1>1, <1>2, TraversalStep
<1>8. Settled'
  BY <1>1, <1>2, SettledStep
<1> QED  BY <1>2, <1>3, <1>4, <1>5, <1>6, <1>7, <1>8 DEF IInv

LEMMA Invariance == Spec => []IInv
<1>1. Init => IInv
  BY InitIInv
<1>2. IInv /\ [Next]_vars => IInv'
  BY NextIInv
<1> QED  BY <1>1, <1>2, PTL DEF Spec

LEMMA PublishedFresh ==
    ASSUME IInv, [Next]_vars, NEW r \in Readers, reader[r].at = "found", reader'[r].at = "published"
    PROVE  /\ reader[r].evidence \subseteq shown[r]
           /\ \A e \in reader[r].evidence : served[e[1]] > 0
<1>1. Shapes /\ Questions /\ Grants /\ Kind
  BY NextIInv DEF IInv
<1>2. reader[r].evidence \subseteq shown[r]
  BY <1>1 DEF Questions
<1>3. \E end : Leaves(r, end) /\ end.at = "published"
  <2>1. ASSUME reader'[r].at = reader[r].at PROVE FALSE
    BY <2>1
  <2>2. CASE Aside
    BY <1>1, <2>1, <2>2, AsideSteps
  <2>3. CASE ClaimSource \/ (\E d \in Docs, v \in Originals : Outside(d, v)) \/ \E w \in Workers : Completes(w)
    <3>1. reader' = reader  BY <2>3 DEF ClaimSource, Outside, Note, Completes
    <3> QED  BY <2>1, <3>1
  <2>4. ASSUME NEW q \in Readers, Ask(q) \/ Proves(q) \/ Finds(q) PROVE FALSE
    <3>1. CASE Ask(q)  BY <1>1, <3>1, <2>1, RunAsks
    <3>2. CASE Proves(q)  BY <1>1, <3>2, <2>1, RunProves
    <3>3. CASE Finds(q)  BY <1>1, <3>3, <2>1, RunFinds
    <3> QED  BY <2>4, <3>1, <3>2, <3>3
  <2>5. ASSUME NEW q \in Readers, NEW end, Leaves(q, end) PROVE Leaves(r, end) /\ end.at = "published"
    <3>1. q = r  BY <1>1, <2>1, <2>5, RunLeaves
    <3>2. reader' = [reader EXCEPT ![q] = end] /\ reader \in [Readers -> Searches]
      BY <1>1, <2>5 DEF Leaves, Leave, Shapes
    <3> QED  BY <2>5, <3>1, <3>2
  <2> QED  BY <1>1, <2>2, <2>3, <2>4, <2>5, KindAside
<1>4. \A e \in reader[r].evidence : ExternalAccess(e[1])
  <2>1. PICK end : Leaves(r, end) /\ end.at = "published"  BY <1>3
  <2>2. end # Quiet  BY <2>1 DEF Quiet
  <2> QED  BY <2>1, <2>2 DEF Leaves
<1>5. ASSUME NEW e \in reader[r].evidence PROVE served[e[1]] > 0
  <2>1. e[1] \in Docs  BY <1>1 DEF Shapes, Searches
  <2>2. item[e[1]].access > 0 /\ item[e[1]].access <= served[e[1]]
    BY <1>1, <1>4, <2>1 DEF ExternalAccess, Grants
  <2>3. item[e[1]].access \in Nat /\ served[e[1]] \in Nat
    <3>1. RowSound(item[e[1]]) /\ served[e[1]] \in 0 .. AccessLease
      BY <1>1, <2>1 DEF Shapes, Nodes
    <3> QED  BY <3>1, KnowledgeAssumption DEF RowSound, Rows
  <2> QED  BY <2>2, <2>3
<1> QED  BY <1>2, <1>5

\* Every answer that KnowledgePublicationGuard lets through rests on texts that the vendor
\* would have served since the question, under grants that still last (with the addition of
\* AccessStaysBounded), for any interleaving of workers, Runs, pauses, crashes and
\* withdrawals.
THEOREM AnswersAreFresh == Spec => AnswersFresh
<1>1. IInv /\ [Next]_vars =>
         [\A r \in Readers : reader[r].at = "found" /\ reader'[r].at = "published" =>
             /\ reader[r].evidence \subseteq shown[r]
             /\ \A e \in reader[r].evidence : served[e[1]] > 0]_vars
  BY PublishedFresh
<1> QED  BY <1>1, Invariance, PTL DEF Spec, AnswersFresh

LEMMA ScanEndsWhole ==
    ASSUME IInv, [Next]_vars, source.status = "ACTIVE", source.scan # NoScan, source'.scan = NoScan,
           acts' = acts
    PROVE  \A d \in steady[Scan] : item[d].seen /\ item[d].read
<1>1. Shapes /\ Claimed /\ Traversal /\ Kind
  BY NextIInv DEF IInv
<1>2. CASE Calm
  BY <1>1, <1>2, CalmSteps
<1>3. ASSUME NEW resume \in BOOLEAN, ScheduleSource(resume) PROVE FALSE
  <2>1. Act  BY <1>3 DEF ScheduleSource
  <2>2. acts \in Nat  BY <1>1 DEF Shapes
  <2> QED  BY <2>1, <2>2 DEF Act
<1>4. CASE ClaimSource
  BY <1>1, <1>4, SourceClaimed
<1>5. ASSUME NEW w \in Workers, Completes(w) PROVE \A d \in steady[Scan] : item[d].seen /\ item[d].read
  BY <1>1, <1>5, CompletesWhole
<1>6. ASSUME NEW w \in Workers, Lists(w) \/ ReadsIn(w) PROVE FALSE
  <2>1. source'.scan.stage \in {"nodes", "read"}  BY <1>1, <1>6, ScanWritten
  <2> QED  BY <2>1, ScansKnown DEF None
<1>7. ASSUME NEW w \in Workers, Blames(w) PROVE FALSE
  <2>1. source'.scan = worker[w].scan  BY <1>1, <1>7, ScanWritten
  <2>2. worker[w].at # "idle" /\ Locked(w)  BY <1>7 DEF Blames
  <2>3. worker[w].scan = source.scan  BY <1>1, <2>2, LockHolds
  <2> QED  BY <2>1, <2>3
<1> QED  BY <1>1, <1>2, <1>3, <1>4, <1>5, <1>6, <1>7, KindCalm

LEMMA ProofPassesNothing ==
    ASSUME IInv, [Next]_vars, NEW r \in Readers, reader[r].at = "waiting", reader'[r].at = "proved"
    PROVE  \A d \in steady[r] : Fresh(r, d)' \/ d \in Incomplete
<1>1. Shapes /\ Questions /\ Reads /\ Settled /\ Kind
  BY NextIInv DEF IInv
<1>2. Proves(r)
  <2>2. CASE Aside
    BY <1>1, <2>2, AsideSteps
  <2>3. CASE ClaimSource \/ (\E d \in Docs, v \in Originals : Outside(d, v)) \/ \E w \in Workers : Completes(w)
    <3>1. reader' = reader  BY <2>3 DEF ClaimSource, Outside, Note, Completes
    <3> QED  BY <3>1
  <2>4. ASSUME NEW q \in Readers, Ask(q) \/ Finds(q) \/ (\E end : Leaves(q, end)) \/ Proves(q)
        PROVE  Proves(r)
    <3>1. CASE Ask(q)  BY <1>1, <3>1, RunAsks
    <3>2. CASE Finds(q)  BY <1>1, <3>2, RunFinds
    <3>3. CASE \E end : Leaves(q, end)  BY <1>1, <3>3, RunLeaves
    <3>4. CASE Proves(q)  BY <1>1, <3>4, RunProves
    <3> QED  BY <2>4, <3>1, <3>2, <3>3, <3>4
  <2> QED  BY <1>1, <2>2, <2>3, <2>4, KindAside
<1>3. r \in source.done /\ r \in source.started
  BY <1>1, <1>2, RunProves DEF Questions
<1> SUFFICES ASSUME NEW d \in steady[r] PROVE Fresh(r, d)' \/ d \in Incomplete
  OBVIOUS
<1>4. d \in Docs /\ d \in Nodes
  BY <1>1 DEF Shapes, Nodes
<1>5. /\ item[d].status \notin {"ABSENT", "MISSING"}
      /\ item[d].status = "READY" => Done \in item[d].upto
  BY <1>1, <1>3 DEF Settled
<1>6. CASE item[d].status # "READY"
  BY <1>4, <1>5, <1>6 DEF Incomplete
<1>7. CASE item[d].status = "READY"
  <2>1. Counts(r, d)  BY <1>3, <1>5, <1>7 DEF Counts
  <2>2. r \in item[d].after  BY <1>1, <1>3, <1>4, <1>7, <2>1 DEF Reads
  <2>3. item'[d] = [item[d] EXCEPT !.upto = IF Done \in @ THEN @ \cup {r} ELSE @ \ {r}]
    BY <1>2, <1>4 DEF Proves
  <2>4. /\ item'[d].status = item[d].status /\ item'[d].after = item[d].after
        /\ r \in item'[d].upto <=> Done \in item[d].upto
    BY ONLY <1>1, r \in Readers, <1>4, <2>3, RowProved
  <2> QED  BY <1>5, <1>7, <2>2, <2>4 DEF Fresh
<1> QED  BY <1>6, <1>7

\* checkpoint_source never completes a scan that passed over a document that stayed where it
\* was, and await_live_sources never takes such a scan for proof.
THEOREM NothingIsOverlooked == Spec => NothingOverlooked
<1>1. IInv /\ [Next]_vars =>
         [/\ source.status = "ACTIVE" /\ source.scan # NoScan /\ source'.scan = NoScan /\ acts' = acts
             => \A d \in steady[Scan] : item[d].seen /\ item[d].read
          /\ \A r \in Readers : reader[r].at = "waiting" /\ reader'[r].at = "proved" =>
               \A d \in steady[r] : Fresh(r, d)' \/ d \in Incomplete]_vars
  BY ScanEndsWhole, ProofPassesNothing
<1> QED  BY <1>1, Invariance, PTL DEF Spec, NothingOverlooked
=============================================================================
