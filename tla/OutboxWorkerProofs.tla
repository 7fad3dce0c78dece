------------------------- MODULE OutboxWorkerProofs -------------------------
(***************************************************************************)
(* Proofs about OutboxWorker, for every set of rows and workers, every     *)
(* batch size and any number of faults.                                    *)
(***************************************************************************)
EXTENDS OutboxWorker, FiniteSetTheorems, TLAPS

-----------------------------------------------------------------------------
(* The inductive invariant *)

\* A worker has marked only rows whose record it has produced.
MarkedInTopic == \A w \in Workers : \A e \in marked[w] : InTopic(e)

\* Marked in an open transaction, or for good.
Marked(e) == row[e] = "published" \/ \E w \in Workers : e \in marked[w]

\* A copy is either the one a mark accounts for or was left by a fault.
CopiesCounted ==
  \A e \in Rows : Copies(e) <= faults + (IF Marked(e) THEN 1 ELSE 0)

SafeInv ==
  /\ TypeOK /\ marked \in [Workers -> SUBSET Rows]
  /\ BatchesDisjoint /\ PublishedIsInTopic /\ MarkedInTopic

-----------------------------------------------------------------------------
(* The topic *)

\* A record more: what was in the topic still is, and e is.
LEMMA AppendedInTopic ==
  ASSUME topic \in Seq(Rows), NEW e \in Rows, topic' = Append(topic, e)
  PROVE  /\ topic' \in Seq(Rows) /\ InTopic(e)'
         /\ \A f \in Rows : InTopic(f) => InTopic(f)'
<1>0. topic' \in Seq(Rows)
  OBVIOUS
<1>1. /\ Len(topic) \in Nat /\ DOMAIN topic = 1..Len(topic)
      /\ DOMAIN topic' = 1..(Len(topic) + 1)
      /\ topic'[Len(topic) + 1] = e
      /\ \A i \in 1..Len(topic) : topic'[i] = topic[i]
  OBVIOUS
<1>2. \E i \in DOMAIN topic' : topic'[i] = e
  BY <1>1
<1>3. \A f \in Rows : (\E i \in DOMAIN topic : topic[i] = f) => \E i \in DOMAIN topic' : topic'[i] = f
  BY <1>1
<1> QED
  BY <1>0, <1>2, <1>3 DEF InTopic

\* It is one copy of e more and none of any other row.
LEMMA AppendedCopies ==
  ASSUME topic \in Seq(Rows), NEW e \in Rows, topic' = Append(topic, e), NEW f \in Rows
  PROVE  Copies(f) \in Nat /\ Copies(f)' = IF f = e THEN Copies(f) + 1 ELSE Copies(f)
<1> DEFINE C == {i \in DOMAIN topic : topic[i] = f}
           D == {i \in DOMAIN topic' : topic'[i] = f}
<1>1. /\ Len(topic) \in Nat /\ DOMAIN topic = 1..Len(topic)
      /\ DOMAIN topic' = 1..(Len(topic) + 1)
      /\ topic'[Len(topic) + 1] = e
      /\ \A i \in 1..Len(topic) : topic'[i] = topic[i]
  OBVIOUS
<1>2. IsFiniteSet(C) /\ Cardinality(C) \in Nat /\ Len(topic) + 1 \notin C
  <2>1. IsFiniteSet(1..Len(topic)) /\ C \subseteq 1..Len(topic)
    BY <1>1, FS_Interval
  <2> QED
    BY <1>1, <2>1, FS_Subset, FS_CardinalityType
<1>3. D = IF f = e THEN C \union {Len(topic) + 1} ELSE C
  BY <1>1
<1>4. Cardinality(C \union {Len(topic) + 1}) = Cardinality(C) + 1
  BY <1>2, FS_AddElement
<1> QED
  BY <1>2, <1>3, <1>4 DEF Copies

-----------------------------------------------------------------------------
(* Safety *)

\* Nothing is written, locked or produced at first.
LEMMA SafeInit == Init => SafeInv
<1> SUFFICES ASSUME Init PROVE SafeInv
  OBVIOUS
<1>1. marked \in [Workers -> SUBSET Rows]
  BY DEF Init
<1>2. topic \in Seq(Rows)
  BY DEF Init
<1>3. TypeOK
  BY <1>1, <1>2 DEF Init, TypeOK
<1> QED
  BY <1>1, <1>3 DEF Init, SafeInv, BatchesDisjoint, PublishedIsInTopic, MarkedInTopic

\* A transaction that ends leaves the rows of the others to them.
LEMMA RollbackSafe ==
  ASSUME SafeInv, NEW w \in Workers, Rollback(w), faults' \in Nat, topic' \in Seq(Rows),
         \A f \in Rows : InTopic(f) => InTopic(f)'
  PROVE  SafeInv'
<1>1. /\ batch' \in [Workers -> SUBSET Rows] /\ marked' \in [Workers -> SUBSET Rows]
      /\ batch'[w] = {} /\ marked'[w] = {}
      /\ \A v \in Workers \ {w} : batch'[v] = batch[v] /\ marked'[v] = marked[v]
  BY DEF SafeInv, TypeOK, Rollback
<1>2. UNCHANGED <<row, created, written, clock, overlap>>
  BY DEF Rollback, writers
<1>3. TypeOK'
  BY <1>1, <1>2 DEF SafeInv, TypeOK
<1>4. BatchesDisjoint'
  BY <1>1, <1>2 DEF SafeInv, BatchesDisjoint
<1>5. PublishedIsInTopic' /\ MarkedInTopic'
  BY <1>1, <1>2 DEF SafeInv, PublishedIsInTopic, MarkedInTopic
<1> QED
  BY <1>1, <1>3, <1>4, <1>5 DEF SafeInv

\* Every step of a service, of a worker and every failure keeps the invariant.
LEMMA SafeNext == SafeInv /\ [Next]_vars => SafeInv'
<1> SUFFICES ASSUME SafeInv, [Next]_vars PROVE SafeInv'
  OBVIOUS
<1> USE DEF SafeInv
<1>1. ASSUME NEW e \in Rows, BeginWrite(e) PROVE SafeInv'
  <2>1. \A f \in Rows : row'[f] = IF f = e THEN "writing" ELSE row[f]
    BY <1>1 DEF BeginWrite, TypeOK
  <2>2. TypeOK' /\ marked' \in [Workers -> SUBSET Rows]
    BY <1>1 DEF BeginWrite, TypeOK
  <2>3. BatchesDisjoint'
    BY <1>1, <2>1 DEF BeginWrite, TypeOK, BatchesDisjoint
  <2>4. PublishedIsInTopic' /\ MarkedInTopic'
    BY <1>1, <2>1 DEF BeginWrite, PublishedIsInTopic, MarkedInTopic, InTopic
  <2> QED
    BY <2>2, <2>3, <2>4
<1>2. ASSUME NEW e \in Rows, CommitWrite(e) PROVE SafeInv'
  <2>1. \A f \in Rows : row'[f] = IF f = e THEN "unpublished" ELSE row[f]
    BY <1>2 DEF CommitWrite, TypeOK
  <2>2. TypeOK' /\ marked' \in [Workers -> SUBSET Rows]
    BY <1>2 DEF CommitWrite, TypeOK
  <2>3. BatchesDisjoint'
    BY <1>2, <2>1 DEF CommitWrite, TypeOK, BatchesDisjoint
  <2>4. PublishedIsInTopic' /\ MarkedInTopic'
    BY <1>2, <2>1 DEF CommitWrite, PublishedIsInTopic, MarkedInTopic, InTopic
  <2> QED
    BY <2>2, <2>3, <2>4
<1>3. ASSUME NEW w \in Workers, Poll(w) PROVE SafeInv'
  <2>1. PICK B \in SUBSET Free : batch' = [batch EXCEPT ![w] = B]
    BY <1>3 DEF Poll
  <2>2. /\ B \subseteq Rows /\ \A e \in B : row[e] = "unpublished"
        /\ \A v \in Workers : B \cap batch[v] = {}
    BY <2>1 DEF Free, Locked
  <2>3. batch'[w] = B /\ \A v \in Workers \ {w} : batch'[v] = batch[v]
    BY <2>1 DEF TypeOK
  <2>4. marked[w] = {}
    BY <1>3 DEF Poll, TypeOK
  <2>5. UNCHANGED <<row, created, written, clock, marked, topic, faults>>
    BY <1>3 DEF Poll, writers
  <2>6. overlap' \in BOOLEAN
    BY <1>3 DEF Poll, TypeOK
  <2>7. TypeOK' /\ marked' \in [Workers -> SUBSET Rows]
    BY <2>1, <2>2, <2>3, <2>4, <2>5, <2>6 DEF TypeOK
  <2>8. BatchesDisjoint'
    BY <2>2, <2>3, <2>5 DEF BatchesDisjoint
  <2>9. PublishedIsInTopic' /\ MarkedInTopic'
    BY <2>5 DEF PublishedIsInTopic, MarkedInTopic, InTopic
  <2> QED
    BY <2>7, <2>8, <2>9
<1>4. ASSUME NEW w \in Workers, NEW e \in Rows, Produce(w, e) PROVE SafeInv'
  <2>1. /\ marked'[w] = marked[w] \union {e} /\ e \in batch[w]
        /\ \A v \in Workers \ {w} : marked'[v] = marked[v]
        /\ marked' \in [Workers -> SUBSET Rows]
    BY <1>4 DEF Produce, Current
  <2>2. UNCHANGED <<row, created, written, clock, batch, faults, overlap>>
    BY <1>4 DEF Produce, writers
  <2>3. topic' \in Seq(Rows)
    BY <1>4, AppendedInTopic DEF Produce, TypeOK
  <2>4. InTopic(e)' /\ \A f \in Rows : InTopic(f) => InTopic(f)'
    BY <1>4, AppendedInTopic DEF Produce, TypeOK
  <2>5. TypeOK'
    BY <2>1, <2>2, <2>3 DEF TypeOK
  <2>6. BatchesDisjoint'
    BY <2>2 DEF BatchesDisjoint
  <2>7. PublishedIsInTopic' /\ MarkedInTopic'
    BY <2>1, <2>2, <2>4 DEF PublishedIsInTopic, MarkedInTopic
  <2> QED
    BY <2>1, <2>5, <2>6, <2>7
<1>5. ASSUME NEW w \in Workers, NEW e \in Rows, ProduceFails(w, e) PROVE SafeInv'
  <2>1. faults' \in Nat /\ Rollback(w)
    BY <1>5 DEF ProduceFails, TypeOK
  <2>2. topic' = topic \/ topic' = Append(topic, e)
    BY <1>5 DEF ProduceFails
  <2>3. topic' \in Seq(Rows)
    BY <2>2, AppendedInTopic DEF TypeOK
  <2>4. \A f \in Rows : InTopic(f) => InTopic(f)'
    BY <2>2, AppendedInTopic DEF TypeOK, InTopic
  <2> QED
    BY <2>1, <2>3, <2>4, RollbackSafe
<1>6. ASSUME NEW w \in Workers, CommitBatch(w) PROVE SafeInv'
  <2>1. /\ batch'[w] = {} /\ marked'[w] = {} /\ marked[w] = batch[w]
        /\ \A v \in Workers \ {w} : batch'[v] = batch[v] /\ marked'[v] = marked[v]
        /\ batch' \in [Workers -> SUBSET Rows] /\ marked' \in [Workers -> SUBSET Rows]
    BY <1>6 DEF CommitBatch, TypeOK
  <2>2. /\ row' \in [Rows -> {"none", "writing", "unpublished", "published"}]
        /\ \A e \in Rows : row'[e] = IF e \in batch[w] THEN "published" ELSE row[e]
    BY <1>6 DEF CommitBatch, TypeOK
  <2>3. UNCHANGED <<created, written, clock, topic, faults, overlap>>
    BY <1>6 DEF CommitBatch
  <2>4. TypeOK'
    BY <2>1, <2>2, <2>3 DEF TypeOK
  <2>5. BatchesDisjoint'
    <3>1. \A v \in Workers \ {w} : \A e \in batch[v] : e \notin batch[w] /\ e \in Rows
      BY DEF BatchesDisjoint, TypeOK
    <3> QED
      BY <2>1, <2>2, <3>1 DEF BatchesDisjoint
  <2>6. PublishedIsInTopic'
    BY <2>1, <2>2, <2>3 DEF PublishedIsInTopic, MarkedInTopic, InTopic
  <2>7. MarkedInTopic'
    BY <2>1, <2>3 DEF MarkedInTopic, InTopic
  <2> QED
    BY <2>1, <2>4, <2>5, <2>6, <2>7
<1>7. ASSUME NEW w \in Workers, Crash(w) PROVE SafeInv'
  <2>1. faults' \in Nat /\ Rollback(w) /\ topic' = topic
    BY <1>7 DEF Crash, TypeOK
  <2> QED
    BY <2>1, RollbackSafe DEF TypeOK, InTopic
<1>8. CASE Idle \/ UNCHANGED vars
  BY <1>8 DEF Idle, vars, TypeOK, BatchesDisjoint, PublishedIsInTopic, MarkedInTopic, InTopic
<1> QED
  BY <1>1, <1>2, <1>3, <1>4, <1>5, <1>6, <1>7, <1>8 DEF Next, Step

\* The invariant holds in every reachable state.
THEOREM Safety == Spec => []SafeInv
BY SafeInit, SafeNext, PTL DEF Spec

\* Rows, batches and the topic of worker.go hold values of their kind.
THEOREM TypeCorrect == Spec => []TypeOK
<1>1. SafeInv => TypeOK
  BY DEF SafeInv
<1> QED
  BY <1>1, Safety, PTL

\* No event is lost (worker.go:61-73): a published row has its record in the topic.
THEOREM NothingLost == Spec => []PublishedIsInTopic
<1>1. SafeInv => PublishedIsInTopic
  BY DEF SafeInv
<1> QED
  BY <1>1, Safety, PTL

\* FOR UPDATE SKIP LOCKED (worker.go:46): no two workers hold one row.
THEOREM NoSharedRows == Spec => []BatchesDisjoint
<1>1. SafeInv => BatchesDisjoint
  BY DEF SafeInv
<1> QED
  BY <1>1, Safety, PTL

-----------------------------------------------------------------------------
(* Copies *)

\* A topic has a number of copies of each record.
LEMMA CopiesType ==
  ASSUME topic \in Seq(Rows), NEW f \in Rows
  PROVE  Copies(f) \in Nat
<1> DEFINE C == {i \in DOMAIN topic : topic[i] = f}
<1>1. DOMAIN topic = 1..Len(topic) /\ Len(topic) \in Nat
  OBVIOUS
<1>2. IsFiniteSet(1..Len(topic)) /\ C \subseteq 1..Len(topic)
  BY <1>1, FS_Interval
<1>3. Cardinality(C) \in Nat
  BY <1>2, FS_Subset, FS_CardinalityType
<1> QED
  BY <1>3 DEF Copies

\* At first there are none.
LEMMA CopiesInit == Init => CopiesCounted
<1> SUFFICES ASSUME Init, NEW e \in Rows PROVE Copies(e) = 0 /\ faults = 0
  BY DEF CopiesCounted
<1>1. {i \in DOMAIN topic : topic[i] = e} = {}
  BY DEF Init
<1> QED
  BY <1>1, FS_EmptySet DEF Copies, Init

\* After a rollback the fault pays for the mark, and for one copy of a row that
\* had none.
LEMMA RollbackCopies ==
  ASSUME SafeInv, CopiesCounted, NEW w \in Workers, Rollback(w), faults' = faults + 1,
         \/ topic' = topic
         \/ \E e \in Rows : ~Marked(e) /\ topic' = Append(topic, e)
  PROVE  CopiesCounted'
<1> SUFFICES ASSUME NEW f \in Rows
             PROVE  Copies(f)' <= faults' + (IF Marked(f)' THEN 1 ELSE 0)
  BY DEF CopiesCounted
<1>1. faults \in Nat /\ topic \in Seq(Rows)
  BY DEF SafeInv, TypeOK
<1>2. Copies(f) \in Nat
  BY <1>1, CopiesType
<1>3. Copies(f) <= faults + (IF Marked(f) THEN 1 ELSE 0)
  BY DEF CopiesCounted
<1>4. CASE topic' = topic
  <2>1. Copies(f)' = Copies(f)
    BY <1>4 DEF Copies
  <2> QED
    BY <1>1, <1>2, <1>3, <2>1
<1>5. CASE \E e \in Rows : ~Marked(e) /\ topic' = Append(topic, e)
  <2>1. PICK e \in Rows : ~Marked(e) /\ topic' = Append(topic, e)
    BY <1>5
  <2>2. Copies(f)' = IF f = e THEN Copies(f) + 1 ELSE Copies(f)
    BY <1>1, <2>1, AppendedCopies
  <2>3. CASE f = e
    BY <1>1, <1>2, <1>3, <2>1, <2>2, <2>3
  <2>4. CASE f # e
    BY <1>1, <1>2, <1>3, <2>2, <2>4
  <2> QED
    BY <2>3, <2>4
<1> QED
  BY <1>4, <1>5

\* A step that adds no copy and no fault and takes no mark away.
LEMMA SameCopies ==
  ASSUME CopiesCounted, topic' = topic, faults' = faults,
         SafeInv, \A e \in Rows : Marked(e) => Marked(e)'
  PROVE  CopiesCounted'
<1> SUFFICES ASSUME NEW f \in Rows
             PROVE  Copies(f)' <= faults' + (IF Marked(f)' THEN 1 ELSE 0)
  BY DEF CopiesCounted
<1>1. faults \in Nat /\ Copies(f)' = Copies(f)
  BY DEF SafeInv, TypeOK, Copies
<1>2. Copies(f) \in Nat
  BY CopiesType DEF SafeInv, TypeOK
<1>3. Copies(f) <= faults + (IF Marked(f) THEN 1 ELSE 0)
  BY DEF CopiesCounted
<1>4. CASE Marked(f)
  BY <1>1, <1>2, <1>3, <1>4
<1>5. CASE ~Marked(f)
  BY <1>1, <1>2, <1>3, <1>5
<1> QED
  BY <1>4, <1>5

\* A worker's current row is marked by nobody.
LEMMA CurrentUnmarked ==
  ASSUME SafeInv, NEW w \in Workers, NEW e \in Rows, Current(w, e)
  PROVE  ~Marked(e)
BY DEF SafeInv, TypeOK, BatchesDisjoint, Current, Marked

\* Every step keeps the account of the copies.
LEMMA CopiesNext == SafeInv /\ CopiesCounted /\ [Next]_vars => CopiesCounted'
<1> SUFFICES ASSUME SafeInv, CopiesCounted, [Next]_vars PROVE CopiesCounted'
  OBVIOUS
<1>1. ASSUME NEW e \in Rows, BeginWrite(e) \/ CommitWrite(e) PROVE CopiesCounted'
  <2>1. \A f \in Rows : row[f] = "published" => row'[f] = "published"
    BY <1>1 DEF BeginWrite, CommitWrite, SafeInv, TypeOK
  <2>2. UNCHANGED <<marked, topic, faults>>
    BY <1>1 DEF BeginWrite, CommitWrite
  <2> QED
    BY <2>1, <2>2, SameCopies DEF Marked
<1>2. ASSUME NEW w \in Workers, Poll(w) PROVE CopiesCounted'
  <2>1. UNCHANGED <<row, marked, topic, faults>>
    BY <1>2 DEF Poll, writers
  <2> QED
    BY <2>1, SameCopies DEF Marked
<1>3. ASSUME NEW w \in Workers, NEW e \in Rows, Produce(w, e) PROVE CopiesCounted'
  <2> SUFFICES ASSUME NEW f \in Rows
               PROVE  Copies(f)' <= faults' + (IF Marked(f)' THEN 1 ELSE 0)
    BY DEF CopiesCounted
  <2>1. Copies(f) \in Nat /\ Copies(f)' = IF f = e THEN Copies(f) + 1 ELSE Copies(f)
    BY <1>3, AppendedCopies DEF Produce, SafeInv, TypeOK
  <2>2. faults \in Nat /\ faults' = faults
    BY <1>3 DEF Produce, SafeInv, TypeOK
  <2>3. Copies(f) <= faults + (IF Marked(f) THEN 1 ELSE 0)
    BY DEF CopiesCounted
  <2>4. /\ Marked(f) => Marked(f)'
        /\ Marked(e)'
    BY <1>3 DEF Produce, writers, Marked, SafeInv, TypeOK
  <2>5. ~Marked(e)
    BY <1>3, CurrentUnmarked DEF Produce
  <2>6. CASE f = e
    BY <2>1, <2>2, <2>3, <2>4, <2>5, <2>6
  <2>7. CASE f # e /\ Marked(f)
    BY <2>1, <2>2, <2>3, <2>4, <2>7
  <2>8. CASE f # e /\ ~Marked(f)
    BY <2>1, <2>2, <2>3, <2>8
  <2> QED
    BY <2>6, <2>7, <2>8
<1>4. ASSUME NEW w \in Workers, NEW e \in Rows, ProduceFails(w, e) PROVE CopiesCounted'
  <2>1. ~Marked(e)
    BY <1>4, CurrentUnmarked DEF ProduceFails
  <2>2. Rollback(w) /\ faults' = faults + 1 /\ (topic' = topic \/ topic' = Append(topic, e))
    BY <1>4 DEF ProduceFails
  <2> QED
    BY <2>1, <2>2, RollbackCopies
<1>5. ASSUME NEW w \in Workers, CommitBatch(w) PROVE CopiesCounted'
  <2>1. \A f \in Rows : Marked(f) => Marked(f)'
    BY <1>5 DEF CommitBatch, Marked, SafeInv, TypeOK
  <2> QED
    BY <1>5, <2>1, SameCopies DEF CommitBatch
<1>6. ASSUME NEW w \in Workers, Crash(w) PROVE CopiesCounted'
  BY <1>6, RollbackCopies DEF Crash
<1>7. CASE Idle \/ UNCHANGED vars
  BY <1>7, SameCopies DEF Idle, vars, Marked
<1> QED
  BY <1>1, <1>2, <1>3, <1>4, <1>5, <1>6, <1>7 DEF Next, Step

\* At least once, and a copy too many only after a fault (worker.go:58-73).
THEOREM CopiesExplained == Spec => []CopiesHaveACause
<1>1. SafeInv /\ CopiesCounted => CopiesHaveACause
  <2> SUFFICES ASSUME SafeInv, CopiesCounted, NEW e \in Rows PROVE Copies(e) <= 1 + faults
    BY DEF CopiesHaveACause
  <2>1. faults \in Nat
    BY DEF SafeInv, TypeOK
  <2>2. Copies(e) \in Nat
    BY CopiesType DEF SafeInv, TypeOK
  <2>3. Copies(e) <= faults + (IF Marked(e) THEN 1 ELSE 0)
    BY DEF CopiesCounted
  <2> QED
    BY <2>1, <2>2, <2>3
<1> QED
  BY <1>1, CopiesInit, CopiesNext, Safety, PTL DEF Spec

-----------------------------------------------------------------------------
(* Order *)

\* f's transaction began after e was committed.
Precedes(e, f) == written[e] > 0 /\ written[e] < created[f]

\* Time stamps are past, and tell how far a row has got.
StampsPast ==
  \A e \in Rows :
    /\ created[e] <= clock /\ written[e] <= clock
    /\ row[e] = "none" => created[e] = 0
    /\ row[e] \in {"none", "writing"} <=> written[e] = 0
    /\ written[e] > 0 => created[e] < written[e]

\* The topic has records of committed rows only.
TopicCommitted == \A e \in Rows : InTopic(e) => row[e] \in {"unpublished", "published"}

\* What comes before a row of a batch is published or in the batch as well.
BatchClosed ==
  ~overlap =>
    \A w \in Workers : \A f \in batch[w], e \in Rows :
      Precedes(e, f) => row[e] = "published" \/ e \in batch[w]

OrderInv == StampsPast /\ TopicCommitted /\ BatchClosed /\ CausalOrder

\* At first nothing precedes anything.
LEMMA OrderInit == Init => OrderInv
BY DEF Init, OrderInv, StampsPast, TopicCommitted, BatchClosed, CausalOrder, InTopic

\* A worker's current row has everything before it in the topic already.
LEMMA CurrentIsNext ==
  ASSUME SafeInv, OrderInv, ~overlap, NEW w \in Workers, NEW f \in Rows, Current(w, f),
         NEW e \in Rows, Precedes(e, f)
  PROVE  InTopic(e)
<1>1. f \in batch[w] /\ (row[e] = "published" \/ e \in batch[w])
  BY DEF Current, OrderInv, BatchClosed
<1>2. created[e] < created[f]
  BY DEF Precedes, OrderInv, StampsPast, SafeInv, TypeOK
<1>3. row[e] = "published" \/ e \in marked[w]
  BY <1>1, <1>2 DEF Current, SafeInv, TypeOK
<1> QED
  BY <1>3 DEF SafeInv, PublishedIsInTopic, MarkedInTopic

\* Producing a worker's current row keeps the order, marked or not.
LEMMA AppendKeepsOrder ==
  ASSUME SafeInv, OrderInv, NEW w \in Workers, NEW f \in Rows, Current(w, f),
         topic' = Append(topic, f), UNCHANGED writers, overlap' = overlap
  PROVE  CausalOrder' /\ TopicCommitted'
<1>1. /\ Len(topic) \in Nat /\ DOMAIN topic = 1..Len(topic)
      /\ DOMAIN topic' = 1..(Len(topic) + 1)
      /\ topic'[Len(topic) + 1] = f
      /\ \A i \in 1..Len(topic) : topic'[i] = topic[i]
  BY DEF SafeInv, TypeOK
<1>2. TopicCommitted'
  <2>1. row[f] = "unpublished"
    BY DEF Current, SafeInv, BatchesDisjoint
  <2>2. \A g \in Rows : InTopic(g)' => g = f \/ InTopic(g)
    BY <1>1 DEF InTopic
  <2> QED
    BY <2>1, <2>2 DEF OrderInv, TopicCommitted, writers
<1>3. CausalOrder'
  <2> SUFFICES ASSUME ~overlap, NEW e \in Rows, NEW g \in Rows, Precedes(e, g),
                      NEW j \in DOMAIN topic', topic'[j] = g
               PROVE  \E i \in 1..j : topic'[i] = e
    BY DEF CausalOrder, Precedes, writers
  <2>1. CASE j \in 1..Len(topic)
    <3>1. \E i \in 1..j : topic[i] = e
      BY <1>1, <2>1 DEF OrderInv, CausalOrder, Precedes
    <3> QED
      BY <1>1, <2>1, <3>1
  <2>2. CASE j = Len(topic) + 1
    <3>1. g = f
      BY <1>1, <2>2
    <3>2. InTopic(e)
      BY <3>1, CurrentIsNext
    <3> QED
      BY <1>1, <2>2, <3>2 DEF InTopic
  <2> QED
    BY <1>1, <2>1, <2>2
<1> QED
  BY <1>2, <1>3

\* Nothing of the writers or the topic changes: the order is what it was.
LEMMA SameOrder ==
  ASSUME OrderInv, UNCHANGED <<row, created, written, clock, topic>>, overlap => overlap'
  PROVE  StampsPast' /\ TopicCommitted' /\ CausalOrder'
BY DEF OrderInv, StampsPast, TopicCommitted, CausalOrder, InTopic

\* Every step keeps the order.
LEMMA OrderNext == SafeInv /\ OrderInv /\ [Next]_vars => OrderInv'
<1> SUFFICES ASSUME SafeInv, OrderInv, [Next]_vars PROVE OrderInv'
  OBVIOUS
<1>1. ASSUME NEW x \in Rows, BeginWrite(x) PROVE OrderInv'
  <2>1. /\ row[x] = "none" /\ \A e \in Rows : row'[e] = IF e = x THEN "writing" ELSE row[e]
        /\ \A e \in Rows : created'[e] = IF e = x THEN clock + 1 ELSE created[e]
        /\ clock' = clock + 1 /\ clock \in Nat
        /\ UNCHANGED <<written, batch, topic, overlap>>
    BY <1>1 DEF BeginWrite, SafeInv, TypeOK
  <2>2. StampsPast'
    BY <2>1 DEF StampsPast, OrderInv, SafeInv, TypeOK
  <2>3. ~InTopic(x) /\ \A w \in Workers : x \notin batch[w]
    BY <2>1 DEF OrderInv, TopicCommitted, SafeInv, BatchesDisjoint
  <2>4. TopicCommitted'
    BY <2>1, <2>3 DEF OrderInv, TopicCommitted, InTopic
  <2>5. BatchClosed'
    <3>1. \A w \in Workers : batch[w] \subseteq Rows
      BY DEF SafeInv, TypeOK
    <3> QED
      BY <2>1, <2>3, <3>1 DEF OrderInv, BatchClosed, Precedes
  <2>6. CausalOrder'
    BY <2>1, <2>3 DEF OrderInv, CausalOrder, InTopic
  <2> QED
    BY <2>2, <2>4, <2>5, <2>6 DEF OrderInv
<1>2. ASSUME NEW x \in Rows, CommitWrite(x) PROVE OrderInv'
  <2>1. /\ row[x] = "writing" /\ \A e \in Rows : row'[e] = IF e = x THEN "unpublished" ELSE row[e]
        /\ \A e \in Rows : written'[e] = IF e = x THEN clock + 1 ELSE written[e]
        /\ clock' = clock + 1 /\ clock \in Nat
        /\ UNCHANGED <<created, batch, topic, overlap>>
    BY <1>2 DEF CommitWrite, SafeInv, TypeOK
  <2>2. StampsPast'
    BY <2>1 DEF StampsPast, OrderInv, SafeInv, TypeOK
  <2>3. \A e, f \in Rows : Precedes(e, f)' => Precedes(e, f) /\ e # x
    BY <2>1 DEF Precedes, OrderInv, StampsPast, SafeInv, TypeOK
  <2>4. TopicCommitted'
    BY <2>1 DEF OrderInv, TopicCommitted, InTopic
  <2>5. BatchClosed'
    <3>1. \A w \in Workers : batch[w] \subseteq Rows
      BY DEF SafeInv, TypeOK
    <3> QED
      BY <2>1, <2>3, <3>1 DEF OrderInv, BatchClosed
  <2>6. CausalOrder'
    BY <2>1, <2>3 DEF OrderInv, CausalOrder, Precedes
  <2> QED
    BY <2>2, <2>4, <2>5, <2>6 DEF OrderInv
<1>3. ASSUME NEW w \in Workers, Poll(w) PROVE OrderInv'
  <2>1. PICK B \in SUBSET Free : Oldest(B, Free) /\ batch' = [batch EXCEPT ![w] = B]
    BY <1>3 DEF Poll
  <2>2. /\ UNCHANGED <<row, created, written, clock, topic>>
        /\ overlap' = (overlap \/ Locked # {})
    BY <1>3 DEF Poll, writers
  <2>3. batch'[w] = B /\ \A v \in Workers \ {w} : batch'[v] = batch[v]
    BY <2>1 DEF SafeInv, TypeOK
  <2>4. BatchClosed'
    <3> SUFFICES ASSUME ~overlap', NEW v \in Workers, NEW f \in batch'[v], NEW e \in Rows,
                        Precedes(e, f)
                 PROVE  row[e] = "published" \/ e \in batch'[v]
      BY <2>2 DEF BatchClosed, Precedes
    <3>1. ~overlap /\ Locked = {}
      BY <2>2
    <3>2. v = w /\ f \in B /\ f \in Rows
      BY <2>1, <2>3, <3>1 DEF Locked, Free
    <3>3. row[e] \in {"unpublished", "published"} /\ created[e] < created[f]
      <4>1. /\ written[e] > 0 /\ written[e] < created[f]
            /\ created[e] \in Nat /\ written[e] \in Nat /\ created[f] \in Nat
        BY <3>2 DEF Precedes, SafeInv, TypeOK
      <4>2. created[e] < written[e] /\ row[e] \notin {"none", "writing"}
        BY <4>1 DEF OrderInv, StampsPast
      <4> QED
        BY <4>1, <4>2 DEF SafeInv, TypeOK
    <3>4. e \in Free => e \in B
      BY <2>1, <3>2, <3>3 DEF Oldest, SafeInv, TypeOK
    <3> QED
      BY <2>3, <3>1, <3>2, <3>3, <3>4 DEF Free
  <2> QED
    BY <2>2, <2>4, SameOrder DEF OrderInv
<1>4. ASSUME NEW w \in Workers, NEW f \in Rows, Produce(w, f) PROVE OrderInv'
  <2>1. CausalOrder' /\ TopicCommitted'
    BY <1>4, AppendKeepsOrder DEF Produce
  <2>2. StampsPast' /\ BatchClosed'
    BY <1>4 DEF Produce, writers, OrderInv, StampsPast, BatchClosed, Precedes
  <2> QED
    BY <2>1, <2>2 DEF OrderInv
<1>5. ASSUME NEW w \in Workers, Rollback(w) PROVE StampsPast' /\ BatchClosed'
  <2>1. /\ batch'[w] = {} /\ \A v \in Workers \ {w} : batch'[v] = batch[v]
        /\ UNCHANGED <<row, created, written, clock, overlap>>
    BY <1>5 DEF Rollback, writers, SafeInv, TypeOK
  <2>2. StampsPast'
    BY <2>1 DEF OrderInv, StampsPast
  <2>3. BatchClosed'
    BY <2>1 DEF OrderInv, BatchClosed, Precedes
  <2> QED
    BY <2>2, <2>3
<1>6. ASSUME NEW w \in Workers, NEW f \in Rows, ProduceFails(w, f) PROVE OrderInv'
  <2>1. /\ Current(w, f) /\ Rollback(w) /\ UNCHANGED <<writers, overlap>>
        /\ topic' = topic \/ topic' = Append(topic, f)
    BY <1>6 DEF ProduceFails, Rollback
  <2>2. CausalOrder' /\ TopicCommitted'
    <3>1. CASE topic' = topic
      BY <2>1, <3>1, SameOrder DEF writers
    <3>2. CASE topic' = Append(topic, f)
      BY <2>1, <3>2, AppendKeepsOrder
    <3> QED
      BY <2>1, <3>1, <3>2
  <2> QED
    BY <1>5, <2>1, <2>2 DEF OrderInv
<1>7. ASSUME NEW w \in Workers, CommitBatch(w) PROVE OrderInv'
  <2>1. /\ batch'[w] = {} /\ \A v \in Workers \ {w} : batch'[v] = batch[v]
        /\ \A e \in Rows : row'[e] = IF e \in batch[w] THEN "published" ELSE row[e]
        /\ UNCHANGED <<created, written, clock, topic, overlap>>
    BY <1>7 DEF CommitBatch, SafeInv, TypeOK
  <2>2. \A e \in batch[w] : row[e] = "unpublished"
    BY DEF SafeInv, BatchesDisjoint
  <2>3. StampsPast'
    BY <2>1, <2>2 DEF OrderInv, StampsPast
  <2>4. TopicCommitted'
    BY <2>1 DEF OrderInv, TopicCommitted, InTopic
  <2>5. BatchClosed'
    BY <2>1 DEF OrderInv, BatchClosed, Precedes
  <2>6. CausalOrder'
    BY <2>1 DEF OrderInv, CausalOrder
  <2> QED
    BY <2>3, <2>4, <2>5, <2>6 DEF OrderInv
<1>8. ASSUME NEW w \in Workers, Crash(w) PROVE OrderInv'
  <2>1. Rollback(w) /\ UNCHANGED <<row, created, written, clock, topic, overlap>>
    BY <1>8 DEF Crash, Rollback, writers
  <2> QED
    BY <1>5, <2>1, SameOrder DEF OrderInv
<1>9. CASE Idle \/ UNCHANGED vars
  BY <1>9 DEF Idle, vars, OrderInv, StampsPast, TopicCommitted, BatchClosed, CausalOrder,
              Precedes, InTopic
<1> QED
  BY <1>1, <1>2, <1>3, <1>4, <1>6, <1>7, <1>8, <1>9 DEF Next, Step

\* The query of worker.go:46 keeps causes before effects as long as one worker at
\* a time holds rows, through any number of failed and repeated batches.
THEOREM CausesFirst == Spec => []CausalOrder
<1>1. OrderInv => CausalOrder
  BY DEF OrderInv
<1> QED
  BY <1>1, OrderInit, OrderNext, Safety, PTL DEF Spec
=============================================================================
