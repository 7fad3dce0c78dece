---------------------------- MODULE OutboxWorker ----------------------------
(***************************************************************************)
(* internal/outbox: the worker that moves rows of outbox_events to a Kafka *)
(* topic.  A service inserts one row per transaction; its created_at is    *)
(* now(), the start of that transaction, so rows become visible in another *)
(* order than created_at says.  Process locks a batch of the oldest visible*)
(* rows (FOR UPDATE SKIP LOCKED), produces and marks them one by one and   *)
(* commits the marks of the whole batch at the end: the first error rolls  *)
(* all of them back, and what was already produced is produced again.      *)
(***************************************************************************)
EXTENDS Naturals, Sequences, FiniteSets

CONSTANTS
  Rows,        \* rows the services insert; a row stands for its event too
  Workers,     \* running worker processes
  BatchSize,   \* LIMIT of the query (50 in the code)
  MaxFaults    \* bound: errors and crashes

ASSUME SizeAssumption == BatchSize \in Nat \ {0} /\ MaxFaults \in Nat
ASSUME FiniteAssumption == IsFiniteSet(Rows) /\ IsFiniteSet(Workers)

VARIABLES
  row,       \* "none", "writing" (uncommitted), "unpublished" or "published"
  created,   \* created_at
  written,   \* when the row was committed
  clock,     \* the database's time
  batch,     \* rows locked by the open transaction of each worker
  marked,    \* those it has produced and marked in that transaction
  topic,     \* records the broker has appended
  faults,    \* faults that happened
  overlap    \* two workers have held rows at the same time

vars == <<row, created, written, clock, batch, marked, topic, faults,
          overlap>>
writers == <<row, created, written, clock>>

Init ==
  /\ row = [e \in Rows |-> "none"]
  /\ created = [e \in Rows |-> 0]
  /\ written = [e \in Rows |-> 0]
  /\ clock = 0
  /\ batch = [w \in Workers |-> {}]
  /\ marked = [w \in Workers |-> {}]
  /\ topic = <<>>
  /\ faults = 0
  /\ overlap = FALSE

-----------------------------------------------------------------------------
(* The services that write the rows *)

\* A transaction that will insert e begins: DEFAULT now() is its start.
BeginWrite(e) ==
  /\ row[e] = "none"
  /\ row' = [row EXCEPT ![e] = "writing"]
  /\ clock' = clock + 1
  /\ created' = [created EXCEPT ![e] = clock + 1]
  /\ UNCHANGED <<written, batch, marked, topic, faults, overlap>>

\* It commits.  One that rolls back never gets here.
CommitWrite(e) ==
  /\ row[e] = "writing"
  /\ row' = [row EXCEPT ![e] = "unpublished"]
  /\ clock' = clock + 1
  /\ written' = [written EXCEPT ![e] = clock + 1]
  /\ UNCHANGED <<created, batch, marked, topic, faults, overlap>>

-----------------------------------------------------------------------------
(* The workers *)

Locked == UNION {batch[w] : w \in Workers}
\* Mutant of Free: FOR UPDATE SKIP LOCKED is missing.
FreeOrLocked == {e \in Rows : row[e] = "unpublished"}

Free == {e \in Rows : row[e] = "unpublished"} \ Locked

\* Mutant of Oldest: no ORDER BY.
AnyRows(B, S) ==
  /\ B \subseteq S
  /\ Cardinality(B) = IF Cardinality(S) < BatchSize THEN Cardinality(S) ELSE BatchSize

\* B is what ORDER BY created_at ... LIMIT takes from S.
Oldest(B, S) ==
  /\ B \subseteq S
  /\ \A e \in B, f \in S \ B : created[e] < created[f]
  /\ Cardinality(B) = IF Cardinality(S) < BatchSize THEN Cardinality(S) ELSE BatchSize

\* Mutant of Poll: the worker waits until a batch is full.
PollFullBatch(w) ==
  /\ batch[w] = {}
  /\ Cardinality(Free) >= BatchSize
  /\ \E B \in SUBSET Free : Oldest(B, Free) /\ batch' = [batch EXCEPT ![w] = B]
  /\ overlap' = (overlap \/ Locked # {})
  /\ UNCHANGED <<writers, marked, topic, faults>>

\* The transaction begins and locks its batch.  With no row it commits at once.
Poll(w) ==
  /\ batch[w] = {}
  /\ Free # {}
  /\ \E B \in SUBSET Free : Oldest(B, Free) /\ batch' = [batch EXCEPT ![w] = B]
  /\ overlap' = (overlap \/ Locked # {})
  /\ UNCHANGED <<writers, marked, topic, faults>>

\* The batch is worked off in the order of the query.
Current(w, e) ==
  /\ e \in batch[w] \ marked[w]
  /\ \A f \in batch[w] \ marked[w] : created[e] <= created[f]

\* ProduceSync succeeds and the row is marked inside the transaction.
Produce(w, e) ==
  /\ Current(w, e)
  /\ topic' = Append(topic, e)
  /\ marked' = [marked EXCEPT ![w] = @ \union {e}]
  /\ UNCHANGED <<writers, batch, faults, overlap>>

\* The deferred Rollback: locks and marks go, whatever was produced stays.
Rollback(w) ==
  /\ batch' = [batch EXCEPT ![w] = {}]
  /\ marked' = [marked EXCEPT ![w] = {}]
  /\ UNCHANGED <<writers, overlap>>

\* Mutant of ProduceFails: the error is logged and the row marked like the others.
ProduceFailsUnnoticed(w, e) ==
  /\ Current(w, e)
  /\ faults < MaxFaults
  /\ faults' = faults + 1
  /\ marked' = [marked EXCEPT ![w] = @ \union {e}]
  /\ UNCHANGED <<writers, batch, topic, overlap>>

\* ProduceSync fails, perhaps after the broker appended the record; or marking
\* the row fails.  Process returns the error; the attempts+1 that counts it is
\* rolled back like the rest, so the column says nothing and is left out.
ProduceFails(w, e) ==
  /\ Current(w, e)
  /\ faults < MaxFaults
  /\ faults' = faults + 1
  /\ topic' \in {topic, Append(topic, e)}
  /\ Rollback(w)

\* COMMIT: the whole batch is published.
CommitBatch(w) ==
  /\ batch[w] # {}
  /\ marked[w] = batch[w]
  /\ row' = [e \in Rows |-> IF e \in batch[w] THEN "published" ELSE row[e]]
  /\ batch' = [batch EXCEPT ![w] = {}]
  /\ marked' = [marked EXCEPT ![w] = {}]
  /\ UNCHANGED <<created, written, clock, topic, faults, overlap>>

\* The process dies, its context ends or its connection breaks; it runs again.
Crash(w) ==
  /\ batch[w] # {}
  /\ faults < MaxFaults
  /\ faults' = faults + 1
  /\ Rollback(w)
  /\ UNCHANGED topic

\* Every row is published and nothing is left to do.
Idle == (\A e \in Rows : row[e] = "published") /\ UNCHANGED vars

Step(w) == Poll(w) \/ (\E e \in Rows : Produce(w, e) \/ ProduceFails(w, e)) \/ CommitBatch(w)

Next == \/ \E e \in Rows : BeginWrite(e) \/ CommitWrite(e)
        \/ \E w \in Workers : Step(w) \/ Crash(w)
        \/ Idle

Spec == Init /\ [][Next]_vars

\* Run calls Process again every second and the broker answers in the end.
\* Nothing makes a service write, and nothing makes a fault happen.
FairSpec == Spec /\ \A w \in Workers : WF_vars(Step(w))

-----------------------------------------------------------------------------
(* Properties *)

Copies(e) == Cardinality({i \in DOMAIN topic : topic[i] = e})
InTopic(e) == \E i \in DOMAIN topic : topic[i] = e

\* Rows, batches and the topic hold values of their kind; a worker has marked rows
\* of its open transaction only.
TypeOK ==
  /\ row \in [Rows -> {"none", "writing", "unpublished", "published"}]
  /\ created \in [Rows -> Nat]
  /\ written \in [Rows -> Nat]
  /\ clock \in Nat
  /\ batch \in [Workers -> SUBSET Rows] /\ DOMAIN marked = Workers
  /\ \A w \in Workers : marked[w] \subseteq batch[w]
  /\ topic \in Seq(Rows)
  /\ faults \in Nat
  /\ overlap \in BOOLEAN

\* No event is lost: a row is marked as published only if the topic has its
\* record, whatever was rolled back, and however the workers overlap.
PublishedIsInTopic == \A e \in Rows : row[e] = "published" => InTopic(e)

\* SKIP LOCKED: two workers never hold the same row, and never one that is
\* already published.
BatchesDisjoint ==
  /\ \A v, w \in Workers : v # w => batch[v] \cap batch[w] = {}
  /\ \A w \in Workers : \A e \in batch[w] : row[e] = "unpublished"

\* At least once, and no more often than faults explain: every copy but one of
\* a record was left behind by a batch that failed.
CopiesHaveACause == \A e \in Rows : Copies(e) <= 1 + faults

\* As long as no two workers hold rows at the same time (docker-compose.yml runs
\* one), a row whose transaction began after another row was committed never gets
\* its first record before that other row does, whatever fails in between.
CausalOrder ==
  ~overlap =>
    \A e, f \in Rows :
      written[e] > 0 /\ written[e] < created[f] =>
        \A j \in DOMAIN topic : topic[j] = f => \E i \in 1..j : topic[i] = e

\* Every committed event is published in the end, whatever fails on the way.
EventuallyPublished == \A e \in Rows : row[e] = "unpublished" ~> row[e] = "published"
=============================================================================
