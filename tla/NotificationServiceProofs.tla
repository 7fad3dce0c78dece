----------------------- MODULE NotificationServiceProofs -----------------------
(***************************************************************************)
(* Proofs about NotificationService, for any users, chats, events, batch   *)
(* size and faults.                                                        *)
(***************************************************************************)
EXTENDS NotificationService, FiniteSetTheorems, TLAPS

-----------------------------------------------------------------------------
(* The invariant *)

EventsOf(t) == IF t = "users" THEN UserEvents ELSE OrderEvents

\* Each topic holds events of its own kind.
LogTyped == log \in [Topics -> Seq(UserEvents \union OrderEvents)]
            /\ \A t \in Topics : log[t] \in Seq(EventsOf(t))

Offsets ==
  /\ position \in [Topics -> Nat] /\ committed \in [Topics -> Nat]
  /\ \A t \in Topics : committed[t] <= position[t] /\ position[t] <= Len(log[t])
  /\ pc \in Topics \union {"poll"}
  /\ skipped \in [Topics -> SUBSET Nat]
  /\ faults \in Nat

TablesTyped ==
  /\ processed \subseteq Ids
  /\ recipients \in [Users -> [telegram : Chats \union {Null}, active : {"none", "on", "off"}]]
  /\ notes \in [Keys -> [status : {"NONE", "PENDING", "SENT"}, created : Nat]]

RowsTyped == selected \in [Keys -> Chats \union {Null}] /\ sent \in [Keys -> Nat]

\* Behind the position, not only behind the committed offset, nothing is unhandled.
PositionHandled == \A t \in Topics : \A i \in 1..position[t] : Handled(t, i)

\* A row exists from the event on, and for each performer of a processed one.
NotesMade ==
  /\ \A k \in Keys : notes[k].status = "NONE" => notes[k] = NoNote
  /\ \A r \in OrderEvents : \A u \in r.performers :
       r.id \in processed => notes[<<r.id, u>>].status \in {"PENDING", "SENT"}

\* The dispatcher holds pending rows; one message per fault before the mark.
SentCounted ==
  \A k \in Keys :
    /\ selected[k] # Null => notes[k].status = "PENDING"
    /\ notes[k].status # "SENT" => sent[k] <= faults
    /\ notes[k].status = "SENT" => sent[k] >= 1
    /\ sent[k] <= 1 + faults

Inv == /\ LogTyped /\ Offsets /\ TablesTyped /\ RowsTyped
       /\ PositionHandled /\ NotesMade /\ SentCounted

LEMMA KeysTyped == \A r \in OrderEvents : \A u \in r.performers : <<r.id, u>> \in Keys
BY EventAssumption DEF Keys, OrderRecords

LEMMA InitInv == Init => Inv
<1> SUFFICES ASSUME Init PROVE Inv
  OBVIOUS
<1>1. \A t \in Topics : log[t] = <<>> /\ position[t] = 0 /\ committed[t] = 0
  BY DEF Init
<1>2. LogTyped
  BY DEF Init, LogTyped, Topics
<1>3. Offsets
  BY <1>1 DEF Init, Offsets, BoundAssumption
<1>4. TablesTyped /\ RowsTyped
  BY DEF Init, TablesTyped, RowsTyped, Unknown, NoNote
<1>5. PositionHandled
  BY <1>1 DEF PositionHandled
<1>6. NotesMade
  BY DEF Init, NotesMade, NoNote
<1>7. SentCounted
  BY DEF Init, SentCounted, NoNote
<1> QED
  BY <1>2, <1>3, <1>4, <1>5, <1>6, <1>7 DEF Inv

-----------------------------------------------------------------------------
(* The consumer *)

\* The record the consumer is at is an event of its topic.
LEMMA NextTyped ==
  ASSUME Inv, NEW t \in Topics, position[t] < Len(log[t])
  PROVE  NextRecord(t) \in EventsOf(t) /\ position[t] + 1 \in 1..Len(log[t])
<1>1. log[t] \in Seq(EventsOf(t)) /\ position[t] \in Nat
  BY DEF Inv, LogTyped, Offsets
<1>2. Len(log[t]) \in Nat /\ position[t] + 1 \in 1..Len(log[t])
  BY <1>1
<1> QED
  BY <1>1, <1>2 DEF NextRecord

LEMMA ProcessedFinite == ASSUME Inv PROVE Cardinality(processed) \in Nat
<1>1. IsFiniteSet(processed)
  BY EventAssumption, FS_Subset DEF Inv, TablesTyped
<1> QED
  BY <1>1, FS_CardinalityType

\* What is handled stays handled while the log and what was processed or skipped grow.
LEMMA HandledGrows ==
  ASSUME NEW t \in Topics, NEW i \in Nat, Handled(t, i), skipped[t] \subseteq skipped'[t],
         processed \subseteq processed', UNCHANGED log
  PROVE  Handled(t, i)'
BY DEF Handled

\* A transaction keeps the tables well typed, and complete for what it processed.
LEMMA ApplyTables ==
  ASSUME Inv, NEW t \in Topics, NEW r \in EventsOf(t), Apply(t, r)
  PROVE  /\ TablesTyped' /\ NotesMade'
         /\ \A k \in Keys : notes'[k] = notes[k] \/ (notes[k] = NoNote /\ notes'[k].status = "PENDING")
<1>0. processed' = processed \union {r.id}
  BY DEF Apply
<1>1. r.id \in Ids
  BY DEF EventsOf, Ids
<1>2. processed' \subseteq Ids
  BY <1>0, <1>1 DEF Inv, TablesTyped
<1>3. CASE r.id \in processed
  <2>1. processed' = processed /\ UNCHANGED <<recipients, notes>>
    BY <1>0, <1>3 DEF Apply
  <2> QED
    BY <2>1 DEF Inv, TablesTyped, NotesMade
<1>4. CASE r.id \notin processed /\ t = "users"
  <2>1. r \in UserEvents /\ r \in UserRecords /\ SyncRecipient(r)
    BY <1>4, EventAssumption DEF EventsOf, Apply
  <2>2. recipients' \in [Users -> [telegram : Chats \union {Null}, active : {"none", "on", "off"}]]
    BY <2>1 DEF SyncRecipient, UserRecords, Known, Unknown, Inv, TablesTyped, Keep
  <2>3. \A s \in OrderEvents : s.id \in processed' => s.id \in processed
    BY <1>0, <2>1, EventAssumption
  <2>4. notes' = notes
    BY <2>1 DEF SyncRecipient
  <2> QED
    BY <1>2, <2>2, <2>3, <2>4 DEF Inv, TablesTyped, NotesMade
<1>5. CASE r.id \notin processed /\ t # "users"
  <2>1. r \in OrderEvents /\ CreateNotifications(r)
    BY <1>5 DEF EventsOf, Apply
  <2> DEFINE at == Cardinality(processed) + 1
             fresh(k) == k[1] = r.id /\ k[2] \in r.performers /\ notes[k] = NoNote
             pending == [status |-> "PENDING", created |-> at]
  <2>2. at \in Nat
    BY ProcessedFinite
  <2>3. notes' = [k \in Keys |-> IF fresh(k) THEN pending ELSE notes[k]] /\ recipients' = recipients
    BY <2>1 DEF CreateNotifications
  <2> HIDE DEF at
  <2>4. pending \in [status : {"NONE", "PENDING", "SENT"}, created : Nat] /\ pending.status = "PENDING"
    BY <2>2
  <2> HIDE DEF pending
  <2>5. TablesTyped'
    BY <1>2, <2>3, <2>4 DEF Inv, TablesTyped
  <2>6. \A k \in Keys : notes'[k] = notes[k] \/ (notes[k] = NoNote /\ notes'[k].status = "PENDING")
    BY <2>3, <2>4
  <2>7. ASSUME NEW s \in OrderEvents, NEW u \in s.performers, s.id \in processed'
        PROVE  notes'[<<s.id, u>>].status \in {"PENDING", "SENT"}
    <3>1. <<s.id, u>> \in Keys
      BY KeysTyped
    <3>2. CASE s.id \in processed
      BY <2>6, <3>1, <3>2 DEF Inv, NotesMade
    <3>3. CASE s.id \notin processed
      <4>1. s = r
        BY <1>0, <2>1, <2>7, <3>3, EventAssumption
      <4>2. CASE notes[<<s.id, u>>] = NoNote
        BY <2>3, <2>4, <3>1, <4>1, <4>2
      <4>3. CASE notes[<<s.id, u>>] # NoNote
        BY <2>6, <3>1, <4>3 DEF Inv, NotesMade, TablesTyped
      <4> QED
        BY <4>2, <4>3
    <3> QED
      BY <3>2, <3>3
  <2>8. NotesMade'
    BY <2>4, <2>6, <2>7 DEF Inv, NotesMade
  <2> QED
    BY <2>5, <2>6, <2>8
<1> QED
  BY <1>3, <1>4, <1>5

LEMMA ProcessInv == ASSUME Inv, NEW t \in Topics, Process(t) PROVE Inv'
<1> DEFINE r == NextRecord(t)
<1>1. r \in EventsOf(t) /\ position[t] + 1 \in 1..Len(log[t])
  BY NextTyped DEF Process, CanPoll
<1>2. /\ TablesTyped' /\ NotesMade'
      /\ \A k \in Keys : notes'[k] = notes[k] \/ (notes[k] = NoNote /\ notes'[k].status = "PENDING")
  BY <1>1, ApplyTables DEF Process
<1>3. /\ UNCHANGED <<log, committed, skipped, selected, sent, faults>> /\ pc' = t
      /\ position' = [position EXCEPT ![t] = @ + 1] /\ processed' = processed \union {r.id}
  BY DEF Process, Apply, Advance, dispatcher
<1>4. LogTyped' /\ RowsTyped'
  BY <1>3 DEF Inv, LogTyped, RowsTyped
<1>5. Offsets'
  BY <1>1, <1>3 DEF Inv, Offsets
<1>6. PositionHandled'
  <2> SUFFICES ASSUME NEW s \in Topics, NEW i \in 1..position'[s] PROVE Handled(s, i)'
    BY DEF PositionHandled
  <2>1. CASE i \in 1..position[s]
    BY <1>3, <2>1, HandledGrows DEF Inv, PositionHandled
  <2>2. CASE i \notin 1..position[s]
    <3>1. s = t /\ i = position[t] + 1
      BY <1>3, <2>2 DEF Inv, Offsets
    <3>2. log'[s][i].id \in processed' /\ i <= Len(log'[s])
      BY <1>1, <1>3, <3>1 DEF NextRecord
    <3> QED
      BY <3>2 DEF Handled
  <2> QED
    BY <2>1, <2>2
<1>7. SentCounted'
  BY <1>2, <1>3 DEF Inv, SentCounted, NoNote, TablesTyped, RowsTyped, Offsets
<1> QED
  BY <1>2, <1>4, <1>5, <1>6, <1>7 DEF Inv

LEMMA SkipInv == ASSUME Inv, NEW t \in Topics, Skip(t) PROVE Inv'
<1>1. NextRecord(t) \in EventsOf(t) /\ position[t] + 1 \in 1..Len(log[t])
  BY NextTyped DEF Skip, CanPoll
<1>2. /\ UNCHANGED <<log, committed, pc, processed, recipients, notes, selected, sent>>
      /\ position' = [position EXCEPT ![t] = @ + 1] /\ faults' \in {faults, faults + 1}
      /\ skipped' = [skipped EXCEPT ![t] = @ \union {position[t] + 1}]
  BY DEF Skip, Advance, Fault, tables, dispatcher
<1>3. LogTyped' /\ RowsTyped' /\ TablesTyped' /\ NotesMade'
  BY <1>2 DEF Inv, LogTyped, RowsTyped, TablesTyped, NotesMade
<1>4. Offsets'
  BY <1>1, <1>2 DEF Inv, Offsets
<1>5. PositionHandled'
  <2> SUFFICES ASSUME NEW s \in Topics, NEW i \in 1..position'[s] PROVE Handled(s, i)'
    BY DEF PositionHandled
  <2>1. CASE i \in 1..position[s]
    <3>1. skipped[s] \subseteq skipped'[s]
      BY <1>2 DEF Inv, Offsets
    <3> QED
      BY <1>2, <2>1, <3>1, HandledGrows DEF Inv, PositionHandled
  <2>2. CASE i \notin 1..position[s]
    <3>1. s = t /\ i = position[t] + 1
      BY <1>2, <2>2 DEF Inv, Offsets
    <3>2. i \in skipped'[s]
      BY <1>2, <3>1 DEF Inv, Offsets
    <3> QED
      BY <3>2 DEF Handled
  <2> QED
    BY <2>1, <2>2
<1>6. SentCounted'
  BY <1>2 DEF Inv, SentCounted, RowsTyped, Offsets
<1> QED
  BY <1>3, <1>4, <1>5, <1>6 DEF Inv

LEMMA CommitInv == ASSUME Inv, CommitOffset \/ CommitOffsetFails \/ Restart PROVE Inv'
<1>1. /\ UNCHANGED <<log, processed, recipients, notes, sent, skipped>>
      /\ selected' = selected \/ selected' = [k \in Keys |-> Null]
      /\ faults' \in {faults, faults + 1} /\ pc' = "poll"
      /\ \/ position' = position /\ committed' = committed
         \/ pc \in Topics /\ position' = position /\ committed' = [committed EXCEPT ![pc] = position[pc]]
         \/ position' = committed /\ committed' = committed
  BY DEF CommitOffset, CommitOffsetFails, Restart, Fault, tables, dispatcher
<1>2. LogTyped' /\ TablesTyped' /\ NotesMade' /\ RowsTyped'
  BY <1>1 DEF Inv, LogTyped, TablesTyped, NotesMade, RowsTyped
<1>3. Offsets'
  BY <1>1 DEF Inv, Offsets
<1>4. PositionHandled'
  <2> SUFFICES ASSUME NEW s \in Topics, NEW i \in 1..position'[s] PROVE Handled(s, i)'
    BY DEF PositionHandled
  <2>1. i \in 1..position[s]
    BY <1>1 DEF Inv, Offsets
  <2> QED
    BY <1>1, <2>1, HandledGrows DEF Inv, PositionHandled
<1>5. SentCounted'
  BY <1>1 DEF Inv, SentCounted, RowsTyped, Offsets
<1> QED
  BY <1>2, <1>3, <1>4, <1>5 DEF Inv

LEMMA PublishInv == ASSUME Inv, NEW t \in Topics, Publish(t) PROVE Inv'
<1>1. PICK r \in EventsOf(t) : log' = [log EXCEPT ![t] = Append(@, r)]
  BY DEF Publish, EventsOf
<1>2. UNCHANGED <<position, committed, pc, skipped, processed, recipients, notes, selected, sent, faults>>
  BY DEF Publish, consumer, tables, dispatcher
<1>3. /\ log' \in [Topics -> Seq(UserEvents \union OrderEvents)]
      /\ \A s \in Topics : /\ log'[s] \in Seq(EventsOf(s)) /\ Len(log[s]) <= Len(log'[s])
                           /\ \A i \in 1..Len(log[s]) : log'[s][i] = log[s][i]
  <2>1. log \in [Topics -> Seq(UserEvents \union OrderEvents)] /\ \A s \in Topics : log[s] \in Seq(EventsOf(s))
    BY DEF Inv, LogTyped
  <2>2. r \in UserEvents \union OrderEvents
    BY DEF EventsOf
  <2>3. log' \in [Topics -> Seq(UserEvents \union OrderEvents)]
    BY <1>1, <2>1, <2>2
  <2>4. ASSUME NEW s \in Topics
        PROVE  /\ log'[s] \in Seq(EventsOf(s)) /\ Len(log[s]) <= Len(log'[s])
               /\ \A i \in 1..Len(log[s]) : log'[s][i] = log[s][i]
    <3>1. CASE s = t
      <4>1. log'[s] = Append(log[s], r) /\ log[s] \in Seq(EventsOf(s)) /\ r \in EventsOf(s)
        BY <1>1, <2>1, <3>1
      <4> QED
        BY <4>1
    <3>2. CASE s # t
      <4>1. log'[s] = log[s] /\ log[s] \in Seq(EventsOf(s))
        BY <1>1, <2>1, <3>2
      <4> QED
        BY <4>1
    <3> QED
      BY <3>1, <3>2
  <2> QED
    BY <2>3, <2>4
<1>4. LogTyped'
  BY <1>3 DEF LogTyped, EventsOf
<1>5. Offsets'
  BY <1>2, <1>3 DEF Inv, Offsets, LogTyped
<1>6. TablesTyped' /\ RowsTyped' /\ NotesMade' /\ SentCounted'
  BY <1>2 DEF Inv, TablesTyped, RowsTyped, NotesMade, SentCounted
<1>7. PositionHandled'
  <2> SUFFICES ASSUME NEW s \in Topics, NEW i \in 1..position[s] PROVE Handled(s, i)'
    BY <1>2 DEF PositionHandled
  <2>1. Handled(s, i) /\ i \in 1..Len(log[s])
    BY DEF Inv, PositionHandled, Offsets, LogTyped
  <2> QED
    BY <1>2, <1>3, <2>1 DEF Handled, Inv, LogTyped
<1> QED
  BY <1>4, <1>5, <1>6, <1>7 DEF Inv

-----------------------------------------------------------------------------
(* The dispatcher *)

LEMMA DispatcherInv ==
  ASSUME Inv, UNCHANGED <<log, position, committed, pc, skipped, processed, recipients>>,
         faults' \in {faults, faults + 1}, TablesTyped', RowsTyped', NotesMade', SentCounted'
  PROVE  Inv'
<1>1. LogTyped' /\ Offsets'
  BY DEF Inv, LogTyped, Offsets
<1>2. PositionHandled'
  <2> SUFFICES ASSUME NEW s \in Topics, NEW i \in 1..position[s] PROVE Handled(s, i)'
    BY DEF PositionHandled
  <2> QED
    BY HandledGrows DEF Inv, PositionHandled
<1> QED
  BY <1>1, <1>2 DEF Inv

LEMMA SelectInv == ASSUME Inv, Select PROVE Inv'
<1>1. PICK B \in SUBSET Pending :
        selected' = [k \in Keys |-> IF k \in B THEN recipients[k[2]].telegram ELSE Null]
  BY DEF Select
<1>2. UNCHANGED <<log, position, committed, pc, skipped, processed, recipients, notes, sent, faults>>
  BY DEF Select, consumer, tables
<1>3. \A k \in B : k \in Keys /\ k[2] \in Users /\ notes[k].status = "PENDING"
  BY DEF Pending, Eligible, Keys
<1>4. RowsTyped' /\ SentCounted'
  BY <1>1, <1>2, <1>3 DEF Inv, RowsTyped, SentCounted, TablesTyped
<1>5. TablesTyped' /\ NotesMade'
  BY <1>2 DEF Inv, TablesTyped, NotesMade
<1> QED
  BY <1>2, <1>4, <1>5, DispatcherInv

LEMMA SendInv == ASSUME Inv, NEW k \in Keys, Send(k) PROVE Inv'
<1>1. /\ notes' = [notes EXCEPT ![k].status = "SENT"] /\ sent' = [sent EXCEPT ![k] = @ + 1]
      /\ selected' = [selected EXCEPT ![k] = Null] /\ notes[k].status = "PENDING"
      /\ UNCHANGED <<log, position, committed, pc, skipped, processed, recipients, faults>>
  BY DEF Send, Deliver, Done, Current, Selected, consumer, Inv, SentCounted
<1>2. TablesTyped' /\ RowsTyped'
  BY <1>1 DEF Inv, TablesTyped, RowsTyped
<1>3. \A j \in Keys : notes'[j] = IF j = k THEN [notes[k] EXCEPT !.status = "SENT"] ELSE notes[j]
  BY <1>1 DEF Inv, TablesTyped
<1>4. notes'[k].status = "SENT"
  BY <1>3 DEF Inv, TablesTyped
<1>5. NotesMade'
  BY <1>1, <1>3, <1>4, KeysTyped DEF Inv, NotesMade
<1>6. SentCounted'
  BY <1>1, <1>3, <1>4 DEF Inv, SentCounted, RowsTyped, Offsets
<1> QED
  BY <1>1, <1>2, <1>5, <1>6, DispatcherInv

LEMMA FailedSendInv == ASSUME Inv, NEW k \in Keys, SendFails(k) \/ DispatchFails(k) PROVE Inv'
<1>1. /\ UNCHANGED <<log, position, committed, pc, skipped, processed, recipients, notes>>
      /\ selected' = [selected EXCEPT ![k] = Null] \/ selected' = [j \in Keys |-> Null]
      /\ \/ faults' \in {faults, faults + 1} /\ sent' = sent
         \/ faults' = faults + 1 /\ sent' = [sent EXCEPT ![k] = @ + 1]
      /\ notes[k].status = "PENDING"
  BY DEF SendFails, DispatchFails, Fault, Deliver, Done, Current, Selected, consumer, tables, Inv, SentCounted
<1>2. TablesTyped' /\ NotesMade' /\ RowsTyped'
  BY <1>1 DEF Inv, TablesTyped, NotesMade, RowsTyped
<1>3. SentCounted'
  BY <1>1 DEF Inv, SentCounted, RowsTyped, Offsets
<1> QED
  BY <1>1, <1>2, <1>3, DispatcherInv

-----------------------------------------------------------------------------
(* The theorems *)

LEMMA StepInv == Inv /\ [Next]_vars => Inv'
<1> SUFFICES ASSUME Inv, [Next]_vars PROVE Inv'
  OBVIOUS
<1>1. CASE \E t \in Topics : Publish(t) \/ Process(t) \/ Skip(t)
  BY <1>1, PublishInv, ProcessInv, SkipInv
<1>2. CASE CommitOffset \/ CommitOffsetFails \/ Restart
  BY <1>2, CommitInv
<1>3. CASE Select
  BY <1>3, SelectInv
<1>4. CASE \E k \in Keys : Send(k) \/ SendFails(k) \/ DispatchFails(k)
  BY <1>4, SendInv, FailedSendInv
<1>5. CASE UNCHANGED vars
  BY <1>5 DEF vars, Inv, LogTyped, Offsets, TablesTyped, RowsTyped, PositionHandled, Handled,
     NotesMade, SentCounted
<1> QED
  BY <1>1, <1>2, <1>3, <1>4, <1>5 DEF Next, Consume, Dispatch

\* The inductive invariant: behind the consumer's position everything is handled, every
\* performer of a processed event has a row, and the dispatcher's rows are pending.
THEOREM NotificationsCorrect == Spec => []Inv
<1> QED
  BY InitInv, StepInv, PTL DEF Spec

\* Offsets, tables and the dispatcher's rows hold values of their kind.
THEOREM TypeCorrect == Spec => []TypeOK
<1>1. Inv => TypeOK
  BY DEF Inv, LogTyped, Offsets, TablesTyped, RowsTyped, TypeOK
<1> QED
  BY <1>1, NotificationsCorrect, PTL

\* Whatever restarts and failed commits do, no record before the committed offset is
\* lost, and a processed order event has a notification for each performer.
THEOREM NothingPassedOver == Spec => []PassedIsHandled
<1>1. Inv => PassedIsHandled
  BY DEF Inv, Offsets, PositionHandled, NotesMade, PassedIsHandled
<1> QED
  BY <1>1, NotificationsCorrect, PTL

\* A marked notification was sent, and sent once unless something failed.
THEOREM MarksAreTrue == Spec => []DeliveryMatchesMark
<1>1. Inv => DeliveryMatchesMark
  BY DEF Inv, SentCounted, DeliveryMatchesMark
<1> QED
  BY <1>1, NotificationsCorrect, PTL

-----------------------------------------------------------------------------
(* Recipients and the topic *)

users == log["users"]

\* The topic has r first at offset i.
First(r, i) == i \in 1..Len(users) /\ users[i] = r /\ \A j \in 1..(i - 1) : users[j] # r

Of(u) == {r \in UserEvents : r.user = u /\ r.id \in processed}
Telegrams(u) == {r \in Of(u) : r.telegram # Keep}
Actives(u) == {r \in Of(u) : r.active # Keep}

\* r is the record of R that the topic has last for the first time.
Last(R, r) == r \in R /\ \E i \in Nat : First(r, i) /\ \A s \in R, j \in Nat : First(s, j) => j <= i

\* u's row is what the latest processed record says of each field.
RowTold(u) ==
  /\ Of(u) = {} => recipients[u] = Unknown
  /\ Of(u) # {} =>
       /\ recipients[u].active # "none"
       /\ Telegrams(u) = {} => recipients[u].telegram = Null
       /\ Telegrams(u) # {} => \E r \in UserEvents : Last(Telegrams(u), r) /\ recipients[u].telegram = r.telegram
       /\ Actives(u) = {} => recipients[u].active = "on"
       /\ Actives(u) # {} => \E r \in UserEvents : Last(Actives(u), r) /\ recipients[u].active = r.active

\* What was processed is what lies before offset h; the position may have fallen back.
ProcessedTo(h) ==
  /\ \A i \in 1..h : users[i].id \in processed
  /\ \A r \in UserEvents : r.id \in processed => \E i \in 1..h : First(r, i)

Replaying ==
  /\ \E h \in position["users"]..Len(users) : ProcessedTo(h)
  /\ \A u \in Users : RowTold(u)

ReplayInv == Inv /\ (skipped["users"] = {} => Replaying)

LEMMA FirstUnique ==
  ASSUME NEW r, NEW i \in Nat, NEW j \in Nat, First(r, i), First(r, j)
  PROVE  i = j
BY DEF First

\* More records do not change where the topic has a record first.
LEMMA FirstKept ==
  ASSUME users \in Seq(UserEvents), NEW e, users' = Append(users, e), NEW r, NEW i \in Nat
  PROVE  First(r, i) => First(r, i)'
<1>1. /\ Len(users) \in Nat /\ Len(users') = Len(users) + 1
      /\ \A k \in 1..Len(users) : users'[k] = users[k]
  BY DEF users
<1> QED
  BY <1>1 DEF First

\* The row of a user of whom nothing new was processed.
LEMMA RowKept ==
  ASSUME NEW u \in Users, RowTold(u), Of(u)' = Of(u), recipients'[u] = recipients[u],
         \A r \in Of(u), i \in Nat : First(r, i)' <=> First(r, i)
  PROVE  RowTold(u)'
<1>1. Telegrams(u)' = Telegrams(u) /\ Actives(u)' = Actives(u)
  BY DEF Telegrams, Actives
<1>2. Telegrams(u) \subseteq Of(u) /\ Actives(u) \subseteq Of(u)
  BY DEF Telegrams, Actives
<1>3. ASSUME NEW R, R \subseteq Of(u), NEW r, Last(R, r)
      PROVE  r \in R /\ \E i \in Nat : First(r, i)' /\ \A s \in R, j \in Nat : First(s, j)' => j <= i
  BY <1>3 DEF Last
<1>4. \A r : Last(Telegrams(u), r) => Last(Telegrams(u), r)'
  BY <1>1, <1>2, <1>3 DEF Last
<1>5. \A r : Last(Actives(u), r) => Last(Actives(u), r)'
  BY <1>1, <1>2, <1>3 DEF Last
<1> QED
  BY <1>1, <1>4, <1>5 DEF RowTold

LEMMA ReplayInit == Init => ReplayInv
<1> SUFFICES ASSUME Init PROVE ReplayInv
  OBVIOUS
<1>1. users = <<>> /\ position["users"] = 0 /\ processed = {}
  BY DEF Init, users, Topics
<1>2. ProcessedTo(0) /\ 0 \in position["users"]..Len(users)
  BY <1>1 DEF ProcessedTo
<1>3. \A u \in Users : Of(u) = {} /\ recipients[u] = Unknown
  BY <1>1 DEF Init, Of
<1> QED
  BY <1>2, <1>3, InitInv DEF ReplayInv, Replaying, RowTold

\* Nothing of users.events is processed or appended; the position may fall back.
LEMMA OtherReplay ==
  ASSUME ReplayInv, Inv', users' = users, recipients' = recipients,
         position'["users"] \in 0..position["users"], skipped["users"] \subseteq skipped'["users"],
         \A r \in UserEvents : r.id \in processed' <=> r.id \in processed
  PROVE  ReplayInv'
<1>1. \A r, i : First(r, i)' <=> First(r, i)
  BY DEF First
<1>2. \A u : Of(u)' = Of(u)
  BY DEF Of
<1>3. ASSUME skipped'["users"] = {} PROVE Replaying'
  <2>1. Replaying
    BY <1>3 DEF ReplayInv
  <2>2. PICK h \in position["users"]..Len(users) : ProcessedTo(h)
    BY <2>1 DEF Replaying
  <2>3. users \in Seq(UserEvents) /\ position["users"] \in Nat /\ position["users"] <= Len(users)
    BY DEF ReplayInv, Inv, LogTyped, Offsets, EventsOf, Topics, users
  <2>4. h \in Nat /\ h \in position'["users"]..Len(users') /\ \A i \in 1..h : users[i] \in UserEvents
    BY <2>3
  <2>5. ProcessedTo(h)'
    BY <1>1, <2>2, <2>4 DEF ProcessedTo
  <2>6. \A u \in Users : RowTold(u)'
    BY <1>1, <1>2, <2>1, RowKept DEF Replaying
  <2> QED
    BY <2>4, <2>5, <2>6 DEF Replaying
<1> QED
  BY <1>3 DEF ReplayInv

LEMMA PublishReplay == ASSUME ReplayInv, Inv', Publish("users") PROVE ReplayInv'
<1>1. PICK e \in UserEvents : log' = [log EXCEPT !["users"] = Append(@, e)]
  BY DEF Publish
<1>2. UNCHANGED <<position, skipped, processed, recipients>>
  BY DEF Publish, consumer, tables
<1>3. users \in Seq(UserEvents) /\ position["users"] \in Nat /\ position["users"] <= Len(users)
  BY DEF ReplayInv, Inv, LogTyped, Offsets, EventsOf, Topics, users
<1>4. users' = Append(users, e)
  BY <1>1 DEF users, ReplayInv, Inv, LogTyped, Topics
<1>5. Len(users) \in Nat /\ Len(users') = Len(users) + 1 /\ \A i \in 1..Len(users) : users'[i] = users[i]
  BY <1>3, <1>4
<1>6. ASSUME skipped["users"] = {} PROVE Replaying'
  <2>1. Replaying
    BY <1>6 DEF ReplayInv
  <2>2. PICK h \in position["users"]..Len(users) : ProcessedTo(h)
    BY <2>1 DEF Replaying
  <2>3. h \in Nat /\ h <= Len(users)
    BY <1>3, <1>5, <2>2
  <2>4. ProcessedTo(h)'
    <3>1. \A i \in 1..h : users'[i].id \in processed'
      BY <1>2, <1>5, <2>2, <2>3 DEF ProcessedTo
    <3>2. ASSUME NEW r \in UserEvents, r.id \in processed' PROVE \E i \in 1..h : First(r, i)'
      BY <1>2, <1>3, <1>4, <2>2, <2>3, <3>2, FirstKept DEF ProcessedTo
    <3> QED
      BY <3>1, <3>2 DEF ProcessedTo
  <2>5. ASSUME NEW r \in UserEvents, r.id \in processed, NEW i \in Nat
        PROVE  First(r, i)' <=> First(r, i)
    <3>1. PICK k \in 1..h : First(r, k)
      BY <2>2, <2>5 DEF ProcessedTo
    <3>2. First(r, k)' /\ (First(r, i) => First(r, i)')
      BY <1>3, <1>4, <2>3, <3>1, FirstKept
    <3>3. First(r, i)' => i = k
      BY <2>3, <3>1, <3>2 DEF First
    <3> QED
      BY <3>1, <3>2, <3>3
  <2>6. ASSUME NEW u \in Users PROVE RowTold(u)'
    <3>1. Of(u)' = Of(u) /\ \A r \in Of(u) : r \in UserEvents /\ r.id \in processed
      BY <1>2 DEF Of
    <3> QED
      BY <1>2, <2>1, <2>5, <3>1, RowKept DEF Replaying
  <2> QED
    BY <1>2, <1>5, <2>3, <2>2, <2>4, <2>6, <1>3 DEF Replaying
<1> QED
  BY <1>2, <1>6 DEF ReplayInv

\* A record that is processed for the first time is the latest of all.
LEMMA NewestIsLast ==
  ASSUME NEW R, NEW Q, NEW r, NEW h \in Nat, First(r, h + 1), Q = R \union {r},
         \A s \in R : \E i \in 1..h : First(s, i)
  PROVE  Last(Q, r)
<1>1. ASSUME NEW s \in Q, NEW j \in Nat, First(s, j) PROVE j <= h + 1
  <2>1. CASE s = r
    BY <1>1, <2>1, FirstUnique
  <2>2. CASE s # r
    <3>1. PICK i \in 1..h : First(s, i)
      BY <2>2
    <3>2. i \in Nat /\ i <= h + 1
      BY <3>1
    <3> QED
      BY <1>1, <3>1, <3>2, FirstUnique
  <2> QED
    BY <2>1, <2>2
<1>2. h + 1 \in Nat /\ r \in Q
  OBVIOUS
<1> QED
  BY <1>1, <1>2 DEF Last

\* syncRecipient makes the row say what the new record says, and keeps the rest.
LEMMA SyncRow ==
  ASSUME ReplayInv, NEW r \in UserEvents, r.id \notin processed, processed' = processed \union {r.id},
         users' = users, SyncRecipient(r), RowTold(r.user), NEW h \in Nat, ProcessedTo(h), First(r, h + 1)
  PROVE  RowTold(r.user)'
<1> DEFINE u == r.user
<1>1. r \in UserRecords /\ u \in Users
  BY EventAssumption DEF UserRecords
<1>2. recipients'[u] = [telegram |-> IF r.telegram = Keep THEN Known(recipients[u]).telegram ELSE r.telegram,
                        active |-> IF r.active = Keep THEN Known(recipients[u]).active ELSE r.active]
  BY <1>1 DEF SyncRecipient, ReplayInv, Inv, TablesTyped
<1>3. Of(u)' = Of(u) \union {r}
  BY EventAssumption DEF Of
<1>4. /\ Telegrams(u)' = IF r.telegram = Keep THEN Telegrams(u) ELSE Telegrams(u) \union {r}
      /\ Actives(u)' = IF r.active = Keep THEN Actives(u) ELSE Actives(u) \union {r}
  BY <1>3 DEF Telegrams, Actives
<1>5. \A s, i : First(s, i)' <=> First(s, i)
  BY DEF First
<1>6. \A R, s : Last(R, s) <=> (s \in R /\ \E i \in Nat : First(s, i)' /\ \A q \in R, j \in Nat : First(q, j)' => j <= i)
  BY <1>5 DEF Last
<1>7. \A s \in Of(u) : \E i \in 1..h : First(s, i)
  BY DEF Of, ProcessedTo
<1>8. Telegrams(u) \subseteq Of(u) /\ Actives(u) \subseteq Of(u)
  BY DEF Telegrams, Actives
<1>9. /\ Of(u) = {} => Telegrams(u) = {} /\ Actives(u) = {} /\ Known(recipients[u]) = [telegram |-> Null, active |-> "on"]
      /\ Of(u) # {} => Known(recipients[u]) = recipients[u]
  BY <1>8 DEF RowTold, Known, Unknown
<1>10. recipients'[u].active # "none"
  <2>1. r.active \in {"on", "off", Keep} /\ Known(recipients[u]).active # "none"
    BY <1>1, <1>9 DEF UserRecords, RowTold
  <2> QED
    BY <1>2, <2>1
<1>11. /\ Telegrams(u)' = {} => recipients'[u].telegram = Null
       /\ Telegrams(u)' # {} => \E s \in UserEvents : Last(Telegrams(u), s)' /\ recipients'[u].telegram = s.telegram
  <2>1. CASE r.telegram = Keep
    <3>1. Telegrams(u)' = Telegrams(u) /\ recipients'[u].telegram = Known(recipients[u]).telegram
      BY <1>2, <1>4, <2>1
    <3>2. \A s : Last(Telegrams(u), s) => Last(Telegrams(u), s)'
      BY <1>5, <3>1 DEF Last
    <3> QED
      BY <1>9, <3>1, <3>2 DEF RowTold
  <2>2. CASE r.telegram # Keep
    <3>1. Telegrams(u)' = Telegrams(u) \union {r} /\ recipients'[u].telegram = r.telegram
      BY <1>2, <1>4, <2>2
    <3>2. Last(Telegrams(u) \union {r}, r)
      BY <1>7, <1>8, NewestIsLast
    <3>3. Last(Telegrams(u), r)'
      BY <1>5, <3>1, <3>2 DEF Last
    <3> QED
      BY <3>1, <3>3
  <2> QED
    BY <2>1, <2>2
<1>12. /\ Actives(u)' = {} => recipients'[u].active = "on"
       /\ Actives(u)' # {} => \E s \in UserEvents : Last(Actives(u), s)' /\ recipients'[u].active = s.active
  <2>1. CASE r.active = Keep
    <3>1. Actives(u)' = Actives(u) /\ recipients'[u].active = Known(recipients[u]).active
      BY <1>2, <1>4, <2>1
    <3>2. \A s : Last(Actives(u), s) => Last(Actives(u), s)'
      BY <1>5, <3>1 DEF Last
    <3> QED
      BY <1>9, <3>1, <3>2 DEF RowTold
  <2>2. CASE r.active # Keep
    <3>1. Actives(u)' = Actives(u) \union {r} /\ recipients'[u].active = r.active
      BY <1>2, <1>4, <2>2
    <3>2. Last(Actives(u) \union {r}, r)
      BY <1>7, <1>8, NewestIsLast
    <3>3. Last(Actives(u), r)'
      BY <1>5, <3>1, <3>2 DEF Last
    <3> QED
      BY <3>1, <3>3
  <2> QED
    BY <2>1, <2>2
<1> QED
  BY <1>3, <1>10, <1>11, <1>12 DEF RowTold

LEMMA ProcessReplay == ASSUME ReplayInv, Inv', Process("users") PROVE ReplayInv'
<1> DEFINE r == NextRecord("users")
           at == position["users"]
<1>1. /\ r \in UserEvents /\ at + 1 \in 1..Len(users) /\ users[at + 1] = r
      /\ users \in Seq(UserEvents) /\ at \in Nat /\ Len(users) \in Nat
  <2>1. r \in UserEvents /\ at + 1 \in 1..Len(users)
    BY NextTyped DEF ReplayInv, Process, CanPoll, EventsOf, Topics, users
  <2>2. users \in Seq(UserEvents) /\ at \in Nat
    BY DEF ReplayInv, Inv, LogTyped, Offsets, EventsOf, Topics, users
  <2> QED
    BY <2>1, <2>2 DEF NextRecord, users
<1>2. Apply("users", r) /\ UNCHANGED <<log, skipped>> /\ position'["users"] = at + 1
  BY DEF Process, Advance, ReplayInv, Inv, Offsets, Topics
<1>3. processed' = processed \union {r.id} /\ users' = users
  BY <1>2 DEF Apply, users
<1>4. \A s, i : First(s, i)' <=> First(s, i)
  BY <1>3 DEF First
<1> HIDE DEF r, at
<1>5. ASSUME skipped["users"] = {} PROVE Replaying'
  <2>1. Replaying
    BY <1>5 DEF ReplayInv
  <2>2. PICK h \in at..Len(users) : ProcessedTo(h)
    BY <2>1 DEF Replaying, at
  <2>3. h \in Nat /\ h <= Len(users)
    BY <1>1, <2>2
  <2>4. CASE r.id \in processed
    <3>1. processed' = processed /\ recipients' = recipients
      BY <1>2, <1>3, <2>4 DEF Apply
    <3>2. PICK k \in h..Len(users) : k >= at + 1 /\ ProcessedTo(k)
      <4>1. CASE h >= at + 1
        BY <1>1, <2>2, <2>3, <4>1
      <4>2. CASE h < at + 1
        <5>1. h = at
          BY <1>1, <2>2, <4>2
        <5>2. ProcessedTo(at + 1)
          <6>1. \A i \in 1..(at + 1) : i \in 1..at \/ i = at + 1
            BY <1>1
          <6>2. \A i \in 1..at : i \in 1..(at + 1)
            BY <1>1
          <6> QED
            BY <1>1, <2>2, <2>4, <5>1, <6>1, <6>2 DEF ProcessedTo
        <5>3. at + 1 \in h..Len(users)
          BY <1>1, <5>1
        <5> QED
          BY <1>1, <5>2, <5>3
      <4> QED
        BY <1>1, <2>3, <4>1, <4>2
    <3>3. k \in position'["users"]..Len(users')
      BY <1>1, <1>2, <1>3, <2>3, <3>2
    <3>4. ProcessedTo(k)'
      BY <1>3, <1>4, <3>1, <3>2 DEF ProcessedTo
    <3>5. \A u : Of(u)' = Of(u)
      BY <3>1 DEF Of
    <3>6. \A u \in Users : RowTold(u)'
      BY <1>4, <2>1, <3>1, <3>5, RowKept DEF Replaying
    <3> QED
      BY <3>3, <3>4, <3>6 DEF Replaying
  <2>5. CASE r.id \notin processed
    <3>1. SyncRecipient(r)
      BY <1>2, <2>5 DEF Apply
    <3>2. h = at
      <4>1. h >= at + 1 => at + 1 \in 1..h
        BY <1>1, <2>3
      <4>2. ~(h >= at + 1)
        BY <1>1, <2>2, <2>5, <4>1 DEF ProcessedTo
      <4> QED
        BY <1>1, <2>2, <2>3, <4>2
    <3>3. First(r, h + 1)
      <4>1. \A j \in 1..h : users[j] # r
        BY <2>2, <2>5 DEF ProcessedTo
      <4> QED
        BY <1>1, <3>2, <4>1 DEF First
    <3>4. ProcessedTo(h + 1)'
      <4>1. ASSUME NEW i \in 1..(h + 1) PROVE users'[i].id \in processed'
        <5>1. i \in 1..h \/ i = h + 1
          BY <2>3
        <5> QED
          BY <1>1, <1>3, <2>2, <3>2, <5>1 DEF ProcessedTo
      <4>2. ASSUME NEW s \in UserEvents, s.id \in processed' PROVE \E i \in 1..(h + 1) : First(s, i)'
        <5>1. CASE s.id \in processed
          <6>1. PICK i \in 1..h : First(s, i)
            BY <2>2, <5>1 DEF ProcessedTo
          <6>2. i \in 1..(h + 1)
            BY <2>3, <6>1
          <6> QED
            BY <1>4, <6>1, <6>2
        <5>2. CASE s.id \notin processed
          <6>1. s = r
            BY <1>1, <1>3, <4>2, <5>2, EventAssumption
          <6>2. h + 1 \in 1..(h + 1)
            BY <2>3
          <6> QED
            BY <1>4, <3>3, <6>1, <6>2
        <5> QED
          BY <5>1, <5>2
      <4> QED
        BY <4>1, <4>2 DEF ProcessedTo
    <3>5. h + 1 \in position'["users"]..Len(users')
      BY <1>1, <1>2, <1>3, <3>2
    <3>6. ASSUME NEW u \in Users PROVE RowTold(u)'
      <4>1. CASE u = r.user
        <5>1. RowTold(r.user)
          BY <2>1, <4>1 DEF Replaying
        <5> QED
          BY <1>1, <1>3, <2>2, <2>3, <2>5, <3>1, <3>3, <4>1, <5>1, SyncRow
      <4>2. CASE u # r.user
        <5>1. Of(u)' = Of(u)
          BY <1>1, <1>3, <4>2, EventAssumption DEF Of
        <5>2. recipients'[u] = recipients[u]
          BY <3>1, <4>2 DEF SyncRecipient, ReplayInv, Inv, TablesTyped
        <5> QED
          BY <1>4, <2>1, <5>1, <5>2, RowKept DEF Replaying
      <4> QED
        BY <4>1, <4>2
    <3> QED
      BY <3>4, <3>5, <3>6 DEF Replaying
  <2> QED
    BY <2>4, <2>5
<1> QED
  BY <1>2, <1>5 DEF ReplayInv

\* What the other steps leave of users.events.
LEMMA StepReplay == ReplayInv /\ [Next]_vars => ReplayInv'
<1> SUFFICES ASSUME ReplayInv, [Next]_vars PROVE ReplayInv'
  OBVIOUS
<1>1. Inv /\ Inv'
  BY StepInv DEF ReplayInv
<1>2. position["users"] \in Nat /\ skipped \in [Topics -> SUBSET Nat] /\ committed["users"] \in 0..position["users"]
  BY <1>1 DEF Inv, Offsets, Topics
<1>3. CASE Publish("users") \/ Process("users")
  BY <1>1, <1>3, PublishReplay, ProcessReplay
<1>4. CASE Skip("users")
  <2>1. skipped'["users"] # {}
    BY <1>2, <1>4 DEF Skip, Topics
  <2> QED
    BY <1>1, <2>1 DEF ReplayInv
<1>5. CASE Publish("orders")
  <2>1. users' = users
    BY <1>1, <1>5 DEF Publish, users, Inv, LogTyped, Topics
  <2> QED
    BY <1>1, <1>2, <1>5, <2>1, OtherReplay DEF Publish, consumer, tables
<1>6. CASE Process("orders")
  <2>1. NextRecord("orders") \in OrderEvents
    BY <1>1, <1>6, NextTyped DEF Process, CanPoll, EventsOf, Topics
  <2>2. processed' = processed \union {NextRecord("orders").id} /\ recipients' = recipients
    BY <1>6 DEF Process, Apply, CreateNotifications
  <2>3. \A r \in UserEvents : r.id \in processed' <=> r.id \in processed
    BY <2>1, <2>2, EventAssumption
  <2>4. users' = users /\ position'["users"] = position["users"] /\ skipped' = skipped
    BY <1>1, <1>6 DEF Process, Advance, users, Inv, Offsets, Topics
  <2> QED
    BY <1>1, <1>2, <2>2, <2>3, <2>4, OtherReplay
<1>7. CASE Skip("orders")
  <2>1. users' = users /\ position'["users"] = position["users"] /\ skipped'["users"] = skipped["users"]
    BY <1>1, <1>7 DEF Skip, Advance, users, Inv, Offsets, Topics
  <2>2. processed' = processed /\ recipients' = recipients
    BY <1>7 DEF Skip, tables
  <2> QED
    BY <1>1, <1>2, <2>1, <2>2, OtherReplay
<1>8. CASE CommitOffset \/ CommitOffsetFails \/ Restart
  BY <1>1, <1>2, <1>8, OtherReplay DEF CommitOffset, CommitOffsetFails, Restart, users, tables
<1>9. CASE Select \/ (\E k \in Keys : Send(k) \/ SendFails(k) \/ DispatchFails(k)) \/ UNCHANGED vars
  <2>1. UNCHANGED <<log, position, skipped, processed, recipients>>
    BY <1>9 DEF Select, Send, SendFails, DispatchFails, consumer, tables, vars
  <2> QED
    BY <1>1, <1>2, <2>1, OtherReplay DEF users
<1> QED
  BY <1>3, <1>4, <1>5, <1>6, <1>7, <1>8, <1>9 DEF Next, Consume, Dispatch, Topics

\* A relation that holds of the latest record alone determines Latest.
LEMMA LatestIsLast ==
  ASSUME users \in Seq(UserEvents), NEW R, NEW r, Last(R, r), \A s \in R : \E i \in Nat : First(s, i)
  PROVE  Latest(R) = r
<1>1. ASSUME NEW s \in R, NEW i \in Nat, First(s, i) PROVE FirstOffset(s) = i
  <2> DEFINE P(k) == users[k] = s /\ \A j \in 1..(k - 1) : users[j] # s
  <2>1. i \in 1..Len(users) /\ P(i)
    BY <1>1 DEF First
  <2>2. \A k \in DOMAIN users : P(k) => k = i
    <3> SUFFICES ASSUME NEW k \in DOMAIN users, P(k) PROVE k = i
      OBVIOUS
    <3>1. k \in Nat /\ First(s, k)
      <4>1. k \in 1..Len(users)
        OBVIOUS
      <4> QED
        BY <4>1 DEF First
    <3> QED
      BY <1>1, <3>1, FirstUnique
  <2> QED
    BY <2>1, <2>2 DEF FirstOffset, users
<1>2. PICK i \in Nat : First(r, i) /\ \A s \in R, j \in Nat : First(s, j) => j <= i
  BY DEF Last
<1>3. r \in R /\ FirstOffset(r) = i /\ \A s \in R : FirstOffset(s) \in Nat /\ First(s, FirstOffset(s))
  BY <1>1, <1>2 DEF Last
<1>4. \A s \in R : FirstOffset(s) <= FirstOffset(r)
  BY <1>2, <1>3
<1>5. /\ Latest(R) \in R
      /\ \A s \in R : FirstOffset(s) <= FirstOffset(Latest(R))
  BY <1>3, <1>4 DEF Latest
<1>6. FirstOffset(Latest(R)) = i
  BY <1>3, <1>4, <1>5
<1>7. users[i] = r /\ users[i] = Latest(R)
  BY <1>2, <1>3, <1>5, <1>6 DEF First
<1> QED
  BY <1>7

\* As long as no user record was skipped, the recipients are what the topic says, in
\* whatever way its records were repeated or read again.
THEOREM RecipientsAreTold == Spec => []RecipientsFollowTopic
<1>1. ReplayInv => RecipientsFollowTopic
  <2> SUFFICES ASSUME ReplayInv, skipped["users"] = {}, NEW u \in Users PROVE recipients[u] = Replayed(u)
    BY DEF RecipientsFollowTopic
  <2>0. users \in Seq(UserEvents)
    BY DEF ReplayInv, Inv, LogTyped, EventsOf, Topics, users
  <2>1. RowTold(u) /\ \A r \in UserEvents : r.id \in processed => \E i \in Nat : First(r, i)
    BY DEF ReplayInv, Replaying, ProcessedTo
  <2>2. /\ Telegrams(u) # {} => recipients[u].telegram = Latest(Telegrams(u)).telegram
        /\ Actives(u) # {} => recipients[u].active = Latest(Actives(u)).active
    BY <2>1, <2>0, LatestIsLast DEF RowTold, Telegrams, Actives, Of
  <2>3. Replayed(u) = IF Of(u) = {} THEN Unknown
          ELSE [telegram |-> IF Telegrams(u) = {} THEN Null ELSE Latest(Telegrams(u)).telegram,
                active |-> IF Actives(u) = {} THEN "on" ELSE Latest(Actives(u)).active]
    BY DEF Replayed, Of, Telegrams, Actives
  <2>4. recipients[u] = [telegram |-> recipients[u].telegram, active |-> recipients[u].active]
    BY DEF ReplayInv, Inv, TablesTyped
  <2> QED
    BY <2>1, <2>2, <2>3, <2>4 DEF RowTold
<1> QED
  BY <1>1, ReplayInit, StepReplay, PTL DEF Spec
=============================================================================
