------------------------ MODULE NotificationService ------------------------
(***************************************************************************)
(* notification-service.  One goroutine consumes the topics users.events   *)
(* and orders.events (one partition each): it processes a record in one    *)
(* database transaction and commits the record's offset afterwards.  The   *)
(* other goroutine dispatches: it selects the oldest pending notifications *)
(* of bound, active recipients and sends them one by one over Telegram.    *)
(* Both share the database, and both stop when the process restarts.       *)
(***************************************************************************)
EXTENDS Naturals, Sequences, FiniteSets

CONSTANTS
  Users, Chats,    \* user ids, Telegram chat ids
  UserEvents,      \* records of users.events: see UserRecords
  OrderEvents,     \* records of orders.events: see OrderRecords
  Bad,             \* ids of records Process cannot decode
  Blocked,         \* chats Telegram refuses to send to
  BatchSize,       \* LIMIT of Dispatch (50 in the code)
  MaxLog,          \* bound: records of each topic, repetitions included
  MaxFaults        \* bound: failures and restarts

Topics == {"users", "orders"}
Null == "null"
Keep == "keep"     \* the event does not carry the field

Ids == {r.id : r \in UserEvents} \union {r.id : r \in OrderEvents}
UserRecords == [id : Ids, user : Users, telegram : Chats \union {Null, Keep},
                active : {"on", "off", Keep}]
OrderRecords == [id : Ids, performers : SUBSET Users]

ASSUME EventAssumption ==
  /\ UserEvents \subseteq UserRecords
  /\ OrderEvents \subseteq OrderRecords
  /\ \A r \in UserEvents, s \in OrderEvents : r.id # s.id
  /\ \A r, s \in UserEvents : r.id = s.id => r = s
  /\ \A r, s \in OrderEvents : r.id = s.id => r = s
  /\ IsFiniteSet(Ids) /\ IsFiniteSet(Users)
  /\ Null \notin Chats /\ Keep \notin Chats
ASSUME BoundAssumption ==
  /\ BatchSize \in Nat \ {0} /\ MaxFaults \in Nat
  /\ MaxLog \in [Topics -> Nat]

VARIABLES
  log,         \* the records of each topic, appended by the outbox workers
  position,    \* offset the consumer fetches next
  committed,   \* offset committed for the consumer group
  pc,          \* "poll", or the topic whose last record is to be committed
  processed,   \* the table processed_events
  recipients,  \* the table notification_recipients
  notes,       \* the table notifications, by event and recipient
  selected,    \* the dispatcher's rows still to send: their chat, or Null
  sent,        \* messages a chat has received for each notification
  skipped,     \* offsets the consumer has ever gone past without processing
  faults       \* faults that happened

consumer == <<position, committed, pc, skipped>>
tables == <<processed, recipients, notes>>
dispatcher == <<selected, sent>>
vars == <<log, position, committed, pc, processed, recipients, notes, selected,
          sent, skipped, faults>>

Keys == {r.id : r \in OrderEvents} \X Users
NoNote == [status |-> "NONE", created |-> 0]
Unknown == [telegram |-> Null, active |-> "none"]   \* no row in the table

Init ==
  /\ log = [t \in Topics |-> <<>>]
  /\ position = [t \in Topics |-> 0]
  /\ committed = [t \in Topics |-> 0]
  /\ pc = "poll"
  /\ processed = {}
  /\ recipients = [u \in Users |-> Unknown]
  /\ notes = [k \in Keys |-> NoNote]
  /\ selected = [k \in Keys |-> Null]
  /\ sent = [k \in Keys |-> 0]
  /\ skipped = [t \in Topics |-> {}]
  /\ faults = 0

Fault == faults < MaxFaults /\ faults' = faults + 1

\* An outbox worker appends a record, perhaps once more.
Publish(t) ==
  /\ Len(log[t]) < MaxLog[t]
  /\ \E r \in IF t = "users" THEN UserEvents ELSE OrderEvents :
       log' = [log EXCEPT ![t] = Append(@, r)]
  /\ UNCHANGED <<consumer, tables, dispatcher, faults>>

-----------------------------------------------------------------------------
(* The consumer *)

Known(row) == IF row = Unknown THEN [telegram |-> Null, active |-> "on"] ELSE row

\* syncRecipient: the fields the event carries overwrite the recipient's.
SyncRecipient(r) ==
  /\ recipients' = [recipients EXCEPT ![r.user] =
       [telegram |-> IF r.telegram = Keep THEN Known(@).telegram ELSE r.telegram,
        active |-> IF r.active = Keep THEN Known(@).active ELSE r.active]]
  /\ UNCHANGED notes

\* Mutant of CreateNotifications: one row per event, not per performer.
CreateOneNotification(r) ==
  /\ notes' = [k \in Keys |->
       IF /\ r.performers # {} /\ k = <<r.id, CHOOSE u \in r.performers : TRUE>>
          /\ notes[k] = NoNote
       THEN [status |-> "PENDING", created |-> Cardinality(processed) + 1]
       ELSE notes[k]]
  /\ UNCHANGED recipients

\* createNotifications: one pending row per performer, all created now.
CreateNotifications(r) ==
  /\ notes' = [k \in Keys |->
       IF k[1] = r.id /\ k[2] \in r.performers /\ notes[k] = NoNote
       THEN [status |-> "PENDING", created |-> Cardinality(processed) + 1]
       ELSE notes[k]]
  /\ UNCHANGED recipients

\* Mutant of Apply: the result of ON CONFLICT DO NOTHING is not looked at.
ApplyAgain(t, r) ==
  /\ processed' = processed \union {r.id}
  /\ IF t = "users" THEN SyncRecipient(r) ELSE CreateNotifications(r)

\* One transaction: the insert into processed_events tells whether the event is new.
Apply(t, r) ==
  /\ processed' = processed \union {r.id}
  /\ IF r.id \in processed THEN UNCHANGED <<recipients, notes>>
     ELSE IF t = "users" THEN SyncRecipient(r)
     ELSE CreateNotifications(r)

NextRecord(t) == log[t][position[t] + 1]
CanPoll(t) == pc = "poll" /\ position[t] < Len(log[t])
Advance(t) == position' = [position EXCEPT ![t] = @ + 1]

\* Process succeeds.  A batch of PollFetches is worked off record by record, so
\* one record at a time, of any topic, covers every batch.
Process(t) ==
  /\ CanPoll(t)
  /\ NextRecord(t).id \notin Bad
  /\ Apply(t, NextRecord(t))
  /\ Advance(t)
  /\ pc' = t
  /\ UNCHANGED <<log, committed, skipped, dispatcher, faults>>

\* Mutant of Skip: a record in error is tried again and again.
SkipNever(t) ==
  /\ CanPoll(t)
  /\ IF NextRecord(t).id \in Bad THEN UNCHANGED faults ELSE Fault
  /\ UNCHANGED <<log, consumer, tables, dispatcher>>

\* Process returns an error, which is logged; or the record was fetched together
\* with a fetch error and main's loop dropped it.  The next record is next.
Skip(t) ==
  /\ CanPoll(t)
  /\ IF NextRecord(t).id \in Bad THEN UNCHANGED faults ELSE Fault
  /\ Advance(t)
  /\ skipped' = [skipped EXCEPT ![t] = @ \union {position[t] + 1}]
  /\ UNCHANGED <<log, committed, pc, tables, dispatcher>>

\* CommitRecords: the group will resume after this record.
CommitOffset ==
  /\ pc \in Topics
  /\ committed' = [committed EXCEPT ![pc] = position[pc]]
  /\ pc' = "poll"
  /\ UNCHANGED <<log, position, skipped, tables, dispatcher, faults>>

\* It fails and is only logged; so ends a transaction of unknown outcome, too.
CommitOffsetFails ==
  /\ pc \in Topics
  /\ Fault
  /\ pc' = "poll"
  /\ UNCHANGED <<log, position, committed, skipped, tables, dispatcher>>

-----------------------------------------------------------------------------
(* The dispatcher *)

Reachable(u) == recipients[u].active = "on" /\ recipients[u].telegram # Null
Eligible(k) == notes[k].status = "PENDING" /\ Reachable(k[2])
Pending == {k \in Keys : Eligible(k)}
Selected == {k \in Keys : selected[k] # Null}

\* B is what ORDER BY created_at LIMIT takes; rows of one event tie.
Oldest(B) ==
  /\ \A k \in B, j \in Pending \ B : notes[k].created <= notes[j].created
  /\ Cardinality(B) = IF Cardinality(Pending) < BatchSize THEN Cardinality(Pending)
                      ELSE BatchSize

\* Dispatch runs its query: chats are read here and used later.
Select ==
  /\ Selected = {}
  /\ Pending # {}
  /\ \E B \in SUBSET Pending :
       /\ Oldest(B)
       /\ selected' = [k \in Keys |-> IF k \in B THEN recipients[k[2]].telegram ELSE Null]
  /\ UNCHANGED <<log, consumer, tables, sent, faults>>

Current(k) == k \in Selected /\ \A j \in Selected : notes[k].created <= notes[j].created
Deliver(k) == sent' = [sent EXCEPT ![k] = @ + 1]
Done(k) == selected' = [selected EXCEPT ![k] = Null]

\* Telegram accepts the message and the row is marked.
Send(k) ==
  /\ Current(k)
  /\ selected[k] \notin Blocked
  /\ Deliver(k)
  /\ notes' = [notes EXCEPT ![k].status = "SENT"]
  /\ Done(k)
  /\ UNCHANGED <<log, consumer, processed, recipients, faults>>

\* Mutant of SendFails: the row is marked although the message was refused.
SendFailsMarked(k) ==
  /\ Current(k)
  /\ IF selected[k] \in Blocked THEN UNCHANGED faults ELSE Fault
  /\ notes' = [notes EXCEPT ![k].status = "SENT"]
  /\ Done(k)
  /\ UNCHANGED <<log, consumer, processed, recipients, sent>>

\* Mutant of SendFails: a message refused once is given up.
SendFailsForGood(k) ==
  /\ Current(k)
  /\ IF selected[k] \in Blocked THEN UNCHANGED faults ELSE Fault
  /\ notes' = [notes EXCEPT ![k].status = "FAILED"]
  /\ Done(k)
  /\ UNCHANGED <<log, consumer, processed, recipients, sent>>

\* Send returns an error, although the message may have arrived; the loop goes on.
SendFails(k) ==
  /\ Current(k)
  /\ IF selected[k] \in Blocked
       THEN UNCHANGED <<sent, faults>>
       ELSE Fault /\ (Deliver(k) \/ UNCHANGED sent)
  /\ Done(k)
  /\ UNCHANGED <<log, consumer, tables>>

\* The message is sent but the row cannot be marked, or the connection of the
\* query breaks before that: Dispatch returns and drops its other rows.
DispatchFails(k) ==
  /\ Current(k)
  /\ Fault
  /\ UNCHANGED sent \/ (selected[k] \notin Blocked /\ Deliver(k))
  /\ selected' = [j \in Keys |-> Null]
  /\ UNCHANGED <<log, consumer, tables>>

-----------------------------------------------------------------------------
\* The process ends and starts again: the consumer resumes at the committed
\* offsets, the dispatcher forgets its rows.
Restart ==
  /\ Fault
  /\ position' = committed
  /\ pc' = "poll"
  /\ selected' = [k \in Keys |-> Null]
  /\ UNCHANGED <<log, committed, skipped, tables, sent>>

Consume == (\E t \in Topics : Process(t) \/ Skip(t)) \/ CommitOffset
Dispatch == Select \/ \E k \in Keys : Send(k) \/ SendFails(k)

Next == \/ \E t \in Topics : Publish(t)
        \/ Consume \/ CommitOffsetFails
        \/ Dispatch \/ \E k \in Keys : DispatchFails(k)
        \/ Restart

Spec == Init /\ [][Next]_vars

\* Both goroutines loop for ever.  Fetches take turns among the topics, so each
\* topic with records is polled in the end.  Nothing makes a fault happen.
FairSpec == /\ Spec
            /\ WF_vars(CommitOffset)
            /\ \A t \in Topics : SF_vars(Process(t) \/ Skip(t))
            /\ WF_vars(Dispatch)

-----------------------------------------------------------------------------
(* Properties *)

\* Offsets, tables and the dispatcher's rows hold values of their kind.
TypeOK ==
  /\ log \in [Topics -> Seq(UserEvents \union OrderEvents)]
  /\ position \in [Topics -> Nat]
  /\ committed \in [Topics -> Nat]
  /\ \A t \in Topics : committed[t] <= position[t] /\ position[t] <= Len(log[t])
  /\ pc \in Topics \union {"poll"}
  /\ processed \subseteq Ids
  /\ recipients \in [Users -> [telegram : Chats \union {Null}, active : {"none", "on", "off"}]]
  /\ notes \in [Keys -> [status : {"NONE", "PENDING", "SENT"}, created : Nat]]
  /\ selected \in [Keys -> Chats \union {Null}]
  /\ sent \in [Keys -> Nat]
  /\ skipped \in [Topics -> SUBSET Nat]
  /\ faults \in Nat

Handled(t, i) == i \in skipped[t] \/ (i <= Len(log[t]) /\ log[t][i].id \in processed)

\* The offset is committed after the transaction: whatever restarts and failed
\* commits do, a record before the committed offset was processed or skipped,
\* and the performers of a processed order event have their notifications.
PassedIsHandled ==
  /\ \A t \in Topics : \A i \in 1..committed[t] : Handled(t, i)
  /\ \A r \in OrderEvents : \A u \in r.performers :
       r.id \in processed => notes[<<r.id, u>>].status \in {"PENDING", "SENT"}

FirstOffset(r) == CHOOSE i \in DOMAIN log["users"] :
                    log["users"][i] = r /\ \A j \in 1..(i - 1) : log["users"][j] # r
Latest(R) == CHOOSE r \in R : \A s \in R : FirstOffset(s) <= FirstOffset(r)

\* What the processed user events say about u, applied in the order in which
\* the topic has them first.
Replayed(u) ==
  LET Of == {r \in UserEvents : r.user = u /\ r.id \in processed}
      Telegrams == {r \in Of : r.telegram # Keep}
      Actives == {r \in Of : r.active # Keep}
  IN IF Of = {} THEN Unknown
     ELSE [telegram |-> IF Telegrams = {} THEN Null ELSE Latest(Telegrams).telegram,
           active |-> IF Actives = {} THEN "on" ELSE Latest(Actives).active]

\* Records come again, because an outbox batch was repeated or an offset was not
\* committed before a restart.  As long as no user record was skipped, the
\* recipients are what the topic says and never fall back to an older event.
RecipientsFollowTopic ==
  skipped["users"] = {} => \A u \in Users : recipients[u] = Replayed(u)

\* A notification is marked only after its message was accepted, and a performer
\* gets a message twice only if something failed: repeated events do not repeat it.
DeliveryMatchesMark ==
  \A k \in Keys : /\ notes[k].status = "SENT" => sent[k] >= 1
                  /\ sent[k] <= 1 + faults

\* Every record of a topic is processed or skipped in the end, restarts included.
RecordsConsumed ==
  \A t \in Topics : \A i \in 1..MaxLog[t] : i <= Len(log[t]) ~> Handled(t, i)

Refused(k) == recipients[k[2]].telegram \in Blocked
Deliverable(k) == Reachable(k[2]) /\ ~Refused(k)
Crowded == Cardinality({k \in Pending : Refused(k)}) >= BatchSize

\* A pending notification is sent, unless its recipient is disabled or unbound,
\* its chat refuses messages, or notifications for such chats fill the batch.
PendingIsSent ==
  \A k \in Keys : notes[k].status = "PENDING" /\ Deliverable(k)
                    ~> notes[k].status = "SENT" \/ ~Deliverable(k) \/ Crowded
=============================================================================
