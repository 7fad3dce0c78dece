--------------------------- MODULE BotDialogsProofs ---------------------------
(***************************************************************************)
(* Proofs about BotDialogs, for any people, dialogs, failures, restarts and*)
(* changes made elsewhere.                                                 *)
(***************************************************************************)
EXTENDS BotDialogs, FiniteSetTheorems, SequenceTheorems, TLAPS

-----------------------------------------------------------------------------
(* The invariant *)

\* An edit that has the version of the order shows its fields, the date to the minute.
Fresh(d) ==
  d.kind = "edit" => d.version <= order.version /\ (d.version = order.version => d.shown = order.row)

Shaped(d) ==
  /\ DOMAIN d = DOMAIN NoDraft /\ DOMAIN d.fields = Fields /\ DOMAIN d.shown = DetailSteps
  /\ d.version \in Nat /\ Fresh(d)

Good(d) == Shaped(d) /\ d.no \in 0..dialogs

\* The n-th draft can still be confirmed; its DEL is all that is left.
Live(n) == (\E p \in People : draft[p].no = n) \/ bot.draft.no = n \/ bot.next.no = n
Removing(n) == bot.at = "store" /\ bot.next = NoDraft /\ bot.draft = NoDraft /\ draft[bot.from].no = n

Types ==
  /\ dialogs \in 0..MaxDialogs /\ faults \in Nat
  /\ created \in [1..MaxDialogs -> Nat]
  /\ order.version \in Nat /\ DOMAIN order.row = DetailSteps
  /\ draft = [p \in People |-> draft[p]]
  /\ bot.at # "poll" => bot.from \in People
  /\ bot.at = "poll" => bot.draft = NoDraft /\ bot.next = NoDraft

Mail == \E R : updates \in Seq(R) /\ \A m \in R : m.from \in People

Queue ==
  /\ Mail
  /\ past \in Nat /\ fetched \in Nat /\ past <= fetched /\ fetched <= Len(updates)

Drafted == Good(bot.draft) /\ Good(bot.next) /\ \A p \in People : Good(draft[p])

\* A draft is in the hands of one person.
Owned ==
  /\ \A p, q \in People : draft[p].no = draft[q].no /\ draft[p].no # 0 => p = q
  /\ \A p \in People : draft[p].no # 0 /\ draft[p].no \in {bot.draft.no, bot.next.no} => p = bot.from

\* One order for every failure that left the draft of an order alive, and one.
Counted ==
  \A n \in 1..MaxDialogs :
    /\ created[n] <= 1 + faults
    /\ Live(n) /\ ~Removing(n) => created[n] <= faults
    /\ n > dialogs => created[n] = 0

Inv == Types /\ Queue /\ Drafted /\ Owned /\ Counted

LEMMA NoDraftGood == Types => Good(NoDraft) /\ NoDraft.no = 0 /\ NoDraft.kind = "none"
BY BoundsAssumption DEF Types, Good, Shaped, Fresh, NoDraft

LEMMA InitInv == Init => Inv
<1> SUFFICES ASSUME Init PROVE Inv
  OBVIOUS
<1>1. Types
  <2>1. bot.at = "poll" /\ bot.draft = NoDraft /\ bot.next = NoDraft
    BY DEF Init, Idle
  <2> QED
    BY <2>1, BoundsAssumption DEF Init, Types
<1>4. Queue
  <2>1. updates \in Seq({}) /\ Len(updates) = 0
    BY DEF Init
  <2>2. Mail
    BY <2>1 DEF Mail
  <2> QED
    BY <2>1, <2>2 DEF Init, Queue
<1>2. Good(NoDraft) /\ NoDraft.no = 0
  BY <1>1, NoDraftGood
<1>3. bot.draft = NoDraft /\ bot.next = NoDraft
  BY DEF Init, Idle
<1> QED
  BY <1>1, <1>2, <1>3, <1>4 DEF Init, Inv, Drafted, Owned, Counted, Live

-----------------------------------------------------------------------------
(* Steps that leave the order and what was created alone *)

\* A draft in hand stays one of the same person.
Carried(d) == d = NoDraft \/ (Good(d) /\ d.no = bot.draft.no /\ bot'.from = bot.from)

\* The handler goes on: nothing but its record changes, and a failure is counted when
\* a draft is left that was to be removed.
LEMMA GoesOn ==
  ASSUME Inv, UNCHANGED <<draft, created, order, dialogs>>, Types', Queue', faults' >= faults,
         Carried(bot'.draft), Carried(bot'.next),
         \A n \in 1..MaxDialogs : Removing(n) => Removing(n)' \/ faults' > faults
  PROVE  Inv'
<1>2. Good(NoDraft) /\ NoDraft.no = 0
  BY NoDraftGood DEF Inv
<1>3. Drafted'
  BY <1>2 DEF Inv, Drafted, Good, Shaped, Fresh, Carried
<1>4. Owned'
  BY <1>2 DEF Inv, Owned, Carried
<1>5. ASSUME NEW n \in 1..MaxDialogs PROVE Live(n)' => Live(n)
  BY <1>2, <1>5 DEF Live, Carried
<1>6. Counted'
  <2> SUFFICES ASSUME NEW n \in 1..MaxDialogs
               PROVE  /\ created[n] <= 1 + faults' /\ (n > dialogs => created[n] = 0)
                      /\ Live(n)' /\ ~Removing(n)' => created[n] <= faults'
    BY DEF Counted
  <2>1. created[n] \in Nat /\ faults \in Nat /\ faults' \in Nat
    BY DEF Inv, Types
  <2> QED
    BY <1>5, <2>1 DEF Inv, Counted
<1> QED
  BY <1>3, <1>4, <1>6 DEF Inv

Settled == \A n \in 1..MaxDialogs : ~Removing(n)

LEMMA Failing == ASSUME Inv, Fault \/ UNCHANGED faults PROVE faults' \in Nat /\ faults' >= faults /\ (Fault => faults' > faults)
BY DEF Inv, Types, Fault

LEMMA SameQueue == ASSUME Inv, UNCHANGED <<updates, memory>> PROVE Queue'
BY DEF Inv, Queue, Mail, memory

LEMMA Hands ==
  /\ Idle.at = "poll" /\ Idle.draft = NoDraft /\ Idle.next = NoDraft
  /\ \A reply : Answer(reply) => /\ bot'.at = "tell" /\ bot'.from = bot.from
                                 /\ bot'.draft = NoDraft /\ bot'.next = NoDraft
  /\ \A d, reply : Put(d, reply) => /\ bot'.at = "store" /\ bot'.from = bot.from
                                    /\ bot'.draft = NoDraft /\ bot'.next = d
BY DEF Idle, Answer, Put

LEMMA AnswerInv ==
  ASSUME Inv, UNCHANGED <<draft, created, order, dialogs, updates, memory>>, Fault \/ UNCHANGED faults,
         bot.at \in {"work", "tell"}, NEW reply, Answer(reply) \/ bot' = Idle
  PROVE  Inv'
<1>1. bot'.draft = NoDraft /\ bot'.next = NoDraft /\ (bot'.at # "poll" => bot'.from = bot.from)
  BY Hands
<1>2. Settled
  BY DEF Settled, Removing
<1>3. Types'
  BY <1>1, Failing DEF Inv, Types
<1> QED
  BY <1>1, <1>2, <1>3, Failing, SameQueue, GoesOn DEF Carried, Settled

\* A draft in hand is put back with other answers.
LEMMA PutInv ==
  ASSUME Inv, UNCHANGED <<draft, created, order, dialogs, updates, memory>>, UNCHANGED faults,
         bot.at = "work", NEW d, NEW reply, Put(d, reply), Good(d), d.no = bot.draft.no
  PROVE  Inv'
<1>1. bot'.draft = NoDraft /\ bot'.next = d /\ bot'.at = "store" /\ bot'.from = bot.from
  BY Hands
<1>2. Settled
  BY DEF Settled, Removing
<1>3. Types'
  BY <1>1 DEF Inv, Types
<1>4. faults' >= faults
  BY Failing
<1> QED
  BY <1>1, <1>2, <1>3, <1>4, SameQueue, GoesOn DEF Carried, Settled

LEMMA TakeGood ==
  ASSUME NEW d, Good(d), NEW t
  PROVE  Good(Take(d, t)) /\ Take(d, t).no = d.no
BY DEF Good, Shaped, Fresh, Take, NoDraft

LEMMA StepInv == ASSUME Inv, Step PROVE Inv'
<1>1. bot.at = "work" /\ UNCHANGED <<draft, created, order, dialogs, updates, memory>>
  BY DEF Step, Working, store, services, counters
<1>2. CASE UNCHANGED faults /\ Put(Take(bot.draft, bot.text), Ask(Question(Take(bot.draft, bot.text))))
  BY <1>1, <1>2, TakeGood, PutInv DEF Inv, Drafted
<1>3. CASE (Fault \/ UNCHANGED faults) /\ \E reply : Answer(reply)
  BY <1>1, <1>3, AnswerInv
<1> QED
  BY <1>2, <1>3 DEF Step

LEMMA QuietInv == ASSUME Inv, Command0 \/ Refuse \/ ConfirmUser \/ Tell \/ TellFails PROVE Inv'
<1>1. CASE Command0 \/ Refuse
  BY <1>1, AnswerInv DEF Command0, Refuse, Working, Confirming, Stay, store, services, counters
<1>2. CASE Tell \/ TellFails
  BY <1>2, AnswerInv DEF Tell, TellFails, store, counters
<1>3. CASE ConfirmUser
  <2>1. bot.at = "work" /\ UNCHANGED <<draft, created, order, dialogs, updates, memory>>
    BY <1>3 DEF ConfirmUser, Confirming, Working, store, counters
  <2>2. CASE UNCHANGED faults /\ \E reply : Put(NoDraft, reply)
    <3>1. PICK reply : Put(NoDraft, reply)
      BY <2>2
    <3>2. /\ bot'.draft = NoDraft /\ bot'.next = NoDraft /\ bot'.from = bot.from /\ bot'.at = "store"
      BY <3>1, Hands
    <3>3. Types' /\ Settled /\ faults' >= faults
      BY <2>1, <2>2, <3>2, Failing DEF Inv, Types, Settled, Removing
    <3> QED
      BY <2>1, <3>2, <3>3, SameQueue, GoesOn DEF Carried, Settled
  <2>3. CASE Fault /\ \E reply : Answer(reply)
    BY <2>1, <2>3, AnswerInv
  <2> QED
    BY <1>3, <2>2, <2>3 DEF ConfirmUser, Confirmed, Remove, Stay
<1> QED
  BY <1>1, <1>2, <1>3

LEMMA PollInv == ASSUME Inv, Poll \/ PollFails \/ Restart PROVE Inv'
<1>1. PICK R : updates \in Seq(R) /\ \A m \in R : m.from \in People
  BY DEF Inv, Queue, Mail
<1>2. CASE Poll \/ PollFails
  <2>1. past \in Nat /\ Len(updates) \in Nat /\ past <= Len(updates) /\ updates' = SubSeq(updates, past + 1, Len(updates))
    BY <1>1, <1>2 DEF Poll, PollFails, Inv, Queue
  <2>2. updates' \in Seq(R) /\ Len(updates') = Len(updates) - past
    BY <1>1, <2>1
  <2>3. past' = 0 /\ (fetched' = 0 \/ fetched' = Len(updates) - past) /\ UNCHANGED <<services, draft, bot, dialogs>>
    BY <1>2 DEF Poll, PollFails, store, counters
  <2>4. Fault \/ UNCHANGED faults
    BY <1>2 DEF Poll, PollFails
  <2>5. Mail'
    BY <1>1, <2>2 DEF Mail
  <2>6. Types' /\ Queue'
    <3>1. Types'
      BY <2>3, <2>4, Failing DEF Inv, Types, services
    <3> QED
      BY <2>1, <2>2, <2>3, <2>5, <3>1 DEF Queue
  <2>7. Settled /\ bot.at = "poll"
    BY <1>2 DEF Poll, PollFails, Settled, Removing
  <2>8. Carried(bot'.draft) /\ Carried(bot'.next)
    BY <1>2, <2>3 DEF Carried, Inv, Types, Poll, PollFails
  <2> QED
    BY <2>3, <2>4, <2>6, <2>7, <2>8, Failing, GoesOn DEF services, Settled
<1>3. CASE Restart
  <2>1. UNCHANGED <<services, draft, updates, dialogs>> /\ bot' = Idle /\ fetched' = 0 /\ past' = 0 /\ Fault
    BY <1>3 DEF Restart, store, counters
  <2>2. Types' /\ Queue'
    BY <1>1, <2>1, Failing, Hands DEF Inv, Types, Queue, Mail, services
  <2> QED
    BY <2>1, <2>2, Failing, Hands, GoesOn DEF services, Carried
<1> QED
  BY <1>2, <1>3

LEMMA ReadInv == ASSUME Inv, Read PROVE Inv'
<1>1. PICK R : updates \in Seq(R) /\ \A m \in R : m.from \in People
  BY DEF Inv, Queue, Mail
<1> DEFINE r == updates[past + 1]
<1>2. /\ bot.at = "poll" /\ past < fetched /\ past' = past + 1 /\ (Fault \/ UNCHANGED faults)
      /\ UNCHANGED <<draft, created, order, dialogs, updates, fetched>>
  BY DEF Read, services, store, counters
<1>3. r.from \in People
  BY <1>1, <1>2 DEF Inv, Queue
<1>4. Queue'
  BY <1>2 DEF Inv, Queue, Mail
<1>5. Settled /\ bot.draft = NoDraft /\ bot.next = NoDraft
  BY <1>2 DEF Settled, Removing, Inv, Types
<1>6. Good(NoDraft) /\ NoDraft.no = 0
  BY NoDraftGood DEF Inv
<1> HIDE DEF r
<1>7. CASE bot'.draft = NoDraft /\ bot'.next = NoDraft /\ bot'.from = r.from
  <2>1. Types'
    BY <1>2, <1>3, <1>7, Failing DEF Inv, Types
  <2> QED
    BY <1>2, <1>4, <1>5, <1>7, <2>1, Failing, GoesOn DEF Carried, Settled
<1>8. CASE /\ bot'.draft = draft[r.from] /\ bot'.next = NoDraft /\ bot'.from = r.from /\ bot'.at = "work"
           /\ UNCHANGED faults
  <2>1. Types'
    BY <1>2, <1>3, <1>8 DEF Inv, Types
  <2>2. Drafted'
    BY <1>2, <1>3, <1>6, <1>8 DEF Inv, Drafted, Good, Shaped, Fresh
  <2>3. Owned'
    BY <1>2, <1>3, <1>6, <1>8 DEF Inv, Owned
  <2>4. \A n \in 1..MaxDialogs : Live(n)' => Live(n)
    BY <1>2, <1>3, <1>6, <1>8 DEF Live
  <2>5. Counted'
    BY <1>2, <1>5, <1>8, <2>4 DEF Inv, Counted, Settled
  <2> QED
    BY <1>4, <2>1, <2>2, <2>3, <2>5 DEF Inv
<1>9. \/ bot'.draft = NoDraft /\ bot'.next = NoDraft /\ bot'.from = r.from
      \/ /\ bot'.draft = draft[r.from] /\ bot'.next = NoDraft /\ bot'.from = r.from /\ bot'.at = "work"
         /\ UNCHANGED faults
  <2>1. Load(r) \/ LoadFails(r)
    BY DEF Read, r
  <2>2. Load(r) => UNCHANGED faults \/ LoadFails(r)
    BY DEF Read, r
  <2> QED
    BY <2>1, <2>2 DEF Load, LoadFails, Idle
<1> QED
  BY <1>7, <1>8, <1>9

-----------------------------------------------------------------------------
(* The world *)

LEMMA WriteInv == ASSUME Inv, NEW p \in People, Write(p) PROVE Inv'
<1>1. PICK R : updates \in Seq(R) /\ \A m \in R : m.from \in People
  BY DEF Inv, Queue, Mail
<1>2. PICK m : updates' = Append(updates, m) /\ m.from = p
  BY DEF Write
<1>3. /\ updates' \in Seq(R \union {m}) /\ Len(updates') = Len(updates) + 1 /\ Len(updates) \in Nat
      /\ \A x \in R \union {m} : x.from \in People
  BY <1>1, <1>2
<1>4. UNCHANGED <<draft, created, order, dialogs, bot, past, fetched, faults>>
  BY DEF Write, services, store, memory, counters
<1>5. Mail'
  BY <1>3 DEF Mail
<1>6. Queue'
  BY <1>3, <1>4, <1>5 DEF Inv, Queue
<1> QED
  BY <1>4, <1>6 DEF Inv, Types, Drafted, Good, Shaped, Fresh, Owned, Counted, Live, Removing

LEMMA ExpireInv == ASSUME Inv, NEW p \in People, Expire(p) PROVE Inv'
<1>1. /\ draft' = [draft EXCEPT ![p] = NoDraft]
      /\ UNCHANGED <<created, order, dialogs, bot, updates, memory, faults>>
  BY DEF Expire, services, counters
<1>2. Good(NoDraft) /\ NoDraft.no = 0
  BY NoDraftGood DEF Inv
<1>3. \A q \in People : draft'[q] = IF q = p THEN NoDraft ELSE draft[q]
  BY <1>1 DEF Inv, Types
<1>4. Types' /\ Queue'
  BY <1>1, SameQueue DEF Inv, Types
<1>5. Drafted'
  BY <1>1, <1>2, <1>3 DEF Inv, Drafted, Good, Shaped, Fresh
<1>6. Owned'
  BY <1>1, <1>2, <1>3 DEF Inv, Owned
<1>7. ASSUME NEW n \in 1..MaxDialogs, Live(n)' PROVE Live(n) /\ (Removing(n) => Removing(n)')
  <2>1. Live(n)
    BY <1>1, <1>2, <1>3, <1>7 DEF Live
  <2>2. ASSUME Removing(n) PROVE Removing(n)'
    <3>1. bot.draft.no = 0 /\ bot.next.no = 0 /\ bot.from \in People /\ draft[bot.from].no = n
      BY <1>2, <2>2 DEF Removing, Inv, Types
    <3>2. PICK q \in People : draft'[q].no = n
      BY <1>1, <1>7, <3>1 DEF Live
    <3>3. q # p /\ draft[q].no = n
      BY <1>2, <1>3, <3>2
    <3>4. q = bot.from
      BY <3>1, <3>3 DEF Inv, Owned
    <3> QED
      BY <1>1, <1>3, <2>2, <3>2, <3>4 DEF Removing
  <2> QED
    BY <2>1, <2>2
<1>8. Counted'
  BY <1>1, <1>7 DEF Inv, Counted
<1> QED
  BY <1>4, <1>5, <1>6, <1>8 DEF Inv

LEMMA ElsewhereInv ==
  ASSUME Inv, (\E p \in People : SetPermissions(p)) \/ EditElsewhere
  PROVE  Inv'
<1>1. UNCHANGED <<draft, created, dialogs, bot, updates, memory, faults>>
  BY DEF SetPermissions, EditElsewhere, store
<1>2. \/ order' = order
      \/ /\ order'.version = order.version + 1 /\ DOMAIN order'.row = DetailSteps
  BY DEF SetPermissions, EditElsewhere, Inv, Types
<1>3. Types' /\ Queue'
  BY <1>1, <1>2, SameQueue DEF Inv, Types
<1>4. ASSUME NEW d, Good(d) PROVE Good(d)'
  BY <1>1, <1>2, <1>4 DEF Good, Shaped, Fresh, Inv, Types
<1>5. Drafted'
  BY <1>1, <1>4 DEF Inv, Drafted
<1> QED
  BY <1>1, <1>3, <1>5 DEF Inv, Owned, Counted, Live, Removing

-----------------------------------------------------------------------------
(* Steps that create, change and store *)

LEMMA BeginInv == ASSUME Inv, Begin PROVE Inv'
<1>1. bot.at = "work" /\ UNCHANGED <<draft, created, order, updates, memory>> /\ bot.draft = NoDraft
  BY DEF Begin, Working, store, services
<1>2. CASE UNCHANGED dialogs /\ (Fault \/ UNCHANGED faults) /\ Answer(Done)
  BY <1>1, <1>2, AnswerInv
<1>3. CASE dialogs < MaxDialogs /\ dialogs' = dialogs + 1 /\ UNCHANGED faults
           /\ \E d, reply : Put(d, reply) /\ Shaped(d) /\ d.no = dialogs + 1
  <2> PICK d, reply : Put(d, reply) /\ Shaped(d) /\ d.no = dialogs + 1
    BY <1>3
  <2>1. Put(d, reply) /\ Good(d)' /\ d.no = dialogs + 1
    BY <1>1, <1>3 DEF Good, Shaped, Fresh, Inv, Types
  <2>2. bot'.draft = NoDraft /\ bot'.next = d /\ bot'.from = bot.from /\ bot'.at = "store" /\ bot.from \in People
    BY <1>1, <2>1, Hands DEF Inv, Types
  <2>3. Good(NoDraft) /\ NoDraft.no = 0 /\ dialogs \in Nat
    BY NoDraftGood DEF Inv, Types
  <2>4. Types' /\ Queue'
    BY <1>1, <1>3, <2>2, <2>3, BoundsAssumption, SameQueue DEF Inv, Types
  <2>5. ASSUME NEW e, Good(e) PROVE Good(e)'
    BY <1>1, <1>3, <2>3, <2>5 DEF Good, Shaped, Fresh
  <2>6. Drafted'
    BY <1>1, <2>1, <2>2, <2>3, <2>5 DEF Inv, Drafted
  <2>7. \A p \in People : draft[p].no # dialogs + 1
    BY <2>3 DEF Inv, Drafted, Good
  <2>8. Owned'
    BY <1>1, <2>1, <2>2, <2>3, <2>7 DEF Inv, Owned
  <2>9. Counted'
    <3> SUFFICES ASSUME NEW n \in 1..MaxDialogs
                 PROVE  /\ created[n] <= 1 + faults
                        /\ Live(n)' => created[n] <= faults
                        /\ n > dialogs + 1 => created[n] = 0
      BY <1>1, <1>3 DEF Counted
    <3>1. Live(n)' => Live(n) \/ n = dialogs + 1
      BY <1>1, <2>1, <2>2, <2>3 DEF Live
    <3>2. n = dialogs + 1 => created[n] = 0
      BY <2>3 DEF Inv, Counted
    <3>3. ~Removing(n)
      BY <1>1 DEF Removing
    <3> QED
      BY <2>3, <3>1, <3>2, <3>3 DEF Inv, Counted, Types
  <2> QED
    BY <2>4, <2>6, <2>8, <2>9 DEF Inv
<1>4. CASE May(bot.from) /\ dialogs < MaxDialogs /\ dialogs' = dialogs + 1 /\ UNCHANGED faults
           /\ LET k == KindOf[bot.text.say]
                  d == [NoDraft EXCEPT !.kind = k, !.no = dialogs + 1,
                          !.version = IF k = "edit" THEN order.version ELSE 0,
                          !.shown = IF k = "edit" THEN order.row ELSE @]
              IN  Put(d, Ask(Question(d)))
  <2> DEFINE k == KindOf[bot.text.say]
             d == [NoDraft EXCEPT !.kind = k, !.no = dialogs + 1,
                     !.version = IF k = "edit" THEN order.version ELSE 0,
                     !.shown = IF k = "edit" THEN order.row ELSE @]
  <2>1. dialogs \in Nat /\ order.version \in Nat /\ DOMAIN order.row = DetailSteps
    BY DEF Inv, Types
  <2>2. /\ DOMAIN d = DOMAIN NoDraft /\ DOMAIN d.fields = Fields /\ d.no = dialogs + 1 /\ d.kind = k
        /\ d.version = (IF k = "edit" THEN order.version ELSE 0)
        /\ d.shown = (IF k = "edit" THEN order.row ELSE NoDraft.shown)
    BY DEF NoDraft
  <2>3. DOMAIN NoDraft.shown = DetailSteps
    BY DEF NoDraft
  <2> HIDE DEF d, k
  <2>4. Shaped(d)
    BY <2>1, <2>2, <2>3 DEF Shaped, Fresh
  <2>5. Put(d, Ask(Question(d)))
    BY <1>4 DEF d, k
  <2> QED
    BY <1>3, <1>4, <2>2, <2>4, <2>5
<1> QED
  BY <1>1, <1>2, <1>4 DEF Begin

LEMMA ConfirmOrderInv == ASSUME Inv, ConfirmOrder PROVE Inv'
<1> DEFINE k == bot.draft.no
<1>1. /\ bot.at = "work" /\ UNCHANGED <<draft, order, dialogs, updates, memory>>
      /\ created' = [created EXCEPT ![k] = @ + 1]
  BY DEF ConfirmOrder, Confirming, Working, store, counters
<1>2. \/ /\ UNCHANGED faults /\ bot'.draft = NoDraft /\ bot'.next = NoDraft /\ bot'.from = bot.from
         /\ bot'.at = "store"
      \/ /\ Fault /\ bot'.draft = NoDraft /\ bot'.next = NoDraft /\ bot'.from = bot.from /\ bot'.at = "tell"
  BY Hands DEF ConfirmOrder, Confirmed, Remove, Stay
<1>3. Good(NoDraft) /\ NoDraft.no = 0 /\ dialogs \in Nat /\ faults \in Nat /\ created \in [1..MaxDialogs -> Nat]
  BY NoDraftGood DEF Inv, Types
<1>4. Types' /\ Queue'
  <2>1. created' \in [1..MaxDialogs -> Nat]
    <3>1. created' = [n \in 1..MaxDialogs |-> IF n = k THEN created[n] + 1 ELSE created[n]]
      BY <1>1, <1>3
    <3>2. \A n \in 1..MaxDialogs : created[n] \in Nat /\ created[n] + 1 \in Nat
      BY <1>3
    <3> QED
      BY <3>1, <3>2
  <2>2. faults' \in Nat
    BY <1>2, <1>3 DEF Fault
  <2> QED
    BY <1>1, <1>2, <2>1, <2>2, SameQueue DEF Inv, Types
<1>5. Drafted'
  BY <1>1, <1>2, <1>3 DEF Inv, Drafted, Good, Shaped, Fresh
<1>6. Owned'
  BY <1>1, <1>2, <1>3 DEF Inv, Owned
<1>7. Counted'
  <2> SUFFICES ASSUME NEW n \in 1..MaxDialogs
               PROVE  /\ created'[n] <= 1 + faults'
                      /\ Live(n)' /\ ~Removing(n)' => created'[n] <= faults'
                      /\ n > dialogs => created'[n] = 0
    BY <1>1 DEF Counted
  <2>1. k \in 0..dialogs
    BY DEF Inv, Drafted, Good
  <2>2. ~Removing(n) /\ (Live(n)' => Live(n)) /\ (n = k => Live(n))
    BY <1>1, <1>2, <1>3 DEF Removing, Live
  <2>3. CASE n # k
    BY <1>1, <1>2, <1>3, <2>1, <2>2, <2>3 DEF Inv, Counted, Fault
  <2>4. CASE n = k
    <3>1. created'[n] = created[n] + 1 /\ created[n] <= faults /\ n <= dialogs
      BY <1>1, <1>3, <2>1, <2>2, <2>4 DEF Inv, Counted
    <3>2. CASE Fault
      BY <1>3, <3>1, <3>2 DEF Fault
    <3>3. CASE UNCHANGED faults /\ bot'.next = NoDraft /\ bot'.draft = NoDraft /\ bot'.from = bot.from
               /\ bot'.at = "store"
      <4>1. Live(n)' => \E p \in People : draft[p].no = n
        BY <1>1, <1>3, <3>3 DEF Live
      <4>2. Live(n)' => draft[bot.from].no = n
        BY <2>4, <4>1 DEF Inv, Owned
      <4>3. Live(n)' => Removing(n)'
        BY <1>1, <3>3, <4>2 DEF Removing
      <4> QED
        BY <1>3, <3>1, <3>3, <4>3
    <3> QED
      BY <1>2, <3>2, <3>3
  <2> QED
    BY <2>3, <2>4
<1> QED
  BY <1>4, <1>5, <1>6, <1>7 DEF Inv

LEMMA ConfirmEditInv == ASSUME Inv, ConfirmEdit PROVE Inv'
<1>1. /\ bot.at = "work" /\ UNCHANGED <<draft, created, dialogs, updates, memory>>
      /\ order'.version = order.version + 1 /\ DOMAIN order'.row = DetailSteps
  BY DEF ConfirmEdit, Confirming, Working, Written, store, counters
<1>2. /\ UNCHANGED faults \/ Fault
      /\ bot'.draft = NoDraft /\ bot'.next = NoDraft /\ bot'.from = bot.from /\ bot'.at \in {"store", "tell"}
  BY Hands DEF ConfirmEdit, Confirmed, Remove, Stay
<1>3. Good(NoDraft) /\ NoDraft.no = 0 /\ faults' \in Nat /\ faults' >= faults /\ faults \in Nat
  BY <1>2, NoDraftGood, Failing DEF Inv, Types
<1>4. Types' /\ Queue'
  BY <1>1, <1>2, <1>3, SameQueue DEF Inv, Types
<1>5. ASSUME NEW d, Good(d) PROVE Good(d)'
  BY <1>1, <1>5 DEF Good, Shaped, Fresh, Inv, Types
<1>6. Drafted'
  BY <1>1, <1>2, <1>3, <1>5 DEF Inv, Drafted
<1>7. Owned'
  BY <1>1, <1>2, <1>3 DEF Inv, Owned
<1>8. ASSUME NEW n \in 1..MaxDialogs PROVE ~Removing(n) /\ (Live(n)' => Live(n)) /\ created[n] \in Nat
  BY <1>1, <1>2, <1>3 DEF Removing, Live, Inv, Types
<1>9. Counted'
  BY <1>1, <1>3, <1>8 DEF Inv, Counted
<1> QED
  BY <1>4, <1>6, <1>7, <1>9 DEF Inv

LEMMA StoreInv == ASSUME Inv, Store PROVE Inv'
<1>1. /\ bot.at = "store" /\ UNCHANGED <<created, order, dialogs, updates, memory>>
      /\ bot'.draft = NoDraft /\ bot'.next = NoDraft /\ bot'.from = bot.from /\ bot'.at = "tell"
  BY Hands DEF Store, services, counters
<1>2. Good(NoDraft) /\ NoDraft.no = 0 /\ faults \in Nat /\ bot.from \in People
  BY <1>1, NoDraftGood DEF Inv, Types
<1>3. draft' = draft \/ draft' = [draft EXCEPT ![bot.from] = bot.next]
  BY DEF Store
<1>4. \A p \in People : draft'[p] = draft[p] \/ (p = bot.from /\ draft'[p] = bot.next)
  BY <1>3 DEF Inv, Types
<1>5. faults' \in Nat /\ faults' >= faults
  BY Failing DEF Store
<1>6. Types' /\ Queue'
  BY <1>1, <1>2, <1>3, <1>5, SameQueue DEF Inv, Types
<1>7. Drafted'
  BY <1>1, <1>2, <1>4 DEF Inv, Drafted, Good, Shaped, Fresh
<1>8. Owned'
  BY <1>1, <1>2, <1>4 DEF Inv, Owned
<1>9. Counted'
  <2> SUFFICES ASSUME NEW n \in 1..MaxDialogs
               PROVE  /\ created[n] <= 1 + faults' /\ (n > dialogs => created[n] = 0)
                      /\ Live(n)' => created[n] <= faults'
    BY <1>1 DEF Counted
  <2>1. created[n] \in Nat
    BY DEF Inv, Types
  <2>2. Live(n)' => \E p \in People : draft'[p].no = n
    BY <1>1, <1>2 DEF Live
  <2>3. Live(n)' => Live(n)
    BY <1>4, <2>2 DEF Live
  <2>4. CASE Fault
    BY <1>2, <2>1, <2>4 DEF Inv, Counted, Fault
  <2>5. CASE UNCHANGED faults /\ draft' = [draft EXCEPT ![bot.from] = bot.next]
    <3>1. ASSUME Live(n)', Removing(n) PROVE FALSE
      <4>1. PICK p \in People : draft'[p].no = n
        BY <2>2, <3>1
      <4>2. draft'[bot.from].no = 0 /\ draft[bot.from].no = n
        BY <1>2, <2>5, <3>1 DEF Removing, Inv, Types
      <4>3. p # bot.from /\ draft[p].no = n
        BY <1>4, <4>1, <4>2
      <4> QED
        BY <1>2, <4>2, <4>3 DEF Inv, Owned
    <3> QED
      BY <1>2, <2>1, <2>3, <2>5, <3>1 DEF Inv, Counted
  <2> QED
    BY <2>4, <2>5 DEF Store
<1> QED
  BY <1>6, <1>7, <1>8, <1>9 DEF Inv

LEMMA NextInv == Inv /\ [Next]_vars => Inv'
<1> SUFFICES ASSUME Inv, [Next]_vars PROVE Inv'
  OBVIOUS
<1>1. CASE UNCHANGED vars
  <2>1. UNCHANGED <<draft, created, order, dialogs, bot, updates, memory, faults>>
    BY <1>1 DEF vars, services, counters
  <2> QED
    BY <2>1, SameQueue DEF Inv, Types, Drafted, Good, Shaped, Fresh, Owned, Counted, Live, Removing
<1> QED
  BY <1>1, PollInv, ReadInv, QuietInv, BeginInv, StepInv, ConfirmOrderInv, ConfirmEditInv, StoreInv,
     WriteInv, ExpireInv, ElsewhereInv DEF Next, Handle, World

-----------------------------------------------------------------------------
(* Passwords *)

\* Users whose password is not on its way any more.
Owed == {n \in 1..MaxDialogs : users[n] = "made" /\ bot.reply.password # n}

PasswordInv ==
  /\ faults \in Nat
  /\ DOMAIN users = 1..MaxDialogs
  /\ bot.at \in {"poll", "work"} => bot.reply.password = 0
  /\ Cardinality(Owed) <= faults

\* Whoever takes a password away without telling it has failed.
LEMMA OwedLess ==
  ASSUME PasswordInv, faults' \in Nat, DOMAIN users' = 1..MaxDialogs,
         bot'.at \in {"poll", "work"} => bot'.reply.password = 0,
         \/ faults' >= faults /\ Owed' \subseteq Owed
         \/ faults' > faults /\ \E n : Owed' \subseteq Owed \union {n}
  PROVE  PasswordInv'
<1>1. IsFiniteSet(Owed) /\ IsFiniteSet(Owed') /\ Cardinality(Owed) \in Nat /\ Cardinality(Owed') \in Nat
  <2>1. IsFiniteSet(1..MaxDialogs)
    BY BoundsAssumption, FS_Interval
  <2>2. Owed \subseteq 1..MaxDialogs /\ Owed' \subseteq 1..MaxDialogs
    BY DEF Owed
  <2>3. IsFiniteSet(Owed) /\ IsFiniteSet(Owed')
    BY <2>1, <2>2, FS_Subset
  <2> QED
    BY <2>3, FS_CardinalityType
<1>2. Cardinality(Owed) <= faults /\ faults \in Nat
  BY DEF PasswordInv
<1>3. CASE faults' >= faults /\ Owed' \subseteq Owed
  <2>1. Cardinality(Owed') <= Cardinality(Owed)
    BY <1>1, <1>3, FS_Subset
  <2> QED
    BY <1>1, <1>2, <1>3, <2>1 DEF PasswordInv
<1>4. CASE faults' > faults /\ \E n : Owed' \subseteq Owed \union {n}
  <2>1. PICK n : Owed' \subseteq Owed \union {n}
    BY <1>4
  <2>2. /\ IsFiniteSet(Owed \union {n}) /\ Cardinality(Owed \union {n}) <= Cardinality(Owed) + 1
        /\ Cardinality(Owed \union {n}) \in Nat
    <3>1. /\ IsFiniteSet(Owed \union {n})
          /\ Cardinality(Owed \union {n}) = IF n \in Owed THEN Cardinality(Owed) ELSE Cardinality(Owed) + 1
      BY <1>1, FS_AddElement
    <3> QED
      BY <1>1, <3>1
  <2>3. Cardinality(Owed') <= Cardinality(Owed \union {n})
    BY <2>1, <2>2, FS_Subset
  <2> QED
    BY <1>1, <1>2, <1>4, <2>2, <2>3 DEF PasswordInv
<1> QED
  BY <1>3, <1>4

LEMMA PasswordInit == Init => PasswordInv
<1> SUFFICES ASSUME Init PROVE PasswordInv
  OBVIOUS
<1>1. Owed = {}
  BY DEF Init, Owed
<1>2. Cardinality(Owed) = 0
  BY <1>1, FS_EmptySet
<1>3. bot.reply.password = 0
  BY DEF Init, Idle
<1> QED
  BY <1>2, <1>3 DEF Init, PasswordInv

\* What an answer and a draft to be stored carry.
LEMMA Carrying ==
  /\ Idle.reply.password = 0 /\ Again.password = 0 /\ \A q : Ask(q).password = 0 /\ Done.password = 0
  /\ \A reply : Answer(reply) => bot'.reply = reply /\ bot'.at = "tell"
  /\ \A d, reply : Put(d, reply) => bot'.reply = reply /\ bot'.at = "store"
BY DEF Idle, Again, Ask, Done, Answer, Put

\* Steps of a handler that makes no user: there is no password to lose.
LEMMA PasswordQuiet ==
  ASSUME PasswordInv, users' = users, Fault \/ UNCHANGED faults,
         bot.reply.password = 0, bot'.reply.password = 0
  PROVE  PasswordInv'
<1>1. Owed' \subseteq Owed
  BY DEF Owed
<1>2. faults' \in Nat /\ faults' >= faults
  BY DEF PasswordInv, Fault
<1>3. DOMAIN users' = 1..MaxDialogs
  BY DEF PasswordInv
<1> QED
  BY <1>1, <1>2, <1>3, OwedLess

LEMMA PasswordWork ==
  ASSUME PasswordInv, Poll \/ PollFails \/ Read \/ Command0 \/ Begin \/ Step \/ Refuse \/ ConfirmOrder \/ ConfirmEdit
  PROVE  PasswordInv'
<1>1. users' = users /\ (Fault \/ UNCHANGED faults) /\ bot.at \in {"poll", "work"}
  BY DEF Poll, PollFails, Read, Command0, Begin, Step, Refuse, ConfirmOrder, ConfirmEdit, Confirmed,
         Confirming, Working, services
<1>2. bot'.reply.password = 0
  <2>1. CASE Poll \/ PollFails
    BY <1>1, <2>1 DEF Poll, PollFails, PasswordInv
  <2>2. CASE Read
    <3>1. \E r : Load(r) \/ LoadFails(r)
      BY <2>2 DEF Read
    <3> QED
      BY <3>1, Carrying DEF Load, LoadFails, Idle, Done, Ask, Again
  <2>3. CASE \E reply : reply.password = 0 /\ (Answer(reply) \/ \E d : Put(d, reply))
    BY <2>3, Carrying
  <2>4. CASE Command0 \/ Begin \/ Step \/ Refuse \/ ConfirmOrder \/ ConfirmEdit
    <3>1. \E reply : reply.password = 0 /\ (Answer(reply) \/ \E d : Put(d, reply))
      <4>1. CASE Command0 \/ Refuse
        BY <4>1, Carrying DEF Command0, Refuse, Stay
      <4>2. CASE Begin
        BY <4>2, Carrying DEF Begin
      <4>3. CASE Step
        BY <4>3, Carrying DEF Step
      <4>4. CASE ConfirmOrder \/ ConfirmEdit
        BY <4>4, Carrying DEF ConfirmOrder, ConfirmEdit, Confirmed, Remove, Stay
      <4> QED
        BY <2>4, <4>1, <4>2, <4>3, <4>4
    <3> QED
      BY <2>3, <3>1
  <2> QED
    BY <2>1, <2>2, <2>4
<1> QED
  BY <1>1, <1>2, PasswordQuiet DEF PasswordInv

\* The one step that makes a user either carries its password on or has failed.
LEMMA PasswordMade == ASSUME PasswordInv, ConfirmUser PROVE PasswordInv'
<1> DEFINE n == bot.draft.no
<1>1. bot.reply.password = 0 /\ users' = [users EXCEPT ![n] = "made"]
  BY DEF ConfirmUser, Confirming, Working, PasswordInv
<1>2. \A m \in 1..MaxDialogs : m # n => users'[m] = users[m]
  BY <1>1 DEF PasswordInv
<1>3. Owed' \subseteq Owed \union {n}
  BY <1>1, <1>2, BoundsAssumption DEF Owed
<1>4. CASE Fault /\ Stay
  <2>1. bot'.at = "tell" /\ faults' > faults /\ faults' \in Nat
    BY <1>4, Carrying DEF Stay, Fault, PasswordInv
  <2> QED
    BY <1>1, <1>3, <2>1, OwedLess DEF PasswordInv
<1>5. CASE UNCHANGED faults /\ Remove([Done EXCEPT !.password = n])
  <2>1. [Done EXCEPT !.password = n].password = n
    BY DEF Done, Ask
  <2>2. bot'.at = "store" /\ bot'.reply.password = n
    BY <1>5, <2>1, Carrying DEF Remove
  <2>3. Owed' \subseteq Owed
    BY <1>3, <2>2 DEF Owed
  <2> QED
    BY <1>1, <1>5, <2>2, <2>3, OwedLess DEF PasswordInv
<1> QED
  BY <1>4, <1>5 DEF ConfirmUser, Confirmed

LEMMA PasswordStored == ASSUME PasswordInv, Store PROVE PasswordInv'
<1>1. users' = users /\ bot'.at = "tell"
  BY Carrying DEF Store, services
<1>2. CASE Answer(bot.reply) /\ UNCHANGED faults
  <2>1. Owed' \subseteq Owed
    BY <1>1, <1>2, Carrying DEF Owed
  <2> QED
    BY <1>1, <1>2, <2>1, OwedLess DEF PasswordInv
<1>3. CASE Fault
  <2>1. Owed' \subseteq Owed \union {bot.reply.password}
    BY <1>1 DEF Owed
  <2>2. faults' > faults /\ faults' \in Nat
    BY <1>3 DEF Fault, PasswordInv
  <2> QED
    BY <1>1, <2>1, <2>2, OwedLess DEF PasswordInv
<1> QED
  BY <1>2, <1>3 DEF Store

LEMMA PasswordSent == ASSUME PasswordInv, Tell \/ TellFails \/ Restart PROVE PasswordInv'
<1>1. bot' = Idle \/ Answer(Again)
  BY DEF Tell, TellFails, Restart
<1>2. bot'.reply.password = 0
  BY <1>1, Carrying
<1>3. /\ users' = users \/ Told
      /\ DOMAIN users' = 1..MaxDialogs
  BY DEF Tell, TellFails, Restart, Told, services, PasswordInv
<1>4. CASE Tell
  <2>1. users' = [n \in 1..MaxDialogs |-> IF n = bot.reply.password THEN "told" ELSE users[n]]
    BY <1>4 DEF Tell, Told
  <2>2. Owed' \subseteq Owed
    BY <2>1 DEF Owed
  <2>3. faults' = faults
    BY <1>4 DEF Tell
  <2> QED
    BY <1>2, <1>3, <2>2, <2>3, OwedLess DEF PasswordInv
<1>5. CASE TellFails \/ Restart
  <2>1. Owed' \subseteq Owed \union {bot.reply.password}
    BY <1>3 DEF Owed, Told
  <2>2. faults' > faults /\ faults' \in Nat
    BY <1>5 DEF TellFails, Restart, Fault, PasswordInv
  <2> QED
    BY <1>2, <1>3, <2>1, <2>2, OwedLess
<1> QED
  BY <1>4, <1>5

LEMMA PasswordNext == PasswordInv /\ [Next]_vars => PasswordInv'
<1> SUFFICES ASSUME PasswordInv, [Next]_vars PROVE PasswordInv'
  OBVIOUS
<1>1. CASE UNCHANGED <<users, bot, faults>>
  BY <1>1 DEF PasswordInv, Owed
<1>2. (\E p \in People : Write(p) \/ Expire(p) \/ SetPermissions(p)) \/ EditElsewhere \/ UNCHANGED vars =>
        UNCHANGED <<users, bot, faults>>
  BY DEF Write, Expire, SetPermissions, EditElsewhere, vars, services
<1> QED
  BY <1>1, <1>2, PasswordWork, PasswordMade, PasswordStored, PasswordSent DEF Next, Handle, World

-----------------------------------------------------------------------------
(* Scripts and what is typed *)

\* A draft is at a step of its kind.
AtStep(d) == d # NoDraft => d.at \in DOMAIN Script[d.kind]
Placeable(d) == d \in Drafts \union {NoDraft} /\ AtStep(d)

\* What a script is made of.
Items == Fields \union {"confirm"}

LEMMA DetailsSteps ==
  /\ Details \in Seq(Items) /\ Len(Details) = 7
  /\ \A i \in 1..7 : Details[i] \in DetailSteps
  /\ DetailSteps \subseteq Fields
<1>1. DetailSteps \subseteq Fields /\ \A i \in 1..7 : Details[i] \in DetailSteps
  BY DEF DetailSteps, Fields
<1>2. Details \in Seq(DetailSteps)
  BY DEF Details, DetailSteps
<1>3. Details \in Seq(Items)
  <2>1. DetailSteps \subseteq Items
    BY <1>1 DEF Items
  <2> QED
    BY <1>2, <2>1, SeqMonotonic
<1>4. Len(Details) = 7
  BY DEF Details
<1> QED
  BY <1>1, <1>3, <1>4

\* Steps followed by others.
LEMMA Concatenated ==
  ASSUME NEW s \in Seq(Items), NEW t \in Seq(Items)
  PROVE  /\ s \o t \in [1..Len(s) + Len(t) -> Items]
         /\ \A i \in 1..Len(s) : (s \o t)[i] = s[i]
         /\ \A i \in 1..Len(t) : (s \o t)[Len(s) + i] = t[i]
<1>1. Len(s \o t) = Len(s) + Len(t) /\ \A i \in 1..Len(s) : (s \o t)[i] = s[i]
  OBVIOUS
<1>2. s \o t \in Seq(Items) /\ \A i \in 1..Len(t) : (s \o t)[Len(s) + i] = t[i]
  OBVIOUS
<1>3. ASSUME NEW q \in Seq(Items), NEW k \in Nat, Len(q) = k PROVE q \in [1..k -> Items]
  BY <1>3
<1>4. Len(s) + Len(t) \in Nat
  OBVIOUS
<1>5. s \o t \in [1..Len(s) + Len(t) -> Items]
  BY <1>1, <1>2, <1>3, <1>4, Zenon
<1> QED
  BY <1>1, <1>2, <1>5

\* The details followed by other steps.
LEMMA AfterDetails ==
  ASSUME NEW s \in Seq(Items)
  PROVE  /\ Details \o s \in [1..7 + Len(s) -> Items]
         /\ \A i \in 1..7 : (Details \o s)[i] \in Fields
         /\ \A i \in 1..Len(s) : (Details \o s)[7 + i] = s[i]
<1>1. /\ Details \o s \in [1..Len(Details) + Len(s) -> Items]
      /\ \A i \in 1..Len(Details) : (Details \o s)[i] = Details[i]
      /\ \A i \in 1..Len(s) : (Details \o s)[Len(Details) + i] = s[i]
  BY DetailsSteps, Concatenated, Zenon
<1>2. Len(Details) = 7 /\ \A i \in 1..7 : Details[i] \in Fields
  BY DetailsSteps, Zenon
<1> QED
  BY <1>1, <1>2, Zenon

LEMMA ScriptOrder ==
  /\ Script.order \in [1..9 -> Items] /\ Script.order[9] = "confirm"
  /\ \A i \in 1..8 : Script.order[i] \in Fields
<1> DEFINE last == <<"performers", "confirm">>
<1>1. "performers" \in Fields
  BY DEF Fields
<1>2. last \in Seq(Items) /\ Len(last) = 2 /\ last[1] = "performers" /\ last[2] = "confirm"
  BY <1>1 DEF Items
<1>3. Script.order = Details \o last
  BY DEF Script
<1> HIDE DEF last
<1>4. 1 \in 1..2 /\ 2 \in 1..2 /\ 7 + 2 = 9 /\ 7 + 1 = 8 /\ \A i \in 1..8 : i \in 1..7 \/ i = 8
  OBVIOUS
<1>5. /\ Details \o last \in [1..7 + 2 -> Items]
      /\ \A i \in 1..7 : (Details \o last)[i] \in Fields
      /\ (Details \o last)[7 + 1] = "performers" /\ (Details \o last)[7 + 2] = "confirm"
  BY <1>2, <1>4, AfterDetails, Zenon
<1>6. /\ Script.order \in [1..9 -> Items] /\ Script.order[9] = "confirm"
      /\ \A i \in 1..7 : Script.order[i] \in Fields
      /\ Script.order[8] = "performers"
  BY <1>3, <1>4, <1>5, Zenon
<1> QED
  BY <1>1, <1>4, <1>6, Zenon

LEMMA ScriptEdit ==
  /\ Script.edit \in [1..8 -> Items] /\ Script.edit[8] = "confirm"
  /\ \A i \in 1..7 : Script.edit[i] \in Fields
<1> DEFINE last == <<"confirm">>
<1>1. last \in Seq(Items) /\ Len(last) = 1 /\ last[1] = "confirm"
  BY DEF Items
<1>2. Script.edit = Details \o last
  BY DEF Script
<1> HIDE DEF last
<1>3. 1 \in 1..1 /\ 7 + 1 = 8
  OBVIOUS
<1>4. /\ Details \o last \in [1..7 + 1 -> Items]
      /\ \A i \in 1..7 : (Details \o last)[i] \in Fields
      /\ (Details \o last)[7 + 1] = "confirm"
  BY <1>1, <1>3, AfterDetails, Zenon
<1> QED
  BY <1>2, <1>3, <1>4, Zenon

LEMMA ScriptUser ==
  /\ Script.user \in [1..4 -> Items] /\ Script.user[4] = "confirm"
  /\ \A i \in 1..3 : Script.user[i] \in Fields
<1>1. Script.user = <<"login", "name", "role", "confirm">>
  BY DEF Script
<1>2. {"login", "name", "role"} \subseteq Fields
  BY DEF Fields
<1> QED
  BY <1>1, <1>2 DEF Items

Last == [order |-> 9, user |-> 4, edit |-> 8]

\* Every step but the last is a field to be asked for.
LEMMA Scripts ==
  ASSUME NEW k \in Kinds
  PROVE  /\ Last[k] \in 2..9 /\ DOMAIN Script[k] = 1..Last[k]
         /\ \A i \in 1..Last[k] : Script[k][i] \in Items
         /\ \A i \in 1..Last[k] : Script[k][i] \in Fields \/ i = Last[k]
         /\ Script[k][Last[k]] = "confirm"
<1>0. 9 \in 2..9 /\ 8 \in 2..9 /\ 4 \in 2..9 /\ (\A i \in 1..9 : i \in 1..8 \/ i = 9)
      /\ (\A i \in 1..8 : i \in 1..7 \/ i = 8) /\ (\A i \in 1..4 : i \in 1..3 \/ i = 4)
  OBVIOUS
<1>1. CASE k = "order"
  <2>1. Last[k] = 9 /\ Script[k] = Script.order
    BY <1>1 DEF Last
  <2> QED
    BY <1>0, <2>1, ScriptOrder
<1>2. CASE k = "edit"
  <2>1. Last[k] = 8 /\ Script[k] = Script.edit
    BY <1>2 DEF Last
  <2> QED
    BY <1>0, <2>1, ScriptEdit
<1>3. CASE k = "user"
  <2>1. Last[k] = 4 /\ Script[k] = Script.user
    BY <1>3 DEF Last
  <2> QED
    BY <1>0, <2>1, ScriptUser
<1> QED
  BY <1>1, <1>2, <1>3 DEF Kinds

\* A draft asks for a field or to be confirmed, and there is a step after a field.
LEMMA StepTyped ==
  ASSUME NEW d \in Drafts, AtStep(d)
  PROVE  /\ d # NoDraft /\ StepOf(d) \in Items /\ Question(d) \in Questions
         /\ StepOf(d) # "confirm" => /\ StepOf(d) \in Fields /\ d.at + 1 \in 1..9
                                     /\ d.at + 1 \in DOMAIN Script[d.kind]
<1>1. d.kind \in Kinds /\ d.at \in 1..9
  BY DEF Drafts
<1>2. d # NoDraft
  BY <1>1 DEF NoDraft, Kinds
<1>3. d.at \in 1..Last[d.kind]
  BY <1>1, <1>2, Scripts DEF AtStep
<1>4. StepOf(d) \in Items /\ (StepOf(d) \in Fields \/ d.at = Last[d.kind])
  BY <1>1, <1>3, Scripts DEF StepOf
<1>5. Question(d) \in Questions
  BY <1>1, <1>4 DEF Question, Questions, Items
<1>6. ASSUME StepOf(d) # "confirm"
      PROVE  StepOf(d) \in Fields /\ d.at + 1 \in 1..9 /\ d.at + 1 \in DOMAIN Script[d.kind]
  <2>1. StepOf(d) \in Fields
    BY <1>4, <1>6 DEF Items
  <2>2. d.at # Last[d.kind] /\ Last[d.kind] \in 2..9 /\ DOMAIN Script[d.kind] = 1..Last[d.kind]
    BY <1>1, <1>6, Scripts DEF StepOf
  <2>3. d.at + 1 \in 1..Last[d.kind] /\ d.at + 1 \in 1..9
    <3>1. ASSUME NEW a, NEW l \in 2..9, a \in 1..l, a # l PROVE a + 1 \in 1..l /\ a + 1 \in 1..9
      BY <3>1
    <3> QED
      BY <1>3, <2>2, <3>1
  <2> QED
    BY <2>1, <2>2, <2>3
<1> QED
  BY <1>2, <1>4, <1>5, <1>6

LEMMA FieldsChanged ==
  \A d \in Drafts, i \in 1..9, l \in BOOLEAN, f \in [Fields -> Holdings] :
    [d EXCEPT !.at = i, !.long = l, !.fields = f] \in Drafts
BY DEF Drafts

LEMMA TakeTyped ==
  ASSUME NEW d \in Drafts, AtStep(d), StepOf(d) # "confirm", NEW t \in Texts
  PROVE  Take(d, t) \in Drafts /\ AtStep(Take(d, t))
<1>1. StepOf(d) \in Fields /\ d.at + 1 \in 1..9 /\ d.at + 1 \in DOMAIN Script[d.kind] /\ d # NoDraft
  BY StepTyped
<1> DEFINE f == [d.fields EXCEPT ![StepOf(d)] = Holds(Question(d), t)]
           l == d.long \/ t.long
<1>2. Holds(Question(d), t) \in Holdings
  BY DEF Holds, Holdings
<1>3. f \in [Fields -> Holdings]
  <2>1. d.fields \in [Fields -> Holdings]
    BY DEF Drafts
  <2> QED
    BY <1>1, <1>2, <2>1
<1>4. l \in BOOLEAN
  OBVIOUS
<1>5. Take(d, t) = [d EXCEPT !.at = d.at + 1, !.long = l, !.fields = f]
  BY DEF Take, Drafts
<1> HIDE DEF f, l
<1> DEFINE i == d.at + 1
<1>6. Take(d, t) \in Drafts
  <2>1. i \in 1..9 /\ Take(d, t) = [d EXCEPT !.at = i, !.long = l, !.fields = f]
    BY <1>1, <1>5
  <2> HIDE DEF i
  <2>2. [d EXCEPT !.at = i, !.long = l, !.fields = f] \in Drafts
    BY <1>3, <1>4, <2>1, FieldsChanged, Zenon
  <2> QED
    BY <2>1, <2>2, Zenon
<1>7. Take(d, t).at = d.at + 1 /\ Take(d, t).kind = d.kind
  BY DEF Take, Drafts
<1> QED
  BY <1>1, <1>6, <1>7 DEF AtStep

\* Drafts, and what is none yet.
Blanks == [kind : Kinds \union {"none"}, at : 1..9, no : Nat, fields : [Fields -> Holdings],
           version : Nat, shown : [DetailSteps -> Nat], long : BOOLEAN]

LEMMA NewDrafts ==
  ASSUME NEW k \in Kinds, NEW n \in Nat, NEW v \in Nat, NEW s \in [DetailSteps -> Nat]
  PROVE  [NoDraft EXCEPT !.kind = k, !.no = n, !.version = v, !.shown = s] \in Drafts
<1>1. NoDraft \in Blanks
  BY DEF NoDraft, Blanks, Holdings
<1>2. \A d \in Blanks : [d EXCEPT !.kind = k, !.no = n, !.version = v, !.shown = s] \in Drafts
  BY DEF Blanks, Drafts
<1> QED
  BY <1>1, <1>2, Zenon

LEMMA BlankTyped == Placeable(NoDraft) /\ NoDraft.shown \in [DetailSteps -> Nat] /\ Idle.text \in Texts
BY DEF Placeable, AtStep, NoDraft, Idle, Command, Texts

LEMMA SaysTyped == ASSUME NEW q \in Questions \union {Nothing} PROVE Says(q) \subseteq Texts
<1>1. \A c \in {"/confirm", "/cancel", "/start", "/neworder", "/newuser", "/editorder"} : Command(c) \in Texts
  BY DEF Command, Texts
<1>2. CASE q = Nothing
  BY <1>1, <1>2, StartsAssumption DEF Says
<1>3. CASE q # Nothing /\ q[2] = "confirm"
  BY <1>1, <1>3 DEF Says
<1>4. CASE q # Nothing /\ q[2] # "confirm"
  <2> SUFFICES ASSUME NEW t \in Says(q) PROVE t \in Texts
    OBVIOUS
  <2> DEFINE g == IF q[2] \in {"date", "role", "performers"} THEN BOOLEAN ELSE {TRUE}
             l == {FALSE} \union {q[2] = "comment"}
             m == IF q \in Optional THEN {"-"} ELSE {}
  <2>1. g \subseteq BOOLEAN /\ l \subseteq BOOLEAN /\ m \subseteq {"-"}
    OBVIOUS
  <2>2. t \in {Command("/cancel")} \union [say : {"answer"}, about : {q}, long : l, good : g]
                \union [say : m, about : {q}, good : {TRUE}, long : {FALSE}]
    BY <1>4 DEF Says
  <2> HIDE DEF g, l, m
  <2>3. CASE t = Command("/cancel")
    BY <1>1, <2>3
  <2>4. CASE t \in [say : {"answer"}, about : {q}, long : l, good : g]
    BY <2>1, <2>4 DEF Texts
  <2>5. CASE t \in [say : m, about : {q}, good : {TRUE}, long : {FALSE}]
    BY <2>1, <2>5 DEF Texts
  <2> QED
    BY <2>2, <2>3, <2>4, <2>5
<1> QED
  BY <1>2, <1>3, <1>4

-----------------------------------------------------------------------------
(* The types of the parts *)

WorldTyped ==
  /\ account \in [People -> {"none", "performer", "admin"}]
  /\ order \in [version : Nat, row : [DetailSteps -> Nat], seconds : BOOLEAN]
  /\ created \in [1..MaxDialogs -> Nat]
  /\ users \in [1..MaxDialogs -> {"none", "made", "told"}]
  /\ view \in [People -> Questions \union {Nothing}]
  /\ dialogs \in 0..MaxDialogs /\ faults \in 0..MaxFaults /\ edits \in 0..MaxEdits

MailTyped == \A i \in 1..Len(updates) : updates[i].from \in People /\ updates[i].text \in Texts

HandTyped ==
  /\ bot.at \in {"poll", "work", "store", "tell"} /\ bot.text \in Texts /\ bot.reply \in Replies
  /\ Placeable(bot.draft) /\ Placeable(bot.next)
  /\ bot.at = "poll" => bot.from = "none"

KeptTyped == DOMAIN draft = People /\ \A p \in People : Placeable(draft[p])

TypeInv == Inv /\ WorldTyped /\ MailTyped /\ HandTyped /\ KeptTyped

LEMMA RepliesTyped ==
  /\ \A q \in Questions \union {Nothing} : Ask(q) \in Replies
  /\ Done \in Replies /\ Again \in Replies /\ \A n \in Nat : [Done EXCEPT !.password = n] \in Replies
BY DEF Ask, Done, Again, Replies

LEMMA AnswerTyped == ASSUME NEW reply \in Replies, Answer(reply) PROVE HandTyped'
<1>1. /\ bot'.at = "tell" /\ bot'.text = Idle.text /\ bot'.reply = reply
      /\ bot'.draft = NoDraft /\ bot'.next = NoDraft
  BY DEF Answer, Idle
<1> QED
  BY <1>1, BlankTyped DEF HandTyped

LEMMA IdleTyped == bot' = Idle => HandTyped'
<1>1. Idle.at = "poll" /\ Idle.reply = Done /\ Idle.draft = NoDraft /\ Idle.next = NoDraft
      /\ Idle.from = "none"
  BY DEF Idle, Done, Ask
<1> QED
  BY <1>1, BlankTyped, RepliesTyped DEF HandTyped

LEMMA PutTyped == ASSUME NEW d, Placeable(d), NEW reply \in Replies, Put(d, reply) PROVE HandTyped'
<1>1. bot'.at = "store" /\ bot'.text = Idle.text /\ bot'.reply = reply /\ bot'.draft = NoDraft /\ bot'.next = d
  BY DEF Put, Idle
<1> QED
  BY <1>1, BlankTyped DEF HandTyped

-----------------------------------------------------------------------------
(* Each part keeps its type *)

LEMMA PollMail == ASSUME TypeInv, Poll \/ PollFails PROVE MailTyped'
<1>1. PICK R : updates \in Seq(R)
  BY DEF TypeInv, Inv, Queue, Mail
<1>2. past \in Nat /\ Len(updates) \in Nat /\ past <= Len(updates) /\ updates' = SubSeq(updates, past + 1, Len(updates))
  BY <1>1 DEF Poll, PollFails, TypeInv, Inv, Queue
<1>3. Len(updates') = Len(updates) - past /\ \A i \in 1..Len(updates') : updates'[i] = updates[past + i]
  BY <1>1, <1>2
<1>4. \A i \in 1..Len(updates') : past + i \in 1..Len(updates)
  BY <1>2, <1>3
<1> QED
  BY <1>3, <1>4 DEF TypeInv, MailTyped

LEMMA WriteMail == ASSUME TypeInv, NEW p \in People, Write(p) PROVE MailTyped'
<1>1. PICK R : updates \in Seq(R)
  BY DEF TypeInv, Inv, Queue, Mail
<1>2. PICK t \in Says(view[p]) : updates' = Append(updates, [from |-> p, text |-> t])
  BY DEF Write
<1>3. t \in Texts
  <2>1. view[p] \in Questions \union {Nothing}
    BY DEF TypeInv, WorldTyped
  <2> QED
    BY <2>1, SaysTyped
<1>4. /\ Len(updates) \in Nat /\ Len(updates') = Len(updates) + 1
      /\ \A i \in 1..Len(updates) : updates'[i] = updates[i]
      /\ updates'[Len(updates) + 1] = [from |-> p, text |-> t]
  BY <1>1, <1>2
<1>5. \A i \in 1..Len(updates') : i \in 1..Len(updates) \/ i = Len(updates) + 1
  BY <1>4
<1> QED
  BY <1>3, <1>4, <1>5 DEF TypeInv, MailTyped

LEMMA MailNext == ASSUME TypeInv, Next PROVE MailTyped'
<1>1. CASE UNCHANGED updates
  BY <1>1 DEF TypeInv, MailTyped
<1>2. (\E p \in People : Write(p)) \/ Poll \/ PollFails \/ UNCHANGED updates
  BY DEF Next, Handle, World, Read, Command0, Begin, Step, Refuse, ConfirmOrder, ConfirmUser, ConfirmEdit,
         Confirming, Working, Store, Tell, Expire, SetPermissions, EditElsewhere, TellFails, Restart
<1> QED
  BY <1>1, <1>2, PollMail, WriteMail

LEMMA WrittenTyped == ASSUME NEW d \in Drafts, order.version \in Nat PROVE Written(d) \in [DetailSteps -> Nat]
<1>1. \A f \in DetailSteps : d.shown[f] \in Nat
  BY DEF Drafts
<1> QED
  BY <1>1 DEF Written

LEMMA WorldNext == ASSUME TypeInv, Next PROVE WorldTyped'
<1>1. dialogs' \in 0..MaxDialogs /\ faults' \in 0..MaxFaults /\ edits' \in 0..MaxEdits
  <2>1. dialogs' = dialogs \/ (dialogs < MaxDialogs /\ dialogs' = dialogs + 1)
    BY DEF Next, Handle, World, Poll, Read, Command0, Begin, Step, Refuse, ConfirmOrder, ConfirmUser, ConfirmEdit,
           Store, Tell, Write, Expire, SetPermissions, EditElsewhere, PollFails, TellFails, Restart, counters
  <2>2. faults' = faults \/ Fault
    BY SMTT(30)
       DEF Next, Handle, World, Poll, Read, Command0, Begin, Step, Refuse, ConfirmOrder, ConfirmUser, ConfirmEdit,
           Confirmed, Store, Tell, Write, Expire, SetPermissions, EditElsewhere, PollFails, TellFails, Restart
  <2>3. edits' = edits \/ (edits < MaxEdits /\ edits' = edits + 1)
    BY DEF Next, Handle, World, Poll, Read, Command0, Begin, Step, Refuse, ConfirmOrder, ConfirmUser, ConfirmEdit,
           Store, Tell, Write, Expire, SetPermissions, EditElsewhere, PollFails, TellFails, Restart, counters
  <2>4. /\ dialogs \in 0..MaxDialogs /\ faults \in 0..MaxFaults /\ edits \in 0..MaxEdits
        /\ faults' = faults \/ (faults < MaxFaults /\ faults' = faults + 1)
    BY <2>2 DEF TypeInv, WorldTyped, Fault
  <2>5. ASSUME NEW bound \in Nat, NEW n \in 0..bound, NEW m, m = n \/ (n < bound /\ m = n + 1)
        PROVE  m \in 0..bound
    BY <2>5
  <2> QED
    BY <2>1, <2>3, <2>4, <2>5, BoundsAssumption
<1>2. account' \in [People -> {"none", "performer", "admin"}]
  <2>1. \/ account' = account
        \/ \E p \in People, a \in {"performer", "admin"} : account' = [account EXCEPT ![p] = a]
        \/ \E a \in {"performer", "admin"} : account' = [account EXCEPT ![bot.from] = a]
    BY DEF Next, Handle, World, Poll, Read, Command0, Begin, Step, Refuse, ConfirmOrder, ConfirmUser, ConfirmEdit,
           Store, Tell, Write, Expire, SetPermissions, EditElsewhere, PollFails, TellFails, Restart, services
  <2> QED
    BY <2>1 DEF TypeInv, WorldTyped
<1>3. view' \in [People -> Questions \union {Nothing}]
  <2>1. view' = view \/ view' = [view EXCEPT ![bot.from] = bot.reply.ask]
    BY DEF Next, Handle, World, Poll, Read, Command0, Begin, Step, Refuse, ConfirmOrder, ConfirmUser, ConfirmEdit,
           Confirming, Working, Told, Store, Tell, Write, Expire, SetPermissions, EditElsewhere, PollFails,
           TellFails, Restart
  <2>2. bot.reply.ask \in Questions \union {Nothing}
    BY DEF TypeInv, HandTyped, Replies
  <2> QED
    BY <2>1, <2>2 DEF TypeInv, WorldTyped
<1>4. users' \in [1..MaxDialogs -> {"none", "made", "told"}]
  <2>1. users' = users \/ (\E n : users' = [users EXCEPT ![n] = "made"]) \/ Told
    BY DEF Next, Handle, World, Poll, Read, Command0, Begin, Step, Refuse, ConfirmOrder, ConfirmUser, ConfirmEdit,
           Store, Tell, Write, Expire, SetPermissions, EditElsewhere, PollFails, TellFails, Restart, services
  <2> QED
    BY <2>1 DEF TypeInv, WorldTyped, Told
<1>5. created' \in [1..MaxDialogs -> Nat]
  <2>1. created' = created \/ \E n : created' = [created EXCEPT ![n] = @ + 1]
    BY DEF Next, Handle, World, Poll, Read, Command0, Begin, Step, Refuse, ConfirmOrder, ConfirmUser, ConfirmEdit,
           Store, Tell, Write, Expire, SetPermissions, EditElsewhere, PollFails, TellFails, Restart, services
  <2> QED
    BY <2>1 DEF TypeInv, WorldTyped
<1>6. order' \in [version : Nat, row : [DetailSteps -> Nat], seconds : BOOLEAN]
  <2>1. order.version \in Nat /\ order.row \in [DetailSteps -> Nat]
    BY DEF TypeInv, WorldTyped
  <2>2. CASE order' = order
    BY <2>2 DEF TypeInv, WorldTyped
  <2>3. CASE EditElsewhere
    <3>1. PICK f \in Contested, s \in BOOLEAN :
            order' = [version |-> order.version + 1,
                      row |-> [order.row EXCEPT ![f] = order.version + 1], seconds |-> s]
      BY <2>3 DEF EditElsewhere
    <3>2. \A m \in [DetailSteps -> Nat], v \in Nat : [m EXCEPT ![f] = v] \in [DetailSteps -> Nat]
      OBVIOUS
    <3>3. order.version + 1 \in Nat
      BY <2>1
    <3>4. [order.row EXCEPT ![f] = order.version + 1] \in [DetailSteps -> Nat]
      BY <2>1, <3>2, <3>3, Zenon
    <3> QED
      BY <3>1, <3>3, <3>4
  <2>4. CASE ConfirmEdit
    <3>1. bot.draft \in Drafts
      BY <2>4 DEF ConfirmEdit, Confirming, TypeInv, HandTyped, Placeable, NoDraft
    <3>2. Written(bot.draft) \in [DetailSteps -> Nat] /\ order.version + 1 \in Nat
      BY <2>1, <3>1, WrittenTyped
    <3> QED
      BY <2>4, <3>2 DEF ConfirmEdit
  <2>5. order' = order \/ EditElsewhere \/ ConfirmEdit
    BY DEF Next, Handle, World, Poll, Read, Command0, Begin, Step, Refuse, ConfirmOrder, ConfirmUser,
           Store, Tell, Write, Expire, SetPermissions, PollFails, TellFails, Restart, services
  <2> QED
    BY <2>2, <2>3, <2>4, <2>5
<1> QED
  BY <1>1, <1>2, <1>3, <1>4, <1>5, <1>6 DEF WorldTyped

LEMMA KeptNext == ASSUME TypeInv, Next PROVE KeptTyped'
<1>1. draft' = draft \/ (\E p : draft' = [draft EXCEPT ![p] = NoDraft]) \/ \E p : draft' = [draft EXCEPT ![p] = bot.next]
  BY DEF Next, Handle, World, Poll, Read, Command0, Begin, Step, Refuse, ConfirmOrder, ConfirmUser, ConfirmEdit,
         Confirming, Working, Store, Tell, Write, Expire, SetPermissions, EditElsewhere, PollFails, TellFails,
         Restart, store
<1>2. Placeable(NoDraft) /\ Placeable(bot.next)
  BY BlankTyped DEF TypeInv, HandTyped
<1> QED
  BY <1>1, <1>2 DEF TypeInv, KeptTyped

LEMMA HandRead == ASSUME TypeInv, Read PROVE HandTyped'
<1> DEFINE r == updates[past + 1]
<1>1. r.from \in People /\ r.text \in Texts
  <2>1. PICK R : updates \in Seq(R)
    BY DEF TypeInv, Inv, Queue, Mail
  <2>2. past + 1 \in 1..Len(updates)
    BY <2>1 DEF Read, TypeInv, Inv, Queue
  <2> QED
    BY <2>2 DEF TypeInv, MailTyped
<1> HIDE DEF r
<1>2. Placeable(draft[r.from])
  BY <1>1 DEF TypeInv, KeptTyped
<1>3. Load(r) \/ LoadFails(r)
  BY DEF Read, r
<1>4. CASE LoadFails(r) \/ (Load(r) /\ r.text.say = "/cancel")
  <2>1. /\ bot'.at \in {"tell", "store"} /\ bot'.text = Idle.text /\ bot'.reply \in {Again, Done}
        /\ bot'.draft = NoDraft /\ bot'.next = NoDraft
    BY <1>4 DEF LoadFails, Load, Idle
  <2> QED
    BY <2>1, BlankTyped, RepliesTyped DEF HandTyped
<1>5. CASE Load(r) /\ r.text.say # "/cancel"
  <2>1. /\ bot'.at = "work" /\ bot'.text = r.text /\ bot'.reply = Done
        /\ bot'.draft = draft[r.from] /\ bot'.next = NoDraft
    BY <1>5 DEF Load, Idle, Done, Ask
  <2> QED
    BY <1>1, <1>2, <2>1, BlankTyped, RepliesTyped DEF HandTyped
<1> QED
  BY <1>3, <1>4, <1>5

LEMMA HandBegin == ASSUME TypeInv, Begin PROVE HandTyped'
<1> DEFINE k == KindOf[bot.text.say]
           d == [NoDraft EXCEPT !.kind = k, !.no = dialogs + 1,
                   !.version = IF k = "edit" THEN order.version ELSE 0,
                   !.shown = IF k = "edit" THEN order.row ELSE @]
<1>1. k \in Kinds
  BY DEF Begin, KindOf, Kinds
<1>2. Placeable(d) /\ d \in Drafts
  <2> DEFINE n == dialogs + 1
             v == IF k = "edit" THEN order.version ELSE 0
             s == IF k = "edit" THEN order.row ELSE NoDraft.shown
  <2>1. n \in Nat /\ v \in Nat /\ s \in [DetailSteps -> Nat]
    BY BlankTyped DEF TypeInv, WorldTyped
  <2>2. d = [NoDraft EXCEPT !.kind = k, !.no = n, !.version = v, !.shown = s]
    BY DEF NoDraft
  <2>3. d \in Drafts
    <3>1. \A i \in Kinds, j \in Nat, w \in Nat, m \in [DetailSteps -> Nat] :
            [NoDraft EXCEPT !.kind = i, !.no = j, !.version = w, !.shown = m] \in Drafts
      BY NewDrafts
    <3> HIDE DEF k, n, v, s
    <3>2. [NoDraft EXCEPT !.kind = k, !.no = n, !.version = v, !.shown = s] \in Drafts
      BY <1>1, <2>1, <3>1, Zenon
    <3> QED
      BY <2>2, <3>2, Zenon
  <2>4. d.at = 1 /\ d.kind = k
    BY DEF NoDraft
  <2>5. 1 \in DOMAIN Script[k]
    BY <1>1, Scripts
  <2> QED
    BY <2>3, <2>4, <2>5 DEF Placeable, AtStep
<1>3. Ask(Question(d)) \in Replies /\ Done \in Replies
  BY <1>2, StepTyped, RepliesTyped DEF Placeable
<1>4. Put(d, Ask(Question(d))) \/ Answer(Done)
  BY DEF Begin
<1> HIDE DEF d
<1> QED
  BY <1>2, <1>3, <1>4, PutTyped, AnswerTyped

LEMMA HandDraft == ASSUME TypeInv, bot.draft # NoDraft
                   PROVE  bot.draft \in Drafts /\ AtStep(bot.draft) /\ Ask(Question(bot.draft)) \in Replies
<1>1. bot.draft \in Drafts /\ AtStep(bot.draft)
  BY DEF TypeInv, HandTyped, Placeable
<1> QED
  BY <1>1, StepTyped, RepliesTyped

LEMMA HandStep == ASSUME TypeInv, Step PROVE HandTyped'
<1>1. bot.draft # NoDraft /\ StepOf(bot.draft) # "confirm" /\ bot.text \in Texts
  BY DEF Step, TypeInv, HandTyped
<1>2. bot.draft \in Drafts /\ AtStep(bot.draft) /\ Ask(Question(bot.draft)) \in Replies
  BY <1>1, HandDraft
<1> DEFINE e == Take(bot.draft, bot.text)
<1>3. e \in Drafts /\ AtStep(e)
  BY <1>1, <1>2, TakeTyped
<1>4. Placeable(e) /\ Ask(Question(e)) \in Replies
  BY <1>3, StepTyped, RepliesTyped DEF Placeable
<1>5. Put(e, Ask(Question(e))) \/ Answer(Ask(Question(bot.draft))) \/ Answer(Again)
  BY DEF Step
<1> HIDE DEF e
<1> QED
  BY <1>2, <1>4, <1>5, PutTyped, AnswerTyped, RepliesTyped

LEMMA HandConfirm ==
  ASSUME TypeInv, Refuse \/ ConfirmOrder \/ ConfirmUser \/ ConfirmEdit
  PROVE  HandTyped'
<1>1. bot.draft # NoDraft
  BY DEF Refuse, ConfirmOrder, ConfirmUser, ConfirmEdit, Confirming, NoDraft
<1>2. \E reply \in Replies : Answer(reply) \/ Put(NoDraft, reply)
  <2>1. bot.draft.no \in Nat
    BY <1>1, HandDraft DEF Drafts
  <2>2. CASE Refuse
    BY <1>1, <2>2, HandDraft DEF Refuse, Stay
  <2>3. CASE ConfirmOrder \/ ConfirmEdit
    BY <1>1, <2>3, HandDraft, RepliesTyped DEF ConfirmOrder, ConfirmEdit, Confirmed, Remove, Stay
  <2>4. CASE ConfirmUser
    BY <1>1, <2>1, <2>4, HandDraft, RepliesTyped DEF ConfirmUser, Confirmed, Remove, Stay
  <2> QED
    BY <2>2, <2>3, <2>4
<1> QED
  BY <1>2, AnswerTyped, PutTyped, BlankTyped

LEMMA HandNext == ASSUME TypeInv, Next PROVE HandTyped'
<1>1. CASE UNCHANGED bot
  BY <1>1 DEF TypeInv, HandTyped, Placeable
<1>2. CASE Command0 \/ Store \/ Tell \/ TellFails \/ Restart
  <2>1. bot' = Idle \/ \E reply \in Replies : Answer(reply)
    BY <1>2, RepliesTyped DEF Command0, Store, Tell, TellFails, Restart, TypeInv, HandTyped
  <2> QED
    BY <2>1, IdleTyped, AnswerTyped
<1>3. \/ UNCHANGED bot \/ Command0 \/ Store \/ Tell \/ TellFails \/ Restart \/ Read \/ Begin \/ Step
      \/ Refuse \/ ConfirmOrder \/ ConfirmUser \/ ConfirmEdit
  BY DEF Next, Handle, World, Poll, Write, Expire, SetPermissions, EditElsewhere, PollFails
<1> QED
  BY <1>1, <1>2, <1>3, HandRead, HandBegin, HandStep, HandConfirm

LEMMA TypeInit == Init => TypeInv
<1> SUFFICES ASSUME Init PROVE TypeInv
  OBVIOUS
<1>1. HandTyped
  <2>1. /\ Idle.at = "poll" /\ Idle.reply = Done /\ Idle.draft = NoDraft /\ Idle.next = NoDraft /\ bot = Idle
        /\ Idle.from = "none"
    BY DEF Init, Idle, Done, Ask
  <2> QED
    BY <2>1, BlankTyped, RepliesTyped DEF HandTyped
<1>2. KeptTyped /\ MailTyped
  BY BlankTyped DEF Init, KeptTyped, MailTyped
<1>3. WorldTyped
  BY BoundsAssumption DEF Init, WorldTyped
<1> QED
  BY <1>1, <1>2, <1>3, InitInv DEF TypeInv

LEMMA TypeNext == TypeInv /\ [Next]_vars => TypeInv'
<1> SUFFICES ASSUME TypeInv, [Next]_vars PROVE TypeInv'
  OBVIOUS
<1>1. Inv'
  BY NextInv DEF TypeInv
<1>2. CASE UNCHANGED vars
  <2>1. UNCHANGED <<account, order, created, users, draft, updates, bot, view, dialogs, edits, faults>>
    BY <1>2 DEF vars, services, counters
  <2> QED
    BY <1>1, <2>1 DEF TypeInv, WorldTyped, MailTyped, HandTyped, KeptTyped, Placeable
<1> QED
  BY <1>1, <1>2, WorldNext, MailNext, KeptNext, HandNext DEF TypeInv

-----------------------------------------------------------------------------
(* Answers in place: who has which messages under way *)

Waiting(p) == {i \in past + 1 .. Len(updates) : updates[i].from = p}
InHand(p) == bot.at # "poll" /\ bot.from = p
AtMost(k, p) == Cardinality(Waiting(p)) <= k
Strays(d) == Cardinality(Misplaced(d))

\* The question a draft is at, when there is a draft.
Right(q, d) == d = NoDraft \/ Question(d) = q

\* A handler keeps in hand what it answers.
Said ==
  /\ bot.at = "work" => draft[bot.from] \in {bot.draft, NoDraft} /\ bot.text.say # "/cancel"
  /\ bot.at = "store" => ~bot.reply.again /\ Right(bot.reply.ask, bot.next)
  /\ bot.at = "tell" /\ ~bot.reply.again => Right(bot.reply.ask, draft[bot.from])

\* Nothing went wrong for p: one message at most, an answer to the question the draft is at.
InStep(p) ==
  /\ AtMost(1, p) /\ \A i \in Waiting(p) : updates[i].text \in Says(view[p])
  /\ InHand(p) => Waiting(p) = {}
  /\ InHand(p) /\ bot.at = "work" => bot.text \in Says(view[p]) /\ Right(view[p], bot.draft)
  /\ ~InHand(p) \/ (bot.at = "tell" /\ bot.reply.again) => Right(view[p], draft[p])

Few(p, n) == Strays(draft[p]) <= n /\ (InHand(p) => Strays(bot.draft) <= n /\ Strays(bot.next) <= n)

\* After a failure k messages can still be misplaced, and 2 - k are at most.
Spare(p, k) ==
  /\ Strays(draft[p]) <= 2 - k
  /\ InHand(p) /\ bot.at = "work" => k >= 1 /\ Strays(bot.draft) <= 2 - k /\ AtMost(k - 1, p)
  /\ InHand(p) /\ bot.at = "store" => Strays(bot.next) <= 2 - k /\ AtMost(k, p)
  /\ ~InHand(p) \/ bot.at = "tell" => AtMost(k, p)
  /\ ~InHand(p) \/ (bot.at = "tell" /\ bot.reply.again) => k >= 1

Placed(p) == (InStep(p) /\ Few(p, 2 * faults)) \/ (faults = 1 /\ \E k \in 0..2 : Spare(p, k))

\* A batch holds one message of each at most.
Batch(p) == \A i, j \in 1..fetched : updates[i].from = p /\ updates[j].from = p => i = j

PlacedInv ==
  /\ Said
  /\ faults <= 1 => \A p \in People : Placed(p)
  /\ faults = 0 => \A p \in People : Batch(p)

-----------------------------------------------------------------------------
(* Misplaced answers *)

LEMMA FieldsFinite == IsFiniteSet(Fields)
<1>1. [i \in 1..7 |-> Details[i]] \in Surjection(1..7, DetailSteps)
  BY DEF Surjection, DetailSteps
<1>2. IsFiniteSet(1..7)
  <2>1. 1 \in Int /\ 7 \in Int
    OBVIOUS
  <2> QED
    BY <2>1, FS_Interval
<1>3. IsFiniteSet(DetailSteps)
  BY <1>1, <1>2, FS_Surjection
<1>4. IsFiniteSet(DetailSteps \union {"performers"})
  BY <1>3, FS_AddElement
<1>5. IsFiniteSet(DetailSteps \union {"performers"} \union {"login"})
  BY <1>4, FS_AddElement
<1>6. IsFiniteSet(DetailSteps \union {"performers"} \union {"login"} \union {"name"})
  BY <1>5, FS_AddElement
<1>7. IsFiniteSet(DetailSteps \union {"performers"} \union {"login"} \union {"name"} \union {"role"})
  BY <1>6, FS_AddElement
<1>8. DetailSteps \union {"performers"} \union {"login"} \union {"name"} \union {"role"} = Fields
  BY DEF Fields
<1> QED
  BY <1>7, <1>8

LEMMA StraysType == ASSUME NEW d PROVE IsFiniteSet(Misplaced(d)) /\ Strays(d) \in Nat
<1>1. Misplaced(d) \in SUBSET Fields
  BY DEF Misplaced
<1>2. IsFiniteSet(Misplaced(d))
  BY <1>1, FieldsFinite, FS_Subset
<1> QED
  BY <1>2, FS_CardinalityType DEF Strays

LEMMA FewerStrays ==
  ASSUME NEW d, NEW e, Misplaced(e) \subseteq Misplaced(d)
  PROVE  Strays(e) <= Strays(d)
BY StraysType, FS_Subset DEF Strays

LEMMA NoStrays == ASSUME NEW d, d.fields = NoDraft.fields PROVE Strays(d) = 0
<1>1. Misplaced(d) = {}
  BY DEF Misplaced, NoDraft
<1> QED
  BY <1>1, FS_EmptySet DEF Strays

\* An answer is misplaced under the step it was taken for, unless that is what it is about.
LEMMA TakeStrays ==
  ASSUME NEW d \in Drafts, NEW t
  PROVE  /\ Strays(Take(d, t)) <= Strays(d) + 1
         /\ t.about = Question(d) => Strays(Take(d, t)) <= Strays(d)
<1>1. \A f \in Fields : f # StepOf(d) => Take(d, t).fields[f] = d.fields[f]
  BY DEF Take, Drafts
<1>2. Misplaced(Take(d, t)) \subseteq Misplaced(d) \union {StepOf(d)}
  BY <1>1 DEF Misplaced
<1>3. Strays(Take(d, t)) <= Strays(d) + 1
  <2>1. /\ IsFiniteSet(Misplaced(d) \union {StepOf(d)})
        /\ Cardinality(Misplaced(d) \union {StepOf(d)}) =
             IF StepOf(d) \in Misplaced(d) THEN Strays(d) ELSE Strays(d) + 1
    BY StraysType, FS_AddElement DEF Strays
  <2>2. Strays(Take(d, t)) <= Cardinality(Misplaced(d) \union {StepOf(d)})
    BY <1>2, <2>1, FS_Subset DEF Strays
  <2> QED
    BY <2>1, <2>2, StraysType
<1>4. ASSUME t.about = Question(d) PROVE Strays(Take(d, t)) <= Strays(d)
  <2>1. StepOf(d) \in Fields => Take(d, t).fields[StepOf(d)] # "other"
    BY <1>4 DEF Take, Drafts, Holds
  <2>2. StepOf(d) \notin Misplaced(Take(d, t))
    BY <2>1 DEF Misplaced
  <2>3. Misplaced(Take(d, t)) \subseteq Misplaced(d)
    BY <1>2, <2>2
  <2> QED
    BY <2>3, FewerStrays
<1> QED
  BY <1>3, <1>4

\* Who answers a question of a field says it is about that question, or cancels.
LEMMA SaysAbout ==
  ASSUME NEW q \in Questions, q[2] # "confirm", NEW t \in Says(q), t.say # "/cancel"
  PROVE  t.about = q
<1>1. q # Nothing
  BY DEF Questions, Nothing, Kinds
<1>2. Command("/cancel").say = "/cancel"
  BY DEF Command
<1> DEFINE g == IF q[2] \in {"date", "role", "performers"} THEN BOOLEAN ELSE {TRUE}
           l == {FALSE} \union {q[2] = "comment"}
           m == IF q \in Optional THEN {"-"} ELSE {}
<1>3. t \in {Command("/cancel")} \union [say : {"answer"}, about : {q}, long : l, good : g]
              \union [say : m, about : {q}, good : {TRUE}, long : {FALSE}]
  BY <1>1 DEF Says
<1> HIDE DEF g, l, m
<1> QED
  BY <1>2, <1>3

-----------------------------------------------------------------------------
(* Messages on their way *)

LEMMA Updated == ASSUME TypeInv PROVE /\ past \in Nat /\ fetched \in Nat /\ Len(updates) \in Nat
                                      /\ past <= fetched /\ fetched <= Len(updates) /\ \E R : updates \in Seq(R)
<1>1. PICK R : updates \in Seq(R)
  BY DEF TypeInv, Inv, Queue, Mail
<1>2. Len(updates) \in Nat
  BY <1>1
<1> QED
  BY <1>1, <1>2 DEF TypeInv, Inv, Queue

LEMMA WaitingType == ASSUME TypeInv, NEW p PROVE IsFiniteSet(Waiting(p)) /\ Cardinality(Waiting(p)) \in Nat
<1>1. IsFiniteSet(past + 1 .. Len(updates))
  BY Updated, FS_Interval
<1>2. Waiting(p) \in SUBSET (past + 1 .. Len(updates))
  BY DEF Waiting
<1>3. IsFiniteSet(Waiting(p))
  BY <1>1, <1>2, FS_Subset
<1> QED
  BY <1>3, FS_CardinalityType

LEMMA WaitingNext == ASSUME TypeInv', NEW p PROVE IsFiniteSet(Waiting(p)') /\ Cardinality(Waiting(p)') \in Nat
<1>1. past' \in Nat /\ Len(updates') \in Nat
  BY DEF TypeInv, Inv, Queue, Mail
<1>2. IsFiniteSet(past' + 1 .. Len(updates'))
  BY <1>1, FS_Interval
<1>3. Waiting(p)' \in SUBSET (past' + 1 .. Len(updates'))
  BY DEF Waiting
<1>4. IsFiniteSet(Waiting(p)')
  BY <1>2, <1>3, FS_Subset
<1> QED
  BY <1>4, FS_CardinalityType

\* No message of p has come, though some may be gone and their places have changed.
Fewer(p) ==
  /\ Cardinality(Waiting(p)') <= Cardinality(Waiting(p))
  /\ \A i \in Waiting(p)' : \E j \in Waiting(p) : updates'[i] = updates[j]

LEMMA FewerSame == ASSUME TypeInv, TypeInv', NEW p, UNCHANGED updates, past' >= past PROVE Fewer(p)
<1>1. Waiting(p)' \subseteq Waiting(p)
  <2>1. past' \in Nat
    BY DEF TypeInv, Inv, Queue
  <2> QED
    BY <2>1, Updated DEF Waiting
<1>2. Cardinality(Waiting(p)') <= Cardinality(Waiting(p))
  BY <1>1, WaitingType, FS_Subset
<1> QED
  BY <1>1, <1>2 DEF Fewer

LEMMA FewerPolled == ASSUME TypeInv, TypeInv', NEW p, Poll \/ PollFails PROVE Fewer(p)
<1>0. PICK R : updates \in Seq(R)
  BY Updated
<1>1. /\ past \in Nat /\ Len(updates) \in Nat /\ past <= Len(updates) /\ past' = 0
      /\ updates' = SubSeq(updates, past + 1, Len(updates))
  BY Updated DEF Poll, PollFails
<1>2. Len(updates') = Len(updates) - past /\ \A i \in 1..Len(updates') : updates'[i] = updates[past + i]
  BY <1>0, <1>1
<1>3. \A i \in Waiting(p)' : past + i \in Waiting(p) /\ updates'[i] = updates[past + i]
  BY <1>1, <1>2 DEF Waiting
<1> DEFINE f == [i \in Waiting(p)' |-> past + i]
<1>4. f \in Injection(Waiting(p)', Waiting(p))
  <2>1. Waiting(p)' \subseteq Nat
    BY <1>1 DEF Waiting
  <2>2. f \in [Waiting(p)' -> Waiting(p)]
    BY <1>3
  <2>3. \A i, j \in Waiting(p)' : f[i] = f[j] => i = j
    BY <1>1, <2>1
  <2> HIDE DEF f
  <2> QED
    BY <2>2, <2>3 DEF Injection, IsInjective
<1>5. Cardinality(Waiting(p)') <= Cardinality(Waiting(p))
  BY <1>4, WaitingType, FS_Injection
<1> QED
  BY <1>3, <1>5 DEF Fewer

LEMMA FewerWritten ==
  ASSUME TypeInv, TypeInv', NEW p, NEW q \in People, q # p, Write(q)
  PROVE  Fewer(p)
<1>0. PICK R : updates \in Seq(R)
  BY Updated
<1>1. PICK t : updates' = Append(updates, [from |-> q, text |-> t])
  BY DEF Write
<1>2. /\ Len(updates) \in Nat /\ Len(updates') = Len(updates) + 1 /\ past' = past /\ past \in Nat
      /\ \A i \in 1..Len(updates) : updates'[i] = updates[i]
      /\ updates'[Len(updates) + 1].from = q
  BY <1>0, <1>1, Updated DEF Write, memory
<1>3. \A i \in Waiting(p)' : i \in Waiting(p) /\ updates'[i] = updates[i]
  BY <1>2 DEF Waiting
<1>4. Cardinality(Waiting(p)') <= Cardinality(Waiting(p))
  BY <1>3, WaitingType, FS_Subset
<1> QED
  BY <1>3, <1>4 DEF Fewer
-----------------------------------------------------------------------------
(* Steps that fail nothing *)

\* What is known of p in every state.
LEMMA PlacedParts ==
  ASSUME NEW p, Placed(p)
  PROVE  \/ InStep(p) /\ Few(p, 2 * faults)
         \/ faults = 1 /\ \E k \in 0..2 : Spare(p, k)
BY DEF Placed

\* The bot does nothing for p: p's draft may expire and p's place in the queue change.
LEMMA Aside ==
  ASSUME TypeInv, TypeInv', NEW p \in People, Placed(p), UNCHANGED faults, faults <= 1, Fewer(p),
         view'[p] = view[p], draft'[p] \in {draft[p], NoDraft},
         UNCHANGED bot \/ (~InHand(p) /\ ~InHand(p)')
  PROVE  Placed(p)'
<1>1. /\ Cardinality(Waiting(p)') \in Nat /\ Cardinality(Waiting(p)) \in Nat
      /\ Cardinality(Waiting(p)') <= Cardinality(Waiting(p)) /\ faults \in Nat
      /\ Waiting(p) = {} => Waiting(p)' = {}
  <2>1. Cardinality(Waiting(p)) \in Nat
    BY WaitingType
  <2>2. Cardinality(Waiting(p)') \in Nat
    BY WaitingNext
  <2> QED
    BY <2>1, <2>2 DEF Fewer, TypeInv, WorldTyped
<1>2. Strays(draft'[p]) <= Strays(draft[p]) /\ Strays(draft'[p]) \in Nat /\ Strays(draft[p]) \in Nat
  <2>1. Strays(NoDraft) = 0
    BY NoStrays
  <2> QED
    BY <2>1, StraysType
<1>3. InHand(p)' => InHand(p) /\ UNCHANGED bot
  BY DEF InHand
<1>4. CASE InStep(p) /\ Few(p, 2 * faults)
  <2>1. InStep(p)'
    BY <1>1, <1>3, <1>4 DEF InStep, Fewer, AtMost, InHand, Right
  <2>2. Few(p, 2 * faults)'
    BY <1>1, <1>2, <1>3, <1>4 DEF Few
  <2> QED
    BY <2>1, <2>2 DEF Placed
<1>5. CASE faults = 1 /\ \E k \in 0..2 : Spare(p, k)
  <2> PICK k \in 0..2 : Spare(p, k)
    BY <1>5
  <2>1. Spare(p, k)'
    BY <1>1, <1>2, <1>3 DEF Spare, AtMost, InHand
  <2> QED
    BY <1>5, <2>1 DEF Placed
<1> QED
  BY <1>4, <1>5 DEF Placed

\* One more message, from someone who waits for nothing.
LEMMA PlacedWritten ==
  ASSUME TypeInv, TypeInv', NEW p \in People, Placed(p), faults <= 1, Write(p)
  PROVE  Placed(p)'
<1>0. PICK R : updates \in Seq(R)
  BY Updated
<1>1. PICK t \in Says(view[p]) : updates' = Append(updates, [from |-> p, text |-> t])
  BY DEF Write
<1>2. /\ Waiting(p) = {} /\ ~InHand(p)
      /\ UNCHANGED <<bot, past, view, draft, faults>>
  BY DEF Write, Pending, Waiting, InHand, store, memory, services
<1>3. /\ Len(updates) \in Nat /\ Len(updates') = Len(updates) + 1 /\ past \in Nat
      /\ \A i \in 1..Len(updates) : updates'[i] = updates[i]
      /\ updates'[Len(updates) + 1].text = t
  BY <1>0, <1>1, Updated
<1>4. Waiting(p)' \subseteq {Len(updates) + 1}
  BY <1>2, <1>3 DEF Waiting
<1>5. Cardinality(Waiting(p)') <= 1 /\ Cardinality(Waiting(p)') \in Nat
  <2>1. IsFiniteSet({Len(updates) + 1}) /\ Cardinality({Len(updates) + 1}) = 1
    BY FS_Singleton
  <2> QED
    BY <1>4, <2>1, FS_Subset, WaitingNext
<1>6. ~InHand(p)'
  BY <1>2 DEF InHand
<1>7. CASE InStep(p) /\ Few(p, 2 * faults)
  <2>1. InStep(p)'
    BY <1>1, <1>2, <1>3, <1>4, <1>5, <1>6, <1>7 DEF InStep, AtMost, Right
  <2>2. Few(p, 2 * faults)'
    BY <1>2, <1>6, <1>7 DEF Few
  <2> QED
    BY <2>1, <2>2 DEF Placed
<1>8. CASE faults = 1 /\ \E k \in 0..2 : Spare(p, k)
  <2> PICK k \in 0..2 : Spare(p, k)
    BY <1>8
  <2>1. Spare(p, k)'
    BY <1>2, <1>5, <1>6 DEF Spare, AtMost
  <2> QED
    BY <1>2, <1>8, <2>1 DEF Placed
<1> QED
  BY <1>7, <1>8 DEF Placed

\* The next message is one that waits.
LEMMA NextWaits == ASSUME TypeInv, Read, NEW p \in People, updates[past + 1].from = p PROVE past + 1 \in Waiting(p)
<1>1. past < fetched /\ past \in Nat /\ fetched \in Nat /\ fetched <= Len(updates) /\ Len(updates) \in Nat
  BY Updated DEF Read
<1> QED
  BY <1>1 DEF Waiting

LEMMA OneWaitsLess ==
  ASSUME TypeInv, TypeInv', NEW p, past + 1 \in Waiting(p), UNCHANGED updates, past' = past + 1
  PROVE  Cardinality(Waiting(p)') = Cardinality(Waiting(p)) - 1
<1>1. Waiting(p)' = Waiting(p) \ {past + 1}
  BY Updated DEF Waiting
<1> QED
  BY <1>1, WaitingType, FS_RemoveElement

\* p's message is taken in hand, or its draft cannot be read.
LEMMA PlacedRead ==
  ASSUME TypeInv, TypeInv', NEW p \in People, Placed(p), faults <= 1, Read, UNCHANGED faults,
         updates[past + 1].from = p
  PROVE  Placed(p)'
<1> DEFINE r == updates[past + 1]
<1>1. /\ past + 1 \in Waiting(p) /\ UNCHANGED <<updates, view, draft>> /\ past' = past + 1
      /\ bot.at = "poll" /\ ~InHand(p)
  BY NextWaits DEF Read, InHand, store
<1>2. /\ Cardinality(Waiting(p)') = Cardinality(Waiting(p)) - 1
      /\ Cardinality(Waiting(p)') \in Nat /\ Cardinality(Waiting(p)) \in Nat
  BY <1>1, OneWaitsLess, WaitingType, WaitingNext
<1>8. r.from = p /\ (Load(r) \/ LoadFails(r))
  BY DEF Read
<1> HIDE DEF r
<1>3. \/ /\ bot'.at = "store" /\ bot'.draft = NoDraft /\ bot'.next = NoDraft
      \/ /\ bot'.at = "work" /\ bot'.text = r.text /\ bot'.draft = draft[p] /\ bot'.next = NoDraft
      \/ /\ bot'.at = "tell" /\ bot'.draft = NoDraft /\ bot'.next = NoDraft /\ bot'.reply.again
  <2>1. CASE LoadFails(r)
    BY <2>1 DEF LoadFails, Idle, Again
  <2>2. CASE Load(r) /\ r.text.say = "/cancel"
    BY <2>2 DEF Load, Idle
  <2>3. CASE Load(r) /\ r.text.say # "/cancel"
    BY <1>8, <2>3 DEF Load, Idle
  <2> QED
    BY <1>8, <2>1, <2>2, <2>3
<1>4. InHand(p)'
  BY <1>3, <1>8 DEF Load, LoadFails, Idle, InHand
<1>5. Strays(NoDraft) = 0 /\ Strays(draft[p]) \in Nat
  BY NoStrays, StraysType
<1>6. CASE InStep(p) /\ Few(p, 2 * faults)
  <2>1. Cardinality(Waiting(p)') = 0
    BY <1>2, <1>6 DEF InStep, AtMost
  <2>2. Waiting(p)' = {}
    BY <2>1, WaitingNext, FS_EmptySet
  <2>3. r.text \in Says(view[p])
    BY <1>1, <1>6 DEF InStep, r
  <2>4. Right(view[p], draft[p])
    BY <1>1, <1>6 DEF InStep
  <2>5. InStep(p)'
    BY <1>1, <1>3, <1>4, <2>1, <2>2, <2>3, <2>4 DEF InStep, AtMost, Right
  <2>6. Few(p, 2 * faults)'
    BY <1>1, <1>3, <1>5, <1>6 DEF Few, TypeInv, WorldTyped
  <2> QED
    BY <2>5, <2>6 DEF Placed
<1>7. CASE faults = 1 /\ \E k \in 0..2 : Spare(p, k)
  <2> PICK k \in 0..2 : Spare(p, k)
    BY <1>7
  <2>1. k >= 1 /\ Cardinality(Waiting(p)) <= k /\ Strays(draft[p]) <= 2 - k
    BY <1>1 DEF Spare, AtMost
  <2>2. Spare(p, k)'
    BY <1>1, <1>2, <1>3, <1>4, <1>5, <2>1 DEF Spare, AtMost
  <2> QED
    BY <1>7, <2>2 DEF Placed
<1> QED
  BY <1>6, <1>7 DEF Placed

\* Steps of p's handler leave the queue alone.
LEMMA QueueStays ==
  ASSUME UNCHANGED <<updates, past>>, NEW p
  PROVE  Waiting(p)' = Waiting(p) /\ \A i \in Waiting(p) : updates'[i] = updates[i]
BY DEF Waiting

\* The handler goes on to its answer and asks something.
LEMMA PlacedAnswered ==
  ASSUME TypeInv, TypeInv', NEW p \in People, Placed(p), faults <= 1, InHand(p), bot.at = "work",
         UNCHANGED <<faults, updates, past, view, draft>>, NEW reply, ~reply.again, Answer(reply)
  PROVE  Placed(p)'
<1>1. bot'.at = "tell" /\ bot'.from = p /\ bot'.draft = NoDraft /\ bot'.next = NoDraft /\ ~bot'.reply.again
  BY Hands, Carrying DEF InHand
<1>2. Waiting(p)' = Waiting(p) /\ Cardinality(Waiting(p)) \in Nat
  BY QueueStays, WaitingType
<1>3. Strays(NoDraft) = 0 /\ Strays(draft[p]) \in Nat
  BY NoStrays, StraysType
<1>4. InHand(p)'
  BY <1>1 DEF InHand
<1>5. CASE InStep(p) /\ Few(p, 2 * faults)
  <2>1. Waiting(p) = {}
    BY <1>5 DEF InStep
  <2>2. InStep(p)'
    BY <1>1, <1>2, <1>4, <1>5, <2>1 DEF InStep, AtMost
  <2>3. Few(p, 2 * faults)'
    BY <1>1, <1>3, <1>5 DEF Few, TypeInv, WorldTyped
  <2> QED
    BY <2>2, <2>3 DEF Placed
<1>6. CASE faults = 1 /\ \E k \in 0..2 : Spare(p, k)
  <2> PICK k \in 0..2 : Spare(p, k)
    BY <1>6
  <2>1. Spare(p, k)'
    BY <1>1, <1>2, <1>4 DEF Spare, AtMost
  <2> QED
    BY <1>6, <2>1 DEF Placed
<1> QED
  BY <1>5, <1>6 DEF Placed

\* The handler is about to store a draft: one more answer may be misplaced in it,
\* unless the draft is at the question the answer is about.
LEMMA PlacedPut ==
  ASSUME TypeInv, TypeInv', NEW p \in People, Placed(p), faults <= 1, InHand(p), bot.at = "work",
         UNCHANGED <<faults, updates, past, view, draft>>, NEW d, NEW reply, Put(d, reply),
         Strays(d) <= Strays(bot.draft) + 1, InStep(p) => Strays(d) <= Strays(bot.draft)
  PROVE  Placed(p)'
<1>1. bot'.at = "store" /\ bot'.from = p /\ bot'.draft = NoDraft /\ bot'.next = d
  BY Hands DEF InHand
<1>2. Waiting(p)' = Waiting(p) /\ Cardinality(Waiting(p)) \in Nat
  BY QueueStays, WaitingType
<1>3. Strays(NoDraft) = 0 /\ Strays(draft[p]) \in Nat /\ Strays(bot.draft) \in Nat /\ Strays(d) \in Nat
  BY NoStrays, StraysType
<1>4. InHand(p)'
  BY <1>1 DEF InHand
<1>5. CASE InStep(p) /\ Few(p, 2 * faults)
  <2>1. Waiting(p) = {}
    BY <1>5 DEF InStep
  <2>2. InStep(p)'
    BY <1>1, <1>2, <1>4, <1>5, <2>1 DEF InStep, AtMost
  <2>3. Few(p, 2 * faults)'
    BY <1>1, <1>3, <1>5 DEF Few, TypeInv, WorldTyped
  <2> QED
    BY <2>2, <2>3 DEF Placed
<1>6. CASE faults = 1 /\ \E k \in 0..2 : Spare(p, k)
  <2> PICK k \in 0..2 : Spare(p, k)
    BY <1>6
  <2>1. k >= 1 /\ k - 1 \in 0..2 /\ 2 - (k - 1) = 3 - k
    BY DEF Spare
  <2>2. Spare(p, k - 1)'
    BY <1>1, <1>2, <1>3, <1>4, <2>1 DEF Spare, AtMost
  <2> QED
    BY <1>6, <2>1, <2>2 DEF Placed
<1> QED
  BY <1>5, <1>6 DEF Placed

\* The draft is stored.
LEMMA PlacedStored ==
  ASSUME TypeInv, TypeInv', Said, NEW p \in People, Placed(p), faults <= 1, InHand(p), Store, UNCHANGED faults
  PROVE  Placed(p)'
<1>1. /\ bot.at = "store" /\ draft' = [draft EXCEPT ![p] = bot.next] /\ Answer(bot.reply)
      /\ UNCHANGED <<updates, past, view>>
  BY DEF Store, Fault, InHand, memory, TypeInv, WorldTyped
<1>2. bot'.at = "tell" /\ bot'.from = p /\ bot'.draft = NoDraft /\ bot'.next = NoDraft /\ ~bot'.reply.again
  BY <1>1, Hands, Carrying DEF InHand, Said
<1>3. Waiting(p)' = Waiting(p) /\ Cardinality(Waiting(p)) \in Nat
  BY <1>1, QueueStays, WaitingType
<1>4. Strays(NoDraft) = 0 /\ draft'[p] = bot.next
  BY <1>1, NoStrays DEF TypeInv, KeptTyped
<1>5. InHand(p)'
  BY <1>2 DEF InHand
<1>6. CASE InStep(p) /\ Few(p, 2 * faults)
  <2>1. Waiting(p) = {}
    BY <1>6 DEF InStep
  <2>2. InStep(p)'
    BY <1>2, <1>3, <1>5, <1>6, <2>1 DEF InStep, AtMost
  <2>3. Few(p, 2 * faults)'
    BY <1>2, <1>4, <1>6 DEF Few, TypeInv, WorldTyped
  <2> QED
    BY <2>2, <2>3 DEF Placed
<1>7. CASE faults = 1 /\ \E k \in 0..2 : Spare(p, k)
  <2> PICK k \in 0..2 : Spare(p, k)
    BY <1>7
  <2>1. Spare(p, k)'
    BY <1>1, <1>2, <1>3, <1>4, <1>5 DEF Spare, AtMost
  <2> QED
    BY <1>7, <2>1 DEF Placed
<1> QED
  BY <1>6, <1>7 DEF Placed

\* p is told, and sees the question the draft is at unless asked to try again.
LEMMA PlacedTold ==
  ASSUME TypeInv, TypeInv', Said, NEW p \in People, Placed(p), faults <= 1, InHand(p), Tell
  PROVE  Placed(p)'
<1>1. bot.at = "tell" /\ bot.from = p /\ bot' = Idle /\ UNCHANGED <<updates, past, draft, faults>>
  BY DEF Tell, InHand, store, memory
<1>2. view'[p] = IF bot.reply.again THEN view[p] ELSE bot.reply.ask
  BY <1>1 DEF Tell, Told, TypeInv, WorldTyped
<1>3. /\ Waiting(p)' = Waiting(p) /\ Cardinality(Waiting(p)) \in Nat
      /\ Cardinality(Waiting(p)) = 0 => Waiting(p) = {}
      /\ Waiting(p) = {} => Cardinality(Waiting(p)) = 0
  BY <1>1, QueueStays, WaitingType, FS_EmptySet
<1>4. ~InHand(p)'
  BY <1>1 DEF Idle, InHand
<1>5. ASSUME Waiting(p) = {}, bot.reply.again => Right(view[p], draft[p]), Strays(draft[p]) <= 2 * faults
      PROVE  Placed(p)'
  <2>1. Right(view'[p], draft[p])
    BY <1>1, <1>2, <1>5 DEF Said
  <2>2. InStep(p)'
    BY <1>1, <1>3, <1>4, <1>5, <2>1 DEF InStep, AtMost, Right
  <2>3. Few(p, 2 * faults)'
    BY <1>1, <1>4, <1>5 DEF Few
  <2> QED
    BY <2>2, <2>3 DEF Placed
<1>6. CASE InStep(p) /\ Few(p, 2 * faults)
  BY <1>1, <1>5, <1>6 DEF InStep, Few
<1>7. CASE faults = 1 /\ \E k \in 0..2 : Spare(p, k)
  <2> PICK k \in 0..2 : Spare(p, k)
    BY <1>7
  <2>1. CASE k = 0
    <3>1. Cardinality(Waiting(p)) <= 0 /\ ~bot.reply.again /\ Strays(draft[p]) <= 2
      BY <1>1, <2>1 DEF Spare, AtMost
    <3> QED
      BY <1>3, <1>5, <1>7, <3>1
  <2>2. CASE k >= 1
    <3>1. Spare(p, k)'
      BY <1>1, <1>3, <1>4, <2>2 DEF Spare, AtMost
    <3> QED
      BY <1>1, <1>7, <3>1 DEF Placed
  <2> QED
    BY <2>1, <2>2
<1> QED
  BY <1>6, <1>7 DEF Placed

-----------------------------------------------------------------------------
(* What a handler does *)

LEMMA FaultIs == ASSUME TypeInv PROVE faults \in Nat /\ (Fault => faults' = faults + 1 /\ faults' # faults)
BY DEF TypeInv, WorldTyped, Fault

\* A handler at work that fails nothing asks something new, or stores a draft in which
\* one answer more is misplaced, at most.
LEMMA WorkDone ==
  ASSUME TypeInv, Said, bot.at = "work", UNCHANGED faults,
         Command0 \/ Begin \/ Step \/ Refuse \/ ConfirmOrder \/ ConfirmUser \/ ConfirmEdit
  PROVE  \/ \E reply : ~reply.again /\ Answer(reply)
         \/ \E d, reply : /\ Put(d, reply) /\ Strays(d) <= Strays(bot.draft) + 1
                          /\ InStep(bot.from) => Strays(d) <= Strays(bot.draft)
<1>0. bot.from \in People /\ ~Fault
  BY FaultIs DEF TypeInv, Inv, Types
<1>1. (\A q : ~Ask(q).again) /\ ~Done.again
  BY DEF Ask, Done
<1>2. Strays(NoDraft) = 0 /\ Strays(bot.draft) \in Nat
  BY NoStrays, StraysType
<1>3. CASE Command0 \/ Refuse
  BY <1>1, <1>3 DEF Command0, Refuse, Stay
<1>4. CASE ConfirmOrder \/ ConfirmEdit \/ ConfirmUser
  <2>1. \E reply : Put(NoDraft, reply)
    BY <1>0, <1>4 DEF ConfirmOrder, ConfirmEdit, ConfirmUser, Confirmed, Remove
  <2> QED
    BY <1>2, <2>1
<1>5. CASE Begin
  <2>1. Answer(Done) \/ \E d, reply : Put(d, reply) /\ d.fields = NoDraft.fields
    <3> DEFINE k == KindOf[bot.text.say]
               d == [NoDraft EXCEPT !.kind = k, !.no = dialogs + 1,
                       !.version = IF k = "edit" THEN order.version ELSE 0,
                       !.shown = IF k = "edit" THEN order.row ELSE @]
    <3>1. Put(d, Ask(Question(d))) \/ Answer(Done)
      BY <1>5 DEF Begin
    <3>2. d.fields = NoDraft.fields
      BY DEF NoDraft
    <3> QED
      BY <3>1, <3>2
  <2>2. ASSUME NEW d, d.fields = NoDraft.fields PROVE Strays(d) = 0
    BY <2>2, NoStrays
  <2> QED
    BY <1>1, <1>2, <2>1, <2>2
<1>6. CASE Step
  <2> DEFINE e == Take(bot.draft, bot.text)
  <2>1. Put(e, Ask(Question(e))) \/ Answer(Ask(Question(bot.draft)))
    BY <1>0, <1>6 DEF Step
  <2>2. bot.draft \in Drafts /\ AtStep(bot.draft) /\ StepOf(bot.draft) # "confirm"
    BY <1>6, HandDraft DEF Step
  <2>3. Strays(e) <= Strays(bot.draft) + 1
    BY <2>2, TakeStrays
  <2>4. ASSUME InStep(bot.from) PROVE Strays(e) <= Strays(bot.draft)
    <3>1. bot.text \in Says(view[bot.from]) /\ Right(view[bot.from], bot.draft) /\ bot.text.say # "/cancel"
      BY <2>4, <1>6 DEF InStep, InHand, Step, Working, Said
    <3>2. view[bot.from] = Question(bot.draft) /\ Question(bot.draft) \in Questions
      BY <2>2, <3>1, StepTyped DEF Right
    <3>3. Question(bot.draft)[2] # "confirm"
      BY <2>2 DEF Question
    <3>4. bot.text.about = Question(bot.draft)
      BY <3>1, <3>2, <3>3, SaysAbout
    <3> QED
      BY <2>2, <3>4, TakeStrays
  <2> HIDE DEF e
  <2> QED
    BY <1>1, <2>1, <2>3, <2>4
<1> QED
  BY <1>3, <1>4, <1>5, <1>6

\* A handler at work touches neither drafts, nor messages, nor what anyone sees.
LEMMA WorkKeeps ==
  ASSUME TypeInv,
         Command0 \/ Begin \/ Step \/ Refuse \/ ConfirmOrder \/ ConfirmUser \/ ConfirmEdit
  PROVE  /\ bot.at = "work" /\ UNCHANGED <<updates, past, fetched, view, draft>>
         /\ bot'.at \in {"tell", "store"} /\ bot'.from = bot.from /\ (Fault => bot'.at = "tell")
         /\ Fault \/ UNCHANGED faults
<1>1. bot.at = "work" /\ UNCHANGED <<updates, past, fetched, view, draft>> /\ (Fault \/ UNCHANGED faults)
  BY DEF Command0, Begin, Step, Refuse, ConfirmOrder, ConfirmUser, ConfirmEdit, Confirmed, Confirming, Working,
         store, memory
<1>2. (\E reply : Answer(reply)) \/ (UNCHANGED faults /\ \E d, reply : Put(d, reply))
  BY DEF Command0, Begin, Step, Refuse, ConfirmOrder, ConfirmUser, ConfirmEdit, Confirmed, Remove, Stay
<1>3. UNCHANGED faults => ~Fault
  BY FaultIs
<1>4. CASE \E reply : Answer(reply)
  <2>1. bot'.at = "tell" /\ bot'.from = bot.from
    BY <1>4, Hands
  <2> QED
    BY <1>1, <2>1
<1>5. CASE UNCHANGED faults /\ \E d, reply : Put(d, reply)
  <2>1. bot'.at = "store" /\ bot'.from = bot.from
    BY <1>5, Hands
  <2> QED
    BY <1>1, <1>3, <1>5, <2>1
<1> QED
  BY <1>2, <1>4, <1>5

LEMMA SaidWork ==
  ASSUME TypeInv, Said, Command0 \/ Begin \/ Step \/ Refuse \/ ConfirmOrder \/ ConfirmUser \/ ConfirmEdit
  PROVE  Said'
<1>1. draft' = draft /\ bot'.from = bot.from /\ draft[bot.from] \in {bot.draft, NoDraft}
  BY WorkKeeps DEF Said
<1>2. \/ \E reply : Answer(reply) /\ (~reply.again => Right(reply.ask, draft[bot.from]))
      \/ \E d, reply : Put(d, reply) /\ ~reply.again /\ Right(reply.ask, d)
  <2>1. \A q : ~Ask(q).again /\ Ask(q).ask = q
    BY DEF Ask
  <2>2. Done = Ask(Nothing) /\ Again.again
    BY DEF Done, Again
  <2>3. \A d : Right(Question(d), d) /\ Right(Question(d), NoDraft)
    BY DEF Right
  <2>4. \A q : Right(q, NoDraft)
    BY DEF Right
  <2>5. CASE Command0
    BY <1>1, <2>2, <2>4, <2>5 DEF Command0
  <2>6. CASE Begin
    BY <1>1, <2>1, <2>2, <2>3, <2>4, <2>6 DEF Begin
  <2>7. CASE Step
    BY <1>1, <2>1, <2>2, <2>3, <2>7 DEF Step
  <2>8. CASE Refuse
    BY <1>1, <2>1, <2>3, <2>8 DEF Refuse, Stay
  <2>9. CASE ConfirmOrder \/ ConfirmEdit
    BY <1>1, <2>1, <2>2, <2>3, <2>4, <2>9 DEF ConfirmOrder, ConfirmEdit, Confirmed, Remove, Stay
  <2>10. CASE ConfirmUser
    <3> DEFINE reply == [Done EXCEPT !.password = bot.draft.no]
    <3>1. ~reply.again
      BY DEF Done, Ask
    <3>2. Put(NoDraft, reply) \/ Answer(Ask(Question(bot.draft)))
      BY <2>10 DEF ConfirmUser, Confirmed, Remove, Stay
    <3> HIDE DEF reply
    <3> QED
      BY <1>1, <2>1, <2>3, <2>4, <3>1, <3>2
  <2> QED
    BY <2>5, <2>6, <2>7, <2>8, <2>9, <2>10
<1>3. CASE \E reply : Answer(reply) /\ (~reply.again => Right(reply.ask, draft[bot.from]))
  <2>1. PICK reply : Answer(reply) /\ (~reply.again => Right(reply.ask, draft[bot.from]))
    BY <1>3
  <2>2. bot'.at = "tell" /\ bot'.reply = reply
    BY <2>1, Carrying
  <2> QED
    BY <1>1, <2>1, <2>2 DEF Said, Right
<1>4. CASE \E d, reply : Put(d, reply) /\ ~reply.again /\ Right(reply.ask, d)
  <2>1. PICK d, reply : Put(d, reply) /\ ~reply.again /\ Right(reply.ask, d)
    BY <1>4
  <2>2. bot'.at = "store" /\ bot'.reply = reply /\ bot'.next = d
    BY <2>1, Carrying, Hands
  <2> QED
    BY <2>1, <2>2 DEF Said, Right
<1> QED
  BY <1>2, <1>3, <1>4

LEMMA SaidNext == ASSUME TypeInv, Said, Next PROVE Said'
<1>0. DOMAIN draft = People /\ (bot.at # "poll" => bot.from \in People) /\ \A q : Right(q, NoDraft)
  BY DEF TypeInv, KeptTyped, Inv, Types, Right
<1>1. CASE UNCHANGED <<bot, draft>>
  BY <1>1 DEF Said, Right
<1>2. CASE \E p \in People : Expire(p)
  <2>1. PICK p \in People : bot' = bot /\ draft' = [draft EXCEPT ![p] = NoDraft]
    BY <1>2 DEF Expire
  <2>2. bot.at # "poll" => draft'[bot.from] \in {draft[bot.from], NoDraft}
    BY <1>0, <2>1
  <2> QED
    BY <1>0, <2>1, <2>2 DEF Said, Right
<1>3. CASE bot' = Idle
  BY <1>3, Hands DEF Said
<1>4. CASE Answer(Again) /\ draft' = draft
  <2>1. bot'.at = "tell" /\ bot'.reply.again
    BY <1>4, Carrying DEF Again
  <2> QED
    BY <2>1 DEF Said
<1>5. CASE Read
  <2> DEFINE r == updates[past + 1]
  <2>1. Load(r) \/ LoadFails(r)
    BY <1>5 DEF Read
  <2>2. draft' = draft
    BY <1>5 DEF Read, store
  <2> HIDE DEF r
  <2>3. CASE LoadFails(r)
    BY <2>3 DEF LoadFails, Idle, Again, Said
  <2>4. CASE Load(r) /\ r.text.say = "/cancel"
    BY <1>0, <2>4 DEF Load, Idle, Done, Ask, Said
  <2>5. CASE Load(r) /\ r.text.say # "/cancel"
    <3>1. bot'.at = "work" /\ bot'.from = r.from /\ bot'.text = r.text /\ bot'.draft = draft[r.from]
      BY <2>5 DEF Load, Idle
    <3> QED
      BY <2>2, <2>5, <3>1 DEF Said
  <2> QED
    BY <2>1, <2>3, <2>4, <2>5
<1>6. CASE Store
  <2>1. CASE draft' = [draft EXCEPT ![bot.from] = bot.next] /\ Answer(bot.reply)
    <3>1. bot'.at = "tell" /\ bot'.reply = bot.reply /\ bot'.from = bot.from
      BY <2>1, Carrying, Hands
    <3>2. bot.at = "store" /\ draft'[bot.from] = bot.next
      BY <1>0, <1>6, <2>1 DEF Store
    <3> QED
      BY <3>1, <3>2 DEF Said, Right
  <2>2. CASE Answer(Again)
    <3>1. bot'.at = "tell" /\ bot'.reply.again
      BY <2>2, Carrying DEF Again
    <3> QED
      BY <3>1 DEF Said
  <2> QED
    BY <1>6, <2>1, <2>2 DEF Store
<1>7. \/ UNCHANGED <<bot, draft>> \/ (\E p \in People : Expire(p)) \/ bot' = Idle \/ (Answer(Again) /\ draft' = draft)
      \/ Read \/ Store \/ Command0 \/ Begin \/ Step \/ Refuse \/ ConfirmOrder \/ ConfirmUser \/ ConfirmEdit
  BY DEF Next, Handle, World, Poll, Write, SetPermissions, EditElsewhere, PollFails, Tell, TellFails, Restart, store
<1> QED
  BY <1>1, <1>2, <1>3, <1>4, <1>5, <1>6, <1>7, SaidWork

-----------------------------------------------------------------------------
(* Failures *)

LEMMA AtMostOne == ASSUME NEW S, IsFiniteSet(S), Cardinality(S) <= 1, NEW i \in S, NEW j \in S PROVE i = j
<1>1. /\ IsFiniteSet(S \ {i}) /\ Cardinality(S \ {i}) = Cardinality(S) - 1
      /\ Cardinality(S) \in Nat /\ Cardinality(S \ {i}) \in Nat
  BY FS_RemoveElement, FS_CardinalityType
<1>2. Cardinality(S \ {i}) = 0
  BY <1>1
<1>3. S \ {i} = {}
  BY <1>1, <1>2, FS_EmptySet
<1> QED
  BY <1>3

\* The process starts again: of what it had in hand and in its batch, one message of p
\* comes again, with the one that waits.
LEMMA RestartWaits ==
  ASSUME TypeInv, TypeInv', Restart, NEW p, Batch(p), AtMost(1, p)
  PROVE  AtMost(2, p)'
<1>1. UNCHANGED updates /\ past' = 0
  BY DEF Restart
<1>2. IsFiniteSet(Waiting(p)) /\ Cardinality(Waiting(p)) \in Nat /\ Cardinality(Waiting(p)) <= 1
  BY WaitingType DEF AtMost
<1>3. \E a : Waiting(p)' \subseteq Waiting(p) \union {a}
  <2>1. CASE \E a \in 1..past : updates[a].from = p
    <3>1. PICK a \in 1..past : updates[a].from = p
      BY <2>1
    <3>2. \A i \in 1..past : updates[i].from = p => i = a
      BY <3>1, Updated DEF Batch
    <3>3. Waiting(p)' \subseteq Waiting(p) \union {a}
      BY <1>1, <3>2, Updated DEF Waiting
    <3> QED
      BY <3>3
  <2>2. CASE ~\E a \in 1..past : updates[a].from = p
    <3>1. Waiting(p)' \subseteq Waiting(p)
      BY <1>1, <2>2, Updated DEF Waiting
    <3> QED
      BY <3>1
  <2> QED
    BY <2>1, <2>2
<1>4. PICK a : Waiting(p)' \subseteq Waiting(p) \union {a}
  BY <1>3
<1>5. /\ IsFiniteSet(Waiting(p) \union {a})
      /\ Cardinality(Waiting(p) \union {a}) = IF a \in Waiting(p) THEN Cardinality(Waiting(p)) ELSE Cardinality(Waiting(p)) + 1
  BY <1>2, FS_AddElement
<1>6. Cardinality(Waiting(p)') <= Cardinality(Waiting(p) \union {a}) /\ Cardinality(Waiting(p)') \in Nat
  BY <1>4, <1>5, FS_Subset, WaitingNext
<1> QED
  BY <1>2, <1>5, <1>6 DEF AtMost

\* Where a failure leaves the handler.
LEMMA FaultLeaves ==
  ASSUME TypeInv, Next, Fault
  PROVE  /\ bot'.at \in {"poll", "tell"} /\ past' \in Nat
         /\ draft' = draft \/ (Store /\ draft' = [draft EXCEPT ![bot.from] = bot.next])
         /\ Restart \/ PollFails \/ (UNCHANGED updates /\ past' >= past)
<1>0. past \in Nat /\ past' = past => past' >= past
  OBVIOUS
<1>1. past \in Nat /\ ~(UNCHANGED faults)
  BY Updated, FaultIs
<1>2. CASE Command0 \/ Begin \/ Step \/ Refuse \/ ConfirmOrder \/ ConfirmUser \/ ConfirmEdit
  BY <1>1, <1>2, WorkKeeps
<1>3. CASE Restart
  BY <1>3, Hands DEF Restart, store
<1>4. CASE PollFails
  BY <1>4 DEF PollFails, store
<1>5. CASE TellFails
  BY <1>1, <1>5, Hands DEF TellFails, store, memory
<1>6. CASE Store
  BY <1>1, <1>6, Hands DEF Store, memory
<1>7. CASE Read
  <2>1. LoadFails(updates[past + 1])
    BY <1>1, <1>7 DEF Read
  <2> QED
    BY <1>1, <1>7, <2>1 DEF Read, LoadFails, Idle, store
<1>8. \/ Command0 \/ Begin \/ Step \/ Refuse \/ ConfirmOrder \/ ConfirmUser \/ ConfirmEdit
      \/ Restart \/ PollFails \/ TellFails \/ Store \/ Read
  BY <1>1 DEF Next, Handle, World, Poll, Tell, Write, Expire, SetPermissions, EditElsewhere
<1> QED
  BY <1>2, <1>3, <1>4, <1>5, <1>6, <1>7, <1>8

\* After the first failure nothing is misplaced yet, and two messages can be.
LEMMA PlacedFault ==
  ASSUME TypeInv, TypeInv', NEW p \in People, Placed(p), Batch(p), faults = 0, Next, Fault
  PROVE  Placed(p)'
<1>1. faults' = 1
  BY FaultIs
<1>2. InStep(p) /\ Few(p, 0)
  BY DEF Placed
<1>3. /\ Strays(draft[p]) \in Nat /\ Strays(bot.next) \in Nat /\ Strays(draft'[p]) \in Nat
      /\ Strays(draft[p]) <= 0 /\ (InHand(p) => Strays(bot.next) <= 0)
  BY <1>2, StraysType DEF Few
<1>4. Strays(draft'[p]) <= 0
  <2>1. draft' = draft \/ (bot.at = "store" /\ draft' = [draft EXCEPT ![bot.from] = bot.next])
    BY FaultLeaves DEF Store
  <2>2. draft'[p] = draft[p] \/ (InHand(p) /\ draft'[p] = bot.next)
    BY <2>1 DEF InHand, TypeInv, KeptTyped
  <2> QED
    BY <1>3, <2>2
<1>5. AtMost(2, p)'
  <2>1. AtMost(1, p)
    BY <1>2 DEF InStep
  <2>2. CASE Restart
    BY <2>1, <2>2, RestartWaits
  <2>3. CASE PollFails \/ (UNCHANGED updates /\ past' >= past)
    BY <2>1, <2>3, FewerPolled, FewerSame, WaitingType, WaitingNext DEF AtMost, Fewer
  <2> QED
    BY <2>2, <2>3, FaultLeaves
<1>6. Spare(p, 2)'
  BY <1>4, <1>5, FaultLeaves DEF Spare
<1> QED
  BY <1>1, <1>6 DEF Placed

-----------------------------------------------------------------------------
(* Every step *)

\* What the handler does for p, when it fails nothing.
LEMMA PlacedHandled ==
  ASSUME TypeInv, TypeInv', Said, NEW p \in People, Placed(p), faults <= 1, InHand(p), UNCHANGED faults,
         \/ Command0 \/ Begin \/ Step \/ Refuse \/ ConfirmOrder \/ ConfirmUser \/ ConfirmEdit
         \/ Store \/ Tell
  PROVE  Placed(p)'
<1>1. CASE Store \/ Tell
  BY <1>1, PlacedStored, PlacedTold
<1>2. CASE Command0 \/ Begin \/ Step \/ Refuse \/ ConfirmOrder \/ ConfirmUser \/ ConfirmEdit
  <2>1. bot.at = "work" /\ UNCHANGED <<updates, past, view, draft>> /\ bot.from = p
    BY <1>2, WorkKeeps DEF InHand
  <2>2. CASE \E reply : ~reply.again /\ Answer(reply)
    BY <2>1, <2>2, PlacedAnswered
  <2>3. CASE \E d, reply : /\ Put(d, reply) /\ Strays(d) <= Strays(bot.draft) + 1
                           /\ InStep(p) => Strays(d) <= Strays(bot.draft)
    BY <2>1, <2>3, PlacedPut
  <2> QED
    BY <1>2, <2>1, <2>2, <2>3, WorkDone
<1> QED
  BY <1>1, <1>2

\* What it does for others.
LEMMA OthersHandled ==
  ASSUME TypeInv, TypeInv', NEW p \in People, ~InHand(p),
         \/ Command0 \/ Begin \/ Step \/ Refuse \/ ConfirmOrder \/ ConfirmUser \/ ConfirmEdit
         \/ Store \/ Tell
  PROVE  /\ ~InHand(p)' /\ Fewer(p) /\ view'[p] = view[p] /\ draft'[p] = draft[p]
<1>1. CASE Command0 \/ Begin \/ Step \/ Refuse \/ ConfirmOrder \/ ConfirmUser \/ ConfirmEdit
  <2>1. UNCHANGED <<updates, past, view, draft>> /\ bot.at = "work" /\ bot'.from = bot.from
    BY <1>1, WorkKeeps
  <2>2. past' >= past
    BY <2>1, Updated
  <2> QED
    BY <2>1, <2>2, FewerSame DEF InHand
<1>2. CASE Store
  <2>1. /\ UNCHANGED <<updates, past, view>> /\ bot.at = "store" /\ bot'.from = bot.from
        /\ draft' = draft \/ draft' = [draft EXCEPT ![bot.from] = bot.next]
    BY <1>2, Hands DEF Store, memory
  <2>2. p # bot.from
    BY <2>1 DEF InHand
  <2>3. past' >= past
    BY <2>1, Updated
  <2> QED
    BY <2>1, <2>2, <2>3, FewerSame DEF InHand, TypeInv, KeptTyped
<1>3. CASE Tell
  <2>1. /\ UNCHANGED <<updates, past, draft>> /\ bot.at = "tell" /\ bot' = Idle
        /\ view' = view \/ view' = [view EXCEPT ![bot.from] = bot.reply.ask]
    BY <1>3 DEF Tell, Told, store, memory
  <2>2. p # bot.from
    BY <2>1 DEF InHand
  <2>3. past' >= past
    BY <2>1, Updated
  <2> QED
    BY <2>1, <2>2, <2>3, FewerSame, Hands DEF InHand, TypeInv, WorldTyped
<1> QED
  BY <1>1, <1>2, <1>3

LEMMA PlacedQuiet ==
  ASSUME TypeInv, TypeInv', Said, NEW p \in People, Placed(p), faults <= 1, UNCHANGED faults, Next
  PROVE  Placed(p)'
<1>0. ~Fault /\ past \in Nat
  BY FaultIs, Updated
<1>1. CASE Poll
  BY <1>1, FewerPolled, Aside DEF Poll, store
<1>2. CASE Read
  <2>1. CASE updates[past + 1].from = p
    BY <1>2, <2>1, PlacedRead
  <2>2. CASE updates[past + 1].from # p
    <3>1. /\ bot.at = "poll" /\ past' = past + 1 /\ UNCHANGED <<updates, view, draft>>
          /\ bot'.from = updates[past + 1].from
      BY <1>2 DEF Read, Load, LoadFails, Idle, store
    <3>2. past' >= past
      BY <1>0, <3>1
    <3> QED
      BY <2>2, <3>1, <3>2, FewerSame, Aside DEF InHand
  <2> QED
    BY <2>1, <2>2
<1>3. CASE Command0 \/ Begin \/ Step \/ Refuse \/ ConfirmOrder \/ ConfirmUser \/ ConfirmEdit \/ Store \/ Tell
  <2>1. CASE InHand(p)
    BY <1>3, <2>1, PlacedHandled
  <2>2. CASE ~InHand(p)
    BY <1>3, <2>2, OthersHandled, Aside
  <2> QED
    BY <2>1, <2>2
<1>4. CASE \E q \in People : Write(q)
  <2> PICK q \in People : Write(q)
    BY <1>4
  <2>1. CASE q = p
    BY <2>1, PlacedWritten
  <2>2. CASE q # p
    BY <2>2, FewerWritten, Aside DEF Write, store
  <2> QED
    BY <2>1, <2>2
<1>5. CASE (\E q \in People : Expire(q) \/ SetPermissions(q)) \/ EditElsewhere
  <2>1. /\ UNCHANGED <<updates, past, view, bot>>
        /\ draft' = draft \/ \E q \in People : draft' = [draft EXCEPT ![q] = NoDraft]
    BY <1>5 DEF Expire, SetPermissions, EditElsewhere, store, memory
  <2>2. past' >= past /\ draft'[p] \in {draft[p], NoDraft}
    BY <1>0, <2>1 DEF TypeInv, KeptTyped
  <2> QED
    BY <2>1, <2>2, FewerSame, Aside
<1>6. ~PollFails /\ ~TellFails /\ ~Restart
  BY <1>0 DEF PollFails, TellFails, Restart
<1> QED
  BY <1>1, <1>2, <1>3, <1>4, <1>5, <1>6 DEF Next, Handle, World

LEMMA BatchNext ==
  ASSUME TypeInv, TypeInv', NEW p \in People, InStep(p), Batch(p), Next, UNCHANGED faults
  PROVE  Batch(p)'
<1>0. ~Fault
  BY FaultIs
<1>1. CASE Poll
  <2>1. fetched' = Len(updates') /\ past' = 0
    <3>1. PICK R : updates \in Seq(R)
      BY Updated
    <3> QED
      BY <1>1, <3>1, Updated DEF Poll
  <2>2. Cardinality(Waiting(p)') <= 1
    BY <1>1, FewerPolled, WaitingType, WaitingNext DEF InStep, AtMost, Fewer
  <2>3. \A i, j \in Waiting(p)' : i = j
    BY <2>2, WaitingNext, AtMostOne
  <2>4. \A i \in 1..fetched' : updates'[i].from = p => i \in Waiting(p)'
    BY <2>1 DEF Waiting
  <2> QED
    BY <2>3, <2>4 DEF Batch
<1>2. CASE \E q \in People : Write(q)
  <2>1. PICK q, t : updates' = Append(updates, [from |-> q, text |-> t])
    BY <1>2 DEF Write
  <2>2. fetched' = fetched
    BY <1>2 DEF Write, memory
  <2>3. PICK R : updates \in Seq(R)
    BY Updated
  <2>4. \A i \in 1..fetched : updates'[i] = updates[i]
    BY <2>1, <2>3, Updated
  <2> QED
    BY <2>2, <2>4 DEF Batch
<1>3. CASE UNCHANGED <<updates, fetched>>
  BY <1>3 DEF Batch
<1>4. Poll \/ (\E q \in People : Write(q)) \/ UNCHANGED <<updates, fetched>>
  BY <1>0, WorkKeeps DEF Next, Handle, World, Read, Store, Tell, Expire, SetPermissions, EditElsewhere, PollFails,
                         TellFails, Restart, memory
<1> QED
  BY <1>1, <1>2, <1>3, <1>4

LEMMA PlacedNext ==
  ASSUME TypeInv, TypeInv', PlacedInv, Next
  PROVE  PlacedInv'
<1>0. faults \in Nat /\ (Fault \/ UNCHANGED faults) /\ (Fault => faults' = faults + 1)
  <2>1. Fault \/ UNCHANGED faults
    BY WorkKeeps DEF Next, Handle, World, Poll, Read, Store, Tell, Write, Expire, SetPermissions, EditElsewhere,
                     PollFails, TellFails, Restart
  <2> QED
    BY <2>1, FaultIs
<1>1. Said'
  BY SaidNext DEF PlacedInv
<1>2. ASSUME faults' <= 1, NEW p \in People PROVE Placed(p)'
  <2>1. CASE Fault
    <3>1. faults = 0
      BY <1>0, <1>2, <2>1
    <3> QED
      BY <2>1, <3>1, PlacedFault DEF PlacedInv
  <2>2. CASE UNCHANGED faults
    BY <1>2, <2>2, PlacedQuiet DEF PlacedInv
  <2> QED
    BY <1>0, <2>1, <2>2
<1>3. ASSUME faults' = 0, NEW p \in People PROVE Batch(p)'
  <2>1. faults = 0 /\ UNCHANGED faults
    BY <1>0, <1>3
  <2>2. InStep(p) /\ Batch(p)
    BY <2>1 DEF PlacedInv, Placed
  <2> QED
    BY <2>1, <2>2, BatchNext
<1> QED
  BY <1>1, <1>2, <1>3 DEF PlacedInv

LEMMA PlacedInit == Init => PlacedInv
<1> SUFFICES ASSUME Init PROVE PlacedInv
  OBVIOUS
<1>1. bot = Idle /\ Idle.at = "poll" /\ faults = 0 /\ updates = <<>> /\ past = 0 /\ fetched = 0
  BY DEF Init, Idle
<1>2. Said
  BY <1>1 DEF Said
<1>3. ASSUME NEW p \in People PROVE Placed(p) /\ Batch(p)
  <2>1. Waiting(p) = {}
    BY <1>1 DEF Waiting
  <2>2. draft[p] = NoDraft /\ Strays(NoDraft) = 0
    BY <1>3, NoStrays DEF Init
  <2>3. ~InHand(p) /\ Cardinality(Waiting(p)) = 0
    BY <1>1, <2>1, FS_EmptySet DEF InHand
  <2>4. InStep(p) /\ Few(p, 2 * faults)
    BY <1>1, <2>1, <2>2, <2>3 DEF InStep, Few, AtMost, Right
  <2> QED
    BY <1>1, <2>4 DEF Placed, Batch
<1> QED
  BY <1>2, <1>3 DEF PlacedInv

LEMMA PlacedStep == TypeInv /\ TypeInv' /\ PlacedInv /\ [Next]_vars => PlacedInv'
<1> SUFFICES ASSUME TypeInv, TypeInv', PlacedInv, [Next]_vars PROVE PlacedInv'
  OBVIOUS
<1>1. CASE UNCHANGED vars
  <2>1. UNCHANGED <<draft, updates, fetched, past, bot, view, faults>>
    BY <1>1 DEF vars, memory
  <2>2. Said'
    BY <2>1 DEF PlacedInv, Said, Right
  <2>3. ASSUME NEW p \in People PROVE (Placed(p) => Placed(p)') /\ (Batch(p) => Batch(p)')
    <3>1. /\ Waiting(p)' = Waiting(p) /\ (InHand(p)' <=> InHand(p))
          /\ \A k : AtMost(k, p)' <=> AtMost(k, p)
      BY <2>1 DEF Waiting, InHand, AtMost
    <3>2. /\ InStep(p) => InStep(p)'
          /\ \A n : Few(p, n) => Few(p, n)'
          /\ \A k : Spare(p, k) => Spare(p, k)'
      BY <2>1, <3>1 DEF InStep, Few, Spare, Right
    <3> QED
      BY <2>1, <3>2 DEF Placed, Batch
  <2> QED
    BY <2>1, <2>2, <2>3 DEF PlacedInv
<1> QED
  BY <1>1, PlacedNext

-----------------------------------------------------------------------------
(* Results *)

\* What is true of drafts, of what was created from them and of the order they show.
THEOREM DraftsCorrect == Spec => []Inv
BY InitInv, NextInv, PTL DEF Spec

\* /confirm is not one transaction with the DEL of the draft (service.go:383-401): n
\* failures, restarts included, are worth n more orders of one draft and no others.
THEOREM CopiesCaused == Spec => []CopiesNeedAFault
<1>1. Inv => CopiesNeedAFault
  BY DEF Inv, Counted, CopiesNeedAFault
<1> QED
  BY <1>1, DraftsCorrect, PTL

\* The version shown when an edit begins is the one it is saved over
\* (service.go:328): a field answered with "-" keeps what the order has, a date to
\* the minute.
THEOREM KeptFields == Spec => KeptFieldsKept
<1>1. Inv /\ [Next]_vars => [order' # order /\ bot' # bot =>
        \A f \in DetailSteps : bot.draft.fields[f] = "kept" =>
          /\ order'.row[f] = order.row[f]
          /\ f = "date" /\ ~order.seconds => ~order'.seconds]_vars
  <2> SUFFICES ASSUME Inv, Next, order' # order, bot' # bot, NEW f \in DetailSteps,
                      bot.draft.fields[f] = "kept"
               PROVE  order'.row[f] = order.row[f] /\ ~order'.seconds
    OBVIOUS
  <2>1. ConfirmEdit
    BY DEF Next, Handle, World, Poll, Read, Command0, Begin, Step, Refuse, ConfirmOrder, ConfirmUser, Store,
           Tell, Write, Expire, SetPermissions, EditElsewhere, PollFails, TellFails, Restart, services
  <2>2. bot.draft.shown = order.row
    BY <2>1 DEF ConfirmEdit, Confirming, Inv, Drafted, Good, Shaped, Fresh
  <2> QED
    BY <2>1, <2>2 DEF ConfirmEdit, Written
<1> QED
  BY <1>1, DraftsCorrect, PTL DEF Spec, KeptFieldsKept

\* A temporary password exists in one answer only (service.go:240): users whose
\* password nobody was told are no more than the failures.
THEOREM PasswordsKept == Spec => []PasswordsTold
<1>1. PasswordInv => PasswordsTold
  BY DEF PasswordInv, PasswordsTold, Owed
<1> QED
  BY <1>1, PasswordInit, PasswordNext, PTL DEF Spec

\* A draft in Redis is of a dialog that was begun, at a step its handler has, and
\* whatever is asked or said is a question or a text of the system.
THEOREM TypeCorrect == Spec => []TypeOK
<1>1. TypeInv => TypeOK
  <2> SUFFICES ASSUME TypeInv PROVE TypeOK
    OBVIOUS
  <2>1. draft \in [People -> Drafts \union {NoDraft}] /\ \A p \in People : draft[p].no <= dialogs
    BY DEF TypeInv, KeptTyped, Placeable, Inv, Types, Drafted, Good
  <2>2. /\ \A i \in DOMAIN updates : updates[i].from \in People /\ updates[i].text \in Texts
        /\ past \in 0..fetched /\ fetched \in 0..Len(updates)
    BY DEF TypeInv, MailTyped, Inv, Queue, Mail
  <2>3. /\ bot.at \in {"poll", "work", "store", "tell"} /\ bot.from \in People \union {"none"}
        /\ bot.draft \in Drafts \union {NoDraft} /\ bot.next \in Drafts \union {NoDraft}
        /\ bot.reply \in Replies
    BY DEF TypeInv, HandTyped, Placeable, Inv, Types
  <2> QED
    BY <2>1, <2>2, <2>3 DEF TypeOK, TypeInv, WorldTyped
<1> QED
  BY <1>1, TypeInit, TypeNext, PTL DEF Spec

\* The offset, the draft and the answer are three steps (service.go:50-56): the first
\* failure still leaves all but two answers under the question they were given to.
THEOREM AnswersKept == Spec => []AnswersInPlace
<1>1. TypeInv /\ PlacedInv => AnswersInPlace
  <2> SUFFICES ASSUME TypeInv, PlacedInv, NEW p \in People, faults <= 1
               PROVE  Strays(draft[p]) <= 2 * faults
    BY DEF AnswersInPlace, Strays
  <2>1. Placed(p) /\ faults \in Nat /\ Strays(draft[p]) \in Nat
    BY StraysType DEF PlacedInv, TypeInv, WorldTyped
  <2>2. CASE Few(p, 2 * faults)
    BY <2>2 DEF Few
  <2>3. CASE faults = 1 /\ \E k \in 0..2 : Spare(p, k)
    BY <2>1, <2>3 DEF Spare
  <2> QED
    BY <2>1, <2>2, <2>3 DEF Placed
<1>2. Spec => []TypeInv
  BY TypeInit, TypeNext, PTL DEF Spec
<1>3. Spec => []PlacedInv
  BY <1>2, PlacedInit, PlacedStep, PTL DEF Spec
<1> QED
  BY <1>1, <1>2, <1>3, PTL
=============================================================================
