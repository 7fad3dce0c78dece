----------------------------- MODULE BotDialogs -----------------------------
(***************************************************************************)
(* bot-service: one goroutine that polls Telegram for updates and answers  *)
(* each, the drafts of its dialogs in Redis, and what it asks of the two   *)
(* services.  People answer the question they saw last and wait until the  *)
(* bot is done with their message.  Handling an update is four steps (read *)
(* the draft, work, store the draft, tell); any of them can fail, and the  *)
(* process can stop between any two, which loses the update offset it keeps*)
(* in memory.  An answer is reduced to the question it was given to, a     *)
(* field to whether its own question was answered.  Commands that only read*)
(* are in OrderListing.                                                    *)
(***************************************************************************)
EXTENDS Naturals, Sequences, FiniteSets

CONSTANTS
  People,      \* Telegram accounts that write to the bot
  Starts,      \* the dialogs they start: among /neworder, /newuser, /editorder
  Contested,   \* fields of the order that others change and an edit may keep
  MaxDialogs,  \* bound: drafts begun
  MaxFaults,   \* bound: failures and restarts
  MaxEdits     \* bound: changes of the order and of rights made elsewhere

ASSUME StartsAssumption == Starts \subseteq {"/neworder", "/newuser", "/editorder"}
ASSUME ContestedAssumption ==
  Contested \subseteq {"date", "location", "amount", "customer_name", "customer_phone",
                       "customer_contact", "comment"}
ASSUME BoundsAssumption == MaxDialogs \in Nat /\ MaxFaults \in Nat /\ MaxEdits \in Nat

-----------------------------------------------------------------------------
(* Questions, texts and drafts *)

Details == <<"date", "location", "amount", "customer_name", "customer_phone",
             "customer_contact", "comment">>

\* The steps of each kind of draft, in the order its handler asks them.
Script ==
  [order |-> Details \o <<"performers", "confirm">>,
   user  |-> <<"login", "name", "role", "confirm">>,
   edit  |-> Details \o <<"confirm">>]

Kinds == {"order", "user", "edit"}
KindOf == [c \in {"/neworder", "/newuser", "/editorder"} |->
             CASE c = "/neworder" -> "order" [] c = "/newuser" -> "user" [] OTHER -> "edit"]
DetailSteps == {Details[i] : i \in 1..7}
Fields == DetailSteps \union {"performers", "login", "name", "role"}

\* What someone believes to be asked: <<kind, step>>, or nothing.
Nothing == <<"none", "none">>
Questions == {<<k, s>> : k \in Kinds, s \in Fields \union {"confirm"}}

\* A text: a command, or an answer to the question "about".  A bad one is no date,
\* no role or no performer; a long one makes the draft exceed the reader's buffer.
Texts == [say : {"answer", "-", "/confirm", "/cancel", "/start", "/neworder", "/newuser",
                 "/editorder"},
          about : Questions \union {Nothing}, good : BOOLEAN, long : BOOLEAN]
Command(c) == [say |-> c, about |-> Nothing, good |-> TRUE, long |-> FALSE]

\* A field holds nothing yet, an answer to its own question, one to another
\* question, or what it had when "-" was answered.
Holdings == {"blank", "own", "other", "kept"}
Drafts == [kind : Kinds, at : 1..9, no : Nat, fields : [Fields -> Holdings],
           version : Nat, shown : [DetailSteps -> Nat], long : BOOLEAN]
NoDraft == [kind |-> "none", at |-> 1, no |-> 0, fields |-> [f \in Fields |-> "blank"],
            version |-> 0, shown |-> [f \in DetailSteps |-> 0], long |-> FALSE]
StepOf(d) == Script[d.kind][d.at]
Question(d) == <<d.kind, StepOf(d)>>

VARIABLES
  account,  \* account[p]: "none" (not bound), "performer" or "admin"
  order,    \* the order people edit: its version, which version set each field (of the
            \* date: its minute), and whether its date has seconds
  created,  \* created[n]: orders created from the n-th draft
  users,    \* users[n]: user of the n-th draft: "none", "made", "told" its password
  draft,    \* draft[p]: the draft in Redis
  updates,  \* updates Telegram keeps, oldest first
  fetched,  \* how many of them the bot has in its batch
  past,     \* how many of these its offset is past
  bot,      \* the update in hand: where its handler is and what it holds
  view,     \* view[p]: the question p saw last
  dialogs, faults, edits   \* counters

store == <<draft>>
memory == <<fetched, past>>
services == <<account, order, created, users>>
counters == <<dialogs, edits>>
vars == <<services, draft, updates, memory, bot, view, counters, faults>>

Idle == [at |-> "poll", from |-> "none", text |-> Command("/cancel"), draft |-> NoDraft,
         next |-> NoDraft, reply |-> [ask |-> Nothing, again |-> FALSE, password |-> 0]]

Init ==
  /\ account = [p \in People |-> "none"]
  /\ order = [version |-> 1, row |-> [f \in DetailSteps |-> 1], seconds |-> FALSE]
  /\ created = [n \in 1..MaxDialogs |-> 0]
  /\ users = [n \in 1..MaxDialogs |-> "none"]
  /\ draft = [p \in People |-> NoDraft]
  /\ updates = <<>> /\ fetched = 0 /\ past = 0
  /\ bot = Idle
  /\ view = [p \in People |-> Nothing]
  /\ dialogs = 0 /\ faults = 0 /\ edits = 0

Fault == faults < MaxFaults /\ faults' = faults + 1

-----------------------------------------------------------------------------
(* The world *)

\* Someone's message is not dealt with yet.
Pending(p) ==
  \/ \E i \in past + 1 .. Len(updates) : updates[i].from = p
  \/ bot.at # "poll" /\ bot.from = p

Optional == {<<"order", "customer_contact">>, <<"order", "comment">>, <<"order", "performers">>}
            \union {<<"edit", f>> : f \in Contested}

\* What one says after seeing q.
Says(q) ==
  {Command("/cancel")} \union
  CASE q = Nothing -> {Command(c) : c \in Starts \union {"/start"}}
    [] q[2] = "confirm" -> {Command("/confirm")}
    [] OTHER -> [say : {"answer"}, about : {q}, long : {FALSE} \union {q[2] = "comment"},
                 good : IF q[2] \in {"date", "role", "performers"} THEN BOOLEAN ELSE {TRUE}]
                \union [say : IF q \in Optional THEN {"-"} ELSE {}, about : {q},
                        good : {TRUE}, long : {FALSE}]

Write(p) ==
  /\ ~Pending(p)
  /\ \E t \in Says(view[p]) : updates' = Append(updates, [from |-> p, text |-> t])
  /\ UNCHANGED <<services, store, memory, bot, view, counters, faults>>

\* 30 minutes without a SET, or Redis restarted: it keeps nothing on disk.
Expire(p) ==
  /\ draft[p] # NoDraft
  /\ draft' = [draft EXCEPT ![p] = NoDraft]
  /\ UNCHANGED <<services, updates, memory, bot, view, counters, faults>>

\* Permissions are given or taken.
SetPermissions(p) ==
  /\ account[p] # "none" /\ edits < MaxEdits /\ edits' = edits + 1
  /\ account' = [account EXCEPT ![p] = IF @ = "admin" THEN "performer" ELSE "admin"]
  /\ UNCHANGED <<order, created, users, store, updates, memory, bot, view, dialogs, faults>>

\* The order is changed by somebody else: by another dialog, or by a client of the
\* service, which can set a date with seconds.
EditElsewhere ==
  /\ edits < MaxEdits /\ edits' = edits + 1
  /\ \E f \in Contested, s \in BOOLEAN :
       /\ s => order.seconds \/ f = "date"
       /\ order' = [version |-> order.version + 1,
                    row |-> [order.row EXCEPT ![f] = order.version + 1], seconds |-> s]
  /\ UNCHANGED <<account, created, users, store, updates, memory, bot, view, dialogs, faults>>

-----------------------------------------------------------------------------
(* Polling *)

\* Mutant of Poll: the last batch is still there when the next one comes.
PollOnTop ==
  /\ bot.at = "poll" /\ past = fetched
  /\ updates' = SubSeq(updates, past + 1, Len(updates))
  /\ fetched' = Len(updates)
  /\ past' = 0
  /\ UNCHANGED <<services, store, bot, view, counters, faults>>

\* getUpdates with the offset: what it is past is forgotten, the rest comes.  A
\* process that has just started has no offset and gets all that is kept.
Poll ==
  /\ bot.at = "poll" /\ past = fetched
  /\ updates' = SubSeq(updates, past + 1, Len(updates))
  /\ fetched' = Len(updates) - past
  /\ past' = 0
  /\ UNCHANGED <<services, store, bot, view, counters, faults>>

\* Telegram took the offset, the updates did not arrive.
PollFails ==
  /\ bot.at = "poll" /\ past = fetched /\ past > 0
  /\ updates' = SubSeq(updates, past + 1, Len(updates))
  /\ fetched' = 0 /\ past' = 0
  /\ Fault
  /\ UNCHANGED <<services, store, bot, view, counters>>

\* The process stops and starts again: offset and batch are gone.
Restart ==
  /\ bot.at # "poll" \/ fetched > 0
  /\ bot' = Idle /\ fetched' = 0 /\ past' = 0
  /\ Fault
  /\ UNCHANGED <<services, store, updates, view, counters>>

-----------------------------------------------------------------------------
(* Handling an update *)

\* Answers: a question, or nothing more to ask; "try again" asks nothing new.
Ask(q) == [ask |-> q, again |-> FALSE, password |-> 0]
Done == Ask(Nothing)
Again == [ask |-> Nothing, again |-> TRUE, password |-> 0]

Load(r) ==
  bot' = IF r.text.say = "/cancel"
         THEN [Idle EXCEPT !.at = "store", !.from = r.from, !.reply = Done]
         ELSE [Idle EXCEPT !.at = "work", !.from = r.from, !.text = r.text, !.draft = draft[r.from]]

LoadFails(r) ==
  bot' = [Idle EXCEPT !.at = "tell", !.from = r.from, !.reply = Again]

\* Mutant of Read: the draft is loaded before /cancel is looked for.
LoadThenCancel ==
  LET r == updates[past + 1] IN
  /\ bot.at = "poll" /\ past < fetched
  /\ past' = past + 1
  /\ \/ ~draft[r.from].long /\ Load(r) /\ UNCHANGED faults
     \/ LoadFails(r) /\ ((draft[r.from].long /\ UNCHANGED faults) \/ Fault)
  /\ UNCHANGED <<services, store, updates, fetched, view, counters>>

\* Mutant of Read: the offset passes an update only when it has been handled.
ReadAndStay ==
  LET r == updates[past + 1] IN
  /\ bot.at = "poll" /\ past < fetched
  /\ \/ (r.text.say = "/cancel" \/ ~draft[r.from].long) /\ Load(r) /\ past' = past + 1 /\ UNCHANGED faults
     \/ /\ r.text.say # "/cancel" /\ LoadFails(r) /\ past' = past
        /\ (draft[r.from].long /\ UNCHANGED faults) \/ Fault
  /\ UNCHANGED <<services, store, updates, fetched, view, counters>>

\* The next update of the batch; the offset is past it from now on.  /cancel is
\* looked for first, then the draft is read: one reader.Read, which can get less
\* than there is, and always does when the draft is longer than the buffer.
Read ==
  LET r == updates[past + 1] IN
  /\ bot.at = "poll" /\ past < fetched
  /\ past' = past + 1
  /\ \/ (r.text.say = "/cancel" \/ ~draft[r.from].long) /\ Load(r) /\ UNCHANGED faults
     \/ /\ r.text.say # "/cancel" /\ LoadFails(r)
        /\ (draft[r.from].long /\ UNCHANGED faults) \/ Fault
  /\ UNCHANGED <<services, store, updates, fetched, view, counters>>

\* The handler goes on to its answer, or to the store and then to its answer.
Answer(reply) == bot' = [Idle EXCEPT !.at = "tell", !.from = bot.from, !.reply = reply]
Put(d, reply) ==
  bot' = [Idle EXCEPT !.at = "store", !.from = bot.from, !.next = d, !.reply = reply]
Remove(reply) == Put(NoDraft, reply)

Working == bot.at = "work" /\ UNCHANGED <<store, updates, memory, view>>
May(p) == account[p] = "admin"

\* No draft and a command that starts none: /start binds the account, or not; what
\* is no command is answered with a hint.
Command0 ==
  /\ Working /\ bot.draft = NoDraft
  /\ bot.text.say \notin {"/neworder", "/newuser", "/editorder"}
  /\ \/ UNCHANGED account
     \/ /\ bot.text.say = "/start"
        /\ \E a \in {"performer", "admin"} : account' = [account EXCEPT ![bot.from] = a]
  /\ Answer(Done)
  /\ UNCHANGED <<order, created, users, counters, faults>>

\* startDraft, startUserDraft, startEditDraft: whoever may gets a fresh draft; an
\* edit begins with what GetOrder shows, the date to the minute.
Begin ==
  /\ Working /\ bot.draft = NoDraft /\ UNCHANGED <<services, edits>>
  /\ bot.text.say \in {"/neworder", "/newuser", "/editorder"}
  /\ LET k == KindOf[bot.text.say]
         d == [NoDraft EXCEPT !.kind = k, !.no = dialogs + 1,
                 !.version = IF k = "edit" THEN order.version ELSE 0,
                 !.shown = IF k = "edit" THEN order.row ELSE @]
     IN \/ /\ May(bot.from) /\ dialogs < MaxDialogs /\ dialogs' = dialogs + 1
           /\ Put(d, Ask(Question(d))) /\ UNCHANGED faults
        \/ /\ ~May(bot.from) /\ UNCHANGED <<faults, dialogs>> /\ Answer(Done)
        \/ Fault /\ UNCHANGED dialogs /\ Answer(Done)          \* the lookup failed
        \/ dialogs = MaxDialogs /\ UNCHANGED <<faults, dialogs>> /\ Answer(Done)   \* bound

\* A text is taken at a step unless it cannot be parsed there.
Fits(q, t) ==
  \/ q[2] \notin {"date", "role", "performers"}
  \/ t.about[2] = q[2] /\ t.good
  \/ t.say = "-" /\ (q[1] = "edit" \/ q[2] = "performers")

Holds(q, t) == IF t.about # q THEN "other" ELSE IF t.say = "-" THEN "kept" ELSE "own"

\* Mutant of Take: the answer goes to the field asked for next.
TakeNext(d, t) == [d EXCEPT !.at = @ + 1, !.long = @ \/ t.long,
                            !.fields[Script[d.kind][d.at + 1]] = Holds(<<d.kind, Script[d.kind][d.at + 1]>>, t)]

Take(d, t) == [d EXCEPT !.at = @ + 1, !.long = @ \/ t.long,
                        !.fields[StepOf(d)] = Holds(Question(d), t)]

\* An answer to the question the draft is at, whatever the person believes to
\* answer; a command is one, too.  ListUsers is asked before and after performers
\* are asked for: the first failure is an error, the second a message.
Step ==
  LET d == bot.draft IN
  /\ Working /\ d # NoDraft /\ StepOf(d) # "confirm" /\ UNCHANGED <<services, counters>>
  /\ \/ /\ Fits(Question(d), bot.text) /\ UNCHANGED faults
        /\ LET e == Take(d, bot.text) IN Put(e, Ask(Question(e)))
     \/ /\ ~Fits(Question(d), bot.text) /\ UNCHANGED faults
        /\ Answer(Ask(Question(d)))
     \/ Question(d) = <<"order", "comment">> /\ Fault /\ Answer(Again)
     \/ Question(d) = <<"order", "performers">> /\ Fault /\ Answer(Ask(Question(d)))

Confirming(k) == Working /\ bot.draft.kind = k /\ StepOf(bot.draft) = "confirm"
Stay == Answer(Ask(Question(bot.draft)))

\* Not /confirm, no rights any more, or the lookup or the service refuses or fails:
\* a message, and the draft stays.
Refuse ==
  /\ bot.draft # NoDraft /\ Confirming(bot.draft.kind) /\ Stay
  /\ UNCHANGED <<services, counters, faults>>

\* The service has done it; or it has, and its answer is lost.
Confirmed(reply) ==
  /\ bot.text.say = "/confirm" /\ May(bot.from)
  /\ (Remove(reply) /\ UNCHANGED faults) \/ (Stay /\ Fault)

\* Mutant of ConfirmOrder: the draft stays when the order has been created.
ConfirmAndKeep ==
  LET d == bot.draft IN
  /\ Confirming("order")
  /\ bot.text.say = "/confirm" /\ May(bot.from)
  /\ created' = [created EXCEPT ![d.no] = @ + 1]
  /\ Answer(Done)
  /\ UNCHANGED <<account, order, users, counters, faults>>

ConfirmOrder ==
  LET d == bot.draft IN
  /\ Confirming("order") /\ Confirmed(Done)
  /\ created' = [created EXCEPT ![d.no] = @ + 1]
  /\ UNCHANGED <<account, order, users, counters>>

\* Mutant of ConfirmUser: the answer has no password.
ConfirmUserOnly ==
  LET n == bot.draft.no IN
  /\ Confirming("user") /\ users[n] = "none"
  /\ Confirmed(Done)
  /\ users' = [users EXCEPT ![n] = "made"]
  /\ UNCHANGED <<account, order, created, counters>>

\* Logins are unique.  The password exists in this answer only.
ConfirmUser ==
  LET n == bot.draft.no IN
  /\ Confirming("user") /\ users[n] = "none"
  /\ Confirmed([Done EXCEPT !.password = n])
  /\ users' = [users EXCEPT ![n] = "made"]
  /\ UNCHANGED <<account, order, created, counters>>

\* What UpdateOrder is sent.  The date is the text of the draft, "02.01.2006 15:04".
Written(d) == [f \in DetailSteps |->
                 IF d.fields[f] = "kept" THEN d.shown[f] ELSE order.version + 1]

\* Mutant of ConfirmEdit: the order is edited in the version it has.
ConfirmEditOfAny ==
  LET d == bot.draft IN
  /\ Confirming("edit")
  /\ Confirmed(Done)
  /\ order' = [version |-> order.version + 1, row |-> Written(d), seconds |-> FALSE]
  /\ UNCHANGED <<account, created, users, counters>>

\* UpdateOrder with the version shown when the dialog began.
ConfirmEdit ==
  LET d == bot.draft IN
  /\ Confirming("edit") /\ d.version = order.version
  /\ Confirmed(Done)
  /\ order' = [version |-> order.version + 1, row |-> Written(d), seconds |-> FALSE]
  /\ UNCHANGED <<account, created, users, counters>>

\* SET or DEL.  When it fails it may have been done or not.
Store ==
  /\ bot.at = "store"
  /\ \/ /\ draft' = [draft EXCEPT ![bot.from] = bot.next]
        /\ Answer(bot.reply) /\ UNCHANGED faults
     \/ /\ draft' \in {draft, [draft EXCEPT ![bot.from] = bot.next]}
        /\ Answer(Again) /\ Fault
  /\ UNCHANGED <<services, updates, memory, view, counters>>

Told ==
  /\ view' = IF bot.reply.again THEN view ELSE [view EXCEPT ![bot.from] = bot.reply.ask]
  /\ users' = [n \in 1..MaxDialogs |-> IF n = bot.reply.password THEN "told" ELSE users[n]]

\* sendMessage.
Tell ==
  /\ bot.at = "tell" /\ Told
  /\ bot' = Idle
  /\ UNCHANGED <<account, order, created, store, updates, memory, counters, faults>>

\* It fails, whether or not the message arrived: "try again" is sent instead, once.
TellFails ==
  /\ bot.at = "tell" /\ Fault
  /\ Told \/ UNCHANGED <<view, users>>
  /\ IF bot.reply.again THEN bot' = Idle ELSE Answer(Again)
  /\ UNCHANGED <<account, order, created, store, updates, memory, counters>>

Handle == \/ Poll \/ Read \/ Command0 \/ Begin \/ Step \/ Refuse
          \/ ConfirmOrder \/ ConfirmUser \/ ConfirmEdit \/ Store \/ Tell

World == \/ \E p \in People : Write(p) \/ Expire(p) \/ SetPermissions(p)
         \/ EditElsewhere \/ PollFails \/ TellFails \/ Restart

Next == Handle \/ World

Spec == Init /\ [][Next]_vars
FairSpec == Spec /\ WF_vars(Handle)

-----------------------------------------------------------------------------
(* Properties *)

Replies == [ask : Questions \union {Nothing}, again : BOOLEAN, password : Nat]

\* The dialog of a draft is one that was begun, and a draft is at a step of its kind.
TypeOK ==
  /\ account \in [People -> {"none", "performer", "admin"}]
  /\ order \in [version : Nat, row : [DetailSteps -> Nat], seconds : BOOLEAN]
  /\ created \in [1..MaxDialogs -> Nat]
  /\ users \in [1..MaxDialogs -> {"none", "made", "told"}]
  /\ draft \in [People -> Drafts \union {NoDraft}]
  /\ \A p \in People : draft[p].no <= dialogs
  /\ \A i \in DOMAIN updates : updates[i].from \in People /\ updates[i].text \in Texts
  /\ past \in 0..fetched /\ fetched \in 0..Len(updates)
  /\ bot.at \in {"poll", "work", "store", "tell"} /\ bot.from \in People \union {"none"}
  /\ bot.draft \in Drafts \union {NoDraft} /\ bot.next \in Drafts \union {NoDraft}
  /\ bot.reply \in Replies
  /\ view \in [People -> Questions \union {Nothing}]
  /\ dialogs \in 0..MaxDialogs /\ faults \in 0..MaxFaults /\ edits \in 0..MaxEdits

\* CreateOrder has no idempotency key and is not in one transaction with the DEL of
\* the draft.  A draft still creates one order, and a second one only if something
\* failed: each failure is worth one more at most.
CopiesNeedAFault == \A n \in 1..MaxDialogs : created[n] <= 1 + faults

Misplaced(d) == {f \in Fields : d.fields[f] = "other"}

\* Answers are kept under the question they were given to.  The first failure
\* misplaces two at most: an answer handled again (Telegram keeps what the offset it
\* was last sent is not past), and the one written before the bot asked anew.
AnswersInPlace ==
  \A p \in People : faults <= 1 => Cardinality(Misplaced(draft[p])) <= 2 * faults

\* A password is sent once and kept nowhere: a user whose password nobody was told
\* is one whose creation, DEL or message failed.
PasswordsTold ==
  Cardinality({n \in 1..MaxDialogs : users[n] = "made" /\ bot.reply.password # n}) <= faults

\* README.md:100: "-" leaves the present value.  An edit takes many messages, in which
\* others change the order.  A field answered with "-" keeps what the order has when
\* the edit is saved; a date that has seconds keeps its minute only.
KeptFieldsKept ==
  [][order' # order /\ bot' # bot =>
       \A f \in DetailSteps : bot.draft.fields[f] = "kept" =>
         /\ order'.row[f] = order.row[f]
         /\ f = "date" /\ ~order.seconds => ~order'.seconds]_vars

Cancelling(p) == \E i \in past + 1 .. Len(updates) :
                   updates[i].from = p /\ updates[i].text.say = "/cancel"

\* README.md:102: /cancel works at any moment.  It ends a dialog, even one whose
\* draft is too long to be read, once nothing fails any more.
CancelEndsDialog ==
  \A p \in People : Cancelling(p) /\ faults = MaxFaults ~> draft[p] = NoDraft

\* Every update is dealt with, also those of a dialog that cannot go on.
UpdatesHandled == \A p \in People : Pending(p) ~> ~Pending(p)
=============================================================================
