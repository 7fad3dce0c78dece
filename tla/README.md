# AgencyBot in TLA+

AgencyBot lets an agency plan orders and tell its performers about them over
Telegram. It is a handful of Go services with a PostgreSQL database each, joined
by gRPC calls and by events that travel through outbox tables and Kafka. This
directory holds TLA+ models of the parts that decide whether it works when
things happen at the same time or fail half-way, the TLC configurations that
check them, and proofs that TLAPS checks about all of them.

Run from this directory: `tlc -config order_safety.cfg MC_OrderService.tla`,
`tlapm OrderServiceProofs.tla` (and the other `*Proofs` modules).
Paths below are relative to the repository.

## The system

| Part | State | Operations | Talks to |
| --- | --- | --- | --- |
| order-service (`internal/order`) | tables `orders`, `order_performers`, `order_history`, `outbox_events` | create, update, change status, assign, unassign; get, list, history | user-service (is this an active performer?), its database |
| user-service (`internal/user`) | tables `users`, `telegram_link_tokens`, `outbox_events` | create, update, enable, disable, bind Telegram, create and redeem link tokens, authenticate | its database |
| outbox workers (`internal/outbox`, one program for each service) | the `outbox_events` rows they lock and mark | every second: take a batch, produce it, mark it | database, Kafka |
| notification-service (`internal/notification`, `cmd/notification-service`) | `processed_events`, `notification_recipients`, `notifications`; offsets of the consumer group | consumer loop; dispatcher, every three seconds | Kafka, database, Telegram |
| bot-service (`internal/bot`) | drafts in Redis (30 minutes), the update offset in memory | commands and dialogs, `/confirm`, `/cancel` | Telegram, Redis, both services |
| gRPC calls (`gen/go/*/v1/*_grpc.pb.go`, `internal/auth`, `internal/*/transport`) | the token a call carries; a counter | authenticate, check rights and arguments, answer with a code | the bot, both services |
| main programs (`cmd`) | the pool of connections, the server's calls | start, serve, shut down | their service |
| configuration, health checks | none | | |

How they interact: a command in the bot becomes a gRPC call; the service changes
its rows and inserts an event in the same transaction; the outbox worker moves
the event to `users.events` or `orders.events`; notification-service keeps its
own copy of who is reachable under which chat, makes one notification per
performer of an order event and sends the pending ones.

### What is hard about it, and what makes each part correct

* **order-service.** A handler reads the order in two queries *outside* any
  transaction, checks that copy (status transition, expected version), asks
  user-service, computes the audit diff and the recipients of the event, and only
  then opens a READ COMMITTED transaction. Any number of other handlers commit in
  between. Correct means: a change replaces exactly the version the client named;
  a finished order stays finished although no SQL statement checks the status;
  audit log and events tell the changes that happened; assign and unassign, which
  carry no version, still leave a team that the events explain; nobody waits for
  ever. In short: handlers look atomic.
* **outbox worker.** It produces inside a transaction that can still roll back,
  and rows become visible in another order than `created_at` says. Correct means:
  nothing marked that is not in the topic, duplicates only after failures, no row
  worked on by two workers, causes before effects, everything published in the end.
* **notification-service.** Records come again (repeated batches, uncommitted
  offsets), records that fail are passed, the process restarts between any two
  steps, chats are read before they are used. Correct means: an offset never
  passes an unhandled record, an old event never undoes a newer one, a message is
  repeated only after a failure, every record is consumed, and a notification that
  can be delivered is delivered.
* **user-service.** Bindings by password and by token race for users, chats and
  tokens. Correct means: one user per chat, one binding per token, events from
  which another service can know who is active where.
* **Lists.** The query takes a page of ids, each order is then read on its own,
  and filters come after the LIMIT. Correct means: an order that belongs in the
  answer and has room in it is shown.
* **bot-service.** One goroutine, but a conversation in Redis that outlives
  restarts, an offset that does not, and `/confirm` as several calls that can fail
  one by one. People answer the question they saw last, which need not be the one
  the draft is at. Correct means: one order per draft unless something failed,
  answers under their questions, no password lost without a failure, fields left
  alone in an edit as the order has them, `/cancel` always works, no update is left.
* **gRPC calls.** The bot copies a person's rights into a token; the service trusts
  the copy, passes the token on to user-service, which looks at its expiry again,
  and turns errors into codes after the transaction is over. Correct means: what was
  checked was true when it mattered, "refused" means nothing happened, every call
  is counted.
* **Main programs.** Calls without deadline share a pool, lists hold one connection
  and wait for another, and SIGTERM comes at any time. Correct means: calls end,
  the shutdown ends, and cuts nothing off that keeps within its time.

The full list, with lines, is under `hazards` in `PROJECT.json`.

## Modules

| Module | Models | Checked by |
| --- | --- | --- |
| `OrderLifecycle` | what order-service promises: atomic operations on an order | refined by `OrderService` |
| `OrderService` | `internal/order/app/service.go`, `repository/postgres.go`: the handlers, interleaved | `order_safety`, `order_audit`, `order_told` |
| `OutboxWorker` | `internal/outbox/worker.go` and the transactions that write its rows | `outbox` |
| `NotificationService` | `internal/notification/service.go`, the loop in `cmd/notification-service/main.go` | `notify_recipients`, `notify_deliver` |
| `OrderListing` | `List` in `postgres.go`, the filters in `transport/grpc.go` and `internal/bot/service.go` | `list_few` |
| `UserDirectory` | what user-service promises: atomic changes of users and link tokens | refined by `UserService` |
| `UserService` | the transactions of `internal/user/repository/postgres.go` | `user_safety`, `user_inverted` |
| `BotDialogs` | `internal/bot/service.go`, `draft.go`, `telegram.go`, and the people who write | `bot_dialogs` |
| `ServiceCalls` | a call from the bot through stub, handler, interceptors and transport of either service | `calls` |
| `ServiceProcess` | `cmd/order-service/main.go`, `cmd/user-service/main.go`, and the calls around their pool | `process` |
| `*Proofs` | theorems about the module of that name | TLAPS |

Every `MC_*` module only names the model values of one of these and builds the
event sets and symmetry for TLC. A definition called "Mutant of X" stands before
X and is X with a plausible bug; it is not part of the model. It documents which
mistake a property would catch.

### OrderService

`orders`, `performers`, `history` and `outbox` are the *committed* rows.
Everything a transaction writes becomes visible in one action, `Commit`; what is
locked before that is read off `pc = "commit"`. The actions follow a handler:

| Action | Code |
| --- | --- |
| `Accept` | the request reaches `Service.Create/Update/ChangeStatus/Assign/Unassign`; create validates here |
| `GetOrder`, `GetTeam` | the two queries of `store.Get`; after the second the service's own checks (`Passes`) |
| `Lookup` | `IsActivePerformer`, a call to user-service that may say no |
| `Begin` | `pool.Begin`: `now()` is fixed, hence every `created_at` of the transaction |
| `Exec` | the UPDATE, INSERT or DELETE: waits for row locks (`Waits`), then decides on the committed row (`Applies`): the SQL compares versions (`WhereVersion`), of an update with the version the request names, of a status change with that of the row read |
| `Commit` | history row, outbox row, COMMIT |
| `Fail` | any error that is not the service's decision: query, connection, deadline, process |

Data: location, amount and comment, the fields the diff compares, are one value
`audited`; date and customer are `other`. `Stored` is what NUMERIC(14,2) makes of
a value: "a9" is read back as "a1". A diff is one (old, new) pair. A request with
a status the transport's map does not know has `NoStatus`. `HonestClients`
restricts requests to versions the order has already had; two properties need it
and the rest are checked and proved without it.

A DELETE does not wait for the uncommitted INSERT of the same performer, because
it does not see it; an INSERT does wait for either, because of the primary key.
That asymmetry is in `Waits`.

### OutboxWorker

A row is written in two actions, `BeginWrite` (fixes `created_at`) and
`CommitWrite` (makes it visible). A worker polls (`FOR UPDATE SKIP LOCKED`, oldest
first, LIMIT), produces and marks row by row inside its transaction, and commits
the batch. `ProduceFails` covers a refused record, one that was appended without
an answer and a failing UPDATE; `Crash` everything else. Either rolls back all
marks of the batch. `attempts` is incremented in the transaction that is then
rolled back, so it never says anything and is not modelled.

### NotificationService

`log` is what the outbox workers appended, in an arbitrary order and with
repetitions; `position` is what franz-go fetches next, `committed` the group's
offset. `Process` is one database transaction with its deduplication insert;
`CommitOffset` the commit after it, so a restart fits between the two. `Skip` is
the record whose processing failed: the loop logs and goes on. `Select` reads the
dispatcher's batch with its chats; `Send`, `SendFails` and `DispatchFails` are the
outcomes of each send. Consumer and dispatcher interleave freely.

### OrderListing

`Orders` and `OrdersDate` run the query, `Read` gets one order
of the page as it is then, `Filter` puts one order that was read to the filter, at the
time it is then, and `Reply` answers. Between them `Create`, `Edit` and `Tick` change
orders and the time. `Edit` allows any change at any time: for a reader that is more
than order-service allows, so what holds here holds there. Dates and the time are
instants of one clock, `DayLength` of which are a day: `/orders` compares instants,
`/ordersdate` days. `steady` is the set of orders that belonged in the answer
from the query on, the ones a reader has a right to see.

### UserService

A transaction takes locks in the order of its statements: the token (`LockToken`,
FOR UPDATE), the user row (`LockRow`), the entry of the unique index on
`telegram_id` (`CheckUnique`), and then commits. `inTime` are the tokens whose
`expires_at` lay after the transaction's `now()`. Creating a link is one INSERT.
Requests name what somebody can know: a token that was handed out, and no id whose
creation is still under way.
Requests that change neither chat nor activity are one operation, "other".
`Directory` maps the tables to `UserDirectory`: a user is its row, a link its token
without the expiry, which only takes redemptions away.

### BotDialogs

Handling an update is four steps, because any of them can fail and the process can
stop between any two: `Read` (the offset moves, `/cancel` or the draft is loaded),
the work of the handler, `Store` (SET or DEL) and `Tell`.

| Action | Code |
| --- | --- |
| `Poll`, `PollFails` | `getUpdates` with the offset: Telegram drops what the offset is past |
| `Read` | the loop of `Run`, `handle` up to `drafts.Load` |
| `Begin`, `Command0` | `startDraft`, `startUserDraft`, `startEditDraft`; every other command |
| `Step` | one question of `handleDraft`, `handleUserDraft`, `handleEditDraft`; `Fits` is what can be parsed there, `Take` the field it goes to |
| `ConfirmOrder`, `ConfirmUser`, `ConfirmEdit`, `Refuse` | the three `confirm*` functions: the service did it, or refused, or did it and its answer is lost |
| `Store`, `Tell`, `TellFails` | `drafts.Save`/`Delete`, `telegram.Send`, and the "try again" of `Run` |
| `Write`, `Expire`, `SetPermissions`, `EditElsewhere`, `Restart` | people, Redis, admins, other editors, the process |

A text is an answer with the question it was *meant for*, so a field holds an answer
to its own question, to another one, or (after "-") what it had. The date of an order
is a minute and whether it has `seconds`: an edit passes the date through a format of
minutes (`service.go:261` and `:324`), so saving it drops them, also when the date was
kept. Orders the bot makes have none; others can. A person writes
again when the bot is done with the last message. `long` says that a draft exceeds
what one `reader.Read` returns (`draft.go:99`): such a draft can never be loaded
again, only cancelled. Two reads of different drafts by one person do not race: the bot
is one goroutine.

### ServiceCalls

One call from the message to the answer: `Lookup` (`userForTelegram`), `Send`
(`auth` and the stub), `Arrive` (handler, metrics and authentication interceptor),
`HandleOrder` or `HandleUser` (the method up to its service or the database),
`ReadOrder` (the `store.Get` with which updates, status changes, assignments and
unassignments begin: a missing order is told before the fields or the performer are
looked at), `AskUser` (`IsActivePerformer`, one performer at a time), `Query` or `Change` with `Reread`,
`Count` (the metrics interceptor on the way back), `Receive`. `Lose` is a connection
that breaks on either leg. Methods are data: `Required`, `Naming`, `ReadFirst`, `Unread`,
`Invalid` and `RefusedWith` are tables of what each method requires, whom it asks about,
whether it begins with a read, whether its reply is read from the database and with
which codes it is refused. "Internal" is a refusal too where nobody translates what
the database objects to: a performer who is on the order already, an amount that is no
NUMERIC(14,2), a login that is taken, a link for no user. The change
itself is in `OrderService` and `UserService`; here only what it does to rights and
to who is active matters, because other calls are under way. `held`, `seen` and
`steady` record the past for the properties and guard nothing.

### ServiceProcess

`proc` follows `main`: pool, listener, `Serve`, the signal, `GracefulStop` beside a
timer of ten seconds, `Stop`, and the deferred `pool.Close`. A call is a number of
queries; a plain one holds a connection during a query, a list holds one from its
first query to its end and needs another for each row. Callers set no deadline, so a
call's context dies only by its caller or by `Stop`.

## What is checked

| Run | Instance | Shows |
| --- | --- | --- |
| `order_safety` | 3 handlers, 1 order, 2 performers, any expected version in 0..3, 4 transactions | optimistic locking (`ExpectedVersionHonoured`), finished stays finished (`TerminalIsFinal`), version = 1 + audited changes (`VersionCountsChanges`), the audit log explains the status (`StatusAudited`), assign/unassign events replay to the team (`TeamReplay`), and the handlers implement `OrderLifecycle` (`ImplementsLifecycle`) |
| `order_audit` | 2 handlers, 1 order, 3 contents of which two are the same amount, honest clients, 3 transactions, fairness | diffs form a chain that ends at the row (`AuditTrail`), history sorts in version order (`HistoryOrdered`), every handler returns (`CallsReturn`) |
| `order_told` | 2 handlers, 1 performer | **violation** of `EveryPerformerTold` |
| `outbox` | 3 rows, 2 workers, batches of 2, 1 fault, fairness | no loss (`PublishedIsInTopic`), `BatchesDisjoint`, `CopiesHaveACause`, `CausalOrder` while workers do not overlap, `EventuallyPublished` |
| `notify_recipients` | the life of one user in 4 events, up to 5 records, 2 faults | repeats and re-reads never take a recipient back (`RecipientsFollowTopic`) |
| `notify_deliver` | 2 orders, 2 performers, an undecodable record, a chat that refuses, 1 fault, fairness | `PassedIsHandled`, `DeliveryMatchesMark`, `RecordsConsumed`, `PendingIsSent` |
| `list_few` | 3 orders, 3 instants on 2 days, pages of 2, 1 edit | when the page left no row out, nothing that belongs is missing but an order of `/orders` that was moved on after it was read and before its old date came (`FewAllShown`) |
| `user_safety` | 2 handlers, 2 users, 2 chats, 1 token, 5 transactions | `OneUserPerChat`, `TokenBindsOnce`, events in commit order tell the rows (`EventsTellUsers`), and the transactions implement `UserDirectory` (`ImplementsDirectory`) |
| `user_inverted` | 2 handlers, 1 user, 3 transactions | **violation** of `OutboxOrderTellsActive` |
| `bot_dialogs` | 1 person, all three dialogs, 2 drafts, 1 fault, 1 change elsewhere, fairness | `CopiesNeedAFault`, `AnswersInPlace`, `PasswordsTold`, `KeptFieldsKept`, `CancelEndsDialog`, `UpdatesHandled` |
| `calls` | 2 calls together, 3 in all, 7 methods, 1 performer, tokens of 1 tick, 1 fault | checks were true (`RightsHeld`, `TeamChecked`), codes are true (`CodesTell`, `InvalidHasACause`), `AllCounted` |
| `process` | 3 callers, 2 connections, 3 calls of up to 3 queries, 1 fault, fairness | `GracefulIsWhole`, `CallsEnd` unless lists use up the pool, `ShutdownEnds` |

### Why the bounds are enough

* Orders do not interact: each action names one order and the locks, rows and
  versions of that order. One order is the interesting instance; the proofs cover
  any number. Four transactions are a create and three that race, or a finish
  between two edits; three handlers give two that race and a third that already
  waits. Two performers tell "the one assigned" from "another one".
* A batch of two out of three rows leaves one behind, and has a row produced before
  and one after a failure. Two workers are an old and a new process at a deployment.
* Five records from four events leave one repetition for every event; two faults
  are a failed offset commit and a restart, or two restarts.
* Pages of two on three orders reach the LIMIT and stay below it. Three instants with
  days of two are two on one day and one on the next: time passes within a day and
  over midnight, before a date and after it. One edit already moves an order between
  its read and its filter (without `MovedOn` the property fails in this run).
* Two chats and two users are the least that can swap; five transactions are two
  creates and three bindings.
* Two drafts of one person are an abandoned dialog and the next, or a copy; one
  failure already repeats an update, loses an answer or stops the process between any
  two steps, and the theorems cover any number. Dialogs of two people share nothing
  but the order that is edited, and `EditElsewhere` is the other editor.
* Seven methods are one of each shape: names performers, names one after it has read the
  order, reads, changes rights, changes who is active (both ways), needs no token. A third call sees what two have done. A
  token of one tick expires between any two steps.
* Three callers and two connections let two lists use up the pool while a third call
  waits; three queries are a list with two rows.

`MaxTx`, `MaxFaults`, `MaxLog`, `MaxEdits`, `MaxCalls`, `MaxTime`, `MaxDialogs` and
`MaxQueries` bound counters only; they appear as guards where a request, fault,
record, edit, dialog or tick comes in and nowhere else.

Symmetry is used in the runs without liveness properties only, over calls,
performers, orders, users and chats that the modules treat alike.

### Fairness

* `OrderService`: a running handler continues (weak fairness of `Step`). A statement
  that waits for a row lock gets it (strong fairness of `Exec`): PostgreSQL queues
  the waiters of a row. Nothing forces a request to arrive.
* `OutboxWorker`: `Run` calls `Process` every second for ever (weak fairness of
  `Step`). Faults are bounded, which is the assumption that the broker and the
  database answer in the end. Services need not write.
* `NotificationService`: both goroutines loop. Fetches take turns among topics with
  records, hence strong fairness for each topic. An error of the dispatcher
  is a step of it, so only boundedly many faults, not fairness, keep it from
  failing for ever; a chat that refuses does so for ever. A send that never
  returns is excluded: the code has no timeout there (see hazards).

* `BotDialogs`: the bot's goroutine goes on (weak fairness of `Handle`, every step of
  it except failures). Nobody has to write.
* `ServiceProcess`: `main` with `GracefulStop` and the timer goes on (weak fairness of
  `Main`; that main starts and drains at all, not which of the two outcomes), and so
  does each call that can (weak fairness of its `Step`: the pool serves those who wait,
  PostgreSQL answers). Nothing makes a signal or a call come, a query fail or a caller
  go away.

Deadlock is checked except for notification-service, which really has nothing to
do when its topics are read and nothing is pending, and for `process`, which ends.
In the other modules `Quiesce`
and `Idle` say when the bound, not a wait, ends a behaviour. That handlers of
order-service do not wait in a circle is what `CallsReturn` says: `Fail` is not
fair, so the behaviours in which nothing fails have to reach the end as well.

### Where the code and its README disagree

Two disagreements have a run that shows them:

1. **`order_told`.** `README.md:83`: a performer is notified when their order changes.
   `service.go:62` and `:75` take the recipients from the read before the
   transaction: one whose assignment commits in between is not told of the change.
2. **`user_inverted`.** `README.md:117`: notifications go to active performers. The
   worker publishes by `created_at`, the start of transactions: an enabling that begins
   after a disabling of the same user and commits before it is published after it, and
   the disabled user is notified. `EventsTellUsers` shows that the events themselves are
   right in the order of commits.

Others are met in the condition under which a property holds:

3. `README.md:100`: "-" leaves the present value. An edit copies the date in the format
   `02.01.2006 15:04` and sends it back: a date that was kept loses its seconds, which
   an order made over gRPC can have (`seconds` in `KeptFieldsKept`, which says that it
   keeps its minute, and all of it if it has none).
4. `README.md:117`: the `*.dlq` topics are for failed messages. No code writes to them;
   the offset of the next record passes the failed one for good (`Skip`, and "skipped"
   in `PassedIsHandled`).
5. The 50 oldest pending notifications are selected and a failed one stays pending for
   ever: rows for chats that refuse fill the batch and nobody else is notified
   (`Crowded` in `PendingIsSent`).
6. `README.md:79`: `/orders` shows one's active orders. The LIMIT comes before the
   filter and the oldest come first: past orders crowd out active ones, and
   `/ordersdate` sees the first 100 orders only (`few` in `FewAllShown`). And the filter
   takes an order as it was read and the time as it is then: one that was moved to a
   later date in between is left out if its old date has just passed (`MovedOn`).
7. Lists that read their rows while they hold a connection can use up the pool and
   then wait for each other until their callers go away (`Starved` in `CallsEnd`).
8. `README.md:106`: the services check permissions. The transport of user-service checks
   that a token is valid and no permission (`user/transport/grpc.go:48`-`92`); the bot
   looks at the rights before it calls. `RightsHeld` is about order-service only
   (`Required` has its methods alone).

And a few the models only pass by: after a refused `/confirm` the bot says to start
anew with `/neworder`, but the draft is still at its last question, which takes only
`/confirm` and `/cancel` (`service.go:395`; `Refuse` keeps the draft); `startDraft`
still asks for `/start <code>`; commands inside a dialog are taken as answers; the
`page_token` of lists compares ids while the rows are sorted by date; the reply to
CreateOrder has version 0; a login that is taken is an Internal error; when `Serve`
returns with an error the process stays and its health checks answer OK.

What holds beside the first two is checked too: `TeamReplay` and `EventsTellUsers`.

## What is proved

Each theorem holds for every value of the constants: any number of handlers,
workers, orders, users, chats, rows, people, calls and faults, any expected versions,
any bound.

| Module | Theorem | Says |
| --- | --- | --- |
| `OrderServiceProofs` | `TypeCorrect` | `Spec => []TypeOK` |
| | `Safety` | `Spec => []SafeInv`, the inductive invariant |
| | `VersionHonoured` | `Spec => ExpectedVersionHonoured` |
| | `FinalStatus` | `Spec => TerminalIsFinal` |
| | `Implementation` | `Spec => ImplementsLifecycle`, that is, `OrderLifecycle!Spec` |
| | `AuditComplete` | `Spec => []VersionCountsChanges` |
| | `AuditExplainsStatus` | `Spec => []StatusAudited` |
| | `TeamFromEvents` | `Spec => []TeamReplay` |
| | `HistoryInOrder` | `Spec => []HistoryOrdered` |
| | `AuditTrailUnbroken` | `Spec => []AuditTrail` |
| `OutboxWorkerProofs` | `TypeCorrect` | `Spec => []TypeOK` |
| | `NothingLost` | `Spec => []PublishedIsInTopic` |
| | `NoSharedRows` | `Spec => []BatchesDisjoint` |
| | `CopiesExplained` | `Spec => []CopiesHaveACause` |
| | `CausesFirst` | `Spec => []CausalOrder` |
| `NotificationServiceProofs` | `NotificationsCorrect` | `Spec => []Inv`, the inductive invariant |
| | `TypeCorrect` | `Spec => []TypeOK` |
| | `NothingPassedOver` | `Spec => []PassedIsHandled` |
| | `MarksAreTrue` | `Spec => []DeliveryMatchesMark` |
| | `RecipientsAreTold` | `Spec => []RecipientsFollowTopic` |
| `OrderListingProofs` | `TypeCorrect` | `Spec => []TypeOK` |
| | `ListsCorrect` | `Spec => []Inv`, the inductive invariant |
| | `FewShown` | `Spec => FewAllShown` |
| `UserServiceProofs` | `TypeCorrect` | `Spec => []TypeOK` |
| | `ChatsUnique` | `Spec => []OneUserPerChat` |
| | `TokensBindOnce` | `Spec => []TokenBindsOnce` |
| | `EventsTell` | `Spec => []EventsTellUsers` |
| | `Implementation` | `Spec => ImplementsDirectory`, that is, `UserDirectory!Spec` |
| `BotDialogsProofs` | `TypeCorrect` | `Spec => []TypeOK` |
| | `DraftsCorrect` | `Spec => []Inv`, the inductive invariant |
| | `CopiesCaused` | `Spec => []CopiesNeedAFault` |
| | `KeptFields` | `Spec => KeptFieldsKept` |
| | `PasswordsKept` | `Spec => []PasswordsTold` |
| | `AnswersKept` | `Spec => []AnswersInPlace` |
| `ServiceCallsProofs` | `CallsCorrect` | `Spec => []Inv`, the inductive invariant |
| | `TypeCorrect` | `Spec => []TypeOK` |
| | `RightsWereHeld` | `Spec => []RightsHeld` |
| | `TeamWasActive` | `Spec => []TeamChecked` |
| | `CodesAreTrue` | `Spec => []CodesTell` |
| | `InvalidCaused` | `Spec => []InvalidHasACause` |
| | `CallsCounted` | `Spec => []AllCounted` |
| `ServiceProcessProofs` | `TypeCorrect` | `Spec => []TypeOK` |
| | `GracefulShutdown` | `Spec => []GracefulIsWhole` |
| | `OnlyListsStarve` | `Spec => [](Starved => Cardinality(Lists) >= MaxConns)` |

Every invariant, action property and refinement the passing runs check is a theorem,
and so is `TypeOK` of every module; only `bot_dialogs` and `process` check theirs with TLC too.

Assumptions: the named ASSUMEs of the modules. In `OrderService`, storing an amount
twice changes nothing more, `NoBody` and `BadBody` are not contents and versions are
numbers; in `UserService` and `NotificationService`, the names that stand for "no
user", "no chat" and "the event does not say" name nothing else; events have ids of
their own; in `ServiceCalls` a token lives for at least a tick and the calls
in flight together are finitely many, in `ServiceProcess` the
pool has a connection; in `OrderListing` ids and dates are numbers. Bounds are numbers.

### OrderService

`TypeOK` is not inductive: that a commit writes well-typed rows
depends on what the handler has checked, so `CallTyped` says what a call holds at
each label. The properties are about commits, but the decisions were made earlier,
on other states. Five facts bridge the gap and with `TypeInv` form `SafeInv`:

* `LocksExclude`: no two calls past `Exec` wrote the same row (this is what `Waits`
  is for);
* `LockedRowsKept`: hence what a statement found, `Applies`, still holds at its commit;
* `CreatesFresh`: the id of a create in flight is its own;
* `SnapshotsPast`: a version number determines status and contents, so a read with
  the present version is the present row, however old it is;
* `StatusChecked`: a status change that passed its checks read PLANNED under exactly
  the version it names.

The last two with `LockedRowsKept` give: when a status change commits, the version is
the one it read, so the status is still PLANNED. That is why a finished order is safe
although no statement looks at the status: the UPDATE names the version of the row the
service read (`WhereVersion`), and without that comparison two handlers that have both
read PLANNED finish the order twice. The service's own comparison of the version
the client expects is what `ExpectedVersionHonoured` needs for status changes. `Implementation` maps each `Commit` to
one step of `OrderLifecycle` and every other action to a stutter. The audit theorems
add `AuditInv`, which counts rows of a history when one is appended (`AppendRows`).

Two more invariants are about changes that raced. `TeamInv`: the events about a performer
alternate and the last one says whether the performer is on the team, and an order
that does not exist has no team. A commit of an assignment appends an addition exactly
when the performer was absent, because the lock its statement took (or waited for)
keeps the row as `Applies` found it; `OneMore` is the step of such an alternation.
`TrailInv` is about honest clients. `Founded`: a history begins with the creation.
`Honest`: a versioned call names a version no newer than the order had when it arrived,
so if that is still the version at its commit, every earlier row is older than the start
of the call's transaction. That is what makes `created_at` sort as commits do, and what
makes the unlocked read the diff was taken against the row it replaces. Without
honesty both fail: a client that guesses the next version can overtake.

### OutboxWorker

`PublishedIsInTopic` needs to know of the marks that are not committed yet:
`MarkedInTopic`, a worker has marked only what it has produced. With
`BatchesDisjoint` that is inductive. For the copies, `CopiesCounted` allows a row
one copy for its mark and one for each fault: producing marks, and whatever takes
marks away is a fault. For the order, `BatchClosed` says that whatever precedes a
row of a batch is published or in the same batch. A poll establishes it only if no
other worker holds rows, which is why the property speaks of `overlap`: with a second
worker the earlier row may be in the other batch.

### NotificationService

The property speaks of the committed offset, the invariant of `position`: nothing
behind it is unhandled, so whatever is committed later is right. `SentCounted` says of a
notification that is not marked that it has at most one message for each fault; the mark
takes the one more. The dispatcher's batch may be minutes old, but its rows are still
PENDING, because nobody else marks.

Recipients need more, because a restart moves the position back and records come again.
`ReplayInv`: while no user record is skipped, the processed user events are those
before some offset at or behind which the position is, and each row is what the latest of them
says, "latest" by where the topic has a record *first*. A record that comes again is in
`processed` and does nothing; a new one is later than all of them.

### OrderListing

An order that has belonged in the answer since the query is still in the page to be
read, was read with what lets it pass the filter (`Passing`) or has passed it; of `/orders`
it may also have been outrun by the time (`Outrun`: its date as it was read is past), and
since it still belongs, it has moved to a later date. `AllFirst`: when
there are no more rows than the LIMIT, the page is all of them. `TypeOK` says that a page has no
more rows than its limit (`PageFits`): of a larger set the last row would have at least
the limit before it.

### UserService

What a binding found free must still be free at its commit. `ChatReserved`: once past
the unique index, no other user has the chat and no other call in the same position
wants it. `TokenUnused` with `TokenLocks` says the same of tokens, `RowLocks` of user
rows. `TypeOK` needs from `CallTyped` that a redemption's user is its token's.

`EventsTell` carries the row of each user along with the events (`RowTold`: the
telegram of the last event that has one, the activity of the last event that has one).
One more event changes exactly what its transaction changes (`OneMoreEvent`), because the
first event of a user is a create, which says both: `CreatesFresh`, the id of a create in
flight is nobody's.

`Implementation` maps each `Commit` to one step of `UserDirectory`, or to none when it
changes a name, a password or permissions, and `CreateLink` to itself. The guards of
the abstract steps are what the locks keep true from the check to the commit: a free chat
is `ChatReserved`, an unused token `TokenUnused`, a new user `CreatesFresh`.

### BotDialogs

`Inv` says where drafts are. `Owned`: a draft is in the hands of one person, in Redis
or with the handler, never of two. `Counted`: a draft that can still be confirmed has
created at most as many orders as there were faults, unless it only waits for its DEL;
then, as any draft, at most one more. A second order needs that DEL to fail or the
process to stop before it, and either is a fault. `Queue` keeps the offset within what was
written. For `KeptFields`, `Drafted` says that every
draft is `Fresh`: one of an edit that names the version the order has
shows the order's fields, the date to the minute, so either the version is refused or what was kept with "-" is what
the order has. `PasswordInv` bounds the users whose password is neither told nor on its way
(`Owed`): one is added only by a step that fails.

`TypeInv` adds what `TypeOK` needs of the parts that are not in it: which questions are
asked, which texts wait (`MailTyped`), and that what the handler holds is a draft its
dialog can be in at that step (`HandTyped`, `KeptTyped`).

`AnswersInPlace` counts the answers that one failure has misplaced, `PlacedInv` also those it
can still misplace. Nothing has gone wrong for a person who is `InStep`: one message is
under way at most, and it answers the question that person saw last, which is the one the
draft is at. `Said` keeps the handler's reply and the draft it stores at the same question, and
`Batch` says that without a failure no batch holds two messages of one person. One failure
breaks the step: an update is handled twice, or a draft is stored and its question never
told. From then on `Spare` keeps account: with k messages that can still be misplaced, 2 - k
are at most. A message that is handled spends one; when the handler tells a question, the
person is allowed another only if one is left.

### ServiceCalls

`Current` says what the noted past is worth while a call is under way: the rights of the
moment are in `held`, and `steady` is within the active, the active within `seen`. Every
call has its own conjuncts by position: `Rightful` (past the checks, the token has the
permission the method requires), `Teamed` (those looked up were active, and all were once the
call goes to the database), `Truthful` (a call that made its change has no code of
refusal, and OK only with the change), `Caused` (an "InvalidArgument" has its cause).

`AllCounted` compares the counters with the calls that arrived and those still in the
server. Only `Count` and `Arrive` move a call across that line, each by one (`ServingFinite`
makes the cardinality a number), and only `Count` touches a counter, that of the call's code.

### ServiceProcess

As long as nothing failed and the timer has not rung, no context is cancelled, and the
server is open only while `main` serves and has calls only while it serves or drains. `Stop` is the only
one to cut calls and comes from the timer, so a shutdown that ended without it has
let every call end.

`TypeOK` has the limit of the pool: connections are counted by their holders, and `Acquire`
looks at the count. `OnlyListsStarve`: if
every connection is held by a call that waits for one, the holders are lists, because a plain
call returns its connection before it asks for the next, and a list that waits holds just
one. So it takes as many lists at once as the pool has connections.

### Only model-checked

All liveness (`CallsReturn`, `EventuallyPublished`, `RecordsConsumed`,
`PendingIsSent`, `CancelEndsDialog`, `UpdatesHandled`, `CallsEnd`, `ShutdownEnds`), which
needs fairness and ENABLED. The two properties that are violated are refuted by TLC's
counterexamples.

## What is not modelled

* Later pages of lists (`page_token`), and the reads of `GetOrderHistory` beyond the
  order it sorts in (`HistoryOrdered`).
* What the reply to a change says: `ServiceCalls` has the read and its failure, not the
  contents.
* The bytes of Redis replies: a reply longer than one read fails, a shorter one is
  loaded or fails.
* Password hashing, the signatures of tokens (the tokens are those the bot signs), who
  may log in.
* Conversion to protobuf, the generated messages, configuration, the health-check HTTP
  server, which always answers OK, and the programs `telegram-link-token` and `stub`: no state
  and nothing concurrent.
* Kafka partitions and rebalancing (one partition and one consumer, as deployed), and
  Telegram's own delivery. A record the broker refuses for good, and a send that never
  returns: fairness excludes them, and the code does nothing about them (see hazards).
* Rounding and overflow of NUMERIC(14,2) beyond "what is read back may differ".
* The check of the old password in `ChangePassword`, which is made without a lock.

## Plan

Done, in this order: OrderService with OrderLifecycle and its proofs, OutboxWorker,
NotificationService, OrderListing, UserService, the proofs about OutboxWorker and
UserService; then BotDialogs, ServiceCalls and ServiceProcess with their proofs, the proofs
about NotificationService and OrderListing, those about the audit log and the team in
OrderService, and `EventsTell`; `UserDirectory` and its refinement, and the proofs of what
only runs had shown (`AnswersInPlace`, `AllCounted`, the remaining types).

Left:

1. `EventPipeline`: UserService's outbox, OutboxWorker and the recipients of
   NotificationService composed, to state end to end what `CausalOrder`,
   `EventsTellUsers` and `RecipientsFollowTopic` give together.
2. A record that is refused for good in OutboxWorker, once it is decided what should
   happen to it.
3. Later pages in `OrderListing`; `RespReply`, the reader of `draft.go` over a stream that
   arrives in pieces.
