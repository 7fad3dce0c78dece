---------------------------- MODULE OrderListing ----------------------------
(***************************************************************************)
(* Lists of orders: the query behind ListOrders and ListPerformerOrders    *)
(* (postgres.go List), the filters put on its page afterwards, and the two *)
(* bot commands that show one page, /orders and /ordersdate.  The query    *)
(* takes the first LIMIT ids by date; then each order is read on its own,  *)
(* and when all are read each is filtered on its own: /orders compares its *)
(* date with the time at that moment, /ordersdate its day with the one     *)
(* asked for.  Meanwhile others create, reschedule, reassign and finish    *)
(* orders, and time passes.  Ids are ordered as uuids are; dates and the   *)
(* time are instants of one clock.  That OrderService decides which edits  *)
(* are allowed does not matter to a reader: here each may happen any time. *)
(***************************************************************************)
EXTENDS Naturals, FiniteSets

CONSTANTS
  Ids,       \* order ids
  Dates,     \* instants: the dates an order can have, and the bound of the time
  DayLength, \* instants in a day
  MinePage,  \* PageSize of /orders (20 in the code)
  AllPage,   \* PageSize of /ordersdate (100)
  MaxEdits   \* bound: changes of existing orders

ASSUME ListingAssumption ==
  /\ Ids \subseteq Nat /\ IsFiniteSet(Ids)
  /\ Dates \subseteq Nat /\ DayLength \in Nat \ {0}
  /\ MinePage \in 1..100 /\ AllPage \in 1..100 /\ MaxEdits \in Nat

VARIABLES
  order,   \* order[i]: its status, its date, and whether it is the asker's
  now,     \* the time
  edits,   \* changes of existing orders so far
  cmd,     \* the command being answered: "none", "orders" or "date"
  asked,   \* the day /ordersdate asks for
  few,     \* the query left out no row for its LIMIT
  page,    \* ids of the query's page still to be read
  read,    \* orders of the page as they were read
  due,     \* ids that are read and not yet filtered
  shown,   \* ids that passed the filter
  steady   \* orders that have belonged in the answer ever since the query

answer == <<cmd, asked, few, page, read, due, shown>>
vars == <<order, now, edits, answer, steady>>

NoOrder == [status |-> "NONE", date |-> 0, mine |-> FALSE]
Rows == {i \in Ids : order[i] # NoOrder}
Day(t) == t \div DayLength

\* The filter of ListPerformerOrders, at this moment.
Active(row) == row.status = "PLANNED" /\ row.date >= now

\* What the command's filter lets through, at this moment.
Passes(row) == \/ cmd = "orders" /\ Active(row)
               \/ cmd = "date" /\ Day(row.date) = asked

\* The orders an answer to the command should have.
Wanted == {i \in Rows : Passes(order[i]) /\ (cmd = "orders" => order[i].mine)}

Init ==
  /\ order = [i \in Ids |-> NoOrder]
  /\ now = 0
  /\ edits = 0
  /\ cmd = "none" /\ asked = 0 /\ few = FALSE
  /\ page = {} /\ read = [i \in Ids |-> NoOrder]
  /\ due = {} /\ shown = {} /\ steady = {}

-----------------------------------------------------------------------------
(* Meanwhile *)

\* What others do leaves the answer alone, but can end an order's place in it.
Meanwhile == UNCHANGED answer /\ steady' = steady \cap Wanted'

Create(i) ==
  /\ i \notin Rows
  /\ \E t \in Dates, m \in BOOLEAN :
       order' = [order EXCEPT ![i] = [status |-> "PLANNED", date |-> t, mine |-> m]]
  /\ UNCHANGED <<now, edits>> /\ Meanwhile

Edit(i) ==
  /\ i \in Rows
  /\ edits < MaxEdits /\ edits' = edits + 1
  /\ \/ /\ order[i].status = "PLANNED"
        /\ order' = [order EXCEPT ![i].status = "COMPLETED"]
     \/ \E t \in Dates \ {order[i].date} : order' = [order EXCEPT ![i].date = t]
     \/ order' = [order EXCEPT ![i].mine = ~@]
  /\ UNCHANGED now /\ Meanwhile

Tick ==
  /\ now + 1 \in Dates
  /\ now' = now + 1
  /\ UNCHANGED <<order, edits>> /\ Meanwhile

-----------------------------------------------------------------------------
(* Answering *)

Before(i, j) ==
  order[i].date < order[j].date \/ (order[i].date = order[j].date /\ i < j)

\* Mutant of FirstOf: the page is one order short.
FirstButOne(S, limit) == {i \in S : Cardinality({j \in S : Before(j, i)}) + 1 < limit}

\* ORDER BY order_date, id LIMIT limit.
FirstOf(S, limit) == {i \in S : Cardinality({j \in S : Before(j, i)}) < limit}

\* The query takes the first page of S.
Query(S, limit) ==
  /\ page' = FirstOf(S, limit)
  /\ few' = (Cardinality(S) <= limit)
  /\ UNCHANGED <<order, now, edits, read, due, shown>>
  /\ steady' = Wanted'

\* /orders: ListPerformerOrders of the one who asks.
Orders ==
  /\ cmd = "none"
  /\ cmd' = "orders" /\ UNCHANGED asked
  /\ Query({i \in Rows : order[i].mine}, MinePage)

\* /ordersdate: ListOrders, of which the bot keeps the day asked for.
OrdersDate(d) ==
  /\ cmd = "none"
  /\ cmd' = "date" /\ asked' = d
  /\ Query(Rows, AllPage)

\* store.Get of the next order of the page: it is read as it is now.
Read(i) ==
  /\ i \in page
  /\ page' = page \ {i} /\ due' = due \union {i}
  /\ read' = [read EXCEPT ![i] = order[i]]
  /\ UNCHANGED <<order, now, edits, cmd, asked, few, shown, steady>>

\* The loop over the page once it is read: the order as it was read, the time as
\* it is now.
Filter(i) ==
  /\ page = {} /\ i \in due
  /\ due' = due \ {i}
  /\ shown' = IF Passes(read[i]) THEN shown \union {i} ELSE shown
  /\ UNCHANGED <<order, now, edits, cmd, asked, few, page, read, steady>>

\* The answer goes out; or a query failed and so does the whole command.
Return ==
  /\ cmd' = "none" /\ asked' = 0 /\ few' = FALSE /\ page' = {} /\ steady' = {}
  /\ read' = [i \in Ids |-> NoOrder] /\ due' = {} /\ shown' = {}
  /\ UNCHANGED <<order, now, edits>>

Reply == cmd # "none" /\ page = {} /\ due = {} /\ Return
ListFails == page # {} /\ Return

Next == \/ \E i \in Ids : Create(i) \/ Edit(i) \/ Read(i) \/ Filter(i)
        \/ Tick
        \/ Orders \/ (\E t \in Dates : OrdersDate(Day(t))) \/ Reply \/ ListFails

Spec == Init /\ [][Next]_vars

-----------------------------------------------------------------------------
(* Properties *)

Kinds == [status : {"PLANNED", "COMPLETED"}, date : Dates, mine : BOOLEAN] \union {NoOrder}

\* A page never exceeds the limit its command asked for, and only ids of orders
\* are on it.
TypeOK ==
  /\ order \in [Ids -> Kinds] /\ read \in [Ids -> Kinds]
  /\ now \in Nat /\ edits \in 0..MaxEdits /\ asked \in Nat /\ few \in BOOLEAN
  /\ cmd \in {"none", "orders", "date"}
  /\ page \subseteq Rows /\ steady \subseteq Rows /\ due \subseteq Ids /\ shown \subseteq Ids
  /\ Cardinality(page) <= IF cmd = "orders" THEN MinePage ELSE AllPage

\* Of an order of /orders: the date it was read with is past, the one it has is not.
MovedOn(i) == cmd = "orders" /\ read[i].date < now /\ now <= order[i].date

\* The query and the reads of its orders are not one transaction, and the filter
\* runs later still.  When all rows fit in the page, an answer still has every order
\* that belonged in it all the while, whatever is edited between the query, the
\* reads, the filter and the answer.  Only /orders can miss one, and only one that
\* was moved to a later date after it was read and before its old date came.
FewAllShown ==
  [][Reply /\ few => \A i \in steady : i \in shown \/ MovedOn(i)]_vars
=============================================================================
