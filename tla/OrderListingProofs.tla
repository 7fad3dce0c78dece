-------------------------- MODULE OrderListingProofs --------------------------
(***************************************************************************)
(* Proofs about OrderListing, for any orders, dates, limits and edits.     *)
(***************************************************************************)
EXTENDS OrderListing, FiniteSetTheorems, TLAPS

\* What does not depend on the time lets the row through the filter.
Passing(row) == \/ cmd = "orders" /\ row.status = "PLANNED"
                \/ cmd = "date" /\ Day(row.date) = asked

\* The date an order of /orders was read with is past.
Outrun(i) == cmd = "orders" /\ read[i].date < now

\* Where an order is that belonged when it was read.
Placed(i) == i \in page \/ (i \in due /\ Passing(read[i])) \/ i \in shown \/ Outrun(i)

\* An order that has belonged in the answer all the while still belongs there, and is
\* still to be read, waits for the filter, has passed it, or was outrun by the time.
Inv ==
  /\ now \in Nat /\ asked \in Nat
  /\ order \in [Ids -> Kinds] /\ read \in [Ids -> Kinds]
  /\ cmd = "none" => few = FALSE
  /\ steady \subseteq Wanted
  /\ few => \A i \in steady : Placed(i)

LEMMA DatesTyped ==
  ASSUME NEW f \in [Ids -> Kinds] PROVE \A i \in Ids : f[i].date \in Nat
<1> SUFFICES ASSUME NEW i \in Ids PROVE f[i].date \in Nat
  OBVIOUS
<1>1. CASE f[i] = NoOrder
  BY <1>1 DEF NoOrder
<1>2. CASE f[i] \in [status : {"PLANNED", "COMPLETED"}, date : Dates, mine : BOOLEAN]
  <2>1. f[i].date \in Dates
    BY <1>2
  <2> QED
    BY <2>1, ListingAssumption
<1> QED
  BY <1>1, <1>2 DEF Kinds

-----------------------------------------------------------------------------
(* The query *)

\* ORDER BY ... LIMIT leaves nothing out when there are no more rows than its limit.
LEMMA AllFirst ==
  ASSUME NEW S \in SUBSET Ids, NEW limit \in Nat, Cardinality(S) <= limit,
         \A i \in Ids : order[i].date \in Nat
  PROVE  FirstOf(S, limit) = S
<1> SUFFICES ASSUME NEW i \in S
             PROVE  Cardinality({j \in S : Before(j, i)}) < limit
  BY DEF FirstOf
<1> DEFINE B == {j \in S : Before(j, i)}
<1>1. IsFiniteSet(S) /\ Cardinality(S) \in Nat
  BY ListingAssumption, FS_Subset, FS_CardinalityType
<1>2. ~Before(i, i)
  BY ListingAssumption DEF Before
<1>3. B \subseteq S \ {i}
  BY <1>2
<1>4. IsFiniteSet(S \ {i}) /\ Cardinality(S \ {i}) = Cardinality(S) - 1
  BY <1>1, FS_RemoveElement
<1>5. Cardinality(B) \in Nat /\ Cardinality(B) <= Cardinality(S \ {i})
  BY <1>3, <1>4, FS_Subset, FS_CardinalityType
<1> QED
  BY <1>1, <1>4, <1>5

\* ORDER BY ... LIMIT keeps at most limit rows: no two have the same number of rows
\* before them.
LEMMA PageFits ==
  ASSUME NEW S \in SUBSET Ids, NEW limit \in Nat, \A i \in Ids : order[i].date \in Nat
  PROVE  /\ IsFiniteSet(FirstOf(S, limit))
         /\ Cardinality(FirstOf(S, limit)) <= limit
<1> DEFINE B(i) == {j \in S : Before(j, i)}
           F == FirstOf(S, limit)
           rank == [i \in F |-> Cardinality(B(i))]
<1>1. \A i \in S : IsFiniteSet(B(i)) /\ Cardinality(B(i)) \in Nat
  BY ListingAssumption, FS_Subset, FS_CardinalityType
<1>2. ASSUME NEW i \in S, NEW k \in S, Before(i, k)
      PROVE  Cardinality(B(i)) < Cardinality(B(k))
  <2>1. \A j \in S : j \in Nat /\ order[j].date \in Nat
    BY ListingAssumption
  <2>2. i \notin B(i)
    BY <2>1 DEF Before
  <2>3. \A j \in S : Before(j, i) => Before(j, k)
    BY <1>2, <2>1 DEF Before
  <2>4. B(i) \union {i} \subseteq B(k)
    BY <1>2, <2>3
  <2> HIDE DEF B
  <2>5. Cardinality(B(i) \union {i}) = Cardinality(B(i)) + 1
    BY <1>1, <2>2, FS_AddElement
  <2>6. Cardinality(B(i) \union {i}) <= Cardinality(B(k))
    BY <1>1, <2>4, FS_Subset
  <2> QED
    BY <1>1, <2>5, <2>6
<1>3. F \subseteq S /\ \A i \in F : Cardinality(B(i)) < limit
  BY DEF FirstOf
<1>4. ASSUME NEW i \in S, NEW k \in S, Cardinality(B(i)) = Cardinality(B(k)) PROVE i = k
  <2>1. i \in Nat /\ k \in Nat /\ order[i].date \in Nat /\ order[k].date \in Nat
    BY ListingAssumption
  <2>2. i = k \/ Before(i, k) \/ Before(k, i)
    BY <2>1 DEF Before
  <2> HIDE DEF B
  <2>3. ~Before(i, k) /\ ~Before(k, i)
    BY <1>1, <1>2, <1>4
  <2> QED
    BY <2>2, <2>3
<1> HIDE DEF B, F
<1>5. \A i \in F : Cardinality(B(i)) \in 0..limit - 1
  BY <1>1, <1>3
<1>6. rank \in [F -> 0..limit - 1]
  BY <1>5
<1>7. \A i, k \in F : rank[i] = rank[k] => i = k
  BY <1>3, <1>4
<1> HIDE DEF rank
<1>8. rank \in Injection(F, 0..limit - 1)
  BY <1>6, <1>7 DEF Injection, IsInjective
<1>9. IsFiniteSet(0..limit - 1) /\ Cardinality(0..limit - 1) = limit
  BY FS_Interval
<1>10. IsFiniteSet(F) /\ Cardinality(F) <= limit
  BY <1>8, <1>9, FS_Injection
<1> QED
  BY <1>10 DEF F

LEMMA QueryInv ==
  ASSUME Inv, NEW S \in SUBSET Ids, NEW limit \in Nat, Query(S, limit),
         Wanted' \subseteq S, asked' \in Nat, cmd' # "none"
  PROVE  Inv'
<1>1. /\ page' = FirstOf(S, limit) /\ few' = (Cardinality(S) <= limit)
      /\ UNCHANGED <<order, now, read>> /\ steady' = Wanted'
  BY DEF Query
<1>2. few' => S = page'
  BY <1>1, AllFirst, DatesTyped DEF Inv
<1>3. few' => \A i \in steady' : Placed(i)'
  BY <1>1, <1>2 DEF Placed
<1> QED
  BY <1>1, <1>3 DEF Inv

-----------------------------------------------------------------------------
(* The steps *)

LEMMA InitInv == Init => Inv
BY DEF Init, Inv, NoOrder, Wanted, Kinds, Rows

\* Whatever others do: time may pass, and an order that no longer belongs in the
\* answer is no longer looked for.
LEMMA MeanwhileInv ==
  ASSUME Inv, Meanwhile, now' \in Nat, now' >= now, order' \in [Ids -> Kinds]
  PROVE  Inv'
<1>1. /\ UNCHANGED <<cmd, asked, few, page, read, due, shown>>
      /\ steady' \subseteq steady /\ steady' \subseteq Wanted'
  BY DEF Meanwhile, answer
<1>2. \A row : Passing(row) => Passing(row)'
  BY <1>1 DEF Passing
<1>3. \A i \in Ids : Outrun(i) => Outrun(i)'
  BY <1>1, DatesTyped DEF Outrun, Inv
<1>4. \A i \in Ids : Placed(i) => Placed(i)'
  BY <1>1, <1>2, <1>3 DEF Placed
<1>5. steady \subseteq Ids
  BY DEF Inv, Wanted, Rows
<1> QED
  BY <1>1, <1>4, <1>5 DEF Inv

\* A new order and an edited one are orders of some kind, and no order goes away.
LEMMA ChangeTyped ==
  ASSUME order \in [Ids -> Kinds], NEW i \in Ids, Create(i) \/ Edit(i)
  PROVE  order' \in [Ids -> Kinds] /\ Rows \subseteq Rows'
<1> DEFINE R == [status : {"PLANNED", "COMPLETED"}, date : Dates, mine : BOOLEAN]
<1>1. \E row \in R : order' = [order EXCEPT ![i] = row]
  <2>1. CASE Create(i)
    BY <2>1 DEF Create
  <2>2. CASE Edit(i)
    <3>1. order[i] \in R
      BY <2>2 DEF Edit, Rows, Kinds
    <3>2. \/ order' = [order EXCEPT ![i].status = "COMPLETED"]
          \/ \E t \in Dates : order' = [order EXCEPT ![i].date = t]
          \/ order' = [order EXCEPT ![i].mine = ~@]
      BY <2>2 DEF Edit
    <3> QED
      BY <3>1, <3>2
  <2> QED
    BY <2>1, <2>2
<1>2. \A row \in R : row # NoOrder
  BY DEF NoOrder
<1>3. PICK row \in R : order' = [order EXCEPT ![i] = row]
  BY <1>1
<1>4. order' \in [Ids -> Kinds]
  BY <1>3 DEF Kinds
<1>5. \A j \in Ids : order[j] # NoOrder => order'[j] # NoOrder
  BY <1>2, <1>3
<1> QED
  BY <1>4, <1>5 DEF Rows

\* An order that belongs now is read with what lets it pass.
LEMMA ReadInv == ASSUME Inv, NEW i \in Ids, Read(i) PROVE Inv'
<1>1. /\ page' = page \ {i} /\ due' = due \union {i}
      /\ UNCHANGED <<order, now, cmd, asked, few, shown, steady>>
      /\ read' \in [Ids -> Kinds]
      /\ \A j \in Ids : read'[j] = IF j = i THEN order[i] ELSE read[j]
  BY DEF Read, Inv
<1>2. Wanted' = Wanted
  BY <1>1 DEF Wanted, Rows, Passes, Active
<1>3. i \in steady => Placed(i)'
  BY <1>1 DEF Inv, Wanted, Passes, Active, Placed, Passing
<1>4. \A j \in Ids \ {i} : Placed(j) => Placed(j)'
  BY <1>1 DEF Placed, Passing, Outrun
<1>5. steady \subseteq Ids
  BY DEF Inv, Wanted, Rows
<1> QED
  BY <1>1, <1>2, <1>3, <1>4, <1>5 DEF Inv

\* An order that belonged when it was read passes, unless its date has passed.
LEMMA FilterInv == ASSUME Inv, NEW i \in Ids, Filter(i) PROVE Inv'
<1>1. /\ due' = due \ {i}
      /\ shown' = IF Passes(read[i]) THEN shown \union {i} ELSE shown
      /\ UNCHANGED <<order, now, cmd, asked, few, page, read, steady>>
  BY DEF Filter
<1>2. Wanted' = Wanted
  BY <1>1 DEF Wanted, Rows, Passes, Active
<1>3. Passing(read[i]) => Passes(read[i]) \/ Outrun(i)
  BY DatesTyped DEF Passing, Passes, Active, Outrun, Inv
<1>4. \A j \in Ids : Placed(j) => Placed(j)'
  BY <1>1, <1>3 DEF Placed, Passing, Outrun
<1>5. steady \subseteq Ids
  BY DEF Inv, Wanted, Rows
<1> QED
  BY <1>1, <1>2, <1>4, <1>5 DEF Inv

LEMMA ReturnInv == ASSUME Inv, Return PROVE Inv'
BY DEF Return, Inv, Kinds

LEMMA NextInv == Inv /\ [Next]_vars => Inv'
<1> SUFFICES ASSUME Inv, [Next]_vars PROVE Inv'
  OBVIOUS
<1>1. ASSUME NEW i \in Ids, Create(i) \/ Edit(i) PROVE Inv'
  <2>1. Meanwhile /\ now' = now /\ now \in Nat /\ now' >= now
    BY <1>1 DEF Create, Edit, Inv
  <2>2. order' \in [Ids -> Kinds]
    BY <1>1, ChangeTyped DEF Inv
  <2> QED
    BY <2>1, <2>2, MeanwhileInv
<1>2. CASE Tick
  <2>1. Meanwhile /\ now' \in Nat /\ now' >= now /\ order' \in [Ids -> Kinds]
    BY <1>2 DEF Tick, Inv
  <2> QED
    BY <2>1, MeanwhileInv
<1>3. ASSUME Orders PROVE Inv'
  <2> DEFINE S == {i \in Rows : order[i].mine}
  <2>1. S \in SUBSET Ids /\ MinePage \in Nat
    BY ListingAssumption DEF Rows
  <2>2. cmd' = "orders" /\ asked' = asked /\ Query(S, MinePage)
    BY <1>3 DEF Orders
  <2>3. Wanted' \subseteq S
    BY <2>2 DEF Query, Wanted, Rows
  <2>4. asked' \in Nat /\ cmd' # "none"
    BY <2>2 DEF Inv
  <2> QED
    BY <2>1, <2>2, <2>3, <2>4, QueryInv
<1>4. ASSUME NEW t \in Dates, OrdersDate(Day(t)) PROVE Inv'
  <2>1. Rows \in SUBSET Ids /\ AllPage \in Nat /\ Day(t) \in Nat
    BY ListingAssumption DEF Rows, Day
  <2>2. cmd' = "date" /\ asked' = Day(t) /\ Query(Rows, AllPage)
    BY <1>4 DEF OrdersDate
  <2>3. Wanted' \subseteq Rows
    BY <2>2 DEF Query, Wanted, Rows
  <2> QED
    BY <2>1, <2>2, <2>3, QueryInv
<1>5. CASE Reply \/ ListFails
  BY <1>5, ReturnInv DEF Reply, ListFails
<1>6. CASE UNCHANGED vars
  BY <1>6 DEF vars, answer, Inv, Wanted, Rows, Passes, Active, Placed, Passing, Outrun
<1> QED
  BY <1>1, <1>2, <1>3, <1>4, <1>5, <1>6, ReadInv, FilterInv DEF Next

-----------------------------------------------------------------------------
(* Types *)

\* The rows a page may have.
Limit == IF cmd = "orders" THEN MinePage ELSE AllPage

LEMMA LimitTyped == Limit \in Nat /\ Limit' \in Nat
BY ListingAssumption DEF Limit

LEMMA FinitePage == page \subseteq Rows => IsFiniteSet(page) /\ Cardinality(page) \in Nat
BY ListingAssumption, FS_Subset, FS_CardinalityType DEF Rows

LEMMA TypeInit == Init => TypeOK
<1> SUFFICES ASSUME Init PROVE TypeOK
  OBVIOUS
<1>1. Cardinality(page) = 0
  BY FS_EmptySet DEF Init
<1>2. Cardinality(page) <= Limit
  BY <1>1, LimitTyped
<1>3. order \in [Ids -> Kinds] /\ read \in [Ids -> Kinds]
  BY DEF Init, Kinds
<1>4. now \in Nat /\ edits \in 0..MaxEdits /\ asked \in Nat
  BY ListingAssumption DEF Init
<1>5. few \in BOOLEAN /\ cmd \in {"none", "orders", "date"}
  BY Zenon DEF Init
<1>6. page \subseteq Rows /\ steady \subseteq Rows /\ due \subseteq Ids /\ shown \subseteq Ids
  BY DEF Init
<1> QED
  BY <1>2, <1>3, <1>4, <1>5, <1>6 DEF TypeOK, Limit

\* What others do leaves the page alone, and its ids remain ids of orders.
LEMMA MeanwhileTyped ==
  ASSUME TypeOK, Meanwhile, now' \in Nat, edits' \in 0..MaxEdits,
         order' \in [Ids -> Kinds], Rows \subseteq Rows'
  PROVE  TypeOK'
<1>1. UNCHANGED <<cmd, asked, few, page, read, due, shown>> /\ steady' \subseteq Rows'
  BY DEF Meanwhile, answer, TypeOK
<1> QED
  BY <1>1 DEF TypeOK

LEMMA QueryTyped ==
  ASSUME TypeOK, NEW S \in SUBSET Rows, Query(S, Limit'), asked' \in Nat,
         cmd' \in {"orders", "date"}
  PROVE  TypeOK'
<1>1. /\ page' = FirstOf(S, Limit') /\ few' = (Cardinality(S) <= Limit')
      /\ UNCHANGED <<order, now, edits, read, due, shown>> /\ steady' = Wanted'
  BY DEF Query
<1>2. S \in SUBSET Ids /\ \A i \in Ids : order[i].date \in Nat
  BY DatesTyped DEF Rows, TypeOK
<1>3. Cardinality(page') <= Limit'
  BY <1>1, <1>2, LimitTyped, PageFits
<1>4. page' \subseteq Rows' /\ steady' \subseteq Rows'
  BY <1>1 DEF FirstOf, Wanted, Rows
<1>5. few' \in BOOLEAN
  BY <1>1
<1> QED
  BY <1>1, <1>3, <1>4, <1>5 DEF TypeOK, Limit

LEMMA ReadTyped == ASSUME TypeOK, NEW i \in Ids, Read(i) PROVE TypeOK'
<1>1. /\ i \in page /\ page' = page \ {i} /\ read' \in [Ids -> Kinds]
      /\ due' \subseteq Ids
      /\ UNCHANGED <<order, now, edits, cmd, asked, few, shown, steady>>
  BY DEF Read, TypeOK
<1>2. page' \subseteq Rows' /\ steady' \subseteq Rows' /\ Limit' = Limit
  BY <1>1 DEF Rows, Limit, TypeOK
<1>3. IsFiniteSet(page) /\ Cardinality(page) \in Nat
  BY FinitePage DEF TypeOK
<1>4. Cardinality(page') = Cardinality(page) - 1
  BY <1>1, <1>3, FS_RemoveElement
<1>5. Cardinality(page) <= Limit
  BY DEF TypeOK, Limit
<1>6. Cardinality(page') <= Limit'
  BY <1>2, <1>3, <1>4, <1>5, LimitTyped
<1> QED
  BY <1>1, <1>2, <1>6 DEF TypeOK, Limit

LEMMA FilterTyped == ASSUME TypeOK, NEW i \in Ids, Filter(i) PROVE TypeOK'
<1>1. /\ due' \subseteq Ids /\ shown' \subseteq Ids
      /\ UNCHANGED <<order, now, edits, cmd, asked, few, page, read, steady>>
  BY DEF Filter, TypeOK
<1> QED
  BY <1>1 DEF TypeOK, Rows

LEMMA ReturnTyped == ASSUME TypeOK, Return PROVE TypeOK'
<1>1. Cardinality(page') <= Limit'
  BY FS_EmptySet, LimitTyped DEF Return
<1> QED
  BY <1>1 DEF Return, TypeOK, Kinds, Rows, Limit

LEMMA TypeNext == TypeOK /\ [Next]_vars => TypeOK'
<1> SUFFICES ASSUME TypeOK, [Next]_vars PROVE TypeOK'
  OBVIOUS
<1>1. ASSUME NEW i \in Ids, Create(i) \/ Edit(i) PROVE TypeOK'
  <2>1. Meanwhile /\ now' \in Nat /\ edits' \in 0..MaxEdits
    BY <1>1, ListingAssumption DEF Create, Edit, TypeOK
  <2>2. order' \in [Ids -> Kinds] /\ Rows \subseteq Rows'
    BY <1>1, ChangeTyped DEF TypeOK
  <2> QED
    BY <2>1, <2>2, MeanwhileTyped
<1>2. CASE Tick
  BY <1>2, MeanwhileTyped DEF Tick, TypeOK, Rows
<1>3. CASE Orders
  <2>1. cmd' = "orders" /\ asked' = asked /\ Query({i \in Rows : order[i].mine}, Limit')
    BY <1>3 DEF Orders, Limit
  <2> QED
    BY <2>1, QueryTyped DEF TypeOK
<1>4. ASSUME NEW t \in Dates, OrdersDate(Day(t)) PROVE TypeOK'
  <2>1. cmd' = "date" /\ asked' \in Nat /\ Query(Rows, Limit')
    BY <1>4, ListingAssumption DEF OrdersDate, Limit, Day
  <2> QED
    BY <2>1, QueryTyped
<1>5. CASE Reply \/ ListFails
  BY <1>5, ReturnTyped DEF Reply, ListFails
<1>6. CASE UNCHANGED vars
  BY <1>6 DEF vars, answer, TypeOK, Rows
<1> QED
  BY <1>1, <1>2, <1>3, <1>4, <1>5, <1>6, ReadTyped, FilterTyped DEF Next

-----------------------------------------------------------------------------
(* Results *)

\* A page never exceeds its limit, and has only ids of orders (postgres.go List).
THEOREM TypeCorrect == Spec => []TypeOK
BY TypeInit, TypeNext, PTL DEF Spec

\* What belonged in the answer all the while is still to be read, waits for the filter
\* with what lets it pass, has passed it, or was outrun by the time.
THEOREM ListsCorrect == Spec => []Inv
BY InitInv, NextInv, PTL DEF Spec

\* An answer whose rows all fit in the page has every order that belonged in it from
\* the query on (postgres.go List, the filters of ListPerformerOrders and /ordersdate),
\* except one of /orders that was read with a date which has passed since.
THEOREM FewShown == Spec => FewAllShown
<1>1. Inv /\ [Next]_vars =>
        [Reply /\ few => \A i \in steady : i \in shown \/ MovedOn(i)]_vars
  <2> SUFFICES ASSUME Inv, Reply, few, NEW i \in steady
               PROVE  i \in shown \/ MovedOn(i)
    OBVIOUS
  <2>1. i \in shown \/ Outrun(i)
    BY DEF Inv, Placed, Reply
  <2>2. cmd = "orders" => now <= order[i].date
    <3>1. i \in Wanted /\ i \in Ids
      BY DEF Inv, Wanted, Rows
    <3>2. order[i].date \in Nat /\ now \in Nat
      BY <3>1, DatesTyped DEF Inv
    <3> QED
      BY <3>1, <3>2 DEF Wanted, Passes, Active
  <2> QED
    BY <2>1, <2>2 DEF Outrun, MovedOn
<1> QED
  BY <1>1, ListsCorrect, PTL DEF Spec, FewAllShown
=============================================================================
