------------------------- MODULE OrderServiceProofs -------------------------
(***************************************************************************)
(* Proofs about OrderService, for every set of calls, orders, performers   *)
(* and contents, every expected version and every bound.                   *)
(***************************************************************************)
EXTENDS OrderService, FiniteSetTheorems, TLAPS

Ops == {"create"} \union Versioned \union Team

-----------------------------------------------------------------------------
(* What a request, a row and the tables look like *)

\* A request names an order, and only its own fields are filled in.
LEMMA RequestFields ==
  ASSUME NEW r \in Requests
  PROVE  /\ r.op \in Ops /\ r.id \in OrderIds /\ r.version \in Nat
         /\ r.who \subseteq Performers
         /\ r.op \in {"create", "update"} => r.body \in Bodies \union {BadBody}
         /\ r.op = "status" => r.next \in Terminal \union {NoStatus}
         /\ r.op \in Team => \E p \in Performers : r.who = {p}
<1>1. CASE r \in Creates
  BY <1>1 DEF Creates, Contents, Ops, Team
<1>2. CASE r \in Updates
  BY <1>2, BoundAssumption DEF Updates, Contents, Ops, Versioned, Team
<1>3. CASE r \in StatusChanges
  BY <1>3, BoundAssumption DEF StatusChanges, Ops, Versioned, Team
<1>4. CASE r \in TeamChanges
  BY <1>4 DEF TeamChanges, Ops, Team
<1> QED
  BY <1>1, <1>2, <1>3, <1>4 DEF Requests

\* An order's contents keep their type when they are stored.
LEMMA StoreType == ASSUME NEW b \in Bodies PROVE Store(b) \in Bodies /\ Store(b) \in StoredBodies
BY StoredAssumption DEF Store, Bodies, StoredBodies

-----------------------------------------------------------------------------
(* Type correctness *)

Deciding == {"lookup", "begin", "exec", "commit"}   \* the service's checks are passed

\* What a call holds at each point of its handler.
CallTyped ==
  \A c \in Calls :
    /\ pc[c] # "idle" => req[c] \in Requests
    /\ pc[c] \in {"read", "team"} => req[c].op # "create"
    /\ pc[c] \in {"team"} \union Deciding /\ req[c].op # "create" =>
         /\ Exists(req[c].id)
         /\ seen[c].body \in Bodies /\ seen[c].status \in {"PLANNED"} \union Terminal
    /\ pc[c] \in Deciding /\ req[c].op \in {"create", "update"} => req[c].body \in Bodies
    /\ pc[c] \in Deciding /\ req[c].op = "status" => req[c].next \in Terminal

TypeInv == TypeOK /\ CallTyped

\* The committed row of an order that exists.
LEMMA RowType ==
  ASSUME TypeOK, NEW o \in OrderIds, Exists(o)
  PROVE  /\ orders[o].status \in {"PLANNED"} \union Terminal
         /\ orders[o].version \in Nat /\ orders[o].body \in Bodies
<1>1. orders[o] \in [status : {"PLANNED"} \union Terminal, version : Nat, body : StoredBodies]
  BY DEF TypeOK, Rows, Exists, Absent
<1>2. StoredBodies \subseteq Bodies
  BY StoreType DEF StoredBodies
<1> QED
  BY <1>1, <1>2

\* A handler that returns leaves well-typed calls behind.
LEMMA ReturnTyped ==
  ASSUME TypeInv, NEW c \in Calls, Return(c), \A o \in OrderIds : Exists(o) => Exists(o)'
  PROVE  /\ pc' \in [Calls -> Labels] /\ req' \in [Calls -> Requests \union {NoReq}]
         /\ seen' \in [Calls -> Snapshots] /\ began' \in [Calls -> Nat]
         /\ CallTyped'
<1>1. NothingSeen \in Snapshots
  BY DEF NothingSeen, Snapshots
<1>2. /\ pc' \in [Calls -> Labels] /\ req' \in [Calls -> Requests \union {NoReq}]
      /\ seen' \in [Calls -> Snapshots] /\ began' \in [Calls -> Nat]
  BY <1>1 DEF TypeInv, TypeOK, Return, Labels
<1>3. CallTyped'
  <2>1. ASSUME NEW d \in Calls, d # c
        PROVE  pc'[d] = pc[d] /\ req'[d] = req[d] /\ seen'[d] = seen[d]
    BY <2>1 DEF TypeInv, TypeOK, Return
  <2>2. pc'[c] = "idle"
    BY DEF TypeInv, TypeOK, Return
  <2>3. \A d \in Calls : pc[d] # "idle" => req[d].id \in OrderIds
    BY RequestFields DEF TypeInv, CallTyped
  <2> QED
    BY <2>1, <2>2, <2>3 DEF TypeInv, CallTyped, Deciding
<1> QED
  BY <1>2, <1>3

\* The rows a commit writes.
LEMMA CommitRows ==
  ASSUME TypeInv, NEW c \in Calls, pc[c] = "commit"
  PROVE  /\ req[c].id \in OrderIds
         /\ HistoryRow(req[c], seen[c], began[c]) \in HistoryRows
         /\ Event(req[c], seen[c], began[c]) \in Events
         /\ NewRow(req[c], orders[req[c].id]) \in Rows \ {Absent}
         /\ NewTeam(req[c], performers[req[c].id]) \in SUBSET Performers
<1> DEFINE r == req[c]
           s == seen[c]
<1>1. /\ r \in Requests /\ r.op \in Ops /\ r.id \in OrderIds /\ r.who \subseteq Performers
      /\ s \in Snapshots /\ began[c] \in Nat
  BY RequestFields DEF TypeInv, TypeOK, CallTyped
<1>2. /\ r.op # "create" => Exists(r.id) /\ s.body \in Bodies /\ s.status \in {"PLANNED"} \union Terminal
      /\ r.op \in {"create", "update"} => r.body \in Bodies
      /\ r.op = "status" => r.next \in Terminal
  BY DEF TypeInv, CallTyped, Deciding
<1>3. HistoryRow(r, s, began[c]) \in HistoryRows
  <2>1. ActionOf[r.op] \in Actions
    BY <1>1 DEF Ops, Versioned, Team, ActionOf, Actions
  <2>2. Changes(r, s) \in SUBSET [old : Values, new : Values]
    <3>1. CASE r.op = "create"
      BY <3>1 DEF Changes
    <3>2. CASE r.op = "update"
      BY <3>2, <1>2 DEF Changes, Values, Bodies
    <3>3. CASE r.op = "status"
      BY <3>3, <1>2 DEF Changes, Values
    <3>4. CASE r.op \in Team
      BY <3>4, <1>1 DEF Changes, Values, Team
    <3> QED
      BY <1>1, <3>1, <3>2, <3>3, <3>4 DEF Ops, Versioned
  <2> QED
    BY <1>1, <2>1, <2>2 DEF HistoryRow, HistoryRows
<1>4. Event(r, s, began[c]) \in Events
  BY <1>1 DEF Event, Events, Ops, Snapshots
<1>5. NewRow(r, orders[r.id]) \in Rows \ {Absent}
  <2>1. CASE r.op = "create"
    BY <2>1, <1>2, StoreType DEF NewRow, Rows, Absent
  <2>2. CASE r.op = "update"
    <3>1. orders[r.id] \in [status : {"PLANNED"} \union Terminal, version : Nat, body : StoredBodies]
      BY <2>2, <1>1, <1>2 DEF TypeInv, TypeOK, Rows, Exists, Absent
    <3>2. NewRow(r, orders[r.id]) = [status |-> orders[r.id].status,
                                     version |-> orders[r.id].version + 1,
                                     body |-> Store(r.body)]
      BY <2>2, <3>1 DEF NewRow
    <3>3. Store(r.body) \in StoredBodies
      BY <2>2, <1>2, StoreType
    <3> QED
      BY <3>1, <3>2, <3>3 DEF Rows, Absent, Terminal
  <2>3. CASE r.op = "status"
    <3>1. orders[r.id] \in [status : {"PLANNED"} \union Terminal, version : Nat, body : StoredBodies]
      BY <2>3, <1>1, <1>2 DEF TypeInv, TypeOK, Rows, Exists, Absent
    <3>2. NewRow(r, orders[r.id]) = [status |-> r.next,
                                     version |-> orders[r.id].version + 1,
                                     body |-> orders[r.id].body]
      BY <2>3, <3>1 DEF NewRow
    <3> QED
      BY <2>3, <1>2, <3>1, <3>2 DEF Rows, Absent, Terminal
  <2>4. CASE r.op \in Team
    BY <2>4, <1>1, <1>2 DEF NewRow, Team, TypeInv, TypeOK, Exists, Absent
  <2> QED
    BY <1>1, <2>1, <2>2, <2>3, <2>4 DEF Ops, Versioned
<1>6. NewTeam(r, performers[r.id]) \in SUBSET Performers
  BY <1>1 DEF NewTeam, TypeInv, TypeOK
<1> QED
  BY <1>1, <1>3, <1>4, <1>5, <1>6

\* No order exists and no call runs at first.
LEMMA TypeInit == Init => TypeInv
<1>1. NoReq \in Requests \union {NoReq} /\ NothingSeen \in Snapshots
  BY DEF NothingSeen, Snapshots
<1> QED
  BY <1>1 DEF Init, TypeInv, TypeOK, CallTyped, Deciding, Labels, Rows

\* Every step writes rows and leaves calls of their type.
LEMMA TypeNext == TypeInv /\ [Next]_vars => TypeInv'
<1> SUFFICES ASSUME TypeInv, [Next]_vars PROVE TypeInv'
  OBVIOUS
<1>1. ASSUME NEW c \in Calls, Accept(c) PROVE TypeInv'
  <2>1. PICK r \in Requests :
          /\ r.op = "create" => FreshId(r.id) /\ r.body # BadBody
          /\ req' = [req EXCEPT ![c] = r]
          /\ Goto(c, First(r))
    BY <1>1 DEF Accept
  <2>2. pc' \in [Calls -> Labels]
    BY <2>1 DEF Goto, First, Labels, TypeInv, TypeOK
  <2>3. req' \in [Calls -> Requests \union {NoReq}]
    BY <2>1 DEF TypeInv, TypeOK
  <2>4. TypeOK'
    BY <1>1, <2>2, <2>3 DEF Accept, tables, TypeInv, TypeOK
  <2>5. CallTyped'
    <3>1. /\ req'[c] = r /\ UNCHANGED <<orders, seen>>
          /\ r.op \in Ops
          /\ r.op \in {"create", "update"} => r.body \in Bodies \union {BadBody}
      BY <1>1, <2>1, RequestFields DEF Accept, tables, TypeInv, TypeOK
    <3>2. /\ r.op # "create" => pc'[c] = "read"
          /\ r.op = "create" => pc'[c] \in Deciding /\ r.body \in Bodies
      BY <2>1, <3>1 DEF Goto, First, TypeInv, TypeOK, Deciding
    <3>3. ASSUME NEW d \in Calls, d # c PROVE pc'[d] = pc[d] /\ req'[d] = req[d]
      BY <2>1, <3>3 DEF Goto, TypeInv, TypeOK
    <3> QED
      BY <3>1, <3>2, <3>3 DEF TypeInv, CallTyped, Deciding, Exists
  <2> QED
    BY <2>4, <2>5 DEF TypeInv
<1>2. ASSUME NEW c \in Calls, GetOrder(c) PROVE TypeInv'
  <2>1. req[c] \in Requests /\ req[c].id \in OrderIds
    BY <1>2, RequestFields DEF GetOrder, TypeInv, CallTyped
  <2>2. CASE Exists(req[c].id)
    <3>1. /\ seen' = [seen EXCEPT ![c] = [status |-> orders[req[c].id].status,
                                          version |-> orders[req[c].id].version,
                                          body |-> orders[req[c].id].body, team |-> {}]]
          /\ pc' = [pc EXCEPT ![c] = "team"]
          /\ UNCHANGED <<tables, clock, req, began>>
      BY <1>2, <2>2 DEF GetOrder, Goto
    <3>2. orders[req[c].id].status \in {"PLANNED"} \union Terminal
          /\ orders[req[c].id].version \in Nat /\ orders[req[c].id].body \in Bodies
      BY <2>1, <2>2, RowType DEF TypeInv
    <3>3. seen' \in [Calls -> Snapshots]
      BY <3>1, <3>2 DEF TypeInv, TypeOK, Snapshots
    <3>4. pc' \in [Calls -> Labels]
      BY <3>1 DEF TypeInv, TypeOK, Labels
    <3>5. TypeOK'
      BY <3>1, <3>3, <3>4 DEF tables, TypeInv, TypeOK
    <3>6. CallTyped'
      BY <1>2, <2>2, <3>1, <3>2
         DEF GetOrder, tables, TypeInv, TypeOK, CallTyped, Deciding, Exists, Labels
    <3> QED
      BY <3>5, <3>6 DEF TypeInv
  <2>3. CASE ~Exists(req[c].id)
    <3>1. Return(c) /\ UNCHANGED <<tables, clock>>
      BY <1>2, <2>3 DEF GetOrder
    <3> QED
      BY <3>1, ReturnTyped DEF TypeInv, TypeOK, tables, Exists
  <2> QED
    BY <2>2, <2>3
<1>3. ASSUME NEW c \in Calls, GetTeam(c) PROVE TypeInv'
  <2>1. /\ req[c] \in Requests /\ req[c].id \in OrderIds /\ req[c].op \in Ops
        /\ req[c].op \in {"create", "update"} => req[c].body \in Bodies \union {BadBody}
    BY <1>3, RequestFields DEF GetTeam, TypeInv, CallTyped
  <2>2. CASE Passes(req[c], seen[c])
    <3>1. /\ seen' = [seen EXCEPT ![c].team = performers[req[c].id]]
          /\ pc' = [pc EXCEPT ![c] = IF req[c].op = "assign" THEN "lookup" ELSE "begin"]
          /\ UNCHANGED <<tables, clock, req, began>>
      BY <1>3, <2>2 DEF GetTeam, Goto
    <3>2. seen' \in [Calls -> Snapshots]
      <4>1. performers[req[c].id] \in SUBSET Performers /\ seen \in [Calls -> Snapshots]
        BY <2>1 DEF TypeInv, TypeOK
      <4>2. [seen[c] EXCEPT !.team = performers[req[c].id]] \in Snapshots
        BY <4>1 DEF Snapshots
      <4> QED
        BY <3>1, <4>1, <4>2
    <3>3. pc' \in [Calls -> Labels]
      BY <3>1 DEF TypeInv, TypeOK, Labels
    <3>4. TypeOK'
      BY <3>1, <3>2, <3>3 DEF tables, TypeInv, TypeOK
    <3>5. /\ req[c].op # "create" /\ Exists(req[c].id)
          /\ seen'[c].body = seen[c].body /\ seen'[c].status = seen[c].status
          /\ seen[c].body \in Bodies /\ seen[c].status \in {"PLANNED"} \union Terminal
          /\ \A d \in Calls \ {c} : seen'[d] = seen[d]
      BY <1>3, <3>1 DEF GetTeam, TypeInv, TypeOK, CallTyped, Snapshots
    <3>6. /\ req[c].op = "update" => req[c].body \in Bodies
          /\ req[c].op = "status" => req[c].next \in Terminal
      <4>1. req[c].op = "update" => req[c].body \in Bodies
        BY <2>1, <2>2 DEF Passes
      <4>2. req[c].op = "status" => req[c].next \in Terminal
        BY <2>2 DEF Passes, CanTransition
      <4> QED
        BY <4>1, <4>2
    <3>7. CallTyped'
      BY <1>3, <2>1, <3>1, <3>5, <3>6
         DEF GetTeam, tables, TypeInv, TypeOK, CallTyped, Deciding, Exists, Labels
    <3> QED
      BY <3>4, <3>7 DEF TypeInv
  <2>3. CASE ~Passes(req[c], seen[c])
    <3>1. Return(c) /\ UNCHANGED <<tables, clock>>
      BY <1>3, <2>3 DEF GetTeam
    <3> QED
      BY <3>1, ReturnTyped DEF TypeInv, TypeOK, tables, Exists
  <2> QED
    BY <2>2, <2>3
<1>4. ASSUME NEW c \in Calls, Lookup(c) PROVE TypeInv'
  <2>1. CASE Goto(c, "begin") /\ UNCHANGED <<req, seen, began>>
    BY <1>4, <2>1
       DEF Lookup, Goto, tables, TypeInv, TypeOK, CallTyped, Deciding, Exists, Labels
  <2>2. CASE Return(c)
    BY <1>4, <2>2, ReturnTyped DEF Lookup, TypeInv, TypeOK, tables, Exists
  <2> QED
    BY <1>4, <2>1, <2>2 DEF Lookup
<1>5. ASSUME NEW c \in Calls, Begin(c) PROVE TypeInv'
  <2>1. TypeOK'
    BY <1>5 DEF Begin, Goto, tables, TypeInv, TypeOK, Labels
  <2>2. CallTyped'
    BY <1>5 DEF Begin, Goto, tables, TypeInv, TypeOK, CallTyped, Deciding, Exists, Labels
  <2> QED
    BY <2>1, <2>2 DEF TypeInv
<1>6. ASSUME NEW c \in Calls, Exec(c) PROVE TypeInv'
  <2>1. CASE Applies(req[c], seen[c])
    BY <1>6, <2>1
       DEF Exec, Goto, tables, TypeInv, TypeOK, CallTyped, Deciding, Exists, Labels
  <2>2. CASE ~Applies(req[c], seen[c])
    BY <1>6, <2>2, ReturnTyped DEF Exec, TypeInv, TypeOK, tables, Exists
  <2> QED
    BY <2>1, <2>2
<1>7. ASSUME NEW c \in Calls, Commit(c) PROVE TypeInv'
  <2> DEFINE r == req[c]
  <2>1. /\ r.id \in OrderIds
        /\ HistoryRow(r, seen[c], began[c]) \in HistoryRows
        /\ Event(r, seen[c], began[c]) \in Events
        /\ NewRow(r, orders[r.id]) \in Rows \ {Absent}
        /\ NewTeam(r, performers[r.id]) \in SUBSET Performers
    BY <1>7, CommitRows DEF Commit
  <2>2. /\ orders' = [orders EXCEPT ![r.id] = NewRow(r, orders[r.id])]
        /\ performers' = [performers EXCEPT ![r.id] = NewTeam(r, performers[r.id])]
        /\ history' = [history EXCEPT ![r.id] =
                         Append(history[r.id], HistoryRow(r, seen[c], began[c]))]
        /\ outbox' = Append(outbox, Event(r, seen[c], began[c]))
        /\ Return(c) /\ clock' = clock
    BY <1>7 DEF Commit
  <2>3. orders' \in [OrderIds -> Rows]
    BY <2>1, <2>2 DEF TypeInv, TypeOK
  <2>4. performers' \in [OrderIds -> SUBSET Performers]
    BY <2>1, <2>2 DEF TypeInv, TypeOK
  <2>5. history' \in [OrderIds -> Seq(HistoryRows)]
    BY <2>1, <2>2 DEF TypeInv, TypeOK
  <2>6. outbox' \in Seq(Events)
    BY <2>1, <2>2 DEF TypeInv, TypeOK
  <2>7. \A o \in OrderIds : Exists(o) => Exists(o)'
    BY <2>1, <2>2 DEF TypeInv, TypeOK, Exists, Rows, Absent, Terminal
  <2> QED
    BY <2>2, <2>3, <2>4, <2>5, <2>6, <2>7, ReturnTyped DEF TypeInv, TypeOK
<1>8. ASSUME NEW c \in Calls, Fail(c) PROVE TypeInv'
  BY <1>8, ReturnTyped DEF Fail, TypeInv, TypeOK, tables, Exists
<1>9. CASE UNCHANGED vars
  BY <1>9 DEF vars, TypeInv, TypeOK, CallTyped, Exists
<1> QED
  BY <1>1, <1>2, <1>3, <1>4, <1>5, <1>6, <1>7, <1>8, <1>9 DEF Next, Step, Quiesce

\* Every table and every call of order-service holds values of its kind.
THEOREM TypeCorrect == Spec => []TypeOK
<1>1. TypeInv => TypeOK
  BY DEF TypeInv
<1> QED
  BY <1>1, TypeInit, TypeNext, PTL DEF Spec

-----------------------------------------------------------------------------
(* Row locks and what a transaction may rely on at its commit *)

\* Calls that may not both have written and not yet committed.
Conflict(r, s) ==
  /\ r.id = s.id
  /\ \/ r.op \in Versioned /\ s.op \in Versioned
     \/ r.op \in Team /\ s.op \in Team /\ r.who = s.who

LocksExclude ==
  \A c, d \in Calls :
    c # d /\ pc[c] = "commit" /\ pc[d] = "commit" => ~Conflict(req[c], req[d])

\* What the statement found is still so when its transaction commits.
LockedRowsKept ==
  \A c \in Calls : pc[c] = "commit" =>
    /\ req[c].op \in Versioned => orders[req[c].id].version = req[c].version
    /\ req[c].op = "assign" => req[c].who \cap performers[req[c].id] = {}
    /\ req[c].op = "unassign" => req[c].who \subseteq performers[req[c].id]

\* The id of a running create is its own.
CreatesFresh ==
  \A c \in Calls : pc[c] # "idle" /\ req[c].op = "create" =>
    /\ ~Exists(req[c].id)
    /\ \A d \in Calls : d # c /\ pc[d] # "idle" /\ req[d].op = "create" =>
                        req[d].id # req[c].id

\* An order read earlier is an earlier order, or still the present one.
SnapshotsPast ==
  \A c \in Calls : pc[c] \in {"team"} \union Deciding /\ req[c].op # "create" =>
    /\ seen[c].version <= orders[req[c].id].version
    /\ seen[c].version = orders[req[c].id].version =>
         seen[c].status = orders[req[c].id].status /\ seen[c].body = orders[req[c].id].body

StatusChecked ==
  \A c \in Calls : pc[c] \in Deciding /\ req[c].op = "status" =>
    seen[c].version = req[c].version /\ seen[c].status = "PLANNED"

LockInv == LocksExclude /\ LockedRowsKept /\ CreatesFresh
SafeInv == TypeInv /\ LockInv /\ SnapshotsPast /\ StatusChecked

\* A step of one call leaves the others where they are.
LEMMA OtherCalls ==
  ASSUME TypeInv, NEW c \in Calls, Accept(c) \/ Step(c) \/ Fail(c), NEW d \in Calls, d # c
  PROVE  pc'[d] = pc[d] /\ req'[d] = req[d] /\ seen'[d] = seen[d] /\ began'[d] = began[d]
<1>1. /\ pc \in [Calls -> Labels] /\ req \in [Calls -> Requests \union {NoReq}]
      /\ seen \in [Calls -> Snapshots] /\ began \in [Calls -> Nat]
  BY DEF TypeInv, TypeOK
<1>2. CASE Accept(c)
  BY <1>1, <1>2 DEF Accept, Goto
<1>3. CASE GetOrder(c)
  BY <1>1, <1>3 DEF GetOrder, Goto, Return
<1>4. CASE GetTeam(c)
  BY <1>1, <1>4 DEF GetTeam, Goto, Return
<1>5. CASE Lookup(c)
  BY <1>1, <1>5 DEF Lookup, Goto, Return
<1>6. CASE Begin(c)
  BY <1>1, <1>6 DEF Begin, Goto
<1>7. CASE Exec(c)
  BY <1>1, <1>7 DEF Exec, Goto, Return
<1>8. CASE Commit(c)
  BY <1>1, <1>8 DEF Commit, Return
<1>9. CASE Fail(c)
  BY <1>1, <1>9 DEF Fail, Return
<1> QED
  BY <1>2, <1>3, <1>4, <1>5, <1>6, <1>7, <1>8, <1>9 DEF Step

\* Where the moving call can get to, and with which request.
LEMMA MovingCall ==
  ASSUME TypeInv, NEW c \in Calls, Step(c) \/ Fail(c)
  PROVE  /\ pc[c] # "idle"
         /\ pc'[c] # "idle" => req'[c] = req[c]
         /\ pc'[c] = "commit" => Exec(c) /\ Applies(req[c], seen[c])
         /\ ~Commit(c) => UNCHANGED tables
<1>1. /\ pc \in [Calls -> Labels] /\ req \in [Calls -> Requests \union {NoReq}]
  BY DEF TypeInv, TypeOK
<1>2. CASE GetOrder(c)
  BY <1>1, <1>2 DEF GetOrder, Goto, Return
<1>3. CASE GetTeam(c)
  BY <1>1, <1>3 DEF GetTeam, Goto, Return
<1>4. CASE Lookup(c)
  BY <1>1, <1>4 DEF Lookup, Goto, Return
<1>5. CASE Begin(c)
  BY <1>1, <1>5 DEF Begin, Goto
<1>6. CASE Exec(c)
  BY <1>1, <1>6 DEF Exec, Goto, Return
<1>7. CASE Commit(c)
  BY <1>1, <1>7 DEF Commit, Return
<1>8. CASE Fail(c)
  BY <1>1, <1>8 DEF Fail, Return
<1> QED
  BY <1>2, <1>3, <1>4, <1>5, <1>6, <1>7, <1>8 DEF Step

\* What a commit does to the order it is about, and that it touches no other.
LEMMA CommitEffect ==
  ASSUME TypeInv, LockInv, NEW c \in Calls, Commit(c)
  PROVE  /\ \A o \in OrderIds \ {req[c].id} :
              orders'[o] = orders[o] /\ performers'[o] = performers[o]
         /\ orders'[req[c].id] = NewRow(req[c], orders[req[c].id])
         /\ performers'[req[c].id] = NewTeam(req[c], performers[req[c].id])
         /\ orders'[req[c].id].status # "NONE"
         /\ req[c].op = "create" => ~Exists(req[c].id)
         /\ req[c].op \in Versioned =>
              orders'[req[c].id].version = orders[req[c].id].version + 1
         /\ req[c].op \in Team => orders'[req[c].id] = orders[req[c].id]
<1>1. req[c].id \in OrderIds /\ NewRow(req[c], orders[req[c].id]) \in Rows \ {Absent}
  BY CommitRows DEF Commit
<1>2. orders' = [orders EXCEPT ![req[c].id] = NewRow(req[c], orders[req[c].id])]
      /\ performers' = [performers EXCEPT ![req[c].id] = NewTeam(req[c], performers[req[c].id])]
  BY DEF Commit
<1>3. orders \in [OrderIds -> Rows] /\ performers \in [OrderIds -> SUBSET Performers]
  BY DEF TypeInv, TypeOK
<1>4. orders'[req[c].id].status # "NONE"
  BY <1>1, <1>2, <1>3 DEF Rows, Absent, Terminal
<1>5. req[c].op = "create" => ~Exists(req[c].id)
  BY DEF Commit, LockInv, CreatesFresh
<1>6. req[c].op \in Versioned =>
        NewRow(req[c], orders[req[c].id]).version = orders[req[c].id].version + 1
  BY <1>1, <1>3 DEF NewRow, Versioned, Rows, Absent
<1>7. req[c].op \in Team => NewRow(req[c], orders[req[c].id]) = orders[req[c].id]
  BY DEF NewRow, Team
<1> QED
  BY <1>1, <1>2, <1>3, <1>4, <1>5, <1>6, <1>7

\* With no call there are no locks and no snapshots.
LEMMA LockInit == Init => LockInv /\ SnapshotsPast /\ StatusChecked
BY DEF Init, LockInv, LocksExclude, LockedRowsKept, CreatesFresh, SnapshotsPast,
       StatusChecked, Deciding

\* A statement that succeeds conflicts with no written, uncommitted one.
LEMMA ExecExcludes ==
  ASSUME TypeInv, LockInv, NEW c \in Calls, Exec(c), Applies(req[c], seen[c]),
         NEW d \in Calls, d # c, pc[d] = "commit"
  PROVE  ~Conflict(req[c], req[d])
<1> SUFFICES ASSUME Conflict(req[c], req[d]) PROVE FALSE
  OBVIOUS
<1>1. /\ ~Waits(req[c], req[d])
      /\ req[c].id = req[d].id /\ req[c] \in Requests /\ req[d] \in Requests
  BY DEF Exec, Conflict, TypeInv, CallTyped
<1>2. req[c].op = "unassign" /\ req[d].op = "assign" /\ req[c].who = req[d].who
  BY <1>1 DEF Conflict, Waits, Team, Versioned
<1>3. req[d].who \cap performers[req[d].id] = {}
  BY <1>2 DEF LockInv, LockedRowsKept
<1>4. req[c].who \subseteq performers[req[c].id]
  BY <1>2 DEF Applies
<1>5. PICK p \in Performers : req[c].who = {p}
  BY <1>1, <1>2, RequestFields DEF Team
<1> QED
  BY <1>1, <1>2, <1>3, <1>4, <1>5

\* Every step respects the locks and what they protect.
LEMMA LockNext == TypeInv /\ LockInv /\ StatusChecked /\ [Next]_vars => LockInv'
<1> SUFFICES ASSUME TypeInv, LockInv, StatusChecked, [Next]_vars PROVE LockInv'
  OBVIOUS
<1>1. ASSUME NEW c \in Calls, Accept(c) PROVE LockInv'
  <2>1. PICK r \in Requests :
          /\ r.op = "create" => FreshId(r.id)
          /\ req'[c] = r /\ pc'[c] \in {"read", "lookup", "begin"}
    BY <1>1 DEF Accept, Goto, First, TypeInv, TypeOK
  <2>2. UNCHANGED <<orders, performers>>
    BY <1>1 DEF Accept, tables
  <2>3. \A d \in Calls \ {c} : pc'[d] = pc[d] /\ req'[d] = req[d]
    BY <1>1, OtherCalls
  <2>4. LocksExclude' /\ LockedRowsKept'
    BY <2>1, <2>2, <2>3 DEF LockInv, LocksExclude, LockedRowsKept
  <2>5. CreatesFresh'
    BY <2>1, <2>2, <2>3 DEF LockInv, CreatesFresh, FreshId, Exists
  <2> QED
    BY <2>4, <2>5 DEF LockInv
<1>2. ASSUME NEW c \in Calls, Step(c) \/ Fail(c), ~Commit(c) PROVE LockInv'
  <2>1. /\ UNCHANGED <<orders, performers>> /\ pc[c] # "idle"
        /\ pc'[c] # "idle" => req'[c] = req[c]
        /\ pc'[c] = "commit" => Exec(c) /\ Applies(req[c], seen[c])
    BY <1>2, MovingCall DEF tables
  <2>2. \A d \in Calls \ {c} : pc'[d] = pc[d] /\ req'[d] = req[d]
    BY <1>2, OtherCalls
  <2>3. LocksExclude'
    <3>1. \A d \in Calls \ {c} : pc'[c] = "commit" /\ pc'[d] = "commit" =>
             ~Conflict(req'[c], req'[d])
      BY <2>1, <2>2, ExecExcludes
    <3>2. \A r, s : Conflict(r, s) <=> Conflict(s, r)
      BY DEF Conflict
    <3> QED
      BY <2>2, <3>1, <3>2 DEF LockInv, LocksExclude
  <2>4. LockedRowsKept'
    <3>1. ASSUME pc'[c] = "commit", req[c].op \in Versioned
          PROVE  orders[req[c].id].version = req[c].version
      <4>1. pc[c] = "exec" /\ orders[req[c].id].version = WhereVersion(req[c], seen[c])
        BY <2>1, <3>1 DEF Exec, Applies
      <4> QED
        BY <4>1 DEF WhereVersion, StatusChecked, Deciding
    <3> QED
      BY <2>1, <2>2, <3>1 DEF LockInv, LockedRowsKept, Applies
  <2>5. CreatesFresh'
    BY <2>1, <2>2 DEF LockInv, CreatesFresh, Exists
  <2> QED
    BY <2>3, <2>4, <2>5 DEF LockInv
<1>3. ASSUME NEW c \in Calls, Commit(c) PROVE LockInv'
  <2>1. pc[c] = "commit" /\ pc'[c] = "idle" /\ req[c] \in Requests
    BY <1>3 DEF Commit, Return, TypeInv, TypeOK, CallTyped
  <2>2. \A d \in Calls \ {c} : pc'[d] = pc[d] /\ req'[d] = req[d]
    BY <1>3, OtherCalls DEF Step
  <2>3. LocksExclude'
    BY <2>1, <2>2 DEF LockInv, LocksExclude
  <2>4. LockedRowsKept'
    <3> SUFFICES ASSUME NEW d \in Calls, d # c, pc[d] = "commit"
                 PROVE  LET r == req[d] IN
                        /\ r.op \in Versioned => orders'[r.id].version = r.version
                        /\ r.op = "assign" => r.who \cap performers'[r.id] = {}
                        /\ r.op = "unassign" => r.who \subseteq performers'[r.id]
      BY <2>1, <2>2 DEF LockedRowsKept
    <3>1. /\ req[d] \in Requests /\ req[d].id \in OrderIds
          /\ ~Conflict(req[c], req[d])
          /\ req[d].op # "create" => Exists(req[d].id)
      BY <2>1, RequestFields DEF TypeInv, CallTyped, Deciding, LockInv, LocksExclude
    <3>2. CASE req[d].id # req[c].id
      BY <1>3, <3>1, <3>2, CommitEffect DEF LockInv, LockedRowsKept
    <3>3. CASE req[d].id = req[c].id
      <4>1. CASE req[d].op \in Versioned
        <5>1. req[c].op \in Team
          BY <1>3, <2>1, <3>1, <3>3, <4>1, RequestFields, CommitEffect
             DEF Conflict, Ops, Versioned
        <5> QED
          BY <1>3, <3>3, <4>1, <5>1, CommitEffect DEF LockInv, LockedRowsKept, Versioned
      <4>2. CASE req[d].op \in Team
        <5>1. req[c].op \in Versioned \/ (req[c].op \in Team /\ req[c].who # req[d].who)
          BY <1>3, <2>1, <3>1, <3>3, <4>2, RequestFields, CommitEffect
             DEF Conflict, Ops, Team
        <5>2. PICK p \in Performers : req[d].who = {p}
          BY <3>1, <4>2, RequestFields
        <5>3. req[c].op \in Team => \E q \in Performers : req[c].who = {q} /\ q # p
          BY <2>1, <5>1, <5>2, RequestFields DEF Versioned, Team
        <5>4. p \in performers'[req[d].id] <=> p \in performers[req[d].id]
          BY <1>3, <3>3, <5>1, <5>3, CommitEffect DEF NewTeam, Versioned, Team
        <5> QED
          BY <4>2, <5>2, <5>4 DEF LockInv, LockedRowsKept, Versioned, Team
      <4>3. CASE req[d].op = "create"
        BY <4>3 DEF Versioned
      <4> QED
        BY <3>1, <4>1, <4>2, <4>3, RequestFields DEF Ops
    <3> QED
      BY <3>2, <3>3
  <2>5. CreatesFresh'
    <3>1. ASSUME NEW d \in Calls, d # c, pc[d] # "idle", req[d].op = "create"
          PROVE  req[d].id # req[c].id
      <4>1. CASE req[c].op = "create"
        BY <2>1, <3>1, <4>1 DEF LockInv, CreatesFresh
      <4>2. CASE req[c].op # "create"
        BY <2>1, <3>1, <4>2 DEF LockInv, CreatesFresh, TypeInv, CallTyped, Deciding
      <4> QED
        BY <4>1, <4>2
    <3>2. \A d \in Calls : pc[d] # "idle" => req[d].id \in OrderIds
      BY RequestFields DEF TypeInv, CallTyped
    <3> QED
      BY <1>3, <2>1, <2>2, <3>1, <3>2, CommitEffect DEF LockInv, CreatesFresh, Exists
  <2> QED
    BY <2>3, <2>4, <2>5 DEF LockInv
<1>4. CASE UNCHANGED vars
  BY <1>4 DEF vars, LockInv, LocksExclude, LockedRowsKept, CreatesFresh, Exists
<1> QED
  BY <1>1, <1>2, <1>3, <1>4 DEF Next, Quiesce

-----------------------------------------------------------------------------
(* What a handler read before its transaction *)

\* Every step leaves the snapshots in the past of their rows.
LEMMA SnapshotNext ==
  TypeInv /\ LockInv /\ SnapshotsPast /\ StatusChecked /\ [Next]_vars
    => SnapshotsPast' /\ StatusChecked'
<1> SUFFICES ASSUME TypeInv, LockInv, SnapshotsPast, StatusChecked, [Next]_vars
             PROVE  SnapshotsPast' /\ StatusChecked'
  OBVIOUS
<1>1. ASSUME NEW c \in Calls, Accept(c) PROVE SnapshotsPast' /\ StatusChecked'
  <2>1. PICK r \in Requests : req'[c] = r /\ pc'[c] = First(r)
    BY <1>1 DEF Accept, Goto, TypeInv, TypeOK
  <2>2. UNCHANGED orders
    BY <1>1 DEF Accept, tables
  <2>3. \A d \in Calls \ {c} : pc'[d] = pc[d] /\ req'[d] = req[d] /\ seen'[d] = seen[d]
    BY <1>1, OtherCalls
  <2> QED
    BY <2>1, <2>2, <2>3 DEF First, SnapshotsPast, StatusChecked, Deciding
<1>2. ASSUME NEW c \in Calls, Step(c) \/ Fail(c), ~Commit(c)
      PROVE  SnapshotsPast' /\ StatusChecked'
  <2>1. /\ UNCHANGED orders
        /\ pc'[c] # "idle" => req'[c] = req[c] /\ req[c].id \in OrderIds
    BY <1>2, MovingCall, RequestFields DEF tables, TypeInv, CallTyped
  <2>2. \A d \in Calls \ {c} : pc'[d] = pc[d] /\ req'[d] = req[d] /\ seen'[d] = seen[d]
    BY <1>2, OtherCalls
  <2>3. ASSUME pc'[c] \in {"team"} \union Deciding, req[c].op # "create"
        PROVE  /\ seen'[c].version <= orders[req[c].id].version
               /\ seen'[c].version = orders[req[c].id].version =>
                    /\ seen'[c].status = orders[req[c].id].status
                    /\ seen'[c].body = orders[req[c].id].body
    <3>1. CASE GetOrder(c)
      <4>1. seen'[c] = [status |-> orders[req[c].id].status,
                        version |-> orders[req[c].id].version,
                        body |-> orders[req[c].id].body, team |-> {}]
        BY <2>3, <3>1 DEF GetOrder, Return, Deciding, TypeInv, TypeOK
      <4>2. Exists(req[c].id)
        BY <2>3, <3>1 DEF GetOrder, Return, Deciding, TypeInv, TypeOK
      <4>3. orders[req[c].id].version \in Nat
        BY <2>1, <2>3, <4>2, RowType DEF TypeInv, Deciding
      <4> QED
        BY <4>1, <4>3
    <3>2. CASE GetTeam(c)
      <4>1. /\ seen'[c].version = seen[c].version /\ seen'[c].status = seen[c].status
            /\ seen'[c].body = seen[c].body
        BY <2>3, <3>2 DEF GetTeam, Return, Deciding, TypeInv, TypeOK, Snapshots
      <4> QED
        BY <2>3, <3>2, <4>1 DEF GetTeam, SnapshotsPast
    <3>3. CASE Lookup(c) \/ Begin(c) \/ Exec(c) \/ Fail(c)
      <4>1. seen'[c] = seen[c] /\ pc[c] \in Deciding
        BY <2>3, <3>3 DEF Lookup, Begin, Exec, Fail, Return, Goto, Deciding, TypeInv, TypeOK
      <4> QED
        BY <2>3, <4>1 DEF SnapshotsPast
    <3> QED
      BY <1>2, <3>1, <3>2, <3>3 DEF Step
  <2>4. ASSUME pc'[c] \in Deciding, req[c].op = "status"
        PROVE  seen'[c].version = req[c].version /\ seen'[c].status = "PLANNED"
    <3>1. CASE GetOrder(c)
      BY <2>4, <3>1 DEF GetOrder, Goto, Return, Deciding, TypeInv, TypeOK
    <3>2. CASE GetTeam(c)
      <4>1. Passes(req[c], seen[c])
        BY <2>4, <3>2 DEF GetTeam, Return, Deciding, TypeInv, TypeOK
      <4>2. seen'[c].version = seen[c].version /\ seen'[c].status = seen[c].status
        BY <2>4, <3>2 DEF GetTeam, Return, Deciding, TypeInv, TypeOK, Snapshots
      <4> QED
        BY <2>4, <4>1, <4>2 DEF Passes, CanTransition
    <3>3. CASE Lookup(c) \/ Begin(c) \/ Exec(c) \/ Fail(c)
      <4>1. seen'[c] = seen[c] /\ pc[c] \in Deciding
        BY <2>4, <3>3 DEF Lookup, Begin, Exec, Fail, Return, Goto, Deciding, TypeInv, TypeOK
      <4> QED
        BY <2>4, <4>1 DEF StatusChecked
    <3> QED
      BY <1>2, <3>1, <3>2, <3>3 DEF Step
  <2>5. SnapshotsPast'
    BY <2>1, <2>2, <2>3 DEF SnapshotsPast, Deciding
  <2>6. StatusChecked'
    BY <2>1, <2>2, <2>4 DEF StatusChecked, Deciding
  <2> QED
    BY <2>5, <2>6
<1>3. ASSUME NEW c \in Calls, Commit(c) PROVE SnapshotsPast' /\ StatusChecked'
  <2>1. pc'[c] = "idle"
    BY <1>3 DEF Commit, Return, TypeInv, TypeOK
  <2>2. \A d \in Calls \ {c} : pc'[d] = pc[d] /\ req'[d] = req[d] /\ seen'[d] = seen[d]
    BY <1>3, OtherCalls DEF Step
  <2>3. ASSUME NEW d \in Calls, pc'[d] \in {"team"} \union Deciding, req'[d].op # "create"
        PROVE  /\ seen'[d].version <= orders'[req'[d].id].version
               /\ seen'[d].version = orders'[req'[d].id].version =>
                    /\ seen'[d].status = orders'[req'[d].id].status
                    /\ seen'[d].body = orders'[req'[d].id].body
    <3>1. /\ d # c /\ req'[d] = req[d] /\ seen'[d] = seen[d] /\ pc'[d] = pc[d]
          /\ req[d].id \in OrderIds /\ Exists(req[d].id) /\ seen[d] \in Snapshots
      BY <2>1, <2>2, <2>3, RequestFields DEF Deciding, TypeInv, TypeOK, CallTyped
    <3>2. orders[req[d].id].version \in Nat /\ seen[d].version \in Nat
      BY <3>1, RowType DEF TypeInv, Snapshots
    <3>3. /\ seen[d].version <= orders[req[d].id].version
          /\ seen[d].version = orders[req[d].id].version =>
               /\ seen[d].status = orders[req[d].id].status
               /\ seen[d].body = orders[req[d].id].body
      BY <2>3, <3>1 DEF SnapshotsPast
    <3>4. \/ orders'[req[d].id] = orders[req[d].id]
          \/ orders'[req[d].id].version = orders[req[d].id].version + 1
      BY <1>3, <3>1, CommitEffect, RequestFields, ZenonT(60) DEF Commit, Ops, TypeInv, CallTyped
    <3> QED
      BY <3>1, <3>2, <3>3, <3>4
  <2>4. SnapshotsPast'
    BY <2>3 DEF SnapshotsPast, Deciding
  <2>5. StatusChecked'
    BY <2>1, <2>2 DEF StatusChecked, Deciding
  <2> QED
    BY <2>4, <2>5
<1>4. CASE UNCHANGED vars
  BY <1>4 DEF vars, SnapshotsPast, StatusChecked
<1> QED
  BY <1>1, <1>2, <1>3, <1>4 DEF Next, Quiesce

\* The inductive invariant of order-service.
THEOREM Safety == Spec => []SafeInv
<1>1. Init => SafeInv
  BY TypeInit, LockInit DEF SafeInv
<1>2. SafeInv /\ [Next]_vars => SafeInv'
  BY TypeNext, LockNext, SnapshotNext DEF SafeInv
<1> QED
  BY <1>1, <1>2, PTL DEF Spec

-----------------------------------------------------------------------------
(* Orders change only by commits *)

\* An order changes by a commit of a call about it only.
LEMMA OnlyCommits ==
  ASSUME SafeInv, [Next]_vars, UNCHANGED <<orders, performers>> => FALSE
  PROVE  \E c \in Calls : Commit(c)
<1>1. \A c \in Calls : Accept(c) => UNCHANGED <<orders, performers>>
  BY DEF Accept, tables
<1>2. \A c \in Calls : (Step(c) \/ Fail(c)) /\ ~Commit(c) => UNCHANGED <<orders, performers>>
  BY MovingCall DEF tables, SafeInv
<1> QED
  BY <1>1, <1>2 DEF Next, Quiesce, vars

\* Optimistic locking holds for any number of handlers: an order changes only by
\* a request that named the version it replaces.
THEOREM VersionHonoured == Spec => ExpectedVersionHonoured
<1> DEFINE P == \A o \in OrderIds :
                  Exists(o) /\ orders'[o] # orders[o] =>
                    /\ orders'[o].version = orders[o].version + 1
                    /\ \E c \in Calls : /\ req[c].id = o /\ req[c].op \in Versioned
                                        /\ req[c].version = orders[o].version
<1>1. SafeInv /\ [Next]_vars => P
  <2> SUFFICES ASSUME SafeInv, [Next]_vars, NEW o \in OrderIds,
                      Exists(o), orders'[o] # orders[o]
               PROVE  /\ orders'[o].version = orders[o].version + 1
                      /\ \E c \in Calls : /\ req[c].id = o /\ req[c].op \in Versioned
                                          /\ req[c].version = orders[o].version
    OBVIOUS
  <2>1. PICK c \in Calls : Commit(c)
    BY OnlyCommits
  <2>2. req[c] \in Requests /\ pc[c] = "commit"
    BY <2>1 DEF Commit, SafeInv, TypeInv, CallTyped
  <2>3. req[c].id = o /\ req[c].op \in Versioned
    BY <2>1, <2>2, CommitEffect, RequestFields DEF SafeInv, Ops
  <2>4. orders'[o].version = orders[o].version + 1
    BY <2>1, <2>3, CommitEffect DEF SafeInv
  <2>5. req[c].version = orders[o].version
    BY <2>2, <2>3 DEF SafeInv, LockInv, LockedRowsKept
  <2> QED
    BY <2>3, <2>4, <2>5
<1>2. SafeInv /\ [Next]_vars => [P]_vars
  BY <1>1
<1> QED
  BY <1>2, Safety, PTL DEF Spec, ExpectedVersionHonoured

\* A finished order keeps its status, though nothing in the UPDATE asks for it:
\* a status change that commits has read the very version it replaces.
THEOREM FinalStatus == Spec => TerminalIsFinal
<1> DEFINE P == \A o \in OrderIds :
                  orders[o].status \in Terminal => orders'[o].status = orders[o].status
<1>1. SafeInv /\ [Next]_vars => P
  <2> SUFFICES ASSUME SafeInv, [Next]_vars, NEW o \in OrderIds,
                      orders[o].status \in Terminal, orders'[o].status # orders[o].status
               PROVE  FALSE
    OBVIOUS
  <2>1. PICK c \in Calls : Commit(c)
    BY OnlyCommits
  <2>2. req[c] \in Requests /\ pc[c] = "commit"
    BY <2>1 DEF Commit, SafeInv, TypeInv, CallTyped
  <2>3. Exists(o)
    BY DEF Exists, Terminal
  <2>4. req[c].id = o /\ req[c].op \in Versioned
    BY <2>1, <2>2, <2>3, CommitEffect, RequestFields DEF SafeInv, Ops
  <2>5. orders[o] \in Rows \ {Absent}
    BY <2>3 DEF SafeInv, TypeInv, TypeOK, Exists, Absent
  <2>6. req[c].op = "status"
    BY <2>1, <2>4, <2>5, CommitEffect DEF SafeInv, NewRow, Versioned, Rows
  <2>7. seen[c].version = orders[o].version /\ seen[c].status = "PLANNED"
    BY <2>2, <2>4, <2>6 DEF SafeInv, LockInv, LockedRowsKept, StatusChecked, Deciding
  <2>8. orders[o].status = "PLANNED"
    BY <2>2, <2>4, <2>6, <2>7 DEF SafeInv, SnapshotsPast, Deciding
  <2> QED
    BY <2>8 DEF Terminal
<1>2. SafeInv /\ [Next]_vars => [P]_vars
  BY <1>1
<1> QED
  BY <1>2, Safety, PTL DEF Spec, TerminalIsFinal

-----------------------------------------------------------------------------
(* OrderService implements OrderLifecycle *)

\* A commit is one operation of OrderLifecycle.
LEMMA CommitIsAtomicStep == ASSUME SafeInv, NEW c \in Calls, Commit(c) PROVE Lifecycle!Next
<1> DEFINE r == req[c]
           o == req[c].id
<1>1. /\ r \in Requests /\ r.op \in Ops /\ o \in OrderIds /\ r.who \subseteq Performers
      /\ pc[c] = "commit"
  BY RequestFields DEF Commit, SafeInv, TypeInv, CallTyped
<1>2. /\ r.op # "create" => Exists(o)
      /\ r.op \in {"create", "update"} => r.body \in Bodies
      /\ r.op = "status" => r.next \in Terminal
  BY <1>1 DEF SafeInv, TypeInv, CallTyped, Deciding
<1>3. /\ orders \in [OrderIds -> Rows] /\ performers \in [OrderIds -> SUBSET Performers]
      /\ orders' = [orders EXCEPT ![o] = NewRow(r, orders[o])]
      /\ performers' = [performers EXCEPT ![o] = NewTeam(r, performers[o])]
  BY DEF Commit, SafeInv, TypeInv, TypeOK
<1>4. CASE r.op = "create"
  <2>1. ~Exists(o)
    BY <1>4, CommitEffect DEF SafeInv
  <2>2. orders' = [orders EXCEPT ![o] =
                     [status |-> "PLANNED", version |-> 1, body |-> Store(r.body)]]
    BY <1>3, <1>4 DEF NewRow
  <2>3. performers' = [performers EXCEPT ![o] = r.who]
    BY <1>3, <1>4 DEF NewTeam
  <2>4. Store(r.body) \in StoredBodies
    BY <1>2, <1>4, StoreType
  <2>5. Lifecycle!Create(o)
    BY <1>1, <2>1, <2>2, <2>3, <2>4 DEF Lifecycle!Create, Lifecycle!Exists, Exists
  <2> QED
    BY <1>1, <2>5 DEF Lifecycle!Next
<1>5. CASE r.op \in Versioned
  <2>1. performers' = performers
    BY <1>1, <1>3, <1>5 DEF NewTeam, Versioned
  <2>2. orders[o] \in [status : {"PLANNED"} \union Terminal, version : Nat, body : StoredBodies]
    BY <1>1, <1>2, <1>3, <1>5 DEF Rows, Exists, Absent, Versioned
  <2>3. CASE r.op = "update"
    <3>1. orders' = [orders EXCEPT ![o].body = Store(r.body), ![o].version = @ + 1]
      BY <1>1, <1>3, <2>2, <2>3 DEF NewRow
    <3>2. Store(r.body) \in StoredBodies
      BY <1>2, <2>3, StoreType
    <3>3. Lifecycle!Edit(o)
      BY <1>2, <2>1, <2>3, <3>1, <3>2 DEF Lifecycle!Edit, Lifecycle!Exists, Exists
    <3> QED
      BY <1>1, <3>3 DEF Lifecycle!Next
  <2>4. CASE r.op = "status"
    <3>1. orders' = [orders EXCEPT ![o].status = r.next, ![o].version = @ + 1]
      BY <1>1, <1>3, <2>2, <2>4 DEF NewRow
    <3>2. seen[c].version = orders[o].version /\ seen[c].status = "PLANNED"
      BY <1>1, <2>4
         DEF SafeInv, LockInv, LockedRowsKept, StatusChecked, Deciding, Versioned
    <3>3. orders[o].status = "PLANNED"
      BY <1>1, <2>4, <3>2 DEF SafeInv, SnapshotsPast, Deciding
    <3>4. Lifecycle!Finish(o)
      BY <1>2, <2>1, <2>4, <3>1, <3>3 DEF Lifecycle!Finish, Lifecycle!Terminal, Terminal
    <3> QED
      BY <1>1, <3>4 DEF Lifecycle!Next
  <2> QED
    BY <1>5, <2>3, <2>4 DEF Versioned
<1>6. CASE r.op \in Team
  <2>1. orders' = orders
    BY <1>1, <1>3, <1>6 DEF NewRow, Team
  <2>2. PICK p \in Performers : r.who = {p}
    BY <1>1, <1>6, RequestFields
  <2>3. CASE r.op = "assign"
    <3>1. p \notin performers[o]
      BY <1>1, <2>2, <2>3 DEF SafeInv, LockInv, LockedRowsKept
    <3>2. performers' = [performers EXCEPT ![o] = performers[o] \union {p}]
      BY <1>3, <2>2, <2>3 DEF NewTeam
    <3>3. Lifecycle!Assign(o, p)
      BY <1>2, <2>1, <2>3, <3>1, <3>2 DEF Lifecycle!Assign, Lifecycle!Exists, Exists
    <3> QED
      BY <1>1, <3>3 DEF Lifecycle!Next
  <2>4. CASE r.op = "unassign"
    <3>1. p \in performers[o]
      BY <1>1, <2>2, <2>4 DEF SafeInv, LockInv, LockedRowsKept
    <3>2. performers' = [performers EXCEPT ![o] = performers[o] \ {p}]
      BY <1>3, <2>2, <2>4 DEF NewTeam
    <3>3. Lifecycle!Unassign(o, p)
      BY <2>1, <3>1, <3>2 DEF Lifecycle!Unassign
    <3> QED
      BY <1>1, <3>3 DEF Lifecycle!Next
  <2> QED
    BY <1>6, <2>3, <2>4 DEF Team
<1> QED
  BY <1>1, <1>4, <1>5, <1>6 DEF Ops

\* The interleaved handlers implement operations that happen at one instant.
THEOREM Implementation == Spec => ImplementsLifecycle
<1>1. Init => Lifecycle!Init
  BY DEF Init, Lifecycle!Init, Absent, Lifecycle!Absent
<1>2. SafeInv /\ [Next]_vars => [Lifecycle!Next]_(Lifecycle!vars)
  <2> SUFFICES ASSUME SafeInv, [Next]_vars PROVE Lifecycle!Next \/ UNCHANGED Lifecycle!vars
    OBVIOUS
  <2>1. CASE UNCHANGED <<orders, performers>>
    BY <2>1 DEF Lifecycle!vars
  <2>2. CASE ~UNCHANGED <<orders, performers>>
    BY <2>2, OnlyCommits, CommitIsAtomicStep
  <2> QED
    BY <2>1, <2>2
<1> QED
  BY <1>1, <1>2, Safety, PTL DEF Spec, ImplementsLifecycle, Lifecycle!Spec

-----------------------------------------------------------------------------
(* The audit log *)

\* What a commit appends, and that every other history stays as it is.
LEMMA CommitHistory ==
  ASSUME SafeInv, NEW c \in Calls, Commit(c)
  PROVE  /\ \A o \in OrderIds \ {req[c].id} : history'[o] = history[o]
         /\ history'[req[c].id] = Append(history[req[c].id], HistoryRow(req[c], seen[c], began[c]))
<1>1. req[c].id \in OrderIds
  BY CommitRows DEF Commit, SafeInv
<1> QED
  BY <1>1 DEF Commit, SafeInv, TypeInv, TypeOK

RowsOf(s, A) == {i \in DOMAIN s : s[i].action \in A}

\* The rows with an action of A, after one more row.
LEMMA AppendRows ==
  ASSUME NEW s \in Seq(HistoryRows), NEW x \in HistoryRows, NEW A
  PROVE  /\ IsFiniteSet(RowsOf(s, A)) /\ Len(s) + 1 \notin RowsOf(s, A)
         /\ RowsOf(Append(s, x), A) = IF x.action \in A THEN RowsOf(s, A) \union {Len(s) + 1}
                                      ELSE RowsOf(s, A)
<1>1. DOMAIN s = 1..Len(s) /\ Len(s) \in Nat
  OBVIOUS
<1>2. RowsOf(s, A) \subseteq 1..Len(s)
  BY <1>1 DEF RowsOf
<1>3. IsFiniteSet(RowsOf(s, A)) /\ Len(s) + 1 \notin RowsOf(s, A)
  <2>1. IsFiniteSet(1..Len(s))
    BY <1>1, FS_Interval
  <2> QED
    BY <1>1, <1>2, <2>1, FS_Subset
<1>4. /\ DOMAIN Append(s, x) = 1..(Len(s) + 1)
      /\ \A i \in 1..Len(s) : Append(s, x)[i] = s[i]
      /\ Append(s, x)[Len(s) + 1] = x
  OBVIOUS
<1>5. RowsOf(Append(s, x), A) = IF x.action \in A THEN RowsOf(s, A) \union {Len(s) + 1}
                                ELSE RowsOf(s, A)
  BY <1>1, <1>4 DEF RowsOf
<1> QED
  BY <1>3, <1>5

VersionedActions == {"ORDER_UPDATED", "STATUS_CHANGED"}

\* The rows of an order that does not exist, and what the theorems below say.
AuditInv ==
  /\ \A o \in OrderIds : ~Exists(o) => history[o] = <<>>
  /\ VersionCountsChanges
  /\ StatusAudited

\* No order, no history.
LEMMA AuditInit == Init => AuditInv
BY DEF Init, AuditInv, VersionCountsChanges, StatusAudited, Exists, Absent, Terminal, StatusRows

\* The order a call is about: an equation the provers see only where they need it.
About(c, o) == req[c].id = o

\* The invariant after a commit, for the order the commit is about.
LEMMA AuditCommit ==
  ASSUME SafeInv, AuditInv, NEW c \in Calls, Commit(c), NEW o \in OrderIds, About(c, o)
  PROVE  /\ orders'[o].version = 1 + Cardinality(VersionedRows(o)')
         /\ IF orders'[o].status \in Terminal
              THEN \E i \in StatusRows(o)' :
                     /\ StatusRows(o)' = {i}
                     /\ history'[o][i].changes = {[old |-> "PLANNED", new |-> orders'[o].status]}
              ELSE StatusRows(o)' = {}
<1> DEFINE r == req[c]
           x == HistoryRow(req[c], seen[c], began[c])
           k == Len(history[o]) + 1
<1>1. r \in Requests /\ r.op \in Ops /\ pc[c] = "commit"
  BY RequestFields DEF Commit, SafeInv, TypeInv, CallTyped
<1>a. history[o] \in Seq(HistoryRows) /\ x \in HistoryRows
  BY CommitRows DEF Commit, SafeInv, TypeInv, TypeOK
<1>b. history'[o] = Append(history[o], x)
  BY CommitHistory DEF About
<1>2. /\ IsFiniteSet(VersionedRows(o)) /\ k \notin VersionedRows(o)
      /\ VersionedRows(o)' = IF x.action \in VersionedActions
                             THEN VersionedRows(o) \union {k} ELSE VersionedRows(o)
  <2>1. /\ VersionedRows(o) = RowsOf(history[o], VersionedActions)
        /\ VersionedRows(o)' = RowsOf(history'[o], VersionedActions)
    BY DEF VersionedRows, RowsOf, VersionedActions
  <2>2. /\ IsFiniteSet(RowsOf(history[o], VersionedActions))
        /\ k \notin RowsOf(history[o], VersionedActions)
        /\ RowsOf(Append(history[o], x), VersionedActions) =
             IF x.action \in VersionedActions
             THEN RowsOf(history[o], VersionedActions) \union {k}
             ELSE RowsOf(history[o], VersionedActions)
    BY <1>a, AppendRows
  <2> QED
    BY <1>b, <2>1, <2>2
<1>3. StatusRows(o)' = IF x.action \in {"STATUS_CHANGED"}
                       THEN StatusRows(o) \union {k} ELSE StatusRows(o)
  <2>1. /\ StatusRows(o) = RowsOf(history[o], {"STATUS_CHANGED"})
        /\ StatusRows(o)' = RowsOf(history'[o], {"STATUS_CHANGED"})
    BY DEF StatusRows, RowsOf
  <2>2. RowsOf(Append(history[o], x), {"STATUS_CHANGED"}) =
          IF x.action \in {"STATUS_CHANGED"} THEN RowsOf(history[o], {"STATUS_CHANGED"}) \union {k}
          ELSE RowsOf(history[o], {"STATUS_CHANGED"})
    BY <1>a, AppendRows
  <2> QED
    BY <1>b, <2>1, <2>2
<1>4. /\ x.action \in VersionedActions <=> r.op \in Versioned
      /\ x.action = "STATUS_CHANGED" <=> r.op = "status"
  BY <1>1 DEF HistoryRow, ActionOf, Ops, Versioned, Team, VersionedActions
<1>5. history'[o][k] = x /\ \A i \in DOMAIN history[o] : history'[o][i] = history[o][i]
  BY <1>a, <1>b
<1>6. CASE r.op = "create"
  <2>1. ~Exists(o) /\ history[o] = <<>>
    BY <1>6, CommitEffect DEF About, SafeInv, AuditInv
  <2>2. VersionedRows(o)' = {} /\ StatusRows(o)' = {}
    BY <1>2, <1>3, <1>4, <1>6, <2>1 DEF VersionedRows, StatusRows, Versioned
  <2>3. orders'[o].version = 1 /\ orders'[o].status = "PLANNED"
    <3>1. NewRow(r, orders[o]) = [status |-> "PLANNED", version |-> 1, body |-> Store(r.body)]
      BY <1>6 DEF NewRow
    <3>2. orders'[o] = NewRow(r, orders[o])
      BY CommitEffect DEF About, SafeInv
    <3> QED
      BY <3>1, <3>2
  <2> QED
    BY <2>2, <2>3, FS_EmptySet DEF Terminal
<1>7. CASE r.op \in Versioned
  <2>1. Exists(o) /\ orders[o] \in Rows \ {Absent} /\ orders[o].version \in Nat
    BY <1>1, <1>7 DEF About, SafeInv, TypeInv, TypeOK, CallTyped, Deciding, Versioned,
                      Exists, Rows, Absent
  <2>2. orders'[o].version = orders[o].version + 1
    BY <1>7, CommitEffect DEF About, SafeInv
  <2>3. Cardinality(VersionedRows(o)') = Cardinality(VersionedRows(o)) + 1
    BY <1>2, <1>4, <1>7, FS_AddElement
  <2>4. Cardinality(VersionedRows(o)) \in Nat
    BY <1>2, FS_CardinalityType
  <2>5. orders'[o].version = 1 + Cardinality(VersionedRows(o)')
    BY <2>1, <2>2, <2>3, <2>4 DEF AuditInv, VersionCountsChanges
  <2>6. CASE r.op = "update"
    <3>1. orders'[o].status = orders[o].status /\ StatusRows(o)' = StatusRows(o)
      BY <1>3, <1>4, <2>1, <2>6, CommitEffect, ZenonT(60) DEF About, SafeInv, NewRow, Rows
    <3>2. StatusRows(o) \subseteq DOMAIN history[o]
      BY DEF StatusRows
    <3> QED
      BY <1>5, <2>5, <3>1, <3>2 DEF AuditInv, StatusAudited
  <2>7. CASE r.op = "status"
    <3>1. seen[c].version = orders[o].version /\ seen[c].status = "PLANNED"
      BY <1>1, <2>7
         DEF About, SafeInv, LockInv, LockedRowsKept, StatusChecked, Deciding, Versioned
    <3>2. orders[o].status = "PLANNED"
      BY <1>1, <2>7, <3>1 DEF About, SafeInv, SnapshotsPast, Deciding
    <3>3. StatusRows(o)' = {k}
      BY <1>3, <1>4, <2>7, <3>2 DEF AuditInv, StatusAudited, Terminal
    <3>4. r.next \in Terminal /\ orders'[o].status = r.next
      BY <1>1, <2>1, <2>7, CommitEffect
         DEF About, SafeInv, TypeInv, CallTyped, Deciding, NewRow, Rows
    <3>5. history'[o][k].changes = {[old |-> "PLANNED", new |-> r.next]}
      BY <1>5, <2>7, <3>1 DEF HistoryRow, Changes
    <3> QED
      BY <2>5, <3>3, <3>4, <3>5
  <2> QED
    BY <1>7, <2>6, <2>7 DEF Versioned
<1>8. CASE r.op \in Team
  <2>1. orders'[o] = orders[o] /\ Exists(o)
    BY <1>1, <1>8, CommitEffect DEF About, SafeInv, TypeInv, CallTyped, Deciding, Team
  <2>2. VersionedRows(o)' = VersionedRows(o) /\ StatusRows(o)' = StatusRows(o)
    BY <1>2, <1>3, <1>4, <1>8 DEF Versioned, Team
  <2>3. StatusRows(o) \subseteq DOMAIN history[o]
    BY DEF StatusRows
  <2> QED
    BY <1>5, <2>1, <2>2, <2>3 DEF AuditInv, VersionCountsChanges, StatusAudited
<1> QED
  BY <1>1, <1>6, <1>7, <1>8 DEF Ops

\* Every step keeps the audit log complete.
LEMMA AuditNext == SafeInv /\ AuditInv /\ [Next]_vars => AuditInv'
<1> SUFFICES ASSUME SafeInv, AuditInv, [Next]_vars PROVE AuditInv'
  OBVIOUS
<1>1. CASE UNCHANGED <<orders, history>>
  BY <1>1 DEF AuditInv, VersionCountsChanges, StatusAudited, Exists, VersionedRows, StatusRows
<1>2. CASE ~UNCHANGED <<orders, history>>
  <2>1. PICK c \in Calls : Commit(c)
    <3>1. \A c \in Calls : Accept(c) => UNCHANGED <<orders, history>>
      BY DEF Accept, tables
    <3>2. \A c \in Calls : (Step(c) \/ Fail(c)) /\ ~Commit(c) => UNCHANGED <<orders, history>>
      BY MovingCall DEF tables, SafeInv
    <3> QED
      BY <1>2, <3>1, <3>2 DEF Next, Quiesce, vars
  <2>2. ASSUME NEW o \in OrderIds, o # req[c].id
        PROVE  orders'[o] = orders[o] /\ history'[o] = history[o]
    BY <2>1, <2>2, CommitEffect, CommitHistory DEF SafeInv
  <2>3. \A o \in OrderIds : o # req[c].id =>
          VersionedRows(o)' = VersionedRows(o) /\ StatusRows(o)' = StatusRows(o)
    BY <2>2 DEF VersionedRows, StatusRows
  <2>4. orders'[req[c].id].status # "NONE"
    BY <2>1, CommitEffect DEF SafeInv
  <2>5. \A o \in OrderIds : ~Exists(o)' => history'[o] = <<>>
    BY <2>2, <2>4 DEF AuditInv, Exists
  <2>6. VersionCountsChanges'
    BY <2>1, <2>2, <2>3, AuditCommit DEF About, AuditInv, VersionCountsChanges, Exists
  <2>7. StatusAudited'
    BY <2>1, <2>2, <2>3, AuditCommit DEF About, AuditInv, StatusAudited, StatusRows
  <2> QED
    BY <2>5, <2>6, <2>7 DEF AuditInv
<1> QED
  BY <1>1, <1>2

\* The audit log has one row for every version an order ever took.
THEOREM AuditComplete == Spec => []VersionCountsChanges
<1>1. AuditInv => VersionCountsChanges
  BY DEF AuditInv
<1> QED
  BY <1>1, AuditInit, AuditNext, Safety, PTL DEF Spec

\* The audit log explains the status of every order.
THEOREM AuditExplainsStatus == Spec => []StatusAudited
<1>1. AuditInv => StatusAudited
  BY DEF AuditInv
<1> QED
  BY <1>1, AuditInit, AuditNext, Safety, PTL DEF Spec

-----------------------------------------------------------------------------
(* What the events and the audit log tell about the order of changes that raced *)

\* The tables change by commits only.
LEMMA OnlyCommitsWrite ==
  ASSUME SafeInv, [Next]_vars, ~UNCHANGED tables
  PROVE  \E c \in Calls : Commit(c)
<1>1. \A c \in Calls : Accept(c) => UNCHANGED tables
  BY DEF Accept
<1>2. \A c \in Calls : (Step(c) \/ Fail(c)) /\ ~Commit(c) => UNCHANGED tables
  BY MovingCall DEF SafeInv
<1> QED
  BY <1>1, <1>2 DEF Next, Quiesce, vars, tables

-----------------------------------------------------------------------------
(* The events and the team *)

\* E holds the events of one performer, A the additions; "in" says who is on the team.
Replays(E, A, in) ==
  /\ in <=> \E i \in E : i \in A /\ \A k \in E : k <= i
  /\ \A j \in E : j \in A <=> \A i \in E : i < j /\ (\A k \in E : k <= i \/ k >= j) => i \notin A

Additions == {i \in DOMAIN outbox : Adds(i)}

TeamInv ==
  /\ \A o \in OrderIds : ~Exists(o) => performers[o] = {}
  /\ \A o \in OrderIds, p \in Performers : Replays(TeamEvents(o, p), Additions, p \in performers[o])

\* One more event, an addition exactly if the performer is not on the team.
LEMMA OneMore ==
  ASSUME NEW E \in SUBSET Nat, NEW A, NEW in \in BOOLEAN, Replays(E, A, in),
         NEW n \in Nat, \A i \in E : i < n,
         NEW B, \A i \in E : i \in B <=> i \in A, n \in B <=> ~in
  PROVE  Replays(E \union {n}, B, ~in)
<1> DEFINE F == E \union {n}
<1>1. \A i \in E : i \in Nat /\ i < n /\ ~(n < i) /\ ~(n <= i)
  OBVIOUS
<1>2. ~(n < n) /\ n <= n
  OBVIOUS
<1>3. (~in) <=> \E i \in F : i \in B /\ \A k \in F : k <= i
  <2>1. \A i \in F : (\A k \in F : k <= i) => i = n
    BY <1>1
  <2>2. \A k \in F : k <= n
    BY <1>1, <1>2
  <2> QED
    BY <2>1, <2>2
<1>4. ASSUME NEW j \in E
      PROVE  j \in B <=> \A i \in F : i < j /\ (\A k \in F : k <= i \/ k >= j) => i \notin B
  <2>1. \A i \in E : (\A k \in F : k <= i \/ k >= j) <=> (\A k \in E : k <= i \/ k >= j)
    BY <1>1
  <2>2. ~(n < j)
    BY <1>1
  <2>3. j \in A <=> \A i \in E : i < j /\ (\A k \in E : k <= i \/ k >= j) => i \notin A
    BY DEF Replays
  <2> QED
    BY <2>1, <2>2, <2>3
<1>5. n \in B <=> \A i \in F : i < n /\ (\A k \in F : k <= i \/ k >= n) => i \notin B
  <2>1. \A i \in E : (\A k \in F : k <= i \/ k >= n) <=> (\A k \in E : k <= i)
    BY <1>1, <1>2
  <2>2. in <=> \E i \in E : i \in A /\ \A k \in E : k <= i
    BY DEF Replays
  <2> QED
    BY <1>1, <1>2, <2>1, <2>2
<1> QED
  BY <1>3, <1>4, <1>5 DEF Replays

\* The events of a performer after a commit: one more, or the same.
LEMMA CommitEvents ==
  ASSUME SafeInv, NEW c \in Calls, Commit(c), NEW o \in OrderIds, NEW p \in Performers
  PROVE  LET r == req[c]
             n == Len(outbox) + 1
             mine == r.id = o /\ p \in r.who /\ r.op \in {"create"} \union Team
         IN /\ \A i \in TeamEvents(o, p) : i \in Nat /\ i < n /\ (i \in Additions' <=> i \in Additions)
            /\ n \in Nat /\ (n \in Additions' <=> r.op # "unassign")
            /\ mine => TeamEvents(o, p)' = TeamEvents(o, p) \union {n}
            /\ ~mine => TeamEvents(o, p)' = TeamEvents(o, p)
<1> DEFINE r == req[c]
           e == Event(req[c], seen[c], began[c])
           n == Len(outbox) + 1
           mine == r.id = o /\ p \in r.who /\ r.op \in {"create"} \union Team
           ours(x) == x.id = o /\ p \in x.performers /\ x.type \in {"create"} \union Team
<1>1. outbox \in Seq(Events) /\ e \in Events /\ outbox' = Append(outbox, e)
  BY CommitRows DEF Commit, SafeInv, TypeInv, TypeOK
<1>2. e.type = r.op /\ (mine <=> ours(e))
  BY DEF Event, Versioned, Team
<1> HIDE DEF e
<1>3. /\ n \in Nat /\ DOMAIN outbox = 1..(n - 1) /\ DOMAIN outbox' = 1..n
      /\ outbox'[n] = e /\ \A i \in 1..(n - 1) : outbox'[i] = outbox[i]
      /\ \A i : i \in 1..n <=> i \in 1..(n - 1) \/ i = n
      /\ \A i \in 1..(n - 1) : i \in Nat /\ i < n
      /\ n \notin 1..(n - 1)
  BY <1>1
<1> HIDE DEF n, mine
<1>4. TeamEvents(o, p) = {i \in 1..(n - 1) : ours(outbox[i])}
  BY <1>3 DEF TeamEvents
<1>5. TeamEvents(o, p)' = {i \in 1..n : ours(outbox'[i])}
  BY <1>3 DEF TeamEvents
<1>6. Additions' = {i \in 1..n : outbox'[i].type # "unassign"}
  BY <1>3 DEF Additions, Adds
<1>7. Additions = {i \in 1..(n - 1) : outbox[i].type # "unassign"}
  BY <1>3 DEF Additions, Adds
<1>8. n \in Additions' <=> r.op # "unassign"
  BY <1>2, <1>3, <1>6
<1> HIDE DEF ours
<1>9. \A i \in TeamEvents(o, p) : i \in Nat /\ i < n /\ (i \in Additions' <=> i \in Additions)
  BY <1>3, <1>4, <1>6, <1>7
<1>10. mine => TeamEvents(o, p)' = TeamEvents(o, p) \union {n}
  BY <1>2, <1>3, <1>4, <1>5
<1>11. ~mine => TeamEvents(o, p)' = TeamEvents(o, p)
  BY <1>2, <1>3, <1>4, <1>5
<1> QED
  BY <1>3, <1>8, <1>9, <1>10, <1>11 DEF n, mine

\* Whatever commits, the events still say who is on the team.
LEMMA TeamCommit ==
  ASSUME SafeInv, TeamInv, NEW c \in Calls, Commit(c), NEW o \in OrderIds, NEW p \in Performers
  PROVE  Replays(TeamEvents(o, p)', Additions', p \in performers'[o])
<1> DEFINE r == req[c]
           n == Len(outbox) + 1
           E == TeamEvents(o, p)
           mine == r.id = o /\ p \in r.who /\ r.op \in {"create"} \union Team
<1>1. /\ \A i \in E : i \in Nat /\ i < n /\ (i \in Additions' <=> i \in Additions)
      /\ n \in Nat /\ (n \in Additions' <=> r.op # "unassign")
      /\ mine => TeamEvents(o, p)' = E \union {n}
      /\ ~mine => TeamEvents(o, p)' = E
  BY CommitEvents
<1>2. Replays(E, Additions, p \in performers[o])
  BY DEF TeamInv
<1>3. r \in Requests /\ r.op \in Ops /\ pc[c] = "commit"
  BY RequestFields DEF Commit, SafeInv, TypeInv, CallTyped
<1>4. p \in performers'[o] <=> IF mine THEN r.op # "unassign" ELSE p \in performers[o]
  <2>1. CASE r.id # o
    BY <2>1, CommitEffect DEF SafeInv
  <2>2. CASE r.id = o
    <3>1. performers'[o] = NewTeam(r, performers[o]) /\ (r.op = "create" => performers[o] = {})
      BY <2>2, CommitEffect DEF SafeInv, TeamInv
    <3> QED
      BY <1>3, <2>2, <3>1 DEF NewTeam, Ops, Versioned, Team
  <2> QED
    BY <2>1, <2>2
<1>5. mine => (p \in performers[o] <=> r.op = "unassign")
  <2> SUFFICES ASSUME mine PROVE p \in performers[o] <=> r.op = "unassign"
    OBVIOUS
  <2>1. CASE r.op = "create"
    BY <2>1, CommitEffect DEF SafeInv, TeamInv
  <2>2. CASE r.op \in Team
    BY <1>3, <2>2 DEF SafeInv, LockInv, LockedRowsKept, Team
  <2> QED
    BY <2>1, <2>2
<1> HIDE DEF mine, E, n
<1>6. CASE ~mine
  <2>1. TeamEvents(o, p)' = E /\ (p \in performers'[o] <=> p \in performers[o])
    BY <1>1, <1>4, <1>6
  <2>2. \A i \in E : i \in Additions' <=> i \in Additions
    BY <1>1
  <2> QED
    BY <1>2, <2>1, <2>2 DEF Replays
<1>7. CASE mine
  <2> DEFINE in == p \in performers[o]
  <2>1. in \in BOOLEAN /\ E \in SUBSET Nat /\ Replays(E, Additions, in)
    BY <1>1, <1>2
  <2>2. p \in performers'[o] <=> ~in
    BY <1>4, <1>5, <1>7
  <2>3. n \in Additions' <=> ~in
    BY <1>1, <1>5, <1>7
  <2> HIDE DEF in
  <2>4. Replays(E \union {n}, Additions', ~in)
    BY <1>1, <2>1, <2>3, OneMore, ZenonT(60)
  <2>5. TeamEvents(o, p)' = E \union {n}
    BY <1>1, <1>7
  <2> QED
    BY <2>2, <2>4, <2>5 DEF Replays
<1> QED
  BY <1>6, <1>7

LEMMA TeamNext == SafeInv /\ TeamInv /\ [Next]_vars => TeamInv'
<1> SUFFICES ASSUME SafeInv, TeamInv, [Next]_vars PROVE TeamInv'
  OBVIOUS
<1>1. CASE UNCHANGED tables
  BY <1>1 DEF tables, TeamInv, TeamEvents, Additions, Adds, Exists
<1>2. CASE ~UNCHANGED tables
  <2>1. PICK c \in Calls : Commit(c)
    BY <1>2, OnlyCommitsWrite
  <2>2. \A o \in OrderIds : ~Exists(o)' => performers'[o] = {}
    BY <2>1, CommitEffect DEF SafeInv, TeamInv, Exists
  <2>3. ASSUME NEW o \in OrderIds, NEW p \in Performers
        PROVE  Replays(TeamEvents(o, p), Additions, p \in performers[o])'
    <3>1. Replays(TeamEvents(o, p)', Additions', p \in performers'[o])
      BY <2>1, TeamCommit
    <3> QED
      BY <3>1 DEF Replays
  <2> QED
    BY <2>2, <2>3 DEF TeamInv
<1> QED
  BY <1>1, <1>2

\* A consumer that applies the events of assignments in commit order has the team,
\* whatever assignments race.
THEOREM TeamFromEvents == Spec => []TeamReplay
<1>1. Init => TeamInv
  <2> SUFFICES ASSUME Init PROVE TeamInv
    OBVIOUS
  <2>1. (\A o, p : TeamEvents(o, p) = {}) /\ \A o \in OrderIds : performers[o] = {}
    BY DEF Init, TeamEvents
  <2> QED
    <3>1. ASSUME NEW o \in OrderIds, NEW p \in Performers
          PROVE  Replays(TeamEvents(o, p), Additions, p \in performers[o])
      <4>1. TeamEvents(o, p) = {} /\ performers[o] = {}
        BY <2>1
      <4> QED
        BY <4>1 DEF Replays
    <3> QED
      BY <2>1, <3>1 DEF TeamInv
<1>2. TeamInv => TeamReplay
  <2> SUFFICES ASSUME TeamInv, NEW o \in OrderIds, NEW p \in Performers
               PROVE  LET E == TeamEvents(o, p) IN
                      /\ p \in performers[o] <=> \E i \in E : Adds(i) /\ \A k \in E : k <= i
                      /\ \A j \in E : Adds(j) <=> \A i \in E :
                                        i < j /\ (\A k \in E : k <= i \/ k >= j) => ~Adds(i)
    BY DEF TeamReplay
  <2>1. \A i \in TeamEvents(o, p) : i \in Additions <=> Adds(i)
    BY DEF TeamEvents, Additions
  <2>2. Replays(TeamEvents(o, p), Additions, p \in performers[o])
    BY DEF TeamInv
  <2> QED
    BY <2>1, <2>2 DEF Replays
<1> QED
  BY <1>1, <1>2, TeamNext, Safety, PTL DEF Spec

-----------------------------------------------------------------------------
(* Clients that send versions they have seen *)

VersionedIn(h) == {i \in DOMAIN h : h[i].action \in {"ORDER_UPDATED", "STATUS_CHANGED"}}

\* The creation and the versioned changes in the history h began before t.
Older(h, t) == \A j \in DOMAIN h : j = 1 \/ j \in VersionedIn(h) => h[j].at < t

Clocked ==
  /\ \A c \in Calls : began[c] <= clock
  /\ \A o \in OrderIds : \A j \in DOMAIN history[o] : history[o][j].at <= clock

Founded ==
  \A o \in OrderIds : IF Exists(o) THEN history[o] # <<>> /\ history[o][1].action = "ORDER_CREATED"
                      ELSE history[o] = <<>>

\* A versioned request is about a version that is past or present, and if it is
\* still present at the commit then nothing versioned happened since the request came.
CallAged(c) ==
  pc[c] # "idle" /\ req[c].op \in Versioned =>
    /\ req[c].version <= orders[req[c].id].version
    /\ pc[c] \in {"team"} \union Deciding => req[c].version <= seen[c].version
    /\ pc[c] \in {"exec", "commit"} /\ req[c].version = orders[req[c].id].version =>
         Older(history[req[c].id], began[c])

Honest == \A c \in Calls : CallAged(c)

\* HistoryOrdered and AuditTrail, as facts about one history h and the value a of its row.
Ordered(h) ==
  \A j \in VersionedIn(h) :
    /\ h[1].action = "ORDER_CREATED"
    /\ h[1].at < h[j].at
    /\ \A i \in VersionedIn(h) : i < j => h[i].at < h[j].at

DiffIn(h) == {i \in DOMAIN h : h[i].action = "ORDER_UPDATED" /\ h[i].changes # {}}
OldIn(h, i) == (CHOOSE ch \in h[i].changes : TRUE).old
NewIn(h, i) == (CHOOSE ch \in h[i].changes : TRUE).new
Trail(h, a) ==
  /\ \A i, j \in DiffIn(h) :
       i < j /\ (\A k \in DiffIn(h) : k <= i \/ k >= j) => OldIn(h, j) = Stored[NewIn(h, i)]
  /\ \A i \in DiffIn(h) : (\A k \in DiffIn(h) : k <= i) => a = Stored[NewIn(h, i)]

Told == \A o \in OrderIds : Ordered(history[o]) /\ Trail(history[o], orders[o].body.audited)
TrailInv == Clocked /\ Founded /\ (HonestClients => Honest /\ Told)

LEMMA TrailInit == Init => TrailInv
<1> SUFFICES ASSUME Init PROVE TrailInv
  OBVIOUS
<1>1. \A o \in OrderIds : /\ history[o] = <<>> /\ ~Exists(o)
                            /\ VersionedIn(history[o]) = {} /\ DiffIn(history[o]) = {}
  BY DEF Init, VersionedIn, DiffIn, Exists, Absent
<1>2. Clocked /\ Founded
  BY <1>1 DEF Init, Clocked, Founded
<1>3. Honest
  BY DEF Init, Honest, CallAged
<1>4. Told
  BY <1>1 DEF Told, Ordered, Trail
<1> QED
  BY <1>2, <1>3, <1>4 DEF TrailInv

\* With the tables as they are, it is enough to look at the call that moved.
LEMMA TrailSame ==
  ASSUME SafeInv, TrailInv, NEW c \in Calls, Accept(c) \/ Step(c) \/ Fail(c), UNCHANGED tables,
         clock' \in {clock, clock + 1}, began'[c] <= clock', HonestClients => CallAged(c)'
  PROVE  TrailInv'
<1>1. \A d \in Calls \ {c} : pc'[d] = pc[d] /\ req'[d] = req[d] /\ seen'[d] = seen[d] /\ began'[d] = began[d]
  BY OtherCalls DEF SafeInv
<1>2. clock \in Nat /\ history \in [OrderIds -> Seq(HistoryRows)] /\ began \in [Calls -> Nat]
  BY DEF SafeInv, TypeInv, TypeOK
<1>3. \A o \in OrderIds : \A j \in DOMAIN history[o] : history[o][j].at \in Nat
  <2> SUFFICES ASSUME NEW o \in OrderIds, NEW j \in DOMAIN history[o] PROVE history[o][j].at \in Nat
    OBVIOUS
  <2>1. history[o] \in Seq(HistoryRows)
    BY <1>2
  <2>2. history[o][j] \in HistoryRows
    BY <2>1
  <2> QED
    BY <2>2 DEF HistoryRows
<1>4. Clocked'
  BY <1>1, <1>2, <1>3 DEF Clocked, TrailInv, tables
<1>5. Founded' /\ (HonestClients => Told')
  BY DEF tables, TrailInv, Founded, Exists, Told
<1>7. ASSUME HonestClients, NEW d \in Calls, d # c PROVE CallAged(d)'
  <2>1. CallAged(d)
    BY <1>7 DEF TrailInv, Honest
  <2> QED
    BY <1>1, <1>7, <2>1 DEF CallAged, tables, Deciding
<1> QED
  BY <1>4, <1>5, <1>7 DEF TrailInv, Honest

LEMMA TrailAccept == ASSUME SafeInv, TrailInv, NEW c \in Calls, Accept(c) PROVE TrailInv'
<1>1. PICK r \in Requests : /\ HonestClients /\ r.op \in Versioned => r.version <= orders[r.id].version
                            /\ req'[c] = r /\ pc'[c] = First(r)
  BY DEF Accept, Goto, SafeInv, TypeInv, TypeOK
<1>2. UNCHANGED <<tables, clock, began>>
  BY DEF Accept
<1>3. r.op \in Versioned => pc'[c] = "read"
  BY <1>1 DEF First, Versioned
<1>4. HonestClients => CallAged(c)'
  BY <1>1, <1>2, <1>3 DEF CallAged, tables, Deciding
<1> QED
  BY <1>2, <1>4, TrailSame DEF TrailInv, Clocked

LEMMA TrailStep ==
  ASSUME SafeInv, TrailInv, NEW c \in Calls, Step(c) \/ Fail(c), ~Commit(c)
  PROVE  TrailInv'
<1>1. UNCHANGED tables /\ pc[c] # "idle" /\ (pc'[c] # "idle" => req'[c] = req[c]) /\ req[c].id \in OrderIds
  BY MovingCall, RequestFields DEF SafeInv, TypeInv, CallTyped
<1>2. /\ pc \in [Calls -> Labels] /\ seen \in [Calls -> Snapshots] /\ began \in [Calls -> Nat] /\ clock \in Nat
      /\ history \in [OrderIds -> Seq(HistoryRows)]
  BY DEF SafeInv, TypeInv, TypeOK
<1>3. HonestClients => CallAged(c)
  BY DEF TrailInv, Honest
<1>4. CASE Return(c) /\ clock' = clock
  <2>1. pc'[c] = "idle" /\ began'[c] = 0
    BY <1>2, <1>4 DEF Return
  <2> QED
    BY <1>1, <1>2, <1>4, <2>1, TrailSame DEF CallAged
<1>5. CASE GetOrder(c) /\ Exists(req[c].id)
  <2>1. /\ pc'[c] = "team" /\ seen'[c].version = orders[req[c].id].version
        /\ UNCHANGED <<clock, began>>
    BY <1>2, <1>5 DEF GetOrder, Goto
  <2>2. HonestClients => CallAged(c)'
    BY <1>1, <1>3, <2>1 DEF CallAged, tables
  <2> QED
    BY <1>1, <2>1, <2>2, TrailSame DEF TrailInv, Clocked
<1>6. CASE GetTeam(c) /\ Passes(req[c], seen[c])
  <2>1. /\ pc[c] = "team" /\ pc'[c] \in {"lookup", "begin"} /\ seen'[c].version = seen[c].version
        /\ UNCHANGED <<clock, began>>
    BY <1>2, <1>6 DEF GetTeam, Goto, Snapshots
  <2>2. HonestClients => CallAged(c)'
    BY <1>1, <1>3, <2>1 DEF CallAged, tables, Deciding
  <2> QED
    BY <1>1, <2>1, <2>2, TrailSame DEF TrailInv, Clocked
<1>7. CASE Lookup(c) /\ Goto(c, "begin") /\ UNCHANGED <<req, seen, began>>
  <2>1. pc[c] = "lookup" /\ pc'[c] = "begin" /\ UNCHANGED <<clock, began, seen>>
    BY <1>2, <1>7 DEF Lookup, Goto
  <2>2. HonestClients => CallAged(c)'
    BY <1>1, <1>3, <2>1 DEF CallAged, tables, Deciding
  <2> QED
    BY <1>1, <2>1, <2>2, TrailSame DEF TrailInv, Clocked
<1>8. CASE Begin(c)
  <2>1. pc[c] = "begin" /\ pc'[c] = "exec" /\ clock' = clock + 1 /\ began'[c] = clock + 1 /\ seen' = seen
    BY <1>2, <1>8 DEF Begin, Goto
  <2>2. \A j \in DOMAIN history[req[c].id] : history[req[c].id][j].at < clock + 1
    <3> SUFFICES ASSUME NEW j \in DOMAIN history[req[c].id] PROVE history[req[c].id][j].at < clock + 1
      OBVIOUS
    <3>1. history[req[c].id] \in Seq(HistoryRows)
      BY <1>1, <1>2
    <3>2. history[req[c].id][j] \in HistoryRows
      BY <3>1
    <3>3. history[req[c].id][j].at \in Nat /\ history[req[c].id][j].at <= clock
      BY <1>1, <3>2 DEF HistoryRows, TrailInv, Clocked
    <3> QED
      BY <1>2, <3>3
  <2>3. HonestClients => CallAged(c)'
    BY <1>1, <1>3, <2>1, <2>2 DEF CallAged, tables, Deciding, Older
  <2> QED
    BY <1>1, <1>2, <2>1, <2>3, TrailSame
<1>9. CASE Exec(c) /\ Applies(req[c], seen[c])
  <2>1. pc[c] = "exec" /\ pc'[c] = "commit" /\ UNCHANGED <<clock, began, seen>>
    BY <1>2, <1>9 DEF Exec, Goto
  <2>2. HonestClients => CallAged(c)'
    BY <1>1, <1>3, <2>1 DEF CallAged, tables, Deciding
  <2> QED
    BY <1>1, <2>1, <2>2, TrailSame DEF TrailInv, Clocked
<1> QED
  BY <1>4, <1>5, <1>6, <1>7, <1>8, <1>9 DEF Step, GetOrder, GetTeam, Lookup, Exec, Fail

-----------------------------------------------------------------------------
(* A commit and the audit log *)

\* The row a commit appends, and the rows before it.
LEMMA CommitRow ==
  ASSUME SafeInv, NEW c \in Calls, Commit(c), NEW o \in OrderIds, About(c, o)
  PROVE  LET x == HistoryRow(req[c], seen[c], began[c])
             k == Len(history[o]) + 1
         IN /\ k \in Nat \ {0} /\ DOMAIN history[o] = 1..(k - 1) /\ DOMAIN history'[o] = 1..k
            /\ history'[o][k] = x /\ \A i \in 1..(k - 1) : history'[o][i] = history[o][i]
            /\ \A i \in 1..(k - 1) : history[o][i].at \in Nat
            /\ VersionedIn(history[o]) \subseteq 1..(k - 1) /\ DiffIn(history[o]) \subseteq 1..(k - 1)
            /\ VersionedIn(history'[o]) = IF req[c].op \in Versioned THEN VersionedIn(history[o]) \union {k}
                                   ELSE VersionedIn(history[o])
            /\ DiffIn(history'[o]) = IF req[c].op = "update" /\ x.changes # {}
                              THEN DiffIn(history[o]) \union {k} ELSE DiffIn(history[o])
<1> DEFINE x == HistoryRow(req[c], seen[c], began[c])
           k == Len(history[o]) + 1
<1>1. history[o] \in Seq(HistoryRows) /\ x \in HistoryRows /\ history'[o] = Append(history[o], x)
  BY CommitRows, CommitHistory DEF About, Commit, SafeInv, TypeInv, TypeOK
<1>2. req[c].op \in Ops
  BY RequestFields DEF Commit, SafeInv, TypeInv, CallTyped
<1>3. /\ x.action \in {"ORDER_UPDATED", "STATUS_CHANGED"} <=> req[c].op \in Versioned
      /\ x.action = "ORDER_UPDATED" <=> req[c].op = "update"
  BY <1>2 DEF HistoryRow, ActionOf, Ops, Versioned, Team
<1> HIDE DEF x
<1>4. /\ k \in Nat \ {0} /\ DOMAIN history[o] = 1..(k - 1) /\ DOMAIN history'[o] = 1..k
      /\ history'[o][k] = x /\ \A i \in 1..(k - 1) : history'[o][i] = history[o][i]
  BY <1>1
<1>5. \A i \in 1..(k - 1) : history[o][i].at \in Nat
  <2>1. \A i \in 1..(k - 1) : history[o][i] \in HistoryRows
    BY <1>1
  <2> QED
    BY <2>1 DEF HistoryRows
<1>6. \A i : i \in 1..k <=> i \in 1..(k - 1) \/ i = k
  BY <1>4
<1>7. k \notin 1..(k - 1)
  BY <1>4
<1> HIDE DEF k
<1>8. VersionedIn(history[o]) \subseteq 1..(k - 1) /\ DiffIn(history[o]) \subseteq 1..(k - 1)
  BY <1>4 DEF VersionedIn, DiffIn
<1>9. VersionedIn(history'[o]) = IF req[c].op \in Versioned THEN VersionedIn(history[o]) \union {k}
                          ELSE VersionedIn(history[o])
  <2>1. VersionedIn(history'[o]) = {i \in 1..k : history'[o][i].action \in {"ORDER_UPDATED", "STATUS_CHANGED"}}
    BY <1>4 DEF VersionedIn
  <2> QED
    BY <1>3, <1>4, <1>6, <2>1 DEF VersionedIn
<1>10. DiffIn(history'[o]) = IF req[c].op = "update" /\ x.changes # {}
                      THEN DiffIn(history[o]) \union {k} ELSE DiffIn(history[o])
  <2>1. DiffIn(history'[o]) = {i \in 1..k : history'[o][i].action = "ORDER_UPDATED" /\ history'[o][i].changes # {}}
    BY <1>4 DEF DiffIn
  <2> QED
    BY <1>3, <1>4, <1>6, <2>1 DEF DiffIn
<1> QED
  BY <1>4, <1>5, <1>8, <1>9, <1>10 DEF x, k

\* A versioned change that commits comes after all there were.
LEMMA HistoryCommit ==
  ASSUME SafeInv, TrailInv, HonestClients, NEW c \in Calls, Commit(c), NEW o \in OrderIds, About(c, o)
  PROVE  Ordered(history'[o])
<1> DEFINE k == Len(history[o]) + 1
           x == HistoryRow(req[c], seen[c], began[c])
<1>1. /\ k \in Nat \ {0} /\ DOMAIN history[o] = 1..(k - 1)
      /\ history'[o][k] = x /\ \A i \in 1..(k - 1) : history'[o][i] = history[o][i]
      /\ VersionedIn(history[o]) \subseteq 1..(k - 1)
      /\ VersionedIn(history'[o]) = IF req[c].op \in Versioned THEN VersionedIn(history[o]) \union {k}
                             ELSE VersionedIn(history[o])
  BY CommitRow
<1>2. x.at = began[c]
  BY DEF HistoryRow
<1> HIDE DEF k, x
<1>3. \A j \in VersionedIn(history[o]) : 1 \in 1..(k - 1) /\ j \in 1..(k - 1)
  BY <1>1
<1>4. Ordered(history[o])
  BY DEF TrailInv, Told
<1>5. CASE req[c].op \notin Versioned
  BY <1>1, <1>3, <1>4, <1>5 DEF Ordered
<1>6. CASE req[c].op \in Versioned
  <2>1. pc[c] = "commit" /\ req[c].version = orders[o].version
    BY <1>6 DEF Commit, About, SafeInv, LockInv, LockedRowsKept
  <2>2. Older(history[o], began[c])
    BY <1>6, <2>1 DEF About, TrailInv, Honest, CallAged
  <2>3. history[o] # <<>> /\ history[o][1].action = "ORDER_CREATED"
    BY <1>6, <2>1 DEF About, SafeInv, TypeInv, CallTyped, Deciding, Versioned, TrailInv, Founded
  <2>4. 1 \in 1..(k - 1)
    <3>1. history[o] \in Seq(HistoryRows)
      BY DEF SafeInv, TypeInv, TypeOK
    <3> QED
      BY <2>3, <3>1 DEF k
  <2>5. \A i \in 1..(k - 1) : i = 1 \/ i \in VersionedIn(history[o]) => history'[o][i].at < history'[o][k].at
    BY <1>1, <1>2, <2>2 DEF Older
  <2>6. \A i \in VersionedIn(history[o]) : ~(k < i)
    BY <1>1, <1>3
  <2>7. ~(k < k)
    BY <1>1
  <2> QED
    BY <1>1, <1>3, <1>4, <1>6, <2>3, <2>4, <2>5, <2>6, <2>7 DEF Ordered
<1> QED
  BY <1>5, <1>6

\* What an order's audited fields read back as is stored already.
LEMMA StoredTwice ==
  ASSUME SafeInv, NEW o \in OrderIds, Exists(o)
  PROVE  orders[o].body.audited \in Audited /\ Stored[orders[o].body.audited] = orders[o].body.audited
<1>1. orders[o].body \in StoredBodies
  BY DEF SafeInv, TypeInv, TypeOK, Rows, Exists, Absent
<1>2. PICK b \in Bodies : orders[o].body = Store(b)
  BY <1>1 DEF StoredBodies
<1>3. orders[o].body.audited = Stored[b.audited] /\ b.audited \in Audited
  BY <1>2 DEF Store, Bodies
<1> QED
  BY <1>3, StoredAssumption

\* The diff that an update appends starts at the row and ends at the row it writes.
LEMMA DiffCommit ==
  ASSUME SafeInv, TrailInv, HonestClients, NEW c \in Calls, Commit(c), NEW o \in OrderIds, About(c, o)
  PROVE  Trail(history'[o], orders'[o].body.audited)
<1> DEFINE n == Len(history[o]) + 1
           x == HistoryRow(req[c], seen[c], began[c])
           h == history[o]
           g == history'[o]
           D == DiffIn(history[o])
           F == DiffIn(history'[o])
           v == orders[o].body.audited
           w == orders'[o].body.audited
           r == req[c]
           s == seen[c]
<1>1. /\ n \in Nat \ {0}
      /\ history'[o][n] = x /\ \A i \in 1..(n - 1) : history'[o][i] = history[o][i]
      /\ D \subseteq 1..(n - 1)
      /\ F = IF r.op = "update" /\ x.changes # {} THEN D \union {n} ELSE D
  BY CommitRow
<1>2. \A i \in D : OldIn(g, i) = OldIn(h, i) /\ NewIn(g, i) = NewIn(h, i)
  BY <1>1 DEF OldIn, NewIn
<1>3. /\ \A i, j \in D : i < j /\ (\A k \in D : k <= i \/ k >= j) => OldIn(h, j) = Stored[NewIn(h, i)]
      /\ \A i \in D : (\A k \in D : k <= i) => v = Stored[NewIn(h, i)]
  BY DEF TrailInv, Told, Trail
<1>4. r \in Requests /\ r.op \in Ops /\ pc[c] = "commit" /\ r.id = o
  BY RequestFields DEF Commit, SafeInv, TypeInv, CallTyped, About
<1>5. orders'[o] = NewRow(r, orders[o])
  BY CommitEffect DEF About, SafeInv
<1>6. x.changes = Changes(r, s)
  BY DEF HistoryRow
<1> HIDE DEF n, x, D, F, h, g, v, w
<1>7. CASE r.op = "create"
  <2>1. history[o] = <<>>
    BY <1>4, <1>7, CommitEffect DEF SafeInv, TrailInv, Founded
  <2>2. D = {}
    BY <2>1 DEF D, DiffIn
  <2>3. F = {}
    BY <1>1, <1>7, <2>2
  <2> QED
    BY <2>3 DEF F, Trail
<1>8. CASE r.op \in Team \union {"status"}
  <2>1. F = D
    BY <1>1, <1>8 DEF Team
  <2>2. orders'[o].body = orders[o].body
    <3>1. r.op \in Team => NewRow(r, orders[o]) = orders[o]
      BY DEF NewRow, Team
    <3>2. orders[o] \in Rows \ {Absent}
      BY <1>4, <1>8, SMTT(30) DEF SafeInv, TypeInv, TypeOK, CallTyped, Deciding, Exists, Absent, Team
    <3>3. r.op = "status" => NewRow(r, orders[o]).body = orders[o].body
      BY <3>2 DEF NewRow, Rows
    <3> QED
      BY <1>5, <1>8, <3>1, <3>3
  <2> QED
    <3>1. w = v
      BY <2>2 DEF v, w
    <3> QED
      BY <1>2, <1>3, <2>1, <3>1 DEF D, F, g, h, v, w, Trail
<1>9. CASE r.op = "update"
  <2>1. Exists(o) /\ r.body \in Bodies
    BY <1>4, <1>9 DEF SafeInv, TypeInv, CallTyped, Deciding
  <2>2. s.body = orders[o].body
    <3>1. r.version = orders[o].version
      BY <1>4, <1>9 DEF SafeInv, LockInv, LockedRowsKept, Versioned
    <3>2. r.version <= s.version
      BY <1>4, <1>9 DEF TrailInv, Honest, CallAged, Deciding, Versioned
    <3>3. s.version <= orders[o].version /\ (s.version = orders[o].version => s.body = orders[o].body)
      BY <1>4, <1>9 DEF SafeInv, SnapshotsPast, Deciding
    <3>4. s.version \in Nat /\ orders[o].version \in Nat
      BY <2>1, RowType DEF SafeInv, TypeInv, TypeOK, Snapshots
    <3> QED
      BY <3>1, <3>2, <3>3, <3>4
  <2>3. orders'[o].body.audited = Stored[r.body.audited]
    <3>1. orders[o] \in Rows \ {Absent}
      BY <2>1 DEF SafeInv, TypeInv, TypeOK, Exists, Absent
    <3>2. NewRow(r, orders[o]).body = Store(r.body)
      BY <1>9, <3>1 DEF NewRow, Rows
    <3>3. Store(r.body).audited = Stored[r.body.audited]
      BY <2>1 DEF Store, Bodies
    <3> QED
      BY <1>5, <3>2, <3>3
  <2>4. CASE s.body.audited = r.body.audited
    <3>1. F = D
      BY <1>1, <1>6, <1>9, <2>4 DEF Changes
    <3>2. orders'[o].body.audited = orders[o].body.audited
      BY <2>1, <2>2, <2>3, <2>4, StoredTwice
    <3> QED
      <4>1. w = v
        BY <3>2 DEF v, w
      <4> QED
        BY <1>2, <1>3, <3>1, <4>1 DEF D, F, g, h, v, w, Trail
  <2>5. CASE s.body.audited # r.body.audited
    <3>1. x.changes = {[old |-> s.body.audited, new |-> r.body.audited]}
      BY <1>6, <1>9, <2>5 DEF Changes
    <3>2. F = D \union {n}
      BY <1>1, <1>9, <3>1
    <3>3. OldIn(g, n) = s.body.audited /\ NewIn(g, n) = r.body.audited
      <4>1. (CHOOSE ch \in x.changes : TRUE) = [old |-> s.body.audited, new |-> r.body.audited]
        BY <3>1
      <4> QED
        <5>1. g[n].changes = x.changes
          BY <1>1 DEF g
        <5>2. /\ OldIn(g, n) = (CHOOSE ch \in x.changes : TRUE).old
              /\ NewIn(g, n) = (CHOOSE ch \in x.changes : TRUE).new
          BY <5>1 DEF OldIn, NewIn
        <5> DEFINE y == [old |-> s.body.audited, new |-> r.body.audited]
        <5>3. y.old = s.body.audited /\ y.new = r.body.audited
          OBVIOUS
        <5>4. (CHOOSE ch \in x.changes : TRUE) = y
          BY <4>1
        <5> HIDE DEF y
        <5> QED
          BY <5>2, <5>3, <5>4
    <3>4. \A i \in D : i < n /\ ~(n <= i) /\ ~(n < i)
      BY <1>1
    <3>5. \A i, j \in D : (\A k \in F : k <= i \/ k >= j) <=> (\A k \in D : k <= i \/ k >= j)
      BY <1>1, <3>2, <3>4
    <3>6. \A i \in D : (\A k \in F : k <= i \/ k >= n) <=> (\A k \in D : k <= i)
      BY <1>1, <3>2, <3>4
    <3>7. ~(n < n)
      BY <1>1
    <3>8. ASSUME NEW i \in F, NEW j \in F, i < j, \A k \in F : k <= i \/ k >= j
          PROVE  OldIn(g, j) = Stored[NewIn(g, i)]
      <4>1. i \in D
        BY <3>2, <3>4, <3>7, <3>8
      <4>2. CASE j = n
        <5>1. OldIn(g, n) = v
          BY <2>2, <3>3 DEF v
        <5> QED
          BY <1>2, <1>3, <3>6, <3>8, <4>1, <4>2, <5>1
      <4>3. CASE j \in D
        BY <1>2, <1>3, <3>5, <3>8, <4>1, <4>3
      <4> QED
        BY <3>2, <4>2, <4>3
    <3>9. ASSUME NEW i \in F, \A k \in F : k <= i
          PROVE  w = Stored[NewIn(g, i)]
      <4>1. i = n
        BY <3>2, <3>4, <3>9
      <4> QED
        BY <2>3, <3>3, <4>1 DEF w
    <3> QED
      BY <3>8, <3>9 DEF F, g, w, Trail
  <2> QED
    BY <2>4, <2>5
<1> QED
  BY <1>4, <1>7, <1>8, <1>9 DEF Ops, Versioned

\* The calls that go on: a version that is taken leaves those that named it behind.
LEMMA HonestCommit ==
  ASSUME SafeInv, TrailInv, HonestClients, NEW c \in Calls, Commit(c)
  PROVE  Honest'
<1> SUFFICES ASSUME NEW d \in Calls, (pc[d] # "idle" /\ req[d].op \in Versioned)' PROVE CallAged(d)'
  BY DEF Honest, CallAged
<1> DEFINE o == req[d].id
<1>1. pc[c] = "commit" /\ pc'[c] = "idle" /\ req[c].op \in Ops /\ req[c].id \in OrderIds
  BY RequestFields DEF Commit, Return, SafeInv, TypeInv, TypeOK, CallTyped
<1>2. /\ d # c /\ pc'[d] = pc[d] /\ req'[d] = req[d] /\ seen'[d] = seen[d] /\ began'[d] = began[d]
      /\ o \in OrderIds
  BY <1>1, OtherCalls, RequestFields DEF Step, SafeInv, TypeInv, CallTyped
<1>3. CallAged(d) /\ pc[d] # "idle" /\ req[d].op \in Versioned
  BY <1>2 DEF TrailInv, Honest
<1>4. req[d].version \in Nat /\ orders[o].version \in Nat
  <2>1. req[d].version \in Nat
    BY <1>3, RequestFields DEF SafeInv, TypeInv, CallTyped
  <2>2. orders[o].version \in Nat
    BY <1>2, SMTT(30) DEF SafeInv, TypeInv, TypeOK, Rows, Absent
  <2> QED
    BY <2>1, <2>2
<1>5. CASE o # req[c].id
  <2>1. orders'[o] = orders[o] /\ history'[o] = history[o]
    BY <1>2, <1>5, CommitEffect, CommitHistory DEF SafeInv
  <2> QED
    BY <1>2, <1>3, <2>1 DEF CallAged, Deciding
<1>6. CASE o = req[c].id /\ req[c].op \in Versioned
  <2>1. orders'[o].version = orders[o].version + 1
    BY <1>6, CommitEffect DEF SafeInv
  <2>2. req[d].version <= orders'[o].version /\ req[d].version # orders'[o].version
    BY <1>3, <1>4, <2>1 DEF CallAged
  <2> QED
    BY <1>2, <1>3, <2>2 DEF CallAged, Deciding
<1>7. CASE o = req[c].id /\ req[c].op = "create"
  <2>1. ~Exists(o) /\ orders[o] = Absent
    BY <1>2, <1>7, CommitEffect DEF SafeInv, TypeInv, TypeOK, Exists, Rows, Terminal
  <2>2. orders'[o].version = 1
    <3>1. orders'[o] = NewRow(req[c], orders[o])
      BY <1>7, CommitEffect DEF SafeInv
    <3> QED
      BY <1>7, <3>1 DEF NewRow
  <2>3. pc[d] \notin {"team"} \union Deciding
    BY <1>3, <2>1 DEF SafeInv, TypeInv, CallTyped, Deciding, Versioned
  <2>4. req[d].version <= 1
    BY <1>3, <1>4, <2>1 DEF CallAged, Absent
  <2> QED
    BY <1>2, <2>2, <2>3, <2>4 DEF CallAged, Deciding
<1>8. CASE o = req[c].id /\ req[c].op \in Team
  <2>1. orders'[o] = orders[o] /\ Exists(o)
    BY <1>1, <1>8, CommitEffect DEF SafeInv, TypeInv, CallTyped, Deciding, Team
  <2> DEFINE k == Len(history[o]) + 1
  <2>2. /\ k \in Nat \ {0} /\ DOMAIN history[o] = 1..(k - 1) /\ DOMAIN history'[o] = 1..k
        /\ \A i \in 1..(k - 1) : history'[o][i] = history[o][i]
        /\ VersionedIn(history[o]) \subseteq 1..(k - 1) /\ VersionedIn(history'[o]) = VersionedIn(history[o])
    BY <1>2, <1>8, CommitRow DEF About, Team, Versioned
  <2>3. 1 # k
    <3>1. history[o] \in Seq(HistoryRows) /\ history[o] # <<>>
      BY <1>2, <2>1 DEF SafeInv, TypeInv, TypeOK, TrailInv, Founded
    <3> QED
      BY <3>1
  <2> HIDE DEF k
  <2>4. ASSUME NEW t, Older(history[o], t), NEW j \in DOMAIN history'[o], j = 1 \/ j \in VersionedIn(history'[o])
        PROVE  history'[o][j].at < t
    <3>1. j \in 1..(k - 1)
      BY <2>2, <2>3, <2>4
    <3> QED
      BY <2>2, <2>4, <3>1 DEF Older
  <2> QED
    BY <1>2, <1>3, <2>1, <2>4 DEF CallAged, Deciding, Older
<1> QED
  BY <1>1, <1>5, <1>6, <1>7, <1>8 DEF Ops

LEMMA TrailCommit == ASSUME SafeInv, TrailInv, NEW c \in Calls, Commit(c) PROVE TrailInv'
<1> DEFINE o == req[c].id
<1>1. o \in OrderIds /\ About(c, o) /\ clock' = clock /\ clock \in Nat
  BY CommitRows DEF Commit, SafeInv, TypeInv, TypeOK, About
<1>2. ASSUME NEW q \in OrderIds, q # o PROVE orders'[q] = orders[q] /\ history'[q] = history[q]
  BY <1>2, CommitEffect, CommitHistory DEF SafeInv
<1>3. Clocked'
  <2>1. \A d \in Calls : began'[d] <= clock
    BY <1>1, OtherCalls DEF Commit, Return, Step, SafeInv, TypeInv, TypeOK, TrailInv, Clocked
  <2>2. ASSUME NEW q \in OrderIds, NEW j \in DOMAIN history'[q] PROVE history'[q][j].at <= clock
    <3>1. CASE q # o
      BY <1>2, <2>2, <3>1 DEF TrailInv, Clocked
    <3>2. CASE q = o
      <4> DEFINE k == Len(history[o]) + 1
      <4>1. /\ k \in Nat \ {0} /\ DOMAIN history[o] = 1..(k - 1) /\ DOMAIN history'[o] = 1..k
            /\ history'[o][k].at = began[c] /\ \A i \in 1..(k - 1) : history'[o][i] = history[o][i]
        <5>1. HistoryRow(req[c], seen[c], began[c]).at = began[c]
          BY DEF HistoryRow
        <5> QED
          BY <1>1, <5>1, CommitRow
      <4> HIDE DEF k
      <4>2. j \in 1..(k - 1) \/ j = k
        BY <2>2, <3>2, <4>1
      <4> QED
        BY <1>1, <3>2, <4>1, <4>2 DEF TrailInv, Clocked
    <3> QED
      BY <3>1, <3>2
  <2> QED
    BY <1>1, <2>1, <2>2 DEF Clocked
<1>4. Founded'
  <2>1. orders'[o].status # "NONE"
    BY CommitEffect DEF SafeInv
  <2>2. history'[o] # <<>> /\ history'[o][1].action = "ORDER_CREATED"
    <3> DEFINE k == Len(history[o]) + 1
    <3>1. /\ k \in Nat \ {0} /\ DOMAIN history'[o] = 1..k
          /\ history'[o][k] = HistoryRow(req[c], seen[c], began[c])
          /\ \A i \in 1..(k - 1) : history'[o][i] = history[o][i]
      BY <1>1, CommitRow
    <3>2. history'[o] # <<>>
      BY <3>1
    <3>3. CASE req[c].op = "create"
      <4>1. history[o] = <<>>
        BY <1>1, <3>3, CommitEffect DEF SafeInv, TrailInv, Founded
      <4>2. k = 1
        BY <4>1
      <4> QED
        BY <3>1, <3>2, <3>3, <4>2 DEF HistoryRow, ActionOf
    <3>4. CASE req[c].op # "create"
      <4>1. Exists(o) /\ history[o] \in Seq(HistoryRows)
        BY <1>1, <3>4 DEF Commit, SafeInv, TypeInv, TypeOK, CallTyped, Deciding
      <4>2. history[o] # <<>> /\ history[o][1].action = "ORDER_CREATED"
        BY <1>1, <4>1 DEF TrailInv, Founded
      <4>3. 1 \in 1..(k - 1)
        BY <4>1, <4>2
      <4> QED
        BY <3>1, <3>2, <4>2, <4>3
    <3> QED
      BY <3>3, <3>4
  <2> QED
    BY <1>1, <1>2, <2>1, <2>2 DEF Founded, Exists, TrailInv
<1>5. ASSUME HonestClients, NEW q \in OrderIds
      PROVE  Ordered(history'[q]) /\ Trail(history'[q], orders'[q].body.audited)
  <2>1. CASE q # o
    BY <1>2, <1>5, <2>1 DEF TrailInv, Told
  <2>2. CASE q = o
    BY <1>1, <1>5, <2>2, HistoryCommit, DiffCommit
  <2> QED
    BY <2>1, <2>2
<1> QED
  BY <1>3, <1>4, <1>5, HonestCommit DEF TrailInv, Told

LEMMA TrailNext == SafeInv /\ TrailInv /\ [Next]_vars => TrailInv'
<1> SUFFICES ASSUME SafeInv, TrailInv, [Next]_vars PROVE TrailInv'
  OBVIOUS
<1>1. CASE UNCHANGED vars
  BY <1>1 DEF vars, TrailInv, Clocked, Founded, Honest, CallAged, Told, Exists
<1>2. CASE Next
  BY <1>1, <1>2, TrailAccept, TrailStep, TrailCommit DEF Next, Quiesce
<1> QED
  BY <1>1, <1>2

\* With clients that send versions they have seen, the history that GetOrderHistory
\* sorts by the start of transactions shows versioned changes in the order they happened.
THEOREM HistoryInOrder == Spec => []HistoryOrdered
<1>1. TrailInv => HistoryOrdered
  <2>1. \A o \in OrderIds : VersionedRows(o) = VersionedIn(history[o])
    BY DEF VersionedRows, VersionedIn
  <2> QED
    BY <2>1 DEF TrailInv, Told, Ordered, HistoryOrdered
<1> QED
  BY <1>1, TrailInit, TrailNext, Safety, PTL DEF Spec

\* With such clients each diff of the audit log starts where the one before it ended,
\* although it was taken against an unlocked read.
THEOREM AuditTrailUnbroken == Spec => []AuditTrail
<1>1. TrailInv => AuditTrail
  <2>1. \A o \in OrderIds : DiffRows(o) = DiffIn(history[o])
    BY DEF DiffRows, DiffIn
  <2>2. \A o, i : OldOf(o, i) = OldIn(history[o], i) /\ NewOf(o, i) = NewIn(history[o], i)
    BY DEF OldOf, NewOf, OldIn, NewIn
  <2> QED
    BY <2>1, <2>2 DEF TrailInv, Told, Trail, AuditTrail
<1> QED
  BY <1>1, TrailInit, TrailNext, Safety, PTL DEF Spec
=============================================================================
