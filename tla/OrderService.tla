---------------------------- MODULE OrderService ----------------------------
(***************************************************************************)
(* order-service: the concurrent gRPC handlers that change orders, and the *)
(* four tables they write.  A handler first reads the order (two queries,  *)
(* no transaction), checks what it read, asks user-service about performers*)
(* and only then opens a READ COMMITTED transaction, whose UPDATE, INSERT  *)
(* or DELETE decides again on the committed row and locks it until COMMIT. *)
(* Everything a transaction wrote becomes visible in one step, Commit.     *)
(* A handler ends in Fail when a query, the connection, the caller's       *)
(* deadline or the process gives up: PostgreSQL rolls its transaction back.*)
(* The order the handler re-reads for its reply changes no state and is    *)
(* left out, as are GetOrder, ListOrders and GetOrderHistory themselves.   *)
(***************************************************************************)
EXTENDS Naturals, Sequences, FiniteSets

CONSTANTS
  Calls,          \* handler goroutines that can be in flight together
  OrderIds,       \* ids uuid.New can produce
  Performers,     \* performer ids
  Audited,        \* values of the fields Update compares: location, amount, comment
  Others,         \* values of the fields it does not: date and customer
  Stored,         \* the text an audited value has when read back (NUMERIC(14,2))
  BadBody,        \* contents domain.Valid rejects
  NoBody,         \* contents of a row that does not exist
  Versions,       \* expected versions a request can carry
  HonestClients,  \* TRUE: a request carries a version the order has already had
  MaxTx           \* bound: transactions begun in one behaviour

Bodies == [audited : Audited, other : Others]

ASSUME StoredAssumption == /\ Stored \in [Audited -> Audited]
                           /\ \A a \in Audited : Stored[Stored[a]] = Stored[a]
ASSUME BodyAssumption == BadBody \notin Bodies /\ NoBody \notin Bodies
ASSUME BoundAssumption ==
  Versions \subseteq Nat /\ HonestClients \in BOOLEAN /\ MaxTx \in Nat

VARIABLES
  orders,      \* orders[o]: status, version and contents of the committed row
  performers,  \* performers[o]: committed rows of order_performers
  history,     \* history[o]: committed rows of order_history, in commit order
  outbox,      \* committed rows of outbox_events, in commit order
  clock,       \* now() of the transaction begun last
  pc,          \* where each call is
  req,         \* its request
  seen,        \* the order it read before its transaction
  began        \* now() of its transaction

tables == <<orders, performers, history, outbox>>
vars == <<orders, performers, history, outbox, clock, pc, req, seen, began>>

-----------------------------------------------------------------------------
(* Orders, requests, rows and events *)

Terminal == {"COMPLETED", "CANCELLED"}
NoStatus == ""          \* domain.Status of an enum value outside the handler's map
Absent == [status |-> "NONE", version |-> 0, body |-> NoBody]
Exists(o) == orders[o].status # "NONE"
CanTransition(old, next) == old = "PLANNED" /\ next \in Terminal
Store(body) == [body EXCEPT !.audited = Stored[@]]

Versioned == {"update", "status"}       \* UPDATE orders ... WHERE version=$2
Team == {"assign", "unassign"}          \* INSERT or DELETE in order_performers

NoReq == [op |-> "none", id |-> "none", version |-> 0, body |-> NoBody,
          next |-> NoStatus, who |-> {}]
NothingSeen == [status |-> "NONE", version |-> 0, body |-> NoBody, team |-> {}]

Contents == Bodies \union {BadBody}
Creates == [op : {"create"}, id : OrderIds, version : {0}, body : Contents,
            next : {NoStatus}, who : SUBSET Performers]
Updates == [op : {"update"}, id : OrderIds, version : Versions, body : Contents,
            next : {NoStatus}, who : {{}}]
StatusChanges == [op : {"status"}, id : OrderIds, version : Versions, body : {NoBody},
                  next : Terminal \union {NoStatus}, who : {{}}]
TeamChanges == [op : Team, id : OrderIds, version : {0}, body : {NoBody},
                next : {NoStatus}, who : {{p} : p \in Performers}]
Requests == Creates \union Updates \union StatusChanges \union TeamChanges

ActionOf == [create |-> "ORDER_CREATED", update |-> "ORDER_UPDATED",
             status |-> "STATUS_CHANGED", assign |-> "PERFORMER_ASSIGNED",
             unassign |-> "PERFORMER_UNASSIGNED"]

\* One (old, new) pair stands for the whole map of changed fields.
Changes(r, s) ==
  CASE r.op = "create" -> {}
    [] r.op = "update" -> IF s.body.audited = r.body.audited THEN {}
                          ELSE {[old |-> s.body.audited, new |-> r.body.audited]}
    [] r.op = "status" -> {[old |-> s.status, new |-> r.next]}
    [] OTHER           -> {[old |-> NoStatus, new |-> p] : p \in r.who}

HistoryRow(r, s, at) == [action |-> ActionOf[r.op], at |-> at, changes |-> Changes(r, s)]

\* performer_ids of the event: of the request for a create, of the order read
\* before the transaction for an update or a status change.
Event(r, s, at) ==
  [type |-> r.op, id |-> r.id, at |-> at,
   performers |-> IF r.op \in Versioned THEN s.team ELSE r.who]

\* Mutant of NewRow: a status change takes no version.
NewRowKeepsVersion(r, row) ==
  CASE r.op = "create" -> [status |-> "PLANNED", version |-> 1, body |-> Store(r.body)]
    [] r.op = "update" -> [row EXCEPT !.body = Store(r.body), !.version = @ + 1]
    [] r.op = "status" -> [row EXCEPT !.status = r.next]
    [] OTHER           -> row

NewRow(r, row) ==
  CASE r.op = "create" -> [status |-> "PLANNED", version |-> 1, body |-> Store(r.body)]
    [] r.op = "update" -> [row EXCEPT !.body = Store(r.body), !.version = @ + 1]
    [] r.op = "status" -> [row EXCEPT !.status = r.next, !.version = @ + 1]
    [] OTHER           -> row

NewTeam(r, team) ==
  CASE r.op = "create"   -> r.who
    [] r.op = "assign"   -> team \union r.who
    [] r.op = "unassign" -> team \ r.who
    [] OTHER             -> team

-----------------------------------------------------------------------------
Init ==
  /\ orders = [o \in OrderIds |-> Absent]
  /\ performers = [o \in OrderIds |-> {}]
  /\ history = [o \in OrderIds |-> <<>>]
  /\ outbox = <<>>
  /\ clock = 0
  /\ pc = [c \in Calls |-> "idle"]
  /\ req = [c \in Calls |-> NoReq]
  /\ seen = [c \in Calls |-> NothingSeen]
  /\ began = [c \in Calls |-> 0]

\* The handler returns and its goroutine ends.
Return(c) ==
  /\ pc' = [pc EXCEPT ![c] = "idle"]
  /\ req' = [req EXCEPT ![c] = NoReq]
  /\ seen' = [seen EXCEPT ![c] = NothingSeen]
  /\ began' = [began EXCEPT ![c] = 0]

Goto(c, label) == pc' = [pc EXCEPT ![c] = label]

Busy == {c \in Calls : pc[c] # "idle"}
FreshId(o) == ~Exists(o) /\ \A d \in Calls : req[d].id # o

First(r) == IF r.op # "create" THEN "read"
            ELSE IF r.who = {} THEN "begin" ELSE "lookup"

\* A request arrives: create checks the contents at once, the others read first.
Accept(c) ==
  /\ pc[c] = "idle"
  /\ clock + Cardinality(Busy) < MaxTx
  /\ \E r \in Requests :
       /\ r.op = "create" => FreshId(r.id) /\ r.body # BadBody
       /\ HonestClients /\ r.op \in Versioned => r.version <= orders[r.id].version
       /\ req' = [req EXCEPT ![c] = r]
       /\ Goto(c, First(r))
  /\ UNCHANGED <<tables, clock, seen, began>>

\* store.Get, first query: the order row.
GetOrder(c) ==
  LET row == orders[req[c].id] IN
  /\ pc[c] = "read"
  /\ IF Exists(req[c].id)
       THEN /\ seen' = [seen EXCEPT ![c] = [status |-> row.status, version |-> row.version,
                                            body |-> row.body, team |-> {}]]
            /\ Goto(c, "team")
            /\ UNCHANGED <<req, began>>
       ELSE Return(c)                                     \* ErrNotFound
  /\ UNCHANGED <<tables, clock>>

\* Mutant of Passes: any status may follow any other.
PassesAnyStatus(r, s) ==
  /\ r.op = "update" => r.body # BadBody /\ r.version >= 1
  /\ r.op = "status" => r.version = s.version

\* What the application service checks on the order it read.
Passes(r, s) ==
  /\ r.op = "update" => r.body # BadBody /\ r.version >= 1
  /\ r.op = "status" => CanTransition(s.status, r.next) /\ r.version = s.version

\* Mutant of GetTeam: after a failed check the handler reads again.
GetTeamAgain(c) ==
  /\ pc[c] = "team"
  /\ IF Passes(req[c], seen[c])
       THEN /\ seen' = [seen EXCEPT ![c].team = performers[req[c].id]]
            /\ Goto(c, IF req[c].op = "assign" THEN "lookup" ELSE "begin")
       ELSE Goto(c, "read") /\ UNCHANGED seen
  /\ UNCHANGED <<tables, clock, req, began>>

\* store.Get, second query: the performers; then the service's checks.
GetTeam(c) ==
  /\ pc[c] = "team"
  /\ IF Passes(req[c], seen[c])
       THEN /\ seen' = [seen EXCEPT ![c].team = performers[req[c].id]]
            /\ Goto(c, IF req[c].op = "assign" THEN "lookup" ELSE "begin")
            /\ UNCHANGED <<req, began>>
       ELSE Return(c)                      \* ErrValidation or ErrConflict
  /\ UNCHANGED <<tables, clock>>

\* IsActivePerformer, answered by user-service: yes, or no (also when it is down).
Lookup(c) ==
  /\ pc[c] = "lookup"
  /\ \/ Goto(c, "begin") /\ UNCHANGED <<req, seen, began>>
     \/ Return(c)
  /\ UNCHANGED <<tables, clock>>

\* BEGIN: now(), hence every created_at of the transaction, is fixed here.
Begin(c) ==
  /\ pc[c] = "begin"
  /\ clock' = clock + 1
  /\ began' = [began EXCEPT ![c] = clock + 1]
  /\ Goto(c, "exec")
  /\ UNCHANGED <<tables, req, seen>>

\* Mutant of Waits: the row of an order is not locked.
WaitsForTeam(r, s) ==
  /\ r.id = s.id
  /\ \/ r.op = "assign" /\ s.op \in Team /\ r.who = s.who
     \/ r.op = "unassign" /\ s.op = "unassign" /\ r.who = s.who

\* r's first statement needs a row that s has written and not yet committed.  A
\* DELETE does not see an uncommitted INSERT, so it waits for no assign.
Waits(r, s) ==
  /\ r.id = s.id
  /\ \/ r.op \in Versioned /\ s.op \in Versioned
     \/ r.op = "assign" /\ s.op \in Team /\ r.who = s.who
     \/ r.op = "unassign" /\ s.op = "unassign" /\ r.who = s.who

\* The version in the UPDATE's WHERE: of the request for an update, of the order
\* read before the transaction for a status change.
WhereVersion(r, s) == IF r.op = "status" THEN s.version ELSE r.version

\* Mutant of Applies: WHERE id=$1 without AND version=$2.
AppliesAnyVersion(r, s) ==
  /\ r.op \in Versioned => Exists(r.id)
  /\ r.op = "assign"    => r.who \cap performers[r.id] = {}
  /\ r.op = "unassign"  => r.who \subseteq performers[r.id]

\* Mutant of Applies: RowsAffected of the DELETE is not checked.
AppliesAnyDelete(r, s) ==
  /\ r.op \in Versioned => Exists(r.id) /\ orders[r.id].version = WhereVersion(r, s)
  /\ r.op = "assign"    => r.who \cap performers[r.id] = {}

\* The statement finds its row (RowsAffected, or no unique violation).
Applies(r, s) ==
  /\ r.op \in Versioned => Exists(r.id) /\ orders[r.id].version = WhereVersion(r, s)
  /\ r.op = "assign"    => r.who \cap performers[r.id] = {}
  /\ r.op = "unassign"  => r.who \subseteq performers[r.id]

\* The transaction's statement on the order, decided on the committed row.
Exec(c) ==
  /\ pc[c] = "exec"
  /\ \A d \in Calls \ {c} : pc[d] = "commit" => ~Waits(req[c], req[d])
  /\ IF Applies(req[c], seen[c])
       THEN Goto(c, "commit") /\ UNCHANGED <<req, seen, began>>
       ELSE Return(c)      \* ErrConflict, ErrNotFound or unique violation: rollback
  /\ UNCHANGED <<tables, clock>>

\* History and outbox rows are written and COMMIT makes all of it visible.
Commit(c) ==
  LET r == req[c] IN
  /\ pc[c] = "commit"
  /\ orders' = [orders EXCEPT ![r.id] = NewRow(r, @)]
  /\ performers' = [performers EXCEPT ![r.id] = NewTeam(r, @)]
  /\ history' = [history EXCEPT ![r.id] = Append(@, HistoryRow(r, seen[c], began[c]))]
  /\ outbox' = Append(outbox, Event(r, seen[c], began[c]))
  /\ Return(c)
  /\ UNCHANGED clock

\* An error the service did not decide on: nothing of the transaction remains.
Fail(c) ==
  /\ pc[c] # "idle"
  /\ Return(c)
  /\ UNCHANGED <<tables, clock>>

\* The bound on transactions is used up and every call has returned.
Quiesce == Busy = {} /\ clock >= MaxTx /\ UNCHANGED vars

Step(c) == GetOrder(c) \/ GetTeam(c) \/ Lookup(c) \/ Begin(c) \/ Exec(c) \/ Commit(c)

Next == (\E c \in Calls : Accept(c) \/ Step(c) \/ Fail(c)) \/ Quiesce

Spec == Init /\ [][Next]_vars

\* A running handler goes on; a statement that waits for a lock gets it in turn
\* (PostgreSQL queues the waiters of a row).  Nothing makes a request arrive.
FairSpec == Spec /\ \A c \in Calls : WF_vars(Step(c)) /\ SF_vars(Exec(c))

-----------------------------------------------------------------------------
(* Properties *)

Labels == {"idle", "read", "team", "lookup", "begin", "exec", "commit"}
StoredBodies == {Store(b) : b \in Bodies}
Rows == [status : {"PLANNED"} \union Terminal, version : Nat, body : StoredBodies]
        \union {Absent}
Snapshots == [status : {"NONE", "PLANNED"} \union Terminal, version : Nat,
              body : Bodies \union {NoBody}, team : SUBSET Performers]
Actions == {"ORDER_CREATED", "ORDER_UPDATED", "STATUS_CHANGED",
            "PERFORMER_ASSIGNED", "PERFORMER_UNASSIGNED"}
Values == Audited \union {"PLANNED", NoStatus} \union Terminal \union Performers
HistoryRows == [action : Actions, at : Nat, changes : SUBSET [old : Values, new : Values]]
Events == [type : {"create"} \union Versioned \union Team, id : OrderIds, at : Nat,
           performers : SUBSET Performers]

\* Every table and every call holds values of its kind.
TypeOK ==
  /\ orders \in [OrderIds -> Rows]
  /\ performers \in [OrderIds -> SUBSET Performers]
  /\ history \in [OrderIds -> Seq(HistoryRows)]
  /\ outbox \in Seq(Events)
  /\ clock \in Nat
  /\ pc \in [Calls -> Labels]
  /\ req \in [Calls -> Requests \union {NoReq}]
  /\ seen \in [Calls -> Snapshots]
  /\ began \in [Calls -> Nat]

\* Optimistic locking (service.go Update and ChangeStatus, the WHERE version=$2
\* of postgres.go): an existing order changes only by a request that named the
\* version the change replaces, and takes exactly the next version.
ExpectedVersionHonoured ==
  [][\A o \in OrderIds :
       Exists(o) /\ orders'[o] # orders[o] =>
         /\ orders'[o].version = orders[o].version + 1
         /\ \E c \in Calls : /\ req[c].id = o /\ req[c].op \in Versioned
                             /\ req[c].version = orders[o].version]_vars

\* CanTransition is checked on an unlocked read and the UPDATE of a status has
\* no condition on the status; still a completed or cancelled order keeps its
\* status whatever the other handlers do.
TerminalIsFinal ==
  [][\A o \in OrderIds :
       orders[o].status \in Terminal => orders'[o].status = orders[o].status]_vars

VersionedRows(o) ==
  {i \in DOMAIN history[o] : history[o][i].action \in {"ORDER_UPDATED", "STATUS_CHANGED"}}

\* The audit log misses no versioned change and invents none: the version of an
\* order is one more than the number of its update and status rows.
VersionCountsChanges ==
  \A o \in OrderIds :
    Exists(o) => orders[o].version = 1 + Cardinality(VersionedRows(o))

StatusRows(o) == {i \in DOMAIN history[o] : history[o][i].action = "STATUS_CHANGED"}

\* The audit log explains the status: a planned order has no STATUS_CHANGED row
\* and a finished one has exactly one, from PLANNED to the status it has.
StatusAudited ==
  \A o \in OrderIds :
    IF orders[o].status \in Terminal
      THEN \E i \in StatusRows(o) :
             /\ StatusRows(o) = {i}
             /\ history[o][i].changes = {[old |-> "PLANNED", new |-> orders[o].status]}
      ELSE StatusRows(o) = {}

DiffRows(o) ==
  {i \in DOMAIN history[o] : history[o][i].action = "ORDER_UPDATED"
                             /\ history[o][i].changes # {}}
OldOf(o, i) == (CHOOSE ch \in history[o][i].changes : TRUE).old
NewOf(o, i) == (CHOOSE ch \in history[o][i].changes : TRUE).new

\* The diffs of Update (service.go 63-68) are taken against an unlocked read.
\* With clients that only send versions they have seen, each diff still starts
\* where the diff before it ended, and the last one ends at the row.
AuditTrail ==
  HonestClients =>
    \A o \in OrderIds :
      /\ \A i, j \in DiffRows(o) :
           i < j /\ (\A k \in DiffRows(o) : k <= i \/ k >= j) =>
             OldOf(o, j) = Stored[NewOf(o, i)]
      /\ \A i \in DiffRows(o) :
           (\A k \in DiffRows(o) : k <= i) =>
             orders[o].body.audited = Stored[NewOf(o, i)]

\* GetOrderHistory sorts by created_at, which is the start of a transaction, not
\* its commit.  With such clients the versioned changes of an order still show
\* in the order in which they took their versions, after its creation.
HistoryOrdered ==
  HonestClients =>
    \A o \in OrderIds : \A j \in VersionedRows(o) :
      /\ history[o][1].action = "ORDER_CREATED"
      /\ history[o][1].at < history[o][j].at
      /\ \A i \in VersionedRows(o) : i < j => history[o][i].at < history[o][j].at

\* Events that put p on the team of o or take it off.
TeamEvents(o, p) ==
  {i \in DOMAIN outbox : /\ outbox[i].id = o /\ p \in outbox[i].performers
                         /\ outbox[i].type \in {"create"} \union Team}
Adds(i) == outbox[i].type # "unassign"

\* Assign and Unassign carry no version.  Racing ones still leave events from
\* which a consumer in commit order can rebuild the team: for each performer
\* they alternate, starting with an addition, and the last one says whether the
\* performer is on the team.
TeamReplay ==
  \A o \in OrderIds : \A p \in Performers :
    LET E == TeamEvents(o, p) IN
    /\ p \in performers[o] <=> \E i \in E : Adds(i) /\ \A k \in E : k <= i
    /\ \A j \in E : Adds(j) <=> \A i \in E :
                      i < j /\ (\A k \in E : k <= i \/ k >= j) => ~Adds(i)

\* Row locks never make handlers wait for each other in a circle, and no path
\* through a handler forgets to return.
CallsReturn == \A c \in Calls : pc[c] # "idle" ~> pc[c] = "idle"

Lifecycle == INSTANCE OrderLifecycle WITH Bodies <- StoredBodies

\* The interleaved handlers implement operations that happen at one instant:
\* what a handler checked on a stale read still holds when it commits.
ImplementsLifecycle == Lifecycle!Spec

\* README.md:83 says a performer is notified when an order assigned to them
\* changes.  The event of a change names the performers it is for.
EveryPerformerTold ==
  [][\A o \in OrderIds :
       Exists(o) /\ orders'[o] # orders[o] =>
         performers[o] \subseteq outbox'[Len(outbox')].performers]_vars
=============================================================================
