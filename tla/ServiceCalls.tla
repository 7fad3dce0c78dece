----------------------------- MODULE ServiceCalls -----------------------------
(***************************************************************************)
(* A gRPC call of user-service or order-service, from the message a person *)
(* sends to the bot to the code the bot gets back: the bot looks the person*)
(* up and signs a token with a copy of the permissions it read; the stub   *)
(* sends the request; the generated handler runs the metrics interceptor,  *)
(* in it the authentication interceptor, in it the method of the transport,*)
(* which asks user-service about performers with the token it was called   *)
(* with, changes the database and reads the reply from it.  Meanwhile      *)
(* permissions and users change and time passes.  What a change does to its*)
(* row is in OrderService and UserService; here it is refused, done, fails *)
(* or is done and fails.                                                   *)
(***************************************************************************)
EXTENDS Naturals, FiniteSets, Functions

CONSTANTS
  Calls,       \* calls that can be in flight together
  Asked,       \* methods people ask for
  Performers,  \* users who may be named as performers
  TTL,         \* validity of a token (5 minutes in the code)
  MaxTime,     \* bound: the clock
  MaxCalls,    \* bound: calls
  MaxFaults    \* bound: queries and connections that fail

-----------------------------------------------------------------------------
(* Methods *)

UserMethods ==
  {"Authenticate", "GetUser", "GetUserByTelegramID", "ListUsers", "CreateUser", "UpdateUser",
   "SetUserPermissions", "DisableUser", "EnableUser", "ChangePassword", "ResetPassword",
   "BindTelegram", "CreateTelegramLink", "RedeemTelegramLink"}
OrderMethods ==
  {"CreateOrder", "GetOrder", "UpdateOrder", "ChangeOrderStatus", "AssignPerformer",
   "UnassignPerformer", "ListOrders", "ListPerformerOrders", "GetOrderHistory"}
Methods == UserMethods \union OrderMethods

\* Methods of the calls that need no token.
Open == {"Authenticate", "RedeemTelegramLink"}

Reads == {"Authenticate", "GetUser", "GetUserByTelegramID", "ListUsers",
          "GetOrder", "ListOrders", "ListPerformerOrders", "GetOrderHistory"}
Writes == Methods \ Reads

\* What order-service requires; the methods not listed require no permission.
Required == [CreateOrder |-> "ORDER_CREATE", UpdateOrder |-> "ORDER_UPDATE",
             AssignPerformer |-> "ORDER_UPDATE", UnassignPerformer |-> "ORDER_UPDATE",
             ChangeOrderStatus |-> "ORDER_CHANGE_STATUS", ListOrders |-> "ORDER_READ_ALL",
             GetOrderHistory |-> "ORDER_HISTORY_READ"]
Rights == Range(Required)

\* Methods whose request names users that have to be active performers.
Naming == {"CreateOrder", "AssignPerformer"}

\* Methods that read the order before they check anything about it.
ReadFirst == {"UpdateOrder", "ChangeOrderStatus", "AssignPerformer", "UnassignPerformer"}

\* Changes whose reply is not read from the database.
Unread == {"CreateOrder", "ChangePassword", "ResetPassword", "CreateTelegramLink"}

ASSUME CallsAssumption ==
  /\ IsFiniteSet(Calls) /\ Asked \subseteq Methods
  /\ TTL \in Nat \ {0} /\ MaxTime \in Nat /\ MaxCalls \in Nat /\ MaxFaults \in Nat

Codes == {"OK", "Unauthenticated", "PermissionDenied", "InvalidArgument", "NotFound",
          "AlreadyExists", "Aborted", "Internal", "Unavailable"}

VARIABLES
  now,
  rights,    \* permissions of the person who writes to the bot, in the database
  active,    \* performers who are active
  call,      \* call[c]: where the call is and what it carries
  counted,   \* grpc_server_requests_total by code
  arrived,   \* calls that reached a server
  calls, faults   \* counters

world == <<now, rights, active>>
vars == <<world, call, counted, arrived, calls, faults>>

\* held, seen and steady are of the properties only: rights held at some time since
\* the message, performers active at some time, and at all times, since the call
\* arrived.
NoCall == [at |-> "idle", method |-> "none", valid |-> TRUE, team |-> {}, left |-> {},
           rights |-> {}, expires |-> 0, changed |-> FALSE, code |-> "none",
           held |-> {}, seen |-> {}, steady |-> {}]

Init ==
  /\ now = 0
  /\ rights = Rights /\ active = Performers
  /\ call = [c \in Calls |-> NoCall]
  /\ counted = [k \in Codes |-> 0]
  /\ arrived = 0 /\ calls = 0 /\ faults = 0

Fault == faults < MaxFaults /\ faults' = faults + 1

-----------------------------------------------------------------------------
(* The client *)

Tick ==
  /\ now < MaxTime /\ now' = now + 1
  /\ UNCHANGED <<rights, active, call, counted, arrived, calls, faults>>

At(c, label) == call[c].at = label
Move(c, r) == call' = [call EXCEPT ![c] = r]
Stay == UNCHANGED world
Rest == Stay /\ UNCHANGED <<counted, arrived, calls>>

\* A person asks for something: the ids and the fields of the request are valid or
\* not, and some requests name performers.
Ask(c) ==
  /\ At(c, "idle") /\ calls < MaxCalls /\ calls' = calls + 1
  /\ \E m \in Asked, v \in BOOLEAN, t \in SUBSET Performers :
       /\ m = "AssignPerformer" => Cardinality(t) = 1
       /\ m \notin Naming => t = {}
       /\ m \in {"ListOrders", "ListUsers"} => v
       /\ Move(c, [NoCall EXCEPT !.at = "lookup", !.method = m, !.valid = v, !.team = t,
                                 !.held = rights])
  /\ UNCHANGED <<world, counted, arrived, faults>>

\* Mutant of Lookup: the rights of the first lookup are kept.
LookupOnce(c) ==
  /\ At(c, "lookup")
  /\ Move(c, [call[c] EXCEPT !.at = "send", !.rights = Rights])
  /\ Rest /\ UNCHANGED faults

\* GetUserByTelegramID (Authenticate, for /start): the rights as they are.
Lookup(c) ==
  /\ At(c, "lookup")
  /\ Move(c, [call[c] EXCEPT !.at = "send", !.rights = rights])
  /\ Rest /\ UNCHANGED faults

\* A token with these rights is signed and the request sent.
Send(c) ==
  /\ At(c, "send")
  /\ Move(c, [call[c] EXCEPT !.at = "sent", !.expires = now + TTL])
  /\ Rest /\ UNCHANGED faults

\* The request or its answer does not get through.
Lose(c) ==
  /\ At(c, "sent") \/ (At(c, "answer") /\ call[c].code # "Unavailable")
  /\ Fault
  /\ Move(c, [call[c] EXCEPT !.at = "answer", !.code = "Unavailable"])
  /\ Rest

\* The bot has its answer.
Receive(c) ==
  /\ At(c, "answer")
  /\ Move(c, NoCall)
  /\ Rest /\ UNCHANGED faults

-----------------------------------------------------------------------------
(* The server *)

Expired(c) == now >= call[c].expires

\* The handler of the call returns.
Finish(c, r, code) == Move(c, [r EXCEPT !.at = "count", !.code = code])
End(c, code) == Finish(c, call[c], code)
Goto(c, label) == Move(c, [call[c] EXCEPT !.at = label])

\* Mutant of Arrive: authentication comes before metrics.
ArriveUncounted(c) ==
  LET r == [call[c] EXCEPT !.seen = active, !.steady = active] IN
  /\ At(c, "sent") /\ arrived' = arrived + 1
  /\ IF call[c].method \in Open \/ ~Expired(c)
       THEN Move(c, [r EXCEPT !.at = "handle"])
       ELSE Move(c, [r EXCEPT !.at = "answer", !.code = "Unauthenticated"])
  /\ UNCHANGED <<world, counted, calls, faults>>

\* The generated handler runs the interceptors: metrics, then authentication, which
\* lets a call pass whose method needs no token or whose token has not expired.
Arrive(c) ==
  LET r == [call[c] EXCEPT !.seen = active, !.steady = active] IN
  /\ At(c, "sent") /\ arrived' = arrived + 1
  /\ IF call[c].method \in Open \/ ~Expired(c)
       THEN Move(c, [r EXCEPT !.at = "handle"])
       ELSE Finish(c, r, "Unauthenticated")
  /\ UNCHANGED <<world, counted, calls, faults>>

\* require and has of order-service: the rights are those of the token.
Permitted(c) ==
  call[c].method \in DOMAIN Required => Required[call[c].method] \in call[c].rights

\* The application service looks its performers up, or goes to the database.
Look(c) == IF call[c].method \in Naming
           THEN Move(c, [call[c] EXCEPT !.at = "name", !.left = call[c].team])
           ELSE Goto(c, "store")

\* The method of order-service: permission first, then the ids and, of a create, the
\* fields; GetOrder and ListPerformerOrders also refuse someone else's orders.
HandleOrder(c) ==
  LET m == call[c].method IN
  /\ At(c, "handle") /\ m \in OrderMethods /\ Rest /\ UNCHANGED faults
  /\ \/ ~Permitted(c) /\ End(c, "PermissionDenied")
     \/ Permitted(c) /\ ~call[c].valid /\ End(c, "InvalidArgument")
     \/ Permitted(c) /\ m \in ReadFirst /\ (call[c].valid \/ m = "UpdateOrder") /\ Goto(c, "read")
     \/ Permitted(c) /\ m \notin ReadFirst /\ call[c].valid /\ Look(c)
     \/ /\ m \in {"GetOrder", "ListPerformerOrders"} /\ call[c].valid
        /\ "ORDER_READ_ALL" \notin call[c].rights /\ End(c, "PermissionDenied")

\* store.Get: an order that is not there is told before the fields of an update or
\* the performer of an assignment are looked at.
ReadOrder(c) ==
  /\ At(c, "read") /\ Rest
  /\ \/ End(c, "NotFound") /\ UNCHANGED faults
     \/ Fault /\ End(c, "Internal")
     \/ ~call[c].valid /\ End(c, "InvalidArgument") /\ UNCHANGED faults
     \/ call[c].valid /\ Look(c) /\ UNCHANGED faults

\* With which codes user-service refuses a request that is not valid: an id that is
\* none becomes the nil id, which no user has and no link can be for; other fields are
\* checked, the new password after the old one.
Invalid(m) ==
  CASE m = "Authenticate"       -> {"Unauthenticated"}
    [] m = "ChangePassword"     -> {"Unauthenticated", "InvalidArgument", "NotFound"}
    [] m = "CreateTelegramLink" -> {"InvalidArgument", "Internal"}
    [] m \in {"CreateUser", "RedeemTelegramLink"} -> {"InvalidArgument"}
    [] OTHER                    -> {"InvalidArgument", "NotFound"}

\* The method of user-service, which checks no permission: a request that is not
\* valid is refused, on the way to the database or there, where the query can fail.
HandleUser(c) ==
  LET m == call[c].method IN
  /\ At(c, "handle") /\ m \in UserMethods /\ Rest
  /\ \/ call[c].valid /\ Goto(c, "store") /\ UNCHANGED faults
     \/ ~call[c].valid /\ (\E code \in Invalid(m) : End(c, code)) /\ UNCHANGED faults
     \/ /\ ~call[c].valid /\ m \notin {"Authenticate", "CreateUser", "RedeemTelegramLink"}
        /\ Fault /\ End(c, "Internal")

\* Mutant of AskUser: an error is no reason to refuse.
AskUserLeniently(c) ==
  LET r == call[c] IN
  /\ At(c, "name") /\ Rest
  /\ \/ r.left = {} /\ Goto(c, "store") /\ UNCHANGED faults
     \/ \E p \in r.left :
          \/ p \in active /\ Move(c, [r EXCEPT !.left = @ \ {p}]) /\ UNCHANGED faults
          \/ p \notin active /\ ~Expired(c) /\ End(c, "InvalidArgument") /\ UNCHANGED faults
          \/ Expired(c) /\ Move(c, [r EXCEPT !.left = @ \ {p}]) /\ UNCHANGED faults

\* Mutant of AskUser: the token is not passed on.
AskUserWithoutToken(c) ==
  /\ At(c, "name") /\ Rest /\ UNCHANGED faults
  /\ IF call[c].left = {} THEN Goto(c, "store") ELSE End(c, "InvalidArgument")

\* IsActivePerformer: GetUser with the caller's token, which the interceptor of
\* user-service looks at anew.  Any error counts as "no".
AskUser(c) ==
  LET r == call[c] IN
  /\ At(c, "name") /\ Rest
  /\ \/ r.left = {} /\ Goto(c, "store") /\ UNCHANGED faults
     \/ \E p \in r.left :
          \/ /\ ~Expired(c) /\ p \in active /\ UNCHANGED faults
             /\ Move(c, [r EXCEPT !.left = @ \ {p}])
          \/ /\ Expired(c) \/ p \notin active
             /\ End(c, "InvalidArgument") /\ UNCHANGED faults
          \/ Fault /\ End(c, "InvalidArgument")

\* A method that reads.
Query(c) ==
  /\ At(c, "store") /\ call[c].method \in Reads /\ Rest
  /\ \/ End(c, "OK") /\ UNCHANGED faults
     \/ call[c].method \in {"GetUser", "GetUserByTelegramID", "GetOrder"}
        /\ End(c, "NotFound") /\ UNCHANGED faults
     \/ Fault /\ End(c, IF call[c].method = "Authenticate" THEN "Unauthenticated" ELSE "Internal")

\* What a method does to permissions and users; every call under way sees it.
Effect(m) ==
  /\ UNCHANGED now
  /\ rights' \in IF m = "SetUserPermissions" THEN {{}, Rights} ELSE {rights}
  /\ CASE m = "DisableUser" -> \E p \in Performers : active' = active \ {p}
       [] m = "EnableUser"  -> \E p \in Performers : active' = active \union {p}
       [] OTHER             -> UNCHANGED active

\* Call c goes on as r, and the others have seen the effect.
MoveWithEffect(c, r) ==
  call' = [d \in Calls |->
             LET e == IF d = c THEN r ELSE call[d]
             IN [e EXCEPT !.held = @ \union rights', !.seen = @ \union active',
                          !.steady = @ \intersect active']]

\* Why a change is refused, by code.  Nobody tells the caller that a login is taken,
\* a link is for no user, a performer is on the order or an amount is no NUMERIC(14,2).
RefusedWith ==
  [NotFound        |-> (Writes \ (OrderMethods \union {"CreateUser", "CreateTelegramLink"}))
                       \union {"UnassignPerformer"},
   Aborted         |-> {"UpdateOrder", "ChangeOrderStatus"},
   AlreadyExists   |-> {"BindTelegram", "RedeemTelegramLink"},
   Unauthenticated |-> {"ChangePassword"},
   Internal        |-> {"CreateUser", "CreateTelegramLink", "CreateOrder", "UpdateOrder",
                        "AssignPerformer"}]
Refusals(m) == {k \in DOMAIN RefusedWith : m \in RefusedWith[k]}

\* Mutant of Change: a failed COMMIT is reported as a conflict.
ChangeOrConflict(c) ==
  LET r == [call[c] EXCEPT !.changed = TRUE] IN
  /\ At(c, "store") /\ call[c].method \in Writes /\ UNCHANGED <<counted, arrived, calls>>
  /\ \/ /\ Effect(call[c].method)
        /\ \/ /\ UNCHANGED faults
              /\ MoveWithEffect(c, IF r.method \in Unread THEN [r EXCEPT !.at = "count", !.code = "OK"]
                                   ELSE [r EXCEPT !.at = "reread"])
           \/ Fault /\ MoveWithEffect(c, [r EXCEPT !.at = "count", !.code = "Aborted"])
     \/ Stay /\ UNCHANGED faults /\ \E code \in Refusals(r.method) : End(c, code)
     \/ Stay /\ Fault /\ End(c, "Internal")

\* A method that changes something: one transaction, which is done, or refused for
\* what it finds (who changes a password has to know the old one), or fails; a COMMIT
\* that fails may have been done.
Change(c) ==
  LET r == [call[c] EXCEPT !.changed = TRUE] IN
  /\ At(c, "store") /\ call[c].method \in Writes /\ UNCHANGED <<counted, arrived, calls>>
  /\ \/ /\ Effect(call[c].method)
        /\ \/ /\ UNCHANGED faults
              /\ MoveWithEffect(c, IF r.method \in Unread THEN [r EXCEPT !.at = "count", !.code = "OK"]
                                   ELSE [r EXCEPT !.at = "reread"])
           \/ Fault /\ MoveWithEffect(c, [r EXCEPT !.at = "count", !.code = "Internal"])
     \/ Stay /\ UNCHANGED faults /\ \E code \in Refusals(r.method) : End(c, code)
     \/ Stay /\ Fault /\ End(c, "Internal")

\* The reply is read after the commit; when that fails the caller gets an error.
Reread(c) ==
  /\ At(c, "reread") /\ Rest
  /\ (End(c, "OK") /\ UNCHANGED faults) \/ (End(c, "Internal") /\ Fault)

\* The metrics interceptor counts the call by its code, and the answer goes back.
Count(c) ==
  /\ At(c, "count")
  /\ counted' = [counted EXCEPT ![call[c].code] = @ + 1]
  /\ Goto(c, "answer")
  /\ UNCHANGED <<world, arrived, calls, faults>>

-----------------------------------------------------------------------------

Serve(c) == \/ Arrive(c) \/ HandleOrder(c) \/ ReadOrder(c) \/ HandleUser(c) \/ AskUser(c)
            \/ Query(c) \/ Change(c) \/ Reread(c) \/ Count(c)
Client(c) == Lookup(c) \/ Send(c) \/ Receive(c)

\* The bounds are used up and every call has been answered.
Quiesce == calls = MaxCalls /\ (\A c \in Calls : At(c, "idle")) /\ UNCHANGED vars

Next == \/ \E c \in Calls : Ask(c) \/ Lose(c) \/ Client(c) \/ Serve(c)
        \/ Tick \/ Quiesce

Spec == Init /\ [][Next]_vars

-----------------------------------------------------------------------------
(* Properties *)

Labels == {"idle", "lookup", "send", "sent", "handle", "read", "name", "store", "reread",
           "count", "answer"}

Records ==
  [at : Labels, method : Methods \union {"none"}, valid : BOOLEAN,
   team : SUBSET Performers, left : SUBSET Performers, rights : SUBSET Rights,
   expires : Nat, changed : BOOLEAN, code : Codes \union {"none"},
   held : SUBSET Rights, seen : SUBSET Performers, steady : SUBSET Performers]

\* A call carries values of their kind, and has a code exactly when its handler or
\* the connection has ended it.
TypeOK ==
  /\ now \in 0..MaxTime /\ rights \subseteq Rights /\ active \subseteq Performers
  /\ call \in [Calls -> Records]
  /\ \A c \in Calls : call[c].code # "none" <=> call[c].at \in {"count", "answer"}
  /\ counted \in [Codes -> Nat] /\ arrived \in Nat
  /\ calls \in 0..MaxCalls /\ faults \in 0..MaxFaults

\* README.md:106: the services check permissions.  They check those of a token, a
\* copy that was taken earlier: an order is changed only for someone who had the
\* right to at some time since he sent the message, not when a dialog began.
RightsHeld ==
  \A c \in Calls : call[c].changed /\ call[c].method \in DOMAIN Required =>
                     Required[call[c].method] \in call[c].held

\* Who is put on an order was an active performer at some time since the call came,
\* even if the token expires, or users come and go, between one look-up and the next.
TeamChecked ==
  \A c \in Calls : call[c].changed => call[c].team \subseteq call[c].seen

\* A change is committed before the reply is read, and a COMMIT can fail having been
\* done.  The codes that say "refused" are still true: nothing was changed.  Only
\* Internal and Unavailable leave it open; OK says it was done.
CodesTell ==
  \A c \in Calls :
    /\ call[c].code \notin {"none", "OK", "Internal", "Unavailable"} => ~call[c].changed
    /\ call[c].code = "OK" /\ call[c].method \in Writes => call[c].changed

\* Every error of the look-up of a performer is told as InvalidArgument.  A valid
\* request whose performers were active all the time gets it only if the token has
\* expired on the way or something failed.
InvalidHasACause ==
  \A c \in Calls :
    call[c].code = "InvalidArgument" /\ call[c].valid /\ call[c].team \subseteq call[c].steady
      => Expired(c) \/ faults > 0

InServer(c) == call[c].at \in {"handle", "read", "name", "store", "reread", "count"}
InAll(f) == f.OK + f.Unauthenticated + f.PermissionDenied + f.InvalidArgument + f.NotFound
            + f.AlreadyExists + f.Aborted + f.Internal + f.Unavailable

\* Calls that are refused before their method runs are counted like the others, and
\* each once: what arrived is counted or still in the server.
AllCounted ==
  arrived = InAll(counted) + Cardinality({c \in Calls : InServer(c)})
=============================================================================
