---------------------------- MODULE UserService ----------------------------
(***************************************************************************)
(* user-service: the concurrent handlers that change users, their Telegram *)
(* chats and the one-time link tokens, each in one READ COMMITTED          *)
(* transaction that also writes the event for the outbox.  A transaction   *)
(* locks what it touches in the order of its statements (token, user row,  *)
(* entry of the unique index on telegram_id), waits for whoever holds it   *)
(* and decides on what is committed then.  Names, passwords and permissions*)
(* are one "other" change: it takes the row lock and says nothing to the   *)
(* recipients of notifications.                                            *)
(***************************************************************************)
EXTENDS Naturals, Sequences, FiniteSets

CONSTANTS
  Calls,    \* handler goroutines that can be in flight together
  Users, Chats, Tokens,
  MaxTx     \* bound: transactions begun in one behaviour

Null == "null"     \* telegram_id IS NULL
Keep == "keep"     \* the event does not carry the field

ASSUME ChatAssumption == Null \notin Chats /\ Keep \notin Chats
ASSUME NameAssumption == "none" \notin Users \union Tokens     \* stands for no id
ASSUME BoundAssumption == MaxTx \in Nat

VARIABLES
  users,     \* users[u]: the committed row, or NoUser
  tokens,    \* tokens[k]: its user, whether it has expired and whether it is used
  outbox,    \* committed rows of outbox_events, in commit order
  clock,     \* now() of the transaction begun last
  pc,        \* where each call is
  req,       \* its request; a redemption learns its user from the token
  began,     \* now() of its transaction
  inTime     \* tokens not expired at that time

tables == <<users, tokens, outbox>>
vars == <<users, tokens, outbox, clock, pc, req, began, inTime>>

NoUser == [telegram |-> Null, active |-> "none"]
NoToken == [user |-> "none", expired |-> FALSE, used |-> FALSE]
NoReq == [op |-> "none", user |-> "none", chat |-> Null, token |-> "none"]
Exists(u) == users[u].active # "none"

Init ==
  /\ users = [u \in Users |-> NoUser]
  /\ tokens = [k \in Tokens |-> NoToken]
  /\ outbox = <<>>
  /\ clock = 0
  /\ pc = [c \in Calls |-> "idle"]
  /\ req = [c \in Calls |-> NoReq]
  /\ began = [c \in Calls |-> 0]
  /\ inTime = [c \in Calls |-> {}]

-----------------------------------------------------------------------------
(* Requests *)

Request(op, U, C, K) == [op : {op}, user : U, chat : C, token : K]
Requests ==
  Request("bind", Users, Chats, {"none"}) \union Request("redeem", {"none"}, Chats, Tokens)
  \union UNION {Request(op, Users, {Null}, {"none"}) :
                  op \in {"create", "enable", "disable", "other"}}

\* Mutant of Event: enabling a user is announced like a change of name.
EventWithoutEnabling(c) ==
  LET r == req[c] IN
  [user |-> r.user, at |-> began[c], token |-> r.token,
   telegram |-> CASE r.op \in {"bind", "redeem"} -> r.chat
                  [] r.op = "create" -> Null
                  [] OTHER -> Keep,
   active |-> CASE r.op = "create" -> "on"
                [] r.op = "disable" -> "off"
                [] OTHER -> Keep]

\* What the event says about the user (Keep: nothing).
Event(c) ==
  LET r == req[c] IN
  [user |-> r.user, at |-> began[c], token |-> r.token,
   telegram |-> CASE r.op \in {"bind", "redeem"} -> r.chat
                  [] r.op = "create" -> Null
                  [] OTHER -> Keep,
   active |-> CASE r.op \in {"create", "enable"} -> "on"
                [] r.op = "disable" -> "off"
                [] OTHER -> Keep]

NewRow(r, row) ==
  CASE r.op \in {"bind", "redeem"}   -> [row EXCEPT !.telegram = r.chat]
    [] r.op \in {"create", "enable"} -> [row EXCEPT !.active = "on"]
    [] r.op = "disable"              -> [row EXCEPT !.active = "off"]
    [] OTHER                         -> row

-----------------------------------------------------------------------------
(* Tokens come and expire *)

\* CreateTelegramLink: one INSERT, valid for at least a minute.
CreateLink(k, u) ==
  /\ tokens[k] = NoToken
  /\ Exists(u)                          \* else the foreign key refuses
  /\ tokens' = [tokens EXCEPT ![k].user = u]
  /\ UNCHANGED <<users, outbox, clock, pc, req, began, inTime>>

Expire(k) ==
  /\ tokens[k].user # "none" /\ ~tokens[k].expired
  /\ tokens' = [tokens EXCEPT ![k].expired = TRUE]
  /\ UNCHANGED <<users, outbox, clock, pc, req, began, inTime>>

-----------------------------------------------------------------------------
(* Transactions *)

Goto(c, label) == pc' = [pc EXCEPT ![c] = label]
Return(c) ==
  /\ Goto(c, "idle")
  /\ req' = [req EXCEPT ![c] = NoReq]
  /\ began' = [began EXCEPT ![c] = 0]
  /\ inTime' = [inTime EXCEPT ![c] = {}]

\* A request arrives and its transaction begins.  The id of a new user is new, and
\* nobody can name it before the reply; nor a token, 32 random bytes, before its
\* INSERT (a made-up one finds no row and changes nothing).
Begin(c) ==
  /\ pc[c] = "idle"
  /\ clock < MaxTx
  /\ \E r \in Requests :
       /\ r.op = "create" => ~Exists(r.user) /\ \A d \in Calls : req[d].user # r.user
       /\ \A d \in Calls : req[d].op = "create" => req[d].user # r.user
       /\ r.op = "redeem" => tokens[r.token] # NoToken
       /\ req' = [req EXCEPT ![c] = r]
       /\ Goto(c, IF r.op = "redeem" THEN "token" ELSE "row")
  /\ clock' = clock + 1
  /\ began' = [began EXCEPT ![c] = clock + 1]
  /\ inTime' = [inTime EXCEPT ![c] = {k \in Tokens : ~tokens[k].expired}]
  /\ UNCHANGED tables

\* Labels of a call that holds its token, and of one that holds its user row.
HoldsToken == {"row", "unique", "commit"}
HoldsRow == {"unique", "commit"}

\* Mutant of LockToken: no FOR UPDATE.
ReadToken(c) ==
  LET k == req[c].token IN
  /\ pc[c] = "token"
  /\ IF tokens[k].user # "none" /\ ~tokens[k].used /\ k \in inTime[c]
       THEN /\ req' = [req EXCEPT ![c].user = tokens[k].user]
            /\ Goto(c, "row")
            /\ UNCHANGED <<began, inTime>>
       ELSE Return(c)
  /\ UNCHANGED <<tables, clock>>

\* SELECT ... WHERE used_at IS NULL AND expires_at > now() FOR UPDATE: whoever
\* waited for the lock looks at the row again.
LockToken(c) ==
  LET k == req[c].token IN
  /\ pc[c] = "token"
  /\ \A d \in Calls \ {c} : req[d].token = k => pc[d] \notin HoldsToken
  /\ IF tokens[k].user # "none" /\ ~tokens[k].used /\ k \in inTime[c]
       THEN /\ req' = [req EXCEPT ![c].user = tokens[k].user]
            /\ Goto(c, "row")
            /\ UNCHANGED <<began, inTime>>
       ELSE Return(c)                          \* ErrNotFound
  /\ UNCHANGED <<tables, clock>>

\* UPDATE users ... WHERE id=$1, or the INSERT of a new one: the row.
LockRow(c) ==
  LET r == req[c] IN
  /\ pc[c] = "row"
  /\ \A d \in Calls \ {c} : req[d].user = r.user => pc[d] \notin HoldsRow
  /\ IF r.op = "create" \/ Exists(r.user)
       THEN /\ Goto(c, IF r.op \in {"bind", "redeem"} THEN "unique" ELSE "commit")
            /\ UNCHANGED <<req, began, inTime>>
       ELSE Return(c)                          \* ErrNotFound
  /\ UNCHANGED <<tables, clock>>

\* d has written chat, or has locked the row that has it: wait for d to end.
InDoubt(chat, d) ==
  \/ pc[d] = "commit" /\ req[d].chat = chat
  \/ pc[d] \in HoldsRow /\ users[req[d].user].telegram = chat

\* Mutant of CheckUnique: what others have not committed is not seen.
CheckCommitted(c) ==
  /\ pc[c] = "unique"
  /\ IF \A v \in Users \ {req[c].user} : users[v].telegram # req[c].chat
       THEN Goto(c, "commit") /\ UNCHANGED <<req, began, inTime>>
       ELSE Return(c)
  /\ UNCHANGED <<tables, clock>>

\* The same statement: the entry of the unique index.
CheckUnique(c) ==
  LET r == req[c] IN
  /\ pc[c] = "unique"
  /\ \A d \in Calls \ {c} : ~InDoubt(r.chat, d)
  /\ IF \A v \in Users \ {r.user} : users[v].telegram # r.chat
       THEN Goto(c, "commit") /\ UNCHANGED <<req, began, inTime>>
       ELSE Return(c)                          \* duplicate key: ErrConflict
  /\ UNCHANGED <<tables, clock>>

\* used_at, the outbox row and COMMIT.
Commit(c) ==
  LET r == req[c] IN
  /\ pc[c] = "commit"
  /\ users' = [users EXCEPT ![r.user] = NewRow(r, @)]
  /\ tokens' = IF r.op = "redeem" THEN [tokens EXCEPT ![r.token].used = TRUE] ELSE tokens
  /\ outbox' = Append(outbox, Event(c))
  /\ Return(c)
  /\ UNCHANGED clock

\* A query, the connection, the caller or the process gives up, or PostgreSQL
\* ends one of two transactions that wait for each other's chats: rollback.
Fail(c) ==
  /\ pc[c] # "idle"
  /\ Return(c)
  /\ UNCHANGED <<tables, clock>>

\* The bound is used up and every call has returned.
Quiesce == clock >= MaxTx /\ (\A c \in Calls : pc[c] = "idle") /\ UNCHANGED vars

Next == \/ \E k \in Tokens : Expire(k) \/ \E u \in Users : CreateLink(k, u)
        \/ \E c \in Calls : \/ Begin(c) \/ LockToken(c) \/ LockRow(c) \/ CheckUnique(c)
                            \/ Commit(c) \/ Fail(c)
        \/ Quiesce

Spec == Init /\ [][Next]_vars

-----------------------------------------------------------------------------
(* Properties *)

Labels == {"idle", "token", "row", "unique", "commit"}
UserRows == [telegram : Chats \union {Null}, active : {"on", "off"}] \union {NoUser}
TokenRows == [user : Users, expired : BOOLEAN, used : BOOLEAN] \union {NoToken}
Redeeming == Request("redeem", Users, Chats, Tokens)
Events == [user : Users, at : Nat, token : Tokens \union {"none"},
           telegram : Chats \union {Null, Keep}, active : {"on", "off", Keep}]

\* Tables and calls hold values of their kind, and only a user that exists is on
\* a token or in an event.
TypeOK ==
  /\ users \in [Users -> UserRows]
  /\ tokens \in [Tokens -> TokenRows]
  /\ outbox \in Seq(Events)
  /\ clock \in Nat
  /\ pc \in [Calls -> Labels]
  /\ req \in [Calls -> Requests \union Redeeming \union {NoReq}]
  /\ began \in [Calls -> Nat]
  /\ inTime \in [Calls -> SUBSET Tokens]
  /\ \A k \in Tokens : tokens[k].user # "none" => Exists(tokens[k].user)
  /\ \A i \in DOMAIN outbox : Exists(outbox[i].user)

\* GetUserByTelegramID finds one user: concurrent bindings by password, by token
\* and of the same or of swapped chats never give two users one chat.
OneUserPerChat ==
  \A u, v \in Users : u # v /\ users[u].telegram # Null =>
                        users[u].telegram # users[v].telegram

\* Expiry only takes choices away: UserDirectory does not know it.
Links == [k \in Tokens |-> [user |-> tokens[k].user, used |-> tokens[k].used]]
Directory == INSTANCE UserDirectory WITH links <- Links

\* Racing transactions implement operations that happen at one instant: what a
\* redemption or a binding found when it took its locks (an unused token, a chat
\* nobody has, a user that exists) is still so at its commit.
ImplementsDirectory == Directory!Spec

\* telegram_link_test.go redeems a token twice in turn, on a fake store.  Here
\* redemptions race, with each other and with bindings of the user: a token binds
\* at most one chat, to its user, and is used exactly if it did.
TokenBindsOnce ==
  \A k \in Tokens :
    LET By == {i \in DOMAIN outbox : outbox[i].token = k} IN
    /\ tokens[k].used <=> By # {}
    /\ \A i, j \in By : i = j
    /\ \A i \in By : outbox[i].user = tokens[k].user

LastOf(S, F(_)) == CHOOSE i \in S : \A j \in S : F(j) <= F(i)
Position(i) == i
StartedAt(i) == outbox[i].at

\* The row u has if the events are applied in the order of F.
Told(u, F(_)) ==
  LET Of == {i \in DOMAIN outbox : outbox[i].user = u}
      Telegrams == {i \in Of : outbox[i].telegram # Keep}
      Actives == {i \in Of : outbox[i].active # Keep}
  IN IF Of = {} THEN NoUser
     ELSE [telegram |-> outbox[LastOf(Telegrams, F)].telegram,
           active |-> outbox[LastOf(Actives, F)].active]

\* Events carry only the fields their request changed.  In commit order they
\* still say everything: who applies them has the chat and the activity of every
\* user, whatever handlers raced.
EventsTellUsers == \A u \in Users : users[u] = Told(u, Position)

\* README.md:117 says notifications go to bound active performers.  The worker
\* publishes rows by created_at, the start of their transactions: whom the events
\* hold active when they are applied in that order has to be active.
OutboxOrderTellsActive ==
  \A u \in Users : Told(u, StartedAt).active = "on" => users[u].active = "on"
=============================================================================
