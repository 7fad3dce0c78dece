-------------------------- MODULE UserServiceProofs --------------------------
(***************************************************************************)
(* Proofs about UserService, for every set of calls, users, chats and      *)
(* tokens, and any number of transactions.                                 *)
(***************************************************************************)
EXTENDS UserService, TLAPS

Binding == {"bind", "redeem"}
Plain == {"create", "enable", "disable", "other"}
Ops == Binding \union Plain

-----------------------------------------------------------------------------
(* Type correctness *)

\* A request fills in the fields of its operation only.
LEMMA RequestFields ==
  ASSUME NEW r \in Requests
  PROVE  /\ r.op \in Ops
         /\ r.op # "redeem" => r.user \in Users /\ r.token = "none"
         /\ r.op = "redeem" => r.user = "none" /\ r.token \in Tokens
         /\ r.op \in Binding => r.chat \in Chats
<1>1. CASE r \in Request("bind", Users, Chats, {"none"})
  BY <1>1 DEF Request, Ops, Binding
<1>2. CASE r \in Request("redeem", {"none"}, Chats, Tokens)
  BY <1>2 DEF Request, Ops, Binding
<1>3. CASE \E op \in Plain : r \in Request(op, Users, {Null}, {"none"})
  BY <1>3 DEF Request, Ops, Binding, Plain
<1> QED
  BY <1>1, <1>2, <1>3 DEF Requests, Plain

\* What a call knows at each point of its transaction.
CallOK(c) ==
  /\ pc[c] # "idle" => req[c].op \in Ops
  /\ pc[c] = "idle" => req[c] = NoReq
  /\ pc[c] = "token" => req[c].op = "redeem"
  /\ req[c].op = "redeem" => req[c].token \in Tokens
  /\ req[c].op # "redeem" => req[c].token = "none"
  /\ req[c].op \in Binding => req[c].chat \in Chats
  /\ pc[c] \in HoldsToken => req[c].user \in Users
  /\ pc[c] \in HoldsToken /\ req[c].op = "redeem" =>
       tokens[req[c].token].user = req[c].user
  /\ pc[c] = "unique" => req[c].op \in Binding
  /\ pc[c] \in HoldsRow => req[c].op = "create" \/ Exists(req[c].user)

CallTyped == \A c \in Calls : CallOK(c)

TypeInv == TypeOK /\ CallTyped

\* Users stay, and tokens stay theirs.
RowsKept ==
  /\ \A u \in Users : Exists(u) => Exists(u)'
  /\ \A k \in Tokens : tokens[k].user \in Users => tokens'[k].user = tokens[k].user

\* A step of c leaves the other calls where they are.
Moves(c) ==
  \A d \in Calls : d # c => pc'[d] = pc[d] /\ req'[d] = req[d]

\* A call that does not move stays well-typed.
LEMMA OtherCallTyped ==
  ASSUME NEW d \in Calls, CallOK(d), pc'[d] = pc[d], req'[d] = req[d], RowsKept
  PROVE  CallOK(d)'
<1>1. pc[d] \in HoldsRow => pc[d] \in HoldsToken
  BY DEF HoldsRow, HoldsToken
<1>2. pc[d] \in HoldsRow => req[d].op = "create" \/ Exists(req[d].user)'
  <2>1. ASSUME NEW u \in Users, u = req[d].user, Exists(u) PROVE Exists(req[d].user)'
    BY <2>1 DEF RowsKept, Exists
  <2> QED
    BY <1>1, <2>1 DEF CallOK
<1>3. pc[d] \in HoldsToken /\ req[d].op = "redeem" =>
        tokens'[req[d].token].user = req[d].user
  BY DEF CallOK, RowsKept
<1> QED
  BY <1>2, <1>3 DEF CallOK

\* A transaction that ends leaves well-typed calls behind.
LEMMA ReturnTyped ==
  ASSUME TypeInv, NEW c \in Calls, Return(c), RowsKept
  PROVE  /\ pc' \in [Calls -> Labels]
         /\ req' \in [Calls -> Requests \union Redeeming \union {NoReq}]
         /\ began' \in [Calls -> Nat] /\ inTime' \in [Calls -> SUBSET Tokens]
         /\ pc'[c] = "idle" /\ Moves(c) /\ CallTyped'
<1>1. /\ pc' \in [Calls -> Labels]
      /\ req' \in [Calls -> Requests \union Redeeming \union {NoReq}]
      /\ began' \in [Calls -> Nat] /\ inTime' \in [Calls -> SUBSET Tokens]
  BY DEF TypeInv, TypeOK, Return, Goto, Labels
<1>2. /\ pc'[c] = "idle" /\ req'[c] = NoReq /\ Moves(c)
  BY DEF TypeInv, TypeOK, Return, Goto, Moves
<1>3. ASSUME NEW d \in Calls, d # c
      PROVE  /\ pc'[d] = pc[d] /\ req'[d] = req[d]
             /\ CallOK(d) => CallOK(d)'
  <2>1. pc'[d] = pc[d] /\ req'[d] = req[d]
    BY <1>2, <1>3 DEF Moves
  <2> QED
    BY <2>1, OtherCallTyped
<1>4. CallTyped'
  <2> SUFFICES ASSUME NEW d \in Calls
               PROVE  CallOK(d)'
    BY DEF CallTyped
  <2>1. CASE d = c
    BY <1>2, <2>1 DEF CallOK, NoReq, Binding, HoldsToken, HoldsRow
  <2>2. CASE d # c
    BY <1>3, <2>2 DEF TypeInv, CallTyped
  <2> QED
    BY <2>1, <2>2
<1> QED
  BY <1>1, <1>2, <1>4

\* The user row and the event a commit writes.
LEMMA CommitRows ==
  ASSUME TypeInv, NEW c \in Calls, pc[c] = "commit"
  PROVE  /\ req[c].user \in Users
         /\ NewRow(req[c], users[req[c].user]) \in UserRows \ {NoUser}
         /\ NewRow(req[c], users[req[c].user]).active # "none"
         /\ Event(c) \in Events
<1> DEFINE r == req[c]
           u == r.user
<1>1. /\ r.op \in Ops /\ u \in Users /\ (r.op = "create" \/ Exists(u))
      /\ r.op \in Binding => r.chat \in Chats
      /\ r.token \in Tokens \union {"none"}
  BY DEF TypeInv, CallTyped, CallOK, HoldsToken, HoldsRow
<1>2. users[u] \in UserRows /\ began[c] \in Nat
  BY <1>1 DEF TypeInv, TypeOK
<1>3. users[u].telegram \in Chats \union {Null}
  BY <1>2 DEF UserRows, NoUser
<1>4. users[u] \in [telegram : Chats \union {Null}, active : {"on", "off", "none"}]
  BY <1>2 DEF UserRows, NoUser
<1>5. r.op # "create" => users[u] \in [telegram : Chats \union {Null}, active : {"on", "off"}]
  BY <1>1, <1>2 DEF UserRows, NoUser, Exists
<1>6. NewRow(r, users[u]) \in [telegram : Chats \union {Null}, active : {"on", "off"}]
  <2>1. CASE r.op \in Binding
    BY <1>1, <1>5, <2>1 DEF NewRow, Binding
  <2>2. CASE r.op = "create" \/ r.op = "enable"
    BY <1>4, <2>2 DEF NewRow
  <2>3. CASE r.op = "disable"
    BY <1>4, <2>3 DEF NewRow
  <2>4. CASE r.op = "other"
    BY <1>5, <2>4 DEF NewRow
  <2> QED
    BY <1>1, <2>1, <2>2, <2>3, <2>4 DEF Ops, Plain
<1>7. Event(c) \in Events
  BY <1>1, <1>2 DEF Event, Events, Ops, Binding, Plain
<1> QED
  BY <1>1, <1>6, <1>7 DEF UserRows, NoUser

\* No user, no token and no call at first.
LEMMA TypeInit == Init => TypeInv
<1> SUFFICES ASSUME Init PROVE TypeInv
  OBVIOUS
<1>1. outbox \in Seq(Events) /\ DOMAIN outbox = {}
  BY DEF Init
<1>2. TypeOK
  BY <1>1 DEF Init, TypeOK, UserRows, TokenRows, NoToken, Labels
<1>3. CallTyped
  BY DEF Init, CallTyped, CallOK, NoReq, Binding, HoldsToken, HoldsRow
<1> QED
  BY <1>2, <1>3 DEF TypeInv

\* A call that moves on, or into its transaction, with r as its request.
LEMMA GotoTyped ==
  ASSUME TypeInv, NEW c \in Calls, NEW l \in Labels, Goto(c, l), RowsKept,
         NEW r \in Requests \union Redeeming, req' = [req EXCEPT ![c] = r],
         l # "idle", r.op \in Ops, l = "token" => r.op = "redeem",
         r.op = "redeem" => r.token \in Tokens, r.op # "redeem" => r.token = "none",
         r.op \in Binding => r.chat \in Chats, l \in HoldsToken => r.user \in Users,
         l = "unique" => r.op \in Binding,
         l \in HoldsRow => r.op = "create" \/ Exists(r.user)',
         l \in HoldsToken /\ r.op = "redeem" => tokens'[r.token].user = r.user
  PROVE  /\ pc' \in [Calls -> Labels]
         /\ req' \in [Calls -> Requests \union Redeeming \union {NoReq}]
         /\ pc'[c] = l /\ req'[c] = r /\ Moves(c) /\ CallTyped'
<1>1. /\ pc' \in [Calls -> Labels]
      /\ req' \in [Calls -> Requests \union Redeeming \union {NoReq}]
      /\ pc'[c] = l /\ req'[c] = r /\ Moves(c)
  BY DEF TypeInv, TypeOK, Goto, Moves
<1>2. CallTyped'
  <2> SUFFICES ASSUME NEW d \in Calls PROVE CallOK(d)'
    BY DEF CallTyped
  <2>1. CASE d = c
    BY <1>1, <2>1 DEF CallOK, Exists
  <2>2. CASE d # c
    BY <1>1, <2>2, OtherCallTyped DEF Moves, TypeInv, CallTyped
  <2> QED
    BY <2>1, <2>2
<1> QED
  BY <1>1, <1>2

\* The steps of a call, one by one: types are kept, and no other call moves.
LEMMA BeginTyped ==
  ASSUME TypeInv, NEW c \in Calls, Begin(c)
  PROVE  TypeInv' /\ Moves(c) /\ pc'[c] \in {"token", "row"}
         /\ req'[c] \in Requests /\ (pc'[c] = "row" <=> req'[c].op # "redeem")
<1>1. PICK r \in Requests :
        /\ req' = [req EXCEPT ![c] = r]
        /\ Goto(c, IF r.op = "redeem" THEN "token" ELSE "row")
  BY DEF Begin
<1> DEFINE l == IF r.op = "redeem" THEN "token" ELSE "row"
<1>2. l \in Labels /\ l # "idle" /\ l \notin HoldsRow
      /\ (l = "token" <=> r.op = "redeem") /\ l \in {"token", "row"} /\ l # "unique"
  BY DEF Labels, HoldsRow
<1>3. l \in HoldsToken => r.op # "redeem"
  BY DEF HoldsToken
<1>9. Goto(c, l)
  BY <1>1
<1> HIDE DEF l
<1>4. UNCHANGED <<users, tokens, outbox>>
  BY DEF Begin, tables
<1>5. RowsKept
  BY <1>4 DEF RowsKept, Exists
<1>6. /\ pc' \in [Calls -> Labels]
      /\ req' \in [Calls -> Requests \union Redeeming \union {NoReq}]
      /\ pc'[c] = l /\ req'[c] = r /\ Moves(c) /\ CallTyped'
  BY <1>1, <1>2, <1>3, <1>5, <1>9, RequestFields, GotoTyped
<1>7. clock' \in Nat /\ began' \in [Calls -> Nat] /\ inTime' \in [Calls -> SUBSET Tokens]
  BY DEF Begin, TypeInv, TypeOK
<1>8. TypeOK'
  BY <1>4, <1>6, <1>7 DEF TypeInv, TypeOK, Exists
<1> QED
  BY <1>1, <1>2, <1>6, <1>8 DEF TypeInv

\* A redemption that gets its token learns its user from it.
LEMMA LockTokenTyped ==
  ASSUME TypeInv, NEW c \in Calls, LockToken(c)
  PROVE  /\ TypeInv' /\ Moves(c) /\ pc'[c] \in {"idle", "row"}
         /\ pc'[c] = "row" => /\ req'[c] = [req[c] EXCEPT !.user = tokens[req[c].token].user]
                              /\ req[c].op = "redeem" /\ req[c].token \in Tokens
                              /\ ~tokens[req[c].token].used
                              /\ tokens[req[c].token].user \in Users
<1> DEFINE k == req[c].token
<1>1. /\ req[c].op = "redeem" /\ k \in Tokens /\ req[c].chat \in Chats
      /\ req[c] \in Requests \union Redeeming \union {NoReq}
  BY DEF LockToken, TypeInv, TypeOK, CallTyped, CallOK, Binding
<1>2. UNCHANGED <<users, tokens, outbox, clock>>
  BY DEF LockToken, tables
<1>3. tokens[k] \in TokenRows /\ RowsKept
  BY <1>1, <1>2 DEF TypeInv, TypeOK, RowsKept, Exists
<1>4. CASE tokens[k].user # "none" /\ ~tokens[k].used /\ k \in inTime[c]
  <2>1. tokens[k].user \in Users
    BY <1>3, <1>4 DEF TokenRows, NoToken
  <2> DEFINE r == [req[c] EXCEPT !.user = tokens[k].user]
  <2>2. req[c] \in [op : {"redeem"}, user : Users \union {"none"}, chat : Chats, token : Tokens]
    <3>1. req[c] \in Requests \union Redeeming
      BY <1>1 DEF NoReq
    <3>2. CASE req[c] \in Redeeming
      BY <3>2 DEF Redeeming, Request
    <3>3. CASE req[c] \in Requests
      <4>1. req[c] \in Request("redeem", {"none"}, Chats, Tokens)
        BY <1>1, <3>3 DEF Requests, Request
      <4> QED
        BY <4>1 DEF Request
    <3> QED
      BY <3>1, <3>2, <3>3
  <2>3. r \in Redeeming /\ r.op = "redeem" /\ r.token \in Tokens /\ r.chat \in Chats
        /\ r.user \in Users
    BY <2>1, <2>2 DEF Redeeming, Request
  <2>8. tokens'[r.token].user = r.user
    BY <1>2, <2>2
  <2>4. req' = [req EXCEPT ![c] = r] /\ Goto(c, "row") /\ UNCHANGED <<began, inTime>>
    <3>1. req' = [req EXCEPT ![c].user = tokens[k].user]
      BY <1>4 DEF LockToken
    <3>2. req' = [req EXCEPT ![c] = r]
      BY <3>1
    <3> QED
      BY <1>4, <3>2 DEF LockToken
  <2> HIDE DEF r
  <2>5. /\ "row" \in Labels /\ "row" \notin HoldsRow /\ r.op \in Ops
    BY <2>3 DEF Labels, HoldsRow, Ops, Binding
  <2>6. /\ pc' \in [Calls -> Labels]
        /\ req' \in [Calls -> Requests \union Redeeming \union {NoReq}]
        /\ pc'[c] = "row" /\ req'[c] = r /\ Moves(c) /\ CallTyped'
    BY <1>3, <2>3, <2>4, <2>5, <2>8, GotoTyped
  <2>7. TypeOK'
    BY <1>2, <2>4, <2>6 DEF TypeInv, TypeOK, Exists
  <2> QED
    BY <1>1, <1>4, <2>1, <2>6, <2>7 DEF TypeInv, r
<1>5. CASE ~(tokens[k].user # "none" /\ ~tokens[k].used /\ k \in inTime[c])
  <2>1. Return(c)
    BY <1>5 DEF LockToken
  <2>2. TypeOK' /\ CallTyped' /\ pc'[c] = "idle" /\ Moves(c)
    BY <1>2, <1>3, <2>1, ReturnTyped DEF TypeInv, TypeOK, Exists
  <2> QED
    BY <2>2 DEF TypeInv
<1> QED
  BY <1>4, <1>5

\* A call goes on with its request, or returns.
LEMMA OnTyped ==
  ASSUME TypeInv, NEW c \in Calls, NEW l \in HoldsRow, UNCHANGED <<users, tokens, outbox, clock>>,
         \/ Goto(c, l) /\ UNCHANGED <<req, began, inTime>>
         \/ Return(c),
         pc[c] \in {"row", "unique"},
         l = "unique" => req[c].op \in Binding,
         Goto(c, l) => req[c].op = "create" \/ Exists(req[c].user)
  PROVE  /\ TypeInv' /\ Moves(c)
         /\ (pc'[c] = l /\ req'[c] = req[c]) \/ pc'[c] = "idle"
<1>1. CASE Goto(c, l) /\ UNCHANGED <<req, began, inTime>>
  <2>1. /\ pc' \in [Calls -> Labels] /\ pc'[c] = l
        /\ \A d \in Calls \ {c} : pc'[d] = pc[d]
    BY <1>1 DEF Goto, TypeInv, TypeOK, Labels, HoldsRow
  <2>2. CallTyped'
    <3> SUFFICES ASSUME NEW d \in Calls PROVE CallOK(d)'
      BY DEF CallTyped
    <3>1. CASE d = c
      <4>1. CallOK(c)
        BY DEF TypeInv, CallTyped
      <4> QED
        BY <1>1, <2>1, <3>1, <4>1 DEF CallOK, Exists, HoldsRow, HoldsToken
    <3>2. CASE d # c
      <4>1. CallOK(d)
        BY DEF TypeInv, CallTyped
      <4> QED
        BY <1>1, <2>1, <3>2, <4>1 DEF CallOK, Exists
    <3> QED
      BY <3>1, <3>2
  <2>3. TypeOK'
    BY <1>1, <2>1 DEF TypeInv, TypeOK, Exists
  <2> QED
    BY <1>1, <2>1, <2>2, <2>3 DEF TypeInv, Moves
<1>2. CASE Return(c)
  <2>1. TypeOK' /\ CallTyped' /\ pc'[c] = "idle" /\ Moves(c)
    BY <1>2, ReturnTyped DEF TypeInv, TypeOK, RowsKept, Exists
  <2> QED
    BY <2>1 DEF TypeInv
<1> QED
  BY <1>1, <1>2

\* A call that gets its user row goes on to the index or to its commit.
LEMMA LockRowTyped ==
  ASSUME TypeInv, NEW c \in Calls, LockRow(c)
  PROVE  /\ TypeInv' /\ Moves(c)
         /\ \/ pc'[c] = "idle"
            \/ /\ req'[c] = req[c]
               /\ pc'[c] = IF req[c].op \in Binding THEN "unique" ELSE "commit"
<1> DEFINE l == IF req[c].op \in Binding THEN "unique" ELSE "commit"
<1>1. l \in HoldsRow /\ (l = "unique" => req[c].op \in Binding)
  BY DEF HoldsRow
<1>2. \/ Goto(c, l) /\ UNCHANGED <<req, began, inTime>> /\ (req[c].op = "create" \/ Exists(req[c].user))
      \/ Return(c)
  BY DEF LockRow, Binding
<1>3. UNCHANGED <<users, tokens, outbox, clock>> /\ pc[c] = "row"
  BY DEF LockRow, tables
<1>4. Return(c) /\ Goto(c, l) => FALSE
  BY <1>1 DEF Return, Goto, TypeInv, TypeOK, HoldsRow
<1> HIDE DEF l
<1>5. TypeInv' /\ Moves(c) /\ ((pc'[c] = l /\ req'[c] = req[c]) \/ pc'[c] = "idle")
  BY <1>1, <1>2, <1>3, <1>4, OnTyped
<1> QED
  BY <1>5 DEF l

\* A binding that gets its index entry goes on to its commit.
LEMMA CheckUniqueTyped ==
  ASSUME TypeInv, NEW c \in Calls, CheckUnique(c)
  PROVE  /\ TypeInv' /\ Moves(c)
         /\ (pc'[c] = "commit" /\ req'[c] = req[c]) \/ pc'[c] = "idle"
<1>1. "commit" \in HoldsRow /\ pc[c] = "unique" /\ UNCHANGED <<users, tokens, outbox, clock>>
  BY DEF CheckUnique, HoldsRow, tables
<1>2. \/ Goto(c, "commit") /\ UNCHANGED <<req, began, inTime>>
      \/ Return(c)
  BY DEF CheckUnique
<1>3. req[c].op = "create" \/ Exists(req[c].user)
  BY <1>1 DEF TypeInv, CallTyped, CallOK, HoldsRow
<1> QED
  BY <1>1, <1>2, <1>3, OnTyped

\* A commit writes a row and an event of their kinds, of the call's user.
LEMMA CommitTyped ==
  ASSUME TypeInv, NEW c \in Calls, Commit(c)
  PROVE  /\ TypeInv' /\ Moves(c) /\ pc'[c] = "idle"
         /\ req[c].user \in Users
         /\ \A u \in Users : users'[u] = IF u = req[c].user THEN NewRow(req[c], users[u]) ELSE users[u]
<1> DEFINE u == req[c].user
<1>1. /\ u \in Users /\ NewRow(req[c], users[u]) \in UserRows
      /\ NewRow(req[c], users[u]).active # "none" /\ Event(c) \in Events
      /\ Event(c).user = u
  BY CommitRows DEF Commit, Event
<1>2. /\ users' \in [Users -> UserRows]
      /\ \A v \in Users : users'[v] = IF v = u THEN NewRow(req[c], users[v]) ELSE users[v]
  BY <1>1 DEF Commit, TypeInv, TypeOK
<1>3. /\ tokens' \in [Tokens -> TokenRows]
      /\ \A k \in Tokens : tokens'[k].user = tokens[k].user
  <2>1. CASE req[c].op = "redeem"
    <3> DEFINE t == req[c].token
    <3>1. t \in Tokens /\ tokens[t].user = u
      BY <2>1 DEF Commit, TypeInv, CallTyped, CallOK, HoldsToken
    <3>2. tokens' = [tokens EXCEPT ![t].used = TRUE]
      BY <2>1 DEF Commit
    <3>3. tokens[t] \in [user : Users, expired : BOOLEAN, used : BOOLEAN]
      BY <1>1, <3>1, NameAssumption DEF TypeInv, TypeOK, TokenRows, NoToken
    <3>4. tokens \in [Tokens -> TokenRows]
      BY DEF TypeInv, TypeOK
    <3>5. [tokens[t] EXCEPT !.used = TRUE] \in [user : Users, expired : BOOLEAN, used : BOOLEAN]
          /\ [tokens[t] EXCEPT !.used = TRUE].user = tokens[t].user
      BY <3>3
    <3>6. tokens' = [tokens EXCEPT ![t] = [tokens[t] EXCEPT !.used = TRUE]]
      BY <3>2
    <3> HIDE DEF t
    <3> QED
      BY <3>1, <3>4, <3>5, <3>6 DEF TokenRows
  <2>2. CASE req[c].op # "redeem"
    BY <2>2 DEF Commit, TypeInv, TypeOK
  <2> QED
    BY <2>1, <2>2
<1>4. /\ RowsKept
      /\ \A v \in Users : v = u \/ Exists(v) => Exists(v)'
  BY <1>1, <1>2, <1>3 DEF Exists, RowsKept
<1>5. /\ pc' \in [Calls -> Labels]
      /\ req' \in [Calls -> Requests \union Redeeming \union {NoReq}]
      /\ began' \in [Calls -> Nat] /\ inTime' \in [Calls -> SUBSET Tokens]
      /\ pc'[c] = "idle" /\ Moves(c) /\ CallTyped'
  BY <1>4, ReturnTyped DEF Commit
<1>6. outbox' \in Seq(Events) /\ \A i \in DOMAIN outbox' : users'[outbox'[i].user].active # "none"
  <2>1. outbox' = Append(outbox, Event(c)) /\ outbox \in Seq(Events)
    BY DEF Commit, TypeInv, TypeOK
  <2> DEFINE e == Event(c)
  <2>2. e \in Events /\ e.user = u /\ outbox' = Append(outbox, e)
    BY <1>1, <2>1
  <2> HIDE DEF e
  <2>3. /\ outbox' \in Seq(Events) /\ Len(outbox) \in Nat
        /\ DOMAIN outbox = 1..Len(outbox) /\ DOMAIN outbox' = 1..(Len(outbox) + 1)
        /\ outbox'[Len(outbox) + 1] = e
        /\ \A i \in DOMAIN outbox : outbox'[i] = outbox[i] /\ outbox[i] \in Events
    BY <2>1, <2>2
  <2>4. \A i \in DOMAIN outbox : outbox[i].user \in Users /\ Exists(outbox[i].user)
    BY <2>3 DEF Events, TypeInv, TypeOK
  <2>5. \A i \in DOMAIN outbox' : outbox'[i].user \in Users /\ (outbox'[i].user = u \/ Exists(outbox'[i].user))
    BY <1>1, <2>2, <2>3, <2>4
  <2>6. \A v \in Users : v = u \/ Exists(v) => users'[v].active # "none"
    BY <1>4 DEF Exists
  <2> QED
    BY <2>3, <2>5, <2>6
<1>7. clock' \in Nat
  BY DEF Commit, TypeInv, TypeOK
<1>8. \A k \in Tokens : tokens'[k].user # "none" => users'[tokens'[k].user].active # "none"
  <2>1. \A k \in Tokens : tokens[k].user # "none" => tokens[k].user \in Users /\ Exists(tokens[k].user)
    BY DEF TypeInv, TypeOK, TokenRows, NoToken
  <2>2. \A v \in Users : Exists(v) => users'[v].active # "none"
    BY <1>4 DEF Exists
  <2> QED
    BY <1>3, <2>1, <2>2
<1>9. TypeOK'
  BY <1>2, <1>3, <1>5, <1>6, <1>7, <1>8 DEF TypeOK, Exists
<1> QED
  BY <1>1, <1>2, <1>5, <1>9 DEF TypeInv

\* A transaction that fails is as if it had not begun.
LEMMA FailTyped ==
  ASSUME TypeInv, NEW c \in Calls, Fail(c)
  PROVE  TypeInv' /\ Moves(c) /\ pc'[c] = "idle"
<1>1. Return(c) /\ UNCHANGED <<users, tokens, outbox, clock>>
  BY DEF Fail, tables
<1>2. RowsKept
  BY <1>1 DEF RowsKept, Exists
<1> QED
  BY <1>1, <1>2, ReturnTyped DEF TypeInv, TypeOK, Exists

\* A token comes or expires: no call notices that it has not.
LEMMA TokensTyped ==
  ASSUME TypeInv, NEW k \in Tokens, Expire(k) \/ \E u \in Users : CreateLink(k, u)
  PROVE  /\ TypeInv' /\ UNCHANGED <<users, outbox, pc, req>>
         /\ \A j \in Tokens : /\ tokens'[j].used = tokens[j].used
                              /\ tokens'[j].user = tokens[j].user \/ tokens[j] = NoToken
<1>1. UNCHANGED <<users, outbox, clock, pc, req, began, inTime>>
  BY DEF Expire, CreateLink
<1>2. /\ tokens' \in [Tokens -> TokenRows]
      /\ \A j \in Tokens : /\ tokens'[j].used = tokens[j].used
                           /\ tokens'[j].user = tokens[j].user \/ tokens[j] = NoToken
                           /\ \/ tokens'[j].user = tokens[j].user
                              \/ tokens'[j].user \in Users /\ Exists(tokens'[j].user)
  <2>1. tokens[k] \in TokenRows /\ tokens \in [Tokens -> TokenRows]
    BY DEF TypeInv, TypeOK
  <2>2. CASE Expire(k)
    <3>1. tokens' = [tokens EXCEPT ![k] = [tokens[k] EXCEPT !.expired = TRUE]]
      BY <2>2 DEF Expire
    <3>2. tokens[k] \in [user : Users, expired : BOOLEAN, used : BOOLEAN]
      BY <2>1, <2>2 DEF Expire, TokenRows, NoToken
    <3> DEFINE t == [tokens[k] EXCEPT !.expired = TRUE]
    <3>3. /\ t \in [user : Users, expired : BOOLEAN, used : BOOLEAN]
          /\ t.user = tokens[k].user /\ t.used = tokens[k].used
      BY <3>2
    <3>4. tokens' = [tokens EXCEPT ![k] = t]
      BY <3>1
    <3> HIDE DEF t
    <3> QED
      BY <2>1, <3>3, <3>4 DEF TokenRows
  <2>3. ASSUME NEW u \in Users, CreateLink(k, u) PROVE <1>2!:
    <3>1. tokens' = [tokens EXCEPT ![k] = [NoToken EXCEPT !.user = u]]
          /\ tokens[k] = NoToken /\ Exists(u)
      BY <2>3 DEF CreateLink
    <3> DEFINE t == [NoToken EXCEPT !.user = u]
    <3>2. /\ t \in [user : Users, expired : BOOLEAN, used : BOOLEAN]
          /\ t.user = u /\ t.used = NoToken.used
      BY DEF NoToken
    <3>3. tokens' = [tokens EXCEPT ![k] = t]
      BY <3>1
    <3> HIDE DEF t
    <3> QED
      BY <2>1, <3>1, <3>2, <3>3 DEF TokenRows
  <2> QED
    BY <2>2, <2>3
<1>3. RowsKept
  BY <1>1, <1>2, NameAssumption DEF RowsKept, Exists, NoToken
<1>4. CallTyped'
  BY <1>1, <1>3, OtherCallTyped DEF TypeInv, CallTyped
<1>5. TypeOK'
  BY <1>1, <1>2 DEF TypeInv, TypeOK, Exists
<1> QED
  BY <1>1, <1>2, <1>4, <1>5 DEF TypeInv

\* Every step keeps the types.
LEMMA TypeNext == TypeInv /\ [Next]_vars => TypeInv'
<1> SUFFICES ASSUME TypeInv, [Next]_vars PROVE TypeInv'
  OBVIOUS
<1>1. CASE Quiesce \/ UNCHANGED vars
  <2>1. UNCHANGED vars
    BY <1>1 DEF Quiesce
  <2>2. UNCHANGED <<users, tokens, outbox, clock, pc, req, began, inTime>>
    BY <2>1 DEF vars, tables
  <2>3. RowsKept
    BY <2>2 DEF RowsKept, Exists
  <2>4. CallTyped'
    BY <2>2, <2>3, OtherCallTyped DEF TypeInv, CallTyped
  <2>5. TypeOK'
    BY <2>2 DEF TypeInv, TypeOK, Exists
  <2> QED
    BY <2>4, <2>5 DEF TypeInv
<1> QED
  BY <1>1, TokensTyped, BeginTyped, LockTokenTyped, LockRowTyped, CheckUniqueTyped,
     CommitTyped, FailTyped DEF Next

\* Tables and calls hold values of their kind.
THEOREM TypeCorrect == Spec => []TypeOK
<1>1. TypeInv => TypeOK
  BY DEF TypeInv
<1> QED
  BY <1>1, TypeInit, TypeNext, PTL DEF Spec

-----------------------------------------------------------------------------
(* Locks, and what a transaction may rely on at its commit *)

\* Row lock of the UPDATE; FOR UPDATE of the token.
RowLocks ==
  \A c, d \in Calls :
    c # d /\ pc[c] \in HoldsRow /\ pc[d] \in HoldsRow => req[c].user # req[d].user
TokenLocks ==
  \A c, d \in Calls :
    c # d /\ pc[c] \in HoldsToken /\ pc[d] \in HoldsToken
      /\ req[c].op = "redeem" /\ req[d].op = "redeem" => req[c].token # req[d].token

Binds(c) == pc[c] = "commit" /\ req[c].op \in Binding

\* Who has the entry of the unique index: nobody else has the chat, or will.
ChatReserved ==
  \A c \in Calls : Binds(c) =>
    /\ \A v \in Users : v # req[c].user => users[v].telegram # req[c].chat
    /\ \A d \in Calls : d # c /\ Binds(d) => req[d].chat # req[c].chat

TokenUnused ==
  \A c \in Calls : pc[c] \in HoldsToken /\ req[c].op = "redeem" =>
    ~tokens[req[c].token].used

LockInv == RowLocks /\ TokenLocks /\ ChatReserved /\ TokenUnused
SafeInv == TypeInv /\ LockInv /\ OneUserPerChat /\ TokenBindsOnce

\* At first nobody holds a lock, a chat or a token.
LEMMA SafeInit == Init => SafeInv
<1> SUFFICES ASSUME Init PROVE SafeInv
  OBVIOUS
<1>1. LockInv
  BY DEF Init, LockInv, RowLocks, TokenLocks, ChatReserved, TokenUnused, Binds,
         HoldsToken, HoldsRow
<1>2. OneUserPerChat
  BY DEF Init, OneUserPerChat, NoUser
<1>3. TokenBindsOnce
  BY DEF Init, TokenBindsOnce, NoToken
<1> QED
  BY <1>1, <1>2, <1>3, TypeInit DEF SafeInv

\* A call that ends its transaction without a change, or only begins one.
LEMMA UnlockedStep ==
  ASSUME SafeInv, NEW c \in Calls, Moves(c), UNCHANGED <<users, tokens>>,
         pc'[c] \notin HoldsToken \/ (pc'[c] = "row" /\ req'[c].op # "redeem")
  PROVE  LockInv'
<1>1. RowLocks' /\ TokenLocks'
  BY DEF SafeInv, LockInv, RowLocks, TokenLocks, Moves, HoldsRow, HoldsToken
<1>2. ChatReserved'
  BY DEF SafeInv, LockInv, ChatReserved, Binds, Moves, HoldsToken
<1>3. TokenUnused'
  BY DEF SafeInv, LockInv, TokenUnused, Moves
<1> QED
  BY <1>1, <1>2, <1>3 DEF LockInv

\* No table changes: the chats and the tokens are as they were.
LEMMA SameTables ==
  ASSUME SafeInv, UNCHANGED <<users, tokens, outbox>>
  PROVE  OneUserPerChat' /\ TokenBindsOnce'
BY DEF SafeInv, OneUserPerChat, TokenBindsOnce

\* The token is locked and unused.
LEMMA LockTokenSafe ==
  ASSUME SafeInv, NEW c \in Calls, LockToken(c)
  PROVE  LockInv'
<1>1. /\ Moves(c) /\ pc'[c] \in {"idle", "row"}
      /\ pc'[c] = "row" => /\ req'[c] = [req[c] EXCEPT !.user = tokens[req[c].token].user]
                           /\ req[c].op = "redeem" /\ req[c].token \in Tokens
                           /\ ~tokens[req[c].token].used
  BY LockTokenTyped DEF SafeInv
<1>2. UNCHANGED <<users, tokens>>
  BY DEF LockToken, tables
<1>3. \A d \in Calls \ {c} : req[d].token = req[c].token => pc[d] \notin HoldsToken
  BY DEF LockToken
<1>4. CASE pc'[c] = "idle"
  BY <1>1, <1>2, <1>4, UnlockedStep DEF HoldsToken
<1>5. CASE pc'[c] = "row"
  <2>1. req'[c].op = req[c].op /\ req'[c].token = req[c].token
    <3>1. req[c] \in Requests \union Redeeming \union {NoReq}
      BY DEF SafeInv, TypeInv, TypeOK
    <3>2. req[c] = [op |-> req[c].op, user |-> req[c].user, chat |-> req[c].chat,
                    token |-> req[c].token]
      BY <3>1 DEF Requests, Redeeming, NoReq, Request
    <3> QED
      BY <1>1, <1>5, <3>2
  <2>2. RowLocks' /\ TokenLocks'
    BY <1>1, <1>3, <1>5, <2>1 DEF SafeInv, LockInv, RowLocks, TokenLocks, Moves, HoldsRow
  <2>3. ChatReserved' /\ TokenUnused'
    BY <1>1, <1>2, <1>5, <2>1
       DEF SafeInv, LockInv, ChatReserved, TokenUnused, Binds, Moves
  <2> QED
    BY <2>2, <2>3 DEF LockInv
<1> QED
  BY <1>1, <1>4, <1>5

\* The user row is locked.
LEMMA LockRowSafe ==
  ASSUME SafeInv, NEW c \in Calls, LockRow(c)
  PROVE  LockInv'
<1>1. /\ Moves(c)
      /\ \/ pc'[c] = "idle"
         \/ /\ req'[c] = req[c]
            /\ pc'[c] = IF req[c].op \in Binding THEN "unique" ELSE "commit"
  BY LockRowTyped DEF SafeInv
<1>2. UNCHANGED <<users, tokens>> /\ pc[c] = "row"
  BY DEF LockRow, tables
<1>3. \A d \in Calls \ {c} : req[d].user = req[c].user => pc[d] \notin HoldsRow
  BY DEF LockRow
<1>4. CASE pc'[c] = "idle"
  BY <1>1, <1>2, <1>4, UnlockedStep DEF HoldsToken
<1>5. CASE /\ req'[c] = req[c]
           /\ pc'[c] = IF req[c].op \in Binding THEN "unique" ELSE "commit"
  <2>1. RowLocks'
    BY <1>1, <1>3, <1>5 DEF SafeInv, LockInv, RowLocks, Moves
  <2>2. TokenLocks' /\ TokenUnused'
    BY <1>1, <1>2, <1>5 DEF SafeInv, LockInv, TokenLocks, TokenUnused, Moves, HoldsToken
  <2>3. ~Binds(c)'
    BY <1>5 DEF Binds
  <2>4. ChatReserved'
    BY <1>1, <1>2, <2>3 DEF SafeInv, LockInv, ChatReserved, Binds, Moves
  <2> QED
    BY <2>1, <2>2, <2>4 DEF LockInv
<1> QED
  BY <1>1, <1>4, <1>5

\* The chat is reserved: the wait for calls in doubt leaves no other claim to it.
LEMMA CheckUniqueSafe ==
  ASSUME SafeInv, NEW c \in Calls, CheckUnique(c)
  PROVE  LockInv'
<1>1. Moves(c) /\ ((pc'[c] = "commit" /\ req'[c] = req[c]) \/ pc'[c] = "idle")
  BY CheckUniqueTyped DEF SafeInv
<1>2. UNCHANGED <<users, tokens>> /\ pc[c] = "unique"
  BY DEF CheckUnique, tables
<1>3. CASE pc'[c] = "idle"
  BY <1>1, <1>2, <1>3, UnlockedStep DEF HoldsToken
<1>4. CASE pc'[c] = "commit" /\ req'[c] = req[c]
  <2>1. RowLocks'
    BY <1>1, <1>2, <1>4 DEF SafeInv, LockInv, RowLocks, Moves, HoldsRow
  <2>2. TokenLocks' /\ TokenUnused'
    BY <1>1, <1>2, <1>4 DEF SafeInv, LockInv, TokenLocks, TokenUnused, Moves, HoldsToken
  <2>3. /\ \A v \in Users : v # req[c].user => users[v].telegram # req[c].chat
        /\ \A d \in Calls : d # c /\ Binds(d) => req[d].chat # req[c].chat
    <3>1. ~Return(c)
      BY <1>4 DEF Return, Goto, SafeInv, TypeInv, TypeOK
    <3> QED
      BY <3>1 DEF CheckUnique, InDoubt, Binds
  <2>4. ChatReserved'
    BY <1>1, <1>2, <1>4, <2>3 DEF SafeInv, LockInv, ChatReserved, Binds, Moves
  <2> QED
    BY <2>1, <2>2, <2>4 DEF LockInv
<1> QED
  BY <1>1, <1>3, <1>4

\* What a commit does to a user's chat.
LEMMA CommitChat ==
  ASSUME SafeInv, NEW c \in Calls, Commit(c)
  PROVE  /\ req[c].user \in Users
         /\ \A v \in Users : users'[v].telegram =
              IF v = req[c].user /\ Binds(c) THEN req[c].chat ELSE users[v].telegram
<1>1. /\ req[c].user \in Users /\ req[c].op \in Ops
      /\ \A v \in Users : users'[v] = IF v = req[c].user THEN NewRow(req[c], users[v]) ELSE users[v]
  BY CommitTyped DEF SafeInv, Commit, TypeInv, CallTyped, CallOK
<1>2. users[req[c].user] \in [telegram : Chats \union {Null}, active : {"on", "off", "none"}]
  BY <1>1 DEF SafeInv, TypeInv, TypeOK, UserRows, NoUser
<1>3. NewRow(req[c], users[req[c].user]).telegram =
        IF req[c].op \in Binding THEN req[c].chat ELSE users[req[c].user].telegram
  BY <1>1, <1>2 DEF NewRow, Ops, Binding, Plain
<1> QED
  BY <1>1, <1>3 DEF Binds, Commit

\* What was reserved is free to be written, and the token is used now.
LEMMA CommitSafe ==
  ASSUME SafeInv, NEW c \in Calls, Commit(c)
  PROVE  SafeInv'
<1>1. TypeInv' /\ Moves(c) /\ pc'[c] = "idle" /\ req[c].user \in Users
  BY CommitTyped DEF SafeInv
<1>2. \A v \in Users : users'[v].telegram =
        IF v = req[c].user /\ Binds(c) THEN req[c].chat ELSE users[v].telegram
  BY CommitChat
<1>3. \A k \in Tokens : /\ tokens'[k].user = tokens[k].user
                        /\ tokens'[k].used <=> \/ tokens[k].used
                                               \/ req[c].op = "redeem" /\ req[c].token = k
  <2>1. \A k \in Tokens : tokens[k] \in [user : Users \union {"none"}, expired : BOOLEAN, used : BOOLEAN]
    <3>1. NoToken \in [user : Users \union {"none"}, expired : BOOLEAN, used : BOOLEAN]
      BY DEF NoToken
    <3> QED
      BY <3>1 DEF SafeInv, TypeInv, TypeOK, TokenRows
  <2>2. CASE req[c].op = "redeem"
    <3>1. tokens' = [tokens EXCEPT ![req[c].token].used = TRUE]
      BY <2>2 DEF Commit
    <3>2. \A k \in Tokens : tokens'[k] = IF k = req[c].token THEN [tokens[k] EXCEPT !.used = TRUE]
                                                             ELSE tokens[k]
      BY <3>1 DEF SafeInv, TypeInv, TypeOK
    <3> QED
      BY <2>1, <2>2, <3>2
  <2>3. CASE req[c].op # "redeem"
    BY <2>3 DEF Commit
  <2> QED
    BY <2>2, <2>3
<1>4. RowLocks' /\ TokenLocks'
  BY <1>1 DEF SafeInv, LockInv, RowLocks, TokenLocks, Moves, HoldsRow, HoldsToken
<1>5. ChatReserved'
  <2> SUFFICES ASSUME NEW d \in Calls, Binds(d)'
               PROVE  /\ \A v \in Users : v # req'[d].user => users'[v].telegram # req'[d].chat
                      /\ \A e \in Calls : e # d /\ Binds(e)' => req'[e].chat # req'[d].chat
    BY DEF ChatReserved
  <2>1. d # c /\ Binds(d) /\ req'[d] = req[d]
    BY <1>1 DEF Binds, Moves
  <2>2. \A e \in Calls : Binds(e)' => e # c /\ Binds(e) /\ req'[e] = req[e]
    BY <1>1 DEF Binds, Moves
  <2> QED
    BY <1>2, <2>1, <2>2 DEF SafeInv, LockInv, ChatReserved
<1>6. TokenUnused'
  <2> SUFFICES ASSUME NEW d \in Calls, pc'[d] \in HoldsToken, req'[d].op = "redeem"
               PROVE  ~tokens'[req'[d].token].used
    BY DEF TokenUnused
  <2>1. d # c /\ pc[d] \in HoldsToken /\ req'[d] = req[d] /\ req[d].token \in Tokens
    BY <1>1 DEF Moves, HoldsToken, SafeInv, TypeInv, CallTyped, CallOK
  <2>2. pc[c] \in HoldsToken
    BY DEF Commit, HoldsToken
  <2> QED
    BY <1>3, <2>1, <2>2 DEF SafeInv, LockInv, TokenUnused, TokenLocks
<1>7. OneUserPerChat'
  <2>1. Binds(c) => \A v \in Users : v # req[c].user => users[v].telegram # req[c].chat
    BY DEF SafeInv, LockInv, ChatReserved
  <2> QED
    BY <1>1, <1>2, <2>1 DEF SafeInv, OneUserPerChat
<1>8. TokenBindsOnce'
  <2> SUFFICES ASSUME NEW k \in Tokens
               PROVE  LET By == {i \in DOMAIN outbox' : outbox'[i].token = k} IN
                      /\ tokens'[k].used <=> By # {}
                      /\ \A i, j \in By : i = j
                      /\ \A i \in By : outbox'[i].user = tokens'[k].user
    BY DEF TokenBindsOnce
  <2> DEFINE Old == {i \in DOMAIN outbox : outbox[i].token = k}
             New == {i \in DOMAIN outbox' : outbox'[i].token = k}
  <2>1. /\ tokens[k].used <=> Old # {}
        /\ \A i, j \in Old : i = j
        /\ \A i \in Old : outbox[i].user = tokens[k].user
    BY DEF SafeInv, TokenBindsOnce
  <2>2. outbox' = Append(outbox, Event(c)) /\ outbox \in Seq(Events) /\ Event(c) \in Events
    BY CommitRows DEF Commit, SafeInv, TypeInv, TypeOK
  <2>3. Event(c).token = req[c].token /\ Event(c).user = req[c].user
    BY DEF Event
  <2> DEFINE e == Event(c)
  <2>4. outbox' = Append(outbox, e) /\ e \in Events /\ e.token = req[c].token /\ e.user = req[c].user
    BY <2>2, <2>3
  <2> HIDE DEF e
  <2>5. /\ Len(outbox) \in Nat /\ DOMAIN outbox = 1..Len(outbox)
        /\ DOMAIN outbox' = 1..(Len(outbox) + 1) /\ outbox'[Len(outbox) + 1] = e
        /\ \A i \in DOMAIN outbox : outbox'[i] = outbox[i]
    BY <2>2, <2>4
  <2>6. New = IF req[c].token = k THEN Old \union {Len(outbox) + 1} ELSE Old
    BY <2>4, <2>5
  <2>7. CASE req[c].op = "redeem" /\ req[c].token = k
    <3>1. ~tokens[k].used /\ tokens[k].user = req[c].user
      BY <2>7 DEF Commit, HoldsToken, SafeInv, LockInv, TokenUnused, TypeInv, CallTyped, CallOK
    <3>2. Old = {} /\ New = {Len(outbox) + 1}
      BY <2>1, <2>6, <2>7, <3>1
    <3> QED
      BY <1>3, <2>4, <2>5, <2>7, <3>1, <3>2
  <2>8. CASE ~(req[c].op = "redeem" /\ req[c].token = k)
    <3>1. req[c].token # k
      BY <2>8, NameAssumption DEF SafeInv, TypeInv, CallTyped, CallOK
    <3>2. New = Old
      BY <2>6, <3>1
    <3> QED
      BY <1>3, <2>1, <2>5, <2>8, <3>2
  <2> QED
    BY <2>7, <2>8
<1> QED
  BY <1>1, <1>4, <1>5, <1>6, <1>7, <1>8 DEF SafeInv, LockInv

\* Tokens that come or expire disturb nothing.
LEMMA TokensSafe ==
  ASSUME SafeInv, NEW k \in Tokens, Expire(k) \/ \E u \in Users : CreateLink(k, u)
  PROVE  SafeInv'
<1>1. /\ TypeInv' /\ UNCHANGED <<users, outbox, pc, req>>
      /\ \A j \in Tokens : /\ tokens'[j].used = tokens[j].used
                           /\ tokens'[j].user = tokens[j].user \/ tokens[j] = NoToken
  BY TokensTyped DEF SafeInv
<1>2. LockInv'
  BY <1>1 DEF SafeInv, TypeInv, CallTyped, CallOK, LockInv, RowLocks, TokenLocks, ChatReserved,
              TokenUnused, Binds
<1>3. OneUserPerChat'
  BY <1>1 DEF SafeInv, OneUserPerChat
<1>4. TokenBindsOnce'
  BY <1>1 DEF SafeInv, TokenBindsOnce, NoToken
<1> QED
  BY <1>1, <1>2, <1>3, <1>4 DEF SafeInv

\* Every step keeps the invariant.
LEMMA SafeNext == SafeInv /\ [Next]_vars => SafeInv'
<1> SUFFICES ASSUME SafeInv, [Next]_vars PROVE SafeInv'
  OBVIOUS
<1>1. TypeInv'
  BY TypeNext DEF SafeInv
<1>2. ASSUME NEW c \in Calls, Begin(c) PROVE SafeInv'
  <2>1. /\ Moves(c) /\ pc'[c] \in {"token", "row"}
        /\ (pc'[c] = "row" <=> req'[c].op # "redeem")
    BY <1>2, BeginTyped DEF SafeInv
  <2>2. UNCHANGED <<users, tokens, outbox>>
    BY <1>2 DEF Begin, tables
  <2>3. LockInv'
    BY <2>1, <2>2, UnlockedStep DEF HoldsToken
  <2> QED
    BY <1>1, <2>2, <2>3, SameTables DEF SafeInv
<1>3. ASSUME NEW c \in Calls, LockToken(c) \/ LockRow(c) \/ CheckUnique(c) PROVE SafeInv'
  <2>1. UNCHANGED <<users, tokens, outbox>>
    BY <1>3 DEF LockToken, LockRow, CheckUnique, tables
  <2> QED
    BY <1>1, <1>3, <2>1, SameTables, LockTokenSafe, LockRowSafe, CheckUniqueSafe DEF SafeInv
<1>4. ASSUME NEW c \in Calls, Fail(c) PROVE SafeInv'
  <2>1. Moves(c) /\ pc'[c] = "idle" /\ UNCHANGED <<users, tokens, outbox>>
    BY <1>4, FailTyped DEF SafeInv, Fail, tables
  <2> QED
    BY <1>1, <2>1, SameTables, UnlockedStep DEF SafeInv, HoldsToken
<1>5. CASE Quiesce \/ UNCHANGED vars
  BY <1>1, <1>5, SameTables DEF Quiesce, vars, tables, SafeInv, LockInv, RowLocks, TokenLocks,
                                ChatReserved, TokenUnused, Binds
<1> QED
  BY <1>2, <1>3, <1>4, <1>5, TokensSafe, CommitSafe DEF Next

\* The locks do what the transactions rely on.
THEOREM Safety == Spec => []SafeInv
BY SafeInit, SafeNext, PTL DEF Spec

\* GetUserByTelegramID finds one user (the unique index on telegram_id, and the
\* waits for it), for any number of racing bindings.
THEOREM ChatsUnique == Spec => []OneUserPerChat
<1>1. SafeInv => OneUserPerChat
  BY DEF SafeInv
<1> QED
  BY <1>1, Safety, PTL

\* A link token (SELECT ... FOR UPDATE, used_at) binds at most once, and its user.
THEOREM TokensBindOnce == Spec => []TokenBindsOnce
<1>1. SafeInv => TokenBindsOnce
  BY DEF SafeInv
<1> QED
  BY <1>1, Safety, PTL

-----------------------------------------------------------------------------
(* The events and the users *)

\* Told, as a fact about the events h and the row of u.
Of(h, u) == {i \in DOMAIN h : h[i].user = u}
Telegrams(h, u) == {i \in Of(h, u) : h[i].telegram # Keep}
Actives(h, u) == {i \in Of(h, u) : h[i].active # Keep}
IsLast(S, i) == i \in S /\ \A j \in S : j <= i

RowTold(h, u, row) ==
  IF Of(h, u) = {} THEN row = NoUser
  ELSE \E i \in Telegrams(h, u), j \in Actives(h, u) :
         /\ IsLast(Telegrams(h, u), i) /\ IsLast(Actives(h, u), j)
         /\ row = [telegram |-> h[i].telegram, active |-> h[j].active]

\* The id of a create is its own.
CreatesFresh ==
  \A c \in Calls : req[c].op = "create" =>
    /\ ~Exists(req[c].user)
    /\ \A d \in Calls : d # c /\ req[d].op = "create" => req[d].user # req[c].user

TellInv == CreatesFresh /\ \A u \in Users : RowTold(outbox, u, users[u])

LEMMA TellInit == Init => TellInv
<1> SUFFICES ASSUME Init PROVE TellInv
  OBVIOUS
<1>1. \A u : Of(outbox, u) = {}
  BY DEF Init, Of
<1> QED
  BY <1>1 DEF Init, TellInv, CreatesFresh, RowTold, NoReq

\* No row and no event: it is enough that no new create is about someone known.
LEMMA TellSame ==
  ASSUME SafeInv, TellInv, UNCHANGED <<users, outbox>>,
         \A c \in Calls : req'[c].op = "create" => req'[c] = req[c]
  PROVE  TellInv'
BY DEF TellInv, CreatesFresh, Exists

LEMMA TellBegin == ASSUME SafeInv, TellInv, NEW c \in Calls, Begin(c) PROVE TellInv'
<1>1. PICK r \in Requests :
        /\ r.op = "create" => ~Exists(r.user) /\ \A d \in Calls : req[d].user # r.user
        /\ req' = [req EXCEPT ![c] = r]
  BY DEF Begin
<1>2. UNCHANGED <<users, outbox>>
  BY DEF Begin, tables
<1>3. \A d \in Calls : req'[d] = IF d = c THEN r ELSE req[d]
  BY <1>1 DEF SafeInv, TypeInv, TypeOK
<1> QED
  BY <1>1, <1>2, <1>3 DEF TellInv, CreatesFresh, Exists

\* What one more event e of v says.
LEMMA OneMoreEvent ==
  ASSUME NEW h \in Seq(Events), NEW e \in Events, NEW u \in Users, NEW row, RowTold(h, u, row)
  PROVE  LET g == Append(h, e) IN
         /\ u # e.user => RowTold(g, u, row)
         /\ u = e.user /\ Of(h, u) # {} =>
              RowTold(g, u, [telegram |-> IF e.telegram = Keep THEN row.telegram ELSE e.telegram,
                             active |-> IF e.active = Keep THEN row.active ELSE e.active])
         /\ u = e.user /\ e.telegram # Keep /\ e.active # Keep =>
              RowTold(g, u, [telegram |-> e.telegram, active |-> e.active])
<1> DEFINE g == Append(h, e)
           n == Len(h) + 1
<1>1. /\ n \in Nat /\ DOMAIN h = 1..(n - 1) /\ DOMAIN g = 1..n
      /\ g[n] = e /\ \A i \in 1..(n - 1) : g[i] = h[i]
      /\ \A i : i \in 1..n <=> i \in 1..(n - 1) \/ i = n
      /\ \A i \in 1..(n - 1) : i \in Nat /\ i < n
      /\ n \notin 1..(n - 1)
  OBVIOUS
<1> HIDE DEF g, n
<1>2. Of(g, u) = IF u = e.user THEN Of(h, u) \union {n} ELSE Of(h, u)
  BY <1>1 DEF Of
<1>3. Of(h, u) \subseteq 1..(n - 1)
  BY <1>1 DEF Of
<1>4. /\ Telegrams(g, u) = IF u = e.user /\ e.telegram # Keep THEN Telegrams(h, u) \union {n}
                           ELSE Telegrams(h, u)
      /\ Actives(g, u) = IF u = e.user /\ e.active # Keep THEN Actives(h, u) \union {n}
                         ELSE Actives(h, u)
  BY <1>1, <1>2, <1>3 DEF Telegrams, Actives
<1>5. Telegrams(h, u) \subseteq 1..(n - 1) /\ Actives(h, u) \subseteq 1..(n - 1)
  BY <1>3 DEF Telegrams, Actives
<1>6. \A S : S \subseteq 1..(n - 1) => IsLast(S \union {n}, n)
  BY <1>1 DEF IsLast
<1>7. ASSUME u # e.user PROVE RowTold(g, u, row)
  <2>1. Of(g, u) = Of(h, u) /\ Telegrams(g, u) = Telegrams(h, u) /\ Actives(g, u) = Actives(h, u)
    BY <1>2, <1>4, <1>7
  <2>2. \A i \in Telegrams(h, u) \union Actives(h, u) : g[i] = h[i]
    BY <1>1, <1>5
  <2> QED
    BY <2>1, <2>2 DEF RowTold
<1>8. ASSUME u = e.user, Of(h, u) # {}
      PROVE  RowTold(g, u, [telegram |-> IF e.telegram = Keep THEN row.telegram ELSE e.telegram,
                            active |-> IF e.active = Keep THEN row.active ELSE e.active])
  <2>1. PICK i \in Telegrams(h, u), j \in Actives(h, u) :
          /\ IsLast(Telegrams(h, u), i) /\ IsLast(Actives(h, u), j)
          /\ row = [telegram |-> h[i].telegram, active |-> h[j].active]
    BY <1>8 DEF RowTold
  <2>2. g[i] = h[i] /\ g[j] = h[j] /\ g[n] = e /\ row.telegram = h[i].telegram /\ row.active = h[j].active
    BY <1>1, <1>5, <2>1
  <2>3. PICK k \in Telegrams(g, u) :
          IsLast(Telegrams(g, u), k) /\ g[k].telegram = IF e.telegram = Keep THEN row.telegram ELSE e.telegram
    BY <1>4, <1>5, <1>6, <1>8, <2>1, <2>2
  <2>4. PICK m \in Actives(g, u) :
          IsLast(Actives(g, u), m) /\ g[m].active = IF e.active = Keep THEN row.active ELSE e.active
    BY <1>4, <1>5, <1>6, <1>8, <2>1, <2>2
  <2>5. Of(g, u) # {}
    BY <1>2, <1>8
  <2>6. \E i1 \in Telegrams(g, u), j1 \in Actives(g, u) :
          /\ IsLast(Telegrams(g, u), i1) /\ IsLast(Actives(g, u), j1)
          /\ g[i1].telegram = IF e.telegram = Keep THEN row.telegram ELSE e.telegram
          /\ g[j1].active = IF e.active = Keep THEN row.active ELSE e.active
    BY <2>3, <2>4
  <2> DEFINE new == [telegram |-> IF e.telegram = Keep THEN row.telegram ELSE e.telegram,
                     active |-> IF e.active = Keep THEN row.active ELSE e.active]
  <2>7. \E i1 \in Telegrams(g, u), j1 \in Actives(g, u) :
          /\ IsLast(Telegrams(g, u), i1) /\ IsLast(Actives(g, u), j1)
          /\ new = [telegram |-> g[i1].telegram, active |-> g[j1].active]
    BY <2>6
  <2> HIDE DEF new
  <2>8. RowTold(g, u, new)
    BY <2>5, <2>7 DEF RowTold
  <2> QED
    BY <2>8 DEF new
<1>9. ASSUME u = e.user, e.telegram # Keep, e.active # Keep
      PROVE  RowTold(g, u, [telegram |-> e.telegram, active |-> e.active])
  <2>1. /\ Telegrams(g, u) = Telegrams(h, u) \union {n} /\ Actives(g, u) = Actives(h, u) \union {n}
        /\ Of(g, u) # {} /\ g[n] = e
    BY <1>1, <1>2, <1>4, <1>9
  <2>2. IsLast(Telegrams(g, u), n) /\ IsLast(Actives(g, u), n)
    BY <1>5, <1>6, <2>1
  <2>3. n \in Telegrams(g, u) /\ n \in Actives(g, u)
    BY <2>1
  <2> QED
    BY <2>1, <2>2, <2>3 DEF RowTold
<1> QED
  BY <1>7, <1>8, <1>9 DEF g

LEMMA TellCommit == ASSUME SafeInv, TellInv, NEW c \in Calls, Commit(c) PROVE TellInv'
<1> DEFINE r == req[c]
           e == Event(c)
<1>1. /\ r.user \in Users /\ r.op \in Ops /\ pc[c] = "commit" /\ e \in Events /\ outbox \in Seq(Events)
      /\ (r.op = "create" \/ Exists(r.user))
      /\ (r.op \in Binding => r.chat \in Chats)
      /\ NewRow(r, users[r.user]).active # "none"
  BY CommitRows DEF Commit, SafeInv, TypeInv, TypeOK, CallTyped, CallOK, HoldsRow
<1>2. /\ outbox' = Append(outbox, e)
      /\ \A u \in Users : users'[u] = IF u = r.user THEN NewRow(r, users[u]) ELSE users[u]
  BY DEF Commit, SafeInv, TypeInv, TypeOK
<1>3. /\ e.user = r.user
      /\ e.telegram = IF r.op \in Binding THEN r.chat ELSE IF r.op = "create" THEN Null ELSE Keep
      /\ e.active = IF r.op \in {"create", "enable"} THEN "on" ELSE IF r.op = "disable" THEN "off" ELSE Keep
  BY <1>1 DEF Event, Ops, Binding, Plain
<1>4. users[r.user] \in [telegram : Chats \union {Null}, active : {"on", "off", "none"}]
      /\ (~Exists(r.user) => users[r.user] = NoUser)
  BY <1>1 DEF SafeInv, TypeInv, TypeOK, UserRows, NoUser, Exists
<1> HIDE DEF e
<1>5. RowTold(outbox', r.user, NewRow(r, users[r.user]))
  <2>0. RowTold(outbox, r.user, users[r.user])
    BY <1>1 DEF TellInv
  <2>1. CASE r.op = "create"
    <3>1. users[r.user] = NoUser
      BY <1>4, <2>1 DEF TellInv, CreatesFresh
    <3>2. NewRow(r, users[r.user]) = [telegram |-> Null, active |-> "on"]
      BY <2>1, <3>1 DEF NewRow, NoUser
    <3>3. e.telegram = Null /\ e.active = "on" /\ Null # Keep /\ "on" # Keep
      BY <1>3, <2>1 DEF Null, Keep, Binding
    <3> QED
      BY <1>1, <1>2, <1>3, <2>0, <3>2, <3>3, OneMoreEvent
  <2>2. CASE r.op # "create"
    <3>1. Of(outbox, r.user) # {}
      BY <1>1, <2>0, <2>2 DEF RowTold, Exists, NoUser
    <3>2. r.op \in Binding => r.chat # Keep
      BY <1>1, <2>2, ChatAssumption
    <3>3. NewRow(r, users[r.user]) =
            [telegram |-> IF e.telegram = Keep THEN users[r.user].telegram ELSE e.telegram,
             active |-> IF e.active = Keep THEN users[r.user].active ELSE e.active]
      <4>1. users[r.user] = [telegram |-> users[r.user].telegram, active |-> users[r.user].active]
        BY <1>4
      <4>2. CASE r.op \in Binding
        BY <1>3, <1>4, <3>2, <4>2 DEF NewRow, Binding, Keep
      <4>3. CASE r.op \in {"enable", "disable"}
        BY <1>3, <1>4, <4>3 DEF NewRow, Binding, Keep
      <4>4. CASE r.op = "other"
        BY <1>3, <4>1, <4>4 DEF NewRow, Binding
      <4> QED
        BY <1>1, <2>2, <4>2, <4>3, <4>4 DEF Ops, Plain
    <3> QED
      BY <1>1, <1>2, <1>3, <2>0, <3>1, <3>3, OneMoreEvent, ZenonT(60)
  <2> QED
    BY <2>1, <2>2
<1>6. \A u \in Users : RowTold(outbox, u, users[u])'
  <2> SUFFICES ASSUME NEW u \in Users PROVE RowTold(outbox', u, users'[u])
    OBVIOUS
  <2>1. CASE u # r.user
    <3>1. RowTold(outbox, u, users[u]) /\ users'[u] = users[u]
      BY <1>2, <2>1 DEF TellInv
    <3> QED
      BY <1>1, <1>2, <1>3, <2>1, <3>1, OneMoreEvent
  <2>2. CASE u = r.user
    BY <1>2, <1>5, <2>2
  <2> QED
    BY <2>1, <2>2
<1>7. CreatesFresh'
  <2>1. \A d \in Calls : req'[d] = IF d = c THEN NoReq ELSE req[d]
    BY DEF Commit, Return, SafeInv, TypeInv, TypeOK
  <2>2. ASSUME NEW d \in Calls, d # c, req[d].op = "create" PROVE users'[req[d].user].active = "none"
    <3>1. req[d].user # r.user /\ ~Exists(req[d].user)
      <4>1. CASE r.op = "create"
        BY <2>2, <4>1 DEF TellInv, CreatesFresh
      <4>2. CASE r.op # "create"
        BY <1>1, <2>2, <4>2 DEF TellInv, CreatesFresh
      <4> QED
        BY <4>1, <4>2
    <3>2. req[d].user \in Users
      BY <2>2, RequestFields DEF SafeInv, TypeInv, TypeOK, Redeeming, Request, NoReq
    <3> QED
      BY <1>2, <3>1, <3>2 DEF Exists
  <2>3. \A d, f \in Calls : /\ d # c /\ f # c /\ d # f
                             /\ req[d].op = "create" /\ req[f].op = "create"
                             => req[f].user # req[d].user
    BY DEF TellInv, CreatesFresh
  <2> QED
    BY <2>1, <2>2, <2>3 DEF CreatesFresh, Exists, NoReq
<1> QED
  BY <1>6, <1>7 DEF TellInv

LEMMA TellNext == SafeInv /\ TellInv /\ [Next]_vars => TellInv'
<1> SUFFICES ASSUME SafeInv, TellInv, [Next]_vars PROVE TellInv'
  OBVIOUS
<1>1. ASSUME NEW c \in Calls, LockToken(c) \/ LockRow(c) \/ CheckUnique(c) \/ Fail(c) PROVE TellInv'
  <2>1. UNCHANGED <<users, outbox>>
    BY <1>1 DEF LockToken, LockRow, CheckUnique, Fail, tables
  <2>2. \/ req' = req \/ req' = [req EXCEPT ![c] = NoReq]
        \/ pc[c] = "token" /\ \E u : req' = [req EXCEPT ![c].user = u]
    BY <1>1 DEF LockToken, LockRow, CheckUnique, Fail, Return
  <2>3. pc[c] = "token" => req[c].op = "redeem"
    BY DEF SafeInv, TypeInv, CallTyped, CallOK
  <2>4. \A u : [req[c] EXCEPT !.user = u].op = req[c].op
    BY DEF SafeInv, TypeInv, TypeOK, Requests, Redeeming, Request, NoReq
  <2>5. \A d \in Calls : req'[d].op = "create" => req'[d] = req[d]
    <3>0. DOMAIN req = Calls
      BY DEF SafeInv, TypeInv, TypeOK
    <3>1. \A d \in Calls : d # c => req'[d] = req[d]
      BY <2>2, <3>0
    <3>2. \/ req'[c] = req[c]
          \/ req'[c].op = "none"
          \/ req'[c].op = req[c].op /\ req[c].op = "redeem"
      <4>1. ASSUME NEW u, pc[c] = "token", req' = [req EXCEPT ![c].user = u]
            PROVE  req'[c].op = req[c].op /\ req[c].op = "redeem"
        <5>1. req'[c] = [req[c] EXCEPT !.user = u]
          BY <3>0, <4>1
        <5> QED
          BY <2>3, <2>4, <4>1, <5>1
      <4>2. req' = [req EXCEPT ![c] = NoReq] => req'[c].op = "none"
        BY <3>0 DEF NoReq
      <4> QED
        BY <2>2, <4>1, <4>2
    <3> QED
      BY <3>1, <3>2
  <2> QED
    BY <2>1, <2>5, TellSame
<1>2. ASSUME NEW k \in Tokens, Expire(k) \/ \E u \in Users : CreateLink(k, u) PROVE TellInv'
  BY <1>2, TellSame DEF Expire, CreateLink
<1>3. CASE Quiesce \/ UNCHANGED vars
  BY <1>3, TellSame DEF Quiesce, vars, tables
<1> QED
  BY <1>1, <1>2, <1>3, TellBegin, TellCommit DEF Next

\* In commit order the events say of every user the chat and the activity, whatever
\* handlers raced, though each carries only the fields its request changed.
THEOREM EventsTell == Spec => []EventsTellUsers
<1>1. SafeInv /\ TellInv => EventsTellUsers
  <2> SUFFICES ASSUME SafeInv, TellInv, NEW u \in Users PROVE users[u] = Told(u, Position)
    BY DEF EventsTellUsers
  <2>1. RowTold(outbox, u, users[u]) /\ Of(outbox, u) \subseteq Nat
    BY DEF TellInv, SafeInv, TypeInv, TypeOK, Of
  <2>2. ASSUME NEW S, S \subseteq Nat, NEW i, IsLast(S, i)
        PROVE  (CHOOSE k \in S : \A j \in S : j <= k) = i
    <3>1. \A k \in S : (\A j \in S : j <= k) => k = i
      BY <2>2 DEF IsLast
    <3>2. i \in S /\ \A j \in S : j <= i
      BY <2>2 DEF IsLast
    <3> QED
      BY <3>1, <3>2
  <2>3. Told(u, Position) = IF Of(outbox, u) = {} THEN NoUser
          ELSE [telegram |-> outbox[CHOOSE k \in Telegrams(outbox, u) : \A j \in Telegrams(outbox, u) : j <= k].telegram,
                active |-> outbox[CHOOSE k \in Actives(outbox, u) : \A j \in Actives(outbox, u) : j <= k].active]
    BY DEF Told, LastOf, Position, Of, Telegrams, Actives
  <2>4. Telegrams(outbox, u) \subseteq Nat /\ Actives(outbox, u) \subseteq Nat
    BY <2>1 DEF Telegrams, Actives
  <2> QED
    BY <2>1, <2>2, <2>3, <2>4 DEF RowTold
<1> QED
  BY <1>1, SafeInit, SafeNext, TellInit, TellNext, PTL DEF Spec

-----------------------------------------------------------------------------
(* UserService implements UserDirectory *)

\* A row and a link, field by field.
LEMMA RowFields ==
  ASSUME TypeInv
  PROVE  /\ \A u \in Users :
              users[u] \in [telegram : Chats \union {Null}, active : {"on", "off", "none"}]
         /\ \A k \in Tokens :
              tokens[k] \in [user : Users \union {"none"}, expired : BOOLEAN, used : BOOLEAN]
<1>1. /\ NoUser \in [telegram : Chats \union {Null}, active : {"on", "off", "none"}]
      /\ NoToken \in [user : Users \union {"none"}, expired : BOOLEAN, used : BOOLEAN]
  BY DEF NoUser, NoToken
<1>2. users \in [Users -> UserRows] /\ tokens \in [Tokens -> TokenRows]
  BY DEF TypeInv, TypeOK
<1> QED
  BY <1>1, <1>2 DEF UserRows, TokenRows

\* A binding sets the chat of a user who exists, while nobody else has it.
LEMMA BindingFree ==
  ASSUME SafeInv, NEW c \in Calls, Commit(c), req[c].op \in Binding
  PROVE  /\ req[c].user \in Users /\ req[c].chat \in Chats
         /\ Directory!Exists(req[c].user)
         /\ Directory!Free(req[c].chat, req[c].user)
         /\ users' = [users EXCEPT ![req[c].user].telegram = req[c].chat]
<1>1. /\ req[c].user \in Users /\ req[c].chat \in Chats /\ Exists(req[c].user)
      /\ pc[c] = "commit"
  BY CommitTyped DEF Commit, SafeInv, TypeInv, CallTyped, CallOK, Binding, HoldsRow
<1>2. \A v \in Users : v # req[c].user => users[v].telegram # req[c].chat
  BY <1>1 DEF SafeInv, LockInv, ChatReserved, Binds
<1>3. users' = [users EXCEPT ![req[c].user].telegram = req[c].chat]
  BY <1>1 DEF Commit, NewRow, Binding
<1> QED
  BY <1>1, <1>2, <1>3 DEF Directory!Exists, Directory!Free, Exists

\* A commit is one change of UserDirectory, or the change says nothing there.
LEMMA CommitIsAtomicChange ==
  ASSUME SafeInv, CreatesFresh, NEW c \in Calls, Commit(c)
  PROVE  Directory!Next \/ UNCHANGED <<users, Links>>
<1> DEFINE r == req[c]
           u == req[c].user
           k == req[c].token
<1>1. /\ u \in Users /\ r.op \in Ops /\ (r.op # "create" => Exists(u))
      /\ users' = [users EXCEPT ![u] = NewRow(r, users[u])]
  BY CommitTyped DEF Commit, SafeInv, TypeInv, CallTyped, CallOK, HoldsRow
<1>2. users \in [Users -> UserRows]
  BY DEF SafeInv, TypeInv, TypeOK
<1>3. r.op # "redeem" => Links' = Links
  BY DEF Commit, Links
<1>4. CASE r.op = "create"
  <2>1. ~Exists(u)
    BY <1>4 DEF CreatesFresh
  <2>2. users' = [users EXCEPT ![u].active = "on"]
    BY <1>1, <1>4 DEF NewRow
  <2>3. Directory!Create(u)
    BY <1>3, <1>4, <2>1, <2>2 DEF Directory!Create, Directory!Exists, Exists
  <2> QED
    BY <1>1, <2>3 DEF Directory!Next
<1>5. CASE r.op = "enable" \/ r.op = "disable"
  <2>1. \E a \in {"on", "off"} : users' = [users EXCEPT ![u].active = a]
    BY <1>1, <1>5 DEF NewRow
  <2>2. Directory!SetActive(u)
    BY <1>1, <1>3, <1>5, <2>1 DEF Directory!SetActive, Directory!Exists, Exists
  <2> QED
    BY <1>1, <2>2 DEF Directory!Next
<1>6. CASE r.op = "other"
  <2>1. users' = users
    BY <1>1, <1>2, <1>6 DEF NewRow
  <2> QED
    BY <1>3, <1>6, <2>1
<1>7. CASE r.op = "bind"
  <2>1. Directory!Bind(u, r.chat) /\ r.chat \in Chats
    BY <1>3, <1>7, BindingFree DEF Directory!Bind, Binding
  <2> QED
    BY <1>1, <2>1 DEF Directory!Next
<1>8. CASE r.op = "redeem"
  <2>1. /\ k \in Tokens /\ tokens[k].user = u /\ ~tokens[k].used
        /\ tokens' = [tokens EXCEPT ![k].used = TRUE]
    BY <1>8 DEF Commit, SafeInv, TypeInv, CallTyped, CallOK, LockInv, TokenUnused, HoldsToken
  <2>2. Links[k].user = u /\ ~Links[k].used
    BY <2>1 DEF Links
  <2>3. Links' = [Links EXCEPT ![k].used = TRUE]
    <3>1. \A j \in Tokens : tokens[j] \in
            [user : Users \union {"none"}, expired : BOOLEAN, used : BOOLEAN]
      BY RowFields DEF SafeInv
    <3>2. tokens \in [Tokens -> TokenRows]
      BY DEF SafeInv, TypeInv, TypeOK
    <3>3. \A j \in Tokens : /\ tokens'[j].user = tokens[j].user
                            /\ tokens'[j].used = IF j = k THEN TRUE ELSE tokens[j].used
      BY <2>1, <3>1, <3>2
    <3> HIDE DEF k
    <3>4. Links' = [j \in Tokens |-> [user |-> tokens[j].user,
                                      used |-> IF j = k THEN TRUE ELSE tokens[j].used]]
      BY <3>3 DEF Links
    <3> QED
      BY <2>1, <3>4 DEF Links
  <2>4. /\ r.chat \in Chats /\ Directory!Exists(u) /\ Directory!Free(r.chat, u)
        /\ users' = [users EXCEPT ![u].telegram = r.chat]
    BY <1>8, BindingFree DEF Binding
  <2>5. u # "none"
    BY <1>1, NameAssumption
  <2>6. Directory!Redeem(k, r.chat)
    BY <2>2, <2>3, <2>4, <2>5 DEF Directory!Redeem
  <2> QED
    BY <2>1, <2>4, <2>6 DEF Directory!Next
<1> QED
  BY <1>1, <1>4, <1>5, <1>6, <1>7, <1>8 DEF Ops, Binding, Plain

\* A new link is one of UserDirectory; that one expires is nothing there.
LEMMA LinkIsAtomicChange ==
  ASSUME SafeInv, NEW k \in Tokens, NEW u \in Users, CreateLink(k, u)
  PROVE  Directory!Next
<1>1. /\ tokens[k] = NoToken /\ Exists(u) /\ users' = users
      /\ tokens' = [tokens EXCEPT ![k].user = u] /\ tokens \in [Tokens -> TokenRows]
  BY DEF CreateLink, SafeInv, TypeInv, TypeOK
<1>2. Links[k] = Directory!NoLink
  <2>1. Links[k] = [user |-> tokens[k].user, used |-> tokens[k].used]
    BY DEF Links
  <2>2. tokens[k].user = "none" /\ tokens[k].used = FALSE
    BY <1>1 DEF NoToken
  <2> QED
    BY <2>1, <2>2 DEF Directory!NoLink
<1>3. tokens'[k] = [NoToken EXCEPT !.user = u] /\ \A j \in Tokens : j # k => tokens'[j] = tokens[j]
  BY <1>1
<1>4. \A j \in Tokens : /\ tokens'[j].user = IF j = k THEN u ELSE tokens[j].user
                        /\ tokens'[j].used = tokens[j].used
  BY <1>1, <1>3 DEF NoToken
<1>5. Links' = [j \in Tokens |-> [user |-> IF j = k THEN u ELSE tokens[j].user,
                                  used |-> tokens[j].used]]
  BY <1>4 DEF Links
<1>6. Links' = [Links EXCEPT ![k].user = u]
  BY <1>5 DEF Links
<1>7. Directory!CreateLink(k, u)
  BY <1>1, <1>2, <1>6 DEF Directory!CreateLink, Directory!Exists, Exists
<1> QED
  BY <1>7 DEF Directory!Next

LEMMA ExpiryUnseen ==
  ASSUME SafeInv, NEW k \in Tokens, Expire(k)
  PROVE  UNCHANGED <<users, Links>>
<1>1. /\ users' = users /\ tokens \in [Tokens -> TokenRows]
      /\ tokens' = [tokens EXCEPT ![k].expired = TRUE]
      /\ tokens[k] \in [user : Users \union {"none"}, expired : BOOLEAN, used : BOOLEAN]
  BY RowFields DEF Expire, SafeInv, TypeInv, TypeOK
<1>2. tokens'[k] = [tokens[k] EXCEPT !.expired = TRUE]
      /\ \A j \in Tokens : j # k => tokens'[j] = tokens[j]
  BY <1>1
<1>3. \A j \in Tokens : tokens'[j].user = tokens[j].user /\ tokens'[j].used = tokens[j].used
  BY <1>1, <1>2
<1> QED
  BY <1>1, <1>3 DEF Links

\* Racing bindings, redemptions and administrators act as if in turn: every
\* transaction takes effect at its commit, on the users as they are then.
THEOREM Implementation == Spec => ImplementsDirectory
<1>1. Init => Directory!Init
  BY DEF Init, Directory!Init, Links, NoToken, NoUser, Null, Directory!NoLink,
         Directory!Absent
<1>2. SafeInv /\ TellInv /\ [Next]_vars => [Directory!Next]_(Directory!vars)
  <2> SUFFICES ASSUME SafeInv, TellInv, [Next]_vars
               PROVE  Directory!Next \/ UNCHANGED <<users, Links>>
    BY DEF Directory!vars
  <2>1. ASSUME NEW c \in Calls, Begin(c) \/ LockToken(c) \/ LockRow(c) \/ CheckUnique(c) \/ Fail(c)
        PROVE  UNCHANGED <<users, Links>>
    BY <2>1 DEF Begin, LockToken, LockRow, CheckUnique, Fail, tables, Links
  <2>2. CASE Quiesce \/ UNCHANGED vars
    BY <2>2 DEF Quiesce, vars, tables, Links
  <2>3. CreatesFresh
    BY DEF TellInv
  <2> QED
    BY <2>1, <2>2, <2>3, CommitIsAtomicChange, LinkIsAtomicChange, ExpiryUnseen DEF Next
<1> QED
  BY <1>1, <1>2, SafeInit, SafeNext, TellInit, TellNext, PTL
     DEF Spec, ImplementsDirectory, Directory!Spec
=============================================================================
