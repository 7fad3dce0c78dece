--------------------------- MODULE UserDirectory ----------------------------
(***************************************************************************)
(* What user-service promises: every change of a user happens at one       *)
(* instant, on the users as they are at that instant.  A chat is bound     *)
(* only while nobody else has it, and a link token binds the chat of its   *)
(* user once.  UserService implements this with transactions that lock,    *)
(* wait and fail in between.                                               *)
(***************************************************************************)
CONSTANTS Users, Chats, Tokens

VARIABLES users,     \* who exists, under which chat, and whether active
          links      \* the user each token is for, and whether it is used

vars == <<users, links>>

Absent == [telegram |-> "null", active |-> "none"]
NoLink == [user |-> "none", used |-> FALSE]
Exists(u) == users[u].active # "none"
Free(chat, u) == \A v \in Users \ {u} : users[v].telegram # chat

Init == /\ users = [u \in Users |-> Absent]
        /\ links = [k \in Tokens |-> NoLink]

Create(u) ==
  /\ ~Exists(u)
  /\ users' = [users EXCEPT ![u].active = "on"]
  /\ UNCHANGED links

SetActive(u) ==
  /\ Exists(u)
  /\ \E a \in {"on", "off"} : users' = [users EXCEPT ![u].active = a]
  /\ UNCHANGED links

\* The code binds users that are disabled, too.
Bind(u, chat) ==
  /\ Exists(u) /\ Free(chat, u)
  /\ users' = [users EXCEPT ![u].telegram = chat]
  /\ UNCHANGED links

CreateLink(k, u) ==
  /\ links[k] = NoLink /\ Exists(u)
  /\ links' = [links EXCEPT ![k].user = u]
  /\ UNCHANGED users

Redeem(k, chat) ==
  LET u == links[k].user IN
  /\ u # "none" /\ ~links[k].used
  /\ Exists(u) /\ Free(chat, u)
  /\ users' = [users EXCEPT ![u].telegram = chat]
  /\ links' = [links EXCEPT ![k].used = TRUE]

Next == \/ \E u \in Users : \/ Create(u) \/ SetActive(u)
                            \/ \E chat \in Chats : Bind(u, chat)
        \/ \E k \in Tokens : \/ \E u \in Users : CreateLink(k, u)
                             \/ \E chat \in Chats : Redeem(k, chat)

Spec == Init /\ [][Next]_vars
=============================================================================
