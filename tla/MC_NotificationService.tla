----------------------- MODULE MC_NotificationService -----------------------
(* Instances of NotificationService for TLC. *)
EXTENDS NotificationService, TLC

CONSTANTS u1, u2, t1, t2

\* user.created, user.telegram_bound, user.disabled, user.updated (is_active)
Created(id, u)  == [id |-> id, user |-> u, telegram |-> Null, active |-> "on"]
Bound(id, u, t) == [id |-> id, user |-> u, telegram |-> t, active |-> Keep]
Disabled(id, u) == [id |-> id, user |-> u, telegram |-> Keep, active |-> "off"]
Enabled(id, u)  == [id |-> id, user |-> u, telegram |-> Keep, active |-> "on"]

Life == {Created(1, u1), Bound(2, u1, t1), Disabled(3, u1), Enabled(4, u1)}
Pair == {Bound(1, u1, t1), Bound(2, u2, t2)}
Garbled == Pair \union {Disabled(3, u1), Enabled(4, u1)}
NoEvents == {}
TwoOrders == {[id |-> 11, performers |-> {u1, u2}], [id |-> 12, performers |-> {u1}]}

UsersOnly == [users |-> 5, orders |-> 0]
Both == [users |-> 2, orders |-> 2]
=============================================================================
