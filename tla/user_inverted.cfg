\* README.md:117: events in the order of the worker hold nobody active who is not.
CONSTANTS
  c1 = c1  c2 = c2  c3 = c3  u1 = u1  u2 = u2  t1 = t1  t2 = t2  k1 = k1
  Calls = {c1, c2}
  Users = {u1}
  Chats = {t1}
  Tokens = {k1}
  MaxTx = 3
SPECIFICATION Spec
INVARIANTS OutboxOrderTellsActive
