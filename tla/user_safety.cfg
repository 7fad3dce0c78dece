\* Two handlers, two users, two chats and a token.
CONSTANTS
  c1 = c1  c2 = c2  c3 = c3  u1 = u1  u2 = u2  t1 = t1  t2 = t2  k1 = k1
  Calls = {c1, c2}
  Users = {u1, u2}
  Chats = {t1, t2}
  Tokens = {k1}
  MaxTx = 5
SPECIFICATION Spec
INVARIANTS OneUserPerChat TokenBindsOnce EventsTellUsers
PROPERTIES ImplementsDirectory
SYMMETRY Interchangeable
