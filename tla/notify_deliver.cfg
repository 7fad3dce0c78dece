\* Two orders and two performers, a record that cannot be decoded (4) and a chat
\* that refuses messages (t2). The service may have nothing to do.
CONSTANTS
  u1 = u1  u2 = u2  t1 = t1  t2 = t2
  Users = {u1, u2}
  Chats = {t1, t2}
  UserEvents <- Garbled
  OrderEvents <- TwoOrders
  Bad = {4}
  Blocked = {t2}
  BatchSize = 2
  MaxLog <- Both
  MaxFaults = 1
CHECK_DEADLOCK FALSE
SPECIFICATION FairSpec
INVARIANTS PassedIsHandled DeliveryMatchesMark
PROPERTIES RecordsConsumed PendingIsSent
