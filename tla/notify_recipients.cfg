\* One user's events, repeated and re-read. The service may have nothing to do.
CONSTANTS
  u1 = u1  u2 = u2  t1 = t1  t2 = t2
  Users = {u1}
  Chats = {t1}
  UserEvents <- Life
  OrderEvents <- NoEvents
  Bad = {}
  Blocked = {}
  BatchSize = 1
  MaxLog <- UsersOnly
  MaxFaults = 2
CHECK_DEADLOCK FALSE
SPECIFICATION Spec
INVARIANTS RecipientsFollowTopic
