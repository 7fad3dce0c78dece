\* Two handlers on one order, clients that send versions they have seen.
CONSTANTS
  c1 = c1  c2 = c2  c3 = c3  o1 = o1  o2 = o2  p1 = p1  p2 = p2
  Calls = {c1, c2}
  OrderIds = {o1}
  Performers = {p1}
  Audited = {"a1", "a2", "a9"}
  Others = {"x"}
  BadBody = BadBody
  NoBody = NoBody
  Versions = {1, 2, 3}
  HonestClients = TRUE
  MaxTx = 3
  Stored <- StoredText
SPECIFICATION FairSpec
INVARIANTS AuditTrail HistoryOrdered
PROPERTIES CallsReturn
