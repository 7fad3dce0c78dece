\* README.md:83: the event of a change names every performer of the order.
CONSTANTS
  c1 = c1  c2 = c2  c3 = c3  o1 = o1  o2 = o2  p1 = p1  p2 = p2
  Calls = {c1, c2}
  OrderIds = {o1}
  Performers = {p1}
  Audited = {"a1"}
  Others = {"x"}
  BadBody = BadBody
  NoBody = NoBody
  Versions = {1}
  HonestClients = TRUE
  MaxTx = 3
  Stored <- StoredText
SPECIFICATION Spec
PROPERTIES EveryPerformerTold
