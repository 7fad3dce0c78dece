\* Three handlers on one order, any expected version.
CONSTANTS
  c1 = c1  c2 = c2  c3 = c3  o1 = o1  o2 = o2  p1 = p1  p2 = p2
  Calls = {c1, c2, c3}
  OrderIds = {o1}
  Performers = {p1, p2}
  Audited = {"a1"}
  Others = {"x"}
  BadBody = BadBody
  NoBody = NoBody
  Versions = {0, 1, 2, 3}
  HonestClients = FALSE
  MaxTx = 4
  Stored <- StoredText
SPECIFICATION Spec
INVARIANTS VersionCountsChanges StatusAudited TeamReplay
PROPERTIES ExpectedVersionHonoured TerminalIsFinal ImplementsLifecycle
SYMMETRY Interchangeable
