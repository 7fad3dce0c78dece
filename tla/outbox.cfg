\* Two workers on three rows, batches of two.
CONSTANTS
  e1 = e1  e2 = e2  e3 = e3  w1 = w1  w2 = w2
  Rows = {e1, e2, e3}
  Workers = {w1, w2}
  BatchSize = 2
  MaxFaults = 1
SPECIFICATION FairSpec
INVARIANTS PublishedIsInTopic BatchesDisjoint CopiesHaveACause CausalOrder
PROPERTIES EventuallyPublished
