\* Pages of two on three orders; two instants on one day and one on the next.
CONSTANTS
  Ids <- ThreeIds
  Dates <- ThreeInstants
  DayLength = 2
  MinePage = 2
  AllPage = 2
  MaxEdits = 1
SPECIFICATION Spec
PROPERTIES FewAllShown
