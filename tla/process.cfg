\* Three callers and two connections, so that two lists can use them up.
CONSTANTS
  c1 = c1  c2 = c2  c3 = c3
  Callers = {c1, c2, c3}
  MaxConns = 2
  MaxQueries = 3
  MaxCalls = 3
  MaxFaults = 1
SPECIFICATION FairSpec
INVARIANTS TypeOK GracefulIsWhole
PROPERTIES CallsEnd ShutdownEnds
\* The process ends.
CHECK_DEADLOCK FALSE
