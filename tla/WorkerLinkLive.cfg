SPECIFICATION FairSpec
CONSTANTS
  r1 = r1
  Run = {r1}
  MaxSeq = 1
  MaxConns = 2
  MaxCrashes = 1
  MaxFaults = 1
  ReplayBatch = 1
  OrphanAckEvery = 1
INVARIANTS
  ServedRunsAreTracked
PROPERTIES
  EndsArrive
  StopsArrive
CHECK_DEADLOCK FALSE
