SPECIFICATION Spec
CONSTANTS
  r1 = r1
  Run = {r1}
  MaxSeq = 2
  MaxConns = 2
  MaxCrashes = 0
  MaxFaults = 0
  ReplayBatch = 1
  OrphanAckEvery = 1
INVARIANTS
  ReplaySendsTheRest
CHECK_DEADLOCK FALSE
