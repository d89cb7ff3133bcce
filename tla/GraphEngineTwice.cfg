SPECIFICATION Spec
CONSTANTS
  a = a
  b = b
  d = d
  blk = blk
  nest = nest
  model = model
  Node = {a, b, d}
  Upstream <- UpstreamOf
  Level <- LevelOf
  Turn <- TurnOf
  Handed <- HandedTo
  Containers <- ContainersOf
  Uncacheable = {b}
  Request <- GoingOn
  Forced = {}
  MaxWorkers = 2
  Capacity = 1
  MaxRetries = 0
  MaxSignals = 1
  MaxFaults = 2
CHECK_DEADLOCK FALSE
INVARIANTS
  ContainersEndOnce
