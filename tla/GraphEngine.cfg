SPECIFICATION FairSpec
CONSTANTS
  a = a
  b = b
  d = d
  blk = blk
  nest = nest
  model = model
  Node = {a, b, d}
  Upstream <- UpstreamOf
  Level <- LevelOf
  Turn <- TurnOf
  Handed <- HandedTo
  Containers <- ContainersOf
  Uncacheable = {b}
  Request <- MCRequests
  Forced = {}
  MaxWorkers = 2
  Capacity = 1
  MaxRetries = 1
  MaxSignals = 2
  MaxFaults = 1
CHECK_DEADLOCK FALSE
INVARIANTS
  TypeOK
  DeliveredInOrder
  SignalsAreAccountedFor
  OnlyCompleteOutputsCount
  NodesExecuteApart
PROPERTIES
  CardsSpec
  NothingIsHeldUp
