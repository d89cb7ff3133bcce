SPECIFICATION FairSpec
CONSTANTS
  c1 = c1
  p1 = p1
  Client = {c1}
  Poller = {p1}
  QueueSize = 1
  PageSize = 2
  MaxEvents = 3
  MaxAttach = 2
  MaxFaults = 1
INVARIANTS
  TypeOK
  SleepersAreWoken
  EndedFeedsWereTold
PROPERTIES
  StreamSpec
  FollowersAreTold
CHECK_DEADLOCK FALSE
