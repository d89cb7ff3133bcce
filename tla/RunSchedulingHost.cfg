SPECIFICATION Spec
CONSTANTS
  Local = Local
  NoPlace = NoPlace
  pair = pair
  pair2 = pair2
  pair3 = pair3
  a = a
  a2 = a2
  b = b
  any = any
  w = w
  q0 = q0
  q1 = q1
  qw = qw
  qany = qany
  l0 = l0
  l1 = l1
  w0 = w0
  w1 = w1
  Run = {pair, pair2, a, b, any}
  Queue = {q0, q1, qw, qany}
  Slot = {l0, l1, w0, w1}
  Worker = {w}
  Pinned = {pair, pair2, a, b}
  QueueOf <- HostQueueOf
  Places <- HostRunPlaces
  Offerer <- HostOfferer
  Card <- HostCard
  Cap <- HostCap
  MaxFaults = 1
  MaxHolds = 1
  CanShutDown = TRUE
INVARIANTS
  TypeOK
  QueueOrRegistry
  SlotsAreHeld
  NoStartableFrontWaits
  CardWithinCap
  ReservedRunsAreFronts
PROPERTIES
  NothingOvertakes
  OldestFrontFirst
CHECK_DEADLOCK FALSE
