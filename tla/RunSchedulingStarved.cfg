SPECIFICATION FairSpec
CONSTANTS
  Local = Local
  NoPlace = NoPlace
  pair = pair
  pair2 = pair2
  pair3 = pair3
  a = a
  a2 = a2
  b = b
  any = any
  w = w
  q0 = q0
  q1 = q1
  qw = qw
  qany = qany
  l0 = l0
  l1 = l1
  w0 = w0
  w1 = w1
  Run = {pair2, pair3, a}
  Queue = {q0, q1}
  Slot = {l0, l1}
  Worker = {}
  Pinned = {pair2, pair3, a}
  QueueOf <- SetQueueOf
  Places <- SetRunPlaces
  Offerer <- SetOfferer
  Card <- SetCard
  Cap <- SetCap
  MaxFaults = 0
  MaxHolds = 0
  CanShutDown = FALSE
PROPERTIES
  EveryRunStarts
