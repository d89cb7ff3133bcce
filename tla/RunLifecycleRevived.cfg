SPECIFICATION Spec
CONSTANTS
  r1 = r1
  r2 = r2
  Run = {r1}
  Minted = {r1}
  Removable = {}
  MaxFaults = 0
  MaxStops = 0
INVARIANTS
  CancelledRunsStayCancelled
