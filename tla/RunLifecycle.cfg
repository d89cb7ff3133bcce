SPECIFICATION FairSpec
CONSTANTS
  r1 = r1
  r2 = r2
  Run = {r1, r2}
  Minted = {}
  Removable = {r2}
  MaxFaults = 1
  MaxStops = 1
INVARIANTS
  TypeOK
  StartedRunsAreClosed
  UnfinishedRunsAreHeld
  SecretsAreThere
  SecretsAreDropped
  CancelledRunsStayCancelled
PROPERTIES
  TableSpec
  EveryRunEnds
