SPECIFICATION FairSpec
CONSTANTS
  u1 = u1
  u2 = u2
  u3 = u3
  s1 = s1
  s2 = s2
  Unseeded = {u1, u2, u3}
  Seeded = {s1, s2}
  HandsOn = TRUE
  MaxCancels = 2
INVARIANTS
  TypeOK
  CountersAgree
  SleepersHaveAReason
PROPERTIES
  PromiseSpec
  SeededRunEnters
