SPECIFICATION FairSpec
CONSTANTS
  a1 = a1
  a2 = a2
  k1 = k1
  k2 = k2
  Attempts = {a1, a2}
  Runs = {k1, k2}
  MaxTries = 2
  MaxStalls = 1
  Cap = 1
  MaxFaults = 2
CHECK_DEADLOCK FALSE
INVARIANTS
  TypeOK
  FailedOnlyAfterRetries
  OrphanOnlyIfLost
  OverCapOnlyIfOverlapping
PROPERTIES
  ImplementsLifecycle
  SettlesUnlessLost
