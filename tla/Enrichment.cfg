SPECIFICATION Spec
CONSTANTS
  q1 = q1
  q2 = q2
  k1 = k1
  k2 = k2
  Requests = {q1, q2}
  Runs = {k1, k2}
  Drafts <- MCDrafts
  MaxTries = 2
  MaxStalls = 1
  MaxUpsets = 2
SYMMETRY Symmetry
CHECK_DEADLOCK FALSE
INVARIANTS
  TypeOK
  DeliveredUnlessInterrupted
  StuckOnlyIfLost
  OnePendingJobUnlessOverlapping
PROPERTIES
  ImplementsLifecycle
