SPECIFICATION Spec
CONSTANTS
  q1 = q1
  q2 = q2
  k1 = k1
  k2 = k2
  Requests = {q1}
  Runs = {k1}
  Drafts <- MCDrafts
  MaxTries = 2
  MaxStalls = 1
  MaxUpsets = 1
CHECK_DEADLOCK FALSE
INVARIANTS
  CompletedImportDelivered
