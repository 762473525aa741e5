SPECIFICATION FairSpec
CONSTANTS
  c1 = c1
  c2 = c2
  r1 = r1
  r2 = r2
  r3 = r3
  TurnCalls = {c1, c2}
  ReportCalls = {r1, r2, r3}
  MaxTurns = 1
  MaxFaults = 1
CHECK_DEADLOCK FALSE
INVARIANTS
  TypeOK
  RolesAlternate
  TranscriptInOrder
  ReportCoversTranscript
  ReportMatchesStatus
PROPERTIES
  EndedForever
  ReportKeptUnlessOverlapping
  ReportSettles
