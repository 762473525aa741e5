SPECIFICATION Spec
CONSTANTS
  c1 = c1
  c2 = c2
  r1 = r1
  r2 = r2
  r3 = r3
  TurnCalls = {c1}
  ReportCalls = {r1, r2}
  MaxTurns = 1
  MaxFaults = 0
CHECK_DEADLOCK FALSE
PROPERTIES
  StoredReportKept
