SPECIFICATION SensesSpec
CONSTANTS
  a = a
  b = b
  SenseCalls = {a, b}
  MaxSenses = 3
SYMMETRY Symmetry
INVARIANTS
  ReorderSucceeds
CHECK_DEADLOCK FALSE
