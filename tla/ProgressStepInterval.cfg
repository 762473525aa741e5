SPECIFICATION ProgressSpec
CONSTANTS
  Vocabulary = {w1}
  Reviews = {r1, r2}
  Enrollments = {e1}
  Grades = {1, 3, 5}
  Tolerance = 1
  Instants = {1400, 1439, 54719}
  LearningSteps <- MCSteps
  InitialCards <- MCInitialCards
CHECK_DEADLOCK FALSE
INVARIANTS
  StepStateHasNoInterval
