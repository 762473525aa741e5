SPECIFICATION RowsSpec
CONSTANTS
  a = a
  b = b
  c = c
  x1 = x1
  x2 = x2
  Calls = {a, b, c}
  Languages = {"en", "vi"}
  MaxAttempts = 1
  MaxAccountFaults = 1
  SignIns = {"first", "second"}
  Refreshes = {a, b, c}
  MaxTokenFaults = 1
  DeckCalls = {a, b, c}
  Words = {"cat", "dog"}
  Edits = {a, b, c}
  Starts = {"morning", "evening"}
  Specs = {"cafe", "airport"}
  DailySessions = 1
  SenseCalls = {a, b, c}
  MaxSenses = 3
  MediaCalls = {x1, x2}
  MediaTries = 2
  MaxMediaFaults = 2
  TextCalls = {a, b, c}
  Texts = {"meo", "con meo"}
  Slugs = {"animals"}
  Learners = {"ann", "bob"}
  Alphabetical <- MCAlphabetical
  StudyWords = {"sun", "sky", "mine"}
  Drafts = {"sky"}
  Attending = {"ann"}
  Erasable = {"sun"}
  Owner <- MCOwner
  Distance <- MCDistance
  Outcomes <- MCOutcomes
  InitialRows <- MCInitialRows
  Offsets = {0, 420}
  Count = 2
  BoardSize = 1
  MaxEvents = 4
  ReportMoments = {2460, 2900}
  Uploads = {x1, x2}
  Pastes <- MCPastes
  LowerCase <- MCLowerCase
  Stopwords = {"the"}
  ExtractCap = 3
  BulkMax = 2
  BulkSlugs = {"sports"}
  Contested = {"run"}
  Vocabulary = {"fox"}
  Reviews = {a, b, c}
  Enrollments = {x1, x2}
  Grades = {1, 3, 5}
  Tolerance = 1
  Instants = {1400, 1439, 54719}
  LearningSteps <- MCSteps
  InitialCards <- MCInitialCards
SYMMETRY Symmetry
INVARIANTS
  RecordsTypeOK
  AccountsSafe
  TokensSafe
  DecksConsistent
  ScenariosSafe
  ListsSound
  CatalogKept
  ReportsAgree
  ProgressTypeOK
  ScheduleWellFormed
  RowMatchesLog
  CountersNeverExceedLog
  MilestonesLogged
  NewIffUnreviewed
PROPERTIES
  ProgressNeverReset
  SpacingHonoured
CHECK_DEADLOCK FALSE
