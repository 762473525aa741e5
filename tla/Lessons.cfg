SPECIFICATION Spec
CONSTANTS
  w1 = w1
  w2 = w2
  w3 = w3
  s1 = s1
  c1 = c1
  j1 = j1
  j2 = j2
  j3 = j3
  Words = {w1, w2, w3}
  Versions <- MCVersions
  Removable = {w1}
  Suitability <- MCSuitability
  Topic = {w1, w3}
  Deck <- MCDeck
  Requests <- MCRequests
  Limit = 2
  Orders <- MCOrders
  Sessions = {s1}
  Submissions = {c1}
  MaxFinals = 2
  Cards0 <- MCCards0
  Speeds = {TRUE}
  Ttl = 30
  RequeueWindow = 15
  EarlyTolerance = 0
  Moments = {1500}
  LearningSteps <- MCLearningSteps
  Distractors = 2
  MaxTypesPerBand = 1
  ClozeCap = 1
  Jobs = {j1, j2, j3}
  JobRows <- MCJobRows
  DefaultLanguage = "vi"
  Dictionary <- MCDictionary
  Tokens <- MCTokens
  Pronounced <- MCPronounced
  Wiktionary <- MCWiktionary
  Corpus <- MCCorpus
  CefrRows <- MCCefrRows
  Lexicon0 <- MCLexicon
  SensesPerPos = 2
  ExamplesPerSense = 2
  MaxBatch = 2
  NumKeys = 2
  JobTries = 2
  MaxMishaps = 1
INVARIANTS
  StudyTypeOK
  SessionSound
  AnswersGraded
  ReviewedOncePerLesson
  SourcesSafe
CHECK_DEADLOCK FALSE
