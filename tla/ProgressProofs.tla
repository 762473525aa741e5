--------------------------- MODULE ProgressProofs ---------------------------
(***************************************************************************)
(* Proofs about Progress, for any set of words, any number of concurrent   *)
(* requests, any learning steps, tolerance and clock readings.             *)
(*                                                                         *)
(* The argument.  A request carries copies of the row: the one it read and *)
(* the one save selected.  Because every committed review raises the sum   *)
(* of the row's counters, a copy with the row's sum is the row itself as   *)
(* long as no commit was made over an unread row (raced).  So a commit     *)
(* that is not a race writes exactly the SM-2 successor of the row, and    *)
(* everything SM-2 preserves is preserved.                                 *)
(***************************************************************************)
EXTENDS Progress, TLAPS

-----------------------------------------------------------------------------
(* Lemmas about the operators *)

\* A day-scale success never shortens the interval, and from two days on
\* lengthens it, whatever the ease factor.
LEMMA GrownIntervalGrows ==
  ASSUME NEW i \in Nat, NEW e \in Nat
  PROVE  /\ GrownInterval(i, e) \in Nat
         /\ i >= 2 /\ e >= MinEase => GrownInterval(i, e) >= i + 1
<1> DEFINE p == i * e
<1>1. p \in Nat  OBVIOUS
<1>2. (p + 50) \div 100 \in Nat  BY <1>1
<1>3. ASSUME i >= 2, e >= 130 PROVE p >= 130 * i
  BY <1>3
<1>4. ASSUME p >= 130 * i, i >= 2 PROVE (p + 50) \div 100 >= i + 1
  BY <1>1, <1>4
<1> QED BY <1>2, <1>3, <1>4 DEF GrownInterval, MinEase

LEMMA MergeType ==
  ASSUME NEW a \in Cards, NEW b \in Cards, NEW c \in Cards
  PROVE  MergeColumns(a, b, c) \in Cards
BY DEF MergeColumns, Cards

\* Writing back over the very row that save selected yields the entity.
LEMMA MergeSame ==
  ASSUME NEW a \in Cards, NEW c \in Cards
  PROVE  MergeColumns(a, a, c) = c
BY DEF MergeColumns, Cards

LEMMA EaseBounded ==
  ASSUME NEW e \in Nat, NEW q \in Qualities
  PROVE  UpdateEase(e, q) \in Nat /\ UpdateEase(e, q) >= MinEase
BY DEF UpdateEase, EaseDelta, MinEase, Qualities

LEMMA NoCardIsNoRow == NoCard \notin Cards
BY DEF NoCard, Cards, Statuses

LEMMA Sm2Type ==
  ASSUME NEW c \in Cards, NEW q \in Qualities, NEW at \in Nat
  PROVE  /\ ApplySm2(c, q, at) \in Schedules
         /\ ApplySm2(c, q, at).status # "new"
<1> DEFINE ease == UpdateEase(c.ease, q)
<1>0. c.ease \in Nat /\ c.reps \in Nat /\ c.interval \in Nat
      /\ c.step \in StepIndexes \cup {Graduated}
  BY DEF Cards
<1>1. ease \in Nat  BY <1>0, EaseBounded
<1>2. \A i \in StepIndexes : StepMinutes(i) \in Nat
  BY LearningStepsAssumption DEF StepIndexes, StepMinutes
<1>3. 0 \in StepIndexes /\ (c.step # Graduated /\ c.step + 1 < Len(LearningSteps) => c.step + 1 \in StepIndexes)
  BY <1>0, LearningStepsAssumption DEF StepIndexes, Graduated
<1>4. ASSUME NEW reps \in Nat, NEW i \in StepIndexes
      PROVE  AtStep(reps, ease, i, at) \in Schedules /\ AtStep(reps, ease, i, at).status # "new"
  BY <1>1, <1>2 DEF AtStep, Schedules, Statuses
<1>5. ASSUME NEW reps \in Nat, NEW i \in Nat
      PROVE  OnDayLadder(reps, ease, i, at) \in Schedules
             /\ OnDayLadder(reps, ease, i, at).status # "new"
  BY <1>1 DEF OnDayLadder, Schedules, Statuses, InferStatus, MinutesPerDay
<1>6. NextInterval(c.reps, c.interval, ease) \in Nat
  BY <1>0, <1>1, GrownIntervalGrows DEF NextInterval
<1> QED
  BY <1>0, <1>3, <1>4, <1>5, <1>6 DEF ApplySm2, ApplyStepState

\* Grading: a row again, reviewed at the given time, one counter raised.
LEMMA GradedType ==
  ASSUME NEW c \in Cards, NEW q \in Qualities, NEW at \in Nat
  PROVE  /\ Graded(c, q, at) \in Cards
         /\ Graded(c, q, at).status # "new"
         /\ Graded(c, q, at).last = at
<1>1. /\ ApplySm2(c, q, at) \in Schedules
      /\ ApplySm2(c, q, at).status # "new"
  BY Sm2Type
<1> QED BY <1>1 DEF Graded, Cards, Schedules

Total(c) == c.correct + c.incorrect

LEMMA GradedCounts ==
  ASSUME NEW c \in Cards, NEW q \in Qualities, NEW at \in Nat
  PROVE  LET g == Graded(c, q, at)
         IN  /\ Total(g) = Total(c) + 1
             /\ g.correct - c.correct \in {0, 1}
             /\ g.incorrect - c.incorrect \in {0, 1}
BY DEF Graded, Total, Cards

\* SM-2 preserves the shape of a row.
LEMMA GradedWellFormed ==
  ASSUME NEW c \in Cards, NEW q \in Qualities, NEW at \in Nat, WellFormed(c)
  PROVE  WellFormed(Graded(c, q, at))
<1> DEFINE ease == UpdateEase(c.ease, q)
           g == Graded(c, q, at)
           s == ApplySm2(c, q, at)
<1>1. ease \in Nat /\ ease >= MinEase /\ g.ease = s.ease
  BY EaseBounded DEF Cards, Graded
<1>2. g \in Cards /\ g.status # "new" /\ g.last = at /\ g.last # Never
  BY GradedType DEF Never
<1>3. g.correct + g.incorrect # 0
  BY <1>2, GradedCounts DEF Total, Cards
<1>4. CASE ~Passed(q)
  <2>1. s = AtStep(c.reps, ease, 0, at) \/ s = AtStep(0, ease, 0, at)
    BY <1>4 DEF ApplySm2, ApplyStepState
  <2>2. InSteps(g) /\ g.ease = ease
    BY <2>1 DEF Graded, InSteps, AtStep, Graduated
  <2> QED BY <1>1, <1>2, <1>3, <2>2 DEF WellFormed
<1>5. CASE Passed(q) /\ c.step # Graduated /\ c.step + 1 < Len(LearningSteps)
  <2>1. s = AtStep(c.reps, ease, c.step + 1, at) /\ c.step + 1 # Graduated
    BY <1>5 DEF ApplySm2, ApplyStepState, Cards, StepIndexes, Graduated
  <2>2. InSteps(g) /\ g.ease = ease
    BY <2>1 DEF Graded, InSteps, AtStep
  <2> QED BY <1>1, <1>2, <1>3, <2>2 DEF WellFormed
<1>6. CASE Passed(q) /\ c.step # Graduated /\ ~(c.step + 1 < Len(LearningSteps))
  <2>1. s = OnDayLadder(1, ease, 1, at)
    BY <1>6 DEF ApplySm2, ApplyStepState
  <2>2. OnLadder(g) /\ g.ease = ease
    BY <2>1, <1>2 DEF Graded, OnLadder, OnDayLadder
  <2> QED BY <1>1, <1>2, <1>3, <2>2 DEF WellFormed
<1>7. CASE Passed(q) /\ c.step = Graduated
  <2> DEFINE n == NextInterval(c.reps, c.interval, ease)
  <2>1. s = OnDayLadder(c.reps + 1, ease, n, at)
    BY <1>7 DEF ApplySm2
  <2>2. c.reps \in Nat /\ c.interval \in Nat /\ c.reps >= 1
        /\ (c.reps >= 2 => c.interval >= 6)
    BY <1>7 DEF WellFormed, InSteps, OnLadder, Cards
  <2>3. n \in Nat /\ n >= 6
    BY <2>2, <1>1, GrownIntervalGrows DEF NextInterval
  <2>4. OnLadder(g) /\ g.ease = ease
    BY <2>1, <2>2, <2>3, <1>2 DEF Graded, OnLadder, OnDayLadder
  <2> QED BY <1>1, <1>2, <1>3, <2>4 DEF WellFormed
<1> QED BY <1>4, <1>5, <1>6, <1>7

\* A success on a well-formed graduated card lengthens its interval.
LEMMA GradedSpacing ==
  ASSUME NEW c \in Cards, NEW q \in Qualities, NEW at \in Nat, WellFormed(c),
         c.step = Graduated, Graded(c, q, at).step = Graduated
  PROVE  Graded(c, q, at).interval > c.interval
<1> DEFINE ease == UpdateEase(c.ease, q)
           n == NextInterval(c.reps, c.interval, ease)
<1>1. ease \in Nat /\ ease >= MinEase
  BY EaseBounded DEF Cards
<1>2. Passed(q)
  BY DEF Graded, ApplySm2, AtStep, Graduated
<1>3. Graded(c, q, at).interval = n
  BY <1>2 DEF Graded, ApplySm2, OnDayLadder
<1>4. /\ c.reps \in Nat /\ c.interval \in Nat /\ c.reps >= 1
      /\ c.reps = 1 => c.interval = 1
      /\ c.reps >= 2 => c.interval >= 6
  BY DEF WellFormed, InSteps, OnLadder, Cards
<1>5. n > c.interval
  BY <1>1, <1>4, GrownIntervalGrows DEF NextInterval
<1> QED BY <1>3, <1>5

-----------------------------------------------------------------------------
(* The inductive invariant *)

\* The events of the log cover what the row says about itself.
Covered(c, l) ==
  /\ c.correct <= l.correct
  /\ c.incorrect <= l.incorrect
  /\ c.last # Never => l.wasNew >= 1
  /\ c.status = "mastered" => l.mastered >= 1
  /\ c.status = "new" <=> c.last = Never

\* The row agrees with the log exactly and has the shape SM-2 gives it.
Exact(c, l) ==
  /\ WellFormed(c)
  /\ c.correct = l.correct
  /\ c.incorrect = l.incorrect
  /\ l.wasNew = IF c.last = Never THEN 0 ELSE 1

\* c is an earlier version of d, or d itself when the totals agree.
Earlier(c, d) ==
  /\ Total(c) <= Total(d)
  /\ Total(c) = Total(d) => c = d

\* A request holds copies of the row of a word.
Holds(r) == review[r].pc \in {"loaded", "graded", "selected"}

\* A word without a row but with a copy of one has been deleted.
RowOrDeleted ==
  /\ \A w \in Vocabulary : Enrolled(w) => w \in present
  /\ \A w \in present : ~Enrolled(w) => log[w] = EmptyLog
  /\ \A r \in Reviews : Holds(r) => Enrolled(review[r].word) \/ review[r].word \notin present

\* The entity is the SM-2 successor of the row read, which was not early.
EntityIsSuccessor ==
  \A r \in Reviews : review[r].pc \in {"graded", "selected"} =>
    \E at \in Nat :
      /\ ~IsEarly(review[r].read, at)
      /\ review[r].entity = Graded(review[r].read, review[r].quality, at)

RowsCovered ==
  \A w \in Vocabulary : Enrolled(w) => Covered(card[w], log[w])

\* The copies are covered too, and a reviewed row is never forgotten.
CopyCovered(c, w) ==
  /\ Covered(c, log[w])
  /\ Enrolled(w) /\ c.last # Never => card[w].last # Never

CopiesCovered ==
  \A r \in Reviews : Holds(r) =>
    /\ CopyCovered(review[r].read, review[r].word)
    /\ review[r].pc = "selected" /\ review[r].base # NoCard =>
         CopyCovered(review[r].base, review[r].word)

Unraced(w) == Enrolled(w) /\ ~raced[w]

RowsExact ==
  \A w \in Vocabulary : Unraced(w) => Exact(card[w], log[w])

CopiesEarlier ==
  \A r \in Reviews : Holds(r) /\ Unraced(review[r].word) =>
    /\ Earlier(review[r].read, card[review[r].word])
    /\ review[r].pc = "selected" =>
         /\ review[r].base # NoCard
         /\ Total(review[r].read) <= Total(review[r].base)
         /\ Earlier(review[r].base, card[review[r].word])

IInv ==
  /\ ProgressTypeOK
  /\ RowOrDeleted
  /\ EntityIsSuccessor
  /\ RowsCovered
  /\ CopiesCovered
  /\ RowsExact
  /\ CopiesEarlier

-----------------------------------------------------------------------------
(* Type correctness *)

LEMMA ReviewTypes ==
  ASSUME ProgressTypeOK, NEW r \in Reviews
  PROVE  /\ review[r].pc = "loaded" => review[r] \in LoadedReviews
         /\ review[r].pc = "graded" => review[r] \in GradedReviews
         /\ review[r].pc = "selected" => review[r] \in SelectedReviews
         /\ Holds(r) => /\ review[r].word \in Vocabulary
                        /\ review[r].read \in Cards
BY DEF ProgressTypeOK, IdleReview, DoneReview, LoadedReviews, GradedReviews,
       SelectedReviews, Holds

LEMMA CountedEventType ==
  ASSUME NEW l \in Logs, NEW q, NEW c, NEW d
  PROVE  CountedEvent(l, q, c, d) \in Logs
<1>1. /\ l.correct \in Nat /\ l.incorrect \in Nat /\ l.wasNew \in Nat
      /\ l.mastered \in Nat /\ l.practice \in Nat
  BY DEF Logs
<1> QED BY <1>1 DEF CountedEvent, Logs

LEMMA FreshCardFacts ==
  ASSUME now \in Nat
  PROVE  /\ FreshCard \in Cards
         /\ WellFormed(FreshCard)
         /\ Exact(FreshCard, EmptyLog)
         /\ Covered(FreshCard, EmptyLog)
BY LearningStepsAssumption
   DEF FreshCard, Cards, Statuses, StepIndexes, DefaultEase, WellFormed,
       InSteps, Graduated, MinEase, Never, Exact, Covered, EmptyLog

LEMMA TypeInit == ProgressInit => ProgressTypeOK
BY InitialCardsAssumption
   DEF ProgressInit, ProgressTypeOK, Logs, LogOf, EmptyLog, Cards, NoCard, IdleReview, IdleEnrollment

LEMMA TypeStep == ProgressTypeOK /\ [ProgressNext]_progressVars => ProgressTypeOK'
<1> SUFFICES ASSUME ProgressTypeOK, [ProgressNext]_progressVars PROVE ProgressTypeOK'
  OBVIOUS
<1>1. ASSUME NEW e \in Enrollments, EnrollRead(e) PROVE ProgressTypeOK'
  BY <1>1 DEF EnrollRead, ProgressTypeOK, Enrolling, DoneEnrollment
<1>2. ASSUME NEW e \in Enrollments, EnrollCommit(e) PROVE ProgressTypeOK'
  <2>1. FreshCard \in Cards
    BY FreshCardFacts DEF ProgressTypeOK
  <2>2. card' \in [Vocabulary -> Cards \cup {NoCard}]
    BY <1>2, <2>1 DEF EnrollCommit, ProgressTypeOK
  <2> QED BY <1>2, <2>2 DEF EnrollCommit, ProgressTypeOK, DoneEnrollment
<1>3. ASSUME NEW r \in Reviews, ReviewLoad(r) PROVE ProgressTypeOK'
  BY <1>3 DEF ReviewLoad, ProgressTypeOK, DoneReview, LoadedReviews
<1>4. ASSUME NEW r \in Reviews, ReviewGrade(r) PROVE ProgressTypeOK'
  <2>1. review[r] \in LoadedReviews
    BY <1>4, ReviewTypes DEF ReviewGrade
  <2>2. Graded(review[r].read, review[r].quality, now) \in Cards
    BY <2>1, GradedType, GradesAssumption DEF LoadedReviews, ProgressTypeOK
  <2> QED BY <1>4, <2>1, <2>2 DEF ReviewGrade, ProgressTypeOK, LoadedReviews, GradedReviews
<1>5. ASSUME NEW r \in Reviews, ReviewPractice(r) PROVE ProgressTypeOK'
  <2>1. review[r] \in LoadedReviews
    BY <1>5, ReviewTypes DEF ReviewPractice
  <2>2. log' \in [Vocabulary -> Logs]
    BY <1>5, <2>1 DEF ReviewPractice, ProgressTypeOK, Logs, LoadedReviews
  <2> QED BY <1>5, <2>2 DEF ReviewPractice, ProgressTypeOK, DoneReview
<1>6. ASSUME NEW r \in Reviews, ReviewSelect(r) PROVE ProgressTypeOK'
  <2>1. review[r] \in GradedReviews
    BY <1>6, ReviewTypes DEF ReviewSelect
  <2> QED BY <1>6, <2>1 DEF ReviewSelect, ProgressTypeOK, GradedReviews, SelectedReviews
<1>7. ASSUME NEW r \in Reviews, ReviewCommit(r) PROVE ProgressTypeOK'
  <2> DEFINE w == review[r].word
  <2>1. review[r] \in SelectedReviews
    BY <1>7, ReviewTypes DEF ReviewCommit
  <2>2. w \in Vocabulary /\ card[w] \in Cards \cup {NoCard}
    BY <2>1 DEF SelectedReviews, ProgressTypeOK
  <2>3. card' \in [Vocabulary -> Cards \cup {NoCard}]
    BY <1>7, <2>1, <2>2, MergeType DEF ReviewCommit, SelectedReviews, ProgressTypeOK
  <2>4. CountedEvent(log[w], review[r].quality, review[r].read, review[r].entity) \in Logs
    BY <2>2, CountedEventType DEF ProgressTypeOK
  <2>5. log' \in [Vocabulary -> Logs]
    BY <1>7, <2>4 DEF ReviewCommit, ProgressTypeOK
  <2>6. raced' \in [Vocabulary -> BOOLEAN]
    BY <1>7 DEF ReviewCommit, ProgressTypeOK
  <2> QED BY <1>7, <2>3, <2>5, <2>6 DEF ReviewCommit, ProgressTypeOK, DoneReview
<1>8. ASSUME NEW w \in Vocabulary, DeleteVocabulary(w) PROVE ProgressTypeOK'
  BY <1>8 DEF DeleteVocabulary, ProgressTypeOK
<1>9. ASSUME NEW t \in Instants, Tick(t) PROVE ProgressTypeOK'
  BY <1>9, ClockAssumption DEF Tick, ProgressTypeOK
<1>10. CASE UNCHANGED progressVars
  BY <1>10 DEF progressVars, ProgressTypeOK
<1> QED
  BY <1>1, <1>2, <1>3, <1>4, <1>5, <1>6, <1>7, <1>8, <1>9, <1>10 DEF ProgressNext

\* Progress always has well-typed rows, log entries and requests.
THEOREM TypeCorrect == ProgressSpec => []ProgressTypeOK
<1>1. ProgressInit => ProgressTypeOK  BY TypeInit
<1>2. ProgressTypeOK /\ [ProgressNext]_progressVars => ProgressTypeOK'  BY TypeStep
<1> QED BY <1>1, <1>2, PTL DEF ProgressSpec

-----------------------------------------------------------------------------
(* The invariant is inductive *)

LEMMA IInvInit == ProgressInit => IInv
<1> SUFFICES ASSUME ProgressInit PROVE IInv
  OBVIOUS
<1>1. ProgressTypeOK
  BY TypeInit
<1>2. \A r \in Reviews : ~Holds(r)
  BY DEF ProgressInit, Holds, IdleReview
<1>3. ASSUME NEW w \in Vocabulary, Enrolled(w)
      PROVE  Exact(card[w], log[w]) /\ Covered(card[w], log[w])
  <2>1. card[w] \in InitialCards /\ log[w] = LogOf(card[w])
    BY <1>3 DEF ProgressInit, Enrolled
  <2>2. card[w] \in Cards /\ WellFormed(card[w])
    BY <2>1, InitialCardsAssumption
  <2> QED BY <2>1, <2>2 DEF Exact, Covered, LogOf, WellFormed, Cards
<1>4. RowOrDeleted
  BY <1>2 DEF ProgressInit, RowOrDeleted, Enrolled
<1>5. EntityIsSuccessor
  BY <1>2 DEF EntityIsSuccessor, Holds
<1> QED
  BY <1>1, <1>2, <1>3, <1>4, <1>5
     DEF IInv, RowsCovered, CopiesCovered, RowsExact, CopiesEarlier, Unraced

\* Steps that touch neither rows nor requests.
LEMMA UnchangedStep ==
  ASSUME IInv, ProgressTypeOK', present' = present, UNCHANGED <<card, log, review, raced>>
  PROVE  IInv'
BY DEF IInv, RowOrDeleted, EntityIsSuccessor, RowsCovered, CopiesCovered,
       RowsExact, CopiesEarlier, CopyCovered, Unraced, Enrolled, Holds

LEMMA EnrollCommitStep ==
  ASSUME IInv, ProgressTypeOK', NEW e \in Enrollments, EnrollCommit(e)
  PROVE  IInv'
<1>0. /\ ProgressTypeOK /\ RowOrDeleted
      /\ UNCHANGED <<present, log, review, raced>>
  BY DEF IInv, EnrollCommit
<1>1. FreshCard \in Cards /\ Exact(FreshCard, EmptyLog) /\ Covered(FreshCard, EmptyLog)
  BY <1>0, FreshCardFacts DEF ProgressTypeOK
<1>2. ASSUME NEW w \in Vocabulary, card'[w] # card[w]
      PROVE  /\ w \in present /\ ~Enrolled(w) /\ card'[w] = FreshCard
             /\ log[w] = EmptyLog
             /\ \A r \in Reviews : Holds(r) => review[r].word # w
  BY <1>0, <1>2 DEF EnrollCommit, RowOrDeleted, Enrolled
<1>3. RowOrDeleted'
  BY <1>0, <1>1, <1>2, NoCardIsNoRow, ReviewTypes DEF ProgressTypeOK, RowOrDeleted, Enrolled, Holds
<1>4. EntityIsSuccessor'
  BY <1>0 DEF IInv, EntityIsSuccessor
<1>5. RowsCovered'
  BY <1>0, <1>1, <1>2 DEF IInv, RowsCovered, Enrolled
<1>6. CopiesCovered'
  BY <1>0, <1>2, ReviewTypes DEF IInv, CopiesCovered, CopyCovered, Enrolled, Holds
<1>7. RowsExact'
  BY <1>0, <1>1, <1>2 DEF IInv, RowsExact, Unraced, Enrolled
<1>8. CopiesEarlier'
  BY <1>0, <1>2, ReviewTypes DEF IInv, CopiesEarlier, Unraced, Enrolled, Holds
<1> QED BY <1>3, <1>4, <1>5, <1>6, <1>7, <1>8 DEF IInv

\* Reading: the copies a request takes are the row itself.
LEMMA ReviewLoadStep ==
  ASSUME IInv, ProgressTypeOK', NEW r \in Reviews, ReviewLoad(r)
  PROVE  IInv'
<1>0. /\ ProgressTypeOK
      /\ UNCHANGED <<present, card, log, raced>>
  BY DEF IInv, ReviewLoad
<1>1. ASSUME NEW s \in Reviews, s # r PROVE review'[s] = review[s]
  BY <1>1, <1>0 DEF ReviewLoad, ProgressTypeOK
<1>2. /\ review'[r].pc \notin {"graded", "selected"}
      /\ Holds(r)' => /\ review'[r].word \in Vocabulary
                      /\ Enrolled(review'[r].word)
                      /\ review'[r].read = card[review'[r].word]
  BY <1>0 DEF ReviewLoad, ProgressTypeOK, Holds, DoneReview, Enrolled
<1>3. RowOrDeleted'
  BY <1>0, <1>1, <1>2 DEF IInv, RowOrDeleted, Enrolled, Holds
<1>4. EntityIsSuccessor'
  BY <1>0, <1>1, <1>2 DEF IInv, EntityIsSuccessor
<1>5. RowsCovered' /\ RowsExact'
  BY <1>0 DEF IInv, RowsCovered, RowsExact, Unraced, Enrolled
<1>6. CopiesCovered'
  BY <1>0, <1>1, <1>2 DEF IInv, RowsCovered, CopiesCovered, CopyCovered, Enrolled, Holds
<1>7. CopiesEarlier'
  <2> SUFFICES ASSUME NEW s \in Reviews, Holds(s)', Unraced(review[s].word)'
               PROVE  /\ Earlier(review[s].read, card[review[s].word])'
                      /\ (review[s].pc = "selected")' =>
                           /\ (review[s].base # NoCard)'
                           /\ (Total(review[s].read) <= Total(review[s].base))'
                           /\ Earlier(review[s].base, card[review[s].word])'
    BY DEF CopiesEarlier
  <2>1. CASE s # r
    BY <1>0, <1>1, <2>1 DEF IInv, CopiesEarlier, Unraced, Enrolled, Holds
  <2>2. CASE s = r
    BY <1>0, <1>2, <2>2 DEF Earlier, Total, ProgressTypeOK, Cards, Enrolled
  <2> QED BY <2>1, <2>2
<1> QED BY <1>3, <1>4, <1>5, <1>6, <1>7 DEF IInv

LEMMA ReviewGradeStep ==
  ASSUME IInv, ProgressTypeOK', NEW r \in Reviews, ReviewGrade(r)
  PROVE  IInv'
<1>0. /\ ProgressTypeOK
      /\ UNCHANGED <<present, card, log, raced>>
  BY DEF IInv, ReviewGrade
<1>1. ASSUME NEW s \in Reviews, s # r PROVE review'[s] = review[s]
  BY <1>1, <1>0 DEF ReviewGrade, ProgressTypeOK
<1>2. /\ Holds(r)
      /\ review'[r].pc = "graded"
      /\ review'[r].word = review[r].word
      /\ review'[r].quality = review[r].quality
      /\ review'[r].read = review[r].read
      /\ ~IsEarly(review[r].read, now)
      /\ review'[r].entity = Graded(review[r].read, review[r].quality, now)
  BY <1>0 DEF ReviewGrade, ProgressTypeOK, Holds
<1>3. RowOrDeleted'
  BY <1>0, <1>1, <1>2 DEF IInv, RowOrDeleted, Enrolled, Holds
<1>4. EntityIsSuccessor'
  BY <1>0, <1>1, <1>2 DEF IInv, EntityIsSuccessor, ProgressTypeOK, IsEarly
<1>5. RowsCovered' /\ RowsExact'
  BY <1>0 DEF IInv, RowsCovered, RowsExact, Unraced, Enrolled
<1>6. CopiesCovered'
  BY <1>0, <1>1, <1>2 DEF IInv, CopiesCovered, CopyCovered, Enrolled, Holds
<1>7. CopiesEarlier'
  BY <1>0, <1>1, <1>2 DEF IInv, CopiesEarlier, Unraced, Enrolled, Holds
<1> QED BY <1>3, <1>4, <1>5, <1>6, <1>7 DEF IInv

\* A practice event touches no column that Covered or Exact looks at.
LEMMA ReviewPracticeStep ==
  ASSUME IInv, ProgressTypeOK', NEW r \in Reviews, ReviewPractice(r)
  PROVE  IInv'
<1>0. /\ ProgressTypeOK
      /\ UNCHANGED <<present, card, raced>>
  BY DEF IInv, ReviewPractice
<1>1. ASSUME NEW s \in Reviews, Holds(s)'
      PROVE  Holds(s) /\ review'[s] = review[s]
  BY <1>1, <1>0 DEF ReviewPractice, ProgressTypeOK, Holds, DoneReview
<1>2. Holds(r) /\ review[r].word \in Vocabulary
  BY <1>0, ReviewTypes DEF ReviewPractice, Holds
<1>3. ASSUME NEW w \in Vocabulary
      PROVE  /\ \A c : Covered(c, log[w]) => Covered(c, log'[w])
             /\ \A c : Exact(c, log[w]) => Exact(c, log'[w])
             /\ log'[w] # log[w] => w = review[r].word /\ w \in present
  BY <1>0, <1>2 DEF ReviewPractice, ProgressTypeOK, Logs, Covered, Exact
<1>4. RowOrDeleted'
  BY <1>0, <1>1, <1>2, <1>3, ReviewTypes DEF IInv, ProgressTypeOK, RowOrDeleted, Enrolled
<1>5. EntityIsSuccessor'
  BY <1>1 DEF IInv, EntityIsSuccessor, Holds
<1>6. RowsCovered' /\ RowsExact'
  BY <1>0, <1>3 DEF IInv, RowsCovered, RowsExact, Unraced, Enrolled
<1>7. CopiesCovered'
  BY <1>0, <1>1, <1>3, ReviewTypes DEF IInv, CopiesCovered, CopyCovered, Enrolled
<1>8. CopiesEarlier'
  BY <1>0, <1>1 DEF IInv, CopiesEarlier, Unraced, Enrolled
<1> QED BY <1>4, <1>5, <1>6, <1>7, <1>8 DEF IInv

LEMMA SaveSelectStep ==
  ASSUME IInv, ProgressTypeOK', NEW r \in Reviews, ReviewSelect(r)
  PROVE  IInv'
<1> DEFINE w == review[r].word
<1>0. /\ ProgressTypeOK
      /\ UNCHANGED <<present, card, log, raced>>
  BY DEF IInv, ReviewSelect
<1>1. ASSUME NEW s \in Reviews, s # r PROVE review'[s] = review[s]
  BY <1>1, <1>0 DEF ReviewSelect, ProgressTypeOK
<1>2. /\ Holds(r)
      /\ review[r].pc = "graded"
      /\ review'[r].pc = "selected"
      /\ review'[r].word = w
      /\ review'[r].quality = review[r].quality
      /\ review'[r].read = review[r].read
      /\ review'[r].entity = review[r].entity
      /\ review'[r].base = card[w]
  BY <1>0 DEF ReviewSelect, ProgressTypeOK, Holds
<1>3. w \in Vocabulary
  BY <1>0, <1>2, ReviewTypes
<1>4. RowOrDeleted'
  BY <1>0, <1>1, <1>2 DEF IInv, RowOrDeleted, Enrolled, Holds
<1>5. EntityIsSuccessor'
  BY <1>0, <1>1, <1>2 DEF IInv, EntityIsSuccessor
<1>6. RowsCovered' /\ RowsExact'
  BY <1>0 DEF IInv, RowsCovered, RowsExact, Unraced, Enrolled
<1>7. CopiesCovered'
  BY <1>0, <1>1, <1>2, <1>3
     DEF IInv, RowsCovered, CopiesCovered, CopyCovered, Enrolled, Holds
<1>8. CopiesEarlier'
  <2> SUFFICES ASSUME NEW s \in Reviews, Holds(s)', Unraced(review[s].word)'
               PROVE  /\ Earlier(review[s].read, card[review[s].word])'
                      /\ (review[s].pc = "selected")' =>
                           /\ (review[s].base # NoCard)'
                           /\ (Total(review[s].read) <= Total(review[s].base))'
                           /\ Earlier(review[s].base, card[review[s].word])'
    BY DEF CopiesEarlier
  <2>1. CASE s # r
    BY <1>0, <1>1, <2>1 DEF IInv, CopiesEarlier, Unraced, Enrolled, Holds
  <2>2. CASE s = r
    <3>1. card[w] \in Cards
      BY <1>0, <1>2, <1>3, <2>2 DEF ProgressTypeOK, Unraced, Enrolled
    <3>2. Earlier(review[r].read, card[w])
      BY <1>0, <1>2, <2>2 DEF IInv, CopiesEarlier, Unraced, Enrolled
    <3> QED BY <1>0, <1>2, <2>2, <3>1, <3>2, NoCardIsNoRow DEF Earlier, Total, Cards
  <2> QED BY <2>1, <2>2
<1> QED BY <1>4, <1>5, <1>6, <1>7, <1>8 DEF IInv

LEMMA DeleteWordStep ==
  ASSUME IInv, ProgressTypeOK', NEW w \in Vocabulary, DeleteVocabulary(w)
  PROVE  IInv'
<1>0. /\ ProgressTypeOK
      /\ UNCHANGED <<log, review, raced>>
      /\ present' = present \ {w}
  BY DEF IInv, DeleteVocabulary
<1>1. ~Enrolled(w)'
  BY <1>0 DEF DeleteVocabulary, Enrolled, ProgressTypeOK
<1>2. ASSUME NEW v \in Vocabulary, v # w PROVE card'[v] = card[v]
  BY <1>0, <1>2 DEF DeleteVocabulary, ProgressTypeOK
<1>3. RowOrDeleted'
  BY <1>0, <1>1, <1>2, ReviewTypes DEF IInv, ProgressTypeOK, RowOrDeleted, Enrolled, Holds
<1>4. EntityIsSuccessor'
  BY <1>0 DEF IInv, EntityIsSuccessor
<1>5. RowsCovered' /\ RowsExact'
  BY <1>0, <1>1, <1>2 DEF IInv, RowsCovered, RowsExact, Unraced, Enrolled
<1>6. CopiesCovered'
  BY <1>0, <1>1, <1>2, ReviewTypes DEF IInv, CopiesCovered, CopyCovered, Enrolled, Holds
<1>7. CopiesEarlier'
  BY <1>0, <1>1, <1>2, ReviewTypes DEF IInv, CopiesEarlier, Unraced, Enrolled, Holds
<1> QED BY <1>3, <1>4, <1>5, <1>6, <1>7 DEF IInv

\* Whatever the row has become since it was selected, the merged row is covered
\* by the log with the new event, and it is a reviewed row.
LEMMA MergeCovered ==
  ASSUME NEW c \in Cards, NEW base \in Cards, NEW read \in Cards, NEW l \in Logs,
         NEW q \in Qualities, NEW at \in Nat,
         Covered(c, l), Covered(base, l), Covered(read, l),
         base.last # Never => c.last # Never
  PROVE  LET entity == Graded(read, q, at)
             m == MergeColumns(c, base, entity)
         IN  /\ Covered(m, CountedEvent(l, q, read, entity))
             /\ m.last # Never
<1> DEFINE entity == Graded(read, q, at)
           m == MergeColumns(c, base, entity)
           l2 == CountedEvent(l, q, read, entity)
<1>1. entity \in Cards /\ entity.status # "new" /\ entity.last = at
  BY GradedType
<1>2. m \in Cards
  BY <1>1, MergeType
<1>3. /\ m.correct \in {c.correct, entity.correct}
      /\ m.incorrect \in {c.incorrect, entity.incorrect}
      /\ m.status = IF entity.status = base.status THEN c.status ELSE entity.status
      /\ m.last = IF entity.last = base.last THEN c.last ELSE entity.last
  BY <1>1 DEF MergeColumns, Cards
<1>4. m.correct <= l2.correct /\ m.incorrect <= l2.incorrect
  <2>1. /\ entity.correct = IF Passed(q) THEN read.correct + 1 ELSE read.correct
        /\ entity.incorrect = IF Passed(q) THEN read.incorrect ELSE read.incorrect + 1
    BY DEF Graded
  <2>2. /\ l2.correct = IF Passed(q) THEN l.correct + 1 ELSE l.correct
        /\ l2.incorrect = IF Passed(q) THEN l.incorrect ELSE l.incorrect + 1
    BY DEF CountedEvent
  <2> QED BY <1>3, <2>1, <2>2 DEF Covered, Cards, Logs
<1>5. l2.wasNew >= 1
  BY DEF CountedEvent, Covered, Logs
<1>6. m.status = "mastered" => l2.mastered >= 1
  BY <1>3 DEF CountedEvent, BecameMastered, Covered, Logs
<1>7. m.last # Never /\ m.status # "new"
  BY <1>1, <1>3 DEF Covered, Never
<1> HIDE DEF entity, m, l2
<1> QED BY <1>4, <1>5, <1>6, <1>7 DEF Covered, entity, m, l2

\* The event leaves everything covered that was covered.
LEMMA EventCovers ==
  ASSUME NEW l \in Logs, NEW q, NEW read, NEW entity, NEW c \in Cards, Covered(c, l)
  PROVE  Covered(c, CountedEvent(l, q, read, entity))
<1>1. /\ l.correct \in Nat /\ l.incorrect \in Nat /\ l.wasNew \in Nat
      /\ l.mastered \in Nat /\ c.correct \in Nat /\ c.incorrect \in Nat
  BY DEF Logs, Cards
<1> QED BY <1>1 DEF Covered, CountedEvent

\* A commit over the row that was read writes its SM-2 successor and the
\* matching event: row and log still agree exactly.
LEMMA SuccessorExact ==
  ASSUME NEW c \in Cards, NEW l \in Logs, NEW q \in Qualities, NEW at \in Nat,
         Exact(c, l)
  PROVE  Exact(Graded(c, q, at), CountedEvent(l, q, c, Graded(c, q, at)))
<1> DEFINE g == Graded(c, q, at)
<1>1. WellFormed(g) /\ g.last # Never
  BY GradedWellFormed, GradedType DEF Exact, Never
<1>2. /\ g.correct = IF Passed(q) THEN c.correct + 1 ELSE c.correct
      /\ g.incorrect = IF Passed(q) THEN c.incorrect ELSE c.incorrect + 1
  BY DEF Graded
<1>3. l.wasNew \in Nat
  BY DEF Logs
<1> HIDE DEF g
<1> QED BY <1>1, <1>2, <1>3 DEF Exact, CountedEvent, g

\* The commit.  Either nothing is stored, or the row becomes the merge of what
\* it is now with what the request computed; when the row is the one the request
\* had read, that merge is its SM-2 successor.
LEMMA ReviewCommitStep ==
  ASSUME IInv, ProgressTypeOK', NEW r \in Reviews, ReviewCommit(r)
  PROVE  IInv'
<1> DEFINE w == review[r].word
           q == review[r].quality
           read == review[r].read
           base == review[r].base
           entity == review[r].entity
           merged == MergeColumns(card[w], base, entity)
           stored == card[w] # NoCard /\ base # NoCard
<1>0. /\ ProgressTypeOK
      /\ present' = present
      /\ review[r].pc = "selected"
      /\ Holds(r)
  BY DEF IInv, ReviewCommit, Holds
<1>1. ASSUME NEW s \in Reviews, Holds(s)'
      PROVE  s # r /\ Holds(s) /\ review'[s] = review[s]
  BY <1>1, <1>0 DEF ReviewCommit, ProgressTypeOK, Holds, DoneReview
<1>2. /\ w \in Vocabulary /\ q \in Qualities /\ read \in Cards /\ entity \in Cards
      /\ base \in Cards \cup {NoCard}
      /\ log[w] \in Logs /\ card[w] \in Cards \cup {NoCard}
  <2>1. review[r] \in SelectedReviews
    BY <1>0, ReviewTypes
  <2> QED BY <1>0, <2>1, GradesAssumption DEF SelectedReviews, ProgressTypeOK
<1>3. EntityIsSuccessor'
  BY <1>1 DEF IInv, EntityIsSuccessor, Holds
<1>4. CASE ~stored
  <2>1. UNCHANGED <<card, log>> /\ raced' = raced
    BY <1>0, <1>2, <1>4 DEF ReviewCommit, ProgressTypeOK
  <2>2. RowOrDeleted'
    BY <1>0, <1>1, <2>1 DEF IInv, RowOrDeleted, Enrolled
  <2>3. RowsCovered' /\ RowsExact'
    BY <2>1 DEF IInv, RowsCovered, RowsExact, Unraced, Enrolled
  <2>4. CopiesCovered' /\ CopiesEarlier'
    BY <1>1, <2>1 DEF IInv, CopiesCovered, CopiesEarlier, CopyCovered, Unraced, Enrolled
  <2> QED BY <1>3, <2>2, <2>3, <2>4 DEF IInv
<1>5. CASE stored
  <2> DEFINE event == CountedEvent(log[w], q, read, entity)
  <2>1. /\ card[w] \in Cards /\ base \in Cards /\ Enrolled(w)
        /\ card' = [card EXCEPT ![w] = merged]
        /\ log' = [log EXCEPT ![w] = event]
        /\ raced' = [raced EXCEPT ![w] = @ \/ card[w] # read]
    BY <1>2, <1>5 DEF ReviewCommit, Enrolled
  <2>2. PICK at \in Nat : entity = Graded(read, q, at)
    BY <1>0 DEF IInv, EntityIsSuccessor
  <2>3. /\ Covered(card[w], log[w]) /\ Covered(read, log[w]) /\ Covered(base, log[w])
        /\ base.last # Never => card[w].last # Never
    BY <1>0, <1>2, <2>1, NoCardIsNoRow DEF IInv, RowsCovered, CopiesCovered, CopyCovered
  <2>4. /\ merged \in Cards /\ merged # NoCard
        /\ Covered(merged, event)
        /\ merged.last # Never
    <3>1. LET g == Graded(read, q, at)
              m == MergeColumns(card[w], base, g)
          IN  /\ Covered(m, CountedEvent(log[w], q, read, g))
              /\ m.last # Never
      <4> HIDE DEF w, q, read, base
      <4> QED BY <1>2, <2>1, <2>3, MergeCovered
    <3>2. merged \in Cards
      BY <1>2, <2>1, MergeType
    <3> QED BY <2>2, <3>1, <3>2, NoCardIsNoRow
  <2>5. /\ card'[w] = merged /\ log'[w] = event
        /\ \A v \in Vocabulary : v # w => /\ card'[v] = card[v]
                                     /\ log'[v] = log[v]
                                     /\ raced'[v] = raced[v]
        /\ \A v \in Vocabulary : Enrolled(v)' <=> Enrolled(v)
    BY <1>0, <1>2, <2>1, <2>4 DEF ProgressTypeOK, Enrolled
  <2>6. ASSUME NEW c \in Cards, Covered(c, log[w])
        PROVE  Covered(c, event)
    BY <1>2, <2>6, EventCovers
  <2>7. RowOrDeleted'
    BY <1>0, <1>1, <1>2, <2>1, <2>5, ReviewTypes DEF IInv, ProgressTypeOK, RowOrDeleted
  <2>8. RowsCovered'
    BY <1>2, <2>4, <2>5 DEF IInv, RowsCovered
  <2>9. CopiesCovered'
    <3> SUFFICES ASSUME NEW s \in Reviews, Holds(s)'
                 PROVE  /\ CopyCovered(review[s].read, review[s].word)'
                        /\ (review[s].pc = "selected" /\ review[s].base # NoCard)' =>
                             CopyCovered(review[s].base, review[s].word)'
      BY DEF CopiesCovered
    <3>1. /\ Holds(s) /\ review'[s] = review[s]
          /\ review[s].word \in Vocabulary /\ review[s].read \in Cards
      BY <1>0, <1>1, ReviewTypes
    <3>2. /\ CopyCovered(review[s].read, review[s].word)
          /\ review[s].pc = "selected" /\ review[s].base # NoCard =>
               /\ CopyCovered(review[s].base, review[s].word)
               /\ review[s].base \in Cards
      BY <1>0, <3>1, ReviewTypes DEF IInv, CopiesCovered, SelectedReviews
    <3>3. CASE review[s].word = w
      BY <2>4, <2>5, <2>6, <3>1, <3>2, <3>3 DEF CopyCovered
    <3>4. CASE review[s].word # w
      BY <2>5, <3>1, <3>2, <3>4 DEF CopyCovered
    <3> QED BY <3>3, <3>4
  <2>10. ASSUME ~raced'[w]
         PROVE  /\ ~raced[w] /\ read = card[w] /\ base = card[w]
                /\ merged = Graded(card[w], q, at)
                /\ Exact(merged, event)
                /\ Total(merged) = Total(card[w]) + 1
    <3>1. ~raced[w] /\ read = card[w]
      BY <1>0, <1>2, <2>1, <2>10 DEF ProgressTypeOK
    <3>2. Total(read) <= Total(base) /\ Earlier(base, card[w])
      BY <1>0, <2>1, <3>1 DEF IInv, CopiesEarlier, Unraced
    <3>3. base = card[w]
      BY <1>2, <2>1, <3>1, <3>2 DEF Earlier, Total, Cards
    <3>4. merged = Graded(card[w], q, at)
      BY <1>2, <2>1, <2>2, <3>1, <3>3, MergeSame
    <3>5. Exact(card[w], log[w])
      BY <1>2, <2>1, <3>1 DEF IInv, RowsExact, Unraced
    <3>6. Exact(Graded(card[w], q, at), event)
      BY <1>2, <2>1, <2>2, <3>1, <3>5, SuccessorExact
    <3>7. Total(Graded(card[w], q, at)) = Total(card[w]) + 1
      BY <1>2, <2>1, GradedCounts
    <3> QED BY <3>1, <3>3, <3>4, <3>6, <3>7
  <2>11. RowsExact'
    BY <1>2, <2>5, <2>10 DEF IInv, RowsExact, Unraced
  <2>12. CopiesEarlier'
    <3> SUFFICES ASSUME NEW s \in Reviews, Holds(s)', Unraced(review[s].word)'
                 PROVE  /\ Earlier(review[s].read, card[review[s].word])'
                        /\ (review[s].pc = "selected")' =>
                             /\ (review[s].base # NoCard)'
                             /\ (Total(review[s].read) <= Total(review[s].base))'
                             /\ Earlier(review[s].base, card[review[s].word])'
      BY DEF CopiesEarlier
    <3>1. /\ Holds(s) /\ review'[s] = review[s]
          /\ review[s].word \in Vocabulary /\ review[s].read \in Cards
          /\ review[s].pc = "selected" => review[s].base \in Cards \cup {NoCard}
      BY <1>0, <1>1, ReviewTypes DEF SelectedReviews
    <3>2. Unraced(review[s].word)
      BY <2>5, <2>10, <3>1 DEF Unraced
    <3>3. /\ Earlier(review[s].read, card[review[s].word])
          /\ review[s].pc = "selected" =>
               /\ review[s].base # NoCard
               /\ Total(review[s].read) <= Total(review[s].base)
               /\ Earlier(review[s].base, card[review[s].word])
      BY <3>1, <3>2 DEF IInv, CopiesEarlier
    <3>4. CASE review[s].word # w
      BY <2>5, <3>1, <3>3, <3>4
    <3>5. CASE review[s].word = w
      <4>1. ~raced'[w]
        BY <3>1, <3>5 DEF Unraced
      <4>2. ASSUME NEW c \in Cards, Earlier(c, card[w])
            PROVE  Earlier(c, merged)
        BY <2>1, <2>4, <2>10, <4>1, <4>2 DEF Earlier, Total, Cards
      <4> QED BY <2>5, <3>1, <3>3, <3>5, <4>2
    <3> QED BY <3>4, <3>5
  <2> QED BY <1>3, <2>7, <2>8, <2>9, <2>11, <2>12 DEF IInv
<1> QED BY <1>4, <1>5

LEMMA IInvStep == IInv /\ [ProgressNext]_progressVars => IInv'
<1> SUFFICES ASSUME IInv, [ProgressNext]_progressVars PROVE IInv'
  OBVIOUS
<1>1. ProgressTypeOK'
  BY TypeStep DEF IInv
<1>2. ASSUME NEW e \in Enrollments, EnrollRead(e) PROVE IInv'
  BY <1>1, <1>2, UnchangedStep DEF EnrollRead
<1>3. ASSUME NEW t \in Instants, Tick(t) PROVE IInv'
  BY <1>1, <1>3, UnchangedStep DEF Tick
<1>4. CASE UNCHANGED progressVars
  BY <1>1, <1>4, UnchangedStep DEF progressVars
<1> QED
  BY <1>1, <1>2, <1>3, <1>4, EnrollCommitStep, ReviewLoadStep, ReviewGradeStep,
     ReviewPracticeStep, SaveSelectStep, ReviewCommitStep, DeleteWordStep DEF ProgressNext

\* The strengthened invariant holds in every state of every interleaving.
THEOREM Invariance == ProgressSpec => []IInv
<1>1. ProgressInit => IInv  BY IInvInit
<1>2. IInv /\ [ProgressNext]_progressVars => IInv'  BY IInvStep
<1> QED BY <1>1, <1>2, PTL DEF ProgressSpec

-----------------------------------------------------------------------------
(* What follows from it *)

\* The SM-2 shape of an unraced row survives every sequence of requests
\* (submitReview, enroll, deletion): ScheduleWellFormed for every instance.
THEOREM ShapePreserved == ProgressSpec => []ScheduleWellFormed
<1>1. IInv => ScheduleWellFormed
  BY DEF IInv, RowsExact, Unraced, Exact, ScheduleWellFormed
<1> QED BY <1>1, Invariance, PTL

\* An unraced row's accuracy counters are the log's, which has exactly one first
\* review of a reviewed word: submitReview never half records a review.
THEOREM RowAgreesWithLog == ProgressSpec => []RowMatchesLog
<1>1. IInv => RowMatchesLog
  BY DEF IInv, RowsExact, Unraced, Exact, RowMatchesLog
<1> QED BY <1>1, Invariance, PTL

\* Lost updates included, the counters of a row never exceed the log.
THEOREM CountersBounded == ProgressSpec => []CountersNeverExceedLog
<1>1. IInv => CountersNeverExceedLog
  BY DEF IInv, RowsCovered, Covered, CountersNeverExceedLog
<1> QED BY <1>1, Invariance, PTL

\* Lost updates included, a reviewed word has a was_new event and a mastered
\* word a became_mastered event.
THEOREM MilestonesInLog == ProgressSpec => []MilestonesLogged
<1>1. IInv => MilestonesLogged
  BY DEF IInv, RowsCovered, Covered, MilestonesLogged
<1> QED BY <1>1, Invariance, PTL

\* Lost updates included, the columns status and last_reviewed_at agree on
\* whether the word was ever reviewed.
THEOREM NewMeansUnreviewed == ProgressSpec => []NewIffUnreviewed
<1>1. IInv => NewIffUnreviewed
  BY DEF IInv, RowsCovered, Covered, NewIffUnreviewed
<1> QED BY <1>1, Invariance, PTL

\* The columns a step may write, word by word: a row changes by being created
\* where there was none, by a commit of a review, or by going with its word.
LEMMA RowChanges ==
  ASSUME ProgressTypeOK, [ProgressNext]_progressVars, NEW w \in Vocabulary, Enrolled(w), card'[w] # card[w]
  PROVE  \/ w \notin present'
         \/ \E r \in Reviews :
              /\ ReviewCommit(r)
              /\ review[r].word = w
              /\ review[r].base # NoCard
              /\ card'[w] = MergeColumns(card[w], review[r].base, review[r].entity)
              /\ raced'[w] = (raced[w] \/ card[w] # review[r].read)
<1>1. ASSUME NEW e \in Enrollments, EnrollRead(e) \/ EnrollCommit(e)
      PROVE  FALSE
  BY <1>1 DEF EnrollRead, EnrollCommit, Enrolled, ProgressTypeOK
<1>2. ASSUME NEW r \in Reviews, ReviewLoad(r) \/ ReviewGrade(r) \/ ReviewPractice(r)
                                \/ ReviewSelect(r)
      PROVE  FALSE
  BY <1>2 DEF ReviewLoad, ReviewGrade, ReviewPractice, ReviewSelect
<1>3. ASSUME NEW r \in Reviews, ReviewCommit(r)
      PROVE  /\ review[r].word = w
             /\ review[r].base # NoCard
             /\ card'[w] = MergeColumns(card[w], review[r].base, review[r].entity)
             /\ raced'[w] = (raced[w] \/ card[w] # review[r].read)
  <2>1. review[r] \in SelectedReviews
    BY <1>3, ReviewTypes DEF ReviewCommit
  <2>2. review[r].word = w /\ review[r].base # NoCard
    BY <1>3, <2>1 DEF ReviewCommit, ProgressTypeOK, SelectedReviews
  <2> QED BY <1>3, <2>1, <2>2 DEF ReviewCommit, ProgressTypeOK, SelectedReviews, Enrolled
<1>4. ASSUME NEW v \in Vocabulary, DeleteVocabulary(v)
      PROVE  w \notin present'
  BY <1>4 DEF DeleteVocabulary, ProgressTypeOK
<1>5. ASSUME NEW t \in Instants, Tick(t)
      PROVE  FALSE
  BY <1>5 DEF Tick
<1>6. CASE UNCHANGED progressVars
  BY <1>6 DEF progressVars
<1> QED BY <1>1, <1>2, <1>3, <1>4, <1>5, <1>6 DEF ProgressNext

\* A reviewed row stays a reviewed row, whichever of enroll and submitReview
\* runs, for as long as its word exists.
THEOREM NeverReset == ProgressSpec => ProgressNeverReset
<1>1. ASSUME IInv, IInv', [ProgressNext]_progressVars, NEW w \in Vocabulary,
             Enrolled(w), card[w].last # Never, w \in present'
      PROVE  Enrolled(w)' /\ card'[w].last # Never
  <2>1. CASE card'[w] = card[w]
    BY <1>1, <2>1 DEF Enrolled
  <2>2. CASE card'[w] # card[w]
    <3>1. ProgressTypeOK
      BY <1>1 DEF IInv
    <3>2. PICK r \in Reviews :
            /\ review[r].pc = "selected"
            /\ review[r].word = w
            /\ review[r].base # NoCard
            /\ card'[w] = MergeColumns(card[w], review[r].base, review[r].entity)
      BY <1>1, <2>2, <3>1, RowChanges DEF ReviewCommit
    <3>3. /\ review[r].read \in Cards /\ review[r].quality \in Qualities
          /\ review[r].base \in Cards /\ card[w] \in Cards
      BY <1>1, <3>1, <3>2, ReviewTypes, GradesAssumption
         DEF SelectedReviews, ProgressTypeOK, Enrolled
    <3>4. PICK at \in Nat : review[r].entity = Graded(review[r].read, review[r].quality, at)
      BY <1>1, <3>2 DEF IInv, EntityIsSuccessor
    <3>5. review[r].entity \in Cards /\ review[r].entity.last # Never
      BY <3>3, <3>4, GradedType DEF Never
    <3>6. card'[w] \in Cards /\ card'[w].last \in {card[w].last, review[r].entity.last}
      BY <3>2, <3>3, <3>5, MergeType DEF MergeColumns, Cards
    <3> QED BY <1>1, <3>5, <3>6, NoCardIsNoRow DEF Enrolled
  <2> QED BY <2>1, <2>2
<1>2. IInv /\ IInv' /\ [ProgressNext]_progressVars =>
        [\A w \in Vocabulary : Enrolled(w) /\ card[w].last # Never /\ w \in present' =>
           Enrolled(w)' /\ card'[w].last # Never]_progressVars
  BY <1>1
<1> QED BY <1>2, Invariance, PTL DEF ProgressSpec, ProgressNeverReset

\* submitReview honours the schedule: without overlapping reviews of the word,
\* a graduated card changes only when it is due, and success lengthens its
\* interval.
THEOREM SpacingKept == ProgressSpec => SpacingHonoured
<1>1. ASSUME IInv, [ProgressNext]_progressVars, NEW w \in Vocabulary,
             Enrolled(w), Enrolled(w)', ~raced'[w],
             card[w].step = Graduated, card'[w] # card[w], IInv'
      PROVE  /\ card'[w].last + Tolerance >= card[w].next
             /\ card'[w].step = Graduated => card'[w].interval > card[w].interval
  <2>1. ProgressTypeOK
    BY <1>1 DEF IInv
  <2>2. w \in present'
    BY <1>1 DEF IInv, RowOrDeleted
  <2>3. PICK r \in Reviews :
          /\ review[r].pc = "selected"
          /\ review[r].word = w
          /\ review[r].base # NoCard
          /\ card'[w] = MergeColumns(card[w], review[r].base, review[r].entity)
          /\ raced'[w] = (raced[w] \/ card[w] # review[r].read)
    BY <1>1, <2>1, <2>2, RowChanges DEF ReviewCommit
  <2>4. ~raced[w] /\ review[r].read = card[w]
    BY <1>1, <2>1, <2>3 DEF ProgressTypeOK
  <2>5. /\ card[w] \in Cards /\ review[r].quality \in Qualities
        /\ review[r].base \in Cards
    BY <1>1, <2>1, <2>3, ReviewTypes, GradesAssumption
       DEF SelectedReviews, ProgressTypeOK, Enrolled
  <2>6. PICK at \in Nat :
          /\ ~IsEarly(card[w], at)
          /\ review[r].entity = Graded(card[w], review[r].quality, at)
    BY <1>1, <2>3, <2>4 DEF IInv, EntityIsSuccessor
  <2>7. review[r].base = card[w]
    <3>1. /\ Total(card[w]) <= Total(review[r].base)
          /\ Earlier(review[r].base, card[w])
      BY <1>1, <2>3, <2>4 DEF IInv, CopiesEarlier, Unraced, Holds
    <3> QED BY <2>5, <3>1 DEF Earlier, Total, Cards
  <2>8. card'[w] = Graded(card[w], review[r].quality, at)
    <3>1. Graded(card[w], review[r].quality, at) \in Cards
      BY <2>5, GradedType
    <3> QED BY <2>3, <2>5, <2>6, <2>7, <3>1, MergeSame
  <2>9. WellFormed(card[w])
    BY <1>1, <2>4 DEF IInv, RowsExact, Unraced, Exact
  <2>10. card'[w].last = at
    BY <2>5, <2>8, GradedType
  <2>11. card[w].next <= at + Tolerance
    BY <1>1, <2>5, <2>6, ClockAssumption DEF IsEarly, Cards
  <2>12. card'[w].step = Graduated => card'[w].interval > card[w].interval
    BY <1>1, <2>5, <2>8, <2>9, GradedSpacing
  <2> QED BY <2>10, <2>11, <2>12
<1>2. IInv /\ IInv' /\ [ProgressNext]_progressVars =>
        [\A w \in Vocabulary :
           Enrolled(w) /\ Enrolled(w)' /\ ~raced'[w]
             /\ card[w].step = Graduated /\ card'[w] # card[w] =>
           /\ card'[w].last + Tolerance >= card[w].next
           /\ card'[w].step = Graduated => card'[w].interval > card[w].interval]_progressVars
  BY <1>1
<1> QED BY <1>2, Invariance, PTL DEF ProgressSpec, SpacingHonoured
=============================================================================
