------------------------------ MODULE Progress ------------------------------
(***************************************************************************)
(* One learner's progress rows and activity log under concurrent requests  *)
(* (src/src/progress/progress.service.ts): enroll, submitReview and the    *)
(* deletion of a word by the catalog.  Rows of two learners never meet, so *)
(* one learner is modelled.                                                *)
(*                                                                         *)
(* The service reads a row, computes in memory, and writes back later      *)
(* through TypeORM's save inside a READ COMMITTED transaction.  save is a  *)
(* SELECT of the row by id followed by an UPDATE of only those columns in  *)
(* which the entity differs from the row just selected.  Read, grade,      *)
(* select and commit are therefore four steps, and other requests may run  *)
(* between any two of them.                                                *)
(***************************************************************************)
EXTENDS Srs, FiniteSets

CONSTANTS
  Vocabulary,      \* vocabulary ids
  Reviews,         \* submitReview calls, one request each
  Enrollments,     \* enroll calls, one request each
  Grades,          \* the qualities 0..5 the client submits
  Tolerance,       \* cfg.earlyToleranceSeconds, in minutes
  InitialCards,    \* rows the learner may already have when we start looking
  Instants         \* the clock readings at which something may happen

VARIABLES
  now,             \* wall clock, in minutes
  present,         \* ids still present in vocabularies
  card,            \* user_word_progress row of each word, or NoCard
  log,             \* learning_activity, counted per word
  review,          \* the state of each submitReview call
  enrollment,      \* the state of each enroll call
  raced            \* history: a review was committed over a row it had not read

progressVars == <<now, present, card, log, review, enrollment, raced>>

-----------------------------------------------------------------------------
(* Rows *)

Never == -1              \* last_reviewed_at IS NULL

Cards ==
  [status: Statuses, reps: Nat, ease: Nat, interval: Nat, next: Nat,
   step: StepIndexes \cup {Graduated}, last: Nat \cup {Never},
   correct: Nat, incorrect: Nat]

NoCard == [status |-> "none"]

\* The columns of a row the entity created by persistEnrollment gets.
FreshCard ==
  [status |-> "new", reps |-> 0, ease |-> DefaultEase, interval |-> 0,
   next |-> now, step |-> 0, last |-> Never, correct |-> 0, incorrect |-> 0]

\* The append-only log, as the number of rows of each kind per word.
Logs == [correct: Nat, incorrect: Nat, wasNew: Nat, mastered: Nat, practice: Nat]

EmptyLog == [correct |-> 0, incorrect |-> 0, wasNew |-> 0, mastered |-> 0,
             practice |-> 0]

\* The shape SM-2 gives a row: a card in the learning steps has no day
\* interval, a graduated card has one and its due date follows from it.
InSteps(c) ==
  /\ c.status \in {"new", "learning"}
  /\ c.step # Graduated
  /\ c.interval = 0

OnLadder(c) ==
  /\ c.step = Graduated
  /\ c.reps >= 1
  /\ c.interval >= 1
  /\ c.reps = 1 => c.interval = 1
  /\ c.reps >= 2 => c.interval >= 6
  /\ c.status = InferStatus(c.reps, c.interval)
  /\ c.last # Never
  /\ c.next = c.last + c.interval * MinutesPerDay

WellFormed(c) ==
  /\ InSteps(c) \/ OnLadder(c)
  /\ c.ease >= MinEase
  /\ c.status = "new" <=> c.last = Never
  /\ c.last = Never <=> c.correct + c.incorrect = 0

ASSUME GradesAssumption == Grades \subseteq Qualities
ASSUME ClockAssumption == Tolerance \in Nat /\ Instants \subseteq Nat
ASSUME InitialCardsAssumption ==
  /\ InitialCards \subseteq Cards
  /\ \A c \in InitialCards : WellFormed(c)

\* The log of a row nobody has raced on: one event per counted review.
LogOf(c) ==
  [correct |-> c.correct, incorrect |-> c.incorrect,
   wasNew |-> IF c.last = Never THEN 0 ELSE 1,
   mastered |-> IF c.status = "mastered" THEN 1 ELSE 0,
   practice |-> 0]

-----------------------------------------------------------------------------
(* Requests *)

IdleReview == [pc |-> "idle"]
DoneReview == [pc |-> "done"]

LoadedReviews == [pc: {"loaded"}, word: Vocabulary, quality: Grades, read: Cards]
GradedReviews ==
  [pc: {"graded"}, word: Vocabulary, quality: Grades, read: Cards, entity: Cards]
SelectedReviews ==
  [pc: {"selected"}, word: Vocabulary, quality: Grades, read: Cards, entity: Cards,
   base: Cards \cup {NoCard}]

IdleEnrollment == [pc |-> "idle"]
DoneEnrollment == [pc |-> "done"]
Enrolling == [pc: {"enrolling"}, toCreate: SUBSET Vocabulary]

ProgressTypeOK ==
  /\ now \in Nat
  /\ present \in SUBSET Vocabulary
  /\ card \in [Vocabulary -> Cards \cup {NoCard}]
  /\ log \in [Vocabulary -> Logs]
  /\ review \in [Reviews -> {IdleReview, DoneReview} \cup LoadedReviews
                              \cup GradedReviews \cup SelectedReviews]
  /\ enrollment \in [Enrollments -> {IdleEnrollment, DoneEnrollment} \cup Enrolling]
  /\ raced \in [Vocabulary -> BOOLEAN]

ProgressInit ==
  /\ now = 0
  /\ present = Vocabulary
  /\ card \in [Vocabulary -> InitialCards \cup {NoCard}]
  /\ log = [w \in Vocabulary |-> IF card[w] = NoCard THEN EmptyLog ELSE LogOf(card[w])]
  /\ review = [r \in Reviews |-> IdleReview]
  /\ enrollment = [e \in Enrollments |-> IdleEnrollment]
  /\ raced = [w \in Vocabulary |-> FALSE]

-----------------------------------------------------------------------------
(* enroll: the ids the catalog knows and the learner has no row for are
   read first and inserted later, all in one statement batch. *)

EnrollRead(e) ==
  /\ enrollment[e] = IdleEnrollment
  /\ \E requested \in SUBSET Vocabulary :
       LET toCreate == {w \in requested \cap present : card[w] = NoCard} IN
       enrollment' = [enrollment EXCEPT ![e] =
         IF toCreate = {} THEN DoneEnrollment
         ELSE [pc |-> "enrolling", toCreate |-> toCreate]]
  /\ UNCHANGED <<now, present, card, log, review, raced>>

\* Mutant of EnrollCommit: an upsert that overwrites the row on conflict.
EnrollCommit_Upsert(e) ==
  /\ enrollment[e].pc = "enrolling"
  /\ card' = [w \in Vocabulary |-> IF w \in enrollment[e].toCreate \cap present
                              THEN FreshCard ELSE card[w]]
  /\ enrollment' = [enrollment EXCEPT ![e] = DoneEnrollment]
  /\ UNCHANGED <<now, present, log, review, raced>>

\* The INSERTs share a transaction: a row that appeared meanwhile violates
\* UQ_user_word_progress_user_vocab, a word that vanished violates the foreign
\* key, and either one rolls all of them back.
EnrollCommit(e) ==
  /\ enrollment[e].pc = "enrolling"
  /\ LET toCreate == enrollment[e].toCreate
         accepted == toCreate \subseteq {w \in present : card[w] = NoCard}
     IN card' = IF accepted
                THEN [w \in Vocabulary |-> IF w \in toCreate THEN FreshCard ELSE card[w]]
                ELSE card
  /\ enrollment' = [enrollment EXCEPT ![e] = DoneEnrollment]
  /\ UNCHANGED <<now, present, log, review, raced>>

-----------------------------------------------------------------------------
(* submitReview *)

\* progressRepo.findOne; a word without a row answers 404.
ReviewLoad(r) ==
  /\ review[r] = IdleReview
  /\ \E w \in Vocabulary, q \in Grades :
       review' = [review EXCEPT ![r] =
         IF card[w] = NoCard THEN DoneReview
         ELSE [pc |-> "loaded", word |-> w, quality |-> q, read |-> card[w]]]
  /\ UNCHANGED <<now, present, card, log, enrollment, raced>>

\* Mutant of IsEarly: the tolerance taken sixty times too large (seconds for minutes).
IsEarly_WrongUnit(c, at) == c.step = Graduated /\ c.next > at + 60 * Tolerance

IsEarly(c, at) == c.step = Graduated /\ c.next > at + Tolerance

\* The entity with the SM-2 result assigned and the counter incremented.
Graded(c, q, at) ==
  LET next == ApplySm2(c, q, at) IN
  [status |-> next.status, reps |-> next.reps, ease |-> next.ease,
   interval |-> next.interval, next |-> next.next, step |-> next.step,
   last |-> at,
   correct |-> IF Passed(q) THEN c.correct + 1 ELSE c.correct,
   incorrect |-> IF Passed(q) THEN c.incorrect ELSE c.incorrect + 1]

\* now = new Date(), then the computation up to the transaction.
ReviewGrade(r) ==
  /\ review[r].pc = "loaded"
  /\ ~IsEarly(review[r].read, now)
  /\ review' = [review EXCEPT ![r] =
       [pc |-> "graded", word |-> review[r].word,
        quality |-> review[r].quality, read |-> review[r].read,
        entity |-> Graded(review[r].read, review[r].quality, now)]]
  /\ UNCHANGED <<now, present, card, log, enrollment, raced>>

\* Mutant of ReviewPractice: free practice recorded as a graded review.
ReviewPractice_AsReview(r) ==
  /\ review[r].pc = "loaded"
  /\ IsEarly(review[r].read, now)
  /\ log' = IF review[r].word \in present
            THEN [log EXCEPT ![review[r].word].correct = @ + 1]
            ELSE log
  /\ review' = [review EXCEPT ![r] = DoneReview]
  /\ UNCHANGED <<now, present, card, enrollment, raced>>

\* Free practice: an early graduated card is logged and left alone.  The
\* insert fails when the word is gone (foreign key).
ReviewPractice(r) ==
  /\ review[r].pc = "loaded"
  /\ IsEarly(review[r].read, now)
  /\ log' = IF review[r].word \in present
            THEN [log EXCEPT ![review[r].word].practice = @ + 1]
            ELSE log
  /\ review' = [review EXCEPT ![r] = DoneReview]
  /\ UNCHANGED <<now, present, card, enrollment, raced>>

\* The SELECT that manager.save issues to find out which columns changed.
ReviewSelect(r) ==
  /\ review[r].pc = "graded"
  /\ review' = [review EXCEPT ![r] =
       [pc |-> "selected", word |-> review[r].word,
        quality |-> review[r].quality, read |-> review[r].read,
        entity |-> review[r].entity, base |-> card[review[r].word]]]
  /\ UNCHANGED <<now, present, card, log, enrollment, raced>>

\* UPDATE only the columns in which the entity differs from the selected row.
MergeColumns(current, base, entity) ==
  [f \in DOMAIN entity |-> IF entity[f] = base[f] THEN current[f] ELSE entity[f]]

\* Mutant of BecameMastered: the old status read after the new one was assigned.
BecameMastered_AfterAssign(read, entity) ==
  entity.status # "mastered" /\ entity.status = "mastered"

BecameMastered(read, entity) ==
  read.status # "mastered" /\ entity.status = "mastered"

\* Mutant of CountedEvent: the log asks for a quality above 3 where the row asks for 3.
CountedEvent_Stricter(l, q, read, entity) ==
  [l EXCEPT !.correct = IF q > 3 THEN @ + 1 ELSE @,
            !.incorrect = IF q > 3 THEN @ ELSE @ + 1,
            !.wasNew = IF read.last = Never THEN @ + 1 ELSE @,
            !.mastered = IF BecameMastered(read, entity) THEN @ + 1 ELSE @]

\* isCorrect from the quality, wasNew and becameMastered from the row read.
CountedEvent(l, q, read, entity) ==
  [correct   |-> IF Passed(q) THEN l.correct + 1 ELSE l.correct,
   incorrect |-> IF Passed(q) THEN l.incorrect ELSE l.incorrect + 1,
   wasNew    |-> IF read.last = Never THEN l.wasNew + 1 ELSE l.wasNew,
   mastered  |-> IF BecameMastered(read, entity) THEN l.mastered + 1 ELSE l.mastered,
   practice  |-> l.practice]

\* UPDATE, INSERT of the activity row, COMMIT.  When the row is gone the word
\* is gone with it: the activity row violates its foreign key (or the INSERT
\* that save falls back to does) and the transaction rolls back.
ReviewCommit(r) ==
  /\ review[r].pc = "selected"
  /\ LET w == review[r].word
         stored == card[w] # NoCard /\ review[r].base # NoCard
     IN /\ card' = IF stored
                   THEN [card EXCEPT ![w] = MergeColumns(@, review[r].base, review[r].entity)]
                   ELSE card
        /\ log' = IF stored
                  THEN [log EXCEPT ![w] = CountedEvent(@, review[r].quality,
                                                    review[r].read, review[r].entity)]
                  ELSE log
        /\ raced' = [raced EXCEPT ![w] = @ \/ (stored /\ card[w] # review[r].read)]
  /\ review' = [review EXCEPT ![r] = DoneReview]
  /\ UNCHANGED <<now, present, enrollment>>

-----------------------------------------------------------------------------
(* Environment: the catalog deletes a word (the row goes with it, the log
   keeps its rows with vocabulary_id set to NULL), and time passes. *)

DeleteVocabulary(w) ==
  /\ w \in present
  /\ present' = present \ {w}
  /\ card' = [card EXCEPT ![w] = NoCard]
  /\ UNCHANGED <<now, log, review, enrollment, raced>>

Tick(t) ==
  /\ t > now
  /\ now' = t
  /\ UNCHANGED <<present, card, log, review, enrollment, raced>>

ProgressNext ==
  \/ \E e \in Enrollments : EnrollRead(e) \/ EnrollCommit(e)
  \/ \E r \in Reviews :
       \/ ReviewLoad(r) \/ ReviewGrade(r) \/ ReviewPractice(r)
       \/ ReviewSelect(r) \/ ReviewCommit(r)
  \/ \E w \in Vocabulary : DeleteVocabulary(w)
  \/ \E t \in Instants : Tick(t)

ProgressSpec == ProgressInit /\ [][ProgressNext]_progressVars
-----------------------------------------------------------------------------
(* Properties.  The first two hold of a word as long as no review of it was
   committed over a row it had not read; the next three hold in every
   interleaving; the last two say what a step may never do. *)

Enrolled(w) == card[w] # NoCard

\* The SM-2 shape of a row survives every sequence of reviews, practice,
\* re-enrollments and clock steps whose reviews of the word do not overlap.
ScheduleWellFormed ==
  \A w \in Vocabulary : Enrolled(w) /\ ~raced[w] => WellFormed(card[w])

\* Every counted review is in the row's accuracy counters and in the log, and
\* the first one of them, and no other, is logged was_new: "a review can never
\* half-record" (progress.service.ts:322-324).
RowMatchesLog ==
  \A w \in Vocabulary : Enrolled(w) /\ ~raced[w] =>
    /\ card[w].correct = log[w].correct
    /\ card[w].incorrect = log[w].incorrect
    /\ log[w].wasNew = IF card[w].last = Never THEN 0 ELSE 1

\* However requests interleave, the accuracy counters never claim a review
\* that the activity log does not have.
CountersNeverExceedLog ==
  \A w \in Vocabulary : Enrolled(w) =>
    /\ card[w].correct <= log[w].correct
    /\ card[w].incorrect <= log[w].incorrect

\* However requests interleave, a reviewed word was logged as new (so the
\* new-words board never misses it) and a mastered word as mastered.
MilestonesLogged ==
  \A w \in Vocabulary : Enrolled(w) =>
    /\ card[w].last # Never => log[w].wasNew >= 1
    /\ card[w].status = "mastered" => log[w].mastered >= 1

\* However requests interleave, the status is NEW exactly until the first
\* counted review: the session picker and the review queue agree on it.
NewIffUnreviewed ==
  \A w \in Vocabulary : Enrolled(w) =>
    (card[w].status = "new" <=> card[w].last = Never)

\* Enrolling a word again, in whatever order with its reviews, never takes a
\* reviewed row back to its fresh state; only deleting the word removes it.
ProgressNeverReset ==
  [][\A w \in Vocabulary : Enrolled(w) /\ card[w].last # Never /\ w \in present' =>
        Enrolled(w)' /\ card'[w].last # Never]_progressVars

\* Unless reviews of the word overlapped, a graduated card moves only once it
\* is due, and a success makes its interval longer: answering early, however
\* often, neither inflates nor restarts the schedule.
SpacingHonoured ==
  [][\A w \in Vocabulary :
       Enrolled(w) /\ Enrolled(w)' /\ ~raced'[w]
         /\ card[w].step = Graduated /\ card'[w] # card[w] =>
       /\ card'[w].last + Tolerance >= card[w].next
       /\ card'[w].step = Graduated => card'[w].interval > card[w].interval]_progressVars

(* What the comments promise without the proviso about overlapping requests. *)

\* "Append-only log of graded review events - one row per review" together
\* with progress.service.ts:322-324: the row's counters are the log's.
EveryReviewCounts ==
  \A w \in Vocabulary : Enrolled(w) =>
    card[w].correct + card[w].incorrect = log[w].correct + log[w].incorrect

\* user-word-progress.entity.ts:66-68 "Cards in step state use nextReviewAt
\* for minute-scale scheduling; intervalDays stays 0".
StepStateHasNoInterval ==
  \A w \in Vocabulary : Enrolled(w) /\ card[w].step # Graduated => card[w].interval = 0
=============================================================================
