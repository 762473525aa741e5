-------------------------------- MODULE Srs --------------------------------
(***************************************************************************)
(* The spaced-repetition arithmetic of src/src/progress/srs.ts: SM-2 with  *)
(* Anki-style learning steps, as pure operators on a card's schedule.      *)
(*                                                                         *)
(* Time is counted in minutes.  An ease factor is counted in hundredths:   *)
(* the column is numeric(4,2) and every SM-2 adjustment is a whole number  *)
(* of hundredths, so nothing is lost.  A product that ends in exactly .5   *)
(* is rounded up, as Math.round does; the binary representation error of   *)
(* the JavaScript product at such a tie is abstracted away.                *)
(***************************************************************************)
EXTENDS Integers, Sequences

CONSTANT LearningSteps   \* cfg.learningStepsMinutes

\* parseMinutesList keeps only positive entries and never returns [].
ASSUME LearningStepsAssumption ==
  /\ LearningSteps \in Seq(Nat \ {0})
  /\ LearningSteps # <<>>

MinutesPerDay == 1440
MasteredIntervalDays == 90
MinEase == 130
DefaultEase == 250

Qualities == 0..5
Statuses == {"new", "learning", "review", "mastered"}

Graduated == -1          \* learningStepIndex = null
StepIndexes == 0..(Len(LearningSteps) - 1)

\* What applySm2 returns.
Schedules ==
  [status: Statuses, reps: Nat, ease: Nat, interval: Nat,
   next: Nat, step: StepIndexes \cup {Graduated}]

Passed(q) == q >= 3

StepMinutes(i) == LearningSteps[i + 1]

\* 100 * (0.1 - (5 - q) * (0.08 + (5 - q) * 0.02))
EaseDelta(q) == 10 - (5 - q) * (8 + (5 - q) * 2)

UpdateEase(ease, q) ==
  IF ease + EaseDelta(q) > MinEase THEN ease + EaseDelta(q) ELSE MinEase

\* Math.round(intervalDays * easeFactor)
GrownInterval(interval, ease) == (interval * ease + 50) \div 100

InferStatus(reps, interval) ==
  IF interval >= MasteredIntervalDays THEN "mastered"
  ELSE IF reps >= 3 THEN "review"
  ELSE "learning"

-----------------------------------------------------------------------------

AtStep(reps, ease, i, now) ==
  [status |-> "learning", reps |-> reps, ease |-> ease, interval |-> 0,
   next |-> now + StepMinutes(i), step |-> i]

OnDayLadder(reps, ease, interval, now) ==
  [status |-> InferStatus(reps, interval), reps |-> reps, ease |-> ease,
   interval |-> interval, next |-> now + interval * MinutesPerDay,
   step |-> Graduated]

\* Mutants of ApplyStepState: graduation forgets to clear the step index; a
\* failed first review leaves the card NEW.
ApplyStepState_KeepsStep(c, ease, q, now) ==
  IF ~Passed(q) THEN AtStep(c.reps, ease, 0, now)
  ELSE IF c.step + 1 < Len(LearningSteps)
       THEN AtStep(c.reps, ease, c.step + 1, now)
       ELSE [OnDayLadder(1, ease, 1, now) EXCEPT !.step = c.step + 1]

ApplyStepState_FailureStaysNew(c, ease, q, now) ==
  IF ~Passed(q) THEN [AtStep(c.reps, ease, 0, now) EXCEPT !.status = c.status]
  ELSE OnDayLadder(1, ease, 1, now)

\* A card inside the learning steps: back to step 0, one step on, or graduated.
ApplyStepState(c, ease, q, now) ==
  IF ~Passed(q) THEN AtStep(c.reps, ease, 0, now)
  ELSE IF c.step + 1 < Len(LearningSteps)
       THEN AtStep(c.reps, ease, c.step + 1, now)
       ELSE OnDayLadder(1, ease, 1, now)

NextInterval(reps, interval, ease) ==
  CASE reps = 0 -> 1
    [] reps = 1 -> 6
    [] OTHER    -> GrownInterval(interval, ease)

\* Mutant of ApplySm2: a lapse goes back to the steps with its day interval.
ApplySm2_LapseKeepsInterval(c, q, now) ==
  LET ease == UpdateEase(c.ease, q) IN
  IF c.step # Graduated THEN ApplyStepState(c, ease, q, now)
  ELSE IF ~Passed(q) THEN [AtStep(0, ease, 0, now) EXCEPT !.interval = c.interval]
  ELSE OnDayLadder(c.reps + 1, ease, NextInterval(c.reps, c.interval, ease), now)

\* The new ease factor is computed first and scales the new interval.
ApplySm2(c, q, now) ==
  LET ease == UpdateEase(c.ease, q) IN
  IF c.step # Graduated THEN ApplyStepState(c, ease, q, now)
  ELSE IF ~Passed(q) THEN AtStep(0, ease, 0, now)
  ELSE OnDayLadder(c.reps + 1, ease, NextInterval(c.reps, c.interval, ease), now)
=============================================================================
