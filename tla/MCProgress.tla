----------------------------- MODULE MCProgress -----------------------------
(* Values for model-checking Progress. *)
EXTENDS Progress

MCSteps == <<1, 10>>

\* A card one success short of mastery (38 * 2.50 = 95 days), due after 38 days.
MatureCard ==
  [status |-> "review", reps |-> 4, ease |-> 250, interval |-> 38, next |-> 54720,
   step |-> Graduated, last |-> 0, correct |-> 6, incorrect |-> 1]

MCInitialCards == {MatureCard}
=============================================================================
