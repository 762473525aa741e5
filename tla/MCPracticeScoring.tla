-------------------------- MODULE MCPracticeScoring -------------------------
(* Values for model-checking PracticeScoring. *)
EXTENDS PracticeScoring

CONSTANTS a1, a2, k1, k2
=============================================================================
