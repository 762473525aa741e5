------------------------------- MODULE MCSenses -------------------------------
(* The senses of one word, for TLC. *)
EXTENDS Senses

CONSTANTS a, b

Symmetry == Permutations(SenseCalls)
=============================================================================
