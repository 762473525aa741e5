---------------------------- MODULE MCEnrichment -----------------------------
(* Values for model-checking Enrichment. *)
EXTENDS Enrichment, TLC

CONSTANTS q1, q2, k1, k2

Symmetry == Permutations(Requests) \cup Permutations(Runs)

MCDrafts == <<"noun", "verb">>
=============================================================================
