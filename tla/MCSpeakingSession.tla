-------------------------- MODULE MCSpeakingSession --------------------------
(* Values for model-checking SpeakingSession. *)
EXTENDS SpeakingSession

CONSTANTS c1, c2, r1, r2, r3
=============================================================================
