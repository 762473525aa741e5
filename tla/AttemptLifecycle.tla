-------------------------- MODULE AttemptLifecycle --------------------------
(***************************************************************************)
(* What a production attempt promises its author, whatever queue, worker   *)
(* and retries are behind it (scoring-status.enum.ts): it is pending until *)
(* it is scored or failed, that verdict never changes, and only deletion   *)
(* (a rolled back submission, a deleted word) takes the row away.          *)
(***************************************************************************)
CONSTANT Attempts
VARIABLE status      \* of each attempt's row; "none" before, "gone" after it

Init == status = [a \in Attempts |-> "none"]

Submit(a) == status[a] = "none" /\ status' = [status EXCEPT ![a] = "pending"]
Score(a)  == status[a] = "pending" /\ status' = [status EXCEPT ![a] = "scored"]
Fail(a)   == status[a] = "pending" /\ status' = [status EXCEPT ![a] = "failed"]

\* Rows go one by one (a roll-back) or many at once (ON DELETE CASCADE).
Remove ==
  \E A \in SUBSET {a \in Attempts : status[a] # "none"} :
    status' = [a \in Attempts |-> IF a \in A THEN "gone" ELSE status[a]]

Next == Remove \/ \E a \in Attempts : Submit(a) \/ Score(a) \/ Fail(a)

Spec == Init /\ [][Next]_status
=============================================================================
