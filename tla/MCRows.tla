------------------------------- MODULE MCRows -------------------------------
(***************************************************************************)
(* Everything that is rows and requests without a queue or a language      *)
(* model, for TLC: the components of MCRecords or, as one more part, the   *)
(* schedule of a word (module Progress).  While another part runs the      *)
(* schedule stays where a learner without a card begins.  The same model   *)
(* values name the requests of all parts, so one symmetry serves them all. *)
(***************************************************************************)
EXTENDS MCRecords, MCProgress

RecordsOff == /\ AccountsOff /\ TokensOff /\ DecksOff /\ ScenariosOff /\ SensesOff
              /\ MediaOff /\ TextsOff /\ ReportsOff /\ BulkOff

RowsInit ==
  /\ ProgressInit
  /\ \/ Init /\ card = [w \in Vocabulary |-> NoCard]
     \/ part = "progress" /\ RecordsOff

RowsNext ==
  \/ Next /\ UNCHANGED progressVars
  \/ part = "progress" /\ ProgressNext /\ UNCHANGED vars

RowsSpec == RowsInit /\ [][RowsNext]_<<vars, progressVars>>
=============================================================================
