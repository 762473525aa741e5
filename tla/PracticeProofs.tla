--------------------------- MODULE PracticeProofs ---------------------------
(***************************************************************************)
(* Proofs about PracticeScoring, for any number of attempts, runs, tries,  *)
(* stalls and faults.                                                      *)
(*                                                                         *)
(* The argument.  At most one run holds the lock of a job, and it does so  *)
(* exactly while the job is active, so only that run moves the job on.  A  *)
(* pending row therefore always has somebody left to decide it: its submit *)
(* call, its live job, or the UPDATE of its last failure; or one of those  *)
(* was cut off, and the attempt is in lost.                                *)
(***************************************************************************)
EXTENDS PracticeScoring, TLAPS, FiniteSetTheorems

Busy(k) == run[k].pc # "idle"
Live(a) == job[a].state \in {"waiting", "active", "delayed"}

\* The row follows its submit call, the job follows the row.
RowFollowsCall ==
  \A a \in Attempts :
    /\ call[a] \in {"idle", "admitted", "refused"} => status[a] = "none"
    /\ call[a] \in {"saved", "enqueueFailed"} => status[a] # "none"
    /\ call[a] = "saved" \/ status[a] = "none" => job[a] = NoJob

\* A job is held by at most one run, and only while it is active.
LockExclusive ==
  /\ \A k \in Runs : Busy(k) => job[run[k].attempt].state # "none"
  /\ \A k \in Runs : Busy(k) /\ run[k].lock => job[run[k].attempt].state = "active"
  /\ \A k, l \in Runs :
       Busy(k) /\ run[k].lock /\ Busy(l) /\ run[l].lock
         /\ run[k].attempt = run[l].attempt => k = l

\* What is recorded as failed, or about to be, has used up its tries.
FailuresFinal ==
  \A a \in Attempts :
    /\ Live(a) => job[a].made < MaxTries
    /\ status[a] = "failed" \/ a \in failing =>
         job[a].state = "dead" /\ job[a].made = MaxTries

\* Deleting the word has taken every row.
NoRowWithoutWord == ~wordExists => Stored = {}

SettledRunsDecided ==
  \A k \in Runs : Busy(k) /\ run[k].pc = "settled" => status[run[k].attempt] # "pending"

DoneJobsDecided ==
  \A a \in Attempts : job[a].state = "done" => status[a] # "pending"

\* Somebody is left to decide a pending attempt, or it was lost.
PendingTended ==
  \A a \in Attempts : status[a] = "pending" =>
    \/ call[a] \in {"saved", "enqueueFailed"}
    \/ Live(a)
    \/ a \in failing
    \/ a \in lost

IInv ==
  /\ TypeOK
  /\ RowFollowsCall
  /\ LockExclusive
  /\ FailuresFinal
  /\ NoRowWithoutWord
  /\ SettledRunsDecided
  /\ DoneJobsDecided
  /\ PendingTended

LEMMA RunTypes ==
  ASSUME TypeOK, NEW k \in Runs
  PROVE  /\ Busy(k) => run[k] \in Working /\ run[k].attempt \in Attempts
         /\ run[k] = Idle => ~Busy(k)
         /\ ~Busy(k) => run[k] = Idle
BY DEF TypeOK, Working, Idle, Busy

LEMMA IInvInit == Init => IInv
<1> SUFFICES ASSUME Init PROVE IInv
  OBVIOUS
<1>1. TypeOK
  <2>1. NoJob \in Jobs
    BY QueueAssumption DEF NoJob, Jobs
  <2>2. 0 \in 0..MaxFaults
    BY BoundsAssumption
  <2> QED BY <2>1, <2>2 DEF Init, TypeOK
<1>2. \A k \in Runs : ~Busy(k)
  BY DEF Init, Busy, Idle
<1>3. \A a \in Attempts : /\ status[a] = "none" /\ call[a] = "idle"
                          /\ job[a] = NoJob /\ ~Live(a)
                          /\ job[a].state = "none"
  BY DEF Init, NoJob, Live
<1>4. RowFollowsCall /\ FailuresFinal /\ DoneJobsDecided /\ PendingTended
  BY <1>3 DEF Init, RowFollowsCall, FailuresFinal, DoneJobsDecided, PendingTended
<1>5. LockExclusive /\ SettledRunsDecided
  BY <1>2 DEF LockExclusive, SettledRunsDecided
<1>6. NoRowWithoutWord
  BY DEF Init, NoRowWithoutWord
<1> QED BY <1>1, <1>4, <1>5, <1>6 DEF IInv

\* The API half of the system.
LEMMA ApiTypes ==
  ASSUME TypeOK, NEW a \in Attempts, ApiStep(a) \/ RollbackFails(a) \/ ApiCrash
  PROVE  TypeOK'
<1>1. CASE SubmitCheck(a)
  BY <1>1 DEF SubmitCheck, TypeOK
<1>2. CASE SubmitSave(a)
  BY <1>2 DEF SubmitSave, TypeOK
<1>3. CASE SubmitEnqueue(a) \/ SubmitEnqueueFails(a)
  BY <1>3 DEF SubmitEnqueue, SubmitEnqueueFails, TypeOK, Jobs
<1>4. CASE SubmitRollback(a)
  BY <1>4 DEF SubmitRollback, TypeOK
<1>5. CASE RollbackFails(a) \/ ApiCrash
  BY <1>5, BoundsAssumption DEF RollbackFails, ApiCrash, Fault, TypeOK
<1> QED BY <1>1, <1>2, <1>3, <1>4, <1>5 DEF ApiStep

LEMMA RunStepTypes ==
  ASSUME TypeOK, FailuresFinal, LockExclusive, NEW k \in Runs, RunStep(k) \/ LoseLock(k)
  PROVE  TypeOK'
<1>1. CASE Start(k)
  BY <1>1 DEF Start, TypeOK, Jobs, Working
<1>2. CASE ReadAttempt(k)
  <2>1. Busy(k)
    BY <1>2 DEF ReadAttempt, Busy
  <2> QED BY <1>2, <2>1, RunTypes DEF ReadAttempt, TypeOK, Working
<1>3. CASE ReadWord(k) \/ Store(k)
  <2>1. Busy(k)
    BY <1>3 DEF ReadWord, Store, Busy
  <2> QED BY <1>3, <2>1, RunTypes DEF ReadWord, Store, Settle, TypeOK, Working
<1>4. CASE Throw(k)
  <2>1. Busy(k)
    BY <1>4 DEF Throw, Busy
  <2>2. run[k].lock => job[run[k].attempt].made < MaxTries
    BY <2>1, RunTypes DEF LockExclusive, FailuresFinal, Live
  <2>3. job' \in [Attempts -> Jobs]
    BY <1>4, <2>1, <2>2, RunTypes, QueueAssumption DEF Throw, TypeOK, Jobs
  <2>4. failing' \in SUBSET Attempts /\ run' \in [Runs -> {Idle} \cup Working]
    BY <1>4, <2>1, RunTypes DEF Throw, OnFailed, TypeOK
  <2>5. UNCHANGED <<wordExists, status, call, faults, overlapped, lost>>
    BY <1>4 DEF Throw
  <2> QED BY <2>3, <2>4, <2>5 DEF TypeOK
<1>5. CASE Complete(k)
  <2>1. Busy(k)
    BY <1>5 DEF Complete, Busy
  <2> QED BY <1>5, <2>1, RunTypes DEF Complete, TypeOK, Jobs, Working
<1>6. CASE LoseLock(k)
  <2>1. Busy(k)
    BY <1>6 DEF LoseLock, Busy
  <2>2. run' \in [Runs -> {Idle} \cup Working]
    BY <1>6, <2>1, RunTypes DEF LoseLock, TypeOK, Working
  <2>3. faults' \in 0..MaxFaults
    BY <1>6, BoundsAssumption DEF LoseLock, Fault, TypeOK
  <2> QED BY <1>6, <2>2, <2>3 DEF LoseLock, TypeOK
<1> QED BY <1>1, <1>2, <1>3, <1>4, <1>5, <1>6 DEF RunStep

LEMMA QueueTypes ==
  ASSUME TypeOK, FailuresFinal, NEW a \in Attempts,
         QueueStep(a) \/ MarkFailed(a) \/ MarkFailedFails(a)
  PROVE  TypeOK'
<1>1. CASE Retry(a)
  BY <1>1 DEF Retry, TypeOK, Jobs
<1>2. CASE Stalled(a)
  <2>1. job[a].made < MaxTries
    BY <1>2 DEF Stalled, FailuresFinal, Live
  <2>2. job' \in [Attempts -> Jobs]
    BY <1>2, <2>1, QueueAssumption DEF Stalled, TypeOK, Jobs
  <2> QED BY <1>2, <2>2 DEF Stalled, OnFailed, TypeOK
<1>3. CASE MarkFailed(a)
  BY <1>3 DEF MarkFailed, Settle, TypeOK
<1>4. CASE MarkFailedFails(a)
  BY <1>4, BoundsAssumption DEF MarkFailedFails, Fault, TypeOK
<1> QED BY <1>1, <1>2, <1>3, <1>4 DEF QueueStep

LEMMA TypeStep ==
  ASSUME TypeOK, FailuresFinal, LockExclusive, [Next]_vars
  PROVE  TypeOK'
<1>1. CASE WorkerCrash
  BY <1>1, BoundsAssumption DEF WorkerCrash, Fault, TypeOK
<1>2. CASE DeleteWord
  BY <1>2 DEF DeleteWord, TypeOK
<1>3. CASE UNCHANGED vars
  BY <1>3 DEF vars, TypeOK
<1>4. CASE ApiCrash
  BY <1>4, BoundsAssumption DEF ApiCrash, Fault, TypeOK
<1> QED
  BY <1>1, <1>2, <1>3, <1>4, ApiTypes, RunStepTypes, QueueTypes DEF Next

-----------------------------------------------------------------------------
(* The invariant is inductive *)

LEMMA ApiSteps ==
  ASSUME IInv, TypeOK', NEW a \in Attempts, ApiStep(a) \/ RollbackFails(a)
  PROVE  IInv'
<1>0. TypeOK /\ UNCHANGED <<wordExists, run, failing>>
  BY DEF IInv, ApiStep, SubmitCheck, SubmitSave, SubmitEnqueue, SubmitEnqueueFails,
         SubmitRollback, RollbackFails
<1>1. ASSUME NEW b \in Attempts, b # a
      PROVE  /\ status'[b] = status[b] /\ call'[b] = call[b] /\ job'[b] = job[b]
             /\ b \in lost' <=> b \in lost
  BY <1>0, <1>1 DEF TypeOK, ApiStep, SubmitCheck, SubmitSave, SubmitEnqueue,
         SubmitEnqueueFails, SubmitRollback, RollbackFails
\* What the call may do to its own attempt.
<1>2. \/ /\ SubmitCheck(a)
         /\ call[a] = "idle" /\ call'[a] \in {"admitted", "refused"}
         /\ status'[a] = status[a] /\ job'[a] = job[a] /\ lost' = lost
      \/ /\ SubmitSave(a)
         /\ call[a] = "admitted"
         /\ wordExists
         /\ call'[a] = "saved" /\ status'[a] = "pending" /\ job'[a] = job[a]
         /\ lost' = lost
      \/ /\ SubmitSave(a)
         /\ call[a] = "admitted"
         /\ call'[a] = "error" /\ status'[a] = status[a] /\ job'[a] = job[a]
         /\ lost' = lost
      \/ /\ call[a] = "saved" /\ call'[a] \in {"accepted", "enqueueFailed"}
         /\ status'[a] = status[a]
         /\ job'[a] = [job[a] EXCEPT !.state = "waiting"]
         /\ lost' = lost
      \/ /\ call[a] = "saved" /\ call'[a] = "enqueueFailed"
         /\ status'[a] = status[a] /\ job'[a] = job[a] /\ lost' = lost
      \/ /\ call[a] = "enqueueFailed" /\ call'[a] = "error"
         /\ status'[a] = "gone" /\ job'[a] = job[a] /\ lost' = lost
      \/ /\ call[a] = "enqueueFailed" /\ call'[a] = "error"
         /\ status'[a] = status[a] /\ job'[a] = job[a]
         /\ job[a].state \in {"none", "dead"} => a \in lost'
         /\ lost \subseteq lost'
  BY <1>0 DEF TypeOK, ApiStep, SubmitCheck, SubmitSave, SubmitEnqueue,
         SubmitEnqueueFails, SubmitRollback, RollbackFails
<1>3. job[a] \in Jobs /\ job'[a] \in Jobs
  BY <1>0 DEF TypeOK
<1>4. /\ call[a] \in {"idle", "admitted"} => status[a] = "none"
      /\ call[a] \in {"idle", "admitted", "saved"} =>
           job[a] = NoJob /\ job[a].state = "none" /\ job[a].made = 0
  BY DEF IInv, RowFollowsCall, NoJob
<1>5. RowFollowsCall'
  BY <1>1, <1>2, <1>3, <1>4 DEF IInv, RowFollowsCall, Jobs
<1>6. LockExclusive'
  <2>1. ASSUME NEW k \in Runs, Busy(k)
        PROVE  /\ run[k].attempt \in Attempts
               /\ run[k].attempt = a => job'[a] = job[a]
    <3>1. run[k].attempt \in Attempts /\ job[run[k].attempt].state # "none"
      BY <1>0, <2>1, RunTypes DEF IInv, LockExclusive
    <3> QED BY <1>2, <1>4, <3>1
  <2> QED BY <1>0, <1>1, <2>1 DEF IInv, LockExclusive, Busy
<1>7. FailuresFinal'
  <2>1. a \in failing => job[a].state = "dead"
    BY DEF IInv, FailuresFinal
  <2>2. call[a] = "saved" => status[a] # "failed" /\ a \notin failing
    BY <1>4 DEF IInv, FailuresFinal
  <2>3. call[a] = "saved" => job[a].made < MaxTries
    BY <1>4, QueueAssumption
  <2> QED BY <1>0, <1>1, <1>2, <1>3, <1>4, <2>1, <2>2, <2>3
          DEF IInv, FailuresFinal, Live, Jobs
<1>8. NoRowWithoutWord'
  BY <1>0, <1>1, <1>2 DEF IInv, NoRowWithoutWord, Stored
<1>9. SettledRunsDecided'
  <2>1. ASSUME NEW k \in Runs, Busy(k)
        PROVE  /\ run[k].attempt \in Attempts
               /\ status'[run[k].attempt] \in {status[run[k].attempt], "gone"}
    <3>1. run[k].attempt \in Attempts /\ job[run[k].attempt].state # "none"
      BY <1>0, <2>1, RunTypes DEF IInv, LockExclusive
    <3> QED BY <1>1, <1>2, <1>4, <3>1
  <2> QED BY <1>0, <2>1 DEF IInv, SettledRunsDecided, Busy
<1>10. DoneJobsDecided'
  BY <1>1, <1>2, <1>3, <1>4 DEF IInv, DoneJobsDecided, Jobs
<1>11. PendingTended'
  BY <1>0, <1>1, <1>2, <1>3, <1>4 DEF IInv, PendingTended, DoneJobsDecided, Live, Jobs
<1> QED BY <1>5, <1>6, <1>7, <1>8, <1>9, <1>10, <1>11 DEF IInv

\* Steps of a run that leave rows and jobs alone.
LEMMA QuietRunStep ==
  ASSUME IInv, TypeOK', NEW k \in Runs, Busy(k),
         UNCHANGED <<wordExists, status, call, job, failing, lost>>,
         \A l \in Runs : l # k => run'[l] = run[l],
         run'[k].attempt = run[k].attempt,
         run'[k].lock => run[k].lock,
         run'[k].pc = "settled" => status[run[k].attempt] # "pending"
  PROVE  IInv'
<1>1. RowFollowsCall' /\ FailuresFinal' /\ NoRowWithoutWord' /\ DoneJobsDecided' /\ PendingTended'
  BY DEF IInv, RowFollowsCall, FailuresFinal, NoRowWithoutWord, DoneJobsDecided,
         PendingTended, Live, Stored
<1>2. LockExclusive' /\ SettledRunsDecided'
  BY DEF IInv, LockExclusive, SettledRunsDecided, Busy
<1> QED BY <1>1, <1>2 DEF IInv

LEMMA StartStep ==
  ASSUME IInv, TypeOK', NEW k \in Runs, Start(k)
  PROVE  IInv'
<1>0. TypeOK /\ UNCHANGED <<wordExists, status, call, failing, lost>>
  BY DEF IInv, Start
<1>1. PICK a \in Attempts :
        /\ job[a].state = "waiting"
        /\ job' = [job EXCEPT ![a].state = "active"]
        /\ run' = [run EXCEPT ![k] = [pc |-> "started", attempt |-> a, lock |-> TRUE]]
  BY DEF Start
<1>2. /\ job'[a] = [job[a] EXCEPT !.state = "active"] /\ job[a] \in Jobs
      /\ \A b \in Attempts : b # a => job'[b] = job[b]
      /\ run'[k] = [pc |-> "started", attempt |-> a, lock |-> TRUE]
      /\ \A l \in Runs : l # k => run'[l] = run[l]
  BY <1>0, <1>1 DEF TypeOK
<1>3. RowFollowsCall'
  <2>1. ~(call[a] = "saved" \/ status[a] = "none")
    BY <1>1 DEF IInv, RowFollowsCall, NoJob
  <2> QED BY <1>0, <1>2, <2>1 DEF IInv, RowFollowsCall
<1>4. LockExclusive'
  <2>1. ASSUME NEW l \in Runs, l # k, Busy(l)'
        PROVE  /\ Busy(l) /\ run'[l] = run[l] /\ run[l].attempt \in Attempts
               /\ run[l].lock => run[l].attempt # a
    BY <1>0, <1>1, <1>2, <2>1, RunTypes DEF IInv, LockExclusive, Busy
  <2> QED BY <1>2, <2>1 DEF IInv, LockExclusive, Busy, Jobs
<1>5. FailuresFinal'
  BY <1>0, <1>1, <1>2 DEF IInv, FailuresFinal, Live, Jobs
<1>6. NoRowWithoutWord' /\ DoneJobsDecided' /\ PendingTended'
  BY <1>0, <1>2 DEF IInv, NoRowWithoutWord, DoneJobsDecided, PendingTended, Live, Stored, Jobs
<1>7. SettledRunsDecided'
  BY <1>0, <1>2 DEF IInv, SettledRunsDecided, Busy
<1> QED BY <1>3, <1>4, <1>5, <1>6, <1>7 DEF IInv

\* A verdict written by a run.
LEMMA StoreStep ==
  ASSUME IInv, TypeOK', NEW k \in Runs, Store(k)
  PROVE  IInv'
<1> DEFINE a == run[k].attempt
<1>0. /\ TypeOK /\ Busy(k) /\ a \in Attempts
      /\ UNCHANGED <<wordExists, call, job, failing, lost>>
  BY RunTypes DEF IInv, Store, Busy
<1>1. /\ \A b \in Attempts : b # a => status'[b] = status[b]
      /\ status[a] = "pending" => status'[a] = "scored"
      /\ status[a] # "pending" => status'[a] = status[a]
      /\ run'[k] = [run[k] EXCEPT !.pc = "settled"] /\ run[k] \in Working
      /\ \A l \in Runs : l # k => run'[l] = run[l]
  BY <1>0, RunTypes DEF Store, Settle, TypeOK
<1>2. /\ Busy(k)' /\ run'[k].attempt = a /\ run'[k].lock = run[k].lock
      /\ \A l \in Runs : Busy(l)' => Busy(l) /\ run'[l].attempt = run[l].attempt
                                     /\ run'[l].lock = run[l].lock
  BY <1>0, <1>1 DEF Busy, Working
<1>3. \A b \in Attempts : /\ status'[b] = "none" <=> status[b] = "none"
                          /\ status'[b] = "failed" => status[b] = "failed"
                          /\ status'[b] = "pending" => status[b] = "pending" /\ b # a
  BY <1>1
<1>4. RowFollowsCall' /\ FailuresFinal' /\ DoneJobsDecided' /\ PendingTended'
  BY <1>0, <1>3 DEF IInv, RowFollowsCall, FailuresFinal, DoneJobsDecided, PendingTended, Live
<1>5. LockExclusive'
  BY <1>0, <1>2 DEF IInv, LockExclusive
<1>6. NoRowWithoutWord'
  BY <1>0, <1>1 DEF IInv, NoRowWithoutWord, Stored
<1>7. SettledRunsDecided'
  <2> SUFFICES ASSUME NEW l \in Runs, Busy(l)', run'[l].pc = "settled"
               PROVE  status'[run'[l].attempt] # "pending"
    BY DEF SettledRunsDecided
  <2>1. run[l].attempt \in Attempts /\ run'[l].attempt = run[l].attempt
    BY <1>0, <1>2, RunTypes
  <2>2. l # k => run[l].pc = "settled" /\ Busy(l)
    BY <1>1, <1>2
  <2> QED BY <1>0, <1>3, <2>1, <2>2 DEF IInv, SettledRunsDecided
<1> QED BY <1>4, <1>5, <1>6, <1>7 DEF IInv

\* The run ends; with the lock, it also moves the job on.
LEMMA EndStep ==
  ASSUME IInv, TypeOK', NEW k \in Runs, Throw(k) \/ Complete(k)
  PROVE  IInv'
<1>b. TypeOK /\ Busy(k)
  BY DEF IInv, Throw, Complete, Busy
<1>c. PICK a \in Attempts : a = run[k].attempt
  BY <1>b, RunTypes
<1>0. /\ TypeOK /\ Busy(k) /\ a = run[k].attempt /\ job[a] \in Jobs
      /\ UNCHANGED <<wordExists, status, call, lost>>
  BY <1>b, <1>c DEF Throw, Complete, TypeOK
<1>1. /\ ~Busy(k)' /\ \A l \in Runs : l # k => run'[l] = run[l]
      /\ \A b \in Attempts : b # a => job'[b] = job[b] /\ (b \in failing' <=> b \in failing)
  BY <1>0 DEF TypeOK, Throw, Complete, OnFailed, Busy, Idle
<1>2. ~run[k].lock => UNCHANGED <<job, failing>>
  BY <1>0 DEF Throw, Complete
<1>3. run[k].lock => /\ job[a].state = "active" /\ job[a].made < MaxTries
                     /\ status[a] # "failed" /\ a \notin failing /\ status[a] # "none"
                     /\ call[a] # "saved"
  BY <1>0 DEF IInv, LockExclusive, FailuresFinal, Live, RowFollowsCall, NoJob
<1>a. job[a].made \in Nat /\ MaxTries \in Nat
  BY <1>0, QueueAssumption DEF Jobs
<1>4. run[k].lock =>
        \/ /\ job'[a].state = "done" /\ job'[a].made = job[a].made
           /\ failing' = failing /\ status[a] # "pending"
        \/ /\ job'[a].state = "delayed" /\ job'[a].made < MaxTries
           /\ failing' = failing
        \/ /\ job'[a].state = "dead" /\ job'[a].made = MaxTries
           /\ failing' = failing \cup {a}
  <2>1. CASE Complete(k)
    <3>1. status[a] # "pending" /\ failing' = failing
      BY <1>0, <2>1 DEF IInv, Complete, SettledRunsDecided
    <3>2. run[k].lock => job'[a].state = "done" /\ job'[a].made = job[a].made
      BY <1>0, <2>1 DEF Complete, TypeOK, Jobs
    <3> QED BY <3>1, <3>2
  <2>2. CASE Throw(k)
    <3> SUFFICES ASSUME run[k].lock
                 PROVE  \/ /\ job'[a].state = "delayed" /\ job'[a].made < MaxTries
                           /\ failing' = failing
                        \/ /\ job'[a].state = "dead" /\ job'[a].made = MaxTries
                           /\ failing' = failing \cup {a}
      OBVIOUS
    <3> DEFINE m == job[a].made + 1
    <3>1. m \in Nat /\ m <= MaxTries
      BY <1>3, <1>a
    <3>2. /\ job' = [job EXCEPT ![a].made = m,
                                ![a].state = IF m < MaxTries THEN "delayed" ELSE "dead"]
          /\ failing' = IF ~(m < MaxTries) THEN failing \cup {a} ELSE failing
      BY <1>0, <2>2 DEF Throw, OnFailed, TriesLeft, Exhausted
    <3>3. /\ job'[a].made = m
          /\ job'[a].state = IF m < MaxTries THEN "delayed" ELSE "dead"
      BY <1>0, <3>2 DEF TypeOK, Jobs
    <3>4. CASE m < MaxTries
      BY <3>2, <3>3, <3>4
    <3>5. CASE ~(m < MaxTries)
      <4>1. m = MaxTries
        BY <1>a, <3>1, <3>5
      <4> QED BY <3>2, <3>3, <3>5, <4>1
    <3> QED BY <3>4, <3>5
  <2> QED BY <2>1, <2>2
<1>5. RowFollowsCall'
  BY <1>0, <1>1, <1>2, <1>3 DEF IInv, RowFollowsCall
<1>6. LockExclusive'
  <2>1. ASSUME NEW l \in Runs, Busy(l)'
        PROVE  /\ l # k /\ Busy(l) /\ run'[l] = run[l] /\ run[l].attempt \in Attempts
               /\ run[l].lock /\ run[k].lock => run[l].attempt # a
    BY <1>0, <1>1, <2>1, RunTypes DEF IInv, LockExclusive, Busy
  <2>2. job'[a].state # "none"
    BY <1>0, <1>2, <1>4 DEF IInv, LockExclusive, Jobs
  <2> QED BY <1>0, <1>1, <1>2, <2>1, <2>2 DEF IInv, LockExclusive
<1>7. FailuresFinal'
  <2>1. Live(a)' => job'[a].made < MaxTries
    BY <1>2, <1>4 DEF IInv, FailuresFinal, Live
  <2>2. status[a] = "failed" \/ a \in failing' =>
          job'[a].state = "dead" /\ job'[a].made = MaxTries
    <3>1. CASE run[k].lock
      BY <1>3, <1>4, <3>1
    <3>2. CASE ~run[k].lock
      BY <1>0, <1>2, <3>2 DEF IInv, FailuresFinal
    <3> QED BY <3>1, <3>2
  <2> QED BY <1>0, <1>1, <2>1, <2>2 DEF IInv, FailuresFinal, Live
<1>8. NoRowWithoutWord'
  BY <1>0 DEF IInv, NoRowWithoutWord, Stored
<1>9. SettledRunsDecided'
  BY <1>0, <1>1 DEF IInv, SettledRunsDecided, Busy
<1>10. DoneJobsDecided'
  BY <1>0, <1>1, <1>2, <1>4 DEF IInv, DoneJobsDecided, Jobs
<1>11. PendingTended'
  <2>1. status[a] = "pending" =>
          \/ call[a] \in {"saved", "enqueueFailed"}
          \/ Live(a)' \/ a \in failing' \/ a \in lost
    <3>1. CASE run[k].lock
      BY <1>4, <3>1 DEF Live
    <3>2. CASE ~run[k].lock
      BY <1>0, <1>2, <3>2 DEF IInv, PendingTended, Live
    <3> QED BY <3>1, <3>2
  <2> QED BY <1>0, <1>1, <2>1 DEF IInv, PendingTended, Live
<1> QED BY <1>5, <1>6, <1>7, <1>8, <1>9, <1>10, <1>11 DEF IInv

LEMMA ReadSteps ==
  ASSUME IInv, TypeOK', NEW k \in Runs, ReadAttempt(k) \/ ReadWord(k) \/ LoseLock(k)
  PROVE  IInv'
<1>0. /\ TypeOK /\ Busy(k) /\ run[k] \in Working /\ run[k].attempt \in Attempts
      /\ UNCHANGED <<wordExists, call, job, failing, lost>>
  BY RunTypes DEF IInv, ReadAttempt, ReadWord, LoseLock, Busy
\* A missing word has taken the row along, so there is nothing to settle.
<1>1. status' = status
  <2>1. CASE ReadWord(k)
    <3>1. ~wordExists => status[run[k].attempt] # "pending"
      BY <1>0 DEF IInv, NoRowWithoutWord, Stored
    <3> QED BY <2>1, <3>1 DEF ReadWord, Settle
  <2> QED BY <2>1 DEF ReadAttempt, LoseLock
<1>2. /\ \A l \in Runs : l # k => run'[l] = run[l]
      /\ run'[k].attempt = run[k].attempt
      /\ run'[k].lock => run[k].lock
  BY <1>0 DEF ReadAttempt, ReadWord, LoseLock, TypeOK, Working
<1>3. run'[k].pc = "settled" => status[run[k].attempt] # "pending"
  <2>1. CASE ReadAttempt(k)
    BY <1>0, <2>1 DEF ReadAttempt, TypeOK, Working
  <2>2. CASE ReadWord(k)
    BY <1>0, <2>2 DEF IInv, NoRowWithoutWord, Stored, ReadWord, TypeOK, Working
  <2>3. CASE LoseLock(k)
    BY <1>0, <2>3 DEF IInv, SettledRunsDecided, LoseLock, TypeOK, Working
  <2> QED BY <2>1, <2>2, <2>3
<1> QED BY <1>0, <1>1, <1>2, <1>3, QuietRunStep

\* The queue's timers, and the UPDATE of the last failure.
LEMMA QueueSteps ==
  ASSUME IInv, TypeOK', NEW a \in Attempts,
         Retry(a) \/ Stalled(a) \/ MarkFailed(a) \/ MarkFailedFails(a)
  PROVE  IInv'
<1>0. /\ TypeOK /\ UNCHANGED <<wordExists, call, run>>
      /\ job[a] \in Jobs
  BY DEF IInv, Retry, Stalled, MarkFailed, MarkFailedFails, TypeOK
<1>1. ASSUME NEW b \in Attempts, b # a
      PROVE  /\ status'[b] = status[b] /\ job'[b] = job[b]
             /\ (b \in failing' <=> b \in failing) /\ (b \in lost' <=> b \in lost)
  BY <1>0, <1>1 DEF TypeOK, Retry, Stalled, MarkFailed, MarkFailedFails, Settle, OnFailed
<1>a. job[a].made \in Nat /\ MaxTries \in Nat
  BY <1>0, QueueAssumption DEF Jobs
\* What happens to this attempt.
<1>2. \/ /\ job[a].state = "delayed" \/ (job[a].state = "active" /\ ~Holds(a))
         /\ job'[a].state = "waiting" /\ job'[a].made = job[a].made
         /\ status' = status /\ failing' = failing /\ lost' = lost
      \/ /\ job[a].state = "active" /\ ~Holds(a)
         /\ job'[a].state = "dead" /\ status' = status
         /\ \/ a \in lost' /\ failing' = failing
            \/ job'[a].made = MaxTries /\ failing' = failing \cup {a}
      \/ /\ job' = job /\ a \in failing /\ failing' = failing \ {a} /\ lost' = lost
         /\ status'[a] = IF status[a] = "pending" THEN "failed" ELSE status[a]
      \/ /\ job' = job /\ a \in failing /\ failing' = failing \ {a} /\ a \in lost'
         /\ status' = status
  <2>1. CASE Retry(a)
    BY <1>0, <2>1 DEF Retry, TypeOK, Jobs
  <2>2. CASE Stalled(a) /\ job[a].stalls < MaxStalls
    BY <1>0, <2>2 DEF Stalled, TypeOK, Jobs
  <2>3. CASE Stalled(a) /\ ~(job[a].stalls < MaxStalls)
    <3>1. PICK made \in {job[a].made, job[a].made + 1} :
            /\ job' = [job EXCEPT ![a].state = "dead", ![a].made = made]
            /\ failing' = IF ~(made < MaxTries) THEN failing \cup {a} ELSE failing
            /\ lost' = IF ~(made < MaxTries) THEN lost ELSE lost \cup {a}
      BY <2>3 DEF Stalled, OnFailed, Exhausted
    <3>2. job[a].made < MaxTries
      BY <2>3 DEF Stalled, IInv, FailuresFinal, Live
    <3>3. job'[a].state = "dead" /\ job'[a].made = made
      BY <1>0, <3>1 DEF TypeOK, Jobs
    <3>4. made < MaxTries \/ made = MaxTries
      BY <1>a, <3>2
    <3>5. ~(MaxTries < MaxTries)
      BY <1>a
    <3> QED BY <2>3, <3>1, <3>3, <3>4, <3>5 DEF Stalled
  <2>4. CASE MarkFailed(a)
    BY <1>0, <2>4 DEF MarkFailed, Settle, TypeOK
  <2>5. CASE MarkFailedFails(a)
    BY <2>5 DEF MarkFailedFails
  <2> QED BY <2>1, <2>2, <2>3, <2>4, <2>5
<1>3. Live(a) => job[a].made < MaxTries /\ status[a] # "failed" /\ a \notin failing
                 /\ status[a] # "none" /\ call[a] # "saved"
  BY DEF IInv, FailuresFinal, Live, RowFollowsCall, NoJob
<1>4. a \in failing \/ status[a] = "failed" =>
        job[a].state = "dead" /\ job[a].made = MaxTries
  BY DEF IInv, FailuresFinal
<1>5. status'[a] = "none" <=> status[a] = "none"
  BY <1>2
<1>6. RowFollowsCall'
  <2>1. job'[a] = job[a] \/ Live(a)
    BY <1>2 DEF Live
  <2> QED BY <1>0, <1>1, <1>3, <1>5, <2>1 DEF IInv, RowFollowsCall
<1>7. LockExclusive'
  <2>1. ASSUME NEW k \in Runs, Busy(k), run[k].attempt = a
        PROVE  job'[a].state # "none" /\ (run[k].lock => job'[a] = job[a])
    BY <1>2, <2>1 DEF IInv, LockExclusive, Holds, Busy
  <2>2. \A k \in Runs : Busy(k) => run[k].attempt \in Attempts
    BY <1>0, RunTypes
  <2> QED BY <1>0, <1>1, <2>1, <2>2 DEF IInv, LockExclusive, Busy
<1>8. FailuresFinal'
  <2>1. Live(a)' => job'[a].made < MaxTries
    BY <1>2, <1>3, <1>4 DEF Live
  <2>2. status'[a] = "failed" \/ a \in failing' =>
          job'[a].state = "dead" /\ job'[a].made = MaxTries
    BY <1>2, <1>3, <1>4 DEF Live
  <2> QED BY <1>1, <2>1, <2>2 DEF IInv, FailuresFinal, Live
<1>9. NoRowWithoutWord'
  BY <1>0, <1>1, <1>2 DEF IInv, NoRowWithoutWord, Stored
<1>10. SettledRunsDecided' /\ DoneJobsDecided'
  <2>1. status'[a] = "pending" => status[a] = "pending"
    BY <1>2
  <2>2. job'[a].state = "done" => job[a].state = "done"
    BY <1>2
  <2>3. \A k \in Runs : Busy(k) => run[k].attempt \in Attempts
    BY <1>0, RunTypes
  <2> QED BY <1>0, <1>1, <2>1, <2>2, <2>3 DEF IInv, SettledRunsDecided, DoneJobsDecided, Busy
<1>11. PendingTended'
  <2>1. status'[a] = "pending" =>
          \/ call[a] \in {"saved", "enqueueFailed"}
          \/ Live(a)' \/ a \in failing' \/ a \in lost'
    BY <1>2 DEF Live
  <2> QED BY <1>0, <1>1, <2>1 DEF IInv, PendingTended, Live
<1> QED BY <1>6, <1>7, <1>8, <1>9, <1>10, <1>11 DEF IInv

LEMMA CrashSteps ==
  ASSUME IInv, TypeOK', WorkerCrash \/ ApiCrash \/ DeleteWord
  PROVE  IInv'
<1>0. TypeOK /\ job' = job
  BY DEF IInv, WorkerCrash, ApiCrash, DeleteWord
<1>1. CASE WorkerCrash
  <2>1. /\ \A k \in Runs : ~Busy(k)'
        /\ UNCHANGED <<wordExists, status, call>>
        /\ failing' = {} /\ failing \subseteq lost' /\ lost \subseteq lost'
    BY <1>1 DEF WorkerCrash, Busy, Idle
  <2>2. RowFollowsCall' /\ FailuresFinal' /\ NoRowWithoutWord' /\ DoneJobsDecided'
    BY <1>0, <2>1 DEF IInv, RowFollowsCall, FailuresFinal, NoRowWithoutWord,
         DoneJobsDecided, Live, Stored
  <2>3. PendingTended'
    BY <1>0, <2>1 DEF IInv, PendingTended, Live
  <2>4. LockExclusive' /\ SettledRunsDecided'
    BY <2>1 DEF LockExclusive, SettledRunsDecided
  <2> QED BY <2>2, <2>3, <2>4 DEF IInv
<1>2. CASE ApiCrash
  <2>1. UNCHANGED <<wordExists, status, run, failing>>
    BY <1>2 DEF ApiCrash
  <2>2. ASSUME NEW a \in Attempts
        PROVE  /\ call'[a] = IF a \in InFlight THEN "error" ELSE call[a]
               /\ a \in lost => a \in lost'
               /\ call[a] \in {"saved", "enqueueFailed"} /\ job[a].state \in {"none", "dead"}
                    => a \in lost'
    BY <1>2 DEF ApiCrash
  <2>3. RowFollowsCall'
    BY <1>0, <2>1, <2>2 DEF IInv, RowFollowsCall, InFlight
  <2>4. LockExclusive' /\ SettledRunsDecided'
    BY <1>0, <2>1 DEF IInv, LockExclusive, SettledRunsDecided, Busy
  <2>5. FailuresFinal' /\ NoRowWithoutWord' /\ DoneJobsDecided'
    BY <1>0, <2>1 DEF IInv, FailuresFinal, NoRowWithoutWord, DoneJobsDecided, Live, Stored
  <2>6. PendingTended'
    <3> SUFFICES ASSUME NEW a \in Attempts, status[a] = "pending"
                 PROVE  Live(a)' \/ a \in failing' \/ a \in lost'
      BY <2>1 DEF PendingTended
    <3>1. job[a].state \in {"none", "waiting", "active", "delayed", "done", "dead"}
      BY <1>0 DEF TypeOK, Jobs
    <3>2. job[a].state # "done"
      BY DEF IInv, DoneJobsDecided
    <3> QED BY <1>0, <2>1, <2>2, <3>1, <3>2 DEF IInv, PendingTended, Live
  <2> QED BY <2>3, <2>4, <2>5, <2>6 DEF IInv
<1>3. CASE DeleteWord
  <2>1. UNCHANGED <<call, run, failing, lost>>
    BY <1>3 DEF DeleteWord
  <2>2. ASSUME NEW a \in Attempts
        PROVE  /\ status'[a] = "none" <=> status[a] = "none"
               /\ status'[a] \notin {"pending", "scored", "failed"}
    BY <1>0, <1>3 DEF DeleteWord, Stored, TypeOK
  <2>3. \A k \in Runs : Busy(k) => run[k].attempt \in Attempts
    BY <1>0, RunTypes
  <2>4. RowFollowsCall' /\ FailuresFinal' /\ DoneJobsDecided' /\ PendingTended'
    BY <1>0, <2>1, <2>2 DEF IInv, RowFollowsCall, FailuresFinal, DoneJobsDecided,
         PendingTended, Live
  <2>5. LockExclusive' /\ SettledRunsDecided'
    BY <1>0, <2>1, <2>2, <2>3 DEF IInv, LockExclusive, SettledRunsDecided, Busy
  <2>6. NoRowWithoutWord'
    BY <2>2 DEF NoRowWithoutWord, Stored
  <2> QED BY <2>4, <2>5, <2>6 DEF IInv
<1> QED BY <1>1, <1>2, <1>3

LEMMA IInvStep == IInv /\ [Next]_vars => IInv'
<1> SUFFICES ASSUME IInv, [Next]_vars PROVE IInv'
  OBVIOUS
<1>1. TypeOK'
  BY TypeStep DEF IInv
<1>2. CASE UNCHANGED vars
  BY <1>2 DEF vars, IInv, TypeOK, RowFollowsCall, LockExclusive, FailuresFinal,
       NoRowWithoutWord, SettledRunsDecided, DoneJobsDecided, PendingTended,
       Stored, Busy, Live
<1>3. ASSUME NEW a \in Attempts,
             \/ ApiStep(a) \/ QueueStep(a) \/ MarkFailed(a)
             \/ RollbackFails(a) \/ MarkFailedFails(a)
      PROVE  IInv'
  BY <1>1, <1>3, ApiSteps, QueueSteps DEF QueueStep
<1>4. ASSUME NEW k \in Runs, RunStep(k) \/ LoseLock(k)
      PROVE  IInv'
  BY <1>1, <1>4, StartStep, StoreStep, EndStep, ReadSteps DEF RunStep
<1>5. CASE WorkerCrash \/ ApiCrash \/ DeleteWord
  BY <1>1, <1>5, CrashSteps
<1> QED BY <1>2, <1>3, <1>4, <1>5 DEF Next

LEMMA Invariance == Spec => []IInv
BY IInvInit, IInvStep, PTL DEF Spec

-----------------------------------------------------------------------------
(* The theorems *)

\* Every variable keeps its type: in particular made never passes the job's
\* opts.attempts and stalls never passes maxStalledCount.
THEOREM TypeCorrect == Spec => []TypeOK
<1>1. IInv => TypeOK
  BY DEF IInv
<1> QED BY <1>1, Invariance, PTL

\* onFailed and markFailed (scoring.processor.ts 104-128) record a failure only
\* once the job's tries are used up, however many runs, lost locks, stalls and
\* crashes there were.
THEOREM FailedIsFinal == Spec => []FailedOnlyAfterRetries
<1>1. IInv => FailedOnlyAfterRetries
  BY DEF IInv, FailuresFinal, FailedOnlyAfterRetries
<1> QED BY <1>1, Invariance, PTL

\* The submit call's roll-back and the worker's guarded writes leave no pending
\* row without somebody to decide it, outside the four windows of OrphanOnlyIfLost.
THEOREM OrphansAreLost == Spec => []OrphanOnlyIfLost
<1>1. IInv => OrphanOnlyIfLost
  <2> SUFFICES ASSUME IInv, NEW a \in Attempts, Orphan(a) PROVE a \in lost
    BY DEF OrphanOnlyIfLost
  <2>1. /\ status[a] = "pending" /\ call[a] \notin {"saved", "enqueueFailed"}
        /\ ~Live(a) /\ a \notin failing
    BY DEF Orphan, Live
  <2> QED BY <2>1 DEF IInv, PendingTended
<1> QED BY <1>1, Invariance, PTL

\* Every write of the API and of the worker to production_attempts is a step of
\* an attempt's life, or none: one verdict, never revised.
THEOREM Refinement == Spec => ImplementsLifecycle
<1>1. Init => Lifecycle!Init
  BY DEF Init, Lifecycle!Init
<1>2. IInv /\ [Next]_vars => [Lifecycle!Next]_status
  <2> SUFFICES ASSUME IInv, Next, status' # status PROVE Lifecycle!Next
    BY DEF vars
  <2>0. TypeOK
    BY DEF IInv
  <2>1. ASSUME NEW a \in Attempts, SubmitSave(a)
        PROVE  Lifecycle!Next
    <3>1. status[a] = "none" /\ status' = [status EXCEPT ![a] = "pending"]
      BY <2>1 DEF SubmitSave, IInv, RowFollowsCall
    <3> QED BY <3>1 DEF Lifecycle!Next, Lifecycle!Submit
  <2>2. ASSUME NEW A \in SUBSET Attempts, \A a \in A : status[a] # "none",
               status' = [a \in Attempts |-> IF a \in A THEN "gone" ELSE status[a]]
        PROVE  Lifecycle!Next
    BY <2>2 DEF Lifecycle!Next, Lifecycle!Remove
  <2>3. ASSUME NEW a \in Attempts, SubmitRollback(a)
        PROVE  Lifecycle!Next
    <3>1. \A b \in {a} : status[b] # "none"
      BY <2>3 DEF SubmitRollback, IInv, RowFollowsCall
    <3>2. status' = [b \in Attempts |-> IF b \in {a} THEN "gone" ELSE status[b]]
      BY <2>0, <2>3 DEF SubmitRollback, TypeOK
    <3>3. {a} \in SUBSET Attempts
      OBVIOUS
    <3> QED BY <2>2, <3>1, <3>2, <3>3 DEF Lifecycle!Next, Lifecycle!Remove
  <2>4. CASE DeleteWord
    <3>1. \A a \in Stored : status[a] # "none"
      BY DEF Stored
    <3> QED BY <2>2, <2>4, <3>1 DEF DeleteWord, Stored
  <2>5. ASSUME NEW k \in Runs, ReadWord(k) \/ Store(k)
        PROVE  Lifecycle!Next
    <3>1. run[k].attempt \in Attempts
      BY <2>0, <2>5, RunTypes DEF ReadWord, Store, Busy
    <3> QED BY <2>5, <3>1 DEF ReadWord, Store, Settle, Lifecycle!Next,
         Lifecycle!Score, Lifecycle!Fail
  <2>6. ASSUME NEW a \in Attempts, MarkFailed(a)
        PROVE  Lifecycle!Next
    BY <2>6 DEF MarkFailed, Settle, Lifecycle!Next, Lifecycle!Fail
  <2>7. ASSUME NEW a \in Attempts,
               \/ SubmitCheck(a) \/ SubmitEnqueue(a) \/ SubmitEnqueueFails(a)
               \/ Retry(a) \/ Stalled(a) \/ RollbackFails(a) \/ MarkFailedFails(a)
        PROVE  FALSE
    BY <2>7 DEF SubmitCheck, SubmitEnqueue, SubmitEnqueueFails, Retry, Stalled,
         RollbackFails, MarkFailedFails
  <2>8. ASSUME NEW k \in Runs,
               Start(k) \/ ReadAttempt(k) \/ Throw(k) \/ Complete(k) \/ LoseLock(k)
        PROVE  FALSE
    BY <2>8 DEF Start, ReadAttempt, Throw, Complete, LoseLock
  <2>9. ~ApiCrash /\ ~WorkerCrash
    BY DEF ApiCrash, WorkerCrash
  <2> QED
    BY <2>1, <2>3, <2>4, <2>5, <2>6, <2>7, <2>8, <2>9 DEF Next, ApiStep, RunStep, QueueStep
<1> QED BY <1>1, <1>2, Invariance, PTL DEF Spec, ImplementsLifecycle, Lifecycle!Spec

\* While no two submits passed the check side by side, the one call that has
\* passed it found room for its row.
CapInv ==
  ~overlapped =>
    /\ Cardinality(Stored) <= Cap
    /\ \A a \in Attempts : call[a] = "admitted" => Cardinality(Stored) < Cap
    /\ \A a, b \in Attempts : call[a] = "admitted" /\ call[b] = "admitted" => a = b

LEMMA StoredFinite ==
  /\ IsFiniteSet(Stored) /\ Cardinality(Stored) \in Nat
  /\ IsFiniteSet(Stored') /\ Cardinality(Stored') \in Nat
<1>1. Stored \in SUBSET Attempts /\ Stored' \in SUBSET Attempts
  BY DEF Stored
<1>2. IsFiniteSet(Stored) /\ IsFiniteSet(Stored')
  BY <1>1, FS_Subset, BoundsAssumption
<1> QED BY <1>2, FS_CardinalityType

LEMMA CapInit == Init => CapInv
<1> SUFFICES ASSUME Init PROVE CapInv
  OBVIOUS
<1>1. Stored = {} /\ \A a \in Attempts : call[a] # "admitted"
  BY DEF Init, Stored
<1>2. Cardinality(Stored) <= Cap
  BY <1>1, FS_EmptySet, BoundsAssumption
<1> QED BY <1>1, <1>2 DEF CapInv

LEMMA CapStep == TypeOK /\ IInv /\ CapInv /\ [Next]_vars => CapInv'
<1> SUFFICES ASSUME TypeOK, IInv, CapInv, [Next]_vars, ~overlapped' PROVE CapInv'
  BY DEF CapInv
<1>1. ~overlapped
  <2>1. overlapped' = overlapped \/ \E a \in Attempts : SubmitCheck(a)
    BY DEF Next, vars, ApiStep, RunStep, QueueStep, SubmitSave, SubmitEnqueue,
         SubmitEnqueueFails, SubmitRollback, RollbackFails, MarkFailedFails, Retry,
         Stalled, MarkFailed, Start, ReadAttempt, ReadWord, Store, Throw, Complete,
         LoseLock, ApiCrash, WorkerCrash, DeleteWord
  <2> QED BY <2>1 DEF SubmitCheck
<1>a. /\ Cardinality(Stored) \in Nat /\ Cardinality(Stored') \in Nat /\ Cap \in Nat
      /\ IsFiniteSet(Stored)
  BY StoredFinite, BoundsAssumption
<1>2. ASSUME NEW a \in Attempts, SubmitSave(a)
      PROVE  CapInv'
  <2>1. CASE wordExists
    <3>1. /\ call' = [call EXCEPT ![a] = "saved"] /\ call[a] = "admitted"
          /\ Stored' = Stored \cup {a}
      BY <1>2, <2>1 DEF SubmitSave, Stored, TypeOK
    <3>2. Cardinality(Stored') <= Cardinality(Stored) + 1
      BY <1>a, <3>1, FS_AddElement
    <3>3. Cardinality(Stored') <= Cap
      BY <1>1, <1>a, <3>1, <3>2 DEF CapInv
    <3>4. \A b \in Attempts : call'[b] # "admitted"
      BY <1>1, <3>1 DEF CapInv, TypeOK
    <3> QED BY <3>3, <3>4 DEF CapInv
  <2>2. CASE ~wordExists
    <3>1. Stored' = Stored /\ call' = [call EXCEPT ![a] = "error"]
      BY <1>2, <2>2 DEF SubmitSave, Stored
    <3>2. \A b \in Attempts : call'[b] = "admitted" => call[b] = "admitted"
      BY <3>1 DEF TypeOK
    <3> QED BY <1>1, <3>1, <3>2 DEF CapInv
  <2> QED BY <2>1, <2>2
<1>3. ASSUME NEW a \in Attempts, SubmitCheck(a)
      PROVE  CapInv'
  <2>1. Stored' = Stored
    BY <1>3 DEF SubmitCheck, Stored
  <2>2. \/ \A b \in Attempts : call'[b] = "admitted" => call[b] = "admitted"
        \/ /\ Cardinality(Stored) < Cap
           /\ \A b \in Attempts : call'[b] = "admitted" => b = a
    BY <1>3 DEF SubmitCheck, UnderCap, TypeOK
  <2> QED BY <1>1, <2>1, <2>2 DEF CapInv
<1>4. ASSUME Stored' \subseteq Stored,
             \A b \in Attempts : call'[b] = "admitted" => call[b] = "admitted"
      PROVE  CapInv'
  <2>1. Cardinality(Stored') <= Cardinality(Stored)
    BY <1>4, <1>a, FS_Subset
  <2> QED BY <1>1, <1>4, <1>a, <2>1 DEF CapInv
<1>5. ASSUME NEW a \in Attempts,
             \/ SubmitEnqueue(a) \/ SubmitEnqueueFails(a) \/ SubmitRollback(a)
             \/ QueueStep(a) \/ MarkFailed(a) \/ RollbackFails(a) \/ MarkFailedFails(a)
      PROVE  CapInv'
  <2>1. \A b \in Attempts : call'[b] = "admitted" => call[b] = "admitted"
    BY <1>5 DEF SubmitEnqueue, SubmitEnqueueFails, SubmitRollback, QueueStep, Retry,
         Stalled, MarkFailed, RollbackFails, MarkFailedFails, TypeOK
  <2>2. Stored' \subseteq Stored
    BY <1>5 DEF SubmitEnqueue, SubmitEnqueueFails, SubmitRollback, QueueStep, Retry,
         Stalled, MarkFailed, RollbackFails, MarkFailedFails, Settle, TypeOK, Stored
  <2> QED BY <1>4, <2>1, <2>2
<1>6. ASSUME NEW k \in Runs, RunStep(k) \/ LoseLock(k)
      PROVE  CapInv'
  <2>1. call' = call
    BY <1>6 DEF RunStep, Start, ReadAttempt, ReadWord, Store, Throw, Complete, LoseLock
  <2>2. Stored' \subseteq Stored
    BY <1>6 DEF RunStep, Start, ReadAttempt, ReadWord, Store, Throw, Complete, LoseLock,
         Settle, TypeOK, Stored
  <2> QED BY <1>4, <2>1, <2>2
<1>7. CASE ApiCrash \/ WorkerCrash \/ DeleteWord \/ UNCHANGED vars
  <2>1. \A b \in Attempts : call'[b] = "admitted" => call[b] = "admitted"
    BY <1>7 DEF ApiCrash, WorkerCrash, DeleteWord, vars, TypeOK
  <2>2. Stored' \subseteq Stored
    BY <1>7 DEF ApiCrash, WorkerCrash, DeleteWord, vars, TypeOK, Stored
  <2> QED BY <1>4, <2>1, <2>2
<1> QED BY <1>2, <1>3, <1>5, <1>6, <1>7 DEF Next, ApiStep

\* submit's count-then-insert (practice.service.ts 172-192) keeps a learner
\* within dailyAttemptsPerUser as long as no two of the calls overlap.
THEOREM CapHolds == Spec => []OverCapOnlyIfOverlapping
<1>1. CapInv => OverCapOnlyIfOverlapping
  BY StoredFinite, BoundsAssumption DEF CapInv, OverCapOnlyIfOverlapping
<1>2. IInv => TypeOK
  BY DEF IInv
<1> QED BY <1>1, <1>2, CapInit, CapStep, Invariance, PTL DEF Spec
=============================================================================
