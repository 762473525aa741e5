-------------------------- MODULE PracticeScoring ---------------------------
(***************************************************************************)
(* Open-production practice (src/src/practice): one learner's attempts at  *)
(* one word on one day, from the API call that stores and enqueues them    *)
(* (practice.service.ts, scoring-queue.producer.ts) to the BullMQ worker   *)
(* that has them judged (scoring.processor.ts).                            *)
(*                                                                         *)
(* The queue is the library's, modelled from how the code uses it: a job   *)
(* whose processor throws is retried until its tries are used up; every    *)
(* throw is followed by a 'failed' event, handled in the worker process; a *)
(* job whose worker vanished is put back once, and failed for good the     *)
(* next time.  A worker that lost its lock runs on, but cannot settle the  *)
(* job any more.                                                           *)
(***************************************************************************)
EXTENDS Naturals, FiniteSets

CONSTANTS
  Attempts,        \* attempt ids, one submit call each
  Runs,            \* processor runs that can be under way at once
  MaxTries,        \* opts.attempts of the job
  MaxStalls,       \* BullMQ's maxStalledCount: stalls after which a job is put back
  Cap,             \* gemma.dailyAttemptsPerUser
  MaxFaults        \* bound: crashes, lost locks and database errors considered

ASSUME QueueAssumption == MaxTries \in Nat \ {0} /\ MaxStalls \in Nat
ASSUME BoundsAssumption == Cap \in Nat /\ MaxFaults \in Nat /\ IsFiniteSet(Attempts)

VARIABLES
  wordExists,      \* the vocabulary row the attempts refer to
  status,          \* production_attempts.status, "none" before, "gone" after the row
  call,            \* where each submit call is
  job,             \* the job of each attempt
  run,             \* what each processor run is doing
  failing,         \* attempts whose last failure onFailed is about to write
  faults,          \* faults so far
  overlapped,      \* history: two submits passed the cap check side by side
  lost             \* history: attempts cut off in one of the windows named below

vars == <<wordExists, status, call, job, run, failing, faults, overlapped, lost>>

NoJob == [state |-> "none", made |-> 0, stalls |-> 0]
Idle == [pc |-> "idle"]

Jobs == [state: {"none", "waiting", "active", "delayed", "done", "dead"},
         made: 0..MaxTries, stalls: 0..MaxStalls]
Working == [pc: {"started", "read", "judging", "settled"},
            attempt: Attempts, lock: BOOLEAN]

TypeOK ==
  /\ wordExists \in BOOLEAN
  /\ status \in [Attempts -> {"none", "pending", "scored", "failed", "gone"}]
  /\ call \in [Attempts -> {"idle", "admitted", "saved", "enqueueFailed",
                            "accepted", "refused", "error"}]
  /\ job \in [Attempts -> Jobs]
  /\ run \in [Runs -> {Idle} \cup Working]
  /\ failing \in SUBSET Attempts
  /\ faults \in 0..MaxFaults
  /\ overlapped \in BOOLEAN
  /\ lost \in SUBSET Attempts

Init ==
  /\ wordExists = TRUE
  /\ status = [a \in Attempts |-> "none"]
  /\ call = [a \in Attempts |-> "idle"]
  /\ job = [a \in Attempts |-> NoJob]
  /\ run = [k \in Runs |-> Idle]
  /\ failing = {}
  /\ faults = 0
  /\ overlapped = FALSE
  /\ lost = {}

Stored == {a \in Attempts : status[a] \in {"pending", "scored", "failed"}}

-----------------------------------------------------------------------------
(* submit: count, save, enqueue, and a roll-back when the queue is down *)

\* Mutant of UnderCap: one attempt too many.
UnderCap_OffByOne == Cardinality(Stored) <= Cap

UnderCap == Cardinality(Stored) < Cap

SubmitCheck(a) ==
  /\ call[a] = "idle"
  /\ IF wordExists /\ UnderCap
     THEN /\ call' = [call EXCEPT ![a] = "admitted"]
          /\ overlapped' = (overlapped \/ \E b \in Attempts : call[b] = "admitted")
     ELSE /\ call' = [call EXCEPT ![a] = "refused"]
          /\ UNCHANGED overlapped
  /\ UNCHANGED <<wordExists, status, job, run, failing, faults, lost>>

\* The INSERT violates the foreign key when the word is gone by now.
SubmitSave(a) ==
  /\ call[a] = "admitted"
  /\ IF wordExists
     THEN /\ status' = [status EXCEPT ![a] = "pending"]
          /\ call' = [call EXCEPT ![a] = "saved"]
     ELSE /\ call' = [call EXCEPT ![a] = "error"]
          /\ UNCHANGED status
  /\ UNCHANGED <<wordExists, job, run, failing, faults, overlapped, lost>>

SubmitEnqueue(a) ==
  /\ call[a] = "saved"
  /\ job' = [job EXCEPT ![a].state = "waiting"]
  /\ call' = [call EXCEPT ![a] = "accepted"]
  /\ UNCHANGED <<wordExists, status, run, failing, faults, overlapped, lost>>

\* Redis answers with an error, or its answer never arrives.
SubmitEnqueueFails(a) ==
  /\ call[a] = "saved"
  /\ \E stored \in BOOLEAN :
       job' = IF stored THEN [job EXCEPT ![a].state = "waiting"] ELSE job
  /\ call' = [call EXCEPT ![a] = "enqueueFailed"]
  /\ UNCHANGED <<wordExists, status, run, failing, faults, overlapped, lost>>

\* Mutant of SubmitRollback: the error is swallowed, as the audio producer does.
SubmitRollback_Swallowed(a) ==
  /\ call[a] = "enqueueFailed"
  /\ call' = [call EXCEPT ![a] = "accepted"]
  /\ UNCHANGED <<wordExists, status, job, run, failing, faults, overlapped, lost>>

SubmitRollback(a) ==
  /\ call[a] = "enqueueFailed"
  /\ status' = [status EXCEPT ![a] = "gone"]
  /\ call' = [call EXCEPT ![a] = "error"]
  /\ UNCHANGED <<wordExists, job, run, failing, faults, overlapped, lost>>

-----------------------------------------------------------------------------
(* The worker *)

Holds(a) == \E k \in Runs : run[k].pc # "idle" /\ run[k].attempt = a /\ run[k].lock

Start(k) ==
  /\ run[k] = Idle
  /\ \E a \in Attempts :
       /\ job[a].state = "waiting"
       /\ job' = [job EXCEPT ![a].state = "active"]
       /\ run' = [run EXCEPT ![k] = [pc |-> "started", attempt |-> a, lock |-> TRUE]]
  /\ UNCHANGED <<wordExists, status, call, failing, faults, overlapped, lost>>

\* A run that finds the attempt settled, or gone, has nothing left to do.
ReadAttempt(k) ==
  /\ run[k].pc = "started"
  /\ run' = [run EXCEPT ![k].pc =
       IF status[run[k].attempt] = "pending" THEN "read" ELSE "settled"]
  /\ UNCHANGED <<wordExists, status, call, job, failing, faults, overlapped, lost>>

\* Mutant of Settle: the guard on the status dropped.
Settle_Unguarded(a, verdict) ==
  status' = IF status[a] \in {"pending", "scored", "failed"}
            THEN [status EXCEPT ![a] = verdict] ELSE status

\* Every write of a verdict is UPDATE ... WHERE status = 'pending'.
Settle(a, verdict) ==
  status' = IF status[a] = "pending" THEN [status EXCEPT ![a] = verdict] ELSE status

\* A missing word is a permanent error: failed at once, without a retry.
ReadWord(k) ==
  /\ run[k].pc = "read"
  /\ IF wordExists
     THEN /\ run' = [run EXCEPT ![k].pc = "judging"]
          /\ UNCHANGED status
     ELSE /\ run' = [run EXCEPT ![k].pc = "settled"]
          /\ Settle(run[k].attempt, "failed")
  /\ UNCHANGED <<wordExists, call, job, failing, faults, overlapped, lost>>

\* The judge answered; its verdict was computed from what the run had read.
Store(k) ==
  /\ run[k].pc = "judging"
  /\ Settle(run[k].attempt, "scored")
  /\ run' = [run EXCEPT ![k].pc = "settled"]
  /\ UNCHANGED <<wordExists, call, job, failing, faults, overlapped, lost>>

\* The processor returned: only the holder of the lock completes the job.
Complete(k) ==
  /\ run[k].pc = "settled"
  /\ job' = IF run[k].lock THEN [job EXCEPT ![run[k].attempt].state = "done"] ELSE job
  /\ run' = [run EXCEPT ![k] = Idle]
  /\ UNCHANGED <<wordExists, status, call, failing, faults, overlapped, lost>>

\* Mutant of TriesLeft: one try more.
TriesLeft_OneMore(made) == made <= MaxTries

\* Mutants of Exhausted: one try short; never true.
Exhausted_Early(made) == ~(made + 1 < MaxTries)
Exhausted_Never(made) == made > MaxTries

\* The job's options allow another try.
TriesLeft(made) == made < MaxTries

\* onFailed's own test of the same thing.
Exhausted(made) == ~(made < MaxTries)

\* The 'failed' event calls onFailed on the spot: earlier failures are
\* transient, the last one is to be recorded.
OnFailed(a, made) ==
  failing' = IF Exhausted(made) THEN failing \cup {a} ELSE failing

\* The processor threw (a query failed, or the judge: rate limit, time-out,
\* unparseable answer): the holder of the lock counts a try and emits 'failed'.
Throw(k) ==
  /\ run[k].pc \in {"started", "read", "judging"}
  /\ LET a == run[k].attempt
         made == job[a].made + 1
     IN IF run[k].lock
        THEN /\ job' = [job EXCEPT ![a].made = made,
                                   ![a].state = IF TriesLeft(made) THEN "delayed" ELSE "dead"]
             /\ OnFailed(a, made)
        ELSE UNCHANGED <<job, failing>>
  /\ run' = [run EXCEPT ![k] = Idle]
  /\ UNCHANGED <<wordExists, status, call, faults, overlapped, lost>>

\* The back-off elapses.
Retry(a) ==
  /\ job[a].state = "delayed"
  /\ job' = [job EXCEPT ![a].state = "waiting"]
  /\ UNCHANGED <<wordExists, status, call, run, failing, faults, overlapped, lost>>

\* markFailed's UPDATE, when it gets to the database.
MarkFailed(a) ==
  /\ a \in failing
  /\ Settle(a, "failed")
  /\ failing' = failing \ {a}
  /\ UNCHANGED <<wordExists, call, job, run, faults, overlapped, lost>>

\* The stalled-jobs check: an active job nobody holds is put back, or failed
\* for good whatever tries it has left.  Whether that failure counts in
\* attemptsMade depends on the version of the library.
Stalled(a) ==
  /\ job[a].state = "active"
  /\ ~Holds(a)
  /\ IF job[a].stalls < MaxStalls
     THEN /\ job' = [job EXCEPT ![a].state = "waiting", ![a].stalls = @ + 1]
          /\ UNCHANGED <<failing, lost>>
     ELSE \E made \in {job[a].made, job[a].made + 1} :
            /\ job' = [job EXCEPT ![a].state = "dead", ![a].made = made]
            /\ OnFailed(a, made)
            /\ lost' = IF Exhausted(made) THEN lost ELSE lost \cup {a}
  /\ UNCHANGED <<wordExists, status, call, run, faults, overlapped>>

-----------------------------------------------------------------------------
(* Faults, and the catalog deleting the word (its attempts go with it) *)

Fault == faults < MaxFaults /\ faults' = faults + 1

InFlight == {a \in Attempts : call[a] \in {"admitted", "saved", "enqueueFailed"}}

\* The API process dies: its calls end where they are.
ApiCrash ==
  /\ Fault
  /\ InFlight # {}
  /\ call' = [a \in Attempts |->
       IF a \in InFlight THEN "error" ELSE call[a]]
  /\ lost' = lost \cup {a \in Attempts : call[a] \in {"saved", "enqueueFailed"}
                                          /\ job[a].state \in {"none", "dead"}}
  /\ UNCHANGED <<wordExists, status, job, run, failing, overlapped>>

\* The DELETE of the roll-back fails: the error reaches the client, the row stays.
RollbackFails(a) ==
  /\ Fault
  /\ call[a] = "enqueueFailed"
  /\ call' = [call EXCEPT ![a] = "error"]
  /\ lost' = IF job[a].state \in {"none", "dead"} THEN lost \cup {a} ELSE lost
  /\ UNCHANGED <<wordExists, status, job, run, failing, overlapped>>

\* The worker process dies, with its runs and its unhandled events.
WorkerCrash ==
  /\ Fault
  /\ failing # {} \/ \E k \in Runs : run[k].pc # "idle"
  /\ run' = [k \in Runs |-> Idle]
  /\ failing' = {}
  /\ lost' = lost \cup failing
  /\ UNCHANGED <<wordExists, status, call, job, overlapped>>

\* The lock expires under a run that is still going.
LoseLock(k) ==
  /\ Fault
  /\ run[k].pc # "idle"
  /\ run[k].lock
  /\ run' = [run EXCEPT ![k].lock = FALSE]
  /\ UNCHANGED <<wordExists, status, call, job, failing, overlapped, lost>>

\* markFailed's UPDATE fails: nobody repeats it.
MarkFailedFails(a) ==
  /\ Fault
  /\ a \in failing
  /\ failing' = failing \ {a}
  /\ lost' = lost \cup {a}
  /\ UNCHANGED <<wordExists, status, call, job, run, overlapped>>

DeleteWord ==
  /\ wordExists
  /\ wordExists' = FALSE
  /\ status' = [a \in Attempts |-> IF a \in Stored THEN "gone" ELSE status[a]]
  /\ UNCHANGED <<call, job, run, failing, faults, overlapped, lost>>

ApiStep(a) ==
  \/ SubmitCheck(a) \/ SubmitSave(a) \/ SubmitEnqueue(a)
  \/ SubmitEnqueueFails(a) \/ SubmitRollback(a)

RunStep(k) ==
  \/ Start(k) \/ ReadAttempt(k) \/ ReadWord(k)
  \/ Store(k) \/ Throw(k) \/ Complete(k)

QueueStep(a) == Retry(a) \/ Stalled(a)

Next ==
  \/ \E a \in Attempts : ApiStep(a) \/ QueueStep(a) \/ MarkFailed(a) \/ RollbackFails(a) \/ MarkFailedFails(a)
  \/ \E k \in Runs : RunStep(k) \/ LoseLock(k)
  \/ ApiCrash \/ WorkerCrash \/ DeleteWord

Spec == Init /\ [][Next]_vars

\* The event loops run on, the worker is restarted and keeps polling, the
\* queue's timers fire.  Nothing is assumed of the judge's answers: every
\* judgement may throw.
Fairness ==
  /\ \A a \in Attempts : WF_vars(ApiStep(a)) /\ WF_vars(QueueStep(a)) /\ WF_vars(MarkFailed(a))
  /\ \A k \in Runs : WF_vars(RunStep(k))

FairSpec == Spec /\ Fairness

-----------------------------------------------------------------------------
(* Properties *)

\* "Only persist failed once BullMQ has exhausted its retries"
\* (scoring.processor.ts:104-106), with lost locks, stalls and crashes.
FailedOnlyAfterRetries ==
  \A a \in Attempts : status[a] = "failed" =>
    job[a].state = "dead" /\ job[a].made = MaxTries

\* A pending row that nothing in the system will ever look at again.
Orphan(a) ==
  /\ status[a] = "pending"
  /\ call[a] \notin {"saved", "enqueueFailed"}
  /\ job[a].state \in {"none", "done", "dead"}
  /\ \A k \in Runs : run[k].pc # "idle" => run[k].attempt # a
  /\ a \notin failing

\* An attempt is orphaned in one of the four windows that mark it lost, and in
\* no other: the API dies, or cannot delete, between INSERT and enqueue; the
\* worker dies, or cannot update, between the last failure and its record; the
\* job stalls once too often.
OrphanOnlyIfLost == \A a \in Attempts : Orphan(a) => a \in lost

\* The check-then-insert of the daily cap holds unless two submits of the
\* learner passed the check side by side.
OverCapOnlyIfOverlapping == Cardinality(Stored) > Cap => overlapped

\* The rows live the life of an attempt: one verdict, never revised.
Lifecycle == INSTANCE AttemptLifecycle
ImplementsLifecycle == Lifecycle!Spec

\* Unless it was lost, every pending attempt is decided, or goes with its word.
SettlesUnlessLost ==
  \A a \in Attempts : status[a] = "pending" ~> status[a] # "pending" \/ a \in lost

\* "the attempt is still being worked on and will eventually flip to
\* scored/failed" (docs/frontend/practice_submit_sentence.md:157).
AcceptedAttemptSettles ==
  \A a \in Attempts :
    status[a] = "pending" /\ call[a] = "accepted" ~> status[a] # "pending"
=============================================================================
