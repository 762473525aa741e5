-------------------------- MODULE EnrichmentProofs --------------------------
(***************************************************************************)
(* Proofs about Enrichment, for any number of requests, runs, drafts,      *)
(* tries, stalls and upsets.                                               *)
(*                                                                         *)
(* The argument.  At most one run holds the lock of a job, while the job   *)
(* is active, so a pending row always has somebody left to decide it, or   *)
(* was lost.  A word that a job created is in the memory of a run that is  *)
(* still to append it, or in the deck, or a run of the job was cut off     *)
(* between the two.                                                        *)
(***************************************************************************)
EXTENDS Enrichment, FiniteSetTheorems, TLAPS

-----------------------------------------------------------------------------
(* The inductive invariant *)

Busy(k) == run[k].pc # "idle"
Works(k, r) == Busy(k) /\ run[k].job = r
Live(r) == job[r].state \in {"waiting", "active", "delayed"}
NoJob == [state |-> "none", made |-> 0, stalls |-> 0]

\* The row follows its request, the job follows the row.
RowFollowsCall ==
  \A r \in Requests :
    /\ call[r] \in {"idle", "admitted"} => row[r].status = "none"
    /\ call[r] = "saved" => row[r].status # "none"
    /\ call[r] = "saved" \/ row[r].status = "none" => job[r] = NoJob

\* A job is held by at most one run, and only while it is active.
LockExclusive ==
  \A k \in Runs, r \in Requests : Works(k, r) =>
    /\ job[r].state # "none"
    /\ run[k].lock => job[r].state = "active"
    /\ \A l \in Runs : Works(l, r) /\ run[k].lock /\ run[l].lock => k = l

LiveJobsHaveTries == \A r \in Requests : Live(r) => job[r].made < MaxTries

\* What has come to its end has a verdict.
EndedDecided ==
  /\ \A k \in Runs, r \in Requests :
       Works(k, r) /\ run[k].pc = "returned" => row[r].status # "pending"
  /\ \A r \in Requests : job[r].state = "done" => row[r].status # "pending"

\* Somebody is left to decide a pending row, or it was lost.
PendingTended ==
  \A r \in Requests : row[r].status = "pending" =>
    call[r] = "saved" \/ Live(r) \/ r \in failing \/ r \in lost

JobInv == RowFollowsCall /\ LockExclusive /\ LiveJobsHaveTries /\ EndedDecided /\ PendingTended

\* A run about to create has a draft to create it from.
DraftInHand == \A k \in Runs : run[k].pc = "creating" => run[k].next <= Len(Drafts)

\* The run has created the word and has not appended it yet.
Carries(k, word) ==
  run[k].pc \in {"looking", "creating", "appending"} /\ word \in run[k].created

\* A word created for the deck is in it, or on its way.
WordsTended ==
  /\ \A r \in Requests : row[r].status = "none" => createdBy[r] = {}
  /\ \A r \in Requests \ interrupted : row[r].targetsDeck =>
       \A word \in createdBy[r] \ deck : \E k \in Runs : Carries(k, word) /\ run[k].job = r

\* While no two requests passed the check side by side, the one that passed it
\* found no pending job.
OneInFlight ==
  ~overlapped =>
    /\ \A q, r \in Requests : call[q] = "admitted" /\ call[r] = "admitted" => q = r
    /\ \A q, r \in Requests : call[q] = "admitted" => row[r].status # "pending"
    /\ \A q, r \in Pending : q = r

IInv == TypeOK /\ JobInv /\ DraftInHand /\ WordsTended /\ OneInFlight

-----------------------------------------------------------------------------
(* Types *)

LEMMA RunTypes ==
  ASSUME TypeOK, NEW k \in Runs
  PROVE  /\ Busy(k) => run[k] \in Working
         /\ run[k] = Idle <=> ~Busy(k)
         /\ run[k].pc # "idle" <=> Busy(k)
  BY DEF TypeOK, Working, Idle, Busy

LEMMA DraftTypes ==
  /\ Len(Drafts) \in Nat
  /\ \A i \in 1..Len(Drafts) : Drafts[i] \in Words
  BY DraftsAssumption DEF Words

LEMMA InvInit == Init => IInv
  <1> SUFFICES ASSUME Init PROVE IInv
    OBVIOUS
  <1> USE QueueAssumption DEF Init
  <1>1. TypeOK
    <2>1. /\ row \in [Requests -> [status: {"none", "pending", "completed", "failed"},
                                  targetsDeck: BOOLEAN]]
          /\ call \in [Requests -> {"idle", "admitted", "saved", "answered"}]
          /\ run \in [Runs -> {Idle} \cup Working]
      OBVIOUS
    <2>2. job \in [Requests -> [state: {"none", "waiting", "active", "delayed", "done", "dead"},
                               made: 0..MaxTries, stalls: 0..MaxStalls]]
      OBVIOUS
    <2>3. createdBy \in [Requests -> SUBSET words] /\ deck \in SUBSET words
      OBVIOUS
    <2>4. upsets \in 0..MaxUpsets
      OBVIOUS
    <2>5. /\ words \in SUBSET Words /\ failing \in SUBSET Requests
          /\ overlapped \in BOOLEAN /\ interrupted \in SUBSET Requests /\ lost \in SUBSET Requests
      OBVIOUS
    <2> QED
      BY <2>1, <2>2, <2>3, <2>4, <2>5, Zenon DEF TypeOK
  <1>2. \A k \in Runs : ~Busy(k) /\ run[k].pc = "idle"
    BY DEF Busy, Idle
  <1>3. \A r \in Requests : /\ row[r].status = "none" /\ call[r] = "idle"
                            /\ job[r] = NoJob /\ ~Live(r) /\ job[r].state = "none"
                            /\ createdBy[r] = {}
    BY DEF NoJob, Live
  <1>4. RowFollowsCall /\ LockExclusive /\ LiveJobsHaveTries /\ EndedDecided /\ PendingTended
    BY <1>2, <1>3 DEF RowFollowsCall, LockExclusive, LiveJobsHaveTries, EndedDecided,
         PendingTended, Works
  <1>5. DraftInHand /\ WordsTended /\ OneInFlight
    BY <1>2, <1>3 DEF DraftInHand, WordsTended, OneInFlight, Pending
  <1> QED
    BY <1>1, <1>4, <1>5 DEF IInv, JobInv

\* The run goes on with its job, and holds its lock at most.
GoesOn(k) ==
  /\ Busy(k) /\ run'[k] \in Working
  /\ \A l \in Runs \ {k} : run'[l] = run[l]
  /\ run'[k].job = run[k].job /\ (run'[k].lock => run[k].lock)

\* Rows keep their status, or get the verdict they lacked.
Verdicts ==
  \A r \in Requests :
    \/ row'[r].status = row[r].status
    \/ row[r].status = "pending" /\ row'[r].status \in {"completed", "failed"}

QuietStep(k) ==
  \/ ReadJob(k) \/ Prepare(k) \/ PrepareNothing(k) \/ LookUp(k) \/ Create(k)
  \/ EndLoop(k) \/ AppendMembers(k) \/ Finish(k) \/ LoseLock(k)

\* UPDATE ... WHERE status = 'pending'
LEMMA SettleTypes ==
  ASSUME TypeOK, NEW r \in Requests, NEW verdict \in {"completed", "failed"}, Settle(r, verdict)
  PROVE  /\ row' \in [Requests -> [status: {"none", "pending", "completed", "failed"},
                                   targetsDeck: BOOLEAN]]
         /\ Verdicts /\ row'[r].status # "pending"
         /\ \A q \in Requests : row'[q].targetsDeck = row[q].targetsDeck
  BY DEF TypeOK, Settle, Verdicts

LEMMA GoesOnBy ==
  ASSUME TypeOK, DraftInHand, NEW k \in Runs, Busy(k),
         NEW v \in Working, v.job = run[k].job, v.lock => run[k].lock,
         v.pc = "creating" => v.next <= Len(Drafts),
         run' = [run EXCEPT ![k] = v]
  PROVE  /\ GoesOn(k) /\ DraftInHand'
         /\ run' \in [Runs -> {Idle} \cup Working]
  BY DEF TypeOK, GoesOn, DraftInHand

LEMMA QuietStepGoesOn ==
  ASSUME TypeOK, DraftInHand, NEW k \in Runs, QuietStep(k)
  PROVE  /\ GoesOn(k) /\ DraftInHand'
         /\ run' \in [Runs -> {Idle} \cup Working]
  <1> DEFINE To(v) == /\ v \in Working /\ v.job = run[k].job /\ (v.lock => run[k].lock)
                      /\ v.pc = "creating" => v.next <= Len(Drafts)
                      /\ run' = [run EXCEPT ![k] = v]
  <1>1. Busy(k) /\ run[k] \in Working
    BY RunTypes DEF QuietStep, ReadJob, Prepare, PrepareNothing, LookUp, Create, EndLoop,
       AppendMembers, Finish, LoseLock, Busy
  <1>2. \A pc \in {"preparing", "returned", "looking", "appending", "finishing"} :
          run' = [run EXCEPT ![k].pc = pc] => To([run[k] EXCEPT !.pc = pc])
    BY <1>1 DEF Working
  <1>3. CASE ReadJob(k)
    BY <1>2, <1>3, <1>1, GoesOnBy DEF ReadJob
  <1>4. CASE Prepare(k) \/ PrepareNothing(k)
    BY <1>2, <1>4, <1>1, GoesOnBy DEF Prepare, PrepareNothing
  <1>5. CASE LookUp(k)
    <2>1. CASE Drafts[run[k].next] \in words
      <3>1. To([run[k] EXCEPT !.next = @ + 1])
        BY <1>1, <1>5, <2>1, DraftTypes DEF LookUp, Working
      <3> QED
        BY <1>1, <3>1, GoesOnBy
    <2>2. CASE Drafts[run[k].next] \notin words
      <3>1. To([run[k] EXCEPT !.pc = "creating"])
        BY <1>1, <1>5, <2>2, DraftTypes DEF LookUp, Working
      <3> QED
        BY <1>1, <3>1, GoesOnBy
    <2> QED
      BY <2>1, <2>2
  <1>6. CASE Create(k)
    <2> DEFINE word == Drafts[run[k].next]
    <2>1. run[k].next \in 1..Len(Drafts) /\ word \in Words
      BY <1>1, <1>6, DraftTypes DEF Create, DraftInHand, Working
    <2>2. run[k].next + 1 \in 1..(Len(Drafts) + 1) /\ run[k].created \cup {word} \in SUBSET Words
      BY <1>1, <2>1, DraftTypes DEF Working
    <2>3. To([run[k] EXCEPT !.pc = "looking", !.next = @ + 1, !.created = @ \cup {word}])
      BY <1>1, <1>6, <2>2 DEF Create, Working
    <2> QED
      BY <1>1, <2>3, GoesOnBy
  <1>7. CASE EndLoop(k)
    BY <1>2, <1>7, <1>1, GoesOnBy DEF EndLoop
  <1>8. CASE AppendMembers(k) \/ Finish(k)
    BY <1>2, <1>8, <1>1, GoesOnBy DEF AppendMembers, Finish
  <1>9. CASE LoseLock(k)
    <2>1. To([run[k] EXCEPT !.lock = FALSE])
      BY <1>1, <1>9 DEF LoseLock, Working, DraftInHand
    <2> QED
      BY <1>1, <2>1, GoesOnBy
  <1> QED
    BY <1>3, <1>4, <1>5, <1>6, <1>7, <1>8, <1>9 DEF QuietStep

\* What a quiet step does to the jobs and the requests: nothing.
LEMMA QuietStepTypes ==
  ASSUME TypeOK, DraftInHand, NEW k \in Runs, QuietStep(k)
  PROVE  /\ TypeOK' /\ Verdicts
         /\ UNCHANGED <<call, job, failing, lost, overlapped, interrupted>>
         /\ \A r \in Requests : row'[r].targetsDeck = row[r].targetsDeck
         /\ run'[k].pc = "returned" /\ run[k].pc # "returned"
              => row'[run[k].job].status # "pending"
  <1> USE DEF store, marks
  <1>1. run[k] \in Working /\ run[k].job \in Requests /\ Busy(k)
    BY QuietStepGoesOn, RunTypes DEF GoesOn, Working
  <1>2. run' \in [Runs -> {Idle} \cup Working]
    BY QuietStepGoesOn
  <1>3. CASE ReadJob(k) \/ Prepare(k) \/ LookUp(k) \/ EndLoop(k)
    <2>1. UNCHANGED <<store, call, job, failing, upsets, marks>>
      BY <1>3 DEF ReadJob, Prepare, LookUp, EndLoop
    <2>2. TypeOK' /\ Verdicts
      BY <1>2, <2>1 DEF TypeOK, Verdicts
    <2>3. run'[k].pc = "returned" => row'[run[k].job].status # "pending"
      <3>1. CASE ReadJob(k)
        BY <1>1, <2>1, <3>1 DEF ReadJob, TypeOK
      <3>2. CASE Prepare(k) \/ LookUp(k) \/ EndLoop(k)
        BY <1>1, <3>2 DEF Prepare, LookUp, EndLoop, TypeOK, Working
      <3> QED
        BY <1>3, <3>1, <3>2
    <2> QED
      BY <2>1, <2>2, <2>3
  <1>4. CASE PrepareNothing(k) \/ Finish(k)
    <2>1. /\ UNCHANGED <<call, job, words, deck, createdBy, failing, upsets, marks>>
          /\ \E verdict \in {"completed", "failed"} : Settle(run[k].job, verdict)
      BY <1>4 DEF PrepareNothing, Finish
    <2>2. TypeOK' /\ Verdicts
      BY <1>1, <1>2, <2>1, SettleTypes DEF TypeOK
    <2> QED
      BY <1>1, <2>1, <2>2, SettleTypes
  <1>5. CASE Create(k)
    <2> DEFINE word == Drafts[run[k].next]
    <2>1. /\ words' = words \cup {word}
          /\ createdBy' = [createdBy EXCEPT ![run[k].job] = @ \cup {word}]
          /\ UNCHANGED <<row, deck, call, job, failing, upsets, marks>>
      BY <1>5 DEF Create
    <2>2. word \in Words
      BY <1>1, <1>5, DraftTypes DEF Create, DraftInHand, Working
    <2>3. createdBy' \in [Requests -> SUBSET words'] /\ words' \in SUBSET Words
      BY <1>1, <2>1, <2>2 DEF TypeOK
    <2>4. TypeOK' /\ Verdicts
      BY <1>2, <2>1, <2>3 DEF TypeOK, Verdicts
    <2>5. run'[k].pc = "looking"
      BY <1>1, <1>5 DEF Create, Working, TypeOK
    <2> QED
      BY <2>1, <2>4, <2>5
  <1>6. CASE AppendMembers(k)
    <2>1. /\ deck' = deck \cup (run[k].created \cap words)
          /\ UNCHANGED <<row, words, createdBy, call, job, failing, upsets, marks>>
      BY <1>6 DEF AppendMembers
    <2>2. TypeOK' /\ Verdicts
      BY <1>2, <2>1 DEF TypeOK, Verdicts
    <2>3. run'[k].pc = "finishing"
      BY <1>1, <1>6 DEF AppendMembers, Working, TypeOK
    <2> QED
      BY <2>1, <2>2, <2>3
  <1>7. CASE LoseLock(k)
    <2>1. /\ UNCHANGED <<store, call, job, failing, marks>>
          /\ upsets' \in 0..MaxUpsets
          /\ run'[k].pc = run[k].pc
      BY <1>7, <1>1, QueueAssumption DEF LoseLock, Upset, TypeOK, Working
    <2>2. TypeOK' /\ Verdicts
      BY <1>2, <2>1 DEF TypeOK, Verdicts
    <2> QED
      BY <1>1, <2>1, <2>2
  <1> QED
    BY <1>3, <1>4, <1>5, <1>6, <1>7 DEF QuietStep

-----------------------------------------------------------------------------
(* Jobs *)

LEMMA QuietStepJobs ==
  ASSUME TypeOK, JobInv, DraftInHand, NEW k \in Runs, QuietStep(k)
  PROVE  JobInv'
  <1> USE DEF JobInv
  <1>1. /\ UNCHANGED <<call, job, failing, lost>>
        /\ run'[k].pc = "returned" /\ run[k].pc # "returned" => row'[run[k].job].status # "pending"
        /\ Verdicts /\ GoesOn(k)
    BY QuietStepTypes, QuietStepGoesOn
  <1>2. \A r \in Requests : /\ row'[r].status = "none" <=> row[r].status = "none"
                            /\ row'[r].status = "pending" => row[r].status = "pending"
    BY <1>1 DEF Verdicts
  <1>3. \A l \in Runs, r \in Requests : Works(l, r)' <=> Works(l, r)
    BY <1>1 DEF Works, Busy, GoesOn, Working
  <1>4. RowFollowsCall'
    BY <1>1, <1>2 DEF RowFollowsCall, NoJob
  <1>5. \A l \in Runs : run'[l].lock => run[l].lock
    BY <1>1 DEF GoesOn
  <1>6. LockExclusive'
    BY <1>1, <1>3, <1>5 DEF LockExclusive
  <1>7. LiveJobsHaveTries' /\ PendingTended'
    BY <1>1, <1>2 DEF LiveJobsHaveTries, PendingTended, Live
  <1>8. EndedDecided'
    <2> SUFFICES ASSUME NEW l \in Runs, NEW r \in Requests, Works(l, r), run'[l].pc = "returned"
                 PROVE  row'[r].status # "pending"
      BY <1>1, <1>2, <1>3 DEF EndedDecided
    <2>1. CASE run[l].pc = "returned"
      BY <1>2, <2>1 DEF EndedDecided
    <2>2. CASE run[l].pc # "returned"
      BY <1>1, <2>2 DEF GoesOn, Works
    <2> QED
      BY <2>1, <2>2
  <1> QED
    BY <1>4, <1>6, <1>7, <1>8

\* The request's own steps.
RequestStep(r) ==
  \/ QuickCreateUserVocabulary(r) \/ BulkQuickCreateUserVocabulary(r)
  \/ ApiStep(r) \/ EnqueueFails(r) \/ ApiCrash(r)

LEMMA RequestStepTypes ==
  ASSUME TypeOK, NEW r \in Requests, RequestStep(r)
  PROVE  TypeOK' /\ UNCHANGED <<run, words, deck, createdBy, failing, interrupted>>
  <1> USE QueueAssumption DEF store, marks
  <1>1. ASSUME NEW import \in BOOLEAN, Ask(r, import)
        PROVE  TypeOK' /\ UNCHANGED <<run, words, deck, createdBy, failing, interrupted>>
    <2>1. /\ row' \in [Requests -> [status: {"none", "pending", "completed", "failed"},
                                    targetsDeck: BOOLEAN]]
          /\ call' \in [Requests -> {"idle", "admitted", "saved", "answered"}]
      <3>1. CASE AlreadyHandled(import)
        BY <1>1, <3>1 DEF TypeOK, Ask
      <3>2. CASE ~AlreadyHandled(import)
        <4>1. /\ call' = [call EXCEPT ![r] = "admitted"]
              /\ row' = [row EXCEPT ![r].targetsDeck = import]
          BY <1>1, <3>2 DEF Ask
        <4> QED
          BY <4>1 DEF TypeOK
      <3> QED
        BY <3>1, <3>2
    <2>2. overlapped' \in BOOLEAN
      <3>1. CASE overlapped' = overlapped
        BY <3>1 DEF TypeOK
      <3>2. CASE overlapped' # overlapped
        BY <1>1, <3>2, Zenon DEF Ask
      <3> QED
        BY <3>1, <3>2
    <2> QED
      BY <1>1, <2>1, <2>2 DEF TypeOK, Ask
  <1>2. CASE SaveJob(r)
    BY <1>2 DEF TypeOK, SaveJob
  <1>3. CASE Enqueue(r)
    BY <1>3 DEF TypeOK, Enqueue
  <1>4. CASE EnqueueFails(r)
    BY <1>4 DEF TypeOK, EnqueueFails, Upset
  <1>5. CASE ApiCrash(r)
    BY <1>5 DEF TypeOK, ApiCrash, Upset
  <1> QED
    BY <1>1, <1>2, <1>3, <1>4, <1>5 DEF RequestStep, ApiStep, QuickCreateUserVocabulary,
       BulkQuickCreateUserVocabulary

LEMMA RequestStepJobs ==
  ASSUME TypeOK, JobInv, NEW r \in Requests, RequestStep(r)
  PROVE  JobInv'
  <1> USE QueueAssumption DEF store, marks, JobInv
  <1>1. run' = run /\ failing' = failing
    BY RequestStepTypes
  <1>2. ASSUME NEW import \in BOOLEAN, Ask(r, import) PROVE JobInv'
    <2>1. /\ job' = job /\ lost' = lost
          /\ \A q \in Requests : /\ row'[q].status = row[q].status
                                 /\ call'[q] # call[q] => call[q] = "idle" /\ call'[q] \in {"admitted", "answered"}
      BY <1>2 DEF Ask, TypeOK
    <2>2. \A q \in Requests : /\ call'[q] \in {"idle", "admitted"} => row[q].status = "none"
                              /\ call'[q] = "saved" <=> call[q] = "saved"
      BY <2>1 DEF RowFollowsCall
    <2> QED
      BY <1>1, <2>1, <2>2 DEF RowFollowsCall, LockExclusive, LiveJobsHaveTries, EndedDecided,
           PendingTended, Works, Busy, Live, NoJob
  <1>3. CASE SaveJob(r)
    <2>1. /\ job' = job /\ lost' = lost
          /\ \A q \in Requests \ {r} : row'[q] = row[q] /\ call'[q] = call[q]
          /\ row'[r].status = "pending" /\ call'[r] = "saved" /\ call[r] = "admitted"
      BY <1>3 DEF SaveJob, TypeOK
    <2>2. job[r] = NoJob /\ \A k \in Runs : ~Works(k, r)
      BY <2>1 DEF RowFollowsCall, LockExclusive, NoJob
    <2>3. RowFollowsCall' /\ LockExclusive' /\ LiveJobsHaveTries' /\ PendingTended'
      BY <1>1, <2>1, <2>2 DEF RowFollowsCall, LockExclusive, LiveJobsHaveTries,
           PendingTended, Works, Busy, Live, NoJob
    <2>4. EndedDecided'
      BY <1>1, <2>1, <2>2 DEF EndedDecided, Works, Busy, NoJob
    <2> QED
      BY <2>3, <2>4
  <1>4. CASE Enqueue(r)
    <2>1. /\ row' = row /\ lost' = lost
          /\ \A q \in Requests \ {r} : job'[q] = job[q] /\ call'[q] = call[q]
          /\ job'[r].state = "waiting" /\ job'[r].made = job[r].made
          /\ call'[r] = "answered" /\ call[r] = "saved"
      BY <1>4 DEF Enqueue, TypeOK
    <2>2. job[r] = NoJob /\ row[r].status # "none" /\ \A k \in Runs : ~Works(k, r)
      BY <2>1 DEF RowFollowsCall, LockExclusive, NoJob
    <2>3. RowFollowsCall' /\ LockExclusive' /\ PendingTended'
      BY <1>1, <2>1, <2>2 DEF RowFollowsCall, LockExclusive, PendingTended, Works, Busy, Live, NoJob
    <2>4. EndedDecided' /\ LiveJobsHaveTries'
      BY <1>1, <2>1, <2>2 DEF EndedDecided, LiveJobsHaveTries, Works, Busy, NoJob, Live
    <2> QED
      BY <2>3, <2>4
  <1>5. CASE EnqueueFails(r) \/ ApiCrash(r)
    <2>1. /\ row' = row /\ job' = job /\ lost \subseteq lost' /\ (call[r] = "saved" => r \in lost')
          /\ \A q \in Requests \ {r} : call'[q] = call[q]
          /\ call'[r] = "answered"
      BY <1>5 DEF EnqueueFails, ApiCrash, TypeOK
    <2>2. RowFollowsCall' /\ LockExclusive' /\ PendingTended'
      BY <1>1, <2>1 DEF RowFollowsCall, LockExclusive, PendingTended, Works, Busy, Live, NoJob
    <2>3. EndedDecided' /\ LiveJobsHaveTries'
      BY <1>1, <2>1 DEF EndedDecided, LiveJobsHaveTries, Works, Busy, Live
    <2> QED
      BY <2>2, <2>3
  <1> QED
    BY <1>2, <1>3, <1>4, <1>5 DEF RequestStep, ApiStep, QuickCreateUserVocabulary,
       BulkQuickCreateUserVocabulary

\* A job changes hands: it starts, ends, is retried, put back or given up.
JobStep(k, r) ==
  \/ k \in Runs /\ (Start(k) \/ Complete(k) \/ Throw(k))
  \/ r \in Requests /\ (Retry(r) \/ Stalled(r) \/ MarkFailed(r) \/ MarkFailedFails(r))
  \/ WorkerCrash

JobTypes ==
  job \in [Requests -> [state: {"none", "waiting", "active", "delayed", "done", "dead"},
                        made: 0..MaxTries, stalls: 0..MaxStalls]]

\* The parts of TypeOK a job's step can disturb.
LEMMA JobStepTypesBy ==
  ASSUME TypeOK, JobTypes', run' \in [Runs -> {Idle} \cup Working],
         UNCHANGED <<words, deck, createdBy, call, overlapped>>,
         row' \in [Requests -> [status: {"none", "pending", "completed", "failed"},
                                targetsDeck: BOOLEAN]],
         failing' \in SUBSET Requests, lost' \in SUBSET Requests,
         interrupted' \in SUBSET Requests, upsets' \in 0..MaxUpsets
  PROVE  TypeOK'
  BY DEF TypeOK, JobTypes

LEMMA StartTypes == 
  ASSUME TypeOK, NEW k \in Runs, Start(k)
  PROVE  /\ TypeOK' /\ UNCHANGED <<store, call, failing, marks>>
         /\ ~Busy(k)
         /\ \E r \in Requests :
              /\ job[r].state = "waiting" /\ job' = [job EXCEPT ![r].state = "active"]
              /\ run'[k] = [pc |-> "started", job |-> r, next |-> 1, created |-> {}, lock |-> TRUE]
              /\ \A l \in Runs \ {k} : run'[l] = run[l]
  <1>1. PICK r \in Requests :
          /\ job[r].state = "waiting"
          /\ job' = [job EXCEPT ![r].state = "active"]
          /\ run' = [run EXCEPT ![k] = [pc |-> "started", job |-> r, next |-> 1,
                                        created |-> {}, lock |-> TRUE]]
    BY DEF Start
  <1>2. [pc |-> "started", job |-> r, next |-> 1, created |-> {}, lock |-> TRUE] \in Working
    BY DraftTypes DEF Working
  <1>3. /\ run' \in [Runs -> {Idle} \cup Working]
        /\ run'[k] = [pc |-> "started", job |-> r, next |-> 1, created |-> {}, lock |-> TRUE]
        /\ \A l \in Runs \ {k} : run'[l] = run[l]
    BY <1>1, <1>2 DEF TypeOK
  <1>4. JobTypes'
    BY <1>1 DEF TypeOK, JobTypes
  <1>5. UNCHANGED <<store, call, failing, upsets, marks>> /\ ~Busy(k)
    BY RunTypes DEF Start
  <1>6. TypeOK'
    BY <1>3, <1>4, <1>5, JobStepTypesBy DEF store, marks, TypeOK
  <1> QED
    BY <1>1, <1>3, <1>5, <1>6

LEMMA ToIdle ==
  ASSUME TypeOK, NEW k \in Runs, run' = [run EXCEPT ![k] = Idle]
  PROVE  /\ run' \in [Runs -> {Idle} \cup Working]
         /\ ~Busy(k)' /\ \A l \in Runs \ {k} : run'[l] = run[l]
  BY DEF TypeOK, Busy, Idle

\* A failed try is counted, and one is left unless it was the last.
LEMMA TryCounted ==
  ASSUME TypeOK, LiveJobsHaveTries, NEW r \in Requests, job[r].state = "active"
  PROVE  job[r].made \in Nat /\ job[r].made < MaxTries /\ job[r].made + 1 \in 0..MaxTries
  <1>1. job[r].made \in 0..MaxTries
    BY DEF TypeOK
  <1>2. job[r].made < MaxTries
    BY DEF LiveJobsHaveTries, Live
  <1> QED
    BY <1>1, <1>2, QueueAssumption

LEMMA JobStepTypes ==
  ASSUME TypeOK, JobInv, NEW k, NEW r, JobStep(k, r)
  PROVE  TypeOK' /\ UNCHANGED <<words, deck, createdBy, call, overlapped>>
  <1> USE DEF store, marks, JobInv
  <1>1. CASE k \in Runs /\ (Start(k))
    BY <1>1, StartTypes
  <1>2. CASE k \in Runs /\ (Complete(k))
    <2>1. JobTypes'
      <3>1. CASE run[k].lock
        BY <1>2, <3>1 DEF Complete, TypeOK, JobTypes
      <3>2. CASE ~run[k].lock
        BY <1>2, <3>2 DEF Complete, TypeOK, JobTypes
      <3> QED
        BY <3>1, <3>2
    <2>2. run' \in [Runs -> {Idle} \cup Working] /\ UNCHANGED <<store, call, failing, upsets, marks>>
      BY <1>2, ToIdle DEF Complete
    <2> QED
      BY <2>1, <2>2, JobStepTypesBy DEF TypeOK
  <1>3. CASE k \in Runs /\ (Throw(k))
    <2> DEFINE q == run[k].job
    <2>1. Busy(k) /\ q \in Requests /\ Works(k, q)
      BY <1>3, RunTypes DEF Throw, Busy, Working, Works
    <2>2. JobTypes' /\ failing' \in SUBSET Requests
      <3>1. CASE run[k].lock
        <4>1. job[q].made + 1 \in 0..MaxTries
          BY <1>3, <2>1, <3>1, TryCounted DEF LockExclusive
        <4>2. PICK state \in {"delayed", "dead"} :
                job' = [job EXCEPT ![q].made = job[q].made + 1, ![q].state = state]
          BY <1>3, <3>1 DEF Throw
        <4>3. JobTypes'
          BY <2>1, <4>1, <4>2 DEF TypeOK, JobTypes
        <4>4. failing' \in SUBSET Requests
          BY <1>3, <2>1, <3>1 DEF Throw, OnFailed, TypeOK
        <4> QED
          BY <4>3, <4>4
      <3>2. CASE ~run[k].lock
        BY <1>3, <3>2 DEF Throw, TypeOK, JobTypes
      <3> QED
        BY <3>1, <3>2
    <2>3. /\ run' \in [Runs -> {Idle} \cup Working] /\ interrupted' \in SUBSET Requests
          /\ UNCHANGED <<store, call, upsets, overlapped, lost>>
      BY <1>3, <2>1, ToIdle DEF Throw, TypeOK
    <2> QED
      BY <2>2, <2>3, JobStepTypesBy DEF TypeOK
  <1>4. CASE r \in Requests /\ (Retry(r))
    <2>1. JobTypes'
      BY <1>4 DEF Retry, TypeOK, JobTypes
    <2> QED
      BY <1>4, <2>1, JobStepTypesBy DEF Retry, TypeOK
  <1>5. CASE r \in Requests /\ (Stalled(r))
    <2>1. JobTypes' /\ failing' \in SUBSET Requests /\ lost' \in SUBSET Requests
      <3>1. CASE job[r].stalls < MaxStalls
        <4>1. job[r].stalls + 1 \in 0..MaxStalls
          BY <1>5, <3>1, QueueAssumption DEF TypeOK
        <4>2. job' = [job EXCEPT ![r].state = "waiting", ![r].stalls = @ + 1]
              /\ UNCHANGED <<failing, lost>>
          BY <1>5, <3>1 DEF Stalled
        <4> QED
          BY <4>1, <4>2 DEF TypeOK, JobTypes
      <3>2. CASE ~(job[r].stalls < MaxStalls)
        <4>1. PICK made \in {job[r].made, job[r].made + 1} :
                /\ job' = [job EXCEPT ![r].state = "dead", ![r].made = made]
                /\ OnFailed(r, made)
                /\ lost' = IF Exhausted(made) THEN lost ELSE lost \cup {r}
          BY <1>5, <3>2 DEF Stalled
        <4>2. made \in 0..MaxTries
          BY <1>5, <4>1, TryCounted DEF Stalled, TypeOK
        <4>3. JobTypes'
          BY <4>1, <4>2 DEF TypeOK, JobTypes
        <4> QED
          BY <1>5, <4>1, <4>3 DEF TypeOK, OnFailed
      <3> QED
        BY <3>1, <3>2
    <2> QED
      BY <1>5, <2>1, JobStepTypesBy DEF Stalled, TypeOK
  <1>6. CASE r \in Requests /\ (MarkFailed(r))
    <2>1. row' \in [Requests -> [status: {"none", "pending", "completed", "failed"},
                                 targetsDeck: BOOLEAN]]
      BY <1>6, SettleTypes DEF MarkFailed
    <2> QED
      BY <1>6, <2>1, JobStepTypesBy DEF MarkFailed, TypeOK, JobTypes
  <1>7. CASE r \in Requests /\ (MarkFailedFails(r))
    <2>1. upsets' \in 0..MaxUpsets
      BY <1>7, QueueAssumption DEF MarkFailedFails, Upset, TypeOK
    <2> QED
      BY <1>7, <2>1, JobStepTypesBy DEF MarkFailedFails, TypeOK, JobTypes
  <1>8. CASE WorkerCrash
    <2>1. upsets' \in 0..MaxUpsets
      BY <1>8, QueueAssumption DEF WorkerCrash, Upset, TypeOK
    <2>2. interrupted' \in SUBSET Requests
      <3>1. \A l \in Runs : CutOff(l) => run[l].job \in Requests
        BY RunTypes DEF CutOff, Working
      <3> QED
        BY <1>8, <3>1 DEF WorkerCrash, TypeOK
    <2>3. run' \in [Runs -> {Idle} \cup Working]
      BY <1>8 DEF WorkerCrash
    <2> QED
      BY <1>8, <2>1, <2>2, <2>3, JobStepTypesBy DEF WorkerCrash, TypeOK, JobTypes
  <1> QED
    BY <1>1, <1>2, <1>3, <1>4, <1>5, <1>6, <1>7, <1>8 DEF JobStep

\* Runs end, and whoever of them held a lock gives its job back, or rows get a verdict.
RunsEnd == \A l \in Runs : run'[l] = run[l] \/ ~Busy(l)'

\* Jobs that no step touches, and that nobody starts, keep what JobInv says of them.
LEMMA JobsKept ==
  ASSUME TypeOK, JobInv, RunsEnd, Verdicts, NEW T \in SUBSET Requests,
         UNCHANGED call, lost \subseteq lost', failing \subseteq failing' \cup lost' \cup
           {q \in Requests : row'[q].status # "pending"},
         \A q \in Requests \ T : job'[q] = job[q],
         \A q \in T : /\ job[q].state # "none" /\ job'[q].state # "none"
                      /\ Live(q)' => job'[q].made < MaxTries
                      /\ Live(q)' \/ q \in failing' \/ q \in lost' \/ row'[q].status # "pending"
                      /\ job'[q].state = "done" => row'[q].status # "pending"
                      /\ \A l \in Runs : Works(l, q)' /\ run[l].lock => job'[q].state = "active"
  PROVE  JobInv'
  <1> USE DEF JobInv
  <1>1. \A q \in Requests : /\ row'[q].status = "none" <=> row[q].status = "none"
                            /\ row'[q].status = "pending" => row[q].status = "pending"
    BY DEF Verdicts
  <1>2. \A l \in Runs, q \in Requests : Works(l, q)' => Works(l, q) /\ run'[l] = run[l]
    BY DEF RunsEnd, Works, Busy
  <1>3. \A q \in T : /\ row[q].status # "none" /\ call[q] # "saved"
    BY DEF RowFollowsCall, NoJob
  <1>4. RowFollowsCall'
    BY <1>1, <1>3 DEF RowFollowsCall, NoJob
  <1>5. LockExclusive'
    BY <1>2 DEF LockExclusive
  <1>6. LiveJobsHaveTries'
    BY DEF LiveJobsHaveTries, Live
  <1>7. EndedDecided'
    BY <1>1, <1>2 DEF EndedDecided
  <1>8. PendingTended'
    <2> SUFFICES ASSUME NEW q \in Requests, row'[q].status = "pending"
                 PROVE  call[q] = "saved" \/ Live(q)' \/ q \in failing' \/ q \in lost'
      BY DEF PendingTended
    <2>1. CASE q \in T
      BY <2>1
    <2>2. CASE q \notin T
      <3>1. Live(q)' <=> Live(q)
        BY <2>2 DEF Live
      <3> QED
        BY <1>1, <3>1 DEF PendingTended
    <2> QED
      BY <2>1, <2>2
  <1> QED
    BY <1>4, <1>5, <1>6, <1>7, <1>8

LEMMA StartJobs ==
  ASSUME TypeOK, JobInv, NEW k \in Runs, Start(k)
  PROVE  JobInv'
  <1> USE DEF JobInv, store, marks
  <1>1. PICK r \in Requests :
          /\ job[r].state = "waiting" /\ job' = [job EXCEPT ![r].state = "active"]
          /\ run'[k] = [pc |-> "started", job |-> r, next |-> 1, created |-> {}, lock |-> TRUE]
          /\ \A l \in Runs \ {k} : run'[l] = run[l]
    BY StartTypes
  <1>2. UNCHANGED <<row, call, failing, lost>> /\ ~Busy(k)
    BY StartTypes
  <1>3. /\ \A q \in Requests \ {r} : job'[q] = job[q]
        /\ job'[r].state = "active" /\ job'[r].made = job[r].made
    BY <1>1 DEF TypeOK
  <1>4. /\ \A l \in Runs \ {k}, q \in Requests : Works(l, q)' <=> Works(l, q)
        /\ \A q \in Requests : Works(k, q)' <=> q = r
    BY <1>1 DEF Works, Busy
  <1>5. \A l \in Runs : Works(l, r) => ~run[l].lock
    BY <1>1 DEF LockExclusive
  <1>6. RowFollowsCall'
    BY <1>1, <1>2, <1>3 DEF RowFollowsCall, NoJob
  <1>7. LockExclusive'
    BY <1>1, <1>3, <1>4, <1>5 DEF LockExclusive
  <1>8. LiveJobsHaveTries' /\ PendingTended'
    BY <1>1, <1>2, <1>3 DEF LiveJobsHaveTries, PendingTended, Live
  <1>9. EndedDecided'
    BY <1>1, <1>2, <1>3, <1>4 DEF EndedDecided
  <1> QED
    BY <1>6, <1>7, <1>8, <1>9

LEMMA EndJobs ==
  ASSUME TypeOK, JobInv, NEW k \in Runs, Complete(k) \/ Throw(k)
  PROVE  JobInv'
  <1> USE DEF store, marks
  <1>1. PICK q \in Requests : Busy(k) /\ q = run[k].job /\ Works(k, q)
    BY RunTypes DEF Complete, Throw, Busy, Working, Works
  <1>2. ~Busy(k)' /\ \A l \in Runs \ {k} : run'[l] = run[l]
    BY ToIdle DEF Complete, Throw
  <1>3. RunsEnd /\ Verdicts /\ UNCHANGED <<row, call, lost>>
    BY <1>2 DEF RunsEnd, Complete, Throw, Verdicts
  <1>0. {q} \in SUBSET Requests
    BY <1>1
  <1>4. job[q].state # "none"
    BY <1>1 DEF JobInv, LockExclusive
  <1>5. CASE ~run[k].lock
    <2>1. UNCHANGED <<job, failing>>
      BY <1>5 DEF Complete, Throw
    <2>2. {} \in SUBSET Requests
      OBVIOUS
    <2>3. lost \subseteq lost' /\ failing \subseteq failing' \cup lost' \cup
            {p \in Requests : row'[p].status # "pending"}
      BY <1>3, <2>1
    <2>4. \A p \in Requests \ {} : job'[p] = job[p]
      BY <2>1
    <2> QED
      BY <1>3, <2>2, <2>3, <2>4, JobsKept
  <1>6. CASE run[k].lock
    <2>1. job[q].state = "active" /\ \A l \in Runs : Works(l, q)' => ~run[l].lock
      BY <1>1, <1>2, <1>6 DEF JobInv, LockExclusive, Works, Busy
    <2>2. CASE Complete(k)
      <3>1. job' = [job EXCEPT ![q].state = "done"] /\ failing' = failing
        BY <1>1, <1>6, <2>2 DEF Complete
      <3>2. row[q].status # "pending"
        BY <1>1, <2>2 DEF JobInv, EndedDecided, Complete
      <3>3. job'[q].state = "done" /\ \A p \in Requests \ {q} : job'[p] = job[p]
        BY <1>1, <3>1 DEF TypeOK
      <3> QED
        BY <1>0, <1>3, <1>4, <2>1, <3>1, <3>2, <3>3, JobsKept DEF Live
    <2>3. CASE Throw(k)
      <3>0. PICK made : made = job[q].made + 1
        OBVIOUS
      <3>1. job' = [job EXCEPT ![q].made = made, ![q].state = IF TriesLeft(made) THEN "delayed" ELSE "dead"]
            /\ OnFailed(q, made)
        BY <1>1, <1>6, <2>3, <3>0 DEF Throw
      <3>2. /\ job'[q].made = made /\ job'[q].state \in {"delayed", "dead"}
            /\ job'[q].state = "delayed" => made < MaxTries
            /\ job'[q].state = "dead" => ~(made < MaxTries)
            /\ \A p \in Requests \ {q} : job'[p] = job[p]
        BY <1>1, <3>1 DEF TypeOK, TriesLeft
      <3>3. failing \subseteq failing' /\ (job'[q].state = "dead" => q \in failing')
        BY <3>1, <3>2 DEF OnFailed, Exhausted
      <3> QED
        BY <1>0, <1>3, <1>4, <2>1, <3>2, <3>3, JobsKept DEF Live
    <2> QED
      BY <2>2, <2>3
  <1> QED
    BY <1>5, <1>6

LEMMA QueueJobs ==
  ASSUME TypeOK, JobInv, NEW r \in Requests,
         Retry(r) \/ Stalled(r) \/ MarkFailed(r) \/ MarkFailedFails(r)
  PROVE  JobInv'
  <1> USE DEF store, marks
  <1>1. UNCHANGED <<run, call>> /\ RunsEnd
    BY DEF Retry, Stalled, MarkFailed, MarkFailedFails, RunsEnd
  <1>2. {r} \in SUBSET Requests /\ {} \in SUBSET Requests
    OBVIOUS
  <1>3. \A l \in Runs : Works(l, r)' <=> Works(l, r)
    BY <1>1 DEF Works, Busy
  <1>4. CASE Retry(r)
    <2>1. /\ job[r].state = "delayed" /\ job'[r].state = "waiting" /\ job'[r].made = job[r].made
          /\ \A q \in Requests \ {r} : job'[q] = job[q]
          /\ UNCHANGED <<row, failing, lost>> /\ Verdicts
      BY <1>4 DEF Retry, TypeOK, Verdicts
    <2>2. job[r].made < MaxTries
      BY <2>1 DEF JobInv, LiveJobsHaveTries, Live
    <2>3. \A l \in Runs : Works(l, r) => ~run[l].lock
      BY <2>1 DEF JobInv, LockExclusive
    <2> QED
      BY <1>1, <1>2, <1>3, <2>1, <2>2, <2>3, JobsKept DEF Live
  <1>5. CASE Stalled(r)
    <2>1. job[r].state = "active" /\ job[r].made < MaxTries
          /\ UNCHANGED row /\ Verdicts
      BY <1>5 DEF Stalled, Verdicts, JobInv, LiveJobsHaveTries, Live
    <2>2. \A l \in Runs : Works(l, r) => ~run[l].lock
      BY <1>5 DEF Stalled, Holds, Works, Busy
    <2>3. CASE job[r].stalls < MaxStalls
      <3>1. /\ job'[r].state = "waiting" /\ job'[r].made = job[r].made
            /\ \A q \in Requests \ {r} : job'[q] = job[q]
            /\ UNCHANGED <<failing, lost>>
        BY <1>5, <2>3 DEF Stalled, TypeOK
      <3> QED
        BY <1>1, <1>2, <1>3, <2>1, <2>2, <3>1, JobsKept DEF Live
    <2>4. CASE ~(job[r].stalls < MaxStalls)
      <3>1. PICK made \in {job[r].made, job[r].made + 1} :
              /\ job' = [job EXCEPT ![r].state = "dead", ![r].made = made]
              /\ OnFailed(r, made)
              /\ lost' = IF Exhausted(made) THEN lost ELSE lost \cup {r}
        BY <1>5, <2>4 DEF Stalled
      <3>2. job'[r].state = "dead" /\ \A q \in Requests \ {r} : job'[q] = job[q]
        BY <3>1 DEF TypeOK
      <3>3. lost \subseteq lost' /\ failing \subseteq failing' /\ (r \in failing' \/ r \in lost')
        BY <3>1 DEF OnFailed
      <3> QED
        BY <1>1, <1>2, <1>3, <2>1, <2>2, <3>2, <3>3, JobsKept DEF Live
    <2> QED
      BY <2>3, <2>4
  <1>6. CASE MarkFailed(r)
    <2>1. Verdicts /\ row'[r].status # "pending" /\ UNCHANGED <<job, lost>> /\ failing' = failing \ {r}
      BY <1>6, SettleTypes DEF MarkFailed
    <2>2. failing \subseteq failing' \cup lost' \cup {p \in Requests : row'[p].status # "pending"}
      BY <2>1 DEF TypeOK
    <2>3. \A q \in Requests \ {} : job'[q] = job[q]
      BY <2>1
    <2> QED
      BY <1>1, <1>2, <2>1, <2>2, <2>3, JobsKept
  <1>7. CASE MarkFailedFails(r)
    <2>1. Verdicts /\ UNCHANGED <<row, job>> /\ failing' = failing \ {r} /\ lost' = lost \cup {r}
      BY <1>7 DEF MarkFailedFails, Verdicts
    <2>2. /\ failing \subseteq failing' \cup lost' \cup {p \in Requests : row'[p].status # "pending"}
          /\ lost \subseteq lost'
      BY <2>1
    <2>3. \A q \in Requests \ {} : job'[q] = job[q]
      BY <2>1
    <2> QED
      BY <1>1, <1>2, <2>1, <2>2, <2>3, JobsKept
  <1> QED
    BY <1>4, <1>5, <1>6, <1>7

LEMMA CrashJobs ==
  ASSUME TypeOK, JobInv, WorkerCrash
  PROVE  JobInv'
  <1> USE DEF store
  <1>1. /\ \A l \in Runs : ~Busy(l)'
        /\ failing' = {} /\ lost' = lost \cup failing
        /\ UNCHANGED <<row, call, job>>
    BY DEF WorkerCrash, Busy, Idle
  <1>2. /\ RunsEnd /\ Verdicts /\ lost \subseteq lost' /\ {} \in SUBSET Requests
        /\ failing \subseteq failing' \cup lost' \cup {p \in Requests : row'[p].status # "pending"}
        /\ \A q \in Requests \ {} : job'[q] = job[q]
    BY <1>1 DEF RunsEnd, Verdicts
  <1> QED
    BY <1>1, <1>2, JobsKept

\* No step of the queue or the worker undoes what JobInv says.
LEMMA JobStepJobs ==
  ASSUME TypeOK, JobInv, NEW k, NEW r, JobStep(k, r)
  PROVE  JobInv'
  BY StartJobs, EndJobs, QueueJobs, CrashJobs DEF JobStep

-----------------------------------------------------------------------------
(* The words of a job *)

\* A run that is cut off with words in hand leaves its mark.
LEMMA RunsEndWords ==
  ASSUME TypeOK, WordsTended, UNCHANGED <<createdBy, deck>>, Verdicts,
         \A r \in Requests : row'[r].targetsDeck = row[r].targetsDeck,
         interrupted \subseteq interrupted',
         \A l \in Runs : \/ run'[l] = run[l] \/ ~Busy(l)
                         \/ CutOff(l) => run[l].job \in interrupted'
  PROVE  WordsTended'
  <1>1. \A r \in Requests : row'[r].status = "none" => row[r].status = "none"
    BY DEF Verdicts
  <1>2. ASSUME NEW r \in Requests \ interrupted', row[r].targetsDeck,
               NEW word \in createdBy[r] \ deck
        PROVE  \E k \in Runs : Carries(k, word)' /\ run'[k].job = r
    <2>1. PICK k \in Runs : Carries(k, word) /\ run[k].job = r
      BY <1>2 DEF WordsTended
    <2>2. Busy(k) /\ CutOff(k)
      BY <2>1 DEF Carries, Busy, CutOff
    <2>3. run'[k] = run[k]
      BY <1>2, <2>1, <2>2
    <2> QED
      BY <2>1, <2>3 DEF Carries
  <1> QED
    BY <1>1, <1>2 DEF WordsTended

LEMMA JobStepWords ==
  ASSUME TypeOK, WordsTended, NEW k, NEW r, JobStep(k, r)
  PROVE  WordsTended'
  <1> USE DEF store, marks
  <1>1. CASE k \in Runs /\ (Start(k))
    <2>1. /\ ~Busy(k) /\ UNCHANGED <<store, call, failing, marks>>
          /\ \A l \in Runs \ {k} : run'[l] = run[l]
      BY <1>1, StartTypes
    <2>2. Verdicts
      BY <2>1 DEF Verdicts
    <2> QED
      BY <2>1, <2>2, RunsEndWords
  <1>2. CASE k \in Runs /\ (Complete(k) \/ Throw(k))
    <2>1. /\ \A l \in Runs \ {k} : run'[l] = run[l]
          /\ CutOff(k) => run[k].job \in interrupted'
          /\ interrupted \subseteq interrupted'
          /\ UNCHANGED store /\ Verdicts
      BY <1>2, ToIdle DEF Complete, Throw, CutOff, Verdicts
    <2> QED
      BY <2>1, RunsEndWords
  <1>3. CASE r \in Requests /\ (Retry(r) \/ Stalled(r) \/ MarkFailedFails(r))
    <2>1. UNCHANGED <<store, run, interrupted>> /\ Verdicts
      BY <1>3 DEF Retry, Stalled, MarkFailedFails, Verdicts
    <2> QED
      BY <2>1, RunsEndWords
  <1>4. CASE r \in Requests /\ (MarkFailed(r))
    <2>1. /\ Verdicts /\ UNCHANGED <<deck, createdBy, run, interrupted>>
          /\ \A q \in Requests : row'[q].targetsDeck = row[q].targetsDeck
      BY <1>4, SettleTypes DEF MarkFailed
    <2> QED
      BY <2>1, RunsEndWords
  <1>5. CASE WorkerCrash
    <2>1. /\ UNCHANGED store /\ Verdicts /\ interrupted \subseteq interrupted'
          /\ \A l \in Runs : CutOff(l) => run[l].job \in interrupted'
      BY <1>5 DEF WorkerCrash, Verdicts
    <2> QED
      BY <2>1, RunsEndWords
  <1> QED
    BY <1>1, <1>2, <1>3, <1>4, <1>5 DEF JobStep

\* What the run has created it keeps in hand until it has appended it.
LEMMA QuietStepWords ==
  ASSUME TypeOK, JobInv, DraftInHand, WordsTended, NEW k \in Runs, QuietStep(k)
  PROVE  WordsTended'
  <1> USE DEF store, marks
  <1>1. /\ Verdicts /\ GoesOn(k) /\ interrupted' = interrupted /\ TypeOK'
        /\ \A r \in Requests : row'[r].targetsDeck = row[r].targetsDeck
    BY QuietStepTypes, QuietStepGoesOn
  <1>2. PICK q \in Requests : q = run[k].job /\ run[k] \in Working /\ run'[k].job = q /\ Works(k, q)
    BY <1>1, RunTypes DEF GoesOn, Working, Works
  <1>3. row[q].status # "none" /\ \A r \in Requests : row'[r].status = "none" => row[r].status = "none"
    <2>1. job[q] # NoJob
      BY <1>2 DEF JobInv, LockExclusive, NoJob
    <2> QED
      BY <1>1, <2>1 DEF JobInv, RowFollowsCall, Verdicts
  <1>4. CASE ReadJob(k) \/ Prepare(k) \/ PrepareNothing(k) \/ Finish(k)
    <2>1. ~CutOff(k) /\ UNCHANGED <<createdBy, deck>>
      BY <1>4 DEF ReadJob, Prepare, PrepareNothing, Finish, CutOff
    <2> QED
      BY <1>1, <2>1, RunsEndWords DEF GoesOn
  <1>5. ASSUME UNCHANGED createdBy, deck \subseteq deck',
               \A word \in createdBy[q] \ deck' :
                 row[q].targetsDeck /\ Carries(k, word) => Carries(k, word)'
        PROVE  WordsTended'
    <2>1. ASSUME NEW r \in Requests \ interrupted, row[r].targetsDeck,
                 NEW word \in createdBy[r] \ deck'
          PROVE  \E l \in Runs : Carries(l, word)' /\ run'[l].job = r
      <3>1. PICK l \in Runs : Carries(l, word) /\ run[l].job = r
        BY <1>5, <2>1 DEF WordsTended
      <3>2. CASE l = k
        BY <1>2, <1>5, <2>1, <3>1, <3>2
      <3>3. CASE l # k
        BY <1>1, <3>1, <3>3 DEF Carries, GoesOn
      <3> QED
        BY <3>2, <3>3
    <2> QED
      BY <1>1, <1>3, <1>5, <2>1 DEF WordsTended
  <1>6. CASE LookUp(k) \/ LoseLock(k)
    <2>1. /\ UNCHANGED <<createdBy, deck>> /\ run'[k].created = run[k].created
          /\ run[k].pc \in {"looking", "creating", "appending"}
               => run'[k].pc \in {"looking", "creating", "appending"}
      BY <1>2, <1>6 DEF LookUp, LoseLock, TypeOK, Working
    <2> QED
      BY <1>5, <2>1 DEF Carries
  <1>7. CASE EndLoop(k)
    <2>1. /\ UNCHANGED <<createdBy, deck>> /\ run'[k].created = run[k].created
          /\ run'[k].pc = IF Appends(q, run[k].created) THEN "appending" ELSE "finishing"
      BY <1>2, <1>7 DEF EndLoop, TypeOK, Working
    <2>2. \A word : row[q].targetsDeck /\ Carries(k, word) => Carries(k, word)'
      BY <2>1 DEF Carries, Appends
    <2> QED
      BY <1>5, <2>1, <2>2
  <1>8. CASE AppendMembers(k)
    <2>1. /\ deck' = deck \cup (run[k].created \cap words) /\ UNCHANGED createdBy
          /\ createdBy[q] \subseteq words
      BY <1>8 DEF AppendMembers, TypeOK
    <2>2. \A word \in createdBy[q] \ deck' : ~Carries(k, word)
      BY <2>1 DEF Carries
    <2> QED
      BY <1>5, <2>1, <2>2
  <1>9. CASE Create(k)
    <2>1. PICK new : new = Drafts[run[k].next]
      OBVIOUS
    <2>2. /\ createdBy' = [createdBy EXCEPT ![q] = @ \cup {new}] /\ UNCHANGED <<deck, row>>
          /\ run' = [run EXCEPT ![k].pc = "looking", ![k].next = @ + 1, ![k].created = @ \cup {new}]
          /\ run[k].pc = "creating"
      BY <1>2, <1>9, <2>1 DEF Create
    <2>3. /\ createdBy'[q] = createdBy[q] \cup {new}
          /\ \A r \in Requests \ {q} : createdBy'[r] = createdBy[r]
      BY <2>2 DEF TypeOK
    <2>4. run'[k].pc = "looking" /\ run'[k].created = run[k].created \cup {new}
      BY <1>2, <2>2 DEF TypeOK, Working
    <2>5. \A word : Carries(k, word) \/ word = new => Carries(k, word)'
      BY <2>4 DEF Carries
    <2>6. ASSUME NEW r \in Requests \ interrupted, row[r].targetsDeck,
                 NEW word \in createdBy'[r] \ deck
          PROVE  \E l \in Runs : Carries(l, word)' /\ run'[l].job = r
      <3>1. CASE word \in createdBy[r]
        <4>1. PICK l \in Runs : Carries(l, word) /\ run[l].job = r
          BY <2>6, <3>1 DEF WordsTended
        <4> QED
          BY <1>1, <1>2, <2>5, <4>1 DEF Carries, GoesOn
      <3>2. CASE word \notin createdBy[r]
        BY <1>2, <2>3, <2>5, <2>6, <3>2
      <3> QED
        BY <3>1, <3>2
    <2> QED
      BY <1>1, <1>3, <2>2, <2>3, <2>6 DEF WordsTended
  <1> QED
    BY <1>4, <1>6, <1>7, <1>8, <1>9 DEF QuietStep

LEMMA RequestStepWords ==
  ASSUME TypeOK, JobInv, WordsTended, NEW r \in Requests, RequestStep(r)
  PROVE  WordsTended'
  <1>1. UNCHANGED <<run, deck, createdBy, interrupted>>
    BY RequestStepTypes
  <1>2. \A q \in Requests : /\ row'[q].status = "none" => row[q].status = "none"
                            /\ row'[q].targetsDeck = row[q].targetsDeck \/ createdBy[q] = {}
    <2>1. ASSUME NEW import \in BOOLEAN, Ask(r, import)
          PROVE  \A q \in Requests : /\ row'[q].status = "none" => row[q].status = "none"
                                     /\ row'[q].targetsDeck = row[q].targetsDeck \/ createdBy[q] = {}
      <3>1. createdBy[r] = {}
        BY <2>1 DEF Ask, JobInv, RowFollowsCall, WordsTended
      <3> QED
        BY <2>1, <3>1 DEF Ask, TypeOK
    <2>2. CASE SaveJob(r)
      BY <2>2 DEF SaveJob, TypeOK
    <2>3. CASE Enqueue(r) \/ EnqueueFails(r) \/ ApiCrash(r)
      BY <2>3 DEF Enqueue, EnqueueFails, ApiCrash, store
    <2> QED
      BY <2>1, <2>2, <2>3 DEF RequestStep, ApiStep, QuickCreateUserVocabulary,
         BulkQuickCreateUserVocabulary
  <1>3. \A k \in Runs : \A word : Carries(k, word)' <=> Carries(k, word)
    BY <1>1 DEF Carries
  <1> QED
    BY <1>1, <1>2, <1>3 DEF WordsTended

\* A word that is deleted is gone everywhere.
LEMMA DeleteWordKept ==
  ASSUME IInv, NEW word \in Words, DeleteWord(word)
  PROVE  IInv'
  <1> USE DEF IInv, marks
  <1>1. /\ words' = words \ {word} /\ deck' = deck \ {word}
        /\ createdBy' = [r \in Requests |-> createdBy[r] \ {word}]
        /\ UNCHANGED <<row, call, job, run, failing, marks>>
    BY DEF DeleteWord
  <1>2. TypeOK'
    <2>1. upsets' \in 0..MaxUpsets
      BY QueueAssumption DEF DeleteWord, Upset, TypeOK
    <2>2. words' \in SUBSET Words /\ deck' \in SUBSET words' /\ createdBy' \in [Requests -> SUBSET words']
      BY <1>1 DEF TypeOK
    <2> QED
      BY <1>1, <2>1, <2>2 DEF TypeOK
  <1>3. JobInv' /\ DraftInHand'
    BY <1>1 DEF JobInv, RowFollowsCall, LockExclusive, LiveJobsHaveTries, EndedDecided,
         PendingTended, DraftInHand, Works, Busy, Live, NoJob
  <1>4. WordsTended'
    BY <1>1 DEF WordsTended, Carries
  <1>5. OneInFlight'
    BY <1>1 DEF OneInFlight, Pending
  <1> QED
    BY <1>2, <1>3, <1>4, <1>5

-----------------------------------------------------------------------------
(* Requests side by side *)

LEMMA VerdictsKeepOne ==
  ASSUME OneInFlight, Verdicts, UNCHANGED <<call, overlapped>>
  PROVE  OneInFlight'
  BY DEF OneInFlight, Pending, Verdicts

LEMMA RequestStepOne ==
  ASSUME TypeOK, JobInv, OneInFlight, NEW r \in Requests, RequestStep(r)
  PROVE  OneInFlight'
  <1> USE DEF store, marks
  <1>1. ASSUME NEW import \in BOOLEAN, Ask(r, import) PROVE OneInFlight'
    <2>1. \A q \in Requests : row'[q].status = row[q].status
      BY <1>1 DEF Ask, TypeOK
    <2>2. CASE AlreadyHandled(import)
      BY <1>1, <2>1, <2>2 DEF Ask, OneInFlight, Pending, TypeOK
    <2>3. CASE ~AlreadyHandled(import)
      <3>1. call' = [call EXCEPT ![r] = "admitted"] /\ Pending = {}
            /\ overlapped' = (overlapped \/ \E q \in Requests : call[q] = "admitted")
        BY <1>1, <2>3 DEF Ask, AlreadyHandled
      <3>2. \A q \in Requests : row'[q].status # "pending"
        BY <2>1, <3>1 DEF Pending
      <3> QED
        BY <3>1, <3>2 DEF OneInFlight, Pending, TypeOK
    <2> QED
      BY <2>2, <2>3
  <1>2. CASE SaveJob(r)
    <2>1. /\ \A q \in Requests \ {r} : row'[q] = row[q] /\ call'[q] = call[q]
          /\ call[r] = "admitted" /\ call'[r] = "saved" /\ overlapped' = overlapped
      BY <1>2 DEF SaveJob, TypeOK
    <2> QED
      BY <2>1 DEF OneInFlight, Pending
  <1>3. CASE Enqueue(r) \/ EnqueueFails(r) \/ ApiCrash(r)
    BY <1>3 DEF Enqueue, EnqueueFails, ApiCrash, OneInFlight, Pending, TypeOK
  <1> QED
    BY <1>1, <1>2, <1>3 DEF RequestStep, ApiStep, QuickCreateUserVocabulary,
       BulkQuickCreateUserVocabulary

\* The steps of the queue give verdicts and touch no request.
LEMMA JobStepVerdicts ==
  ASSUME TypeOK, NEW k, NEW r, JobStep(k, r)
  PROVE  Verdicts
  <1> USE DEF store, marks
  <1>1. CASE r \in Requests /\ (MarkFailed(r))
    BY <1>1, SettleTypes DEF MarkFailed
  <1>2. CASE \/ Start(k) \/ Complete(k) \/ Throw(k)
             \/ Retry(r) \/ Stalled(r) \/ MarkFailedFails(r) \/ WorkerCrash
    BY <1>2 DEF Start, Complete, Throw, Retry, Stalled, MarkFailedFails, WorkerCrash, Verdicts
  <1> QED
    BY <1>1, <1>2 DEF JobStep

\* The four kinds of steps there are.
LEMMA StepKinds ==
  ASSUME Next
  PROVE  \/ \E r \in Requests : RequestStep(r)
         \/ \E k \in Runs : QuietStep(k)
         \/ \E word \in Words : DeleteWord(word)
         \/ WorkerCrash
         \/ \E k \in Runs : Start(k) \/ Complete(k) \/ Throw(k)
         \/ \E r \in Requests : Retry(r) \/ Stalled(r) \/ MarkFailed(r) \/ MarkFailedFails(r)
  BY DEF Next, RequestStep, QuietStep, RunStep, QueueStep, ApiStep

\* What every step of the queue or the worker keeps.
LEMMA JobStepKept ==
  ASSUME IInv, NEW k, NEW r, JobStep(k, r), DraftInHand'
  PROVE  IInv'
  BY JobStepTypes, JobStepJobs, JobStepWords, JobStepVerdicts, VerdictsKeepOne DEF IInv, JobInv

LEMMA StepInv == IInv /\ [Next]_vars => IInv'
  <1> SUFFICES ASSUME IInv, [Next]_vars PROVE IInv'
    OBVIOUS
  <1>1. CASE UNCHANGED vars
    BY <1>1 DEF vars, store, marks, IInv, TypeOK, JobInv, RowFollowsCall, LockExclusive,
       LiveJobsHaveTries, EndedDecided, PendingTended, DraftInHand, WordsTended, OneInFlight,
       Works, Busy, Live, NoJob, Carries, Pending
  <1>2. ASSUME NEW r \in Requests, RequestStep(r) PROVE IInv'
    <2>1. DraftInHand'
      BY <1>2, RequestStepTypes DEF IInv, DraftInHand
    <2> QED
      BY <1>2, <2>1, RequestStepTypes, RequestStepJobs, RequestStepWords, RequestStepOne DEF IInv
  <1>3. ASSUME NEW k \in Runs, QuietStep(k) PROVE IInv'
    BY <1>3, QuietStepTypes, QuietStepGoesOn, QuietStepJobs, QuietStepWords, VerdictsKeepOne DEF IInv
  <1>4. ASSUME NEW word \in Words, DeleteWord(word) PROVE IInv'
    BY <1>4, DeleteWordKept
  <1>5. ASSUME NEW k, NEW r, JobStep(k, r) PROVE IInv'
    <2>1. DraftInHand'
      <3>1. CASE k \in Runs /\ Start(k)
        <4>1. run'[k].pc = "started" /\ \A l \in Runs \ {k} : run'[l] = run[l]
          <5>1. PICK q \in Requests :
                  /\ run'[k] = [pc |-> "started", job |-> q, next |-> 1, created |-> {}, lock |-> TRUE]
                  /\ \A l \in Runs \ {k} : run'[l] = run[l]
            BY <3>1, StartTypes DEF IInv
          <5> QED
            BY <5>1
        <4> QED
          BY <4>1 DEF IInv, DraftInHand
      <3>2. CASE k \in Runs /\ (Complete(k) \/ Throw(k))
        <4>1. ~Busy(k)' /\ \A l \in Runs \ {k} : run'[l] = run[l]
          BY <3>2, ToIdle DEF IInv, Complete, Throw
        <4> QED
          BY <4>1 DEF IInv, DraftInHand, Busy
      <3>3. CASE r \in Requests /\ (Retry(r) \/ Stalled(r) \/ MarkFailed(r) \/ MarkFailedFails(r))
        BY <3>3 DEF IInv, DraftInHand, Retry, Stalled, MarkFailed, MarkFailedFails
      <3>4. CASE WorkerCrash
        BY <3>4 DEF DraftInHand, WorkerCrash, Idle
      <3> QED
        BY <1>5, <3>1, <3>2, <3>3, <3>4 DEF JobStep
    <2> QED
      BY <1>5, <2>1, JobStepKept
  <1>6. ASSUME \/ WorkerCrash
               \/ \E k \in Runs : Start(k) \/ Complete(k) \/ Throw(k)
               \/ \E r \in Requests : Retry(r) \/ Stalled(r) \/ MarkFailed(r) \/ MarkFailedFails(r)
        PROVE  IInv'
    <2>1. \E k, r : JobStep(k, r)
      BY <1>6 DEF JobStep
    <2> QED
      BY <1>5, <2>1
  <1> QED
    BY <1>1, <1>2, <1>3, <1>4, <1>6, StepKinds

LEMMA Invariance == Spec => []IInv
  BY InvInit, StepInv, PTL DEF Spec

-----------------------------------------------------------------------------
(* The theorems *)

\* Rows, jobs, runs and words keep their types: no job is tried more often than
\* opts.attempts, no run reads past its drafts, no deck has a word that is gone.
THEOREM TypeCorrect == Spec => []TypeOK
  <1>1. IInv => TypeOK
    BY DEF IInv
  <1> QED
    BY <1>1, Invariance, PTL

\* Every word an import created is in its deck once its job is completed and no
\* run of it is left, however runs, retries, lost locks and deletions
\* interleave, unless a run was cut off between creating and appending
\* (enrichment.processor.ts).
THEOREM ImportsDelivered == Spec => []DeliveredUnlessInterrupted
  <1>1. IInv => DeliveredUnlessInterrupted
    <2> SUFFICES ASSUME IInv, NEW r \in Requests \ interrupted, row[r].targetsDeck,
                        \A k \in Runs : run[k].pc # "idle" => run[k].job # r,
                        NEW word \in createdBy[r] \ deck
                 PROVE  FALSE
      BY DEF DeliveredUnlessInterrupted, Delivered
    <2>1. PICK k \in Runs : Carries(k, word) /\ run[k].job = r
      BY DEF IInv, WordsTended
    <2> QED
      BY <2>1 DEF Carries
  <1> QED
    BY <1>1, Invariance, PTL

\* A pending row nobody will look at again is one of those that a refusal of
\* Redis, a crash or a failing UPDATE lost (vocabularies.service.ts,
\* enrichment-queue.producer.ts, enrichment.processor.ts).
THEOREM StuckAreLost == Spec => []StuckOnlyIfLost
  <1>1. IInv => StuckOnlyIfLost
    <2> SUFFICES ASSUME IInv, NEW r \in Requests, Stuck(r) PROVE r \in lost
      BY DEF StuckOnlyIfLost
    <2>1. /\ row[r].status = "pending" /\ call[r] # "saved" /\ r \notin failing
          /\ job[r].state \in {"none", "done", "dead"}
      BY DEF Stuck
    <2> QED
      BY <2>1 DEF IInv, JobInv, PendingTended, Live
  <1> QED
    BY <1>1, Invariance, PTL

\* The check for a pending job admits one request at a time: without overlap
\* there is one pending job for the lemma at most (vocabularies.service.ts:422).
THEOREM OnePending == Spec => []OnePendingJobUnlessOverlapping
  <1>1. IInv => OnePendingJobUnlessOverlapping
    <2> SUFFICES ASSUME IInv, ~overlapped PROVE Cardinality(Pending) <= 1
      BY DEF OnePendingJobUnlessOverlapping
    <2>1. CASE Pending = {}
      BY <2>1, FS_EmptySet
    <2>2. CASE Pending # {}
      <3>1. PICK r \in Pending : TRUE
        BY <2>2
      <3>2. Pending = {r}
        BY <3>1 DEF IInv, OneInFlight
      <3>3. Cardinality(Pending) = 1
        BY <3>2, FS_Singleton
      <3> QED
        BY <3>3
    <2> QED
      BY <2>1, <2>2
  <1> QED
    BY <1>1, Invariance, PTL

\* The rows' verdicts, as an attempt's life sees them.
Verdict == [r \in Requests |-> IF row[r].status = "completed" THEN "scored" ELSE row[r].status]

\* Every write of a request or of the worker to vocab_enrichment_jobs is a step
\* of the life of an attempt, or none: one verdict, never revised.
THEOREM Refinement == Spec => ImplementsLifecycle
  <1>1. Init => Lifecycle!Init
    BY DEF Init, Lifecycle!Init
  <1>2. IInv /\ [Next]_vars => [Lifecycle!Next]_Verdict
    <2> SUFFICES ASSUME IInv, [Next]_vars, Verdict' # Verdict
                 PROVE  Lifecycle!Next
      OBVIOUS
    <2>0. TypeOK /\ Next
      BY DEF IInv, vars, store, Verdict
    <2>1. \A r \in Requests : Verdict[r] = IF row[r].status = "completed" THEN "scored"
                                                                         ELSE row[r].status
      BY DEF Verdict
    <2>2. ASSUME NEW r \in Requests, SaveJob(r) PROVE Lifecycle!Next
      <3>1. row[r].status = "none"
        BY <2>2 DEF IInv, JobInv, RowFollowsCall, SaveJob
      <3>2. Verdict' = [Verdict EXCEPT ![r] = "pending"] /\ Verdict[r] = "none"
        BY <2>0, <2>2, <3>1 DEF SaveJob, Verdict, TypeOK
      <3> QED
        BY <3>2 DEF Lifecycle!Next, Lifecycle!Submit, Verdict
    <2>3. ASSUME NEW r \in Requests, NEW verdict \in {"completed", "failed"}, Settle(r, verdict)
          PROVE  Lifecycle!Next
      <3>1. row[r].status = "pending" /\ row' = [row EXCEPT ![r].status = verdict]
        BY <2>3 DEF Settle, Verdict
      <3>2. /\ Verdict[r] = "pending"
            /\ Verdict' = [Verdict EXCEPT ![r] = IF verdict = "completed" THEN "scored" ELSE verdict]
        BY <2>0, <3>1 DEF Verdict, TypeOK
      <3> QED
        BY <3>2 DEF Lifecycle!Next, Lifecycle!Score, Lifecycle!Fail, Verdict
    <2>4. ASSUME NEW k \in Runs, PrepareNothing(k) \/ Finish(k) PROVE Lifecycle!Next
      <3>1. run[k].job \in Requests
        BY <2>0, <2>4, RunTypes DEF PrepareNothing, Finish, Busy, Working
      <3> QED
        BY <2>3, <2>4, <3>1 DEF PrepareNothing, Finish
    <2>5. ASSUME NEW r \in Requests, MarkFailed(r) PROVE Lifecycle!Next
      BY <2>3, <2>5 DEF MarkFailed
    <2>6. ASSUME NEW r \in Requests, NEW import \in BOOLEAN, Ask(r, import) PROVE FALSE
      <3>1. \A q \in Requests : row'[q].status = row[q].status
        BY <2>0, <2>6 DEF Ask, TypeOK
      <3> QED
        BY <3>1 DEF Verdict
    <2>7. ASSUME row' = row PROVE FALSE
      BY <2>7 DEF Verdict
    <2>8. ASSUME NEW r \in Requests,
                 \/ Enqueue(r) \/ Retry(r) \/ Stalled(r) \/ EnqueueFails(r) \/ ApiCrash(r)
                 \/ MarkFailedFails(r)
          PROVE  FALSE
      BY <2>7, <2>8 DEF Enqueue, Retry, Stalled, EnqueueFails, ApiCrash, MarkFailedFails, store
    <2>9. ASSUME NEW k \in Runs,
                 \/ Start(k) \/ ReadJob(k) \/ Prepare(k) \/ LookUp(k) \/ Create(k) \/ EndLoop(k)
                 \/ AppendMembers(k) \/ Complete(k) \/ Throw(k) \/ LoseLock(k)
          PROVE  FALSE
      BY <2>7, <2>9 DEF Start, ReadJob, Prepare, LookUp, Create, EndLoop, AppendMembers, Complete,
         Throw, LoseLock, store
    <2>10. ~WorkerCrash /\ ~\E word \in Words : DeleteWord(word)
      BY <2>7 DEF WorkerCrash, DeleteWord, store
    <2> QED
      BY <2>0, <2>2, <2>4, <2>5, <2>6, <2>8, <2>9, <2>10 DEF Next, ApiStep, RunStep, QueueStep,
         QuickCreateUserVocabulary, BulkQuickCreateUserVocabulary
  <1> QED
    BY <1>1, <1>2, Invariance, PTL DEF Spec, ImplementsLifecycle, Lifecycle!Spec, Verdict
=============================================================================
