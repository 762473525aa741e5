----------------------------- MODULE Enrichment ------------------------------
(***************************************************************************)
(* Enrichment jobs of one learner for one lemma                            *)
(* (src/src/vocabularies): the quick-create and deck-import requests that  *)
(* create and enqueue them (vocabularies.service.ts,                       *)
(* enrichment-queue.producer.ts), and the worker that turns each into one  *)
(* word per part of speech and appends them to the deck                    *)
(* (enrichment/enrichment.processor.ts).                                   *)
(*                                                                         *)
(* The queue behaves as in PracticeScoring.  The drafts of a lemma are the *)
(* same for every run: the first usable answer is cached.                  *)
(***************************************************************************)
EXTENDS Naturals, Sequences, FiniteSets

CONSTANTS
  Requests,        \* requests; the job row a request creates carries its id
  Runs,            \* processor runs that can be under way at once
  Drafts,          \* the parts of speech of the lemma, in the order of the drafts
  MaxTries,        \* opts.attempts of the job
  MaxStalls,       \* BullMQ's maxStalledCount
  MaxUpsets        \* bound: crashes, lost locks, errors and deletions considered

ASSUME QueueAssumption == MaxTries \in Nat \ {0} /\ MaxStalls \in Nat /\ MaxUpsets \in Nat
ASSUME DraftsAssumption ==
  /\ Drafts \in Seq(STRING)
  /\ \A i, j \in DOMAIN Drafts : Drafts[i] = Drafts[j] => i = j

VARIABLES
  row,             \* vocab_enrichment_jobs: status, and whether a deck is the target
  call,            \* where each request is
  job,             \* the queue's job of each row
  run,             \* what each processor run is doing
  words,           \* parts of speech for which the learner has a word
  deck,            \* those of them that are members of the target deck
  createdBy,       \* history: of those words, the ones a job created
  failing,         \* jobs whose last failure onFailed is about to write
  upsets,          \* crashes, lost locks, errors and deletions so far
  overlapped,      \* history: two requests passed the pending check side by side
  interrupted,     \* history: jobs a run of which stopped with words it had not appended
  lost             \* history: jobs cut off from the queue or from their last record

store == <<row, words, deck, createdBy>>
marks == <<overlapped, interrupted, lost>>
vars == <<store, call, job, run, failing, upsets, marks>>

Words == {Drafts[i] : i \in DOMAIN Drafts}

Idle == [pc |-> "idle"]
Working ==
  [pc: {"started", "preparing", "looking", "creating", "appending", "finishing", "returned"},
   job: Requests, next: 1..(Len(Drafts) + 1), created: SUBSET Words, lock: BOOLEAN]

TypeOK ==
  /\ row \in [Requests -> [status: {"none", "pending", "completed", "failed"},
                           targetsDeck: BOOLEAN]]
  /\ call \in [Requests -> {"idle", "admitted", "saved", "answered"}]
  /\ job \in [Requests -> [state: {"none", "waiting", "active", "delayed", "done", "dead"},
                           made: 0..MaxTries, stalls: 0..MaxStalls]]
  /\ run \in [Runs -> {Idle} \cup Working]
  /\ words \in SUBSET Words
  /\ deck \in SUBSET words
  /\ createdBy \in [Requests -> SUBSET words]
  /\ failing \in SUBSET Requests
  /\ upsets \in 0..MaxUpsets
  /\ overlapped \in BOOLEAN
  /\ interrupted \in SUBSET Requests
  /\ lost \in SUBSET Requests

Init ==
  /\ row = [r \in Requests |-> [status |-> "none", targetsDeck |-> FALSE]]
  /\ call = [r \in Requests |-> "idle"]
  /\ job = [r \in Requests |-> [state |-> "none", made |-> 0, stalls |-> 0]]
  /\ run = [k \in Runs |-> Idle]
  /\ words = {} /\ deck = {}
  /\ createdBy = [r \in Requests |-> {}]
  /\ failing = {} /\ upsets = 0
  /\ overlapped = FALSE /\ interrupted = {} /\ lost = {}

Pending == {r \in Requests : row[r].status = "pending"}

-----------------------------------------------------------------------------
(* quickCreateUserVocabulary, and bulkQuickCreateUserVocabulary for this lemma *)

\* Mutant of AlreadyHandled: pending jobs are overlooked.
AlreadyHandled_WordsOnly(import) == words # {}

\* A pending job answers any request; an import also skips words it finds.
AlreadyHandled(import) == Pending # {} \/ (import /\ words # {})

Ask(r, import) ==
  /\ call[r] = "idle"
  /\ IF AlreadyHandled(import)
     THEN /\ call' = [call EXCEPT ![r] = "answered"]
          /\ UNCHANGED <<row, overlapped>>
     ELSE /\ call' = [call EXCEPT ![r] = "admitted"]
          /\ row' = [row EXCEPT ![r].targetsDeck = import]
          /\ overlapped' = (overlapped \/ \E q \in Requests : call[q] = "admitted")
  /\ UNCHANGED <<job, run, words, deck, createdBy, failing, upsets, interrupted, lost>>

QuickCreateUserVocabulary(r) == Ask(r, FALSE)
BulkQuickCreateUserVocabulary(r) == Ask(r, TRUE)

SaveJob(r) ==
  /\ call[r] = "admitted"
  /\ row' = [row EXCEPT ![r].status = "pending"]
  /\ call' = [call EXCEPT ![r] = "saved"]
  /\ UNCHANGED <<job, run, words, deck, createdBy, failing, upsets, marks>>

Enqueue(r) ==
  /\ call[r] = "saved"
  /\ job' = [job EXCEPT ![r].state = "waiting"]
  /\ call' = [call EXCEPT ![r] = "answered"]
  /\ UNCHANGED <<store, run, failing, upsets, marks>>

-----------------------------------------------------------------------------
(* The worker *)

Holds(r) == \E k \in Runs : run[k].pc # "idle" /\ run[k].job = r /\ run[k].lock

Start(k) ==
  /\ run[k] = Idle
  /\ \E r \in Requests :
       /\ job[r].state = "waiting"
       /\ job' = [job EXCEPT ![r].state = "active"]
       /\ run' = [run EXCEPT ![k] = [pc |-> "started", job |-> r, next |-> 1,
                                     created |-> {}, lock |-> TRUE]]
  /\ UNCHANGED <<store, call, failing, upsets, marks>>

ReadJob(k) ==
  /\ run[k].pc = "started"
  /\ run' = [run EXCEPT ![k].pc =
       IF row[run[k].job].status = "pending" THEN "preparing" ELSE "returned"]
  /\ UNCHANGED <<store, call, job, failing, upsets, marks>>

\* Mutant of Settle: the guard on the status dropped.
Settle_Unguarded(r, verdict) ==
  row' = IF row[r].status # "none" THEN [row EXCEPT ![r].status = verdict] ELSE row

\* Every write of a verdict is UPDATE ... WHERE status = 'pending'.
Settle(r, verdict) ==
  row' = IF row[r].status = "pending" THEN [row EXCEPT ![r].status = verdict] ELSE row

\* Drafts from the cache, the dictionary or the model.
Prepare(k) ==
  /\ run[k].pc = "preparing"
  /\ run' = [run EXCEPT ![k].pc = "looking"]
  /\ UNCHANGED <<store, call, job, failing, upsets, marks>>

\* "enrichment produced no usable content"
PrepareNothing(k) ==
  /\ run[k].pc = "preparing"
  /\ Settle(run[k].job, "failed")
  /\ run' = [run EXCEPT ![k].pc = "returned"]
  /\ UNCHANGED <<call, job, words, deck, createdBy, failing, upsets, marks>>

\* The exists query of the next draft.
LookUp(k) ==
  /\ run[k].pc = "looking"
  /\ run[k].next <= Len(Drafts)
  /\ run' = IF Drafts[run[k].next] \in words
            THEN [run EXCEPT ![k].next = @ + 1]
            ELSE [run EXCEPT ![k].pc = "creating"]
  /\ UNCHANGED <<store, call, job, failing, upsets, marks>>

\* One transaction, unless the unique index refuses it (then the run throws).
Create(k) ==
  /\ run[k].pc = "creating"
  /\ LET word == Drafts[run[k].next]
     IN /\ word \notin words
        /\ words' = words \cup {word}
        /\ createdBy' = [createdBy EXCEPT ![run[k].job] = @ \cup {word}]
        /\ run' = [run EXCEPT ![k].pc = "looking", ![k].next = @ + 1,
                              ![k].created = @ \cup {word}]
  /\ UNCHANGED <<row, deck, call, job, failing, upsets, marks>>

\* Mutant of Appends: only a job that created every draft appends.
Appends_OnlyComplete(r, created) ==
  row[r].targetsDeck /\ Cardinality(created) = Len(Drafts)

Appends(r, created) == row[r].targetsDeck /\ created # {}

EndLoop(k) ==
  /\ run[k].pc = "looking"
  /\ run[k].next > Len(Drafts)
  /\ run' = [run EXCEPT ![k].pc =
       IF Appends(run[k].job, run[k].created) THEN "appending" ELSE "finishing"]
  /\ UNCHANGED <<store, call, job, failing, upsets, marks>>

\* appendMembersTx drops what has been deleted since.
AppendMembers(k) ==
  /\ run[k].pc = "appending"
  /\ deck' = deck \cup (run[k].created \cap words)
  /\ run' = [run EXCEPT ![k].pc = "finishing"]
  /\ UNCHANGED <<row, words, createdBy, call, job, failing, upsets, marks>>

Finish(k) ==
  /\ run[k].pc = "finishing"
  /\ Settle(run[k].job, "completed")
  /\ run' = [run EXCEPT ![k].pc = "returned"]
  /\ UNCHANGED <<call, job, words, deck, createdBy, failing, upsets, marks>>

\* The processor returned: only the holder of the lock completes the job.
Complete(k) ==
  /\ run[k].pc = "returned"
  /\ job' = IF run[k].lock THEN [job EXCEPT ![run[k].job].state = "done"] ELSE job
  /\ run' = [run EXCEPT ![k] = Idle]
  /\ UNCHANGED <<store, call, failing, upsets, marks>>

\* Mutant of Exhausted: never true.
Exhausted_Never(made) == FALSE

Exhausted(made) == ~(made < MaxTries)

\* Mutant of TriesLeft: one try more.
TriesLeft_OneMore(made) == made <= MaxTries

TriesLeft(made) == made < MaxTries

\* The 'failed' event: only the last failure is to be recorded.
OnFailed(r, made) ==
  failing' = IF Exhausted(made) THEN failing \cup {r} ELSE failing

\* Words that leave the loop's memory before they reach the deck.
CutOff(k) ==
  /\ run[k].pc \in {"looking", "creating", "appending"}
  /\ run[k].created # {}

\* Any query, the dictionary or the model may fail under the run.
Throw(k) ==
  /\ run[k].pc \notin {"idle", "returned"}
  /\ LET r == run[k].job
         made == job[r].made + 1
     IN IF run[k].lock
        THEN /\ job' = [job EXCEPT ![r].made = made,
                                   ![r].state = IF TriesLeft(made) THEN "delayed" ELSE "dead"]
             /\ OnFailed(r, made)
        ELSE UNCHANGED <<job, failing>>
  /\ interrupted' = IF CutOff(k) THEN interrupted \cup {run[k].job} ELSE interrupted
  /\ run' = [run EXCEPT ![k] = Idle]
  /\ UNCHANGED <<store, call, upsets, overlapped, lost>>

\* The back-off elapses.
Retry(r) ==
  /\ job[r].state = "delayed"
  /\ job' = [job EXCEPT ![r].state = "waiting"]
  /\ UNCHANGED <<store, call, run, failing, upsets, marks>>

MarkFailed(r) ==
  /\ r \in failing
  /\ Settle(r, "failed")
  /\ failing' = failing \ {r}
  /\ UNCHANGED <<call, job, run, words, deck, createdBy, upsets, marks>>

\* An active job nobody holds is put back, or failed for good.
Stalled(r) ==
  /\ job[r].state = "active"
  /\ ~Holds(r)
  /\ IF job[r].stalls < MaxStalls
     THEN /\ job' = [job EXCEPT ![r].state = "waiting", ![r].stalls = @ + 1]
          /\ UNCHANGED <<failing, lost>>
     ELSE \E made \in {job[r].made, job[r].made + 1} :
            /\ job' = [job EXCEPT ![r].state = "dead", ![r].made = made]
            /\ OnFailed(r, made)
            /\ lost' = IF Exhausted(made) THEN lost ELSE lost \cup {r}
  /\ UNCHANGED <<store, call, run, upsets, overlapped, interrupted>>

-----------------------------------------------------------------------------
(* What upsets the runs: faults, and the learner deleting a word *)

Upset == upsets < MaxUpsets /\ upsets' = upsets + 1

\* Redis is down: the producer swallows the error, the row stays pending.
EnqueueFails(r) ==
  /\ Upset
  /\ call[r] = "saved"
  /\ call' = [call EXCEPT ![r] = "answered"]
  /\ lost' = lost \cup {r}
  /\ UNCHANGED <<store, job, run, failing, overlapped, interrupted>>

\* The API process dies between two steps of the request.
ApiCrash(r) ==
  /\ Upset
  /\ call[r] \in {"admitted", "saved"}
  /\ call' = [call EXCEPT ![r] = "answered"]
  /\ lost' = IF call[r] = "saved" THEN lost \cup {r} ELSE lost
  /\ UNCHANGED <<store, job, run, failing, overlapped, interrupted>>

WorkerCrash ==
  /\ Upset
  /\ failing # {} \/ \E k \in Runs : run[k].pc # "idle"
  /\ run' = [k \in Runs |-> Idle]
  /\ failing' = {}
  /\ lost' = lost \cup failing
  /\ interrupted' = interrupted \cup {run[k].job : k \in {l \in Runs : CutOff(l)}}
  /\ UNCHANGED <<store, call, job, overlapped>>

LoseLock(k) ==
  /\ Upset
  /\ run[k].pc # "idle"
  /\ run[k].lock
  /\ run' = [run EXCEPT ![k].lock = FALSE]
  /\ UNCHANGED <<store, call, job, failing, marks>>

MarkFailedFails(r) ==
  /\ Upset
  /\ r \in failing
  /\ failing' = failing \ {r}
  /\ lost' = lost \cup {r}
  /\ UNCHANGED <<store, call, job, run, overlapped, interrupted>>

\* deleteUserVocabulary: the deck's membership goes with the word.
DeleteWord(word) ==
  /\ Upset
  /\ word \in words
  /\ words' = words \ {word}
  /\ deck' = deck \ {word}
  /\ createdBy' = [r \in Requests |-> createdBy[r] \ {word}]
  /\ UNCHANGED <<row, call, job, run, failing, marks>>

ApiStep(r) == SaveJob(r) \/ Enqueue(r)

RunStep(k) ==
  \/ Start(k) \/ ReadJob(k) \/ Prepare(k) \/ PrepareNothing(k) \/ LookUp(k)
  \/ Create(k) \/ EndLoop(k) \/ AppendMembers(k) \/ Finish(k) \/ Complete(k) \/ Throw(k)

QueueStep(r) == Retry(r) \/ Stalled(r)

Next ==
  \/ \E r \in Requests :
       \/ QuickCreateUserVocabulary(r) \/ BulkQuickCreateUserVocabulary(r)
       \/ ApiStep(r) \/ QueueStep(r) \/ MarkFailed(r)
       \/ EnqueueFails(r) \/ ApiCrash(r) \/ MarkFailedFails(r)
  \/ \E k \in Runs : RunStep(k) \/ LoseLock(k)
  \/ \E word \in Words : DeleteWord(word)
  \/ WorkerCrash

Spec == Init /\ [][Next]_vars

-----------------------------------------------------------------------------
(* Properties *)

Delivered(r) ==
  row[r].status = "completed" /\ row[r].targetsDeck
    /\ (\A k \in Runs : run[k].pc # "idle" => run[k].job # r)
  => createdBy[r] \subseteq deck

\* Every word an import has created is in its deck once the job is completed
\* and its runs are over, however jobs for the lemma, retries and lost locks
\* interleave, unless a run stopped between creating and appending.
DeliveredUnlessInterrupted == \A r \in Requests : r \notin interrupted => Delivered(r)

\* "Idempotent per (owner, language, lemma) pending job"
\* (vocabularies.service.ts:422), unless two requests overlapped.
OnePendingJobUnlessOverlapping == overlapped \/ Cardinality(Pending) <= 1

\* A job's row lives the life of an attempt: one verdict, never revised.
Lifecycle ==
  INSTANCE AttemptLifecycle WITH
    Attempts <- Requests,
    status <- [r \in Requests |-> IF row[r].status = "completed" THEN "scored"
                                                                 ELSE row[r].status]
ImplementsLifecycle == Lifecycle!Spec

\* A pending row that nothing in the system will ever look at again, and that
\* answers every later request for the lemma.
Stuck(r) ==
  /\ row[r].status = "pending"
  /\ call[r] # "saved"
  /\ job[r].state \in {"none", "done", "dead"}
  /\ \A k \in Runs : run[k].pc # "idle" => run[k].job # r
  /\ r \notin failing

\* A job gets stuck when Redis refuses it, or when one of the crashes and
\* database errors that mark it lost hits it, and in no other way.
StuckOnlyIfLost == \A r \in Requests : Stuck(r) => r \in lost

\* "Each lemma is enriched into the caller's own word(s) by the worker, which
\* then appends them to this deck" (decks.service.ts:303-305).
CompletedImportDelivered == \A r \in Requests : Delivered(r)
=============================================================================
