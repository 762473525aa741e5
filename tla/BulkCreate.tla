------------------------------ MODULE BulkCreate ------------------------------
(***************************************************************************)
(* Lists of lemmas that admins turn into words of the catalog:             *)
(* extractLemmas, bulkQuickCreateVocabulary and quickCreateVocabulary      *)
(* (src/src/vocabularies/vocabularies.service.ts) as concurrent requests,  *)
(* next to learners' jobs for the same lemmas, the worker, and words and   *)
(* topics that are deleted.                                                *)
(*                                                                         *)
(* A lemma has one part of speech.  A worker's run is one step and queueing*)
(* is not told apart from saving the row: module Enrichment has both.      *)
(***************************************************************************)
EXTENDS Naturals, Sequences, SequencesExt, FiniteSets, Functions, Selections

CONSTANTS
  Uploads,         \* requests of admins; the batch a request creates carries its id
  Pastes,          \* texts that can be uploaded: sequences of entries, some of them blank
  LowerCase,       \* of each entry that is not blank
  Stopwords,       \* ENGLISH_STOPWORDS
  ExtractCap,      \* EXTRACT_CANDIDATE_CAP
  BulkMax,         \* BULK_QUICK_CREATE_MAX
  BulkSlugs,       \* slugs of topics
  Contested        \* bound: lemmas asked for one by one too, and deleted

BlankEntry == ""

ASSUME BulkAssumption ==
  /\ ExtractCap \in Nat /\ BulkMax \in Nat /\ "learner" \notin Uploads /\ BlankEntry \notin DOMAIN LowerCase
  /\ Pastes \subseteq Seq(DOMAIN LowerCase \cup {BlankEntry})
  /\ Range(LowerCase) \cup Contested \subseteq DOMAIN LowerCase

VARIABLES
  catalog,         \* system words: the topics of each lemma that has one
  knownTopics,     \* slugs of the topics that exist
  jobs,            \* vocab_enrichment_jobs, by request and lemma
  upload,          \* where each request is and what it has read
  removed          \* history: lemmas whose system word was deleted

bulkVars == <<catalog, knownTopics, jobs, upload, removed>>

Lemmas == DOMAIN LowerCase

UploadIdle == [pc |-> "idle", list |-> <<>>, lemmas |-> <<>>, slugs |-> {}, taken |-> {},
               deferred |-> {}, existing |-> {}, accepted |-> 0]
Asked(u) == Range(upload[u].lemmas)

BulkTypeOK ==
  /\ DOMAIN catalog \subseteq Lemmas
  /\ knownTopics \subseteq BulkSlugs
  /\ \A l \in DOMAIN catalog : catalog[l] \subseteq knownTopics
  /\ DOMAIN jobs \subseteq (Uploads \cup {"learner"}) \X Lemmas
  /\ \A j \in DOMAIN jobs : /\ jobs[j].status \in {"pending", "completed", "failed"}
                            /\ jobs[j].topicSlugs \subseteq BulkSlugs /\ jobs[j].made \in BOOLEAN
  /\ \A u \in Uploads :
       /\ upload[u].pc \in {"idle", "reviewing", "validated", "tagging", "linking", "saving",
                            "answered", "refused"}
       /\ upload[u].taken \cup upload[u].existing \subseteq Asked(u) /\ Asked(u) \subseteq Lemmas
  /\ removed \subseteq Lemmas

BulkInit ==
  /\ catalog = <<>> /\ knownTopics = BulkSlugs /\ jobs = <<>>
  /\ upload = [u \in Uploads |-> UploadIdle] /\ removed = {}

-----------------------------------------------------------------------------
(* From a text to a list of lemmas *)

\* The first spelling of every lemma, as many as fit.
NormalizeLemmas(raw, cap) ==
  LET add(acc, entry) ==
        IF acc.capped \/ entry = BlankEntry THEN acc
        ELSE IF \E l \in Range(acc.lemmas) : LowerCase[l] = LowerCase[entry]
             THEN [acc EXCEPT !.deduped = @ + 1]
        ELSE IF Len(acc.lemmas) >= cap THEN [acc EXCEPT !.capped = TRUE]
        ELSE [acc EXCEPT !.lemmas = Append(@, entry)]
  IN FoldLeft(add, [lemmas |-> <<>>, deduped |-> 0, capped |-> FALSE], raw)

\* A word list is kept as it is spelled; prose loses its case and its stopwords.
Tokenize(text, mode) ==
  LET entries == Filtered(text, LAMBDA e : e # BlankEntry)
  IN IF mode = "list" THEN entries
     ELSE Filtered([i \in DOMAIN entries |-> LowerCase[entries[i]]], LAMBDA e : e \notin Stopwords)

\* What is new to the catalog; the query compares spellings exactly.
ExtractLemmas(text, mode) ==
  Filtered(NormalizeLemmas(Tokenize(text, mode), ExtractCap).lemmas,
           LAMBDA l : l \notin DOMAIN catalog)

-----------------------------------------------------------------------------
(* Requests *)

UploadAt(u, pc) == upload[u].pc = pc
Proceeds(u, entry) == upload' = [upload EXCEPT ![u] = entry]
PendingJobs(l) == {j \in DOMAIN jobs : j[2] = l /\ jobs[j].status = "pending"}

\* The list is only shown, for the admin to confirm.
Extract(u) ==
  /\ UploadAt(u, "idle")
  /\ \E text \in Pastes, mode \in {"list", "prose"} :
       Proceeds(u, [UploadIdle EXCEPT !.pc = "reviewing", !.list = ExtractLemmas(text, mode)])
  /\ UNCHANGED <<catalog, knownTopics, jobs, removed>>

\* A slug nobody knows refuses the whole list.
ValidateTopicSlugs(slugs) == slugs \subseteq knownTopics

\* A list that was extracted, or any other, with topics that must all exist.
BulkQuickCreateVocabulary(u) ==
  /\ upload[u].pc \in {"idle", "reviewing"}
  /\ \E list \in IF UploadAt(u, "idle") THEN Pastes ELSE {upload[u].list}, slugs \in SUBSET BulkSlugs :
       LET lemmas == NormalizeLemmas(list, BulkMax).lemmas
       IN Proceeds(u, [upload[u] EXCEPT !.lemmas = lemmas, !.slugs = slugs,
                     !.pc = IF lemmas = <<>> THEN "answered"
                            ELSE IF ValidateTopicSlugs(slugs) THEN "validated" ELSE "refused"])
  /\ UNCHANGED <<catalog, knownTopics, jobs, removed>>

\* Both queries; deferred are the lemmas left to somebody else's pending job.
LemmasAlreadyHandled(u) ==
  LET deferred == {l \in Asked(u) : PendingJobs(l) # {}}
  IN /\ UploadAt(u, "validated")
     /\ Proceeds(u, [upload[u] EXCEPT !.taken = deferred \cup (Asked(u) \cap DOMAIN catalog),
                   !.deferred = deferred,
                   !.pc = IF upload[u].slugs = {} THEN "saving" ELSE "tagging"])
     /\ UNCHANGED <<catalog, knownTopics, jobs, removed>>

TagExistingRead(u) ==
  /\ UploadAt(u, "tagging")
  /\ LET existing == Asked(u) \cap DOMAIN catalog
     IN Proceeds(u, [upload[u] EXCEPT !.existing = existing,
                   !.pc = IF existing = {} THEN "saving" ELSE "linking"])
  /\ UNCHANGED <<catalog, knownTopics, jobs, removed>>

\* One transaction; a topic or a word that is gone fails the request.
TagExistingCommit(u) ==
  LET k == upload[u]
      linked == k.slugs \subseteq knownTopics /\ k.existing \subseteq DOMAIN catalog
  IN /\ UploadAt(u, "linking")
     /\ catalog' = [l \in DOMAIN catalog |->
                      IF linked /\ l \in k.existing THEN catalog[l] \cup k.slugs ELSE catalog[l]]
     /\ Proceeds(u, IF linked THEN [k EXCEPT !.pc = "saving"] ELSE [UploadIdle EXCEPT !.pc = "refused"])
     /\ UNCHANGED <<knownTopics, jobs, removed>>

SaveJobs(u) ==
  LET k == upload[u]
      new == {u} \X (Asked(u) \ k.taken)
  IN /\ UploadAt(u, "saving")
     /\ jobs' = [j \in DOMAIN jobs \cup new |->
                   IF j \in new THEN [status |-> "pending", topicSlugs |-> k.slugs, made |-> FALSE]
                   ELSE jobs[j]]
     /\ Proceeds(u, [UploadIdle EXCEPT !.pc = "answered", !.accepted = Cardinality(new),
                    !.lemmas = k.lemmas, !.slugs = k.slugs, !.deferred = k.deferred])
     /\ UNCHANGED <<catalog, knownTopics, removed>>

\* Anybody's pending job for the lemma is the answer; the catalog is not asked.
QuickCreateVocabulary(u, l) ==
  LET entry == [UploadIdle EXCEPT !.lemmas = <<l>>]
  IN /\ UploadAt(u, "idle")
     /\ Proceeds(u, IF PendingJobs(l) # {}
                THEN [entry EXCEPT !.pc = "answered", !.taken = {l}, !.deferred = {l}]
                ELSE [entry EXCEPT !.pc = "saving"])
     /\ UNCHANGED <<catalog, knownTopics, jobs, removed>>

\* A learner asks for the word; her own pending jobs are all that is looked at.
QuickCreateUser(l) ==
  /\ <<"learner", l>> \notin DOMAIN jobs
  /\ jobs' = [j \in DOMAIN jobs \cup {<<"learner", l>>} |->
                IF j \in DOMAIN jobs THEN jobs[j]
                ELSE [status |-> "pending", topicSlugs |-> {}, made |-> FALSE]]
  /\ UNCHANGED <<catalog, knownTopics, upload, removed>>

-----------------------------------------------------------------------------
(* The worker, and what else happens *)

\* No content: the job has failed.  Otherwise a lemma that is in the catalog is
\* left alone, and a new word gets the topics of its job that still exist.  The
\* word of a learner's job is private.
RunJob(j) ==
  LET owned == j[1] = "learner"
      makes == ~owned /\ j[2] \notin DOMAIN catalog
  IN /\ jobs[j].status = "pending"
     /\ \/ /\ jobs' = [jobs EXCEPT ![j].status = "failed"]
           /\ UNCHANGED catalog
        \/ /\ jobs' = [jobs EXCEPT ![j].status = "completed", ![j].made = makes]
           /\ catalog' = [l \in DOMAIN catalog \cup (IF makes THEN {j[2]} ELSE {}) |->
                IF l \in DOMAIN catalog THEN catalog[l] ELSE jobs[j].topicSlugs \cap knownTopics]
     /\ UNCHANGED <<knownTopics, upload, removed>>

RemoveSystemWord(l) ==
  /\ l \in DOMAIN catalog
  /\ catalog' = Restrict(catalog, DOMAIN catalog \ {l})
  /\ removed' = removed \cup {l}
  /\ UNCHANGED <<knownTopics, jobs, upload>>

RemoveTopic(s) ==
  /\ s \in knownTopics
  /\ knownTopics' = knownTopics \ {s}
  /\ catalog' = [l \in DOMAIN catalog |-> catalog[l] \ {s}]
  /\ UNCHANGED <<jobs, upload, removed>>

BulkNext ==
  \/ \E u \in Uploads : \/ Extract(u) \/ BulkQuickCreateVocabulary(u) \/ LemmasAlreadyHandled(u)
                        \/ TagExistingRead(u) \/ TagExistingCommit(u) \/ SaveJobs(u)
                        \/ \E l \in Contested : QuickCreateVocabulary(u, l)
  \/ \E j \in DOMAIN jobs : RunJob(j)
  \/ \E l \in Contested : QuickCreateUser(l) \/ RemoveSystemWord(l)
  \/ \E s \in BulkSlugs : RemoveTopic(s)

BulkSpec == BulkInit /\ [][BulkNext]_bulkVars

-----------------------------------------------------------------------------
(* Properties *)

\* summarizeBatch, of the jobs of a request.
SummarizeBatch(u) ==
  [s \in {"pending", "completed", "failed"} |->
     Cardinality({j \in DOMAIN jobs : j[1] = u /\ jobs[j].status = s})]

\* vocabularies.service.ts, bulkQuickCreateVocabulary: "they still join the
\* chosen topic(s) so the admin's word list lands whole".  Once a list is
\* answered, every lemma of it has a system word with all the chosen topics
\* that still exist, or a job of the list that is pending or has failed; except
\* that the word was deleted, that the lemma was left to somebody else's job, or
\* that the word was made by somebody else before the list's own job ran.
ListLands ==
  \A u \in Uploads : UploadAt(u, "answered") =>
    \A l \in Asked(u) :
      \/ l \in DOMAIN catalog /\ upload[u].slugs \cap knownTopics \subseteq catalog[l]
      \/ <<u, l>> \in DOMAIN jobs
           /\ (jobs[<<u, l>>].status # "completed" \/ ~jobs[<<u, l>>].made)
      \/ l \in removed \cup upload[u].deferred

\* vocabularies.service.ts, summarizeBatch: the counts of a batch add up to what
\* its request accepted.
BatchesAddUp ==
  \A u \in Uploads : UploadAt(u, "answered") =>
    LET batch == SummarizeBatch(u)
    IN batch["pending"] + batch["completed"] + batch["failed"] = upload[u].accepted

\* The worker's exists query: a word that was never deleted is the result of one
\* job only.
MadeOnce ==
  \A l \in Lemmas \ removed : Cardinality({j \in DOMAIN jobs : j[2] = l /\ jobs[j].made}) <= 1

\* normalize.ts: "Shared by the extract step and the bulk-enrich endpoint so
\* both apply the same hygiene": a confirmed list is taken as it was shown, up
\* to the limit, and holds no lemma twice in whatever spelling.
SameHygiene ==
  \A u \in Uploads :
    /\ \A i, j \in DOMAIN upload[u].lemmas :
         LowerCase[upload[u].lemmas[i]] = LowerCase[upload[u].lemmas[j]] => i = j
    /\ upload[u].list # <<>> /\ upload[u].lemmas # <<>> => IsPrefix(upload[u].lemmas, upload[u].list)
                    /\ (Len(upload[u].lemmas) < Len(upload[u].list) => Len(upload[u].lemmas) = BulkMax)
=============================================================================
