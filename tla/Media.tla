-------------------------------- MODULE Media --------------------------------
(***************************************************************************)
(* One system word with one sense: approval, the edits of admins, bulk     *)
(* imports, and what fills its recording and its picture: the queues, the  *)
(* workers and the back-fill scripts (src/src/vocabularies/                *)
(* vocabularies.service.ts, audio/, images/; src/src/database/scripts/).   *)
(*                                                                         *)
(* save writes all columns of an entity read earlier, and inserts it when  *)
(* the row is gone; its SELECT and its write are one step.                 *)
(***************************************************************************)
EXTENDS Naturals, FiniteSets

CONSTANTS
  MediaCalls,      \* requests of admins
  MediaTries,      \* attempts of a job
  MaxMediaFaults   \* bound: failing generations, enqueues and worker deaths

ASSUME MediaAssumption == MediaTries \in Nat \ {0} /\ MaxMediaFaults \in Nat

VARIABLES
  row,             \* the rows of the word and of its sense, side by side
  mediaCall,       \* where each request is, and the copy it holds
  mediaJob,        \* the job of each kind in Redis, its tries made
  worker,          \* the worker of each kind: idle, or generating
  script,          \* the back-fill of each kind, and the copy it holds
  mediaFaults,
  asked,           \* history: what the requests that wrote a column gave it
  staleWordSave    \* history: a copy was saved over a row that had changed

mediaVars == <<row, mediaCall, mediaJob, worker, script, mediaFaults, asked, staleWordSave>>

Kinds == {"audio", "image"}
Urls == {"none", "manual", "made"}
Rows == [exists: BOOLEAN, approved: BOOLEAN, audio: Urls, image: Urls]
NoWordRow == [exists |-> FALSE, approved |-> FALSE, audio |-> "none", image |-> "none"]

MediaIdle == [pc |-> "idle", base |-> NoWordRow, entity |-> NoWordRow]
MediaPcs == {"idle", "savingWord", "savingSense", "importing", "approving", "enqueueing",
             "voicing", "done"}

MediaTypeOK ==
  /\ row \in Rows /\ asked \in Rows
  /\ mediaCall \in [MediaCalls -> [pc: MediaPcs, base: Rows, entity: Rows]]
  /\ mediaJob \in [Kinds -> [state: {"none", "waiting", "active", "failed"},
                             tries: 0..MediaTries]]
  /\ worker \in [Kinds -> {"idle", "generating"}]
  /\ script \in [Kinds -> [pc: {"idle", "generating", "done"}, base: Rows]]
  /\ mediaFaults \in 0..MaxMediaFaults
  /\ staleWordSave \in BOOLEAN

\* No word, a draft of the enrichment worker, or a word that was imported.
MediaInit ==
  /\ row \in {NoWordRow, [NoWordRow EXCEPT !.exists = TRUE]} \cup
             [exists: {TRUE}, approved: {TRUE}, audio: {"none", "manual"}, image: {"none"}]
  /\ asked = row
  /\ mediaCall = [c \in MediaCalls |-> MediaIdle]
  /\ mediaJob = [k \in Kinds |-> [state |-> "none", tries |-> 0]]
  /\ worker = [k \in Kinds |-> "idle"]
  /\ script = [k \in Kinds |-> [pc |-> "idle", base |-> NoWordRow]]
  /\ mediaFaults = 0
  /\ staleWordSave = FALSE

MediaAt(c, pc) == mediaCall[c].pc = pc
MediaEnds(c) == mediaCall' = [mediaCall EXCEPT ![c] = [MediaIdle EXCEPT !.pc = "done"]]
Loads(c, pc, entity) ==
  mediaCall' = [mediaCall EXCEPT ![c] = [pc |-> pc, base |-> row, entity |-> entity]]
background == <<mediaJob, worker, script, mediaFaults>>
OnlyMediaCalls == UNCHANGED <<row, asked, staleWordSave, background>>

\* A save leaves r, from a copy made of base.
Saved(r, base) ==
  /\ row' = r
  /\ staleWordSave' = (staleWordSave \/ (r # row /\ row # base))

\* The word's columns and the sense's column of an entity, over the row.
WordSaved(e) == [e EXCEPT !.exists = TRUE, !.image = IF row.exists THEN row.image ELSE "none"]
SenseSaved(e) == IF row.exists THEN [row EXCEPT !.image = e.image] ELSE row

-----------------------------------------------------------------------------
(* updateSystemVocabulary, updateSense *)

PatchWord(c) ==
  /\ MediaAt(c, "idle")
  /\ IF row.exists
     THEN \E url \in {row.audio, "manual"} : Loads(c, "savingWord", [row EXCEPT !.audio = url])
     ELSE MediaEnds(c)
  /\ OnlyMediaCalls

PatchWordSave(c) ==
  LET k == mediaCall[c] IN
  /\ MediaAt(c, "savingWord")
  /\ Saved(WordSaved(k.entity), k.base)
  /\ asked' = IF k.entity.audio # k.base.audio THEN [asked EXCEPT !.audio = "manual"] ELSE asked
  /\ MediaEnds(c)
  /\ UNCHANGED background

PatchSense(c) ==
  /\ MediaAt(c, "idle")
  /\ IF row.exists
     THEN \E url \in {row.image, "manual"} : Loads(c, "savingSense", [row EXCEPT !.image = url])
     ELSE MediaEnds(c)
  /\ OnlyMediaCalls

PatchSenseSave(c) ==
  LET k == mediaCall[c] IN
  /\ MediaAt(c, "savingSense")
  /\ Saved(SenseSaved(k.entity), k.base)
  /\ asked' = IF row.exists /\ k.entity.image # k.base.image
              THEN [asked EXCEPT !.image = "manual"] ELSE asked
  /\ MediaEnds(c)
  /\ UNCHANGED background

-----------------------------------------------------------------------------
(* createSystemVocabulary and bulk import (upsertVocabulary), deletion *)

Approved == [NoWordRow EXCEPT !.exists = TRUE, !.approved = TRUE]

\* audioUrl: dto.audioUrl ?? null, imageUrl: dto.imageUrl ?? sense.imageUrl
Import(c) ==
  /\ MediaAt(c, "idle")
  /\ \E audio \in {"none", "manual"}, image \in {row.image, "manual"} :
       Loads(c, "importing", [Approved EXCEPT !.audio = audio, !.image = image])
  /\ OnlyMediaCalls

\* One transaction.  A word created meanwhile is refused by the unique index;
\* a creation without a recording asks for one, a bulk import does not.
ImportSave(c) ==
  LET k == mediaCall[c]
      created == ~k.base.exists
  IN
  /\ MediaAt(c, "importing")
  /\ IF created /\ row.exists
     THEN MediaEnds(c) /\ UNCHANGED <<row, asked, staleWordSave>>
     ELSE /\ Saved(k.entity, k.base)
          /\ asked' = [k.entity EXCEPT !.image =
                         IF k.entity.image # k.base.image THEN k.entity.image ELSE asked.image]
          /\ \/ MediaEnds(c)
             \/ /\ created /\ k.entity.audio = "none"
                /\ mediaCall' = [mediaCall EXCEPT ![c] =
                     [MediaIdle EXCEPT !.pc = "voicing", !.entity = k.entity]]
  /\ UNCHANGED background

RemoveWord ==
  /\ row.exists
  /\ row' = NoWordRow /\ asked' = NoWordRow
  /\ UNCHANGED <<mediaCall, background, staleWordSave>>

-----------------------------------------------------------------------------
(* approveVocabulary and the queues' producers *)

Approve(c) ==
  /\ MediaAt(c, "idle")
  /\ IF ~row.exists THEN MediaEnds(c)
     ELSE Loads(c, IF row.approved THEN "enqueueing" ELSE "approving",
                [row EXCEPT !.approved = TRUE])
  /\ OnlyMediaCalls

ApproveSave(c) ==
  LET k == mediaCall[c] IN
  /\ MediaAt(c, "approving")
  /\ Saved(WordSaved(k.entity), k.base)
  /\ asked' = [asked EXCEPT !.approved = TRUE]
  /\ mediaCall' = [mediaCall EXCEPT ![c].pc = "enqueueing", ![c].base = NoWordRow]
  /\ UNCHANGED background

\* The id of the row is the id of the job: a job that is still in Redis, a
\* failed one too, swallows the new one.
Enqueued(k) ==
  IF mediaJob[k].state = "none" THEN [state |-> "waiting", tries |-> 0] ELSE mediaJob[k]

\* What the copy has no URL for; a queue that refuses is a warning.
EnqueueMedia(c) ==
  LET wanted == {k \in Kinds : mediaCall[c].entity[k] = "none" /\
                                  (k = "image" => MediaAt(c, "enqueueing"))} IN
  /\ mediaCall[c].pc \in {"enqueueing", "voicing"}
  /\ \E refused \in SUBSET wanted :
       /\ mediaFaults + Cardinality(refused) <= MaxMediaFaults
       /\ mediaFaults' = mediaFaults + Cardinality(refused)
       /\ mediaJob' = [k \in Kinds |-> IF k \in wanted \ refused THEN Enqueued(k)
                                       ELSE mediaJob[k]]
  /\ MediaEnds(c)
  /\ UNCHANGED <<row, asked, staleWordSave, worker, script>>

-----------------------------------------------------------------------------
(* The workers *)

Completed(k) == mediaJob' = [mediaJob EXCEPT ![k] = [state |-> "none", tries |-> 0]]
OnlyWorkers == UNCHANGED <<mediaCall, script, asked, staleWordSave>>

\* The row is gone or has a URL: nothing to do.
WorkerStart(k) ==
  /\ mediaJob[k].state = "waiting" /\ worker[k] = "idle"
  /\ IF ~row.exists \/ row[k] # "none"
     THEN Completed(k) /\ UNCHANGED worker
     ELSE /\ mediaJob' = [mediaJob EXCEPT ![k].state = "active"]
          /\ worker' = [worker EXCEPT ![k] = "generating"]
  /\ UNCHANGED <<row, mediaFaults>> /\ OnlyWorkers

\* Mutant: the UPDATE does not look for a URL that is there by now.
Filled_Always(k) == IF row.exists THEN [row EXCEPT ![k] = "made"] ELSE row

\* UPDATE ... WHERE id = ... AND audio_url IS NULL
Filled(k) == IF row.exists /\ row[k] = "none" THEN [row EXCEPT ![k] = "made"] ELSE row

WorkerStore(k) ==
  /\ worker[k] = "generating"
  /\ row' = Filled(k)
  /\ Completed(k)
  /\ worker' = [worker EXCEPT ![k] = "idle"]
  /\ UNCHANGED mediaFaults /\ OnlyWorkers

\* No picture matches the word: the job is done all the same.
NoMatch ==
  /\ worker["image"] = "generating"
  /\ Completed("image")
  /\ worker' = [worker EXCEPT !["image"] = "idle"]
  /\ UNCHANGED <<row, mediaFaults>> /\ OnlyWorkers

\* A lookup, the speech service, a download or the upload fails, or the worker
\* dies: the job waits for its next try, or is failed and stays in Redis.
GenerationFails(k) ==
  LET made == mediaJob[k].tries + 1 IN
  /\ worker[k] = "generating" /\ mediaFaults < MaxMediaFaults
  /\ mediaJob' = [mediaJob EXCEPT ![k] =
       [state |-> IF made < MediaTries THEN "waiting" ELSE "failed", tries |-> made]]
  /\ worker' = [worker EXCEPT ![k] = "idle"]
  /\ mediaFaults' = mediaFaults + 1
  /\ UNCHANGED row /\ OnlyWorkers

-----------------------------------------------------------------------------
(* backfill-audio.ts, backfill-images.ts *)

OnlyScripts == UNCHANGED <<mediaCall, mediaJob, worker, mediaFaults, asked>>

\* The rows without a URL are read first, all of them.
BackfillRead(k) ==
  /\ script[k].pc = "idle"
  /\ script' = [script EXCEPT ![k] =
       [pc |-> IF row.exists /\ row[k] = "none" THEN "generating" ELSE "done", base |-> row]]
  /\ UNCHANGED <<row, staleWordSave>> /\ OnlyScripts

\* save of the row as it was read, with the URL that was made since.
BackfillSave(k) ==
  LET e == [script[k].base EXCEPT ![k] = "made"] IN
  /\ script[k].pc = "generating"
  /\ Saved(IF k = "audio" THEN WordSaved(e) ELSE SenseSaved(e), script[k].base)
  /\ script' = [script EXCEPT ![k] = [pc |-> "done", base |-> NoWordRow]]
  /\ OnlyScripts

\* No match, or a failure that is counted and skipped.
BackfillSkip(k) ==
  /\ script[k].pc = "generating"
  /\ script' = [script EXCEPT ![k] = [pc |-> "done", base |-> NoWordRow]]
  /\ UNCHANGED <<row, staleWordSave>> /\ OnlyScripts

MediaNext ==
  \/ \E c \in MediaCalls :
       \/ PatchWord(c) \/ PatchWordSave(c) \/ PatchSense(c) \/ PatchSenseSave(c)
       \/ Import(c) \/ ImportSave(c) \/ Approve(c) \/ ApproveSave(c) \/ EnqueueMedia(c)
  \/ \E k \in Kinds :
       \/ WorkerStart(k) \/ WorkerStore(k) \/ GenerationFails(k)
       \/ BackfillRead(k) \/ BackfillSave(k) \/ BackfillSkip(k)
  \/ NoMatch
  \/ RemoveWord

MediaSpec == MediaInit /\ [][MediaNext]_mediaVars

-----------------------------------------------------------------------------
(* Properties *)

\* What admins asked for stays, unless a copy was saved over a row that had
\* changed: a deleted word stays deleted, an approved word stays approved, a
\* URL given by hand is replaced neither by a worker nor by another edit
\* (audio.processor.ts:55, image.processor.ts:66, vocabularies.service.ts:829).
EditsKept ==
  ~staleWordSave =>
    /\ row.exists = asked.exists
    /\ row.approved = asked.approved
    /\ \A k \in Kinds : asked[k] = "manual" => row[k] = "manual"
=============================================================================
