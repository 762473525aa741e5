# Formal specifications of the learning_vocab backend

TLA+ specifications of the backend of a vocabulary learning application: a
NestJS API, a worker process, PostgreSQL and Redis. Each module is translated
from the TypeScript under `src/src/`; TLC checks it on small instances and
TLAPS proves what matters most for every value of its constants.

`PROJECT.json` is the index: the components, the runs, the lines of code behind
every definition (`map`), the hazards with the properties that cover them, the
findings, and the theorems. For every property it also names one
`X_Something` operator in the modules: a plausible bug that breaks the
property, kept so that one can see what the property is sensitive to.

Of the parts that keep no rows of interest to a property (pronunciation, mailer
and health, the configuration, the opus-mt service) nothing is modelled;
everything else has a module, see the tables below.

1. [The system](#1-the-system)
2. [Modules and code](#2-modules-and-code)
3. [What the runs show](#3-what-the-runs-show)
4. [What is proved](#4-what-is-proved)
5. [Findings](#5-findings)
6. [Abstractions and bounds](#6-abstractions-and-bounds)
7. [Plan](#7-plan)

## 1. The system

Requests run concurrently in one API process (and would in several): every
`await` of a query, of the queue or of a language model is a point at which
other requests run. PostgreSQL runs READ COMMITTED and no code takes a row
lock. Almost every write is TypeORM's `save(entity)`: a SELECT of the row, a
comparison with the entity, which may have been loaded much earlier, and an
UPDATE of the columns that differ. The worker process runs BullMQ jobs: a lock
that can expire, retries with a back-off, a stalled check, a `failed` event.
Both processes are restarted after a crash (`railway.json`,
`railway.worker.json`).

| component | state | operations | hard behaviour | what makes it correct | modules |
|---|---|---|---|---|---|
| **progress**: `srs.ts`, `progress.service.ts` | `user_word_progress` (one row per learner and word), `learning_activity` (append-only) | `enroll`, `submitReview`; reads: `findDue`, heatmap, statistics, streak | read, compute, save next to other requests for the word; deletion cascades; a report is several queries | rows keep the SM-2 shape; counters agree with the log; no review resets or inflates a schedule; reports agree with one another | `Srs`, `Progress`, `Reports` |
| **learn** | none stored; signed answer tokens | `createSession`, `submitAnswer` | words edited or deleted between question and answer; a token may be replayed; a step re-queued | steps in order, no word left out, graded as asked, no move of a card by a repeated answer once it has graduated | `Questions`, `Lessons`, `Selections` |
| **practice** | `production_attempts`, the scoring queue | `submit`; the worker's `process`, `onFailed`; suggestions | insert, then enqueue; retries, stalls, crashes; a daily cap | every attempt is decided once and for good; the cap; a set that is never empty without need | `PracticeScoring`, `AttemptLifecycle`, `Reports` |
| **speaking-room sessions** | `speaking_sessions`, `speaking_turns` | `start`, `takeTurn`, `end`, `getReport` | a model call of seconds between read and write | an ordered transcript within its limit; a report of all of it, stored once | `SpeakingSession` |
| **speaking-room scenarios** | `scenarios`, the snapshots in sessions | create, update, publish, retire, intro video; starts and their daily cap | a version incremented from a stale copy; a count before an insert | a version names one scenario; the cap | `Scenarios` |
| **vocabularies: enrichment** | `vocab_enrichment_jobs`, its queue, words created | quick-create, deck import, lists of lemmas, the worker | several writes per job, retried as a whole; lists compared with what other jobs are making | one verdict per job; the words reach their deck; a list lands whole | `Enrichment`, `AttemptLifecycle`, `BulkCreate` |
| **vocabularies: sources** | batcher buckets, `vocab_enrichment_cache`, lexicons, key index | dictionaries, batched model calls, translation, CEFR, IPA | timer against size; all keys throttled; a reply that drops or reorders words | every caller answered once; rotation ends; a word gets its own content | `Sourcing` |
| **vocabularies: catalog** | words, senses, examples, translations, topics | create, approve, import, edit, reorder, delete | renumbering of what was read; whole entities saved from stale copies | sense orders 1..N; edits stay | `Senses`, `WordTexts`, `Media` |
| **vocabularies: media workers** | `audio_url`, `image_url` | audio and image jobs, back-fill scripts | an upload races the job | a URL given by hand is never replaced | `Media` |
| **decks** | `decks.vocab_count`, `deck_vocabularies` | create, clone, append, remove, update, delete | max + 1 positions; stale save of the deck | the count is the number of members; distinct positions | `Decks` |
| **auth, users** | refresh tokens, e-mail codes, users, identities | register, login, rotate, verify, social sign-in, profile, deletion | two rotations of one token; guesses in parallel; a stale copy of the user saved | a token is exchanged once; a code allows five guesses; a verified address stays so | `RefreshTokens`, `Accounts` |
| **leaderboard** | none | the board, the caller's own place | two queries for one answer | the two agree | `Reports` |
| **pronunciation, mailer, health, config** | attempts; otherwise I/O | | | | not modelled |
| **database, opus-mt** | schema, seeds, back-fill scripts; a stateless translation service | | | | the seed in `Senses`, the back-fills in `Media`; the rest not modelled |

How they interact: *learn* builds lessons from *progress* and calls
`submitReview` with the result of a word; *practice* reads progress and never
writes it; *decks* and *learn* enroll deck members through *progress*;
*vocabularies* creates enrichment jobs whose worker writes words and appends
them through *decks*' membership service; deleting a word or a user cascades
into progress, attempts and decks. The API and the worker share only the
database and Redis.

## 2. Modules and code

### Srs, Progress

`Srs` is `applySm2` with its helpers as pure operators: time in minutes, ease in
hundredths, the graduated step (`null`) as `Graduated`. `Progress` is one
learner under concurrent `enroll` and `submitReview` calls, the deletion of a
word, and a clock. A review is the steps of the code: `ReviewLoad` (the find),
`ReviewGrade` (SM-2 on the copy) or `ReviewPractice` (answered early: only an
event is logged), `ReviewSelect` (save's SELECT), `ReviewCommit` (save's UPDATE of
the differing columns, `MergeColumns`, with the event in the same transaction). The
variable `raced` records that a review was committed over a row it had not
read; it guards nothing and appears only in the properties.

### AttemptLifecycle, PracticeScoring

`AttemptLifecycle` says what an attempt (and an enrichment job) promises:
pending, then one verdict for good, until it is removed. `PracticeScoring`
implements it with the API's submit (cap check, INSERT, enqueue, roll-back when
the queue refuses), BullMQ (waiting, active, delayed, done, dead; tries made;
stalls; a lock a run may lose and never notice), the worker's run and the
`failed` handler, and the faults: either process dies, the lock expires, the
queue throws although it stored the job, a database write fails.

### SpeakingSession

One session: the start request (session row, then the opening line), turn
requests (check, read the turns, wait for the model, store two rows) and end or
report requests (load, save the end, read the transcript, generate, save the
report). The saves are two steps each, as above. The model may fail; any request
may be cut off between two steps.

### Enrichment

One lemma of one learner: quick-create and import requests (look for a pending
job, insert, enqueue), the queue as in `PracticeScoring`, and the run: drafts,
then per draft an exists query and a transaction that creates the word, then
the append to the deck, then the verdict. The ids of the words created live in
the run (`created`), as in the code. The learner may delete a word at any time.

`QuickCreateUserVocabulary` and `BulkQuickCreateUserVocabulary` differ in the
deck and in whether words the learner has are looked at.

### BulkCreate

The admin's side of the same jobs: `Extract` turns a text into a list
(`Tokenize`, `NormalizeLemmas`), `BulkQuickCreateVocabulary` validates its
topics, `LemmasAlreadyHandled` compares it with pending jobs and the catalog,
`TagExistingRead` and `TagExistingCommit` link what is there, `SaveJobs` creates
the batch; `QuickCreateVocabulary` asks for one lemma. Learners ask for the same
lemmas, words and topics are deleted. A worker's run is one step here.

### Sourcing

What `prepareDrafts` of the worker does, for three jobs that share batches and
caches: `ReplayCached`; the dictionaries (`ParseDictionaryResponse`,
`WiktionaryLookup`, with the IPA of phrases, `ComposeIpaFromWords`); `Submit`
into a batcher's bucket, flushed by size or by `LingerElapses`; `RunFlush`, the
call that asks key after key (`KeysTried`) and parses a reply that may drop,
reorder or misname words (`ParseBatchExamplesResponse`,
`ParseBatchScratchResponse`); `PrepareDrafts`, which chooses for every sense the
level, the translation and the examples, and caches the result. A text is a
piece that remembers who wrote it about what, so that a property can say whose
content a word has.

### Selections, Questions, Lessons

`Questions` holds the pure parts: which types of question a stage allows, what
each needs of the word and of its distractors, `BuildLadder`, and the grader,
which derives the right answer again from the word as it is *now*. `Lessons` is
one learner's requests: `PickWords`, `EnrollFresh`, `BuildSession`;
`SubmitAnswer` (signature, expiry, grading) and `SubmitReview` (SM-2 and the
re-queue). Words are edited (`Versions`) and deleted between any two steps, and
the client keeps every signed item it got, so it may answer late or twice.
`Least` of `Selections` says what ORDER BY ... LIMIT may return.

### Reports

`getStats` and `getSuggestions` are one query per action; the heatmap, the
streak, the due list, the ranking and the practice set are operators of the
state. Reviews (one step each), enrollments, deletions, approvals, opt-outs and
the clock run between them.

### Accounts, RefreshTokens, Decks, Scenarios, Senses, Media, WordTexts

One module for each set of rows, built alike: a call per request with what it
has read, a step per statement or, in a transaction, a step for the reads and
one for the writes; the deletion of what the rows hang on; a fault that cuts a
request off where the code writes more than once. A history variable named
`stale...`, `...Overlapped` or `...Raced` records that a request wrote from a
read that was out of date; it guards nothing, and the properties use it to say
which guarantee depends on requests not overlapping. `Media` adds the two queues,
their workers and the scripts, `Senses` the seed. `MCRecords` puts these, `Reports` and `BulkCreate` side
by side (one `part` runs, the variables of the others are off, so their state
spaces add up instead of multiplying), and `MCRows` adds `Progress` as one more
part; `MCLessons` does so with `Lessons` and `Sourcing`.

| code | model |
|---|---|
| a row and its columns | a record per id; columns no property tells apart are left out |
| an `await` | the border between two actions |
| an early return or a thrown HTTP error | the request's step to `done` or `answered` |
| `save(entity)` | a SELECT step that remembers the row, an UPDATE step of the columns that differ from it (`MergeColumns`, `Differing`) |
| `UPDATE ... WHERE status = 'pending'` | one step with the test inside (`Settle`) |
| a transaction | one step when it reads nothing it did not lock itself, several otherwise |
| BullMQ job, lock, back-off, stalled check | `job`, `run.lock`, `Retry`, `Stalled` (marked external in `map`) |

## 3. What the runs show

| run | instance | shows |
|---|---|---|
| `practice` | 2 submissions, 2 runs, cap 1, 2 tries, 1 stall, 2 faults | a failure is recorded only when the tries are used up; a row without anybody left to decide it was cut off in one of four named windows; the cap holds without overlap; the lifecycle is implemented; every other attempt settles |
| `speaking` | 2 turn and 3 end or report requests, 1 turn allowed, 1 fault | roles alternate and a report covers its transcript in every interleaving (but for late turns); order, turn limit and report status without overlap; an ended session is never reopened, and settles |
| `enrichment` | 2 requests, 2 runs, 2 parts of speech, 2 tries, 1 stall, 2 upsets | words reach the deck unless a run stopped between creating and appending; rows get stuck only when the queue refuses or one of the named crashes hits; one pending job without overlap; the lifecycle is implemented |
| `lessons`, part lessons | 3 words, one with an edit, one that may be deleted, new, learning, review and mastered cards, 4 kinds of request, 2 orders of types, 2 last items answered, clock before and after a token's expiry | a session's steps come in order and leave no feasible word out; words of one stage are asked the same types; an answer is graded as it was asked while the word has not changed; only a lesson's last item moves its card; a last item that is sent again moves it again while it is in the learning steps and not once it is on the day ladder |
| `lessons`, part sourcing | 3 jobs (two lists of what they ask for), batches of 2, 2 keys, 2 tries, 1 mishap | every caller is in one bucket or one call; no key is asked twice and throttling fails a call only when all keys are throttled; content goes to the word and sense it was written for whenever the reply names its words; no corpus sentence serves two senses; the cache is stable |
| `rows`: progress | 1 word, 3 reviews, 2 enrollments, qualities 1, 3 and 5, a fresh row or one a success away from mastery, deletion, clock readings just inside and outside the tolerance | `ScheduleWellFormed`, `RowMatchesLog` and `SpacingHonoured` for words whose reviews do not overlap; `CountersNeverExceedLog`, `MilestonesLogged`, `NewIffUnreviewed`, `ProgressNeverReset` in every interleaving |
| `rows`: accounts | 3 requests on one address, 1 fault | a deleted account stays away, a verified address stays verified unless a stale user was saved; guesses and active codes are limited unless requests about codes overlap |
| `rows`: tokens | 2 sign-ins, 3 refreshes, 1 fault | a token has one heir unless two refreshes found it live; presenting a used one ends all sessions but those already on their way; a client whose token was revoked gets the next one unless the user is gone or the request was cut off |
| `rows`: decks | 3 requests or appends, 2 words, a shelf and clones | the count follows the members (plus those that went with a deleted word), positions are distinct, each unless requests on the deck overlap |
| `rows`: scenarios | 3 edits, 2 starts, cap 1 | sessions of one version have one snapshot unless edits overlap or a retired scenario is edited; the cap unless starts overlap |
| `rows`: senses | 3 requests or seed runs, 3 senses | orders are 1..N unless a call wrote by orders that had changed |
| `rows`: media, texts | 2 requests, 2 tries, 2 faults; 3 requests, 2 texts, 1 topic | a deletion, an approval and a URL given by hand stay unless a stale copy is saved; examples are imported once and topics are those chosen last, unless calls overlap |
| `rows`: reports | 2 learners, 3 words, 4 log rows, 2 clock readings across a midnight, 2 time zones | the streak is the lit run of the heatmap; the heatmap counts every answer of the year once in any zone; statistics do not contradict one another; practice suggestions are distinct, allowed, and short only when nothing is left; rank and board agree |
| `rows`: bulk | 2 requests, 4 spellings of 3 lemmas, list limit 2 | a list's lemmas end up tagged or in a job of the list, except for those left to another's job and those another job made first; batches add up; the confirmed list is the list shown |
| `progress_every_review`, `progress_step_interval`, `practice_settles`, `speaking_report_kept`, `enrichment_delivery`, `lessons_one_event`, `senses_reorder` | smaller, or that of the run above | counterexamples to what comments and documents say: see [Findings](#5-findings) |

Why the instances are large enough: a lost update needs two requests, a row
mixed of three copies needs three reviews or reports; verdicts race between a
run that lost its lock, its successor and the failure handler, so two runs and
two tries; two parts of speech give a run that is stopped between two words.
In `rows` two overlapping requests make every race and the third is the one
that meets the result (the second exchange of a token, the append after a
collision). In `lessons` two words are what a session holds and the third is the
one left out; two jobs fill a batch and the third comes late.
Three report requests are *not* enough for everything: `ReportCoversTranscript`
once took every row that is `ready` to hold a report, which four overlapping
requests break; that came up while the invariant was being proved.
That is what the proofs are for; TLC confirms the four-request behaviour.

Deadlock checking is off everywhere: clients make finitely many requests in an
instance, so every behaviour ends.

### Fairness

Only two runs use fairness, and only of steps the code takes by itself.
`PracticeScoring`: a request that has begun goes on (Node runs its callbacks,
queries return), a worker runs (it is restarted after a crash), BullMQ's timers
fire, the `failed` handler runs. Nothing is assumed of the language model's
answers, of clients, or of faults, which are bounded. `SpeakingSession`: a
request that has begun goes on, since the model answers or times out
(`groq.timeoutMs`); which requests are made is the client's choice, so a
session may stay active for ever and no property says otherwise.

## 4. What is proved

All theorems are proved for any sets of requests, words, attempts and runs and
any bounds. The assumptions are the named ASSUMEs of the modules: bounds are
natural numbers, tries at least one, learning steps positive, ids of requests
differ from the two reserved names; in `Questions` the tables of the code that
are constants of the model (the catalog and the orders of types) have the form
the database gives them (`CatalogAssumption`), and in `Sourcing` the dictionaries
answer lists of groups with lists of senses, and what jobs ask for are rows about
lemmas (`ContentAssumption`).

**DataTheorems.** What several of the proofs need of finite data. The library
states induction for an operator, which the provers cannot take; `LeastNatural`
and `Induct` state it for a *set* of naturals, from the fact that `<` is well
founded, and that is enough to prove that a fold exists and what it returns
(`FoldExists`, `FoldOfPrefixes`, `RunExists`, `SumOfClasses`), that `Max` of a
finite set is its greatest element, that `SetToSeq` and the ranked listings of
`Selections` have every element once and in order (`RankedLists`, `AscendingList`,
`DescendingList`), what `Filtered` keeps, and that lists joined one after the
other have what each of them has (`Flattened`).

**ProgressProofs.** `IInv` says of every copy of a row that a request carries how
it relates to the row. A committed review raises the sum of the counters by one,
so a copy with the row's sum *is* the row, unless a race was committed: a commit
that is not a race therefore writes exactly the SM-2 successor. That makes
`ScheduleWellFormed` and `RowMatchesLog` inductive and
gives `SpacingHonoured`, with an arithmetic lemma that a success lengthens every
interval of two days or more at any ease from 1.30 up. The four properties of
every interleaving need weaker facts of each column: whatever mixture
`MergeColumns` writes, no column passes what the log has. The theorems are about
`ProgressSpec`; in the run `rows` the part of the schedule starts and moves by
`ProgressInit` and `ProgressNext` while the other parts stand still.

**PracticeProofs.** The invariant's main parts: at most one run holds the lock of
a job, and only while it is active (`LockExclusive`); a recorded or imminent
failure means a dead job with all its tries made (`FailuresFinal`); and
`PendingTended`, which names for every pending row somebody who will still
decide it, or the window that lost it. `OrphanOnlyIfLost` follows from the last,
`FailedOnlyAfterRetries` from the second; `Refinement` maps every step to a step
of `AttemptLifecycle` or a stutter. `CapHolds` needs one more invariant, that
without overlap the requests past the check are at most one and fit the cap.

**SpeakingProofs.** Every copy of the transcript is the opening line and pairs, so
it has an odd number of rows; a pair numbered from it keeps the roles on their
indexes even if it repeats indexes (`RolesAlternate`). Every entity at work has
status `ended`, which is why no save of whichever columns reopens the session
(`EndedForever`); from then on only a late turn changes the transcript, so every
report that is carried or stored covers it. Without overlap the one request at
work holds the row itself, so what it saves is its entity.

**EnrichmentProofs.** At most one run holds the lock of a job, and only while the
job is active (`LockExclusive`), so a pending row has somebody left to decide it
or was lost (`PendingTended`): `StuckOnlyIfLost`. A word a job created is in the
memory of a run that is still to append it, or in the deck, or a run of the job
was cut off between the two (`WordsTended`): `DeliveredUnlessInterrupted`. While
no two requests pass the check side by side, the one that passed it found
nothing pending (`OneInFlight`): `OnePendingJobUnlessOverlapping`. `Refinement`
maps every step to a step of `AttemptLifecycle` or a stutter.

**UserRowProofs, accounts.** The id of a request that has inserted no user is in no row
and no copy (`UserUnborn`, `CodeUnborn`), every entity about to be saved has
two different languages and a complete profile if it is on board (`HoldsSound`),
and it is as verified as the row it was made of. A save over the row as it was
read, at the load and at the SELECT of `save`, writes exactly that entity:
`AccountStaysSound`. For `CodesGuarded`, a guess in progress is one attempt ahead
of its code and of the guesses that were answered, and every other code of the
address is consumed (`HoldsCode`). The model was wrong here and was corrected:
`staleSave` compared the row only with the one the request had loaded, and a row
that changes twice and comes back (three languages are needed) made the
invariant false; it is compared with the row of the SELECT as well now.

**UserRowProofs, tokens.** A request *claims* a token from the moment it has found it
live until the row it issued goes. A claim past the first save means that the
token is revoked (`Spent`); so whoever finds a token live is its only claimant,
unless another request has it in hand, and the token is then in `overlapped`
(`ClaimedOnce`). With a claim on one token by one request at most, the token has
one heir at most: `RotatesOnce`. For `ReuseKillsSessions`, `Ended` adds that
tokens revoked by a reuse stay dead, and that whoever claims one of them was
already past its first query, that is in `racing`. `ClientNotLockedOut` is
inductive beside these: rows go only with the account, all at once, and a token
a refresh revoked keeps an heir or a request that is still to issue it.

**UserRowProofs, decks.** What an append has read of its deck still holds unless another
request met it (`AppendAlone`): the words it adds are not members, the positions
in use are below its first one. A deck nobody has created has no members
(`Unborn`), and positions stay below a bound that grows with the requests that are
done (`Room`), so that a last position exists. `CountsRight` and
`PositionsApart` follow.

**UserRowProofs, reports.** Every row that was reviewed has its last review in the
log, and the history's days are the days of the log (`LogKept`). What the queries
of `getStats` have read still holds unless a row has changed in between
(`StatsKept`), so numbers from different moments do not contradict one another; an
answer logged today, or after the request began, keeps the streak above zero.
The heatmap adds up its days, the streak goes through the latest days in descending
order: what both return for any log are lemmas (`SumOfCounts`, `StreakLength`). What `getSuggestions` has picked is distinct, allowed, at
most as many as asked for, and all there is when it is fewer (`PicksKept`).

**RecordsProofs.** Scenarios: versions only grow, and a later row with the same
version has the same spec (`Follows`); what an edit holds, the row it loaded, the
row it selected and the row of now follow one another, and so do the snapshots
of sessions, unless an edit overlapped. Media: the copy of every request
differs from what it was made of by the asked-for column only (`CopySound`), so a
save whose base is the row of now, or that leaves it unchanged, keeps everything
asked for. Texts: nothing is needed of the calls, since a commit compares all it
has read with what is there. Senses: orders are distinct and no larger than the
last id, and what a call has read lies within that too (`SensesInv`), so a delete
that renumbers what it has read, a creation at the end and the seed's next position
keep them without a gap; distinct orders that make up 1..m are m
(`NumbersCounted`). Bulk: what a
request has found in the catalog is still there or was deleted, at each of its
steps (`UploadSound`); its jobs are born with its answer and carry its topics; a
job makes a word only when there is none, so of two that made it one came after a
deletion. The lists a request holds have no lemma twice, since `ExtractLemmas`
keeps one where it comes first, what is confirmed is what was shown, and a request
has as many jobs as it accepted (`BatchInv`); the three classes of a batch's jobs are
disjoint, so they add up. The last theorems are
about `MCRecords` itself: one component runs by its own next-state relation while
the others stand still, so the invariants of the components carry over and all the
properties the run `rows` checks of them are theorems of its specification
(`AccountsAreSafe`, `TokensAreSafe`, `DecksAreConsistent`, `ScenariosAreSafe`,
`CatalogIsKept`, `ListsAreSound`, `ReportsAlwaysAgree`, `RecordsAreTyped`).

**LessonProofs, reviews.** The items of a lesson are signed once: a lesson is named after
the session that built it, which builds once, or after the last item whose answer
put it again, and numbers of answers under review are distinct and unused
(`HeldSound`, `WorksSound`). So what moves the card for a lesson comes after its
signature, and a review that puts it on the day ladder makes it due a day after
that signature at the earliest. Until that day has passed the card stays there
(`LadderKept`): another lesson's review finds it early and leaves it alone. Every
last item that was taken has one review, done or under way (`Counted`). A word
that was asked is enrolled or gone for good (`EnrolledOrGone`), so nobody can
enroll it afresh behind an answer: `LessonsReviewedOnce`, the property of the run
`lessons`. It is proved of `MCLessons`, whatever `BuildLadder` and the grader make
of the words, from lemmas about `ApplySm2`: the next date is after the review, and
a day after it on the ladder. The property had to be stated more carefully for
this: an answer is graded first and reviewed later, and if that takes a day (with
the lifetime of the signature), a second review of the lesson finds the card due
again; two clients and four clock readings show it. The history of a lesson
therefore keeps the longest such delay, and `InTime` names the condition.

**LessonProofs, questions.** `AskedInv` says of every item that was signed that it
asks what `BuildLadder` made of the word as it was then, of every session what its
rounds are, and of every answer that its verdict is the grader's. It rests on three
lemmas about the pure part. A builder gives at most one question of its type, about
an example of the word, and what it shows as right comes from that example
(`Promise`). The ladder is a fold over the types a stage allows, easier types
first; which types get a question depends on the stage and on the types the word
*can* be asked, and on nothing else (`SameAble`, `Alike`), so words of one stage
are asked alike and a word without questions has no type it could be asked. The
grader loads the word again, in whatever order the rows come, and finds the example
of the question and with it what was shown (`Loaded`). `SessionsAreSound` and
`AnswersAreGraded` follow, and `LessonsAreTyped`.

**LessonProofs, sources.** `SourcingInv` is proved inductive, action by action.
Of the batcher it says that a waiting job is at exactly one place of the buckets and
calls, that every job of a batch waits with the key of the batch, and that a bucket
has its timer and is not full (`Queues`): that gives `EveryCallerInOnePlace`, and
that a reply is read for prompts somebody asked. Of the keys, that the call just
made asked each once (`Rotation`), from the fact that `(start + i) % n` runs through
all of `0..n-1` (`Turns`). Of a job that was answered, that what the model said is
about its lemma and target language if the reply named its words, and, in a group
whose part of speech no other group has, about that group and sense (`AnsweredAs`).
This is where the work is: a reply may reverse its groups, leave out the last,
leave a sense unfinished, and give its words in any order (`Replies`); for each of these
the parsers are shown to find the group by its label and the word by its name, and
to fall back to a position only when the label or the name is missing
(`RepliesSound`, from `FullAbout`, `ReversedAbout`, `FrontAbout`, `LessAbout` and
`WordsAbout`). Of a prepared job it says that its drafts are sound (`DraftsSound`:
`OwnContent`, `ExamplesApart` and the untranslated half of `CacheKept`, for given
drafts): the n-th sense of a word takes the n-th slice of the corpus, two senses have
different numbers because the numbers of a group start where the group before ends
(`NumbersApart`), and two slices never overlap (`SlicesApart`); a draft takes from
the model one text per sense (`SensedSound`); translating the examples changes
nothing else (`RetoldSound`). The cache holds drafts that are sound for its key,
so a hit is sound for any row of that key. `SourcesAreSafe` follows, and with
the lessons' types `StudyIsTyped`. So all safety invariants of the two composed runs
are theorems. `Sourcing` was restated for this, without changing what it can
do: sums over lists are cardinalities of sets of places, selections are `Filtered`,
and upserts are `With` and `WithNew`.

**Only model-checked.** Liveness (`SettlesUnlessLost`, `ReportSettles`), which is
out of the prover's reach. `senses_reorder` and the other violations are TLC's
counterexamples.

## 5. Findings

Each is a run whose counterexample TLC prints; `PROJECT.json` quotes the lines.

1. **A review can be half-recorded.** Two overlapping reviews of a word both log
   their event and one update of the counters is lost (`progress_every_review`).
2. **A card in a learning step can have a day interval.** `save` writes only the
   columns that differ from the row it selected. Two reviews read the same
   graduated row, and both saves select it before either writes. The failure
   commits first: step 0, interval 0. The slower success computed, from the old
   row, the step `null`; that is what the row it selected has, so its UPDATE leaves
   the step alone and writes its interval, 90 days (`progress_step_interval`).
3. **An accepted attempt can stay pending for ever**, if the single UPDATE that
   records its last failure is not made (`practice_settles`).
4. **`end` is not idempotent while it runs.** A slower end writes its stale
   `pending` over a stored report (`speaking_report_kept`). With more requests a
   failed row can keep a report and a ready row can lose it.
5. **A retried import leaves words out of the deck**: the retry skips the words
   the interrupted run created (`enrichment_delivery`).
6. **Reordering senses never works.** The first pass writes negative orders to
   keep clear of the unique index, and the CHECK of the table refuses them
   (`senses_reorder`).
7. **A lesson can graduate a card in a single sitting.** `learn.service.ts:249-252`
   says that a word's lesson is one SRS event and so "can't graduate the card in a
   single sitting"; `docs/frontend/learn_vocabulary_flow.md:57` and `:317` say so
   too. Nothing records that a signed answer was used, and no card in a learning
   step is early. A final item that is sent twice, by a client that retries, say,
   is two reviews: the first is a learning step, the second graduates the card
   (`lessons_one_event`). `OneReviewPerLesson`, which the run `lessons` checks and
   LessonProofs proves, says what is left of the claim: only the final item moves
   the card, and a repeat moves it only while it is in the learning steps.

Seen while modelling and kept as named exceptions of the properties, without a
run of their own:

- `gemma-enricher.ts:593`: matching by lemma is meant to be "robust when the
  model reorders or omits words", but what is not found by name is taken by
  position, so a word that was omitted gets another word's content, which is
  then cached. `OwnContent` therefore speaks of replies that name their words.
- `vocabularies.service.ts:668`: words that are "already present ... still join
  the chosen topic(s) so the admin's word list lands whole", but a lemma with
  somebody else's pending job, a learner's private one included, gets neither a
  job nor the topics, and neither does one another job makes first
  (`deferred`, `made` in `ListLands`).
- Two dictionary groups that map to one part of speech share the model's content.
- A repeated final item leaves a card on the day ladder alone only as long as the
  signature and the reviews of the lesson take less than a day together (`InTime`
  in `OneReviewPerLesson`); the code bounds the signature only.
- A mastered word with one sense, or a request without a translation language,
  may allow no question: such words keep their place among the picked ones.
- An empty session may say that no cards are due although due words exist that
  cannot be asked. A card in status new that is due is counted by the statistics
  and left out of review mode.
- An example that is deleted between question and answer leaves the lesson
  without a way to its last step.
- Due words are suggested for practice although `buildSet` would refuse them (a
  draft, or a word that is not the learner's any more).
- The heatmap uses the caller's time zone, the streak UTC: they agree only there.

## 6. Abstractions and bounds

- One learner, one session, one lemma: rows of two learners never meet, a
  session's requests touch only its own rows, jobs of two lemmas share only the
  workers. The practice cap is per learner and is modelled.
- Time: minutes in `Progress`, at the readings in `Instants`; the day of the
  practice cap does not end. Ease is kept in hundredths, exactly;
  a grown interval is rounded as the code's `Math.round` rounds it (`srs.ts:75`).
- Answers of models, dictionaries and caches are outcomes (an answer, nothing
  usable, an error). The drafts of a lemma are the same for every run, since the
  first usable answer is cached. `SpeakingSession` gives a report the set of
  turns it was made of.
- BullMQ's counting is left open where it depends on the version: a job failed
  by the stalled check may or may not have a try counted.
- The two queries of an import's check (pending jobs, owned words) are one step;
  so are the queries that a start makes before its INSERT, and `appendMembers`.
- Left out: lists and details, which only read; the audio jobs that
  learners' creations enqueue; the columns that record results for display;
  deleting a deck or a user while its jobs run; `updateUserVocabulary`, the same
  load and save as the admin's edit.
- `rows` and `lessons` run one part at a time: the parts share no rows, or
  meet in an interface another module has (an append, a review, a draft).
- `Lessons`: one review or enrollment is one step; wrong options taken from other
  words are not told apart (`Other`); two translations of one text are ambiguous
  and not graded by the properties.
- `Sourcing`: the keys that are throttled are fixed for a behaviour and are the
  first ones; the start index of the rotation is kept modulo the number of keys;
  the translator answers per run of a job; a reply has at most the flaws
  `MaxMishaps` allows.
- `Reports`: one request per behaviour, which lasts at most a day; a review is one
  step with one of the given outcomes.
- `BulkCreate`: a lemma has one part of speech; queueing is not told apart from
  saving the row; a learner asks for a lemma once.
- `Accounts`: one address; `MaxAttempts` is 1 in the run (5 in the code). `Media`,
  `Senses`, `WordTexts`: one word. `Decks`: one learner.
- Bounds, all CONSTANTS: requests and runs by the size of their sets, `MaxTries`
  and `MaxStalls` (5 and 1 in the code), `MaxFaults`, `MaxUpsets`, `MaxTurns`,
  `Cap`, `Instants`, `Grades`, `Limit`, `MaxTypesPerBand`, `ClozeCap`, `MaxFinals`,
  `MaxBatch`, `JobTries`, `MaxMishaps`, `MaxSenses`, `MaxEvents`, `BulkMax`,
  `Contested`, `MaxAccountFaults`, `MaxTokenFaults`, `MaxMediaFaults`. The proofs assume none of
  their values. The ids of requests in `rows` are symmetric: the modules only
  compare them.

**Not modelled.** Pronunciation is one HTTP call and one INSERT that nothing else
reads or changes; mailer, health and configuration are I/O and parsing; opus-mt
is a stateless service outside the TypeScript program, and its answers are
inputs of `Sourcing`; migrations are one-off, and the constraints they create
are in the modules whose rows they bind. Nothing of these holds state that a
property of several steps could be about.

## 7. Plan

Written, in this order: `Srs`, `Progress`, `ProgressProofs`; `AttemptLifecycle`,
`PracticeScoring`, `PracticeProofs`; `SpeakingSession`, `SpeakingProofs`;
`Enrichment`; `Accounts`, `RefreshTokens`, `Decks`, `Scenarios`, `Senses`,
`Media`, `WordTexts`; `Selections`, `Questions`, `Lessons`; `Sourcing`; `Reports`;
`BulkCreate`; `EnrichmentProofs`, `DataTheorems`, `UserRowProofs`, `RecordsProofs`,
`LessonProofs`. Every safety invariant and action property of a passing run is
proved. No module declares a RECURSIVE operator, so all of them can be proved
about.
