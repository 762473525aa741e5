------------------------------ MODULE Lessons ------------------------------
(***************************************************************************)
(* One learner's lessons: how a session is put together and how the        *)
(* answers to its signed items are taken (src/src/learn/learn.service.ts,  *)
(* vocab-picker.service.ts, hmac-signer.service.ts), next to the catalog   *)
(* that admins edit and to the schedule of module Srs.                     *)
(*                                                                         *)
(* A session is made in three steps (pick, enroll, build), an answer is    *)
(* taken in two (verify and grade, review and requeue); other requests run *)
(* between them.  A request that is refused changes nothing and is no      *)
(* step.  The interleavings inside one review or one enrollment are those  *)
(* of module Progress; here each is one step.                              *)
(***************************************************************************)
EXTENDS Srs, Questions, Functions, Selections

CONSTANTS
  Words,           \* vocabulary ids
  Versions,        \* for every word the rows it has, one edit after the other
  Removable,       \* the words that may be deleted
  Suitability,     \* of fresh words: the distance to the learner's level, then the frequency rank
  Topic,           \* the words of the topic
  Deck,            \* the position of every word in the deck
  Requests,        \* createSession: mode, practice, whether a translation language is named
  Limit,           \* words in a session
  Orders,          \* orders in which the optional types may be tried
  Sessions,        \* createSession calls, one request each
  Submissions,     \* clients that answer, one request after the other
  MaxFinals,       \* bound: how many last items are answered
  Cards0,          \* for every word the progress rows the learner may have at first
  Speeds,          \* answers are within FAST_THRESHOLD_MS or not: subset of BOOLEAN
  Ttl,             \* cfg.signatureTtlMs, in minutes
  RequeueWindow,   \* cfg.requeueWindowMinutes
  EarlyTolerance,  \* cfg.earlyToleranceSeconds, in minutes
  Moments          \* clock readings at which something may happen

VARIABLES
  clock,           \* wall clock, in minutes
  version,         \* the row a word has now, 0 once it is deleted
  card,            \* user_word_progress row of each word, or NoCard
  session,         \* the state of each createSession call and what it answered
  held,            \* the signed items the client holds
  answer,          \* the state of each client's submitAnswer call, its last one when done
  finals,          \* how many last items have been answered
  lessons          \* history: for every lesson how often its last item was
                   \* taken, what the reviews it gave did to the card, and the
                   \* longest time one of them came after its answer

lessonVars == <<clock, version, card, session, held, answer, finals, lessons>>

Modes == {"daily", "topic", "deck", "review"}

\* practice is refused for the modes that are due-driven.
ASSUME LessonsAssumption ==
  /\ Requests \subseteq [mode: Modes, practice: BOOLEAN, lang: BOOLEAN]
  /\ \A r \in Requests : r.practice => r.mode \in {"topic", "deck"}
  /\ {Limit, MaxFinals, Ttl, RequeueWindow, EarlyTolerance} \cup Moments \subseteq Nat
  /\ Speeds \subseteq BOOLEAN /\ Topic \subseteq Words /\ DOMAIN Deck \subseteq Words
  /\ Sessions \cap 1..MaxFinals = {} /\ IsFiniteSet(Submissions)

NoCard == [status |-> "none"]

\* A word has a row at first, and the order of the optional types names each once.
ASSUME CatalogAssumption ==
  /\ \A w \in Words : /\ Versions[w] \in Seq(Range(Versions[w])) \ {<<>>}
                       /\ \A row \in Range(Versions[w]) : WellFormedRow(row)
  /\ \A order \in Orders : /\ order \in Seq(QuestionTypes \ AlwaysInclude)
                            /\ Range(order) = QuestionTypes \ AlwaysInclude /\ IsInjective(order)

\* Module Progress shows that a graduated card has a day interval.
ASSUME CardsAssumption ==
  /\ DOMAIN Cards0 = Words
  /\ \A w \in Words : \A row \in Cards0[w] :
       row # NoCard => row \in Schedules /\ (row.step = Graduated => row.interval >= 1)

FreshCard == [status |-> "new", reps |-> 0, ease |-> DefaultEase, interval |-> 0,
              next |-> clock, step |-> 0]

Present(w) == version[w] # 0
Row(w) == Versions[w][version[w]]
Catalog == [w \in {v \in Words : Present(v)} |-> Row(w)]
Enrolled(w) == card[w] # NoCard

\* A lesson is named after its word and what built it: a session or, when it is
\* a requeued one, an answer to a last item.
Groups == (Sessions \cup 1..MaxFinals) \X Words

Never == -1
NoSession == [pc |-> "idle", request |-> [mode |-> "daily", practice |-> FALSE, lang |-> FALSE],
              due |-> {}, fresh |-> {}, reason |-> "none", nextDue |-> Never,
              statuses |-> <<>>, able |-> <<>>, rounds |-> <<>>]
NoAnswer == [pc |-> "idle", verdict |-> <<>>, last |-> {}, work |-> {}]

NoReview == [finals |-> 0, moves |-> <<>>, delay |-> 0]

Statuses0 == {"idle", "picked", "enrolled", "built", "failed"}
Reasons == {"none", "no_more_at_level", "deck_exhausted", "no_enrollment", "no_due_cards"}

LessonsTypeOK ==
  /\ clock \in Nat
  /\ \A w \in Words : version[w] \in 0..Len(Versions[w]) /\ card[w] \in Schedules \cup {NoCard}
  /\ \A s \in Sessions :
       /\ session[s].pc \in Statuses0 /\ session[s].request \in Requests \cup {NoSession.request}
       /\ session[s].due \cup session[s].fresh \subseteq Words
       /\ session[s].reason \in Reasons /\ session[s].nextDue \in Nat \cup {Never}
       /\ UNION Range(session[s].rounds) \subseteq held
  /\ \A i \in held :
       /\ i.group \in Groups /\ i.word = i.group[2] /\ i.type \in {LADDER[k].type : k \in DOMAIN LADDER}
       /\ i.step \in 0..(i.count - 1) /\ i.at <= clock
  /\ \A c \in Submissions :
       /\ answer[c].pc \in {"idle", "reviewing", "done"}
       /\ answer[c].pc # "idle" => answer[c].verdict.quality \in Qualities
       /\ \A work \in answer[c].work : work.item \in held
  /\ finals \in 0..MaxFinals
  /\ \A g \in Groups : lessons[g].finals \in Nat /\ lessons[g].moves \in Seq({"steps", "ladder"})
                       /\ lessons[g].delay \in Nat

LessonsInit ==
  /\ clock = 0
  /\ version = [w \in Words |-> 1]
  /\ card \in {f \in [Words -> UNION Range(Cards0)] : \A w \in Words : f[w] \in Cards0[w]}
  /\ held = {}
  /\ session = [s \in Sessions |-> NoSession]
  /\ answer = [c \in Submissions |-> NoAnswer] /\ finals = 0
  /\ lessons = [g \in Groups |-> NoReview]

-----------------------------------------------------------------------------
(* Picking the words *)

Source(mode) ==
  {w \in Words : /\ mode = "topic" => w \in Topic /\ Present(w)
                 /\ mode = "deck" => w \in DOMAIN Deck /\ Present(w)}

DueAt == [w \in Words |-> IF Enrolled(w) THEN card[w].next ELSE 0]

DueWords(request) ==
  {w \in Source(request.mode) : /\ Enrolled(w)
                                /\ request.practice \/ card[w].next <= clock
                                /\ request.mode = "review" => card[w].status # "new"}

\* Unenrolled words; outside decks only approved system words and the learner's own.
FreshWords(mode) ==
  {w \in Source(mode) : /\ mode # "review" /\ Present(w) /\ ~Enrolled(w)
                        /\ mode # "deck" => Row(w).approved \/ ~Row(w).system}

PickDue(request) == Least(Limit, DueWords(request), DueAt)
PickFresh(mode, taken) ==
  Least(Limit - Cardinality(taken), FreshWords(mode), IF mode = "deck" THEN Deck ELSE Suitability)

EmptyReason(mode) ==
  CASE mode \in {"daily", "topic"} -> "no_more_at_level"
    [] mode = "deck" -> "deck_exhausted"
    [] mode = "review" -> IF \A w \in Words : ~Enrolled(w) THEN "no_enrollment" ELSE "no_due_cards"

\* The first due date after now.
FindNextDueAt ==
  LET coming == {card[w].next : w \in {v \in Words : Enrolled(v) /\ card[v].next > clock}}
  IN IF coming = {} THEN Never ELSE CHOOSE t \in coming : \A u \in coming : t <= u

ResolveNextDueAt(request, reason) ==
  IF reason = "no_due_cards" /\ ~request.practice THEN FindNextDueAt ELSE Never

PickWords(s) ==
  /\ session[s].pc = "idle"
  /\ \E request \in Requests :
       /\ request.mode = "deck" => Source("deck") # {}
       /\ \E due \in PickDue(request) : \E fresh \in PickFresh(request.mode, due) :
            LET none == due \cup fresh = {}
                reason == IF none THEN EmptyReason(request.mode) ELSE "none"
            IN session' = [session EXCEPT ![s] =
                 [NoSession EXCEPT !.request = request, !.due = due, !.fresh = fresh,
                    !.reason = reason, !.nextDue = ResolveNextDueAt(request, reason),
                    !.pc = IF none THEN "built" ELSE IF fresh = {} THEN "enrolled" ELSE "picked"]]
  /\ UNCHANGED <<clock, version, card, held, answer, finals, lessons>>

\* Words that have gone meanwhile, or have a row by now, are left out.  A deck
\* that has lost all its words is refused, and the session with it.
EnrollFresh(s) ==
  /\ session[s].pc = "picked"
  /\ LET refused == session[s].request.mode = "deck" /\ Source("deck") = {}
         created == {w \in session[s].fresh : Present(w) /\ ~Enrolled(w)}
     IN /\ card' = IF refused THEN card
                   ELSE [w \in Words |-> IF w \in created THEN FreshCard ELSE card[w]]
        /\ session' = [session EXCEPT ![s].pc = IF refused THEN "failed" ELSE "enrolled"]
  /\ UNCHANGED <<clock, version, held, answer, finals, lessons>>

-----------------------------------------------------------------------------
(* Building the session *)

Context(w, word, lang) == [id |-> w, word |-> word, lang |-> lang, catalog |-> Catalog]

\* The steps of one word share a group; step and count are signed with the rest.
\* v is the row the questions were built from (history).
AssembleLessonItems(group, w, v, lang, questions) ==
  {[word |-> w, group |-> group, type |-> questions[k].type, example |-> questions[k].example,
    right |-> questions[k].right, options |-> questions[k].options, lang |-> lang,
    step |-> k - 1, count |-> Len(questions), at |-> clock, version |-> v] :
     k \in DOMAIN questions}

\* Mutant of ToTypeMajorRounds: the types in the order of the QuestionType enum.
ToTypeMajorRounds_EnumOrder(items) ==
  LET types == Filtered(<<"flashcard", "cloze_mcq", "cloze_typing", "meaning_in_context",
                          "sense_disambiguation", "listening_cloze", "word_from_translation",
                          "translation_from_word", "listening_choice", "image_choice",
                          "dictation", "pronunciation">>, LAMBDA t : t \in {i.type : i \in items})
  IN [r \in DOMAIN types |-> {i \in items : i.type = types[r]}]

\* One round for each type, the types in ladder order.  Inside a round the
\* words come in any order.
ToTypeMajorRounds(items) ==
  LET types == Filtered([k \in DOMAIN LADDER |-> LADDER[k].type],
                        LAMBDA t : t \in {i.type : i \in items})
  IN [r \in DOMAIN types |-> {i \in items : i.type = types[r]}]

StatusOf(w) == IF Enrolled(w) THEN card[w].status ELSE "new"

\* The types the data of a word allows (history).
Able(c) == {LADDER[k].type : k \in {j \in DOMAIN LADDER : TryBuild(LADDER[j].type, c) # {}}}

\* Every word is loaded as it is now; one order of the types for all of them.
BuildSession(s) ==
  /\ session[s].pc = "enrolled"
  /\ LET picked == {w \in session[s].due \cup session[s].fresh : Present(w)}
         request == session[s].request
     IN \E order \in Orders :
        \E word \in {f \in [picked -> UNION {Loads(Row(w)) : w \in picked}] : \A w \in picked : f[w] \in Loads(Row(w))} :
        LET ladder == [w \in picked |->
                         BuildLadder(StatusOf(w), order, Context(w, word[w], request.lang))]
            items == UNION {AssembleLessonItems(<<s, w>>, w, version[w], request.lang, ladder[w]) : w \in picked}
            reason == IF items = {} THEN "no_due_cards" ELSE "none"
        IN /\ session' = [session EXCEPT ![s].pc = "built", ![s].reason = reason,
                ![s].nextDue = ResolveNextDueAt(request, reason),
                ![s].statuses = [w \in picked |-> StatusOf(w)],
                ![s].able = [w \in picked |-> Able(Context(w, word[w], request.lang))],
                ![s].rounds = ToTypeMajorRounds(items)]
           /\ held' = held \cup items
  /\ UNCHANGED <<clock, version, card, answer, finals, lessons>>

-----------------------------------------------------------------------------
(* Answers.  The client may answer any item it holds, in any order and as
   often as it likes, until the signature expires. *)

\* Mutant of IsFinalStep: steps counted from one.
IsFinalStep_FromOne(item) == item.step = item.count

IsFinalStep(item) == item.step = item.count - 1

\* What the client was told, next to what the question had promised (history).
\* Translations of a sense come in no order: with two of them the one that was
\* shown as right may not be the one the grader derives.
Ambiguous(item, word) ==
  item.type \in MeaningTypes /\ Len(SenseOf(word, item.example).translations) > 1

Verdict(item, word, text, result) ==
  [correct |-> result.correct, quality |-> result.quality, asRight |-> text = item.right,
   asAsked |-> version[item.word] = item.version /\ item.type # "flashcard" /\ ~Ambiguous(item, word),
   typed |-> item.type \in TypedTypes]

LastOf(item) == item.step = item.count - 1   \* history and bound

SignatureValid(item) == clock - item.at <= Ttl

AnswerTexts(item) ==
  CASE item.type = "flashcard" -> {Plain(r) : r \in Ratings}
    [] item.type \in TypedTypes -> {item.right, Typo(item.right), Plain("wrong")}
    [] OTHER -> item.options

SubmitAnswer(c) ==
  /\ answer[c].pc # "reviewing"
  /\ \E item \in {i \in held : SignatureValid(i) /\ Present(i.word)} :
       /\ item.example \in ExamplesOf(Row(item.word))
       /\ IF LastOf(item)
          THEN finals < MaxFinals /\ finals' = finals + 1
               /\ lessons' = [lessons EXCEPT ![item.group].finals = @ + 1]
          ELSE UNCHANGED <<finals, lessons>>
       /\ \E word \in Loads(Row(item.word)), text \in AnswerTexts(item), fast \in Speeds :
            LET result == Grade(item.type, word, item.example, item.lang, text, fast) IN
            answer' = [answer EXCEPT ![c] =
              [pc |-> IF IsFinalStep(item) THEN "reviewing" ELSE "done",
               verdict |-> Verdict(item, word, text, result),
               last |-> IF LastOf(item) THEN {[word |-> item.word, at |-> clock]} ELSE {},
               work |-> IF IsFinalStep(item)
                        THEN {[item |-> item, word |-> word, version |-> version[item.word],
                               number |-> finals', at |-> clock]} ELSE {}]]
  /\ UNCHANGED <<clock, version, card, session, held>>

\* A graduated card that is not due yet is practised, not rescheduled.
Early(progress) == progress.step = Graduated /\ progress.next > clock + EarlyTolerance

Reviewed(progress, quality) ==
  IF Early(progress) THEN progress ELSE ApplySm2(progress, quality, clock)

\* The word's next lesson, when it is due again soon: built from the word as
\* the answer loaded it, for the stage the review has given it.
BuildRequeue(work, progress) ==
  LET w == work.item.word
      lang == work.item.lang
  IN IF progress.next - clock > RequeueWindow THEN {{}}
     ELSE {AssembleLessonItems(<<work.number, w>>, w, work.version, lang,
             BuildLadder(progress.status, order, Context(w, work.word, lang))) : order \in Orders}

\* What a review that moves the card adds to the history of its lesson.
Moved(lesson, effect, took) ==
  [finals |-> lesson.finals, moves |-> Append(lesson.moves, effect),
   delay |-> IF took > lesson.delay THEN took ELSE lesson.delay]

\* submitReview; the row may have gone with its word (404).
SubmitReview(c) ==
  /\ answer[c].pc = "reviewing"
  /\ \E work \in answer[c].work :
       LET w == work.item.word
           progress == Reviewed(card[w], answer[c].verdict.quality)
           effect == IF progress.step = Graduated THEN "ladder" ELSE "steps"
       IN IF ~Enrolled(w) THEN UNCHANGED <<card, held, lessons>>
          ELSE /\ card' = [card EXCEPT ![w] = progress]
               /\ \E items \in BuildRequeue(work, progress) : held' = held \cup items
               /\ lessons' = IF Early(card[w]) THEN lessons
                             ELSE [lessons EXCEPT ![work.item.group] = Moved(@, effect, clock - work.at)]
  /\ answer' = [answer EXCEPT ![c].pc = "done", ![c].work = {}]
  /\ UNCHANGED <<clock, version, session, finals>>

-----------------------------------------------------------------------------
(* The catalog and time *)

EditWord(w) ==
  /\ Present(w) /\ version[w] < Len(Versions[w])
  /\ version' = [version EXCEPT ![w] = @ + 1]
  /\ UNCHANGED <<clock, card, session, held, answer, finals, lessons>>

\* The progress row and the deck and topic rows go with the word.
DeleteVocabulary(w) ==
  /\ Present(w) /\ w \in Removable
  /\ version' = [version EXCEPT ![w] = 0] /\ card' = [card EXCEPT ![w] = NoCard]
  /\ UNCHANGED <<clock, session, held, answer, finals, lessons>>

Advance ==
  /\ \E t \in Moments : t > clock /\ clock' = t
  /\ UNCHANGED <<version, card, session, held, answer, finals, lessons>>

LessonsNext ==
  \/ \E s \in Sessions : PickWords(s) \/ EnrollFresh(s) \/ BuildSession(s)
  \/ \E c \in Submissions : SubmitAnswer(c) \/ SubmitReview(c)
  \/ \E w \in Words : EditWord(w) \/ DeleteVocabulary(w)
  \/ Advance

LessonsSpec == LessonsInit /\ [][LessonsNext]_lessonVars

-----------------------------------------------------------------------------
(* Properties *)

ItemsOf(s, w) == {i \in UNION Range(session[s].rounds) : i.word = w}
Types(items) == {i.type : i \in items}

\* learn.service.ts: a client that walks through the rounds meets every word's
\* steps in their order, each once, so that the step that moves the schedule
\* comes last.
StepsInOrder ==
  \A s \in Sessions :
    LET rounds == session[s].rounds IN
    /\ \A r, q \in DOMAIN rounds : \A i \in rounds[r], j \in rounds[q] :
         i.word = j.word => (i.step < j.step <=> r < q)
    /\ \A w \in Words : \A i \in ItemsOf(s, w) :
         {j.step : j \in ItemsOf(s, w)} = 0..(i.count - 1)

\* The shared sampling key: words of the same stage whose data allows the same
\* types are asked the same types, so that a round holds the whole list.
SameTypesAsked ==
  \A s \in Sessions : \A v, w \in DOMAIN session[s].able :
    session[s].statuses[v] = session[s].statuses[w] /\ session[s].able[v] = session[s].able[w] =>
      Types(ItemsOf(s, v)) = Types(ItemsOf(s, w))

\* A picked word whose data allows a type of its stage is asked, whatever was
\* sampled; a word in learning or review needs only an example for that.
NoWordLeftOut ==
  \A s \in Sessions : \A w \in DOMAIN session[s].able :
    /\ session[s].able[w] \cap EligibleTypesForStatus(session[s].statuses[w]) # {} => ItemsOf(s, w) # {}
    /\ session[s].statuses[w] # "mastered" /\ "flashcard" \in session[s].able[w] => ItemsOf(s, w) # {}

\* A session without items says so, and only then.
EmptySaysWhy ==
  \A s \in Sessions : session[s].pc = "built" =>
    (session[s].rounds = <<>> <=> session[s].reason # "none")

\* answer-grader.service.ts: as long as the word is the one that was asked, the
\* answer that was right in the question is graded right and no other one is;
\* a wrong answer counts as a success only for a typing error.
GradedAsAsked ==
  \A c \in Submissions : answer[c].pc # "idle" =>
    LET verdict == answer[c].verdict IN
    /\ verdict.asAsked => (verdict.correct <=> verdict.asRight)
    /\ verdict.correct => Passed(verdict.quality)
    /\ Passed(verdict.quality) /\ ~verdict.correct => verdict.typed

\* learn.service.ts:252: a lesson moves the card only when its last item is
\* answered.  Nothing records that it was, and answered again it moves the card
\* again, but only while the card is in the learning steps, never once it is on
\* the day ladder, as long as its signature and its reviews together take less
\* than a day: a review that came later than that would find the card due again.
InTime(lesson) == lesson.delay + Ttl + EarlyTolerance < MinutesPerDay

OneReviewPerLesson ==
  \A g \in Groups :
    /\ Len(lessons[g].moves) <= lessons[g].finals
    /\ InTime(lessons[g]) =>
         \A k \in 1..(Len(lessons[g].moves) - 1) : lessons[g].moves[k] = "steps"

\* learn.service.ts:249-252 "A word's lesson is one SRS event: only the final
\* step (the hardest question) reschedules. [...] so a multi-question lesson
\* can't graduate the card in a single sitting": where a lesson has taken a card
\* to the day ladder, or found it there, that event is its only one.
GraduatesInOneEvent ==
  \A g \in Groups : "ladder" \in Range(lessons[g].moves) => Len(lessons[g].moves) = 1

\* Once the last item has been answered and its review taken, the card is due
\* later than the answer: a word answered to the end leaves the due queue.
AnsweredNotDue ==
  \A c \in Submissions : answer[c].pc = "done" =>
    \A l \in answer[c].last : Enrolled(l.word) => card[l.word].next > l.at
=============================================================================
