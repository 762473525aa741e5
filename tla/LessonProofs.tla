---------------------------- MODULE LessonProofs ----------------------------
(***************************************************************************)
(* The lessons of module Lessons, for any catalog, schedule, number of     *)
(* sessions and of clients: a lesson is one review and an answered word    *)
(* leaves the due queue (OneReviewPerLesson, AnsweredNotDue), a session    *)
(* asks what it should (StepsInOrder, SameTypesAsked, NoWordLeftOut,       *)
(* EmptySaysWhy), and an answer is graded as it was asked (GradedAsAsked). *)
(* And the sources of module Sourcing, for any dictionaries, corpus, jobs, *)
(* batch size and number of keys: SourcesSafe.                             *)
(*                                                                         *)
(* The argument for the review.  The items of a lesson are signed once, at *)
(* one moment, and never before another lesson has had its name: so        *)
(* whatever moves the card for a lesson comes after its signature.  A      *)
(* review that puts the card on the day ladder makes it due a day after    *)
(* that signature at the earliest; a later review of the lesson within     *)
(* that day finds the card early and leaves it alone.                      *)
(*                                                                         *)
(* The argument for the session.  A builder gives at most one question, of *)
(* its type, about an example of the word.  The types that are tried, the  *)
(* ones that get a question and so the ladder depend on the stage of the   *)
(* word and on which types it can be asked, and on nothing else; the       *)
(* rounds are the same types in the order of the ladder.  What a question  *)
(* shows as right is what the grader finds again from the example, in      *)
(* whatever order the rows of the word come the second time.               *)
(*                                                                         *)
(* The argument for the sources.  A job that waits is at one place of one  *)
(* queue, and its batch has the key of its own row, so a reply is read for *)
(* words that were asked.  Of a reply that names its words, what is parsed *)
(* for a job was said about its lemma and, in a group whose part of speech *)
(* no other has, about that group.  A draft takes from it no more than one *)
(* text per sense; the slices of the corpus are numbered through the word, *)
(* so no two of them overlap; and the cache holds drafts made for its key. *)
(***************************************************************************)
EXTENDS MCLessons, DataTheorems, SequenceTheorems

-----------------------------------------------------------------------------
(* Lemmas about the operators *)

SoundCards == {row \in Schedules : row.step = Graduated => row.interval >= 1}

LEMMA NoCardIsNoSchedule == NoCard \notin SoundCards
  BY DEF NoCard, SoundCards, Schedules, Statuses

LEMMA EaseKeptUp ==
  ASSUME NEW e \in Nat, NEW q \in Qualities
  PROVE  UpdateEase(e, q) \in Nat /\ UpdateEase(e, q) >= MinEase
  BY DEF UpdateEase, EaseDelta, MinEase, Qualities

LEMMA IntervalKeptUp ==
  ASSUME NEW i \in Nat, NEW e \in Nat, i >= 1, e >= MinEase
  PROVE  GrownInterval(i, e) \in Nat /\ GrownInterval(i, e) >= 1
  <1> DEFINE p == i * e
  <1>1. p \in Nat /\ p >= 100
    BY DEF MinEase
  <1>2. (p + 50) \div 100 \in Nat /\ (p + 50) \div 100 >= 1
    BY <1>1
  <1> QED
    BY <1>2 DEF GrownInterval

\* A review leaves a sound row that is due after it, on the ladder a day after it.
LEMMA ReviewedRow ==
  ASSUME NEW c \in SoundCards, NEW q \in Qualities, NEW now \in Nat
  PROVE  LET row == ApplySm2(c, q, now) IN
         /\ row \in SoundCards
         /\ row.next > now
         /\ row.step = Graduated => row.next >= now + MinutesPerDay
  <1> DEFINE ease == UpdateEase(c.ease, q)
             Good(row) == /\ row \in SoundCards
                          /\ row.next > now
                          /\ row.step = Graduated => row.next >= now + MinutesPerDay
  <1>1. /\ c.ease \in Nat /\ c.reps \in Nat /\ c.interval \in Nat
        /\ c.step \in StepIndexes \cup {Graduated} /\ (c.step = Graduated => c.interval >= 1)
    BY DEF SoundCards, Schedules
  <1>2. ease \in Nat /\ ease >= MinEase
    BY <1>1, EaseKeptUp
  <1>3. \A i \in StepIndexes : StepMinutes(i) \in Nat /\ StepMinutes(i) >= 1
    BY LearningStepsAssumption DEF StepIndexes, StepMinutes
  <1>4. 0 \in StepIndexes /\ (c.step # Graduated /\ c.step + 1 < Len(LearningSteps) => c.step + 1 \in StepIndexes)
    BY SMTT(30), <1>1, LearningStepsAssumption DEF StepIndexes, Graduated
  <1>5. ASSUME NEW reps \in Nat, NEW i \in StepIndexes
        PROVE  Good(AtStep(reps, ease, i, now))
    <2>1. AtStep(reps, ease, i, now) \in Schedules
      BY <1>2, <1>3 DEF AtStep, Schedules, Statuses
    <2>2. i # Graduated
      BY DEF StepIndexes, Graduated
    <2> QED
      BY <1>3, <2>1, <2>2 DEF AtStep, SoundCards
  <1>6. ASSUME NEW reps \in Nat, NEW i \in Nat, i >= 1
        PROVE  Good(OnDayLadder(reps, ease, i, now))
    <2>1. OnDayLadder(reps, ease, i, now) \in Schedules
      BY <1>2 DEF OnDayLadder, Schedules, Statuses, InferStatus, MinutesPerDay
    <2>2. i * MinutesPerDay >= MinutesPerDay
      BY <1>6 DEF MinutesPerDay
    <2> QED
      BY <1>6, <2>1, <2>2 DEF OnDayLadder, SoundCards, MinutesPerDay
  <1>7. ASSUME c.step = Graduated
        PROVE  NextInterval(c.reps, c.interval, ease) \in Nat /\ NextInterval(c.reps, c.interval, ease) >= 1
    BY <1>1, <1>2, <1>7, IntervalKeptUp DEF NextInterval
  <1> HIDE DEF Good
  <1>8. Good(ApplySm2(c, q, now))
    <2>1. CASE c.step # Graduated
      BY <1>1, <1>4, <1>5, <1>6, <2>1 DEF ApplySm2, ApplyStepState
    <2>2. CASE c.step = Graduated
      BY <1>1, <1>4, <1>5, <1>6, <1>7, <2>2 DEF ApplySm2
    <2> QED
      BY <2>1, <2>2
  <1> QED
    BY <1>8 DEF Good

LEMMA ItemsSigned ==
  ASSUME NEW g, NEW w, NEW v, NEW lang, NEW questions,
         NEW i \in AssembleLessonItems(g, w, v, lang, questions)
  PROVE  i.word = w /\ i.group = g /\ i.at = clock
  BY DEF AssembleLessonItems

LEMMA RequeueSigned ==
  ASSUME NEW work, NEW progress, NEW items \in BuildRequeue(work, progress), NEW i \in items
  PROVE  i.word = work.item.word /\ i.group = <<work.number, work.item.word>> /\ i.at = clock
  BY ItemsSigned DEF BuildRequeue

LEMMA GradedQuality ==
  ASSUME NEW type, NEW word, NEW example, NEW lang, NEW text, NEW fast
  PROVE  Grade(type, word, example, lang, text, fast).quality \in Qualities
  BY DEF Grade, FlashcardQuality, Qualities

-----------------------------------------------------------------------------
(* The inductive invariant of the review *)

IsSession(r) ==
  r = [pc |-> r.pc, request |-> r.request, due |-> r.due, fresh |-> r.fresh, reason |-> r.reason,
       nextDue |-> r.nextDue, statuses |-> r.statuses, able |-> r.able, rounds |-> r.rounds]
IsAnswer(r) == r = [pc |-> r.pc, verdict |-> r.verdict, last |-> r.last, work |-> r.work]
Histories == [finals: Nat, moves: Seq({"steps", "ladder"}), delay: Nat]

Shapes ==
  /\ clock \in Nat
  /\ version \in [Words -> Nat]
  /\ card \in [Words -> SoundCards \cup {NoCard}]
  /\ DOMAIN session = Sessions /\ \A s \in Sessions : IsSession(session[s])
  /\ DOMAIN answer = Submissions /\ \A c \in Submissions : IsAnswer(answer[c])
  /\ finals \in 0..MaxFinals
  /\ lessons \in [Groups -> Histories]

\* A word that has gone never comes back.
EnrolledOrGone(w) == w \in Words /\ (Enrolled(w) \/ ~Present(w))

\* The words of a session that is being made: those still to be enrolled excepted.
PickedSound ==
  \A s \in Sessions :
    /\ session[s].pc \in {"picked", "enrolled"} => \A w \in session[s].due : EnrolledOrGone(w)
    /\ session[s].pc = "picked" => session[s].fresh \subseteq Words
    /\ session[s].pc = "enrolled" => \A w \in session[s].fresh : EnrolledOrGone(w)

HeldSound ==
  \A i \in held :
    /\ i.group = <<i.group[1], i.word>> /\ i.group[1] \in Sessions \cup 1..finals
    /\ EnrolledOrGone(i.word)
    /\ i.at \in Nat /\ i.at <= clock
    /\ i.group[1] \in Sessions => session[i.group[1]].pc = "built"

\* An answer under review: its item, its time and the number its requeued lesson will have.
WorkSound(c, work) ==
  /\ answer[c].verdict.quality \in Qualities
  /\ work.item \in held
  /\ work.at \in Nat /\ work.at <= clock /\ work.at - work.item.at <= Ttl
  /\ work.number \in 1..finals
  /\ \A i \in held : i.group[1] # work.number
  /\ \A l \in answer[c].last : l.word = work.item.word /\ l.at = work.at

WorksSound ==
  /\ \A c \in Submissions : answer[c].pc = "reviewing" => \A work \in answer[c].work : WorkSound(c, work)
  /\ \A c, d \in Submissions : answer[c].pc = "reviewing" /\ answer[d].pc = "reviewing" /\ c # d =>
       \A work \in answer[c].work, other \in answer[d].work : work.number # other.number

LastSound ==
  \A c \in Submissions : \A l \in answer[c].last :
    EnrolledOrGone(l.word) /\ l.at \in Nat /\ l.at <= clock

\* A last item that was taken gives one review, done or under way.
InReview(g) ==
  {c \in Submissions : answer[c].pc = "reviewing" /\ \E work \in answer[c].work : work.item.group = g}
Counted == \A g \in Groups : Len(lessons[g].moves) + Cardinality(InReview(g)) <= lessons[g].finals

\* Only a lesson whose items are out has moved its card.
MovesHeld == \A g \in Groups : lessons[g].moves # <<>> => \E i \in held : i.group = g

\* A lesson that has put its card on the day ladder: unless a day has passed
\* since it was signed, the card is still there.
Asleep(w, at) ==
  \/ clock + EarlyTolerance >= at + MinutesPerDay
  \/ card[w].step = Graduated /\ card[w].next >= at + MinutesPerDay
LastMove(g) == lessons[g].moves[Len(lessons[g].moves)]
LadderKept ==
  \A i \in held : lessons[i.group].moves # <<>> /\ LastMove(i.group) = "ladder" /\ Enrolled(i.word) =>
    Asleep(i.word, i.at)

MovesOnce ==
  \A g \in Groups : InTime(lessons[g]) =>
    \A k \in 1..(Len(lessons[g].moves) - 1) : lessons[g].moves[k] = "steps"

LessonsInv ==
  /\ Shapes /\ PickedSound /\ HeldSound /\ WorksSound /\ LastSound
  /\ Counted /\ MovesHeld /\ LadderKept /\ MovesOnce /\ AnsweredNotDue

StudyInv == part = "lessons" => LessonsInv

-----------------------------------------------------------------------------
(* The invariant holds at first *)

LEMMA LessonsInitInv == LessonsInit => LessonsInv
  <1> SUFFICES ASSUME LessonsInit PROVE LessonsInv
    OBVIOUS
  <1>1. Shapes
    <2>1. card \in [Words -> SoundCards \cup {NoCard}]
      <3>1. \A w \in Words : card[w] \in Cards0[w]
        BY DEF LessonsInit
      <3>2. \A w \in Words : card[w] \in SoundCards \cup {NoCard}
        BY <3>1, CardsAssumption DEF SoundCards
      <3>3. PICK S : card \in [Words -> S]
        BY DEF LessonsInit
      <3> QED
        BY <3>2, <3>3
    <2>2. \A s \in Sessions : IsSession(session[s])
      BY DEF LessonsInit, NoSession, IsSession
    <2>3. \A c \in Submissions : IsAnswer(answer[c])
      BY DEF LessonsInit, NoAnswer, IsAnswer
    <2>4. lessons \in [Groups -> Histories]
      <3>1. NoReview \in Histories
        BY EmptySeq DEF NoReview, Histories
      <3> QED
        BY <3>1 DEF LessonsInit
    <2> QED
      BY <2>1, <2>2, <2>3, <2>4, LessonsAssumption DEF LessonsInit, Shapes
  <1>2. \A s \in Sessions : session[s].pc = "idle"
    BY DEF LessonsInit, NoSession
  <1>3. \A c \in Submissions : answer[c].pc = "idle" /\ answer[c].last = {}
    BY DEF LessonsInit, NoAnswer
  <1>4. held = {}
    BY DEF LessonsInit
  <1>5. \A g \in Groups : lessons[g].moves = <<>> /\ lessons[g].finals = 0
    BY DEF LessonsInit, NoReview
  <1>6. Counted
    <2> SUFFICES ASSUME NEW g \in Groups
                 PROVE  Len(lessons[g].moves) + Cardinality(InReview(g)) <= lessons[g].finals
      BY DEF Counted
    <2>1. InReview(g) = {}
      BY <1>3 DEF InReview
    <2> QED
      BY <1>5, <2>1, FS_EmptySet
  <1>7. MovesOnce
    BY <1>5 DEF MovesOnce
  <1> QED
    BY <1>1, <1>2, <1>3, <1>4, <1>5, <1>6, <1>7
    DEF LessonsInv, PickedSound, HeldSound, WorksSound, LastSound, MovesHeld, LadderKept, AnsweredNotDue

-----------------------------------------------------------------------------
(* The catalog, time and the making of sessions *)

LEMMA HeldGroup ==
  ASSUME LessonsInv, NEW i \in held
  PROVE  i.group \in Groups /\ i.word \in Words /\ i.group = <<i.group[1], i.word>>
  <1>1. i.group = <<i.group[1], i.word>> /\ i.group[1] \in Sessions \cup 1..finals /\ i.word \in Words
    BY DEF LessonsInv, HeldSound, EnrolledOrGone
  <1>2. 1..finals \subseteq 1..MaxFinals
    BY LessonsAssumption DEF LessonsInv, Shapes
  <1> QED
    BY <1>1, <1>2 DEF Groups

\* A step that takes or makes no answer and leaves the cards of the words that
\* are asked, unless they go.
LEMMA RowsKept ==
  ASSUME LessonsInv, Shapes', PickedSound',
         UNCHANGED <<held, answer, finals, lessons>>,
         clock' >= clock,
         \A w \in Words : EnrolledOrGone(w) =>
           EnrolledOrGone(w)' /\ (Enrolled(w)' => Enrolled(w) /\ card'[w] = card[w]),
         \A s \in Sessions : session[s].pc = "built" => session'[s].pc = "built"
  PROVE  LessonsInv'
  <1>1. clock \in Nat /\ clock' \in Nat /\ EarlyTolerance \in Nat
    BY LessonsAssumption DEF LessonsInv, Shapes
  <1>2. HeldSound'
    BY <1>1 DEF LessonsInv, HeldSound, EnrolledOrGone
  <1>3. WorksSound'
    <2>1. ASSUME NEW c \in Submissions, NEW work, WorkSound(c, work)
          PROVE  WorkSound(c, work)'
      BY <1>1, <2>1 DEF WorkSound
    <2> QED
      BY <2>1 DEF LessonsInv, WorksSound
  <1>4. LastSound'
    BY <1>1 DEF LessonsInv, LastSound, EnrolledOrGone
  <1>5. Counted' /\ MovesHeld' /\ MovesOnce'
    BY DEF LessonsInv, Counted, InReview, MovesHeld, MovesOnce, InTime
  <1>6. LadderKept'
    <2> SUFFICES ASSUME NEW i \in held, lessons[i.group].moves # <<>>, LastMove(i.group) = "ladder",
                        Enrolled(i.word)'
                 PROVE  Asleep(i.word, i.at)'
      BY DEF LadderKept, LastMove
    <2>1. EnrolledOrGone(i.word) /\ i.word \in Words /\ i.at \in Nat
      BY DEF LessonsInv, HeldSound, EnrolledOrGone
    <2>2. Enrolled(i.word) /\ card'[i.word] = card[i.word]
      BY <2>1
    <2>3. Asleep(i.word, i.at)
      BY <2>2 DEF LessonsInv, LadderKept
    <2> QED
      BY <1>1, <2>1, <2>2, <2>3 DEF Asleep, MinutesPerDay
  <1>7. AnsweredNotDue'
    <2> SUFFICES ASSUME NEW c \in Submissions, answer[c].pc = "done", NEW l \in answer[c].last,
                        Enrolled(l.word)'
                 PROVE  card'[l.word].next > l.at
      BY DEF AnsweredNotDue
    <2>1. EnrolledOrGone(l.word) /\ l.word \in Words
      BY DEF LessonsInv, LastSound, EnrolledOrGone
    <2>2. Enrolled(l.word) /\ card'[l.word] = card[l.word]
      BY <2>1
    <2> QED
      BY <2>2 DEF LessonsInv, AnsweredNotDue
  <1> QED
    BY <1>2, <1>3, <1>4, <1>5, <1>6, <1>7 DEF LessonsInv

LEMMA EditWordInv == ASSUME LessonsInv, NEW w \in Words, EditWord(w) PROVE LessonsInv'
  <1>1. version' \in [Words -> Nat] /\ version' = [version EXCEPT ![w] = @ + 1] /\ Present(w)
    BY DEF LessonsInv, Shapes, EditWord
  <1>2. UNCHANGED <<clock, card, session, held, answer, finals, lessons>>
    BY DEF EditWord
  <1>3. Shapes'
    BY <1>1, <1>2 DEF LessonsInv, Shapes, IsSession, IsAnswer
  <1>4. \A v \in Words : EnrolledOrGone(v) => EnrolledOrGone(v)'
    BY <1>1, <1>2 DEF LessonsInv, Shapes, EnrolledOrGone, Enrolled, Present
  <1>5. PickedSound'
    BY <1>2, <1>4 DEF LessonsInv, PickedSound, EnrolledOrGone
  <1>6. \A v \in Words : Enrolled(v)' => Enrolled(v) /\ card'[v] = card[v]
    BY <1>2 DEF Enrolled
  <1>7. clock' >= clock
    BY <1>2 DEF LessonsInv, Shapes
  <1> QED
    BY <1>2, <1>3, <1>4, <1>5, <1>6, <1>7, RowsKept

LEMMA DeleteVocabularyInv == ASSUME LessonsInv, NEW w \in Words, DeleteVocabulary(w) PROVE LessonsInv'
  <1>1. /\ version' = [version EXCEPT ![w] = 0] /\ version' \in [Words -> Nat]
        /\ card' = [card EXCEPT ![w] = NoCard] /\ card' \in [Words -> SoundCards \cup {NoCard}]
    BY DEF LessonsInv, Shapes, DeleteVocabulary
  <1>2. UNCHANGED <<clock, session, held, answer, finals, lessons>>
    BY DEF DeleteVocabulary
  <1>3. Shapes'
    BY <1>1, <1>2 DEF LessonsInv, Shapes, IsSession, IsAnswer
  <1>4. \A v \in Words : /\ EnrolledOrGone(v) => EnrolledOrGone(v)'
                         /\ Enrolled(v)' => Enrolled(v) /\ card'[v] = card[v]
    BY <1>1, <1>2 DEF LessonsInv, Shapes, EnrolledOrGone, Enrolled, Present
  <1>5. PickedSound'
    BY <1>2, <1>4 DEF LessonsInv, PickedSound, EnrolledOrGone
  <1>7. clock' >= clock
    BY <1>2 DEF LessonsInv, Shapes
  <1> QED
    BY <1>2, <1>3, <1>4, <1>5, <1>7, RowsKept

LEMMA AdvanceInv == ASSUME LessonsInv, Advance PROVE LessonsInv'
  <1>1. clock' \in Nat /\ clock' >= clock
    BY LessonsAssumption DEF LessonsInv, Shapes, Advance
  <1>2. UNCHANGED <<version, card, session, held, answer, finals, lessons>>
    BY DEF Advance
  <1>3. Shapes'
    BY <1>1, <1>2 DEF LessonsInv, Shapes, IsSession, IsAnswer
  <1>4. \A v \in Words : /\ EnrolledOrGone(v) => EnrolledOrGone(v)'
                         /\ Enrolled(v)' => Enrolled(v) /\ card'[v] = card[v]
    BY <1>2 DEF EnrolledOrGone, Enrolled, Present
  <1>5. PickedSound'
    BY <1>2, <1>4 DEF LessonsInv, PickedSound, EnrolledOrGone
  <1> QED
    BY <1>1, <1>2, <1>3, <1>4, <1>5, RowsKept

LEMMA FieldUpdated ==
  ASSUME NEW r, IsSession(r), NEW x
  PROVE  /\ IsSession([r EXCEPT !.pc = x]) /\ IsSession([r EXCEPT !.request = x])
         /\ IsSession([r EXCEPT !.due = x]) /\ IsSession([r EXCEPT !.fresh = x])
         /\ IsSession([r EXCEPT !.reason = x]) /\ IsSession([r EXCEPT !.nextDue = x])
         /\ IsSession([r EXCEPT !.statuses = x]) /\ IsSession([r EXCEPT !.able = x])
         /\ IsSession([r EXCEPT !.rounds = x])
  <1>1. \A q : q = [r EXCEPT !.pc = x] => IsSession(q)
    BY DEF IsSession
  <1>2. \A q : q = [r EXCEPT !.request = x] => IsSession(q)
    BY DEF IsSession
  <1>3. \A q : q = [r EXCEPT !.due = x] => IsSession(q)
    BY DEF IsSession
  <1>4. \A q : q = [r EXCEPT !.fresh = x] => IsSession(q)
    BY DEF IsSession
  <1>5. \A q : q = [r EXCEPT !.reason = x] => IsSession(q)
    BY DEF IsSession
  <1>6. \A q : q = [r EXCEPT !.nextDue = x] => IsSession(q)
    BY DEF IsSession
  <1>7. \A q : q = [r EXCEPT !.statuses = x] => IsSession(q)
    BY DEF IsSession
  <1>8. \A q : q = [r EXCEPT !.able = x] => IsSession(q)
    BY DEF IsSession
  <1>9. \A q : q = [r EXCEPT !.rounds = x] => IsSession(q)
    BY DEF IsSession
  <1> QED
    BY <1>1, <1>2, <1>3, <1>4, <1>5, <1>6, <1>7, <1>8, <1>9, Zenon

LEMMA PickWordsInv == ASSUME LessonsInv, NEW s \in Sessions, PickWords(s) PROVE LessonsInv'
  <1> DEFINE New(request, due, fresh, reason, nextDue, pc) ==
               [NoSession EXCEPT !.request = request, !.due = due, !.fresh = fresh,
                  !.reason = reason, !.nextDue = nextDue, !.pc = pc]
             Starts(request, due, fresh) ==
               \E reason, nextDue, pc :
                 /\ session' = [session EXCEPT ![s] = New(request, due, fresh, reason, nextDue, pc)]
                 /\ pc \in {"built", "picked", "enrolled"}
                 /\ pc = "enrolled" => fresh = {}
  <1>1. PICK request \in Requests : \E due \in PickDue(request) : \E fresh \in PickFresh(request.mode, due) :
          Starts(request, due, fresh)
    <2> DEFINE PcOf(due, fresh) ==
                 IF due \cup fresh = {} THEN "built" ELSE IF fresh = {} THEN "enrolled" ELSE "picked"
               ReasonOf(request, due, fresh) ==
                 IF due \cup fresh = {} THEN EmptyReason(request.mode) ELSE "none"
               Step(request, due, fresh, reason, pc) ==
                 session' = [session EXCEPT ![s] =
                   New(request, due, fresh, reason, ResolveNextDueAt(request, reason), pc)]
    <2>1. PICK request \in Requests : \E due \in PickDue(request) : \E fresh \in PickFresh(request.mode, due) :
            Step(request, due, fresh, ReasonOf(request, due, fresh), PcOf(due, fresh))
      BY Zenon DEF PickWords
    <2>2. ASSUME NEW due, NEW fresh
          PROVE  /\ PcOf(due, fresh) \in {"built", "picked", "enrolled"}
                 /\ PcOf(due, fresh) = "enrolled" => fresh = {}
      OBVIOUS
    <2> HIDE DEF PcOf, ReasonOf, New
    <2>3. ASSUME NEW due, NEW fresh, Step(request, due, fresh, ReasonOf(request, due, fresh), PcOf(due, fresh))
          PROVE  Starts(request, due, fresh)
      BY <2>2, <2>3, Zenon
    <2> HIDE DEF Step, Starts
    <2> QED
      BY <2>1, <2>3, Zenon
  <1>2. PICK due \in PickDue(request) : \E fresh \in PickFresh(request.mode, due) : Starts(request, due, fresh)
    BY <1>1, Zenon
  <1>3. PICK fresh \in PickFresh(request.mode, due) : Starts(request, due, fresh)
    BY <1>2, Zenon
  <1>4. PICK reason, nextDue, pc :
          /\ session' = [session EXCEPT ![s] = New(request, due, fresh, reason, nextDue, pc)]
          /\ pc \in {"built", "picked", "enrolled"}
          /\ pc = "enrolled" => fresh = {}
    BY <1>3, Zenon
  <1>5. UNCHANGED <<clock, version, card, held, answer, finals, lessons>> /\ session[s].pc = "idle"
    BY DEF PickWords
  <1>6. PICK r : r = New(request, due, fresh, reason, nextDue, pc)
    OBVIOUS
  <1>7. /\ session' = [session EXCEPT ![s] = r]
        /\ IsSession(r) /\ r.pc = pc /\ r.due = due /\ r.fresh = fresh
    <2>1. IsSession(NoSession)
      BY DEF NoSession, IsSession
    <2>2. IsSession(r) /\ r.pc = pc /\ r.due = due /\ r.fresh = fresh
      <3>1. PICK q1 : q1 = [NoSession EXCEPT !.request = request]
        OBVIOUS
      <3>2. PICK q2 : q2 = [q1 EXCEPT !.due = due]
        OBVIOUS
      <3>3. PICK q3 : q3 = [q2 EXCEPT !.fresh = fresh]
        OBVIOUS
      <3>4. PICK q4 : q4 = [q3 EXCEPT !.reason = reason]
        OBVIOUS
      <3>5. PICK q5 : q5 = [q4 EXCEPT !.nextDue = nextDue]
        OBVIOUS
      <3>6. IsSession(q1) /\ IsSession(q2) /\ IsSession(q3) /\ IsSession(q4) /\ IsSession(q5)
        BY <2>1, <3>1, <3>2, <3>3, <3>4, <3>5, FieldUpdated
      <3>7. r = [q5 EXCEPT !.pc = pc]
        BY <1>6, <3>1, <3>2, <3>3, <3>4, <3>5
      <3>8. IsSession([q5 EXCEPT !.pc = pc])
        BY <3>6, FieldUpdated, Zenon
      <3>9. q5.due = due /\ q5.fresh = fresh
        BY <3>2, <3>3, <3>4, <3>5, <3>6 DEF IsSession
      <3> QED
        BY <3>6, <3>7, <3>8, <3>9 DEF IsSession
    <2> QED
      BY <1>4, <1>6, <2>2, Zenon
  <1> HIDE DEF New, Starts
  <1>8. /\ DOMAIN session' = Sessions
        /\ \A t \in Sessions : session'[t] = IF t = s THEN r ELSE session[t]
    BY <1>7 DEF LessonsInv, Shapes
  <1>9. Shapes'
    <2>1. \A t \in Sessions : IsSession(session[t])'
      BY <1>7, <1>8 DEF LessonsInv, Shapes, IsSession
    <2> QED
      BY <1>5, <1>8, <2>1 DEF LessonsInv, Shapes, IsAnswer
  <1>10. \A w \in due : w \in Words /\ Enrolled(w)
    BY DEF PickDue, Least, DueWords, Source
  <1>11. fresh \subseteq Words
    BY DEF PickFresh, Least, FreshWords, Source
  <1>12. PickedSound'
    BY <1>4, <1>5, <1>7, <1>8, <1>10, <1>11 DEF LessonsInv, PickedSound, EnrolledOrGone, Enrolled, Present
  <1>13. \A v \in Words : /\ EnrolledOrGone(v) => EnrolledOrGone(v)'
                          /\ Enrolled(v)' => Enrolled(v) /\ card'[v] = card[v]
    BY <1>5 DEF EnrolledOrGone, Enrolled, Present
  <1>14. clock' >= clock /\ \A t \in Sessions : session[t].pc = "built" => session'[t].pc = "built"
    BY <1>5, <1>8 DEF LessonsInv, Shapes
  <1> QED
    BY <1>5, <1>9, <1>12, <1>13, <1>14, RowsKept

LEMMA EnrollFreshInv == ASSUME LessonsInv, NEW s \in Sessions, EnrollFresh(s) PROVE LessonsInv'
  <1> DEFINE created == {w \in session[s].fresh : Present(w) /\ ~Enrolled(w)}
  <1>1. /\ UNCHANGED <<clock, version, held, answer, finals, lessons>> /\ session[s].pc = "picked"
        /\ \/ card' = card /\ session' = [session EXCEPT ![s].pc = "failed"]
           \/ /\ card' = [w \in Words |-> IF w \in created THEN FreshCard ELSE card[w]]
              /\ session' = [session EXCEPT ![s].pc = "enrolled"]
    BY DEF EnrollFresh
  <1>2. FreshCard \in SoundCards
    <2>1. 0 \in StepIndexes /\ StepIndexes \subseteq Int
      BY LearningStepsAssumption DEF StepIndexes
    <2>2. FreshCard \in Schedules
      BY <2>1 DEF FreshCard, Schedules, Statuses, DefaultEase, LessonsInv, Shapes
    <2> QED
      BY <2>2 DEF FreshCard, SoundCards, Graduated
  <1>3. /\ card \in [Words -> SoundCards \cup {NoCard}] /\ card' \in [Words -> SoundCards \cup {NoCard}]
        /\ \A w \in Words \ created : card'[w] = card[w]
    BY <1>1, <1>2 DEF LessonsInv, Shapes
  <1>4. ASSUME NEW w \in Words
        PROVE  /\ EnrolledOrGone(w) => EnrolledOrGone(w)'
               /\ EnrolledOrGone(w) => w \notin created
    BY <1>1, <1>3 DEF EnrolledOrGone, Enrolled, Present
  <1>5. PICK r : r = [session[s] EXCEPT !.pc = session'[s].pc]
    OBVIOUS
  <1>6. /\ IsSession(r) /\ r.due = session[s].due /\ r.fresh = session[s].fresh
        /\ r.pc \in {"failed", "enrolled"}
        /\ DOMAIN session' = Sessions
        /\ \A t \in Sessions : session'[t] = IF t = s THEN r ELSE session[t]
    <2>1. IsSession(session[s]) /\ DOMAIN session = Sessions
      BY DEF LessonsInv, Shapes
    <2>2. session'[s].pc \in {"failed", "enrolled"} /\ session' = [session EXCEPT ![s] = r]
      <3>1. CASE session' = [session EXCEPT ![s].pc = "failed"]
        BY <2>1, <3>1, <1>5 DEF IsSession
      <3>2. CASE session' = [session EXCEPT ![s].pc = "enrolled"]
        BY <2>1, <3>2, <1>5 DEF IsSession
      <3> QED
        BY <1>1, <3>1, <3>2
    <2>3. r.due = session[s].due /\ r.fresh = session[s].fresh /\ r.pc = session'[s].pc
      BY <1>5, <2>1 DEF IsSession
    <2>4. IsSession(r)
      BY <1>5, <2>1, FieldUpdated
    <2> QED
      BY <2>1, <2>2, <2>3, <2>4
  <1>7. Shapes'
    <2>1. \A t \in Sessions : IsSession(session[t])'
      BY <1>6 DEF LessonsInv, Shapes, IsSession
    <2> QED
      BY <1>1, <1>3, <1>6, <2>1 DEF LessonsInv, Shapes, IsAnswer
  <1>8. PickedSound'
    <2>1. session[s].fresh \subseteq Words /\ \A w \in session[s].due : EnrolledOrGone(w)
      BY <1>1 DEF LessonsInv, PickedSound
    <2>2. ASSUME r.pc = "enrolled", NEW w \in session[s].fresh
          PROVE  EnrolledOrGone(w)'
      <3>1. card' = [v \in Words |-> IF v \in created THEN FreshCard ELSE card[v]]
        <4>1. r.pc = session'[s].pc
          BY <1>6
        <4>2. session' # [session EXCEPT ![s].pc = "failed"]
          BY <2>2, <4>1 DEF LessonsInv, Shapes, IsSession
        <4> QED
          BY <1>1, <4>2
      <3>2. w \in created => card'[w] # NoCard
        BY <1>2, <2>1, <3>1, NoCardIsNoSchedule
      <3>3. w \notin created => Enrolled(w) \/ ~Present(w)
        OBVIOUS
      <3> QED
        BY <1>1, <1>3, <2>1, <3>2, <3>3 DEF EnrolledOrGone, Enrolled, Present
    <2>3. \A w : EnrolledOrGone(w) => EnrolledOrGone(w)'
      BY <1>4 DEF EnrolledOrGone
    <2> QED
      BY <1>6, <2>1, <2>2, <2>3 DEF LessonsInv, PickedSound
  <1>9. \A w \in Words : EnrolledOrGone(w) =>
          EnrolledOrGone(w)' /\ (Enrolled(w)' => Enrolled(w) /\ card'[w] = card[w])
    BY <1>3, <1>4 DEF Enrolled
  <1>10. clock' >= clock /\ \A t \in Sessions : session[t].pc = "built" => session'[t].pc = "built"
    BY <1>1, <1>6 DEF LessonsInv, Shapes
  <1> QED
    BY <1>1, <1>7, <1>8, <1>9, <1>10, RowsKept

\* Items are added under names that no item has and no answer will give.
LEMMA ItemsAdded ==
  ASSUME LessonsInv, Shapes', PickedSound',
         UNCHANGED <<clock, version, card, answer, finals, lessons>>,
         NEW items, held' = held \cup items,
         \A i \in items :
           /\ i.group = <<i.group[1], i.word>> /\ i.group[1] \in Sessions
           /\ EnrolledOrGone(i.word) /\ i.at = clock
           /\ session[i.group[1]].pc # "built" /\ session'[i.group[1]].pc = "built",
         \A s \in Sessions : session[s].pc = "built" => session'[s].pc = "built"
  PROVE  LessonsInv'
  <1>1. clock \in Nat /\ EarlyTolerance \in Nat /\ \A n \in 1..finals : n \notin Sessions
    BY LessonsAssumption DEF LessonsInv, Shapes
  <1>2. HeldSound'
    BY <1>1 DEF LessonsInv, HeldSound, EnrolledOrGone, Enrolled, Present
  <1>3. WorksSound'
    <2>1. ASSUME NEW c \in Submissions, NEW work, WorkSound(c, work)
          PROVE  WorkSound(c, work)'
      BY <1>1, <2>1 DEF WorkSound
    <2> QED
      BY <2>1 DEF LessonsInv, WorksSound
  <1>4. LastSound' /\ AnsweredNotDue'
    BY DEF LessonsInv, LastSound, AnsweredNotDue, EnrolledOrGone, Enrolled, Present
  <1>5. Counted' /\ MovesHeld' /\ MovesOnce'
    BY DEF LessonsInv, Counted, InReview, MovesHeld, MovesOnce, InTime
  <1>6. ASSUME NEW i \in items PROVE lessons[i.group].moves = <<>>
    <2>1. i.group \in Groups
      <3>1. i.group = <<i.group[1], i.word>> /\ i.group[1] \in Sessions /\ i.word \in Words
        BY DEF EnrolledOrGone
      <3> QED
        BY ONLY <3>1 DEF Groups
    <2>2. SUFFICES ASSUME lessons[i.group].moves # <<>> PROVE FALSE
      OBVIOUS
    <2>3. PICK j \in held : j.group = i.group
      BY <2>1, <2>2 DEF LessonsInv, MovesHeld
    <2> QED
      BY <2>3 DEF LessonsInv, HeldSound
  <1>7. LadderKept'
    BY <1>6 DEF LessonsInv, LadderKept, LastMove, Enrolled, Asleep
  <1> QED
    BY <1>2, <1>3, <1>4, <1>5, <1>7 DEF LessonsInv

LEMMA BuildSessionInv == ASSUME LessonsInv, NEW s \in Sessions, BuildSession(s) PROVE LessonsInv'
  <1> DEFINE picked == {w \in session[s].due \cup session[s].fresh : Present(w)}
             lang == session[s].request.lang
             Ladder(order, word) ==
               [w \in picked |-> BuildLadder(StatusOf(w), order, Context(w, word[w], lang))]
             Items(ladder) ==
               UNION {AssembleLessonItems(<<s, w>>, w, version[w], lang, ladder[w]) : w \in picked}
             Built(items, reason, statuses, able) ==
               session' = [session EXCEPT ![s].pc = "built", ![s].reason = reason,
                 ![s].nextDue = ResolveNextDueAt(session[s].request, reason),
                 ![s].statuses = statuses, ![s].able = able, ![s].rounds = ToTypeMajorRounds(items)]
  <1>1. UNCHANGED <<clock, version, card, answer, finals, lessons>> /\ session[s].pc = "enrolled"
    BY DEF BuildSession
  <1>2. \E order, word :
          /\ Built(Items(Ladder(order, word)),
                   IF Items(Ladder(order, word)) = {} THEN "no_due_cards" ELSE "none",
                   [w \in picked |-> StatusOf(w)], [w \in picked |-> Able(Context(w, word[w], lang))])
          /\ held' = held \cup Items(Ladder(order, word))
    <2>1. \E order \in Orders :
            \E word \in {f \in [picked -> UNION {Loads(Row(w)) : w \in picked}] : \A w \in picked : f[w] \in Loads(Row(w))} :
              /\ Built(Items(Ladder(order, word)),
                       IF Items(Ladder(order, word)) = {} THEN "no_due_cards" ELSE "none",
                       [w \in picked |-> StatusOf(w)], [w \in picked |-> Able(Context(w, word[w], lang))])
              /\ held' = held \cup Items(Ladder(order, word))
      BY Zenon DEF BuildSession
    <2> HIDE DEF Built, Items, Ladder
    <2> QED
      BY <2>1, Zenon
  <1> HIDE DEF Built
  <1>3. PICK ladder, reason, statuses, able : Built(Items(ladder), reason, statuses, able) /\ held' = held \cup Items(ladder)
    BY <1>2, Zenon
  <1>4. \A i \in Items(ladder) : \E w \in picked : i.word = w /\ i.group = <<s, w>> /\ i.at = clock
    <2> SUFFICES ASSUME NEW i \in Items(ladder)
                 PROVE  \E w \in picked : i.word = w /\ i.group = <<s, w>> /\ i.at = clock
      OBVIOUS
    <2>1. PICK w \in picked : i \in AssembleLessonItems(<<s, w>>, w, version[w], lang, ladder[w])
      OBVIOUS
    <2> QED
      <3>1. PICK n : n = lang
        OBVIOUS
      <3>2. i \in AssembleLessonItems(<<s, w>>, w, version[w], n, ladder[w])
        BY <2>1, <3>1
      <3>3. i.word = w /\ i.group = <<s, w>> /\ i.at = clock
        BY ONLY <3>2, ItemsSigned
      <3> QED
        BY <3>3
  <1> HIDE DEF Ladder, Items
  <1>5. /\ DOMAIN session' = Sessions /\ IsSession(session'[s]) /\ session'[s].pc = "built"
        /\ \A t \in Sessions : t # s => session'[t] = session[t]
    <2>1. DOMAIN session = Sessions /\ IsSession(session[s])
      BY DEF LessonsInv, Shapes
    <2>2. PICK nextDue, rounds :
            session' = [session EXCEPT ![s].pc = "built", ![s].reason = reason, ![s].nextDue = nextDue,
                          ![s].statuses = statuses, ![s].able = able, ![s].rounds = rounds]
      BY <1>3, Zenon DEF Built
    <2>3. PICK q1 : q1 = [session[s] EXCEPT !.pc = "built"]
      OBVIOUS
    <2>4. PICK q2 : q2 = [q1 EXCEPT !.reason = reason]
      OBVIOUS
    <2>5. PICK q3 : q3 = [q2 EXCEPT !.nextDue = nextDue]
      OBVIOUS
    <2>6. PICK q4 : q4 = [q3 EXCEPT !.statuses = statuses]
      OBVIOUS
    <2>7. PICK q5 : q5 = [q4 EXCEPT !.able = able]
      OBVIOUS
    <2>8. PICK q6 : q6 = [q5 EXCEPT !.rounds = rounds]
      OBVIOUS
    <2>9. IsSession(q1) /\ IsSession(q2) /\ IsSession(q3) /\ IsSession(q4) /\ IsSession(q5)
      BY <2>1, <2>3, <2>4, <2>5, <2>6, <2>7, FieldUpdated
    <2>10. IsSession(q6) /\ q6.pc = "built"
      <3>1. IsSession(q6)
        BY <2>8, <2>9, FieldUpdated
      <3>2. q1.pc = "built"
        BY <2>1, <2>3 DEF IsSession
      <3> QED
        BY <2>4, <2>5, <2>6, <2>7, <2>8, <2>9, <3>1, <3>2 DEF IsSession
    <2>11. session' = [session EXCEPT ![s] = q6]
      BY <2>1, <2>2, <2>3, <2>4, <2>5, <2>6, <2>7, <2>8
    <2> QED
      BY <2>1, <2>10, <2>11
  <1>6. Shapes'
    <2>1. \A t \in Sessions : IsSession(session[t])'
      BY <1>5 DEF LessonsInv, Shapes, IsSession
    <2> QED
      BY <1>1, <1>5, <2>1 DEF LessonsInv, Shapes, IsAnswer
  <1>7. \A w : EnrolledOrGone(w) => EnrolledOrGone(w)'
    BY <1>1 DEF EnrolledOrGone, Enrolled, Present
  <1>8. PickedSound'
    BY <1>5, <1>7 DEF LessonsInv, PickedSound
  <1>9. \A w \in picked : EnrolledOrGone(w)
    BY <1>1 DEF LessonsInv, PickedSound
  <1>10. \A i \in Items(ladder) :
           /\ i.group = <<i.group[1], i.word>> /\ i.group[1] \in Sessions
           /\ EnrolledOrGone(i.word) /\ i.at = clock
           /\ session[i.group[1]].pc # "built" /\ session'[i.group[1]].pc = "built"
    BY <1>1, <1>4, <1>5, <1>9
  <1>11. \A t \in Sessions : session[t].pc = "built" => session'[t].pc = "built"
    BY <1>5
  <1> QED
    BY <1>1, <1>3, <1>6, <1>8, <1>10, <1>11, ItemsAdded

-----------------------------------------------------------------------------
(* Answers *)

LEMMA InReviewFinite ==
  ASSUME NEW g
  PROVE  IsFiniteSet(InReview(g)) /\ Cardinality(InReview(g)) \in Nat
  <1>1. InReview(g) \subseteq Submissions /\ IsFiniteSet(Submissions)
    BY LessonsAssumption DEF InReview
  <1> QED
    BY <1>1, FS_Subset, FS_CardinalityType

LEMMA SubmitAnswerInv == ASSUME LessonsInv, NEW c \in Submissions, SubmitAnswer(c) PROVE LessonsInv'
  <1>1. UNCHANGED <<clock, version, card, session, held>> /\ answer[c].pc # "reviewing"
    BY DEF SubmitAnswer
  <1>2. PICK item \in held :
          /\ SignatureValid(item)
          /\ IF LastOf(item)
             THEN finals < MaxFinals /\ finals' = finals + 1
                  /\ lessons' = [lessons EXCEPT ![item.group].finals = @ + 1]
             ELSE UNCHANGED <<finals, lessons>>
          /\ \E word, text, fast :
               LET result == Grade(item.type, word, item.example, item.lang, text, fast) IN
               answer' = [answer EXCEPT ![c] =
                 [pc |-> IF IsFinalStep(item) THEN "reviewing" ELSE "done",
                  verdict |-> Verdict(item, word, text, result),
                  last |-> IF LastOf(item) THEN {[word |-> item.word, at |-> clock]} ELSE {},
                  work |-> IF IsFinalStep(item)
                           THEN {[item |-> item, word |-> word, version |-> version[item.word],
                                  number |-> finals', at |-> clock]} ELSE {}]]
    <2> DEFINE Answered(item, word, text, fast) ==
                 LET result == Grade(item.type, word, item.example, item.lang, text, fast) IN
                 answer' = [answer EXCEPT ![c] =
                   [pc |-> IF IsFinalStep(item) THEN "reviewing" ELSE "done",
                    verdict |-> Verdict(item, word, text, result),
                    last |-> IF LastOf(item) THEN {[word |-> item.word, at |-> clock]} ELSE {},
                    work |-> IF IsFinalStep(item)
                             THEN {[item |-> item, word |-> word, version |-> version[item.word],
                                    number |-> finals', at |-> clock]} ELSE {}]]
               Taken(item) ==
                 IF LastOf(item)
                 THEN finals < MaxFinals /\ finals' = finals + 1
                      /\ lessons' = [lessons EXCEPT ![item.group].finals = @ + 1]
                 ELSE UNCHANGED <<finals, lessons>>
    <2>1. \E item \in {i \in held : SignatureValid(i) /\ Present(i.word)} :
            /\ item.example \in ExamplesOf(Row(item.word))
            /\ Taken(item)
            /\ \E word \in Loads(Row(item.word)), text \in AnswerTexts(item), fast \in Speeds :
                 Answered(item, word, text, fast)
      BY Zenon DEF SubmitAnswer
    <2> HIDE DEF Answered, Taken
    <2>2. PICK item \in {i \in held : SignatureValid(i) /\ Present(i.word)} :
            Taken(item) /\ \E word, text, fast : Answered(item, word, text, fast)
      BY <2>1, Zenon
    <2>3. item \in held /\ SignatureValid(item)
      OBVIOUS
    <2> QED
      BY <2>2, <2>3, Zenon DEF Taken, Answered
  <1>3. PICK word, verdict :
          /\ verdict.quality \in Qualities
          /\ answer' = [answer EXCEPT ![c] =
               [pc |-> IF IsFinalStep(item) THEN "reviewing" ELSE "done", verdict |-> verdict,
                last |-> IF LastOf(item) THEN {[word |-> item.word, at |-> clock]} ELSE {},
                work |-> IF IsFinalStep(item)
                         THEN {[item |-> item, word |-> word, version |-> version[item.word],
                                number |-> finals', at |-> clock]} ELSE {}]]
    <2>1. \A word, text, fast :
            Verdict(item, word, text, Grade(item.type, word, item.example, item.lang, text, fast)).quality \in Qualities
      BY GradedQuality DEF Verdict
    <2> QED
      BY <1>2, <2>1, Zenon
  <1> DEFINE final == LastOf(item)
             works == {[item |-> item, word |-> word, version |-> version[item.word],
                        number |-> finals', at |-> clock]}
             r == [pc |-> IF final THEN "reviewing" ELSE "done", verdict |-> verdict,
                   last |-> IF final THEN {[word |-> item.word, at |-> clock]} ELSE {},
                   work |-> IF final THEN works ELSE {}]
  <1>4. /\ DOMAIN answer' = Submissions /\ answer'[c] = r
        /\ \A d \in Submissions : d # c => answer'[d] = answer[d]
    BY <1>3 DEF LessonsInv, Shapes, IsFinalStep, LastOf
  <1>5. clock \in Nat /\ Ttl \in Nat /\ finals \in 0..MaxFinals /\ MaxFinals \in Nat /\ finals' \in 0..MaxFinals
        /\ finals' >= finals /\ (final => finals' = finals + 1)
    BY <1>2, LessonsAssumption DEF LessonsInv, Shapes
  <1>6. /\ item.group \in Groups /\ EnrolledOrGone(item.word) /\ item.at \in Nat
        /\ clock - item.at <= Ttl
    BY <1>2, HeldGroup DEF LessonsInv, HeldSound, SignatureValid
  <1>7. /\ lessons' \in [Groups -> Histories]
        /\ \A g \in Groups : /\ lessons'[g].moves = lessons[g].moves /\ lessons'[g].delay = lessons[g].delay
                             /\ lessons'[g].finals =
                                  IF final /\ g = item.group THEN lessons[g].finals + 1 ELSE lessons[g].finals
    <2>1. lessons \in [Groups -> Histories]
      BY DEF LessonsInv, Shapes
    <2>2. CASE final
      <3>1. lessons' = [lessons EXCEPT ![item.group].finals = @ + 1]
        BY <1>2, <2>2
      <3> QED
        <4>1. PICK q : q = [lessons[item.group] EXCEPT !.finals = @ + 1]
          OBVIOUS
        <4>2. lessons[item.group] \in Histories
          BY <1>6, <2>1
        <4>3. /\ q \in Histories /\ q.moves = lessons[item.group].moves
              /\ q.delay = lessons[item.group].delay /\ q.finals = lessons[item.group].finals + 1
          BY <4>1, <4>2 DEF Histories
        <4>4. lessons' = [lessons EXCEPT ![item.group] = q]
          BY <3>1, <4>1
        <4> HIDE DEF final
        <4> QED
          BY <1>6, <2>1, <2>2, <4>3, <4>4
    <2>3. CASE ~final
      BY <1>2, <2>1, <2>3
    <2> QED
      BY <2>2, <2>3
  <1> HIDE DEF final, works, r
  <1>8. Shapes'
    <2>1. \A d \in Submissions : IsAnswer(answer[d])'
      BY <1>4 DEF LessonsInv, Shapes, IsAnswer, r
    <2> QED
      BY <1>1, <1>4, <1>5, <1>7, <2>1 DEF LessonsInv, Shapes, IsSession
  <1>9. PickedSound' /\ HeldSound'
    <2>1. \A w : EnrolledOrGone(w) => EnrolledOrGone(w)'
      BY <1>1 DEF EnrolledOrGone, Enrolled, Present
    <2>2. 1..finals \subseteq 1..finals'
      BY <1>5
    <2> QED
      BY <1>1, <2>1, <2>2 DEF LessonsInv, PickedSound, HeldSound
  <1>10. WorksSound'
    <2>1. ASSUME NEW d \in Submissions, d # c, NEW work, WorkSound(d, work)
          PROVE  WorkSound(d, work)' /\ work.number <= finals
      BY <1>1, <1>4, <1>5, <2>1 DEF WorkSound
    <2>2. ASSUME final, NEW work \in works
          PROVE  WorkSound(c, work)' /\ work.number = finals + 1
      <3>1. /\ work.item = item /\ work.number = finals' /\ work.at = clock /\ finals' = finals + 1
        BY <1>5, <2>2 DEF works
      <3>2. r.verdict = verdict /\ r.last = {[word |-> item.word, at |-> clock]}
        BY <2>2 DEF r
      <3>3. \A i \in held : i.group[1] # finals + 1
        BY <1>5, <2>2, LessonsAssumption DEF LessonsInv, HeldSound
      <3>4. work.number \in 1..finals'
        BY <1>5, <3>1
      <3> QED
        BY <1>1, <1>3, <1>4, <1>5, <1>6, <3>1, <3>2, <3>3, <3>4 DEF WorkSound
    <2>3. /\ r.pc = "reviewing" => final
          /\ r.work = IF final THEN works ELSE {}
      BY DEF r
    <2>4. ASSUME NEW d \in Submissions, answer'[d].pc = "reviewing", NEW work \in answer'[d].work
          PROVE  /\ WorkSound(d, work)'
                 /\ d = c => work.number = finals + 1
                 /\ d # c => work.number <= finals /\ work \in answer[d].work /\ answer[d].pc = "reviewing"
      <3>1. CASE d = c
        BY <1>4, <2>2, <2>3, <2>4, <3>1
      <3>2. CASE d # c
        BY <1>4, <2>1, <2>4, <3>2 DEF LessonsInv, WorksSound
      <3> QED
        BY <3>1, <3>2
    <2>5. ASSUME NEW d \in Submissions, NEW e \in Submissions, d # e,
                 answer'[d].pc = "reviewing", answer'[e].pc = "reviewing",
                 NEW work \in answer'[d].work, NEW other \in answer'[e].work
          PROVE  work.number # other.number
      <3>1. CASE d # c /\ e # c
        BY <2>4, <2>5, <3>1 DEF LessonsInv, WorksSound
      <3>2. CASE d = c \/ e = c
        BY <1>5, <2>4, <2>5, <3>2
      <3> QED
        BY <3>1, <3>2
    <2> QED
      BY <2>4, <2>5 DEF WorksSound
  <1>11. LastSound' /\ AnsweredNotDue'
    <2>1. \A l \in r.last : l.word = item.word /\ l.at = clock /\ final
      BY DEF r
    <2>2. r.pc = "done" => r.last = {}
      BY DEF r
    <2>3. \A w : EnrolledOrGone(w) => EnrolledOrGone(w)'
      BY <1>1 DEF EnrolledOrGone, Enrolled, Present
    <2>4. LastSound'
      BY <1>1, <1>4, <1>5, <1>6, <2>1, <2>3 DEF LessonsInv, LastSound
    <2>5. AnsweredNotDue'
      BY <1>1, <1>4, <2>2 DEF LessonsInv, AnsweredNotDue, Enrolled
    <2> QED
      BY <2>4, <2>5
  <1>12. Counted'
    <2> SUFFICES ASSUME NEW g \in Groups
                 PROVE  Len(lessons'[g].moves) + Cardinality(InReview(g)') <= lessons'[g].finals
      BY DEF Counted
    <2>1. /\ Len(lessons[g].moves) + Cardinality(InReview(g)) <= lessons[g].finals
          /\ Len(lessons[g].moves) \in Nat /\ lessons[g].finals \in Nat
      BY DEF LessonsInv, Counted, Shapes, Histories
    <2>2. c \notin InReview(g) /\ IsFiniteSet(InReview(g)) /\ Cardinality(InReview(g)) \in Nat
      BY <1>1, InReviewFinite DEF InReview
    <2>3. CASE final /\ g = item.group
      <3>1. InReview(g)' \subseteq InReview(g) \cup {c}
        BY <1>4 DEF InReview
      <3>2. Cardinality(InReview(g) \cup {c}) = Cardinality(InReview(g)) + 1 /\ IsFiniteSet(InReview(g) \cup {c})
        BY <2>2, FS_AddElement
      <3>3. Cardinality(InReview(g)') <= Cardinality(InReview(g)) + 1 /\ Cardinality(InReview(g)') \in Nat
        BY <3>1, <3>2, FS_Subset, FS_CardinalityType
      <3> QED
        BY SMTT(30), <1>7, <2>1, <2>2, <2>3, <3>3
    <2>4. CASE ~(final /\ g = item.group)
      <3>1. ~(r.pc = "reviewing" /\ \E work \in r.work : work.item.group = g)
        BY <2>4 DEF r, works
      <3>2. InReview(g)' = InReview(g)
        BY <1>1, <1>4, <3>1 DEF InReview
      <3> QED
        BY <1>7, <2>1, <2>4, <3>2
    <2> QED
      BY <2>3, <2>4
  <1>13. MovesHeld' /\ MovesOnce'
    BY <1>1, <1>7 DEF LessonsInv, MovesHeld, MovesOnce, InTime
  <1>14. LadderKept'
    <2>1. \A i \in held : i.group \in Groups
      BY HeldGroup
    <2> QED
      BY <1>1, <1>7, <2>1 DEF LessonsInv, LadderKept, LastMove, Enrolled, Asleep
  <1> QED
    BY <1>8, <1>9, <1>10, <1>11, <1>12, <1>13, <1>14 DEF LessonsInv

\* A review that leaves the card and the history of its lesson g as they are.
Quiet == UNCHANGED <<card, lessons>>

\* A review of word w that moves the card, took minutes after the answer.
Moves(g, w, took) ==
  \E q \in Qualities :
    LET progress == ApplySm2(card[w], q, clock) IN
    /\ Enrolled(w) /\ ~Early(card[w])
    /\ card' = [card EXCEPT ![w] = progress]
    /\ lessons' = [lessons EXCEPT ![g] =
         Moved(@, IF progress.step = Graduated THEN "ladder" ELSE "steps", took)]

\* What a review does: the work it is of, the items it hands out.
ReviewStep(c, work, items) ==
  LET w == work.item.word IN
  /\ WorkSound(c, work)
  /\ held' = held \cup items
  /\ \A i \in items : i.word = w /\ i.group = <<work.number, w>> /\ i.at = clock /\ Enrolled(w)
  /\ \/ Quiet /\ (Enrolled(w) => Early(card[w]))
     \/ Moves(work.item.group, w, clock - work.at)

LEMMA ReviewTaken ==
  ASSUME LessonsInv, NEW c \in Submissions, SubmitReview(c)
  PROVE  \E work \in answer[c].work : \E items : ReviewStep(c, work, items)
  <1> DEFINE W(work) == work.item.word
             Q == answer[c].verdict.quality
             Progress(work) == Reviewed(card[W(work)], Q)
             Effect(work) == IF Progress(work).step = Graduated THEN "ladder" ELSE "steps"
             Taken(work) ==
               /\ card' = [card EXCEPT ![W(work)] = Progress(work)]
               /\ \E items \in BuildRequeue(work, Progress(work)) : held' = held \cup items
               /\ lessons' = IF Early(card[W(work)]) THEN lessons
                             ELSE [lessons EXCEPT ![work.item.group] =
                                     Moved(@, Effect(work), clock - work.at)]
  <1>1. PICK work \in answer[c].work :
          IF ~Enrolled(W(work)) THEN UNCHANGED <<card, held, lessons>> ELSE Taken(work)
    BY Zenon DEF SubmitReview
  <1>2. WorkSound(c, work) /\ Q \in Qualities /\ W(work) \in Words
    <2>1. WorkSound(c, work)
      BY DEF SubmitReview, LessonsInv, WorksSound
    <2> QED
      BY <2>1, HeldGroup DEF WorkSound
  <1> HIDE DEF Taken
  <1>3. CASE ~Enrolled(W(work))
    <2>1. UNCHANGED <<card, held, lessons>>
      BY <1>1, <1>3
    <2>2. Quiet
      BY <2>1 DEF Quiet
    <2>3. PICK items : items = {}
      OBVIOUS
    <2>5. held' = held \cup items
      BY <2>1, <2>3
    <2>4. \A i \in items : /\ i.word = W(work) /\ i.group = <<work.number, W(work)>> /\ i.at = clock
                           /\ Enrolled(W(work))
      BY <2>3
    <2> QED
      BY <1>2, <1>3, <2>2, <2>4, <2>5 DEF ReviewStep
  <1>4. CASE Enrolled(W(work))
    <2>1. Taken(work)
      BY <1>1, <1>4
    <2>2. PICK items \in BuildRequeue(work, Progress(work)) : held' = held \cup items
      BY <2>1 DEF Taken
    <2>3. \A i \in items : i.word = W(work) /\ i.group = <<work.number, W(work)>> /\ i.at = clock
      BY <2>2, RequeueSigned
    <2>4. CASE Early(card[W(work)])
      <3>1. card' = [card EXCEPT ![W(work)] = card[W(work)]] /\ lessons' = lessons
        BY <2>1, <2>4 DEF Taken, Reviewed
      <3>2. Quiet
        BY <1>2, <3>1 DEF Quiet, LessonsInv, Shapes
      <3> QED
        BY <1>2, <1>4, <2>2, <2>3, <2>4, <3>2 DEF ReviewStep
    <2>5. CASE ~Early(card[W(work)])
      <3>1. Progress(work) = ApplySm2(card[W(work)], Q, clock)
        BY <2>5 DEF Reviewed
      <3>2. card' = [card EXCEPT ![W(work)] = Progress(work)]
            /\ lessons' = [lessons EXCEPT ![work.item.group] = Moved(@, Effect(work), clock - work.at)]
        BY <2>1, <2>5 DEF Taken
      <3>3. Moves(work.item.group, W(work), clock - work.at)
        BY <1>2, <1>4, <2>5, <3>1, <3>2 DEF Moves
      <3> QED
        BY <1>2, <1>4, <2>2, <2>3, <2>5, <3>3 DEF ReviewStep
    <2> QED
      BY <2>4, <2>5
  <1> QED
    BY <1>3, <1>4

LEMMA SubmitReviewInv == ASSUME LessonsInv, NEW c \in Submissions, SubmitReview(c) PROVE LessonsInv'
  <1>a. PICK work \in answer[c].work : \E items : ReviewStep(c, work, items)
    BY ReviewTaken
  <1>b. PICK items : ReviewStep(c, work, items)
    BY <1>a
  <1>1. /\ WorkSound(c, work)
        /\ held' = held \cup items
        /\ \A i \in items : /\ i.word = work.item.word /\ i.group = <<work.number, work.item.word>>
                            /\ i.at = clock /\ Enrolled(work.item.word)
        /\ \/ Quiet /\ (Enrolled(work.item.word) => Early(card[work.item.word]))
           \/ Moves(work.item.group, work.item.word, clock - work.at)
    BY <1>b DEF ReviewStep
  <1> DEFINE w == work.item.word
             g == work.item.group
  <1>2. UNCHANGED <<clock, version, session, finals>> /\ answer[c].pc = "reviewing"
        /\ answer' = [answer EXCEPT ![c].pc = "done", ![c].work = {}]
    BY DEF SubmitReview
  <1>3. /\ DOMAIN answer' = Submissions /\ IsAnswer(answer'[c])
        /\ answer'[c].pc = "done" /\ answer'[c].last = answer[c].last
        /\ \A d \in Submissions : d # c => answer'[d] = answer[d]
    BY <1>2 DEF LessonsInv, Shapes, IsAnswer
  <1>4. /\ work.item \in held /\ g \in Groups /\ w \in Words /\ g = <<g[1], w>>
        /\ work.item.at \in Nat /\ work.item.at <= clock
        /\ work.at \in Nat /\ work.at <= clock /\ work.at - work.item.at <= Ttl
        /\ work.number \in 1..finals /\ \A i \in held : i.group[1] # work.number
        /\ EnrolledOrGone(w)
    BY <1>1, HeldGroup DEF WorkSound, LessonsInv, HeldSound
  <1>5. /\ clock \in Nat /\ Ttl \in Nat /\ EarlyTolerance \in Nat
        /\ card \in [Words -> SoundCards \cup {NoCard}] /\ lessons \in [Groups -> Histories]
        /\ work.number \in 1..MaxFinals /\ work.number \notin Sessions
    BY <1>4, LessonsAssumption DEF LessonsInv, Shapes
  \* What a review that moves the card makes of it.
  <1>6. ASSUME Moves(g, w, clock - work.at)
        PROVE  /\ Enrolled(w) /\ ~Early(card[w])
               /\ card' = [card EXCEPT ![w] = card'[w]]
               /\ card'[w] \in SoundCards /\ card'[w].next > clock
               /\ card'[w].step = Graduated => card'[w].next >= clock + MinutesPerDay
               /\ lessons' = [lessons EXCEPT ![g] =
                    Moved(@, IF card'[w].step = Graduated THEN "ladder" ELSE "steps", clock - work.at)]
    <2>1. PICK q \in Qualities :
            /\ Enrolled(w) /\ ~Early(card[w])
            /\ card' = [card EXCEPT ![w] = ApplySm2(card[w], q, clock)]
            /\ lessons' = [lessons EXCEPT ![g] =
                 Moved(@, IF ApplySm2(card[w], q, clock).step = Graduated THEN "ladder" ELSE "steps",
                       clock - work.at)]
      BY <1>6, Zenon DEF Moves
    <2>2. card'[w] = ApplySm2(card[w], q, clock)
      BY <1>4, <1>5, <2>1
    <2>3. card[w] \in SoundCards
      BY <1>4, <1>5, <2>1 DEF Enrolled
    <2>4. /\ card'[w] \in SoundCards /\ card'[w].next > clock
          /\ card'[w].step = Graduated => card'[w].next >= clock + MinutesPerDay
      BY <1>5, <2>2, <2>3, ReviewedRow
    <2> QED
      BY <2>1, <2>2, <2>4
  <1>7. ASSUME Moves(g, w, clock - work.at)
        PROVE  /\ lessons' \in [Groups -> Histories]
               /\ \A h \in Groups : h # g => lessons'[h] = lessons[h]
               /\ lessons'[g].finals = lessons[g].finals
               /\ lessons'[g].moves = Append(lessons[g].moves, IF card'[w].step = Graduated THEN "ladder" ELSE "steps")
               /\ lessons'[g].delay >= lessons[g].delay /\ lessons'[g].delay >= clock - work.at
    <2>1. PICK effect \in {"steps", "ladder"} : effect = IF card'[w].step = Graduated THEN "ladder" ELSE "steps"
      OBVIOUS
    <2>2. PICK took \in Nat : took = clock - work.at
      BY <1>4, <1>5
    <2>3. PICK h \in Histories : h = lessons[g]
      BY <1>4, <1>5
    <2>4. PICK n : n = Moved(h, effect, took)
      OBVIOUS
    <2>5. /\ n \in Histories /\ n.finals = h.finals /\ n.moves = Append(h.moves, effect)
          /\ n.delay >= h.delay /\ n.delay >= took
      BY <2>4 DEF Moved, Histories
    <2>6. lessons' = [lessons EXCEPT ![g] = n]
      BY <1>6, <1>7, <2>1, <2>2, <2>3, <2>4
    <2> QED
      BY <1>4, <1>5, <2>1, <2>2, <2>3, <2>5, <2>6
  <1> HIDE DEF g, w
  <1>8. ASSUME NEW v \in Words
        PROVE  /\ Enrolled(v)' <=> Enrolled(v)
               /\ EnrolledOrGone(v) => EnrolledOrGone(v)'
               /\ v # w => card'[v] = card[v]
    <2>1. CASE Quiet
      BY <1>2, <2>1 DEF Quiet, Enrolled, EnrolledOrGone, Present
    <2>2. CASE Moves(g, w, clock - work.at)
      <3>1. Enrolled(w) /\ card' = [card EXCEPT ![w] = card'[w]] /\ card'[w] # NoCard
        BY <1>6, <2>2, NoCardIsNoSchedule
      <3>2. v # w => card'[v] = card[v]
        BY <3>1, <1>5
      <3> QED
        BY <1>2, <3>1, <3>2 DEF Enrolled, EnrolledOrGone, Present
    <2> QED
      BY <1>1, <2>1, <2>2 DEF g, w
  <1>9. Shapes'
    <2>1. card' \in [Words -> SoundCards \cup {NoCard}] /\ lessons' \in [Groups -> Histories]
      <3>1. CASE Quiet
        BY <1>5, <3>1 DEF Quiet
      <3>2. CASE Moves(g, w, clock - work.at)
        <4>1. card' = [card EXCEPT ![w] = card'[w]] /\ card'[w] \in SoundCards
          BY <1>6, <3>2
        <4> QED
          BY <1>5, <1>7, <3>2, <4>1
      <3> QED
        BY <1>1, <3>1, <3>2 DEF g, w
    <2> QED
      BY <1>2, <1>3, <2>1 DEF LessonsInv, Shapes, IsSession, IsAnswer
  <1>10. /\ \A i \in items : i.word = w /\ i.group = <<work.number, w>> /\ i.at = clock /\ Enrolled(w)
         /\ \/ Quiet /\ (Enrolled(w) => Early(card[w]))
            \/ Moves(g, w, clock - work.at)
    BY <1>1 DEF g, w
  <1>11. \A v : EnrolledOrGone(v) => EnrolledOrGone(v)'
    BY <1>8 DEF EnrolledOrGone
  <1>12. PickedSound'
    BY <1>2, <1>11 DEF LessonsInv, PickedSound
  <1>13. HeldSound'
    <2>1. ASSUME NEW i \in items
          PROVE  /\ i.group = <<i.group[1], i.word>> /\ i.group[1] = work.number
                 /\ EnrolledOrGone(i.word)' /\ i.at = clock
      BY <1>4, <1>10, <1>11
    <2>2. ASSUME NEW i \in held
          PROVE  /\ i.group = <<i.group[1], i.word>> /\ i.group[1] \in Sessions \cup 1..finals
                 /\ EnrolledOrGone(i.word)' /\ i.at \in Nat /\ i.at <= clock
                 /\ i.group[1] \in Sessions => session[i.group[1]].pc = "built"
      BY <1>11 DEF LessonsInv, HeldSound
    <2> QED
      BY <1>1, <1>2, <1>4, <1>5, <2>1, <2>2 DEF HeldSound
  <1>14. WorksSound'
    <2>1. ASSUME NEW d \in Submissions, answer'[d].pc = "reviewing"
          PROVE  d # c /\ answer'[d] = answer[d] /\ answer[d].pc = "reviewing"
      BY <1>3, <2>1
    <2>2. ASSUME NEW d \in Submissions, answer'[d].pc = "reviewing", NEW other \in answer'[d].work
          PROVE  WorkSound(d, other)'
      <3>1. d # c /\ answer'[d] = answer[d] /\ answer[d].pc = "reviewing" /\ other \in answer[d].work
        BY <2>1, <2>2
      <3>2. WorkSound(d, other) /\ work.number # other.number
        BY <1>2, <3>1 DEF LessonsInv, WorksSound
      <3>3. \A i \in items : i.group[1] # other.number
        BY <1>10, <3>2
      <3> QED
        BY <1>1, <1>2, <3>1, <3>2, <3>3 DEF WorkSound
    <2>3. ASSUME NEW d \in Submissions, NEW e \in Submissions, d # e,
                 answer'[d].pc = "reviewing", answer'[e].pc = "reviewing"
          PROVE  \A u \in answer'[d].work, v \in answer'[e].work : u.number # v.number
      BY <2>1, <2>3 DEF LessonsInv, WorksSound
    <2> QED
      BY <2>2, <2>3 DEF WorksSound
  <1>15. LastSound'
    BY <1>2, <1>3, <1>11 DEF LessonsInv, LastSound
  <1>16. Counted'
    <2> SUFFICES ASSUME NEW h \in Groups
                 PROVE  Len(lessons'[h].moves) + Cardinality(InReview(h)') <= lessons'[h].finals
      BY DEF Counted
    <2>1. /\ Len(lessons[h].moves) + Cardinality(InReview(h)) <= lessons[h].finals
          /\ Len(lessons[h].moves) \in Nat /\ lessons[h].finals \in Nat
          /\ lessons[h].moves \in Seq({"steps", "ladder"})
      BY DEF LessonsInv, Counted, Shapes, Histories
    <2>2. IsFiniteSet(InReview(h)) /\ Cardinality(InReview(h)) \in Nat
      BY InReviewFinite
    <2>3. InReview(h)' \subseteq InReview(h) \ {c}
      BY <1>3 DEF InReview
    <2>4. Cardinality(InReview(h)') <= Cardinality(InReview(h)) /\ Cardinality(InReview(h)') \in Nat
      BY <2>2, <2>3, FS_Subset, FS_CardinalityType
    <2>5. CASE Quiet \/ h # g
      <3>1. lessons'[h] = lessons[h]
        BY <1>7, <1>10, <2>5 DEF Quiet
      <3> QED
        BY <2>1, <2>2, <2>4, <3>1
    <2>6. CASE Moves(g, w, clock - work.at) /\ h = g
      <3>1. c \in InReview(h)
        BY <1>2, <2>6 DEF InReview, g
      <3>2. /\ Cardinality(InReview(h) \ {c}) = Cardinality(InReview(h)) - 1
            /\ IsFiniteSet(InReview(h) \ {c})
        BY <2>2, <3>1, FS_RemoveElement
      <3>3. Cardinality(InReview(h)') <= Cardinality(InReview(h)) - 1
        BY <2>3, <3>2, FS_Subset
      <3>4. Len(lessons'[h].moves) = Len(lessons[h].moves) + 1 /\ lessons'[h].finals = lessons[h].finals
        <4>1. PICK effect \in {"steps", "ladder"} : lessons'[g].moves = Append(lessons[g].moves, effect)
          BY <1>7, <2>6
        <4> QED
          BY <1>7, <2>1, <2>6, <4>1
      <3> QED
        BY <2>1, <2>2, <2>4, <3>3, <3>4
    <2> QED
      BY <1>10, <2>5, <2>6
  <1>17. ASSUME NEW h \in Groups
         PROVE  (Quiet \/ h # g) => lessons'[h] = lessons[h]
    BY <1>7, <1>10 DEF Quiet
  <1>18. MovesHeld'
    <2> SUFFICES ASSUME NEW h \in Groups, lessons'[h].moves # <<>> PROVE \E i \in held' : i.group = h
      BY DEF MovesHeld
    <2>1. CASE h = g
      BY <1>1, <1>4, <2>1 DEF g
    <2>2. CASE h # g
      BY <1>1, <1>17, <2>2 DEF LessonsInv, MovesHeld
    <2> QED
      BY <2>1, <2>2
  <1>19. LadderKept'
    <2> SUFFICES ASSUME NEW i \in held', lessons'[i.group].moves # <<>>, LastMove(i.group)' = "ladder",
                        Enrolled(i.word)'
                 PROVE  Asleep(i.word, i.at)'
      BY DEF LadderKept
    <2>1. CASE i \in items
      <3>1. i.group = <<work.number, w>> /\ i.group # g /\ i.group \in Groups
        BY <1>4, <1>5, <1>10, <2>1 DEF g, Groups
      <3>2. \A j \in held : j.group # i.group
        BY <1>4, <3>1
      <3> QED
        BY <1>17, <3>1, <3>2 DEF LessonsInv, MovesHeld
    <2>2. CASE i \in held
      <3>1. /\ i.group \in Groups /\ i.word \in Words /\ i.group = <<i.group[1], i.word>>
            /\ i.at \in Nat /\ i.at <= clock /\ Enrolled(i.word)
        BY <1>8, <2>2, HeldGroup DEF LessonsInv, HeldSound
      <3>2. CASE Quiet
        BY <1>2, <2>2, <3>1, <3>2 DEF Quiet, LessonsInv, LadderKept, LastMove, Asleep
      <3>3. CASE Moves(g, w, clock - work.at) /\ i.group = g
        <4>1. i.word = w
          BY <1>4, <3>1, <3>3
        <4>2. PICK effect \in {"steps", "ladder"} :
                /\ lessons'[g].moves = Append(lessons[g].moves, effect)
                /\ effect = "ladder" => card'[w].step = Graduated
          BY <1>7, <3>3
        <4>3. lessons[g].moves \in Seq({"steps", "ladder"})
          BY <1>4, <1>5 DEF Histories
        <4>4. effect = "ladder"
          BY <3>3, <4>2, <4>3 DEF LastMove
        <4>5. card'[w].step = Graduated /\ card'[w].next >= clock + MinutesPerDay /\ card'[w].next \in Nat
          BY <1>6, <3>3, <4>2, <4>4 DEF SoundCards, Schedules
        <4> QED
          BY <1>5, <3>1, <4>1, <4>5 DEF Asleep, MinutesPerDay
      <3>4. CASE Moves(g, w, clock - work.at) /\ i.group # g
        <4>1. Asleep(i.word, i.at)
          BY <1>17, <2>2, <3>1, <3>4 DEF LessonsInv, LadderKept, LastMove
        <4>2. CASE i.word # w
          BY <1>2, <1>8, <3>1, <4>1, <4>2 DEF Asleep
        <4>3. CASE i.word = w
          <5>1. ~Early(card[w]) /\ card[w] \in SoundCards
            BY <1>4, <1>5, <1>6, <3>4 DEF Enrolled
          <5>2. card[w].next \in Nat
            BY <5>1 DEF SoundCards, Schedules
          <5>3. clock + EarlyTolerance >= i.at + MinutesPerDay
            BY <1>5, <3>1, <4>1, <4>3, <5>1, <5>2 DEF Asleep, Early, MinutesPerDay
          <5> QED
            BY <1>2, <5>3 DEF Asleep
        <4> QED
          BY <4>2, <4>3
      <3> QED
        BY <1>10, <3>2, <3>3, <3>4
    <2> QED
      BY <1>1, <2>1, <2>2
  <1>20. MovesOnce'
    <2> SUFFICES ASSUME NEW h \in Groups, InTime(lessons'[h]), NEW k \in 1..(Len(lessons'[h].moves) - 1)
                 PROVE  lessons'[h].moves[k] = "steps"
      BY DEF MovesOnce, InTime
    <2>1. CASE Quiet \/ h # g
      BY <1>17, <2>1 DEF LessonsInv, MovesOnce
    <2>2. CASE Moves(g, w, clock - work.at) /\ h = g
      <3>1. PICK effect \in {"steps", "ladder"} : lessons'[g].moves = Append(lessons[g].moves, effect)
        BY <1>7, <2>2
      <3>2. lessons[g] \in Histories /\ lessons'[g] \in Histories
        BY <1>4, <1>5, <1>7, <2>2
      <3>3. lessons[g].moves \in Seq({"steps", "ladder"}) /\ lessons[g].delay \in Nat /\ lessons'[g].delay \in Nat
        BY <3>2 DEF Histories
      <3>4. k \in 1..Len(lessons[g].moves) /\ lessons'[g].moves[k] = lessons[g].moves[k]
        BY <2>2, <3>1, <3>3
      <3>5. InTime(lessons[g]) /\ clock - work.at + Ttl + EarlyTolerance < MinutesPerDay
        <4>1. lessons'[g].delay + Ttl + EarlyTolerance < MinutesPerDay
          BY <2>2 DEF InTime
        <4>2. lessons'[g].delay >= lessons[g].delay /\ lessons'[g].delay >= clock - work.at
          BY <1>7, <2>2
        <4>3. PICK old \in Nat, new \in Nat : old = lessons[g].delay /\ new = lessons'[g].delay
          BY <3>3
        <4>4. old + Ttl + EarlyTolerance < MinutesPerDay /\ clock - work.at + Ttl + EarlyTolerance < MinutesPerDay
          <5>1. PICK slack \in Int, took \in Int : slack = Ttl + EarlyTolerance /\ took = clock - work.at
            BY <1>4, <1>5
          <5>2. new + Ttl + EarlyTolerance < 1440 /\ new >= old /\ new >= took
            BY <4>1, <4>2, <4>3, <5>1 DEF MinutesPerDay
          <5>3. Ttl \in Nat /\ EarlyTolerance \in Nat
            BY <1>4, <1>5
          <5>4. new + slack < 1440
            BY ONLY <5>1, <5>2, <5>3, new \in Nat
          <5>5. old + slack < 1440 /\ took + slack < 1440
            BY ONLY <5>2, <5>4, slack \in Int, took \in Int, old \in Nat, new \in Nat
          <5>6. old + Ttl + EarlyTolerance = old + slack /\ clock - work.at + Ttl + EarlyTolerance = took + slack
            BY ONLY <5>1, <5>3, old \in Nat
          <5> QED
            BY ONLY <5>5, <5>6 DEF MinutesPerDay
        <4> QED
          BY <4>3, <4>4 DEF InTime
      <3>6. CASE k < Len(lessons[g].moves)
        <4>1. k \in 1..(Len(lessons[g].moves) - 1)
          BY <3>3, <3>4, <3>6
        <4> QED
          BY <1>4, <2>2, <3>4, <3>5, <4>1 DEF LessonsInv, MovesOnce
      <3>7. CASE k = Len(lessons[g].moves)
        <4>1. lessons[g].moves # <<>> /\ LastMove(g) = lessons[g].moves[k] /\ LastMove(g) \in {"steps", "ladder"}
          BY <3>3, <3>4, <3>7 DEF LastMove
        <4>2. ASSUME LastMove(g) = "ladder" PROVE FALSE
          <5>1. Enrolled(w) /\ ~Early(card[w]) /\ card[w] \in SoundCards
            BY <1>4, <1>5, <1>6, <2>2 DEF Enrolled
          <5>2. Asleep(w, work.item.at)
            BY <1>4, <4>1, <4>2, <5>1 DEF LessonsInv, LadderKept, g, w
          <5>3. card[w].next \in Nat
            BY <5>1 DEF SoundCards, Schedules
          <5> QED
            <6>1. clock - work.at + Ttl + EarlyTolerance < 1440
              BY <3>5 DEF MinutesPerDay
            <6>2. clock + EarlyTolerance < work.item.at + 1440
              BY SMTT(30), <1>4, <1>5, <6>1
            <6>3. card[w].step = Graduated /\ card[w].next >= work.item.at + 1440
              BY <1>4, <1>5, <5>2, <6>2 DEF Asleep, MinutesPerDay
            <6> QED
              BY <1>4, <1>5, <5>1, <5>3, <6>2, <6>3 DEF Early
        <4> QED
          BY <2>2, <3>4, <4>1, <4>2
      <3> QED
        BY <3>3, <3>4, <3>6, <3>7
    <2> QED
      BY <1>10, <2>1, <2>2
  <1>21. AnsweredNotDue'
    <2> SUFFICES ASSUME NEW d \in Submissions, answer'[d].pc = "done", NEW l \in answer'[d].last,
                        Enrolled(l.word)'
                 PROVE  card'[l.word].next > l.at
      BY DEF AnsweredNotDue
    <2>1. /\ l \in answer[d].last /\ l.word \in Words /\ l.at \in Nat /\ l.at <= clock
          /\ Enrolled(l.word)
      BY <1>3, <1>8 DEF LessonsInv, LastSound, EnrolledOrGone
    <2>2. CASE l.word # w \/ (Quiet /\ d # c)
      <3>1. d # c
        BY <1>1, <2>1, <2>2 DEF WorkSound, w
      <3>2. card[l.word].next > l.at
        BY <1>3, <2>1, <3>1 DEF LessonsInv, AnsweredNotDue
      <3> QED
        BY <1>8, <2>1, <2>2, <3>2 DEF Quiet
    <2>3. CASE l.word = w /\ Quiet /\ (Enrolled(w) => Early(card[w])) /\ d = c
      <3>1. Early(card[w]) /\ card[w] \in SoundCards
        BY <1>4, <1>5, <2>1, <2>3 DEF Enrolled
      <3>2. card[w].next \in Nat /\ card'[w] = card[w]
        BY <2>3, <3>1 DEF SoundCards, Schedules, Quiet
      <3> QED
        BY <1>5, <2>1, <2>3, <3>1, <3>2 DEF Early
    <2>4. CASE l.word = w /\ Moves(g, w, clock - work.at)
      <3>1. card'[w].next > clock /\ card'[w].next \in Nat
        BY <1>6, <2>4 DEF SoundCards, Schedules
      <3> QED
        BY <1>5, <2>1, <2>4, <3>1
    <2> QED
      BY <1>10, <2>2, <2>3, <2>4
  <1> QED
    BY <1>9, <1>12, <1>13, <1>14, <1>15, <1>16, <1>18, <1>19, <1>20, <1>21 DEF LessonsInv

-----------------------------------------------------------------------------
(* The theorem about the review *)

LEMMA LessonsStepInv == LessonsInv /\ [LessonsNext]_lessonVars => LessonsInv'
  <1> SUFFICES ASSUME LessonsInv, [LessonsNext]_lessonVars PROVE LessonsInv'
    OBVIOUS
  <1>1. CASE UNCHANGED lessonVars
    <2>1. UNCHANGED <<clock, version, card, session, held, answer, finals, lessons>>
      BY <1>1 DEF lessonVars
    <2>2. Shapes' /\ PickedSound'
      BY <2>1 DEF LessonsInv, Shapes, IsSession, IsAnswer, PickedSound, EnrolledOrGone, Enrolled, Present
    <2>3. \A w \in Words : EnrolledOrGone(w) =>
            EnrolledOrGone(w)' /\ (Enrolled(w)' => Enrolled(w) /\ card'[w] = card[w])
      BY <2>1 DEF EnrolledOrGone, Enrolled, Present
    <2>4. clock' >= clock
      BY <2>1 DEF LessonsInv, Shapes
    <2> QED
      BY <2>1, <2>2, <2>3, <2>4, RowsKept
  <1>2. CASE \E s \in Sessions : PickWords(s) \/ EnrollFresh(s) \/ BuildSession(s)
    BY <1>2, PickWordsInv, EnrollFreshInv, BuildSessionInv
  <1>3. CASE \E c \in Submissions : SubmitAnswer(c) \/ SubmitReview(c)
    BY <1>3, SubmitAnswerInv, SubmitReviewInv
  <1>4. CASE \E w \in Words : EditWord(w) \/ DeleteVocabulary(w)
    BY <1>4, EditWordInv, DeleteVocabularyInv
  <1>5. CASE Advance
    BY <1>5, AdvanceInv
  <1> QED
    BY <1>1, <1>2, <1>3, <1>4, <1>5 DEF LessonsNext

LEMMA LessonsInvSuffices == LessonsInv => OneReviewPerLesson /\ AnsweredNotDue
  <1> SUFFICES ASSUME LessonsInv, NEW g \in Groups
               PROVE  Len(lessons[g].moves) <= lessons[g].finals
    BY DEF LessonsInv, OneReviewPerLesson, MovesOnce
  <1>1. /\ Len(lessons[g].moves) + Cardinality(InReview(g)) <= lessons[g].finals
        /\ Len(lessons[g].moves) \in Nat /\ lessons[g].finals \in Nat
    BY DEF LessonsInv, Counted, Shapes, Histories
  <1>2. Cardinality(InReview(g)) \in Nat
    BY InReviewFinite
  <1> QED
    BY <1>1, <1>2

\* learn.service.ts, progress.service.ts: a lesson moves its card only when its
\* last item is answered and, within a day, puts it on the day ladder at most
\* once; a word whose last item was answered is due later than that answer.
THEOREM LessonsReviewedOnce == Spec => []ReviewedOncePerLesson
  <1>1. Init => StudyInv
    BY LessonsInitInv DEF Init, StudyInv
  <1>2. StudyInv /\ [Next]_vars => StudyInv'
    <2> SUFFICES ASSUME StudyInv, [Next]_vars, part' = "lessons" PROVE LessonsInv'
      BY DEF StudyInv
    <2>1. part = "lessons"
      BY DEF Next, vars
    <2>2. [LessonsNext]_lessonVars
      BY <2>1 DEF Next, vars
    <2> QED
      BY <2>1, <2>2, LessonsStepInv DEF StudyInv
  <1>3. StudyInv => ReviewedOncePerLesson
    BY LessonsInvSuffices DEF StudyInv, ReviewedOncePerLesson
  <1> QED
    BY <1>1, <1>2, <1>3, PTL DEF Spec

-----------------------------------------------------------------------------
(* The ladder of types *)

LEMMA LadderPlaces ==
  /\ DOMAIN LADDER = 1..12
  /\ \A i \in 1..12 : LADDER[i].type \in QuestionTypes /\ LadderIndex(LADDER[i].type) = i
  /\ \A t \in QuestionTypes : LadderIndex(t) \in 1..12 /\ LADDER[LadderIndex(t)].type = t
  <1>1. DOMAIN LADDER = 1..12
    BY DEF LADDER
  <1>2. \A i, j \in 1..12 : LADDER[i].type = LADDER[j].type => i = j
    BY DEF LADDER
  <1>3. ASSUME NEW i \in 1..12 PROVE LadderIndex(LADDER[i].type) = i
    BY <1>1, <1>2 DEF LadderIndex
  <1> QED
    BY <1>1, <1>3 DEF QuestionTypes

LEMMA FlashcardFirst == AlwaysInclude = {"flashcard"} /\ "flashcard" \in QuestionTypes /\ BandOf("flashcard") = NewBand
  <1>1. LADDER[1].type = "flashcard" /\ LADDER[1].band = NewBand /\ 1 \in 1..12
    BY DEF LADDER
  <1>2. "flashcard" \in QuestionTypes /\ LadderIndex("flashcard") = 1
    BY <1>1, LadderPlaces
  <1> QED
    BY <1>1, <1>2 DEF AlwaysInclude, BandOf

LEMMA Bands ==
  /\ \A t \in QuestionTypes : BandOf(t) \in {NewBand, ReviewBand, MasterBand}
  /\ BandOf("pronunciation") = ReviewBand /\ "pronunciation" \in QuestionTypes
  <1>1. \A i \in 1..12 : LADDER[i].band \in {NewBand, ReviewBand, MasterBand}
    BY DEF LADDER
  <1>2. LADDER[11].type = "pronunciation" /\ LADDER[11].band = ReviewBand /\ 11 \in 1..12
    BY DEF LADDER
  <1>3. "pronunciation" \in QuestionTypes /\ LadderIndex("pronunciation") = 11
    BY <1>2, LadderPlaces
  <1> QED
    BY <1>1, <1>2, <1>3, LadderPlaces DEF BandOf

-----------------------------------------------------------------------------
(* Builders: at most one question, of the type that was asked for *)

AtMostOne(S) == \A x, y \in S : x = y

LEMMA OneIsFinite ==
  ASSUME NEW S, AtMostOne(S)
  PROVE  IsFiniteSet(S) /\ SetToSeq(S) \in Seq(S) /\ (S # {} => ToSet(SetToSeq(S)) = S /\ Len(SetToSeq(S)) = 1)
         /\ (S = {} => SetToSeq(S) = <<>>)
  <1>1. CASE S = {}
    <2>1. IsFiniteSet(S) /\ Cardinality(S) = 0
      BY <1>1, FS_EmptySet
    <2>2. SetToSeq(S) \in [1..0 -> S]
      BY <2>1, SetToSeqLists
    <2>3. PICK f : f = SetToSeq(S)
      OBVIOUS
    <2>4. f = <<>>
      BY <2>2, <2>3
    <2> QED
      BY <1>1, <2>1, <2>3, <2>4, EmptySeq
  <1>2. CASE S # {}
    <2>1. PICK x \in S : S = {x}
      BY <1>2 DEF AtMostOne
    <2>2. IsFiniteSet(S) /\ Cardinality(S) = 1
      BY <2>1, FS_Singleton
    <2>3. SetToSeq(S) \in [1..1 -> S]
      BY <2>2, SetToSeqLists
    <2>4. PICK f : f = SetToSeq(S)
      OBVIOUS
    <2>5. DOMAIN f = 1..1 /\ f[1] = x /\ f = [i \in 1..1 |-> x]
      BY <2>1, <2>3, <2>4
    <2>6. f \in Seq(S) /\ Len(f) = 1 /\ DOMAIN f = {1}
      BY <2>1, <2>5
    <2> QED
      BY <1>2, <2>1, <2>2, <2>4, <2>5, <2>6 DEF ToSet
  <1> QED
    BY <1>1, <1>2

LEMMA FirstIsOne == ASSUME NEW s PROVE AtMostOne(First(s))
  BY DEF AtMostOne, First

LEMMA OneOfOne ==
  ASSUME NEW S, AtMostOne(S), NEW f, \A x \in S : AtMostOne(f[x])
  PROVE  AtMostOne(UNION {f[x] : x \in S})
  BY DEF AtMostOne

\* A word as a query returns it, as far as the builders look at lists.
IsLoaded(word) ==
  /\ word.senses \in Seq(ToSet(word.senses))
  /\ \A sense \in ToSet(word.senses) : sense.examples \in Seq(ToSet(sense.examples))

\* FirstSuch, where places are those of what passes.
LEMMA LeastPlace ==
  ASSUME NEW list, DOMAIN list \subseteq Nat, NEW places \in SUBSET DOMAIN list
  PROVE  /\ AtMostOne({list[i] : i \in {j \in places : \A k \in places : j <= k}})
         /\ places # {} => {list[i] : i \in {j \in places : \A k \in places : j <= k}} # {}
  <1>1. AtMostOne({list[i] : i \in {j \in places : \A k \in places : j <= k}})
    BY DEF AtMostOne
  <1>2. ASSUME places # {} PROVE \E n \in places : \A m \in places : n <= m
    BY <1>2, LeastNatural
  <1> QED
    BY <1>1, <1>2

\* The first of a list that passes, which is one of the list.
LEMMA ElementsListed ==
  /\ \A list : list \in Seq(ToSet(list)) => DOMAIN list \subseteq Nat /\ \A i \in DOMAIN list : list[i] \in ToSet(list)
  /\ \A list, E : list \in Seq(E) => list \in Seq(ToSet(list))
  BY DEF ToSet

\* An example of some sense, if any.
SomeExample(word, S) ==
  AtMostOne(S) /\ \A e \in S : \E sense \in ToSet(word.senses) : e \in ToSet(sense.examples)

LEMMA HeadListed ==
  ASSUME NEW list, list \in Seq(ToSet(list)), list # <<>>
  PROVE  Head(list) \in ToSet(list) /\ list[1] \in ToSet(list) /\ First(list) = {Head(list)}
  BY DEF ToSet, First

LEMMA FirstExampleSound ==
  ASSUME NEW word, IsLoaded(word)
  PROVE  SomeExample(word, FirstExample(word))
  <1> DEFINE places == {i \in DOMAIN word.senses : word.senses[i].examples # <<>>}
  <1>1. PICK S : S = {word.senses[i] : i \in {j \in places : \A k \in places : j <= k}}
    OBVIOUS
  <1>2. AtMostOne(S)
    BY <1>1, LeastPlace, ElementsListed DEF IsLoaded
  <1>3. FirstExample(word) = UNION {First(sense.examples) : sense \in S}
    BY <1>1 DEF FirstExample, FirstSuch
  <1>4. ASSUME NEW sense \in S PROVE sense \in ToSet(word.senses) /\ sense.examples # <<>>
    BY <1>1, <1>4, ElementsListed DEF IsLoaded
  <1>5. \A e \in FirstExample(word) : \E sense \in ToSet(word.senses) : e \in ToSet(sense.examples)
    <2> SUFFICES ASSUME NEW sense \in S, NEW e \in First(sense.examples) PROVE e \in ToSet(sense.examples)
      BY <1>3, <1>4
    <2> QED
      BY <1>4, HeadListed DEF IsLoaded
  <1>6. AtMostOne(FirstExample(word))
    BY <1>2, <1>3, FirstIsOne DEF AtMostOne
  <1> QED
    BY <1>5, <1>6 DEF SomeExample

LEMMA WithFormSound ==
  ASSUME NEW word, IsLoaded(word), NEW sense \in ToSet(word.senses)
  PROVE  /\ AtMostOne(WithForm(word, sense))
         /\ \A e \in WithForm(word, sense) : e \in ToSet(sense.examples) /\ BlankedForm(word, e.sentence) # NoText
  <1>1. PICK list : list = IF Len(sense.examples) >= 3 THEN Tail(sense.examples) ELSE sense.examples
    OBVIOUS
  <1>2. sense.examples \in Seq(ToSet(sense.examples))
    BY DEF IsLoaded
  <1>3. list \in Seq(ToSet(sense.examples))
    <2>1. Len(sense.examples) >= 3 => sense.examples # <<>>
      BY <1>2
    <2> QED
      BY <1>1, <1>2, <2>1, HeadTailProperties
  <1> DEFINE places == {i \in DOMAIN list : BlankedForm(word, list[i].sentence) # NoText}
  <1>4. WithForm(word, sense) = {list[i] : i \in {j \in places : \A k \in places : j <= k}}
    BY <1>1 DEF WithForm, FirstSuch
  <1>5. DOMAIN list \subseteq Nat /\ \A i \in DOMAIN list : list[i] \in ToSet(sense.examples)
    BY <1>3
  <1>6. AtMostOne(WithForm(word, sense))
    <2> HIDE DEF places
    <2>1. places \in SUBSET DOMAIN list
      BY DEF places
    <2> QED
      BY <1>4, <1>5, <2>1, LeastPlace
  <1> QED
    BY <1>4, <1>5, <1>6

LEMMA PickExampleSound ==
  ASSUME NEW word, IsLoaded(word)
  PROVE  /\ SomeExample(word, PickExampleForCloze(word))
         /\ \A e \in PickExampleForCloze(word) : BlankedForm(word, e.sentence) # NoText
  <1> DEFINE places == {i \in DOMAIN word.senses : WithForm(word, word.senses[i]) # {}}
  <1>1. PICK S : S = {word.senses[i] : i \in {j \in places : \A k \in places : j <= k}}
    OBVIOUS
  <1>2. AtMostOne(S)
    BY <1>1, LeastPlace, ElementsListed DEF IsLoaded
  <1>3. PickExampleForCloze(word) = UNION {WithForm(word, sense) : sense \in S}
    BY <1>1 DEF PickExampleForCloze, FirstSuch
  <1>4. \A sense \in S : sense \in ToSet(word.senses)
    BY <1>1, ElementsListed DEF IsLoaded
  <1>5. \A sense \in S : /\ AtMostOne(WithForm(word, sense))
                         /\ \A e \in WithForm(word, sense) :
                              e \in ToSet(sense.examples) /\ BlankedForm(word, e.sentence) # NoText
    BY <1>4, WithFormSound
  <1>6. AtMostOne(PickExampleForCloze(word))
    BY <1>2, <1>3, <1>5 DEF AtMostOne
  <1> QED
    BY <1>3, <1>4, <1>5, <1>6 DEF SomeExample

LEMMA FirstTranslatedSound ==
  ASSUME NEW c, IsLoaded(c.word)
  PROVE  /\ AtMostOne(FirstTranslated(c))
         /\ \A s \in FirstTranslated(c) : c.lang /\ s \in ToSet(c.word.senses) /\ s.examples[1] \in ToSet(s.examples)
  <1>1. CASE ~c.lang
    BY <1>1 DEF FirstTranslated, AtMostOne
  <1>2. CASE c.lang
    <2> DEFINE places == {i \in DOMAIN c.word.senses : c.word.senses[i].translations # <<>> /\ c.word.senses[i].examples # <<>>}
    <2>1. FirstTranslated(c) = {c.word.senses[i] : i \in {j \in places : \A k \in places : j <= k}}
      BY <1>2 DEF FirstTranslated, FirstSuch
    <2>2. AtMostOne(FirstTranslated(c))
      BY <2>1, LeastPlace, ElementsListed DEF IsLoaded
    <2>3. \A s \in FirstTranslated(c) : s \in ToSet(c.word.senses) /\ s.examples # <<>>
      BY <2>1, ElementsListed DEF IsLoaded
    <2>4. \A s \in FirstTranslated(c) : s.examples[1] \in ToSet(s.examples)
      BY <2>3, HeadListed DEF IsLoaded
    <2> QED
      BY <1>2, <2>2, <2>3, <2>4
  <1> QED
    BY <1>1, <1>2

\* What a question of type t about the word of c promises of its right answer.
Promise(t, c, q) ==
  \E sense \in ToSet(c.word.senses) : \E e \in ToSet(sense.examples) :
    /\ q.example = e.id
    /\ t \in ClozeFamily => q.right = BlankedForm(c.word, e.sentence) /\ q.right # NoText
    /\ t \in MeaningTypes => c.lang /\ q.right = FirstTranslation(sense)
    /\ t \notin ClozeFamily \cup MeaningTypes \cup {"flashcard"} => q.right = Plain(c.word.lemma)

Built(t, c, S) == AtMostOne(S) /\ \A q \in S : q.type = t /\ Promise(t, c, q)

LEMMA QuestionFields ==
  ASSUME NEW t, NEW e, NEW right, NEW options
  PROVE  /\ Question(t, e, right, options).type = t /\ Question(t, e, right, options).example = e.id
         /\ Question(t, e, right, options).right = right
  BY DEF Question

\* Questions about the lemma, or the flashcard, of an example.
LEMMA LemmaBuilt ==
  ASSUME NEW c, IsLoaded(c.word), NEW t, t \notin ClozeFamily \cup MeaningTypes, NEW examples,
         SomeExample(c.word, examples), NEW right, t # "flashcard" => right = Plain(c.word.lemma)
  PROVE  Built(t, c, Typed(t, examples, right)) /\ Built(t, c, LemmaMcq(t, c, examples, right))
  <1>1. ASSUME NEW e \in examples, NEW options
        PROVE  Question(t, e, right, options).type = t /\ Promise(t, c, Question(t, e, right, options))
    BY <1>1, QuestionFields DEF SomeExample, Promise
  <1>2. AtMostOne(Typed(t, examples, right)) /\ AtMostOne(LemmaMcq(t, c, examples, right))
    BY DEF Typed, LemmaMcq, SomeExample, AtMostOne
  <1>3. \A q \in Typed(t, examples, right) : \E e \in examples : q = Question(t, e, right, {})
    BY DEF Typed
  <1>4. \A q \in LemmaMcq(t, c, examples, right) : \E e \in examples : q = Question(t, e, right, {right, Other})
    BY DEF LemmaMcq
  <1> QED
    BY <1>1, <1>2, <1>3, <1>4 DEF Built

\* Questions with a blank.
LEMMA ClozeBuilt ==
  ASSUME NEW c, IsLoaded(c.word), NEW t \in ClozeFamily, NEW S,
         \A q \in S : \E e \in PickExampleForCloze(c.word) : \E options : q = Question(t, e, BlankedForm(c.word, e.sentence), options),
         AtMostOne(S)
  PROVE  Built(t, c, S)
  <1> SUFFICES ASSUME NEW q \in S PROVE q.type = t /\ Promise(t, c, q)
    BY DEF Built
  <1>1. PICK e \in PickExampleForCloze(c.word) : \E options : q = Question(t, e, BlankedForm(c.word, e.sentence), options)
    OBVIOUS
  <1>2. q.type = t /\ q.example = e.id /\ q.right = BlankedForm(c.word, e.sentence)
    BY <1>1, QuestionFields
  <1>3. BlankedForm(c.word, e.sentence) # NoText
    BY PickExampleSound
  <1>4. PICK sense \in ToSet(c.word.senses) : e \in ToSet(sense.examples)
    BY PickExampleSound DEF SomeExample
  <1>5. t \notin MeaningTypes
    BY DEF ClozeFamily, MeaningTypes
  <1> QED
    BY <1>2, <1>3, <1>4, <1>5 DEF Promise

\* Questions about the meaning of a sense.
LEMMA MeaningBuilt ==
  ASSUME NEW c, NEW t \in MeaningTypes, c.lang, NEW sense \in ToSet(c.word.senses),
         NEW e \in ToSet(sense.examples), NEW options
  PROVE  /\ Question(t, e, FirstTranslation(sense), options).type = t
         /\ Promise(t, c, Question(t, e, FirstTranslation(sense), options))
  <1>1. t \notin ClozeFamily
    BY DEF ClozeFamily, MeaningTypes
  <1> QED
    BY <1>1, QuestionFields DEF Promise

LEMMA NothingBuilt == ASSUME NEW t, NEW c PROVE Built(t, c, {})
  BY DEF Built, AtMostOne

LEMMA ClozesBuilt ==
  ASSUME NEW c, IsLoaded(c.word)
  PROVE  /\ Built("cloze_typing", c, BuildClozeTyping(c))
         /\ \A t \in ClozeFamily : Built(t, c, BuildCloze(t, c))
         /\ Built("listening_cloze", c, BuildListeningCloze(c))
  <1>1. "cloze_typing" \in ClozeFamily /\ "listening_cloze" \in ClozeFamily
    BY DEF ClozeFamily
  <1>2. AtMostOne(PickExampleForCloze(c.word))
    BY PickExampleSound DEF SomeExample
  <1>3. Built("cloze_typing", c, BuildClozeTyping(c))
    <2>1. BuildClozeTyping(c) = {Question("cloze_typing", e, BlankedForm(c.word, e.sentence), {}) : e \in PickExampleForCloze(c.word)}
      BY DEF BuildClozeTyping, Typed
    <2>2. AtMostOne(BuildClozeTyping(c))
      BY <1>2, <2>1 DEF AtMostOne
    <2> QED
      BY <1>1, <2>1, <2>2, ClozeBuilt
  <1>4. ASSUME NEW t \in ClozeFamily PROVE Built(t, c, BuildCloze(t, c))
    <2>1. \A q \in BuildCloze(t, c) : \E e \in PickExampleForCloze(c.word) :
            q = Question(t, e, BlankedForm(c.word, e.sentence), {BlankedForm(c.word, e.sentence), Other})
      BY DEF BuildCloze, LemmaMcq
    <2>2. AtMostOne(BuildCloze(t, c))
      BY <1>2, <2>1 DEF AtMostOne
    <2> QED
      BY <2>1, <2>2, ClozeBuilt
  <1> QED
    BY <1>1, <1>3, <1>4, NothingBuilt DEF BuildListeningCloze

LEMMA MeaningsBuilt ==
  ASSUME NEW c, IsLoaded(c.word)
  PROVE  Built("meaning_in_context", c, BuildMeaningInContext(c))
  <1> DEFINE t == "meaning_in_context"
             places == {i \in DOMAIN c.word.senses : MeaningOf(c, c.word.senses[i]) # {}}
  <1>1. CASE ~c.lang
    BY <1>1, NothingBuilt DEF BuildMeaningInContext
  <1>2. CASE c.lang
    <2>1. PICK S : S = {c.word.senses[i] : i \in {j \in places : \A k \in places : j <= k}}
      OBVIOUS
    <2>2. AtMostOne(S) /\ \A sense \in S : sense \in ToSet(c.word.senses)
      BY <2>1, LeastPlace, ElementsListed DEF IsLoaded
    <2>3. BuildMeaningInContext(c) = UNION {MeaningOf(c, sense) : sense \in S}
      BY <1>2, <2>1 DEF BuildMeaningInContext, FirstSuch
    <2>4. ASSUME NEW sense \in S PROVE Built(t, c, MeaningOf(c, sense))
      <3>1. AtMostOne(WithForm(c.word, sense)) /\ \A e \in WithForm(c.word, sense) : e \in ToSet(sense.examples)
        BY <2>2, WithFormSound
      <3>2. PICK trap : trap = Prefix(1, OtherTranslations(c.word, sense))
        OBVIOUS
      <3>3. \A q \in MeaningOf(c, sense) : \E e \in WithForm(c.word, sense) :
              q = Question(t, e, FirstTranslation(sense), {FirstTranslation(sense), Other} \cup ToSet(trap))
        BY <3>2 DEF MeaningOf, TranslationMcq
      <3>4. AtMostOne(MeaningOf(c, sense))
        BY <3>1, <3>3 DEF AtMostOne
      <3>5. t \in MeaningTypes
        BY DEF MeaningTypes
      <3>6. \A q \in MeaningOf(c, sense) : q.type = t /\ Promise(t, c, q)
        <4> HIDE DEF t
        <4> QED
          BY <1>2, <2>2, <3>1, <3>3, <3>5, MeaningBuilt
      <3> QED
        BY <3>4, <3>6 DEF Built
    <2>5. AtMostOne(BuildMeaningInContext(c))
      BY <2>2, <2>3, <2>4 DEF AtMostOne, Built
    <2> QED
      BY <2>3, <2>4, <2>5 DEF Built
  <1> QED
    BY <1>1, <1>2

LEMMA SensesBuilt ==
  ASSUME NEW c, IsLoaded(c.word)
  PROVE  /\ Built("translation_from_word", c, BuildTranslationFromWord(c))
         /\ Built("sense_disambiguation", c, BuildSenseDisambiguation(c))
         /\ Built("word_from_translation", c, BuildWordFromTranslation(c))
  <1>1. /\ AtMostOne(FirstTranslated(c))
        /\ \A s \in FirstTranslated(c) : c.lang /\ s \in ToSet(c.word.senses) /\ s.examples[1] \in ToSet(s.examples)
    BY FirstTranslatedSound
  <1>2. ASSUME NEW t \in MeaningTypes, NEW S,
               \A q \in S : \E s \in FirstTranslated(c) : \E options : q = Question(t, s.examples[1], FirstTranslation(s), options),
               AtMostOne(S)
        PROVE  Built(t, c, S)
    <2> SUFFICES ASSUME NEW q \in S PROVE q.type = t /\ Promise(t, c, q)
      BY <1>2 DEF Built
    <2>1. PICK s \in FirstTranslated(c) : \E options : q = Question(t, s.examples[1], FirstTranslation(s), options)
      BY <1>2
    <2> QED
      BY <1>1, <2>1, MeaningBuilt
  <1>3. "translation_from_word" \in MeaningTypes /\ "sense_disambiguation" \in MeaningTypes
    BY DEF MeaningTypes
  <1>4. Built("translation_from_word", c, BuildTranslationFromWord(c))
    <2>1. \A q \in BuildTranslationFromWord(c) : \E s \in FirstTranslated(c) :
            q = Question("translation_from_word", s.examples[1], FirstTranslation(s),
                         {FirstTranslation(s), Other} \cup ToSet(<<>>))
      BY DEF BuildTranslationFromWord, TranslationMcq
    <2>2. AtMostOne(BuildTranslationFromWord(c))
      BY <1>1, <2>1 DEF AtMostOne
    <2> QED
      BY <1>2, <1>3, <2>1, <2>2
  <1>5. Built("sense_disambiguation", c, BuildSenseDisambiguation(c))
    <2>1. ASSUME NEW s \in FirstTranslated(c)
          PROVE  \E options : \A q \in Disambiguation(c, s) :
                   q = Question("sense_disambiguation", s.examples[1], FirstTranslation(s), options)
      BY DEF Disambiguation
    <2>2. \A q \in BuildSenseDisambiguation(c) : \E s \in FirstTranslated(c) : q \in Disambiguation(c, s)
      BY DEF BuildSenseDisambiguation
    <2>3. AtMostOne(BuildSenseDisambiguation(c))
      BY <1>1, <2>1, <2>2 DEF AtMostOne
    <2> QED
      BY <1>2, <1>3, <2>1, <2>2, <2>3
  <1>6. Built("word_from_translation", c, BuildWordFromTranslation(c))
    <2>1. \A q \in BuildWordFromTranslation(c) : \E s \in FirstTranslated(c) : \E options :
            q = Question("word_from_translation", s.examples[1], Plain(c.word.lemma), options)
      BY DEF BuildWordFromTranslation, LemmaMcq
    <2>2. AtMostOne(BuildWordFromTranslation(c))
      BY <1>1 DEF AtMostOne, BuildWordFromTranslation, LemmaMcq
    <2>3. "word_from_translation" \notin ClozeFamily \cup MeaningTypes
      BY DEF ClozeFamily, MeaningTypes
    <2>4. \A q \in BuildWordFromTranslation(c) : q.type = "word_from_translation" /\ Promise("word_from_translation", c, q)
      BY <1>1, <2>1, <2>3, QuestionFields DEF Promise
    <2> QED
      BY <2>2, <2>4 DEF Built
  <1> QED
    BY <1>4, <1>5, <1>6

LEMMA LemmasBuilt ==
  ASSUME NEW c, IsLoaded(c.word)
  PROVE  /\ Built("flashcard", c, BuildFlashcard(c))
         /\ Built("listening_choice", c, BuildListeningChoice(c))
         /\ Built("dictation", c, BuildDictation(c))
         /\ Built("image_choice", c, BuildImageChoice(c))
         /\ Built("pronunciation", c, BuildPronunciation(c))
  <1>1. SomeExample(c.word, FirstExample(c.word))
    BY FirstExampleSound
  <1>2. \A t \in {"flashcard", "listening_choice", "dictation", "image_choice", "pronunciation"} :
          t \notin ClozeFamily \cup MeaningTypes
    BY DEF ClozeFamily, MeaningTypes
  <1>3. Built("flashcard", c, BuildFlashcard(c))
    BY <1>1, <1>2, LemmaBuilt DEF BuildFlashcard
  <1>4. Built("listening_choice", c, BuildListeningChoice(c))
    BY <1>1, <1>2, LemmaBuilt, NothingBuilt DEF BuildListeningChoice
  <1>5. Built("dictation", c, BuildDictation(c))
    BY <1>1, <1>2, LemmaBuilt, NothingBuilt DEF BuildDictation
  <1>6. Built("image_choice", c, BuildImageChoice(c))
    BY <1>1, <1>2, LemmaBuilt, NothingBuilt DEF BuildImageChoice
  <1>7. Built("pronunciation", c, BuildPronunciation(c))
    BY <1>1, <1>2, LemmaBuilt DEF BuildPronunciation
  <1> QED
    BY <1>3, <1>4, <1>5, <1>6, <1>7

LEMMA TypesListed ==
  QuestionTypes = {"flashcard", "cloze_mcq", "meaning_in_context", "word_from_translation",
    "translation_from_word", "listening_cloze", "listening_choice", "image_choice",
    "cloze_typing", "dictation", "pronunciation", "sense_disambiguation"}
  <1>1. DOMAIN LADDER = 1..12
    BY DEF LADDER
  <1>2. /\ LADDER[1].type = "flashcard" /\ LADDER[2].type = "cloze_mcq" /\ LADDER[3].type = "meaning_in_context"
        /\ LADDER[4].type = "word_from_translation" /\ LADDER[5].type = "translation_from_word"
        /\ LADDER[6].type = "listening_cloze" /\ LADDER[7].type = "listening_choice"
        /\ LADDER[8].type = "image_choice" /\ LADDER[9].type = "cloze_typing" /\ LADDER[10].type = "dictation"
        /\ LADDER[11].type = "pronunciation" /\ LADDER[12].type = "sense_disambiguation"
    BY DEF LADDER
  <1>3. \A i \in 1..12 : i \in {1, 2, 3, 4, 5, 6, 7, 8, 9, 10, 11, 12}
    OBVIOUS
  <1>4. QuestionTypes = {LADDER[i].type : i \in 1..12}
    BY <1>1 DEF QuestionTypes
  <1>5. \A i \in {1, 2, 3, 4, 5, 6, 7, 8, 9, 10, 11, 12} : i \in 1..12
    OBVIOUS
  <1> QED
    BY ONLY <1>2, <1>3, <1>4, <1>5

\* tryBuild: at most one question, of the type it is asked for.
LEMMA TryBuildSound ==
  ASSUME NEW c, IsLoaded(c.word), NEW t \in QuestionTypes
  PROVE  Built(t, c, TryBuild(t, c))
  <1>1. t \in {"flashcard", "cloze_mcq", "meaning_in_context", "word_from_translation",
    "translation_from_word", "listening_cloze", "listening_choice", "image_choice",
    "cloze_typing", "dictation", "pronunciation", "sense_disambiguation"}
    BY TypesListed
  <1>2. "cloze_mcq" \in ClozeFamily
    BY DEF ClozeFamily
  <1> QED
    BY <1>1, <1>2, ClozesBuilt, MeaningsBuilt, SensesBuilt, LemmasBuilt DEF TryBuild

\* kept is what list has at the places I, one after the other.
PlacesTaken(places, kept, list, I, E) ==
  /\ Ascends(places, I) /\ Cardinality(I) \in Nat
  /\ kept \in Seq(E) /\ Len(kept) = Cardinality(I)
  /\ \A k \in 1..Len(kept) : places[k] \in I /\ kept[k] = list[places[k]]
  /\ \A i \in I : \E k \in 1..Len(kept) : places[k] = i

LEMMA FilteredPlaces ==
  ASSUME NEW E, NEW list \in Seq(E), NEW I \in SUBSET DOMAIN list
  PROVE  \E places : PlacesTaken(places, TakenAt(list, I), list, I, E)
  <1>1. PICK places : places = Ascending(I)
    OBVIOUS
  <1>2. IsFiniteSet(I) /\ I \in SUBSET Int
    <2>1. IsFiniteSet(DOMAIN list) /\ DOMAIN list \in SUBSET Int
      BY FS_Interval
    <2> QED
      BY <2>1, FS_Subset
  <1>3. Ascends(places, I)
    BY <1>1, <1>2, AscendingList, Zenon
  <1>4. PICK kept : kept = TakenAt(list, I)
    OBVIOUS
  <1>5. SiftedTo(kept, list, I, E)
    BY <1>4, FilteredList, Zenon
  <1>6. /\ kept \in Seq(E) /\ Len(kept) = Cardinality(I) /\ Cardinality(I) \in Nat
        /\ \A k \in 1..Len(kept) : places[k] \in I /\ kept[k] = list[places[k]]
    BY <1>1, <1>5 DEF SiftedTo
  <1>7. \A i \in I : \E k \in 1..Len(kept) : places[k] = i
    BY <1>3, <1>6 DEF Ascends
  <1> QED
    BY <1>3, <1>4, <1>6, <1>7, Zenon DEF PlacesTaken

-----------------------------------------------------------------------------
(* The types that are tried, and what the trying gives *)

\* An order in which the optional types may be tried.
IsOrder(order) == order \in Seq(QuestionTypes) /\ QuestionTypes \ AlwaysInclude \subseteq Range(order)

\* types is a list of types that has all those of S.
ListsTypes(types, S) ==
  types \in Seq(QuestionTypes) /\ \A t \in S : \E k \in 1..Len(types) : types[k] = t

\* h is f followed by g.
Joins(h, f, g, S) ==
  /\ h \in Seq(S) /\ Len(h) = Len(f) + Len(g)
  /\ \A k \in 1..Len(f) : k \in 1..Len(h) /\ h[k] = f[k]
  /\ \A k \in 1..Len(g) : k + Len(f) \in 1..Len(h) /\ h[k + Len(f)] = g[k]

LEMMA Joined ==
  ASSUME NEW S, NEW f \in Seq(S), NEW g \in Seq(S)
  PROVE  Joins(f \o g, f, g, S)
  <1>0. PICK h : h = f \o g
    OBVIOUS
  <1>1. h \in Seq(S) /\ Len(h) = Len(f) + Len(g)
    BY <1>0
  <1>2. \A k \in 1..Len(f) : k \in 1..Len(h) /\ h[k] = f[k]
    BY <1>0
  <1>3. \A k \in 1..Len(g) : k + Len(f) \in 1..Len(h) /\ h[k + Len(f)] = g[k]
    BY <1>0
  <1> QED
    BY <1>0, <1>1, <1>2, <1>3 DEF Joins

LEMMA BandListed ==
  ASSUME NEW order, IsOrder(order), NEW status, NEW band
  PROVE  ListsTypes(TypesInBand(status, order, band), {t \in EligibleTypesForStatus(status) : BandOf(t) = band})
  <1>1. PICK list : list = SetToSeq(AlwaysInclude) \o order
    OBVIOUS
  <1>2. list \in Seq(QuestionTypes) /\ \A t \in QuestionTypes : \E i \in DOMAIN list : list[i] = t
    <2>1. PICK f : f = SetToSeq(AlwaysInclude)
      OBVIOUS
    <2>2. f \in Seq(QuestionTypes) /\ Len(f) = 1 /\ f[1] = "flashcard"
      <3>1. AtMostOne(AlwaysInclude) /\ AlwaysInclude = {"flashcard"} /\ "flashcard" \in QuestionTypes
        BY FlashcardFirst DEF AtMostOne
      <3>2. f \in Seq({"flashcard"}) /\ Len(f) = 1
        BY <2>1, <3>1, OneIsFinite
      <3> QED
        BY <3>1, <3>2
    <2>3. order \in Seq(QuestionTypes)
      BY DEF IsOrder
    <2>4. /\ list \in Seq(QuestionTypes)
          /\ 1 \in 1..Len(list) /\ list[1] = "flashcard"
          /\ \A k \in 1..Len(order) : k + 1 \in 1..Len(list) /\ list[k + 1] = order[k]
      <3>1. list = f \o order
        BY <1>1, <2>1
      <3>2. /\ list \in Seq(QuestionTypes)
            /\ \A k \in 1..Len(f) : k \in 1..Len(list) /\ list[k] = f[k]
            /\ \A k \in 1..Len(order) : k + Len(f) \in 1..Len(list) /\ list[k + Len(f)] = order[k]
        <4>1. Joins(f \o order, f, order, QuestionTypes)
          BY <2>2, <2>3, Joined, Zenon
        <4> QED
          BY <3>1, <4>1 DEF Joins
      <3>3. 1 \in 1..Len(f)
        BY <2>2
      <3> QED
        BY <2>2, <3>2, <3>3
    <2>5. ASSUME NEW t \in QuestionTypes PROVE \E i \in DOMAIN list : list[i] = t
      <3>1. CASE t = "flashcard"
        BY <2>2, <2>3, <2>4, <3>1
      <3>2. CASE t # "flashcard"
        <4>1. t \in Range(order)
          BY <3>2, FlashcardFirst DEF IsOrder
        <4>2. PICK j \in 1..Len(order) : order[j] = t
          BY <2>3, <4>1 DEF Range
        <4> QED
          BY <2>4, <4>2
      <3> QED
        BY <3>1, <3>2
    <2> QED
      BY <2>4, <2>5
  <1>3. PICK I : I = {i \in DOMAIN list : BandOf(list[i]) = band /\ list[i] \in EligibleTypesForStatus(status)}
    OBVIOUS
  <1>4. PICK types : types = TakenAt(list, I)
    OBVIOUS
  <1>5. TypesInBand(status, order, band) = types
    BY SMTT(30), <1>1, <1>3, <1>4 DEF TypesInBand, Filtered, Ranked, TakenAt, Ascending
  <1>6. I \in SUBSET DOMAIN list
    BY <1>3
  <1>7. PICK places : PlacesTaken(places, types, list, I, QuestionTypes)
    BY <1>2, <1>4, <1>6, FilteredPlaces
  <1>8. ASSUME NEW t \in EligibleTypesForStatus(status), BandOf(t) = band
        PROVE  \E k \in 1..Len(types) : types[k] = t
    <2>1. t \in QuestionTypes
      BY DEF EligibleTypesForStatus, QuestionTypes
    <2>2. PICK i \in I : list[i] = t
      BY <1>2, <1>3, <1>8, <2>1
    <2> QED
      BY <1>7, <2>2 DEF PlacesTaken
  <1> QED
    BY <1>5, <1>7, <1>8 DEF ListsTypes, PlacesTaken

TriedTypes(status, order) ==
  TypesInBand(status, order, NewBand) \o TypesInBand(status, order, ReviewBand) \o TypesInBand(status, order, MasterBand)

LEMMA TriedListed ==
  ASSUME NEW order, IsOrder(order), NEW status
  PROVE  ListsTypes(TriedTypes(status, order), EligibleTypesForStatus(status))
  <1>1. PICK A, B, C : /\ A = TypesInBand(status, order, NewBand)
                       /\ B = TypesInBand(status, order, ReviewBand)
                       /\ C = TypesInBand(status, order, MasterBand)
    OBVIOUS
  <1>2. /\ ListsTypes(A, {t \in EligibleTypesForStatus(status) : BandOf(t) = NewBand})
        /\ ListsTypes(B, {t \in EligibleTypesForStatus(status) : BandOf(t) = ReviewBand})
        /\ ListsTypes(C, {t \in EligibleTypesForStatus(status) : BandOf(t) = MasterBand})
    BY <1>1, BandListed
  <1>3. A \in Seq(QuestionTypes) /\ B \in Seq(QuestionTypes) /\ C \in Seq(QuestionTypes)
    BY <1>2 DEF ListsTypes
  <1>4. PICK AB : AB = A \o B
    OBVIOUS
  <1>5. /\ AB \in Seq(QuestionTypes)
        /\ \A k \in 1..Len(A) : k \in 1..Len(AB) /\ AB[k] = A[k]
        /\ \A k \in 1..Len(B) : k + Len(A) \in 1..Len(AB) /\ AB[k + Len(A)] = B[k]
    <2>1. Joins(A \o B, A, B, QuestionTypes)
      BY <1>3, Joined, Zenon
    <2> QED
      BY <1>4, <2>1 DEF Joins
  <1>6. PICK T : T = AB \o C
    OBVIOUS
  <1>7. /\ T \in Seq(QuestionTypes)
        /\ \A k \in 1..Len(AB) : k \in 1..Len(T) /\ T[k] = AB[k]
        /\ \A k \in 1..Len(C) : k + Len(AB) \in 1..Len(T) /\ T[k + Len(AB)] = C[k]
    <2>1. Joins(AB \o C, AB, C, QuestionTypes)
      BY <1>3, <1>5, Joined, Zenon
    <2> QED
      BY <1>6, <2>1 DEF Joins
  <1>9. ASSUME NEW t \in EligibleTypesForStatus(status) PROVE \E k \in 1..Len(T) : T[k] = t
    <2>1. BandOf(t) \in {NewBand, ReviewBand, MasterBand}
      BY Bands DEF EligibleTypesForStatus, QuestionTypes
    <2>2. CASE BandOf(t) = NewBand
      <3>1. PICK k \in 1..Len(A) : A[k] = t
        BY <1>2, <2>2 DEF ListsTypes
      <3> QED
        BY <1>5, <1>7, <3>1
    <2>3. CASE BandOf(t) = ReviewBand
      <3>1. PICK k \in 1..Len(B) : B[k] = t
        BY <1>2, <2>3 DEF ListsTypes
      <3> QED
        BY <1>5, <1>7, <3>1
    <2>4. CASE BandOf(t) = MasterBand
      <3>1. PICK k \in 1..Len(C) : C[k] = t
        BY <1>2, <2>4 DEF ListsTypes
      <3> QED
        BY <1>7, <3>1
    <2> QED
      BY <2>1, <2>2, <2>3, <2>4
  <1> QED
    BY <1>1, <1>4, <1>6, <1>7, <1>9 DEF TriedTypes, ListsTypes

\* The questions there can be about the word of c.
QuestionsOf(c) == UNION {TryBuild(t, c) : t \in QuestionTypes}

LEMMA QuestionsFound ==
  ASSUME NEW c, IsLoaded(c.word), NEW q \in QuestionsOf(c)
  PROVE  q.type \in QuestionTypes /\ TryBuild(q.type, c) = {q} /\ Promise(q.type, c, q)
  <1>1. PICK t \in QuestionTypes : q \in TryBuild(t, c)
    BY DEF QuestionsOf
  <1>2. q.type = t /\ Promise(t, c, q) /\ AtMostOne(TryBuild(t, c))
    BY <1>1, TryBuildSound DEF Built
  <1> QED
    BY <1>1, <1>2 DEF AtMostOne

LEMMA ExtendedSound ==
  ASSUME NEW c, IsLoaded(c.word), NEW questions \in Seq(QuestionsOf(c)), NEW t \in QuestionTypes
  PROVE  /\ Extended(questions, t, c) \in Seq(QuestionsOf(c))
         /\ \/ Extended(questions, t, c) = questions /\ (Full(questions, t) \/ TryBuild(t, c) = {})
            \/ ~Full(questions, t) /\ \E q \in TryBuild(t, c) : Extended(questions, t, c) = Append(questions, q)
  <1>1. AtMostOne(TryBuild(t, c)) /\ TryBuild(t, c) \subseteq QuestionsOf(c)
    BY TryBuildSound DEF Built, QuestionsOf
  <1>2. CASE Full(questions, t)
    BY <1>2 DEF Extended
  <1>3. CASE ~Full(questions, t) /\ TryBuild(t, c) = {}
    <2>1. SetToSeq(TryBuild(t, c)) = <<>>
      BY <1>1, <1>3, OneIsFinite
    <2>2. questions \o <<>> = questions
      BY ConcatEmptySeq
    <2> QED
      BY <1>3, <2>1, <2>2 DEF Extended
  <1>4. CASE ~Full(questions, t) /\ TryBuild(t, c) # {}
    <2>1. PICK q \in TryBuild(t, c) : TryBuild(t, c) = {q}
      BY <1>1, <1>4 DEF AtMostOne
    <2>2. SetToSeq({q}) \in Seq({q}) /\ Len(SetToSeq({q})) = 1
      BY <1>1, <2>1, OneIsFinite
    <2>3. PICK f : f = SetToSeq({q})
      OBVIOUS
    <2>4. f = <<q>>
      BY <2>2, <2>3
    <2>5. questions \o <<q>> = Append(questions, q) /\ Append(questions, q) \in Seq(QuestionsOf(c))
      BY <1>1, <2>1, AppendIsConcat
    <2> QED
      BY <1>4, <2>1, <2>3, <2>4, <2>5 DEF Extended
  <1> QED
    BY <1>2, <1>3, <1>4

\* run is what the loop of buildLadder has after each type.
LadderRun(run, types, c) ==
  /\ run \in [0..Len(types) -> Seq(QuestionsOf(c))]
  /\ run[0] = <<>>
  /\ \A k \in 1..Len(types) : run[k] = Extended(run[k - 1], types[k], c)

EasierFirst(S) ==
  [i \in 1..Cardinality(S) |-> CHOOSE q \in S : Cardinality({r \in S : Easier(r, q)}) = i - 1]

LEMMA LadderRuns ==
  ASSUME NEW c, IsLoaded(c.word), NEW order, IsOrder(order), NEW status
  PROVE  \E run : /\ LadderRun(run, TriedTypes(status, order), c)
                  /\ BuildLadder(status, order, c) = EasierFirst(ToSet(run[Len(TriedTypes(status, order))]))
  <1> DEFINE V == Seq(QuestionsOf(c))
  <1>a. PICK types : types = TriedTypes(status, order)
    OBVIOUS
  <1> DEFINE n == Len(types)
             step == [p \in (1..n) \X V |-> Extended(p[2], types[p[1]], c)]
             Eq(f) == f = [s \in SUBSET DOMAIN types |->
                             IF s = {} THEN <<>> ELSE Extended(f[s \ {Max(s)}], types[Max(s)], c)]
             it == CHOOSE f : Eq(f)
  <1>0. n \in Nat /\ DOMAIN types = 1..n /\ IsFiniteSet(1..n) /\ \A i \in 1..n : types[i] \in QuestionTypes
    <2>1. types \in Seq(QuestionTypes)
      BY <1>a, TriedListed DEF ListsTypes
    <2> QED
      BY <2>1, FS_Interval
  <1>1. step \in [(1..n) \X V -> V]
    BY <1>0, ExtendedSound
  <1>2. \A s \in SUBSET (1..n) : s # {} => Max(s) \in s
    <2> TAKE s \in SUBSET (1..n)
    <2>1. s \in SUBSET Int
      BY <1>0
    <2>2. IsFiniteSet(s)
      BY <1>0, FS_Subset, Zenon
    <2> QED
      BY <2>1, <2>2, GreatestOf, Zenon
  <1>3. BuildLadder(status, order, c) = EasierFirst(ToSet(it[DOMAIN types]))
    BY <1>a DEF BuildLadder, FoldLeft, MapThenFoldSet, TriedTypes, Ranked, EasierFirst
  <1>b. <<>> \in V
    BY EmptySeq
  <1>4. PICK f \in [SUBSET (1..n) -> V] : SolvesMaxFold(f, n, <<>>, step)
    <2> HIDE DEF n, step, V
    <2> QED
      BY <1>0, <1>1, <1>b, FoldOfPrefixes, Zenon
  <1>5. Eq(f)
    <2>1. \A s \in SUBSET (1..n) : s # {} => step[<<Max(s), f[s \ {Max(s)}]>>] = Extended(f[s \ {Max(s)}], types[Max(s)], c)
      <3> TAKE s \in SUBSET (1..n)
      <3> HAVE s # {}
      <3>1. Max(s) \in 1..n /\ f[s \ {Max(s)}] \in V
        BY <1>2
      <3> QED
        BY <3>1
    <2>2. \A s \in SUBSET (1..n) : f[s] = IF s = {} THEN <<>> ELSE Extended(f[s \ {Max(s)}], types[Max(s)], c)
      <3> HIDE DEF n, step, V
      <3> TAKE s \in SUBSET (1..n)
      <3>1. f[s] = IF s = {} THEN <<>> ELSE step[<<Max(s), f[s \ {Max(s)}]>>]
        BY <1>4, Zenon DEF SolvesMaxFold
      <3> QED
        BY <3>1, <2>1, Zenon
    <2> QED
      BY <1>0, <2>2, Zenon
  <1>6. Eq(it)
    <2> HIDE DEF Eq
    <2> QED
      BY <1>5
  <1>7. it[{}] = <<>> /\ \A s \in SUBSET (1..n) : s # {} => it[s] = Extended(it[s \ {Max(s)}], types[Max(s)], c)
    <2> HIDE DEF it
    <2> QED
      BY <1>0, <1>6, Zenon
  <1>8. \A k \in 1..n : it[1..(k - 1)] \in V => it[1..k] = step[<<k, it[1..(k - 1)]>>]
    <2> TAKE k \in 1..n
    <2> HAVE it[1..(k - 1)] \in V
    <2>1. k \in Nat /\ k >= 1 /\ 1..k \in SUBSET (1..n) /\ 1..k # {}
      BY <1>0
    <2>2. Max(1..k) = k /\ (1..k) \ {k} = 1..(k - 1)
      BY <2>1, MaxOfPrefix, Zenon
    <2>3. it[1..k] = Extended(it[1..(k - 1)], types[k], c)
      <3> HIDE DEF it, n
      <3> QED
        BY <2>1, <2>2, <1>7, Zenon
    <2>4. <<k, it[1..(k - 1)]>> \in (1..n) \X V
      <3> HIDE DEF it, n, V
      <3> QED
        BY Zenon
    <2> HIDE DEF it, n, V
    <2> QED
      BY <2>3, <2>4
  <1>9. PICK run \in [0..n -> V] : RunsAlong(run, it, n, step)
    <2>1. GoesOn(it, n, V, step)
      <3> HIDE DEF it, n, step, V
      <3> QED
        BY <1>8, Zenon DEF GoesOn
    <2> HIDE DEF it, n, step, V
    <2> QED
      BY <1>0, <1>1, <1>7, <1>b, <2>1, RunExists, Zenon
  <1>10. \A k \in 1..n : run[k] = Extended(run[k - 1], types[k], c)
    <2> TAKE k \in 1..n
    <2>1. k - 1 \in 0..n
      BY <1>0
    <2>2. run[k - 1] \in V
      BY <2>1
    <2>3. run[k] = step[<<k, run[k - 1]>>]
      <3> HIDE DEF it, n, step, V
      <3> QED
        BY <1>9, Zenon DEF RunsAlong
    <2> HIDE DEF it, n, V
    <2> QED
      BY <2>2, <2>3
  <1>11. run[0] = <<>> /\ run[n] = it[DOMAIN types]
    <2> HIDE DEF it, n, step, V
    <2> QED
      BY <1>0, <1>7, <1>9, Zenon DEF RunsAlong
  <1> QED
    <2> HIDE DEF it
    <2> QED
      BY <1>a, <1>3, <1>10, <1>11, Zenon DEF LadderRun

-----------------------------------------------------------------------------
(* The ladder: one question of a type, easiest first *)

\* B lists the questions of S about the word of c, one of a type, easiest first.
IsLadder(B, S, c) ==
  /\ B \in Seq(QuestionsOf(c)) /\ ToSet(B) = S
  /\ \A i, j \in 1..Len(B) : i < j <=> LadderIndex(B[i].type) < LadderIndex(B[j].type)

LEMMA EasierFirstSound ==
  ASSUME NEW c, IsLoaded(c.word), NEW S \in SUBSET QuestionsOf(c), IsFiniteSet(S)
  PROVE  IsLadder(EasierFirst(S), S, c)
  <1> DEFINE R == {p \in S \X S : Easier(p[1], p[2])}
             Place(i) == CHOOSE q \in S : Cardinality({r \in S : Easier(r, q)}) = i - 1
             n == Cardinality(S)
  <1>a. PICK B : B = EasierFirst(S)
    OBVIOUS
  <1>1. \A q \in S : q.type \in QuestionTypes /\ LadderIndex(q.type) \in Int /\ TryBuild(q.type, c) = {q}
    BY QuestionsFound, LadderPlaces
  <1>2. \A q, r \in S : LadderIndex(q.type) = LadderIndex(r.type) => q = r
    <2> SUFFICES ASSUME NEW q \in S, NEW r \in S, LadderIndex(q.type) = LadderIndex(r.type) PROVE q = r
      OBVIOUS
    <2>1. q.type = r.type
      BY <1>1, LadderPlaces
    <2> QED
      BY <1>1, <2>1
  <1>3. \A x, y \in S : <<x, y>> \in R <=> LadderIndex(x.type) < LadderIndex(y.type)
    BY DEF Easier
  <1>4. \A x \in S : {y \in S : <<y, x>> \in R} = {y \in S : Easier(y, x)}
    BY <1>3 DEF Easier
  <1>5. ASSUME NEW i \in 1..n, NEW x \in S, Cardinality({y \in S : Easier(y, x)}) = i - 1
        PROVE  Place(i) \in S /\ Cardinality({y \in S : Easier(y, Place(i))}) = i - 1
    BY <1>5, Zenon
  <1>6. B = [i \in 1..n |-> Place(i)]
    BY <1>a DEF EasierFirst
  <1> HIDE DEF R, Place
  <1>7. OrdersAll(R, S)
    <2>1. PICK index : index = [q \in S |-> LadderIndex(q.type)]
      OBVIOUS
    <2>2. /\ \A q \in S : index[q] \in Int
          /\ \A x, y \in S : <<x, y>> \in R <=> index[x] < index[y]
          /\ \A x, y \in S : index[x] = index[y] => x = y
      BY <1>1, <1>2, <1>3, <2>1
    <2>3. \A x \in S : <<x, x>> \notin R
      BY ONLY <2>2
    <2>4. \A x, y, z \in S : <<x, y>> \in R /\ <<y, z>> \in R => <<x, z>> \in R
      BY ONLY <2>2
    <2>5. \A x, y \in S : x # y => <<x, y>> \in R \/ <<y, x>> \in R
      BY ONLY <2>2
    <2> QED
      BY <2>3, <2>4, <2>5 DEF OrdersAll
  <1>8. PlacedBy(B, S, R)
    <2>1. B = [i \in 1..n |-> B[i]] /\ \A i \in 1..n : B[i] = Place(i)
      BY ONLY <1>6
    <2> QED
      BY <1>4, <1>5, <2>1, Zenon DEF PlacedBy
  <1>9. ListedBy(B, S, R)
    BY ONLY IsFiniteSet(S), <1>7, <1>8, RankedLists, Zenon
  <1>10. /\ B \in [1..n -> S] /\ \A x \in S : \E i \in 1..n : B[i] = x
         /\ \A i, j \in 1..n : i < j <=> <<B[i], B[j]>> \in R
    BY <1>9, Zenon DEF ListedBy
  <1>11. n \in Nat
    BY FS_CardinalityType
  <1>12. B \in Seq(S) /\ Len(B) = n /\ DOMAIN B = 1..n
    BY ONLY <1>10, <1>11
  <1>13. B \in Seq(QuestionsOf(c)) /\ ToSet(B) = S
    <2> HIDE DEF n
    <2> QED
      BY <1>10, <1>12 DEF ToSet
  <1>14. \A i, j \in 1..Len(B) : i < j <=> LadderIndex(B[i].type) < LadderIndex(B[j].type)
    <2> HIDE DEF n
    <2> QED
      BY <1>3, <1>10, <1>12
  <1> QED
    BY <1>a, <1>13, <1>14 DEF IsLadder

\* What buildLadder returns, and the loop that found it.
Laddered(B, run, status, order, c) ==
  /\ LadderRun(run, TriedTypes(status, order), c)
  /\ IsLadder(B, ToSet(run[Len(TriedTypes(status, order))]), c)

LEMMA LadderSound ==
  ASSUME NEW c, IsLoaded(c.word), NEW order, IsOrder(order), NEW status
  PROVE  \E run : Laddered(BuildLadder(status, order, c), run, status, order, c)
  <1>1. PICK n : n = Len(TriedTypes(status, order))
    OBVIOUS
  <1>2. n \in Nat
    BY <1>1, TriedListed DEF ListsTypes
  <1>3. PICK run : /\ LadderRun(run, TriedTypes(status, order), c)
                   /\ BuildLadder(status, order, c) = EasierFirst(ToSet(run[n]))
    BY <1>1, LadderRuns
  <1>4. run[n] \in Seq(QuestionsOf(c))
    BY <1>1, <1>2, <1>3 DEF LadderRun
  <1>5. ToSet(run[n]) \in SUBSET QuestionsOf(c) /\ IsFiniteSet(ToSet(run[n]))
    <2>1. PICK L \in Seq(QuestionsOf(c)) : L = run[n]
      BY <1>4
    <2>2. PICK k \in Nat : k = Len(L) /\ DOMAIN L = 1..k
      OBVIOUS
    <2>3. L \in Surjection(1..k, ToSet(L))
      BY <2>2 DEF ToSet, Surjection
    <2>4. IsFiniteSet(1..k)
      BY <2>2, FS_Interval
    <2>5. IsFiniteSet(ToSet(L))
      BY <2>3, <2>4, FS_Surjection
    <2> QED
      BY <2>1, <2>5 DEF ToSet
  <1> QED
    BY <1>1, <1>3, <1>5, EasierFirstSound DEF Laddered

\* The types of a list of questions.
TypesIn(list) == {list[k].type : k \in DOMAIN list}

\* The two lists ask the same types, place by place.
Alike(questions, others) ==
  /\ DOMAIN questions = DOMAIN others
  /\ \A k \in DOMAIN questions : questions[k].type = others[k].type

LEMMA FullOfTypes ==
  ASSUME NEW questions, NEW others, Alike(questions, others), NEW t
  PROVE  Full(questions, t) <=> Full(others, t)
  <1>1. {k \in DOMAIN questions : BandOf(questions[k].type) = BandOf(t) /\ questions[k].type \notin AlwaysInclude} =
        {k \in DOMAIN others : BandOf(others[k].type) = BandOf(t) /\ others[k].type \notin AlwaysInclude}
    BY DEF Alike
  <1>2. {k \in DOMAIN questions : questions[k].type \in ClozeFamily} = {k \in DOMAIN others : others[k].type \in ClozeFamily}
    BY DEF Alike
  <1> QED
    BY <1>1, <1>2 DEF Full, CountIn

\* The data of the two words allows the same types.
SameAble(c, d) == \A t \in QuestionTypes : TryBuild(t, c) = {} <=> TryBuild(t, d) = {}

LEMMA ExtendedAlike ==
  ASSUME NEW c, IsLoaded(c.word), NEW d, IsLoaded(d.word), SameAble(c, d), NEW t \in QuestionTypes,
         NEW questions \in Seq(QuestionsOf(c)), NEW others \in Seq(QuestionsOf(d)), Alike(questions, others)
  PROVE  Alike(Extended(questions, t, c), Extended(others, t, d))
  <1>1. Full(questions, t) <=> Full(others, t)
    BY FullOfTypes
  <1>2. TryBuild(t, c) = {} <=> TryBuild(t, d) = {}
    BY DEF SameAble
  <1>3. CASE Full(questions, t) \/ TryBuild(t, c) = {}
    <2>1. Extended(questions, t, c) = questions
      BY <1>3, ExtendedSound
    <2>2. Extended(others, t, d) = others
      BY <1>1, <1>2, <1>3, ExtendedSound
    <2> QED
      BY <2>1, <2>2
  <1>4. CASE ~(Full(questions, t) \/ TryBuild(t, c) = {})
    <2>1. PICK q \in TryBuild(t, c) : Extended(questions, t, c) = Append(questions, q)
      BY <1>4, ExtendedSound
    <2>2. PICK r \in TryBuild(t, d) : Extended(others, t, d) = Append(others, r)
      BY <1>1, <1>2, <1>4, ExtendedSound
    <2>3. q.type = t /\ r.type = t
      BY <2>1, <2>2, TryBuildSound DEF Built
    <2>4. Len(questions) = Len(others)
      BY DEF Alike
    <2>5. PICK n \in Nat : n = Len(questions)
      OBVIOUS
    <2>6. /\ DOMAIN Append(questions, q) = 1..(n + 1) /\ DOMAIN Append(others, r) = 1..(n + 1)
          /\ \A k \in 1..(n + 1) : Append(questions, q)[k] = IF k = n + 1 THEN q ELSE questions[k]
          /\ \A k \in 1..(n + 1) : Append(others, r)[k] = IF k = n + 1 THEN r ELSE others[k]
      BY <2>4, <2>5
    <2>7. \A k \in 1..n : questions[k].type = others[k].type
      BY <2>5 DEF Alike
    <2>8. \A k \in 1..(n + 1) : k # n + 1 => k \in 1..n
      BY <2>5
    <2>9. Alike(Append(questions, q), Append(others, r))
      BY <2>3, <2>6, <2>7, <2>8 DEF Alike
    <2> QED
      BY <2>1, <2>2, <2>9
  <1> QED
    BY <1>3, <1>4

\* sharedSeed: two words of one stage and the same able types get the same ladder.
LEMMA LaddersAlike ==
  ASSUME NEW c, IsLoaded(c.word), NEW d, IsLoaded(d.word), SameAble(c, d),
         NEW order, IsOrder(order), NEW status
  PROVE  TypesIn(BuildLadder(status, order, c)) = TypesIn(BuildLadder(status, order, d))
  <1>0. PICK types : types = TriedTypes(status, order)
    OBVIOUS
  <1>1. types \in Seq(QuestionTypes)
    BY <1>0, TriedListed DEF ListsTypes
  <1>2. PICK n \in Nat : n = Len(types)
    BY <1>1
  <1>3. PICK run : Laddered(BuildLadder(status, order, c), run, status, order, c)
    BY LadderSound
  <1>4. PICK other : Laddered(BuildLadder(status, order, d), other, status, order, d)
    BY LadderSound
  <1>5. LadderRun(run, types, c) /\ LadderRun(other, types, d)
    BY <1>0, <1>3, <1>4 DEF Laddered
  <1> DEFINE T == {k \in Nat : k <= n => Alike(run[k], other[k])}
  <1>6. 0 \in T
    <2>1. run[0] = <<>> /\ other[0] = <<>>
      BY <1>5 DEF LadderRun
    <2>2. Alike(run[0], other[0])
      BY <2>1 DEF Alike
    <2> QED
      BY <2>2
  <1>7. ASSUME NEW k \in Nat, k \in T PROVE k + 1 \in T
    <2> SUFFICES ASSUME k + 1 <= n PROVE Alike(run[k + 1], other[k + 1])
      OBVIOUS
    <2>1. k + 1 \in 1..n /\ k \in 0..n /\ (k + 1) - 1 = k
      BY <1>2
    <2>2. /\ run[k + 1] = Extended(run[k], types[k + 1], c) /\ run[k] \in Seq(QuestionsOf(c))
          /\ other[k + 1] = Extended(other[k], types[k + 1], d) /\ other[k] \in Seq(QuestionsOf(d))
      BY <1>2, <1>5, <2>1 DEF LadderRun
    <2>3. types[k + 1] \in QuestionTypes
      BY <1>1, <1>2, <2>1
    <2>4. Alike(run[k], other[k])
      BY <1>7, <2>1
    <2> HIDE DEF T
    <2> QED
      BY <2>2, <2>3, <2>4, ExtendedAlike
  <1>8. n \in T
    <2> HIDE DEF T
    <2>1. Nat \subseteq T
      BY <1>6, <1>7, Induct
    <2> QED
      BY <1>2, <2>1
  <1>9. Alike(run[n], other[n])
    BY <1>8
  <1>10. ToSet(BuildLadder(status, order, c)) = ToSet(run[n]) /\ ToSet(BuildLadder(status, order, d)) = ToSet(other[n])
    BY <1>0, <1>2, <1>3, <1>4 DEF Laddered, IsLadder
  <1>11. \A list : TypesIn(list) = {q.type : q \in ToSet(list)}
    BY DEF TypesIn, ToSet
  <1>12. TypesIn(run[n]) = TypesIn(other[n])
    BY <1>9 DEF TypesIn, Alike
  <1> QED
    BY <1>10, <1>11, <1>12

\* A word whose data allows a type of its stage gets a question.
LEMMA LadderNotEmpty ==
  ASSUME NEW c, IsLoaded(c.word), NEW order, IsOrder(order), NEW status,
         NEW t \in EligibleTypesForStatus(status), TryBuild(t, c) # {}
  PROVE  BuildLadder(status, order, c) # <<>>
  <1>0. PICK types : types = TriedTypes(status, order)
    OBVIOUS
  <1>1. types \in Seq(QuestionTypes) /\ \E k \in 1..Len(types) : types[k] = t
    BY <1>0, TriedListed DEF ListsTypes
  <1>2. PICK n \in Nat : n = Len(types)
    BY <1>1
  <1>3. PICK run : Laddered(BuildLadder(status, order, c), run, status, order, c)
    BY LadderSound
  <1>4. LadderRun(run, types, c) /\ ToSet(BuildLadder(status, order, c)) = ToSet(run[n])
    BY <1>0, <1>2, <1>3 DEF Laddered, IsLadder
  <1>5. PICK m \in 1..n : types[m] = t
    BY <1>1, <1>2
  <1>6. ASSUME NEW k \in 1..n
        PROVE  /\ k - 1 \in 0..n /\ run[k - 1] \in Seq(QuestionsOf(c)) /\ types[k] \in QuestionTypes
               /\ run[k] = Extended(run[k - 1], types[k], c)
    <2>1. k - 1 \in 0..n
      BY <1>2
    <2> QED
      BY <1>1, <1>2, <1>4, <2>1 DEF LadderRun
  <1>7. ASSUME NEW k \in 1..n, run[k - 1] # <<>> PROVE run[k] # <<>>
    <2>1. PICK L \in Seq(QuestionsOf(c)) : L = run[k - 1]
      BY <1>6
    <2>2. PICK u \in QuestionTypes : u = types[k]
      BY <1>6
    <2>3. Extended(L, u, c) = L \/ \E q : Extended(L, u, c) = Append(L, q)
      BY ExtendedSound
    <2>4. Extended(L, u, c) # <<>>
      BY <1>7, <2>1, <2>3
    <2> QED
      BY <1>6, <2>1, <2>2, <2>4
  <1>8. run[m] # <<>>
    <2>1. CASE run[m - 1] # <<>>
      BY <1>7, <2>1
    <2>2. CASE run[m - 1] = <<>>
      <3>1. ~Full(<<>>, t)
        <4>1. CountIn(<<>>, LAMBDA u : BandOf(u) = BandOf(t) /\ u \notin AlwaysInclude) = 0
              /\ CountIn(<<>>, LAMBDA u : u \in ClozeFamily) = 0
          BY FS_EmptySet DEF CountIn
        <4>2. ~(0 >= MaxTypesPerBand) /\ ~(0 >= ClozeCap)
          BY QuestionsAssumption
        <4> QED
          BY <4>1, <4>2 DEF Full
      <3>2. PICK q : run[m] = Append(run[m - 1], q)
        <4>1. run[m] = Extended(<<>>, t, c) /\ <<>> \in Seq(QuestionsOf(c)) /\ t \in QuestionTypes
          BY <1>5, <1>6, <2>2
        <4>2. \E q \in TryBuild(t, c) : Extended(<<>>, t, c) = Append(<<>>, q)
          BY <3>1, <4>1, ExtendedSound
        <4> QED
          BY <2>2, <4>1, <4>2
      <3> QED
        BY <1>6, <2>2, <3>2
    <2> QED
      BY <2>1, <2>2
  <1> DEFINE T == {k \in Nat : m <= k /\ k <= n => run[k] # <<>>}
  <1>9. 0 \in T
    BY <1>2
  <1>10. ASSUME NEW k \in Nat, k \in T PROVE k + 1 \in T
    <2> SUFFICES ASSUME m <= k + 1, k + 1 <= n PROVE run[k + 1] # <<>>
      OBVIOUS
    <2>1. CASE k + 1 = m
      BY <1>8, <2>1
    <2>2. CASE k + 1 # m
      <3>1. m <= k /\ k <= n /\ k + 1 \in 1..n /\ (k + 1) - 1 = k
        BY <1>2, <2>2
      <3> QED
        BY <1>7, <1>10, <3>1
    <2> QED
      BY <2>1, <2>2
  <1>11. run[n] # <<>>
    <2>1. n \in T
      <3> HIDE DEF T
      <3> QED
        BY <1>9, <1>10, Induct
    <2> QED
      BY <1>2, <2>1
  <1>12. run[n] \in Seq(QuestionsOf(c))
    BY <1>2, <1>4 DEF LadderRun
  <1>13. ToSet(run[n]) # {}
    <2>1. 1 \in DOMAIN run[n]
      BY <1>11, <1>12
    <2> QED
      BY <2>1 DEF ToSet
  <1> QED
    BY <1>4, <1>13 DEF ToSet

-----------------------------------------------------------------------------
(* What a query returns, and grading *)

\* word is what a query may return for the row.
Loaded(word, row) ==
  /\ word.lemma = row.lemma /\ word.pos = row.pos
  /\ DOMAIN word.senses = DOMAIN row.senses /\ word.senses \in Seq(ToSet(word.senses))
  /\ \A i \in DOMAIN row.senses :
       /\ word.senses[i].examples \in Seq(row.senses[i].examples)
       /\ ToSet(word.senses[i].examples) = row.senses[i].examples
       /\ word.senses[i].translations \in Seq(row.senses[i].translations)
       /\ ToSet(word.senses[i].translations) = row.senses[i].translations

LEMMA OneOfTheListings ==
  ASSUME NEW S, IsFiniteSet(S), NEW f \in SetToSeqs(S)
  PROVE  f \in Seq(S) /\ ToSet(f) = S
  <1>1. PICK n \in Nat : n = Cardinality(S)
    BY FS_CardinalityType
  <1>2. f \in [1..n -> S] /\ IsInjective(f)
    BY <1>1 DEF SetToSeqs, IsInjective
  <1>3. f \in Seq(S) /\ DOMAIN f = 1..n
    BY <1>2
  <1>4. Cardinality(1..n) = n
    BY FS_Interval
  <1>5. f \in Injection(1..n, S)
    BY <1>2 DEF Injection
  <1>6. f \in Surjection(1..n, S)
    BY <1>1, <1>4, <1>5, FS_Injection
  <1> QED
    BY <1>2, <1>3, <1>6 DEF ToSet, Surjection

LEMMA LoadsSound ==
  ASSUME NEW row, WellFormedRow(row), NEW word \in Loads(row)
  PROVE  Loaded(word, row)
  <1>1. PICK ss : /\ word = [row EXCEPT !.senses = ss]
                  /\ DOMAIN ss = DOMAIN row.senses /\ \A i \in DOMAIN row.senses : ss[i] \in LoadedSenses(row.senses[i])
                  /\ ss = [i \in DOMAIN row.senses |-> ss[i]]
    BY DEF Loads
  <1>2. word.senses = ss /\ word.lemma = row.lemma /\ word.pos = row.pos
    BY <1>1 DEF WellFormedRow
  <1>3. PICK n \in Nat : DOMAIN row.senses = 1..n
    BY DEF WellFormedRow
  <1>4. ss \in Seq(ToSet(ss))
    BY <1>1, <1>3 DEF ToSet
  <1>5. ASSUME NEW i \in DOMAIN row.senses
        PROVE  /\ ss[i].examples \in Seq(row.senses[i].examples) /\ ToSet(ss[i].examples) = row.senses[i].examples
               /\ ss[i].translations \in Seq(row.senses[i].translations)
               /\ ToSet(ss[i].translations) = row.senses[i].translations
    <2>1. PICK sense : sense = row.senses[i]
      OBVIOUS
    <2>2. DOMAIN sense = {"id", "image", "examples", "translations"} /\ IsFiniteSet(sense.examples) /\ IsFiniteSet(sense.translations)
      BY <1>5, <2>1 DEF WellFormedRow, ToSet
    <2>3. PICK es \in SetToSeqs(sense.examples), ts \in SetToSeqs(sense.translations) :
            ss[i] = [sense EXCEPT !.examples = es, !.translations = ts]
      <3> DEFINE Listed(es, ts) == [sense EXCEPT !.examples = es, !.translations = ts]
      <3>1. ss[i] \in LoadedSenses(sense)
        BY <1>1, <2>1
      <3>2. LoadedSenses(sense) = {Listed(es, ts) : es \in SetToSeqs(sense.examples), ts \in SetToSeqs(sense.translations)}
        BY DEF LoadedSenses
      <3>3. PICK es \in SetToSeqs(sense.examples), ts \in SetToSeqs(sense.translations) : ss[i] = Listed(es, ts)
        <4> HIDE DEF Listed
        <4> QED
          BY <3>1, <3>2
      <3> QED
        BY <3>3
    <2>4. ss[i].examples = es /\ ss[i].translations = ts
      BY <2>2, <2>3
    <2> QED
      BY <2>1, <2>2, <2>4, OneOfTheListings
  <1> QED
    BY <1>1, <1>2, <1>4, <1>5 DEF Loaded

LEMMA LoadedIsLoaded == ASSUME NEW word, NEW row, Loaded(word, row) PROVE IsLoaded(word)
  <1> SUFFICES ASSUME NEW sense \in ToSet(word.senses) PROVE sense.examples \in Seq(ToSet(sense.examples))
    BY DEF Loaded, IsLoaded
  <1>1. PICK i \in DOMAIN row.senses : sense = word.senses[i]
    BY DEF Loaded, ToSet
  <1> QED
    BY <1>1, ElementsListed DEF Loaded

\* The form that is blanked depends on the row only.
LEMMA BlankedAlike ==
  ASSUME NEW word, NEW other, word.lemma = other.lemma, word.pos = other.pos, NEW sentence
  PROVE  BlankedForm(word, sentence) = BlankedForm(other, sentence)
  <1>1. ExpandForms(word) = ExpandForms(other)
    BY DEF ExpandForms
  <1> QED
    BY <1>1 DEF BlankedForm, FirstSuch

\* The grader finds the sense and the sentence of the example that was shown.
LEMMA SenseFound ==
  ASSUME NEW row, WellFormedRow(row), NEW word, Loaded(word, row),
         NEW i \in DOMAIN row.senses, NEW e \in row.senses[i].examples
  PROVE  SenseOf(word, e.id) = word.senses[i] /\ SentenceOf(word, e.id) = e.sentence
  <1>1. \A j \in DOMAIN word.senses : (\E f \in ToSet(word.senses[j].examples) : f.id = e.id) <=> j = i
    BY DEF WellFormedRow, Loaded
  <1>2. SenseOf(word, e.id) = word.senses[i]
    <2>1. i \in DOMAIN word.senses
      BY DEF Loaded
    <2> QED
      BY <1>1, <2>1 DEF SenseOf
  <1>3. \A f \in ToSet(word.senses[i].examples) : f.id = e.id <=> f = e
    BY DEF WellFormedRow, Loaded
  <1>4. e \in ToSet(word.senses[i].examples)
    BY DEF Loaded
  <1> QED
    BY <1>2, <1>3, <1>4 DEF SentenceOf

LEMMA OneTranslation ==
  ASSUME NEW S, NEW f \in Seq(S), ToSet(f) = S, NEW g \in Seq(S), ToSet(g) = S, ~(Len(g) > 1)
  PROVE  (f = <<>> <=> g = <<>>) /\ (f # <<>> => Head(f) = Head(g))
  <1>1. CASE g = <<>>
    <2>1. S = {}
      BY <1>1 DEF ToSet
    <2>2. f = <<>>
      BY <2>1
    <2> QED
      BY <1>1, <2>2
  <1>2. CASE g # <<>>
    <2>1. Len(g) = 1 /\ DOMAIN g = {1}
      <3>1. PICK n \in Nat : n = Len(g) /\ DOMAIN g = 1..n
        OBVIOUS
      <3>2. n # 0 /\ ~(n > 1)
        BY <1>2, <3>1, EmptySeq
      <3>3. n = 1
        BY <3>1, <3>2
      <3> QED
        BY <3>1, <3>3
    <2>2. S = {g[1]}
      BY <2>1 DEF ToSet
    <2>3. f # <<>>
      <3>1. PICK k \in DOMAIN f : f[k] = g[1]
        BY <2>2 DEF ToSet
      <3> QED
        BY <3>1
    <2>4. f[1] \in S /\ Head(f) = f[1] /\ Head(g) = g[1]
      BY <1>2, <2>3
    <2> QED
      BY <1>2, <2>2, <2>3, <2>4
  <1> QED
    BY <1>1, <1>2

\* What the question promised is what the grader derives, however the rows came.
LEMMA GradedAsBuilt ==
  ASSUME NEW row, WellFormedRow(row), NEW c, Loaded(c.word, row), NEW t \in QuestionTypes, NEW q, Promise(t, c, q),
         t # "flashcard", NEW word, Loaded(word, row),
         ~(t \in MeaningTypes /\ Len(SenseOf(word, q.example).translations) > 1)
  PROVE  q.right = CorrectAnswer(t, word, q.example, c.lang)
  <1>1. PICK i \in DOMAIN row.senses : \E e \in row.senses[i].examples :
          /\ q.example = e.id
          /\ t \in ClozeFamily => q.right = BlankedForm(c.word, e.sentence) /\ q.right # NoText
          /\ t \in MeaningTypes => c.lang /\ q.right = FirstTranslation(c.word.senses[i])
          /\ t \notin ClozeFamily \cup MeaningTypes => q.right = Plain(c.word.lemma)
    <2>1. PICK sense \in ToSet(c.word.senses) : \E e \in ToSet(sense.examples) :
            /\ q.example = e.id
            /\ t \in ClozeFamily => q.right = BlankedForm(c.word, e.sentence) /\ q.right # NoText
            /\ t \in MeaningTypes => c.lang /\ q.right = FirstTranslation(sense)
            /\ t \notin ClozeFamily \cup MeaningTypes => q.right = Plain(c.word.lemma)
      BY DEF Promise
    <2>2. PICK i \in DOMAIN row.senses : sense = c.word.senses[i]
      BY DEF Loaded, ToSet
    <2>3. ToSet(sense.examples) = row.senses[i].examples
      BY <2>2 DEF Loaded
    <2> QED
      BY <2>1, <2>2, <2>3
  <1>2. PICK e \in row.senses[i].examples :
          /\ q.example = e.id
          /\ t \in ClozeFamily => q.right = BlankedForm(c.word, e.sentence) /\ q.right # NoText
          /\ t \in MeaningTypes => c.lang /\ q.right = FirstTranslation(c.word.senses[i])
          /\ t \notin ClozeFamily \cup MeaningTypes => q.right = Plain(c.word.lemma)
    BY <1>1
  <1>3. SenseOf(word, q.example) = word.senses[i] /\ SentenceOf(word, q.example) = e.sentence
    BY <1>2, SenseFound
  <1>4. word.lemma = c.word.lemma /\ word.pos = c.word.pos
    BY DEF Loaded
  <1>5. CASE t \in ClozeFamily
    <2>1. BlankedForm(word, e.sentence) = BlankedForm(c.word, e.sentence)
      BY <1>4, BlankedAlike
    <2>2. PICK form : form = BlankedForm(word, SentenceOf(word, q.example))
      OBVIOUS
    <2>3. CorrectAnswer(t, word, q.example, c.lang) = IF form = NoText THEN Plain(word.lemma) ELSE form
      <3>1. t \notin MeaningTypes
        BY <1>5 DEF ClozeFamily, MeaningTypes
      <3> QED
        BY <1>5, <2>2, <3>1 DEF CorrectAnswer
    <2>4. form = q.right /\ form # NoText
      BY <1>2, <1>3, <1>5, <2>1, <2>2
    <2> QED
      BY <2>3, <2>4
  <1>6. CASE t \in MeaningTypes
    <2>1. PICK f, g : f = c.word.senses[i].translations /\ g = word.senses[i].translations
      OBVIOUS
    <2>2. ~(Len(g) > 1)
      BY <1>3, <1>6, <2>1
    <2>3. (f = <<>> <=> g = <<>>) /\ (f # <<>> => Head(f) = Head(g))
      BY SMTT(30), <2>1, <2>2, OneTranslation DEF Loaded
    <2>4. FirstTranslation(c.word.senses[i]) = FirstTranslation(word.senses[i])
      BY <2>1, <2>3 DEF FirstTranslation
    <2>5. t \notin ClozeFamily
      BY <1>6 DEF ClozeFamily, MeaningTypes
    <2> QED
      BY <1>2, <1>3, <1>6, <2>4, <2>5 DEF CorrectAnswer
  <1>7. CASE t \notin ClozeFamily \cup MeaningTypes
    BY <1>2, <1>4, <1>7 DEF CorrectAnswer
  <1> QED
    BY <1>5, <1>6, <1>7

-----------------------------------------------------------------------------
(* Items and rounds *)

LEMMA CatalogRow ==
  ASSUME NEW w \in Words, NEW v \in 1..Len(Versions[w])
  PROVE  WellFormedRow(Versions[w][v])
  <1>1. Versions[w] \in Seq(Range(Versions[w])) /\ \A row \in Range(Versions[w]) : WellFormedRow(row)
    BY CatalogAssumption
  <1>2. PICK rows \in Seq(Range(Versions[w])) : rows = Versions[w]
    BY <1>1
  <1>3. rows[v] \in Range(Versions[w])
    BY <1>2
  <1> QED
    BY <1>1, <1>2, <1>3

LEMMA OrdersSound == \A order \in Orders : IsOrder(order)
  <1> SUFFICES ASSUME NEW order \in Orders PROVE IsOrder(order)
    OBVIOUS
  <1>1. order \in Seq(QuestionTypes \ AlwaysInclude) /\ Range(order) = QuestionTypes \ AlwaysInclude
    BY CatalogAssumption
  <1>2. order \in Seq(QuestionTypes)
    BY <1>1
  <1> QED
    BY <1>1, <1>2 DEF IsOrder

\* An item is one step of the ladder.
ItemAt(i, k, g, w, v, lang, questions) ==
  /\ i.word = w /\ i.group = g /\ i.type = questions[k].type /\ i.example = questions[k].example
  /\ i.right = questions[k].right /\ i.lang = lang /\ i.step = k - 1 /\ i.count = Len(questions)
  /\ i.at = clock /\ i.version = v

LEMMA StepsOfLadder ==
  ASSUME NEW g, NEW w, NEW v, NEW lang, NEW S, NEW questions \in Seq(S), NEW items,
         items = AssembleLessonItems(g, w, v, lang, questions)
  PROVE  /\ \A i \in items : \E k \in 1..Len(questions) : ItemAt(i, k, g, w, v, lang, questions)
         /\ \A k \in 1..Len(questions) : \E i \in items : ItemAt(i, k, g, w, v, lang, questions)
  <1> DEFINE Item(k) ==
        [word |-> w, group |-> g, type |-> questions[k].type, example |-> questions[k].example,
         right |-> questions[k].right, options |-> questions[k].options, lang |-> lang,
         step |-> k - 1, count |-> Len(questions), at |-> clock, version |-> v]
  <1>1. DOMAIN questions = 1..Len(questions)
    OBVIOUS
  <1>2. items = {Item(k) : k \in 1..Len(questions)}
    BY <1>1 DEF AssembleLessonItems
  <1>3. \A k \in 1..Len(questions) : ItemAt(Item(k), k, g, w, v, lang, questions)
    BY DEF ItemAt
  <1> HIDE DEF Item
  <1> QED
    BY <1>2, <1>3

\* What an item signs, next to the row it was built from.
AskedOf(i) == Versions[i.word][i.version]
GoodItem(i) ==
  /\ i.word \in Words /\ i.type \in QuestionTypes /\ i.step \in 0..(i.count - 1)
  /\ i.version \in 1..Len(Versions[i.word])
  /\ \A word : Loaded(word, AskedOf(i)) /\ i.type # "flashcard" /\ ~Ambiguous(i, word) =>
       i.right = CorrectAnswer(i.type, word, i.example, i.lang)

LEMMA ItemsGood ==
  ASSUME NEW w \in Words, NEW v \in 1..Len(Versions[w]), NEW word, Loaded(word, Versions[w][v]),
         NEW lang, NEW order \in Orders, NEW status, NEW g,
         NEW i \in AssembleLessonItems(g, w, v, lang, BuildLadder(status, order, Context(w, word, lang)))
  PROVE  GoodItem(i)
  <1>1. PICK c : c = Context(w, word, lang)
    OBVIOUS
  <1>2. c.word = word /\ c.lang = lang /\ IsLoaded(c.word)
    BY <1>1, LoadedIsLoaded DEF Context
  <1>3. PICK B : B = BuildLadder(status, order, c)
    OBVIOUS
  <1>4. B \in Seq(QuestionsOf(c))
    BY <1>2, <1>3, LadderSound, OrdersSound DEF Laddered, IsLadder
  <1>5. PICK k \in 1..Len(B) : ItemAt(i, k, g, w, v, lang, B)
    BY <1>1, <1>3, <1>4, StepsOfLadder
  <1>6. PICK q \in QuestionsOf(c) : q = B[k]
    BY <1>4
  <1>7. q.type \in QuestionTypes /\ Promise(q.type, c, q)
    BY <1>2, QuestionsFound
  <1>8. Len(B) \in Nat /\ k \in Nat /\ 1 <= k /\ k <= Len(B)
    BY <1>4
  <1>9. /\ i.word = w /\ i.type = q.type /\ i.example = q.example /\ i.right = q.right /\ i.lang = lang
        /\ i.step = k - 1 /\ i.count = Len(B) /\ i.version = v
    BY <1>5, <1>6 DEF ItemAt
  <1>10. i.step \in 0..(i.count - 1)
    BY <1>8, <1>9
  <1>11. WellFormedRow(Versions[w][v])
    BY CatalogRow
  <1>12. ASSUME NEW other, Loaded(other, Versions[w][v]), i.type # "flashcard", ~Ambiguous(i, other)
         PROVE  i.right = CorrectAnswer(i.type, other, i.example, i.lang)
    <2>1. ~(q.type \in MeaningTypes /\ Len(SenseOf(other, q.example).translations) > 1)
      BY <1>9, <1>12 DEF Ambiguous
    <2>2. q.right = CorrectAnswer(q.type, other, q.example, c.lang)
      BY <1>2, <1>7, <1>9, <1>11, <1>12, <2>1, GradedAsBuilt
    <2> QED
      BY <1>2, <1>9, <2>2
  <1> QED
    BY <1>7, <1>9, <1>10, <1>12 DEF GoodItem, AskedOf

\* The rounds hold the items, one type each, easiest first.
IsRounds(rounds, items) ==
  /\ UNION Range(rounds) = items
  /\ rounds = <<>> <=> items = {}
  /\ \A r, q \in DOMAIN rounds : \A i \in rounds[r], j \in rounds[q] :
       r < q <=> LadderIndex(i.type) < LadderIndex(j.type)

LEMMA RoundsSound ==
  ASSUME NEW items, \A i \in items : i.type \in QuestionTypes
  PROVE  IsRounds(ToTypeMajorRounds(items), items)
  <1>1. PICK list : list = [k \in DOMAIN LADDER |-> LADDER[k].type]
    OBVIOUS
  <1>2. list \in Seq(QuestionTypes) /\ DOMAIN list = 1..12 /\ \A k \in 1..12 : LadderIndex(list[k]) = k
    BY <1>1, LadderPlaces
  <1>3. PICK I : I = {k \in DOMAIN list : list[k] \in {i.type : i \in items}}
    OBVIOUS
  <1>4. PICK types : types = TakenAt(list, I)
    OBVIOUS
  <1>5. PICK rounds : rounds = [r \in DOMAIN types |-> {i \in items : i.type = types[r]}]
    OBVIOUS
  <1>6. ToTypeMajorRounds(items) = rounds
    BY <1>1, <1>3, <1>4, <1>5 DEF ToTypeMajorRounds, Filtered, Ranked, TakenAt, Ascending
  <1>7. I \in SUBSET DOMAIN list
    BY <1>3
  <1>8. PICK places : PlacesTaken(places, types, list, I, QuestionTypes)
    BY <1>2, <1>4, <1>7, FilteredPlaces
  <1>9. PICK n \in Nat : n = Cardinality(I) /\ DOMAIN types = 1..n
    BY <1>8 DEF PlacesTaken
  <1>10. \A r \in 1..n : places[r] \in I /\ types[r] = list[places[r]]
    BY <1>8, <1>9 DEF PlacesTaken
  <1>11. \A r, q \in 1..n : r < q <=> places[r] < places[q]
    BY <1>8, <1>9 DEF PlacesTaken, Ascends
  <1>12. \A k \in I : \E r \in 1..n : places[r] = k
    BY <1>8, <1>9 DEF PlacesTaken
  <1>13. \A r \in 1..n : LadderIndex(types[r]) = places[r]
    BY <1>2, <1>7, <1>10
  <1>14. DOMAIN rounds = 1..n /\ \A r \in 1..n : rounds[r] = {i \in items : i.type = types[r]}
    BY <1>5, <1>9
  <1>15. ASSUME NEW i \in items PROVE \E r \in 1..n : i \in rounds[r]
    <2>1. PICK k \in 1..12 : list[k] = i.type
      BY <1>1, LadderPlaces
    <2>2. k \in I
      BY <1>2, <1>3, <2>1
    <2>3. PICK r \in 1..n : places[r] = k
      BY <1>12, <2>2
    <2> QED
      BY <1>10, <1>14, <2>1, <2>3
  <1>16. UNION Range(rounds) = items
    BY <1>14, <1>15 DEF Range
  <1>17. rounds = <<>> <=> items = {}
    <2>1. ASSUME items = {} PROVE rounds = <<>>
      <3>1. I = {}
        BY <1>3, <2>1
      <3>2. n = 0
        BY <1>9, <3>1, FS_EmptySet
      <3> QED
        BY <1>5, <1>9, <3>2
    <2>2. ASSUME items # {} PROVE rounds # <<>>
      <3>1. PICK i \in items : TRUE
        BY <2>2
      <3>2. PICK r \in 1..n : i \in rounds[r]
        BY <1>15
      <3> QED
        BY <1>14, <3>2
    <2> QED
      BY <2>1, <2>2
  <1>18. ASSUME NEW r \in DOMAIN rounds, NEW q \in DOMAIN rounds, NEW i \in rounds[r], NEW j \in rounds[q]
         PROVE  r < q <=> LadderIndex(i.type) < LadderIndex(j.type)
    <2>1. i.type = types[r] /\ j.type = types[q] /\ r \in 1..n /\ q \in 1..n
      BY <1>14
    <2> QED
      BY <1>11, <1>13, <2>1
  <1> QED
    BY <1>6, <1>16, <1>17, <1>18 DEF IsRounds

-----------------------------------------------------------------------------
(* What a session answers *)

ItemsIn(r, w) == {i \in UNION Range(r.rounds) : i.word = w}

InOrder(r) ==
  /\ \A k, l \in DOMAIN r.rounds : \A i \in r.rounds[k], j \in r.rounds[l] :
       i.word = j.word => (i.step < j.step <=> k < l)
  /\ \A w \in Words : \A i \in ItemsIn(r, w) : {j.step : j \in ItemsIn(r, w)} = 0..(i.count - 1)
SameAsked(r) ==
  \A v, w \in DOMAIN r.able :
    r.statuses[v] = r.statuses[w] /\ r.able[v] = r.able[w] => Types(ItemsIn(r, v)) = Types(ItemsIn(r, w))
NoneLeftOut(r) ==
  \A w \in DOMAIN r.able :
    /\ r.able[w] \cap EligibleTypesForStatus(r.statuses[w]) # {} => ItemsIn(r, w) # {}
    /\ r.statuses[w] # "mastered" /\ "flashcard" \in r.able[w] => ItemsIn(r, w) # {}
SaysWhy(r) == r.pc = "built" => (r.rounds = <<>> <=> r.reason # "none")

LEMMA NothingAsked ==
  ASSUME NEW r, r.rounds = <<>>, r.able = <<>>
  PROVE  InOrder(r) /\ SameAsked(r) /\ NoneLeftOut(r) /\ UNION Range(r.rounds) = {}
  <1>1. UNION Range(r.rounds) = {}
    BY DEF Range
  <1> QED
    BY <1>1 DEF InOrder, SameAsked, NoneLeftOut, ItemsIn

\* A type is able when a question of it can be built.
LEMMA AbleTypes == \A c : Able(c) = {t \in QuestionTypes : TryBuild(t, c) # {}}
  <1> TAKE c
  <1>1. Able(c) = {LADDER[k].type : k \in {j \in 1..12 : TryBuild(LADDER[j].type, c) # {}}}
    BY LadderPlaces DEF Able
  <1>2. QuestionTypes = {LADDER[k].type : k \in 1..12}
    BY LadderPlaces DEF QuestionTypes
  <1> QED
    BY <1>1, <1>2

\* Of a word that is not mastered a question can be asked when it has an example.
LEMMA ExampleSuffices ==
  ASSUME NEW c, NEW status \in Statuses, status # "mastered", "flashcard" \in Able(c)
  PROVE  "pronunciation" \in Able(c) \cap EligibleTypesForStatus(status)
  <1>1. TryBuild("flashcard", c) # {}
    BY AbleTypes
  <1>2. TryBuild("flashcard", c) = Typed("flashcard", FirstExample(c.word), NoText)
    BY DEF TryBuild, BuildFlashcard
  <1>3. TryBuild("pronunciation", c) = Typed("pronunciation", FirstExample(c.word), Plain(c.word.lemma))
    BY DEF TryBuild, BuildPronunciation
  <1>4. TryBuild("pronunciation", c) # {}
    BY <1>1, <1>2, <1>3 DEF Typed
  <1>5. MinBandForStatus(status) \in {NewBand, ReviewBand}
    BY DEF MinBandForStatus, Statuses
  <1>6. LADDER[11].type = "pronunciation" /\ LADDER[11].band = ReviewBand /\ 11 \in DOMAIN LADDER
    BY DEF LADDER
  <1>7. "pronunciation" \in EligibleTypesForStatus(status)
    <2>1. LADDER[11].band >= MinBandForStatus(status)
      BY <1>5, <1>6 DEF NewBand, ReviewBand
    <2> QED
      BY <1>6, <2>1 DEF EligibleTypesForStatus
  <1> QED
    BY <1>4, <1>7, AbleTypes, Bands

\* The ladder of each picked word, from the row the query returned for it.
PickedLadders(ladder, context, picked, order) ==
  \A w \in picked :
    /\ w \in Words /\ Present(w) /\ version[w] \in 1..Len(Versions[w]) /\ StatusOf(w) \in Statuses
    /\ IsLoaded(context[w].word)
    /\ ladder[w] = BuildLadder(StatusOf(w), order, context[w])

\* The items of the picked words, and what the session keeps of them.
SessionOf(r, items, s, lang, ladder, context, picked) ==
  /\ items = UNION {AssembleLessonItems(<<s, w>>, w, version[w], lang, ladder[w]) : w \in picked}
  /\ IsRounds(r.rounds, items)
  /\ r.able = [w \in picked |-> Able(context[w])] /\ r.statuses = [w \in picked |-> StatusOf(w)]

LEMMA SessionBuilt ==
  ASSUME NEW s, NEW picked, NEW lang, NEW order \in Orders, NEW context, NEW ladder,
         PickedLadders(ladder, context, picked, order), NEW items, NEW r,
         SessionOf(r, items, s, lang, ladder, context, picked)
  PROVE  InOrder(r) /\ SameAsked(r) /\ NoneLeftOut(r)
  <1> USE DEF SessionOf
  <1>1. IsOrder(order)
    BY OrdersSound
  <1>2. ASSUME NEW w \in picked
        PROVE  /\ ladder[w] \in Seq(QuestionsOf(context[w]))
               /\ \A k, l \in 1..Len(ladder[w]) :
                    k < l <=> LadderIndex(ladder[w][k].type) < LadderIndex(ladder[w][l].type)
    <2>1. IsLoaded(context[w].word) /\ ladder[w] = BuildLadder(StatusOf(w), order, context[w])
      BY DEF PickedLadders
    <2>2. PICK run : Laddered(ladder[w], run, StatusOf(w), order, context[w])
      BY <1>1, <2>1, LadderSound
    <2> QED
      BY <2>2 DEF Laddered, IsLadder
  <1> DEFINE Step(i, k, w) == ItemAt(i, k, <<s, w>>, w, version[w], lang, ladder[w])
             Mine(w) == AssembleLessonItems(<<s, w>>, w, version[w], lang, ladder[w])
  <1>3. ASSUME NEW w \in picked
        PROVE  /\ \A i \in Mine(w) : \E k \in 1..Len(ladder[w]) : Step(i, k, w)
               /\ \A k \in 1..Len(ladder[w]) : \E i \in Mine(w) : Step(i, k, w)
    BY <1>2, StepsOfLadder
  <1>4. \A i, k, w : Step(i, k, w) => /\ i.word = w /\ i.type = ladder[w][k].type
                                      /\ i.step = k - 1 /\ i.count = Len(ladder[w])
    BY DEF ItemAt
  <1>5. items = UNION {Mine(w) : w \in picked}
    OBVIOUS
  <1>6. UNION Range(r.rounds) = items
    BY DEF IsRounds
  <1> HIDE DEF Step, Mine
  <1>a. \A w \in picked : \A i \in Mine(w) : i.word = w /\ \E k \in 1..Len(ladder[w]) : Step(i, k, w)
    <2> SUFFICES ASSUME NEW w \in picked, NEW i \in Mine(w)
                 PROVE  i.word = w /\ \E k \in 1..Len(ladder[w]) : Step(i, k, w)
      OBVIOUS
    <2>1. PICK k \in 1..Len(ladder[w]) : Step(i, k, w)
      BY <1>3
    <2> QED
      BY <1>4, <2>1
  <1>7. \A w \in picked : ItemsIn(r, w) = Mine(w)
    <2> SUFFICES ASSUME NEW w \in picked PROVE \A i : i \in ItemsIn(r, w) <=> i \in Mine(w)
      OBVIOUS
    <2>1. \A i : i \in ItemsIn(r, w) <=> i \in items /\ i.word = w
      BY <1>6 DEF ItemsIn
    <2>2. \A i \in Mine(w) : i \in items /\ i.word = w
      BY <1>5, <1>a
    <2>3. ASSUME NEW i \in items, i.word = w PROVE i \in Mine(w)
      <3>1. PICK v \in picked : i \in Mine(v)
        BY <1>5
      <3> QED
        BY <1>a, <2>3, <3>1
    <2> QED
      BY <2>1, <2>2, <2>3
  <1>8. ASSUME NEW i \in items
        PROVE  /\ i.word \in picked /\ i \in Mine(i.word)
               /\ \E k \in 1..Len(ladder[i.word]) : Step(i, k, i.word)
    <2>1. PICK w \in picked : i \in Mine(w)
      BY <1>5
    <2> QED
      BY <1>a, <2>1
  <1>9. InOrder(r)
    <2>1. ASSUME NEW k \in DOMAIN r.rounds, NEW l \in DOMAIN r.rounds,
                 NEW i \in r.rounds[k], NEW j \in r.rounds[l], i.word = j.word
          PROVE  i.step < j.step <=> k < l
      <3>1. i \in items /\ j \in items
        BY <1>6 DEF Range
      <3>2. PICK w \in picked : w = i.word /\ w = j.word
        BY <1>8, <2>1, <3>1
      <3>3. PICK m \in 1..Len(ladder[w]) : Step(i, m, w)
        BY <1>8, <3>1, <3>2
      <3>4. PICK n \in 1..Len(ladder[w]) : Step(j, n, w)
        BY <1>8, <3>1, <3>2
      <3>5. Len(ladder[w]) \in Nat
        BY <1>2
      <3>6. i.step = m - 1 /\ j.step = n - 1 /\ i.type = ladder[w][m].type /\ j.type = ladder[w][n].type
        BY <1>4, <3>3, <3>4
      <3>7. m < n <=> LadderIndex(i.type) < LadderIndex(j.type)
        BY <1>2, <3>6
      <3>8. k < l <=> LadderIndex(i.type) < LadderIndex(j.type)
        BY DEF IsRounds
      <3>9. i.step < j.step <=> m < n
        BY <3>5, <3>6
      <3> QED
        BY <3>7, <3>8, <3>9
    <2>2. ASSUME NEW w \in Words, NEW i \in ItemsIn(r, w)
          PROVE  {j.step : j \in ItemsIn(r, w)} = 0..(i.count - 1)
      <3>1. w \in picked /\ i \in items
        BY <1>6, <1>8 DEF ItemsIn
      <3>2. PICK n \in Nat : n = Len(ladder[w])
        BY <1>2, <3>1
      <3>3. ItemsIn(r, w) = Mine(w) /\ i.count = n
        BY <1>3, <1>4, <1>7, <3>1, <3>2
      <3>4. \A j \in Mine(w) : \E k \in 1..n : j.step = k - 1
        BY <1>3, <1>4, <3>1, <3>2
      <3>5. \A k \in 1..n : \E j \in Mine(w) : j.step = k - 1
        BY <1>3, <1>4, <3>1, <3>2
      <3>6. \A k \in 1..n : k - 1 \in 0..(n - 1)
        BY <3>2
      <3>7. \A k \in 0..(n - 1) : k + 1 \in 1..n /\ (k + 1) - 1 = k
        BY <3>2
      <3> QED
        BY <3>3, <3>4, <3>5, <3>6, <3>7
    <2> QED
      BY <2>1, <2>2 DEF InOrder
  <1>10. \A w \in picked : Types(ItemsIn(r, w)) = TypesIn(ladder[w])
    <2> SUFFICES ASSUME NEW w \in picked PROVE Types(Mine(w)) = TypesIn(ladder[w])
      BY <1>7
    <2>1. DOMAIN ladder[w] = 1..Len(ladder[w])
      BY <1>2
    <2>2. ASSUME NEW i \in Mine(w) PROVE \E k \in 1..Len(ladder[w]) : i.type = ladder[w][k].type
      BY <1>a, <1>4
    <2>3. ASSUME NEW k \in 1..Len(ladder[w]) PROVE \E i \in Mine(w) : i.type = ladder[w][k].type
      BY <1>3, <1>4
    <2> QED
      <3>1. Types(Mine(w)) = {i.type : i \in Mine(w)} /\ TypesIn(ladder[w]) = {ladder[w][k].type : k \in 1..Len(ladder[w])}
        BY <2>1 DEF Types, TypesIn
      <3> QED
        BY <2>2, <2>3, <3>1
  <1>11. SameAsked(r)
    <2> SUFFICES ASSUME NEW v \in picked, NEW w \in picked, StatusOf(v) = StatusOf(w),
                        Able(context[v]) = Able(context[w])
                 PROVE  TypesIn(ladder[v]) = TypesIn(ladder[w])
      BY <1>10 DEF SameAsked
    <2>1. SameAble(context[v], context[w])
      BY AbleTypes DEF SameAble
    <2>2. /\ IsLoaded(context[v].word) /\ IsLoaded(context[w].word)
          /\ ladder[v] = BuildLadder(StatusOf(w), order, context[v])
          /\ ladder[w] = BuildLadder(StatusOf(w), order, context[w])
      BY DEF PickedLadders
    <2> QED
      BY <1>1, <2>1, <2>2, LaddersAlike
  <1>12. NoneLeftOut(r)
    <2>1. ASSUME NEW w \in picked, Able(context[w]) \cap EligibleTypesForStatus(StatusOf(w)) # {}
          PROVE  ItemsIn(r, w) # {}
      <3>1. PICK t \in EligibleTypesForStatus(StatusOf(w)) : TryBuild(t, context[w]) # {}
        BY <2>1, AbleTypes
      <3>2. ladder[w] # <<>>
        <4>1. IsLoaded(context[w].word) /\ ladder[w] = BuildLadder(StatusOf(w), order, context[w])
          BY DEF PickedLadders
        <4>2. BuildLadder(StatusOf(w), order, context[w]) # <<>>
          BY <1>1, <3>1, <4>1, LadderNotEmpty
        <4> QED
          BY <4>1, <4>2
      <3>3. 1 \in 1..Len(ladder[w])
        BY <1>2, <3>2
      <3> QED
        BY <1>3, <1>7, <3>3
    <2>2. ASSUME NEW w \in picked, StatusOf(w) # "mastered", "flashcard" \in Able(context[w])
          PROVE  Able(context[w]) \cap EligibleTypesForStatus(StatusOf(w)) # {}
      BY <2>2, ExampleSuffices DEF PickedLadders
    <2> QED
      BY <2>1, <2>2 DEF NoneLeftOut
  <1> QED
    BY <1>9, <1>11, <1>12

-----------------------------------------------------------------------------
(* The second invariant: what is asked, and how it is graded *)

SessionGood(r) ==
  /\ r.pc \in Statuses0 /\ r.request \in Requests \cup {NoSession.request}
  /\ r.due \cup r.fresh \subseteq Words
  /\ r.reason \in Reasons /\ r.nextDue \in Nat \cup {Never}
  /\ InOrder(r) /\ SameAsked(r) /\ NoneLeftOut(r) /\ SaysWhy(r)

GoodVerdict(verdict) ==
  /\ verdict.quality \in Qualities
  /\ verdict.asAsked => (verdict.correct <=> verdict.asRight)
  /\ verdict.correct => Passed(verdict.quality)
  /\ Passed(verdict.quality) /\ ~verdict.correct => verdict.typed

\* A review under way has the word as one of its rows gave it.
GoodWork(work) ==
  /\ work.version \in 1..Len(Versions[work.item.word])
  /\ Loaded(work.word, Versions[work.item.word][work.version])

GoodAnswer(a) ==
  /\ a.pc \in {"idle", "reviewing", "done"}
  /\ a.pc # "idle" => GoodVerdict(a.verdict)
  /\ \A work \in a.work : GoodWork(work)

VersionsGood == \A w \in Words : version[w] \in 0..Len(Versions[w])
ItemsAllGood == \A i \in held : GoodItem(i)
SessionsGood == \A s \in Sessions : SessionGood(session[s]) /\ UNION Range(session[s].rounds) \subseteq held
AnswersGood == \A c \in Submissions : GoodAnswer(answer[c]) /\ \A work \in answer[c].work : work.item \in held

AskedInv == VersionsGood /\ ItemsAllGood /\ SessionsGood /\ AnswersGood

LEMMA AskedInit == LessonsInit => AskedInv
  <1> SUFFICES ASSUME LessonsInit PROVE AskedInv
    OBVIOUS
  <1>1. ASSUME NEW w \in Words PROVE version[w] \in 0..Len(Versions[w])
    <2>1. PICK rows \in Seq(Range(Versions[w])) : rows = Versions[w] /\ rows # <<>>
      BY CatalogAssumption
    <2>2. version[w] = 1
      BY DEF LessonsInit
    <2> QED
      BY <2>1, <2>2, EmptySeq
  <1>2. SessionGood(NoSession) /\ UNION Range(NoSession.rounds) = {}
    <2>1. /\ NoSession.pc = "idle" /\ NoSession.due = {} /\ NoSession.fresh = {} /\ NoSession.reason = "none"
          /\ NoSession.nextDue = Never /\ NoSession.able = <<>> /\ NoSession.rounds = <<>>
      BY DEF NoSession
    <2> QED
      BY <2>1, NothingAsked DEF SessionGood, SaysWhy, Statuses0, Reasons
  <1>3. GoodAnswer(NoAnswer) /\ NoAnswer.work = {}
    BY DEF NoAnswer, GoodAnswer
  <1> QED
    BY <1>1, <1>2, <1>3 DEF LessonsInit, AskedInv, VersionsGood, ItemsAllGood, SessionsGood, AnswersGood

\* A session as picked.
PickedAs(r, request, due, fresh, reason, nextDue, pc) ==
  /\ r.request = request /\ r.due = due /\ r.fresh = fresh /\ r.reason = reason /\ r.nextDue = nextDue
  /\ r.pc = pc /\ r.able = <<>> /\ r.rounds = <<>>

LEMMA NewSession ==
  ASSUME NEW request, NEW due, NEW fresh, NEW reason, NEW nextDue, NEW pc, NEW r,
         r = [NoSession EXCEPT !.request = request, !.due = due, !.fresh = fresh,
                !.reason = reason, !.nextDue = nextDue, !.pc = pc]
  PROVE  PickedAs(r, request, due, fresh, reason, nextDue, pc)
  <1>1. PICK q : q = NoSession
    OBVIOUS
  <1>2. /\ DOMAIN q = {"pc", "request", "due", "fresh", "reason", "nextDue", "statuses", "able", "rounds"}
        /\ q.able = <<>> /\ q.rounds = <<>>
    BY <1>1 DEF NoSession
  <1>3. r = [q EXCEPT !.request = request, !.due = due, !.fresh = fresh,
               !.reason = reason, !.nextDue = nextDue, !.pc = pc]
    BY <1>1
  <1> QED
    BY <1>2, <1>3 DEF PickedAs

LEMMA NextDueSound ==
  ASSUME Shapes, NEW request, NEW reason
  PROVE  ResolveNextDueAt(request, reason) \in Nat \cup {Never}
  <1> DEFINE coming == {card[w].next : w \in {v \in Words : Enrolled(v) /\ card[v].next > clock}}
  <1>1. coming \in SUBSET Nat
    BY DEF Shapes, SoundCards, Schedules, Enrolled
  <1>2. FindNextDueAt \in Nat \cup {Never}
    <2>1. CASE coming = {}
      BY <2>1 DEF FindNextDueAt
    <2>2. CASE coming # {}
      <3>1. FindNextDueAt = CHOOSE t \in coming : \A u \in coming : t <= u
        BY <2>2 DEF FindNextDueAt
      <3> HIDE DEF coming
      <3>2. \E t \in coming : \A u \in coming : t <= u
        BY <1>1, <2>2, LeastNatural
      <3>3. FindNextDueAt \in coming
        BY <3>1, <3>2
      <3> QED
        BY <1>1, <3>3
    <2> QED
      BY <2>1, <2>2
  <1> QED
    BY <1>2 DEF ResolveNextDueAt

LEMMA PickWordsAsked ==
  ASSUME LessonsInv, AskedInv, NEW s \in Sessions, PickWords(s)
  PROVE  AskedInv'
  <1> DEFINE New(request, due, fresh, reason, nextDue, pc) ==
               [NoSession EXCEPT !.request = request, !.due = due, !.fresh = fresh,
                  !.reason = reason, !.nextDue = nextDue, !.pc = pc]
             PcOf(due, fresh) ==
               IF due \cup fresh = {} THEN "built" ELSE IF fresh = {} THEN "enrolled" ELSE "picked"
             ReasonOf(request, due, fresh) ==
               IF due \cup fresh = {} THEN EmptyReason(request.mode) ELSE "none"
             Step(request, due, fresh, reason, pc) ==
               session' = [session EXCEPT ![s] =
                 New(request, due, fresh, reason, ResolveNextDueAt(request, reason), pc)]
  <1>1. PICK request \in Requests : \E due \in PickDue(request) : \E fresh \in PickFresh(request.mode, due) :
          Step(request, due, fresh, ReasonOf(request, due, fresh), PcOf(due, fresh))
    BY Zenon DEF PickWords
  <1> HIDE DEF New, Step, PcOf, ReasonOf
  <1>2. PICK due \in PickDue(request) : \E fresh \in PickFresh(request.mode, due) :
          Step(request, due, fresh, ReasonOf(request, due, fresh), PcOf(due, fresh))
    BY <1>1, Zenon
  <1>3. PICK fresh \in PickFresh(request.mode, due) :
          Step(request, due, fresh, ReasonOf(request, due, fresh), PcOf(due, fresh))
    BY <1>2, Zenon
  <1>4. PICK reason, pc, nextDue, r :
          /\ reason = ReasonOf(request, due, fresh) /\ pc = PcOf(due, fresh)
          /\ nextDue = ResolveNextDueAt(request, reason)
          /\ r = New(request, due, fresh, reason, nextDue, pc)
    OBVIOUS
  <1>5. session' = [session EXCEPT ![s] = r]
    BY <1>3, <1>4, Zenon DEF Step
  <1>6. PickedAs(r, request, due, fresh, reason, nextDue, pc)
    BY <1>4, NewSession DEF New
  <1>7. due \subseteq Words /\ fresh \subseteq Words
    BY DEF PickDue, PickFresh, Least, DueWords, FreshWords, Source
  <1>8. EmptyReason(request.mode) \in Reasons \ {"none"}
    <2>1. request.mode \in {"daily", "topic", "deck", "review"}
      BY LessonsAssumption DEF Modes
    <2> QED
      BY <2>1 DEF EmptyReason, Reasons
  <1>9. /\ reason \in Reasons /\ pc \in Statuses0 /\ (pc = "built" <=> due \cup fresh = {})
        /\ (reason # "none" <=> due \cup fresh = {})
    BY <1>4, <1>8 DEF ReasonOf, PcOf, Statuses0, Reasons
  <1>10. SessionGood(r) /\ UNION Range(r.rounds) = {}
    <2>1. nextDue \in Nat \cup {Never}
      BY <1>4, NextDueSound DEF LessonsInv
    <2>2. InOrder(r) /\ SameAsked(r) /\ NoneLeftOut(r) /\ UNION Range(r.rounds) = {}
      BY <1>6, NothingAsked DEF PickedAs
    <2>3. SaysWhy(r)
      BY <1>6, <1>9 DEF PickedAs, SaysWhy
    <2> QED
      BY <1>6, <1>7, <1>9, <2>1, <2>2, <2>3 DEF PickedAs, SessionGood
  <1>11. UNCHANGED <<version, held, answer>>
    BY DEF PickWords
  <1>12. \A t \in Sessions : session'[t] = IF t = s THEN r ELSE session[t]
    BY <1>5 DEF LessonsInv, Shapes
  <1>13. SessionsGood'
    BY <1>10, <1>11, <1>12 DEF AskedInv, SessionsGood
  <1> QED
    BY <1>11, <1>13 DEF AskedInv, VersionsGood, ItemsAllGood, AnswersGood

LEMMA EnrollFreshAsked ==
  ASSUME LessonsInv, AskedInv, NEW s \in Sessions, EnrollFresh(s)
  PROVE  AskedInv'
  <1>1. PICK pc \in {"failed", "enrolled"} : session' = [session EXCEPT ![s].pc = pc]
    <2>1. session' = [session EXCEPT ![s].pc =
                        IF session[s].request.mode = "deck" /\ Source("deck") = {} THEN "failed" ELSE "enrolled"]
      BY DEF EnrollFresh
    <2> QED
      BY <2>1
  <1>2. UNCHANGED <<version, held, answer>>
    BY DEF EnrollFresh
  <1>3. PICK old : old = session[s]
    OBVIOUS
  <1>4. PICK r : r = [old EXCEPT !.pc = pc]
    OBVIOUS
  <1>5. IsSession(old) /\ DOMAIN session = Sessions
    BY <1>3 DEF LessonsInv, Shapes
  <1>6. /\ r.pc = pc /\ r.request = old.request /\ r.due = old.due /\ r.fresh = old.fresh /\ r.reason = old.reason
        /\ r.nextDue = old.nextDue /\ r.statuses = old.statuses /\ r.able = old.able /\ r.rounds = old.rounds
    BY <1>4, <1>5 DEF IsSession
  <1>7. \A t \in Sessions : session'[t] = IF t = s THEN r ELSE session[t]
    <2>1. session' = [session EXCEPT ![s] = r]
      BY <1>1, <1>3, <1>4
    <2> QED
      BY <1>5, <2>1
  <1>8. SessionGood(old) /\ UNION Range(old.rounds) \subseteq held
    BY <1>3 DEF AskedInv, SessionsGood
  <1>9. SessionGood(r) /\ UNION Range(r.rounds) \subseteq held
    <2>1. \A w : ItemsIn(r, w) = ItemsIn(old, w)
      BY <1>6 DEF ItemsIn
    <2>2. InOrder(r) /\ SameAsked(r) /\ NoneLeftOut(r)
      BY <1>6, <1>8, <2>1 DEF SessionGood, InOrder, SameAsked, NoneLeftOut
    <2> QED
      BY <1>6, <1>8, <2>2 DEF SessionGood, SaysWhy, Statuses0
  <1>10. SessionsGood'
    BY <1>2, <1>7, <1>9 DEF AskedInv, SessionsGood
  <1> QED
    BY <1>2, <1>10 DEF AskedInv, VersionsGood, ItemsAllGood, AnswersGood

\* A session as built: who was picked and why there was nothing stay as they were.
Answered(r, old, reason, nextDue, statuses, able, rounds) ==
  /\ r.request = old.request /\ r.due = old.due /\ r.fresh = old.fresh /\ r.pc = "built"
  /\ r.reason = reason /\ r.nextDue = nextDue /\ r.statuses = statuses /\ r.able = able /\ r.rounds = rounds

LEMMA BuiltSession ==
  ASSUME NEW old, IsSession(old), NEW reason, NEW nextDue, NEW statuses, NEW able, NEW rounds, NEW r,
         r = [old EXCEPT !.pc = "built", !.reason = reason, !.nextDue = nextDue,
                !.statuses = statuses, !.able = able, !.rounds = rounds]
  PROVE  Answered(r, old, reason, nextDue, statuses, able, rounds)
  <1>1. DOMAIN old = {"pc", "request", "due", "fresh", "reason", "nextDue", "statuses", "able", "rounds"}
    BY DEF IsSession
  <1> QED
    BY <1>1 DEF Answered

LEMMA BuildSessionAsked ==
  ASSUME LessonsInv, AskedInv, NEW s \in Sessions, BuildSession(s)
  PROVE  AskedInv'
  <1> DEFINE picked == {w \in session[s].due \cup session[s].fresh : Present(w)}
             lang == session[s].request.lang
             Ladder(order, word) ==
               [w \in picked |-> BuildLadder(StatusOf(w), order, Context(w, word[w], lang))]
             Items(ladder) ==
               UNION {AssembleLessonItems(<<s, w>>, w, version[w], lang, ladder[w]) : w \in picked}
             ReasonOf(items) == IF items = {} THEN "no_due_cards" ELSE "none"
             Makes(items, reason, statuses, able) ==
               session' = [session EXCEPT ![s].pc = "built", ![s].reason = reason,
                 ![s].nextDue = ResolveNextDueAt(session[s].request, reason),
                 ![s].statuses = statuses, ![s].able = able, ![s].rounds = ToTypeMajorRounds(items)]
             Loaders == {f \in [picked -> UNION {Loads(Row(w)) : w \in picked}] : \A w \in picked : f[w] \in Loads(Row(w))}
  <1>1. PICK order \in Orders : \E word \in Loaders :
          /\ Makes(Items(Ladder(order, word)), ReasonOf(Items(Ladder(order, word))),
                   [w \in picked |-> StatusOf(w)], [w \in picked |-> Able(Context(w, word[w], lang))])
          /\ held' = held \cup Items(Ladder(order, word))
    BY Zenon DEF BuildSession
  <1>a. UNCHANGED <<version, answer>>
    BY DEF BuildSession
  <1>2. \A f \in Loaders : \A w \in picked : f[w] \in Loads(Row(w))
    BY Zenon
  <1> HIDE DEF Makes, Items, Ladder, Loaders, ReasonOf
  <1>3. PICK word \in Loaders :
          /\ Makes(Items(Ladder(order, word)), ReasonOf(Items(Ladder(order, word))),
                   [w \in picked |-> StatusOf(w)], [w \in picked |-> Able(Context(w, word[w], lang))])
          /\ held' = held \cup Items(Ladder(order, word))
    BY <1>1, Zenon
  <1>4. PICK context : context = [w \in picked |-> Context(w, word[w], lang)]
    OBVIOUS
  <1>5. PICK ladder : ladder = Ladder(order, word)
    OBVIOUS
  <1>6. PICK items : items = Items(ladder)
    OBVIOUS
  <1>7. PICK statuses, able, reason, nextDue, rounds :
          /\ statuses = [w \in picked |-> StatusOf(w)] /\ able = [w \in picked |-> Able(context[w])]
          /\ reason = ReasonOf(items) /\ nextDue = ResolveNextDueAt(session[s].request, reason)
          /\ rounds = ToTypeMajorRounds(items)
    OBVIOUS
  <1>8. able = [w \in picked |-> Able(Context(w, word[w], lang))]
    BY <1>4, <1>7
  <1>9. /\ session' = [session EXCEPT ![s].pc = "built", ![s].reason = reason, ![s].nextDue = nextDue,
                         ![s].statuses = statuses, ![s].able = able, ![s].rounds = rounds]
        /\ held' = held \cup items
    <2>1. Makes(items, reason, statuses, able)
      BY <1>3, <1>5, <1>6, <1>7, <1>8, Zenon
    <2> QED
      BY <2>1, <1>3, <1>5, <1>6, <1>7, Zenon DEF Makes
  <1>10. SessionGood(session[s]) /\ IsSession(session[s]) /\ DOMAIN session = Sessions
    BY DEF AskedInv, SessionsGood, LessonsInv, Shapes
  <1>11. ASSUME NEW w \in picked
         PROVE  /\ w \in Words /\ Present(w) /\ version[w] \in 1..Len(Versions[w])
                /\ Loaded(word[w], Versions[w][version[w]])
                /\ StatusOf(w) \in Statuses
    <2>1. w \in Words /\ Present(w)
      BY <1>10 DEF SessionGood
    <2>2. version[w] \in 1..Len(Versions[w])
      <3>1. version[w] \in 0..Len(Versions[w]) /\ version[w] # 0
        BY <2>1 DEF AskedInv, VersionsGood, Present
      <3>2. Len(Versions[w]) \in Nat
        <4>1. Versions[w] \in Seq(Range(Versions[w]))
          BY <2>1, CatalogAssumption
        <4> QED
          BY <4>1
      <3> QED
        BY <3>1, <3>2
    <2>3. word[w] \in Loads(Versions[w][version[w]])
      BY <1>2 DEF Row
    <2>4. Loaded(word[w], Versions[w][version[w]])
      BY <2>1, <2>2, <2>3, CatalogRow, LoadsSound
    <2>5. StatusOf(w) \in Statuses
      BY <2>1 DEF StatusOf, Enrolled, LessonsInv, Shapes, SoundCards, Schedules, Statuses
    <2> QED
      BY <2>1, <2>2, <2>4, <2>5
  <1>12. \A w \in picked : /\ context[w] = Context(w, word[w], lang) /\ context[w].word = word[w]
                           /\ ladder[w] = BuildLadder(StatusOf(w), order, context[w])
    BY <1>4, <1>5 DEF Ladder, Context
  <1>13. PickedLadders(ladder, context, picked, order)
    BY <1>11, <1>12, LoadedIsLoaded DEF PickedLadders
  <1>14. items = UNION {AssembleLessonItems(<<s, w>>, w, version[w], lang, ladder[w]) : w \in picked}
    BY <1>6 DEF Items
  <1>15. ASSUME NEW i \in items PROVE GoodItem(i)
    <2>1. PICK w \in picked : i \in AssembleLessonItems(<<s, w>>, w, version[w], lang, ladder[w])
      BY <1>14
    <2>2. i \in AssembleLessonItems(<<s, w>>, w, version[w], lang,
                  BuildLadder(StatusOf(w), order, Context(w, word[w], lang)))
      BY <1>12, <2>1
    <2>3. w \in Words /\ version[w] \in 1..Len(Versions[w]) /\ Loaded(word[w], Versions[w][version[w]])
      BY <1>11
    <2> HIDE DEF picked, lang
    <2> QED
      BY <2>2, <2>3, ItemsGood
  <1>16. IsRounds(rounds, items)
    <2>1. \A i \in items : i.type \in QuestionTypes
      BY <1>15 DEF GoodItem
    <2> QED
      BY <1>7, <2>1, RoundsSound
  <1>17. PICK r : r = [session[s] EXCEPT !.pc = "built", !.reason = reason, !.nextDue = nextDue,
                         !.statuses = statuses, !.able = able, !.rounds = rounds]
    OBVIOUS
  <1>18. Answered(r, session[s], reason, nextDue, statuses, able, rounds)
    BY <1>10, <1>17, BuiltSession
  <1>19. \A t \in Sessions : session'[t] = IF t = s THEN r ELSE session[t]
    <2>1. session' = [session EXCEPT ![s] = r]
      BY <1>9, <1>17
    <2> QED
      BY <1>10, <2>1
  <1>20. InOrder(r) /\ SameAsked(r) /\ NoneLeftOut(r)
    <2>1. r.able = [w \in picked |-> Able(context[w])] /\ r.statuses = [w \in picked |-> StatusOf(w)] /\ r.rounds = rounds
      BY <1>7, <1>18 DEF Answered
    <2>2. IsRounds(r.rounds, items)
      BY <1>16, <2>1
    <2>3. SessionOf(r, items, s, lang, ladder, context, picked)
      BY <1>14, <2>1, <2>2 DEF SessionOf
    <2> HIDE DEF picked, lang
    <2> QED
      BY <1>13, <2>3, SessionBuilt, Zenon
  <1>21. SaysWhy(r) /\ reason \in Reasons
    BY <1>7, <1>16, <1>18 DEF Answered, SaysWhy, IsRounds, ReasonOf, Reasons
  <1>22. nextDue \in Nat \cup {Never}
    BY <1>7, NextDueSound DEF LessonsInv
  <1>23. SessionGood(r) /\ UNION Range(r.rounds) = items
    BY <1>10, <1>16, <1>18, <1>20, <1>21, <1>22 DEF Answered, SessionGood, IsRounds, Statuses0
  <1>24. SessionsGood'
    BY <1>9, <1>19, <1>23 DEF AskedInv, SessionsGood
  <1>25. ItemsAllGood'
    BY <1>9, <1>15 DEF AskedInv, ItemsAllGood
  <1>26. AnswersGood'
    BY <1>a, <1>9 DEF AskedInv, AnswersGood
  <1> QED
    BY <1>a, <1>24, <1>25, <1>26 DEF AskedInv, VersionsGood

\* The grade of an answer, next to the promise of its item.
LEMMA VerdictSound ==
  ASSUME NEW item \in held, GoodItem(item), NEW word, version[item.word] = item.version => Loaded(word, AskedOf(item)),
         NEW text, NEW fast
  PROVE  GoodVerdict(Verdict(item, word, text, Grade(item.type, word, item.example, item.lang, text, fast)))
  <1>1. PICK right : right = CorrectAnswer(item.type, word, item.example, item.lang)
    OBVIOUS
  <1>2. PICK result : result = Grade(item.type, word, item.example, item.lang, text, fast)
    OBVIOUS
  <1>3. PICK verdict : verdict = Verdict(item, word, text, result)
    OBVIOUS
  <1>4. /\ verdict.correct = result.correct /\ verdict.quality = result.quality
        /\ verdict.asRight = (text = item.right) /\ verdict.typed = (item.type \in TypedTypes)
        /\ verdict.asAsked = (version[item.word] = item.version /\ item.type # "flashcard" /\ ~Ambiguous(item, word))
    BY <1>3 DEF Verdict
  <1>5. PICK quality : quality = IF item.type = "flashcard" THEN FlashcardQuality(text)
                                 ELSE IF text = right THEN (IF fast THEN 5 ELSE 4)
                                 ELSE IF item.type \in TypedTypes /\ text = Typo(right) THEN 3 ELSE 2
    OBVIOUS
  <1>6. result.quality = quality /\ result.correct = IF item.type = "flashcard" THEN quality >= 3 ELSE text = right
    BY <1>1, <1>2, <1>5 DEF Grade
  <1>7. quality \in Qualities
    BY <1>5 DEF FlashcardQuality, Qualities
  <1>8. ASSUME item.type # "flashcard" PROVE (Passed(quality) <=> text = right \/ (item.type \in TypedTypes /\ text = Typo(right)))
    BY <1>5, <1>8 DEF Passed
  <1>9. verdict.asAsked => item.right = right /\ item.type # "flashcard"
    BY <1>1, <1>4 DEF GoodItem
  <1>10. verdict.asAsked => (verdict.correct <=> verdict.asRight)
    BY <1>4, <1>6, <1>9
  <1>11. verdict.correct => Passed(verdict.quality)
    BY <1>4, <1>6, <1>8 DEF Passed
  <1>12. Passed(verdict.quality) /\ ~verdict.correct => verdict.typed
    BY <1>4, <1>6, <1>8 DEF Passed
  <1> QED
    BY <1>2, <1>3, <1>4, <1>6, <1>7, <1>10, <1>11, <1>12 DEF GoodVerdict

\* An item that may be answered now, and what its word is loaded as.
Answerable(item) == item \in held /\ Present(item.word) /\ item.example \in ExamplesOf(Row(item.word))

\* What the answer leaves in the client's call.
TakenAs(c, item, word, verdict) ==
  \E last, number, at :
    answer' = [answer EXCEPT ![c] =
      [pc |-> IF IsFinalStep(item) THEN "reviewing" ELSE "done", verdict |-> verdict, last |-> last,
       work |-> IF IsFinalStep(item)
                THEN {[item |-> item, word |-> word, version |-> version[item.word],
                       number |-> number, at |-> at]} ELSE {}]]

LEMMA AnswerTaken ==
  ASSUME NEW c \in Submissions, SubmitAnswer(c)
  PROVE  \E item : \E word, text, fast :
           /\ Answerable(item) /\ word \in Loads(Row(item.word))
           /\ TakenAs(c, item, word, Verdict(item, word, text, Grade(item.type, word, item.example, item.lang, text, fast)))
  <1> DEFINE Graded(item, word, text, fast) ==
               Verdict(item, word, text, Grade(item.type, word, item.example, item.lang, text, fast))
             Entry(item, word, verdict, last, number, at) ==
               answer' = [answer EXCEPT ![c] =
                 [pc |-> IF IsFinalStep(item) THEN "reviewing" ELSE "done", verdict |-> verdict, last |-> last,
                  work |-> IF IsFinalStep(item)
                           THEN {[item |-> item, word |-> word, version |-> version[item.word],
                                  number |-> number, at |-> at]} ELSE {}]]
             LastFor(item) == IF LastOf(item) THEN {[word |-> item.word, at |-> clock]} ELSE {}
  <1>1. \E item \in {i \in held : SignatureValid(i) /\ Present(i.word)} :
          /\ item.example \in ExamplesOf(Row(item.word))
          /\ \E word \in Loads(Row(item.word)), text \in AnswerTexts(item), fast \in Speeds :
               Entry(item, word, Graded(item, word, text, fast), LastFor(item), finals', clock)
    BY Zenon DEF SubmitAnswer
  <1> HIDE DEF Graded, Entry, LastFor
  <1>2. PICK item \in {i \in held : SignatureValid(i) /\ Present(i.word)} :
          /\ item.example \in ExamplesOf(Row(item.word))
          /\ \E word \in Loads(Row(item.word)), text \in AnswerTexts(item), fast \in Speeds :
               Entry(item, word, Graded(item, word, text, fast), LastFor(item), finals', clock)
    BY <1>1, Zenon
  <1>3. PICK word \in Loads(Row(item.word)), text \in AnswerTexts(item), fast \in Speeds :
          Entry(item, word, Graded(item, word, text, fast), LastFor(item), finals', clock)
    BY <1>2, Zenon
  <1>4. Answerable(item)
    BY <1>2 DEF Answerable
  <1>5. TakenAs(c, item, word, Graded(item, word, text, fast))
    BY <1>3, Zenon DEF TakenAs, Entry
  <1> QED
    BY <1>3, <1>4, <1>5, Zenon DEF Graded

LEMMA SubmitAnswerAsked ==
  ASSUME LessonsInv, AskedInv, NEW c \in Submissions, SubmitAnswer(c)
  PROVE  AskedInv'
  <1>1. PICK item, word, text, fast :
          /\ Answerable(item) /\ word \in Loads(Row(item.word))
          /\ TakenAs(c, item, word, Verdict(item, word, text, Grade(item.type, word, item.example, item.lang, text, fast)))
    BY AnswerTaken
  <1>2. PICK verdict :
          verdict = Verdict(item, word, text, Grade(item.type, word, item.example, item.lang, text, fast))
    OBVIOUS
  <1>3. TakenAs(c, item, word, verdict)
    BY <1>1, <1>2
  <1>4. UNCHANGED <<version, session, held>>
    BY DEF SubmitAnswer
  <1>5. item \in held /\ GoodItem(item) /\ item.word \in Words
    BY <1>1 DEF Answerable, AskedInv, ItemsAllGood, GoodItem
  <1>6. version[item.word] \in 1..Len(Versions[item.word])
    <2>1. version[item.word] \in 0..Len(Versions[item.word]) /\ version[item.word] # 0
      BY <1>1, <1>5 DEF AskedInv, VersionsGood, Answerable, Present
    <2>2. Len(Versions[item.word]) \in Nat
      <3>1. Versions[item.word] \in Seq(Range(Versions[item.word]))
        BY <1>5, CatalogAssumption
      <3> QED
        BY <3>1
    <2> QED
      BY <2>1, <2>2
  <1>7. Loaded(word, Versions[item.word][version[item.word]])
    <2>1. WellFormedRow(Versions[item.word][version[item.word]])
      BY <1>5, <1>6, CatalogRow
    <2> QED
      BY <1>1, <2>1, LoadsSound DEF Row
  <1>8. GoodVerdict(verdict)
    <2>1. version[item.word] = item.version => Loaded(word, AskedOf(item))
      BY <1>7 DEF AskedOf
    <2> QED
      BY <1>2, <1>5, <2>1, VerdictSound
  <1>9. PICK last, number, at :
          answer' = [answer EXCEPT ![c] =
            [pc |-> IF IsFinalStep(item) THEN "reviewing" ELSE "done", verdict |-> verdict, last |-> last,
             work |-> IF IsFinalStep(item)
                      THEN {[item |-> item, word |-> word, version |-> version[item.word],
                             number |-> number, at |-> at]} ELSE {}]]
    BY <1>3, Zenon DEF TakenAs
  <1>10. PICK work : work = [item |-> item, word |-> word, version |-> version[item.word],
                             number |-> number, at |-> at]
    OBVIOUS
  <1>11. PICK r : r = [pc |-> IF IsFinalStep(item) THEN "reviewing" ELSE "done", verdict |-> verdict,
                       last |-> last, work |-> IF IsFinalStep(item) THEN {work} ELSE {}]
    OBVIOUS
  <1>12. answer' = [answer EXCEPT ![c] = r]
    BY <1>9, <1>10, <1>11
  <1>13. \A d \in Submissions : answer'[d] = IF d = c THEN r ELSE answer[d]
    BY <1>12 DEF LessonsInv, Shapes
  <1>14. GoodWork(work) /\ work.item \in held
    BY <1>5, <1>6, <1>7, <1>10 DEF GoodWork
  <1>15. GoodAnswer(r) /\ \A other \in r.work : other.item \in held
    BY <1>8, <1>11, <1>14 DEF GoodAnswer
  <1>16. AnswersGood'
    BY <1>4, <1>13, <1>15 DEF AskedInv, AnswersGood
  <1> QED
    BY <1>4, <1>16 DEF AskedInv, VersionsGood, ItemsAllGood, SessionsGood

\* What a review adds to the client's items, for some order of the types.
RequeuedAs(work, status, items) ==
  \/ items = {}
  \/ \E order \in Orders :
       items = AssembleLessonItems(<<work.number, work.item.word>>, work.item.word, work.version, work.item.lang,
                 BuildLadder(status, order, Context(work.item.word, work.word, work.item.lang)))

LEMMA RequeueBuilt ==
  ASSUME NEW work, NEW progress, NEW items \in BuildRequeue(work, progress)
  PROVE  RequeuedAs(work, progress.status, items)
  <1> DEFINE Requeued(order) ==
        AssembleLessonItems(<<work.number, work.item.word>>, work.item.word, work.version, work.item.lang,
          BuildLadder(progress.status, order, Context(work.item.word, work.word, work.item.lang)))
  <1>1. BuildRequeue(work, progress) = IF progress.next - clock > RequeueWindow THEN {{}}
                                       ELSE {Requeued(order) : order \in Orders}
    BY Zenon DEF BuildRequeue
  <1> HIDE DEF Requeued
  <1>2. items = {} \/ \E order \in Orders : items = Requeued(order)
    BY <1>1
  <1> QED
    BY <1>2, Zenon DEF RequeuedAs, Requeued

LEMMA ReviewRequeues ==
  ASSUME NEW c \in Submissions, SubmitReview(c)
  PROVE  \E work \in answer[c].work : \E status, items : held' = held \cup items /\ RequeuedAs(work, status, items)
  <1> DEFINE Requeues(work, progress) == \E items \in BuildRequeue(work, progress) : held' = held \cup items
             ProgressOf(work) == Reviewed(card[work.item.word], answer[c].verdict.quality)
  <1>1. PICK work \in answer[c].work :
          IF ~Enrolled(work.item.word) THEN UNCHANGED <<card, held, lessons>> ELSE Requeues(work, ProgressOf(work))
    <2>1. \E work \in answer[c].work :
            IF ~Enrolled(work.item.word) THEN UNCHANGED <<card, held, lessons>>
            ELSE Requeues(work, ProgressOf(work))
      BY Zenon DEF SubmitReview
    <2> QED
      BY <2>1, Zenon
  <1>2. CASE ~Enrolled(work.item.word)
    <2>1. held' = held \cup {} /\ RequeuedAs(work, 0, {})
      BY <1>1, <1>2 DEF RequeuedAs
    <2> QED
      BY <2>1
  <1>3. CASE Enrolled(work.item.word)
    <2>1. PICK progress : progress = ProgressOf(work)
      OBVIOUS
    <2>2. PICK items \in BuildRequeue(work, progress) : held' = held \cup items
      BY <1>1, <1>3, <2>1
    <2>3. RequeuedAs(work, progress.status, items)
      BY RequeueBuilt
    <2> QED
      BY <2>2, <2>3
  <1> QED
    BY <1>2, <1>3

LEMMA SubmitReviewAsked ==
  ASSUME LessonsInv, AskedInv, NEW c \in Submissions, SubmitReview(c)
  PROVE  AskedInv'
  <1>1. PICK work \in answer[c].work : \E status, items : held' = held \cup items /\ RequeuedAs(work, status, items)
    BY ReviewRequeues
  <1>2. PICK status, items : held' = held \cup items /\ RequeuedAs(work, status, items)
    BY <1>1
  <1>3. /\ UNCHANGED <<version, session>> /\ answer[c].pc = "reviewing"
        /\ answer' = [answer EXCEPT ![c].pc = "done", ![c].work = {}]
    BY DEF SubmitReview
  <1>4. PICK old : old = answer[c]
    OBVIOUS
  <1>5. PICK r : r = [old EXCEPT !.pc = "done", !.work = {}]
    OBVIOUS
  <1>6. IsAnswer(old) /\ DOMAIN answer = Submissions
    BY <1>4 DEF LessonsInv, Shapes
  <1>7. r.pc = "done" /\ r.work = {} /\ r.verdict = old.verdict
    BY <1>5, <1>6 DEF IsAnswer
  <1>8. \A d \in Submissions : answer'[d] = IF d = c THEN r ELSE answer[d]
    <2>1. answer' = [answer EXCEPT ![c] = r]
      BY <1>3, <1>4, <1>5
    <2> QED
      BY <1>6, <2>1
  <1>9. GoodWork(work) /\ GoodItem(work.item) /\ GoodVerdict(old.verdict)
    BY <1>3, <1>4 DEF AskedInv, AnswersGood, GoodAnswer, ItemsAllGood
  <1>10. ASSUME NEW i \in items PROVE GoodItem(i)
    <2>1. PICK order \in Orders :
            items = AssembleLessonItems(<<work.number, work.item.word>>, work.item.word, work.version, work.item.lang,
                      BuildLadder(status, order, Context(work.item.word, work.word, work.item.lang)))
      BY <1>2 DEF RequeuedAs
    <2>2. PICK w, v, word, lang, g :
            /\ w = work.item.word /\ v = work.version /\ word = work.word /\ lang = work.item.lang
            /\ g = <<work.number, work.item.word>>
      OBVIOUS
    <2>3. i \in AssembleLessonItems(g, w, v, lang, BuildLadder(status, order, Context(w, word, lang)))
      BY <2>1, <2>2
    <2>4. w \in Words /\ v \in 1..Len(Versions[w]) /\ Loaded(word, Versions[w][v])
      BY <1>9, <2>2 DEF GoodWork, GoodItem
    <2> QED
      BY <2>3, <2>4, ItemsGood
  <1>11. GoodAnswer(r) /\ r.work = {}
    BY <1>7, <1>9 DEF GoodAnswer
  <1>12. AnswersGood'
    BY <1>2, <1>3, <1>8, <1>11 DEF AskedInv, AnswersGood, GoodAnswer, GoodWork
  <1>13. ItemsAllGood'
    BY <1>2, <1>10 DEF AskedInv, ItemsAllGood, GoodItem, AskedOf, Ambiguous
  <1>14. SessionsGood'
    BY <1>2, <1>3 DEF AskedInv, SessionsGood
  <1> QED
    BY <1>3, <1>12, <1>13, <1>14 DEF AskedInv, VersionsGood

LEMMA CatalogChanged ==
  ASSUME LessonsInv, AskedInv, NEW w \in Words, EditWord(w) \/ DeleteVocabulary(w)
  PROVE  AskedInv'
  <1>1. UNCHANGED <<session, held, answer>>
    BY DEF EditWord, DeleteVocabulary
  <1>2. version \in [Words -> Nat] /\ version[w] \in 0..Len(Versions[w]) /\ Len(Versions[w]) \in Nat
    <2>1. Versions[w] \in Seq(Range(Versions[w]))
      BY CatalogAssumption
    <2> QED
      BY <2>1 DEF LessonsInv, Shapes, AskedInv, VersionsGood
  <1>3. version'[w] \in 0..Len(Versions[w]) /\ \A v \in Words \ {w} : version'[v] = version[v]
    <2>1. CASE EditWord(w)
      <3>1. version[w] < Len(Versions[w]) /\ version' = [version EXCEPT ![w] = @ + 1]
        BY <2>1 DEF EditWord
      <3>2. version'[w] = version[w] + 1 /\ \A v \in Words \ {w} : version'[v] = version[v]
        BY <1>2, <3>1
      <3>3. PICK n \in Nat, m \in Nat : n = version[w] /\ m = Len(Versions[w])
        BY <1>2
      <3> QED
        BY <3>1, <3>2, <3>3
    <2>2. CASE DeleteVocabulary(w)
      <3>1. version' = [version EXCEPT ![w] = 0]
        BY <2>2 DEF DeleteVocabulary
      <3> QED
        BY <1>2, <3>1
    <2> QED
      BY <2>1, <2>2
  <1> QED
    BY <1>1, <1>3 DEF AskedInv, VersionsGood, ItemsAllGood, SessionsGood, AnswersGood

LEMMA AskedStep == ASSUME LessonsInv, AskedInv, [LessonsNext]_lessonVars PROVE AskedInv'
  <1>1. CASE UNCHANGED lessonVars
    BY <1>1 DEF lessonVars, AskedInv, VersionsGood, ItemsAllGood, SessionsGood, AnswersGood
  <1>2. CASE Advance
    BY <1>2 DEF Advance, AskedInv, VersionsGood, ItemsAllGood, SessionsGood, AnswersGood
  <1>3. CASE \E s \in Sessions : PickWords(s) \/ EnrollFresh(s) \/ BuildSession(s)
    BY <1>3, PickWordsAsked, EnrollFreshAsked, BuildSessionAsked
  <1>4. CASE \E c \in Submissions : SubmitAnswer(c) \/ SubmitReview(c)
    BY <1>4, SubmitAnswerAsked, SubmitReviewAsked
  <1>5. CASE \E w \in Words : EditWord(w) \/ DeleteVocabulary(w)
    BY <1>5, CatalogChanged
  <1> QED
    BY <1>1, <1>2, <1>3, <1>4, <1>5 DEF LessonsNext

LEMMA AskedSuffices ==
  AskedInv => StepsInOrder /\ SameTypesAsked /\ NoWordLeftOut /\ EmptySaysWhy /\ GradedAsAsked
  <1> SUFFICES ASSUME AskedInv
               PROVE  StepsInOrder /\ SameTypesAsked /\ NoWordLeftOut /\ EmptySaysWhy /\ GradedAsAsked
    OBVIOUS
  <1>1. \A s \in Sessions : InOrder(session[s]) /\ SameAsked(session[s]) /\ NoneLeftOut(session[s]) /\ SaysWhy(session[s])
    BY DEF AskedInv, SessionsGood, SessionGood
  <1>2. \A s, w : ItemsOf(s, w) = ItemsIn(session[s], w)
    BY DEF ItemsOf, ItemsIn
  <1>3. StepsInOrder
    BY <1>1, <1>2 DEF StepsInOrder, InOrder
  <1>4. SameTypesAsked
    BY <1>1, <1>2 DEF SameTypesAsked, SameAsked
  <1>5. NoWordLeftOut
    BY <1>1, <1>2 DEF NoWordLeftOut, NoneLeftOut
  <1>6. EmptySaysWhy
    BY <1>1 DEF EmptySaysWhy, SaysWhy
  <1>7. GradedAsAsked
    BY DEF AskedInv, AnswersGood, GoodAnswer, GoodVerdict, GradedAsAsked
  <1> QED
    BY <1>3, <1>4, <1>5, <1>6, <1>7

LEMMA LessonsTyped == LessonsInv /\ AskedInv => LessonsTypeOK
  <1> SUFFICES ASSUME LessonsInv, AskedInv PROVE LessonsTypeOK
    OBVIOUS
  <1>1. clock \in Nat /\ finals \in 0..MaxFinals
    BY DEF LessonsInv, Shapes
  <1>2. \A w \in Words : version[w] \in 0..Len(Versions[w]) /\ card[w] \in Schedules \cup {NoCard}
    BY DEF LessonsInv, Shapes, AskedInv, VersionsGood, SoundCards
  <1>3. \A s \in Sessions :
          /\ session[s].pc \in Statuses0 /\ session[s].request \in Requests \cup {NoSession.request}
          /\ session[s].due \cup session[s].fresh \subseteq Words
          /\ session[s].reason \in Reasons /\ session[s].nextDue \in Nat \cup {Never}
          /\ UNION Range(session[s].rounds) \subseteq held
    BY DEF AskedInv, SessionsGood, SessionGood
  <1>4. ASSUME NEW i \in held
        PROVE  /\ i.group \in Groups /\ i.word = i.group[2] /\ i.type \in {LADDER[k].type : k \in DOMAIN LADDER}
               /\ i.step \in 0..(i.count - 1) /\ i.at <= clock
    <2>1. i.group \in Groups /\ i.word = i.group[2]
      BY HeldGroup
    <2>2. i.type \in QuestionTypes /\ i.step \in 0..(i.count - 1)
      BY DEF AskedInv, ItemsAllGood, GoodItem
    <2>3. i.at <= clock
      BY DEF LessonsInv, HeldSound
    <2> QED
      BY <2>1, <2>2, <2>3 DEF QuestionTypes
  <1>5. ASSUME NEW c \in Submissions
        PROVE  /\ answer[c].pc \in {"idle", "reviewing", "done"}
               /\ answer[c].pc # "idle" => answer[c].verdict.quality \in Qualities
               /\ \A work \in answer[c].work : work.item \in held
    BY DEF AskedInv, AnswersGood, GoodAnswer, GoodVerdict
  <1>6. ASSUME NEW g \in Groups
        PROVE  /\ lessons[g].finals \in Nat /\ lessons[g].moves \in Seq({"steps", "ladder"})
               /\ lessons[g].delay \in Nat
    BY DEF LessonsInv, Shapes, Histories
  <1> QED
    BY <1>1, <1>2, <1>3, <1>4, <1>5, <1>6, Zenon DEF LessonsTypeOK

-----------------------------------------------------------------------------
(* The theorems about the session and the answers *)

WholeInv == part = "lessons" => LessonsInv /\ AskedInv

LEMMA WholeInvariant == Spec => []WholeInv
  <1>1. Init => WholeInv
    BY LessonsInitInv, AskedInit DEF Init, WholeInv
  <1>2. WholeInv /\ [Next]_vars => WholeInv'
    <2> SUFFICES ASSUME WholeInv, [Next]_vars, part' = "lessons" PROVE LessonsInv' /\ AskedInv'
      BY DEF WholeInv
    <2>1. part = "lessons"
      BY DEF Next, vars
    <2>2. [LessonsNext]_lessonVars
      BY <2>1 DEF Next, vars
    <2> QED
      BY <2>1, <2>2, LessonsStepInv, AskedStep DEF WholeInv
  <1> QED
    BY <1>1, <1>2, PTL DEF Spec

\* learn.service.ts, question-builder.service.ts: the rounds of a session ask the
\* steps of each word in their order, words alike are asked alike, a word that
\* can be asked is asked, and only an empty session gives a reason.
THEOREM SessionsAreSound == Spec => []SessionSound
  <1>1. WholeInv => SessionSound
    BY AskedSuffices DEF WholeInv, SessionSound
  <1> QED
    BY <1>1, WholeInvariant, PTL

\* answer-grader.service.ts: as long as the word is the one that was asked, the
\* answer that was right in the question, and no other, is graded right.
THEOREM AnswersAreGraded == Spec => []AnswersGraded
  <1>1. WholeInv => AnswersGraded
    BY AskedSuffices DEF WholeInv, AnswersGraded
  <1> QED
    BY <1>1, WholeInvariant, PTL

\* learn.service.ts: what a session, an item, an answer and a card may be.
THEOREM LessonsAreTyped == Spec => [](part = "lessons" => LessonsTypeOK)
  <1>1. WholeInv => (part = "lessons" => LessonsTypeOK)
    BY LessonsTyped DEF WholeInv
  <1> QED
    BY <1>1, WholeInvariant, PTL

-----------------------------------------------------------------------------
(* Sourcing: the queues of the batcher *)

Calls == [kind: {"examples", "scratch"}, batch: Seq(Jobs), start: Keys]

\* j waits, in F, for the answer to a batch with this key.
Waits(j, key, F, W) ==
  F[j].pc = "waiting" /\ key[1] = F[j].kind /\ key = BatchKey(F[j].kind, W[j])

BucketHolds(b, key, F, W) ==
  /\ b.timer /\ b.items \in Seq(Jobs) /\ Len(b.items) >= 1
  /\ \A i, k \in 1..Len(b.items) : b.items[i] = b.items[k] => i = k
  /\ \A i \in 1..Len(b.items) : Waits(b.items[i], key, F, W)

CallHolds(c, F, W) ==
  /\ Len(c.batch) >= 1
  /\ \E key : key[1] = c.kind /\ \A i \in 1..Len(c.batch) : Waits(c.batch[i], key, F, W)

\* The bucket or the call where j is.
InBucket(j, B) == \E key \in DOMAIN B : \E i \in 1..Len(B[key].items) : B[key].items[i] = j
InCall(j, c) == \E i \in 1..Len(c.batch) : c.batch[i] = j

\* Who waits is in one place.
QueuesHold(B, C, F, W) ==
  /\ \A key \in DOMAIN B : BucketHolds(B[key], key, F, W)
  /\ C \in Seq(Calls) /\ \A n \in 1..Len(C) : CallHolds(C[n], F, W)
  /\ \A n, m \in 1..Len(C) : \A j \in Jobs : InCall(j, C[n]) /\ InCall(j, C[m]) => n = m
  /\ \A n \in 1..Len(C) : \A j \in Jobs : InCall(j, C[n]) => ~InBucket(j, B)
  /\ \A j \in Jobs : F[j].pc = "waiting" => InBucket(j, B) \/ \E n \in 1..Len(C) : InCall(j, C[n])

\* Who is in a place waits.
LEMMA InPlaceWaits ==
  ASSUME NEW B, NEW C, NEW F, NEW W, QueuesHold(B, C, F, W), NEW j \in Jobs, F[j].pc # "waiting"
  PROVE  ~InBucket(j, B) /\ \A n \in 1..Len(C) : ~InCall(j, C[n])
  <1>1. ~InBucket(j, B)
    BY DEF QueuesHold, InBucket, BucketHolds, Waits
  <1>2. \A n \in 1..Len(C) : ~InCall(j, C[n])
    BY DEF QueuesHold, InCall, CallHolds, Waits
  <1> QED
    BY <1>1, <1>2

\* The jobs that are in a place have not moved, and nobody else waits now.
LEMMA OthersMove ==
  ASSUME NEW B, NEW C, NEW F, NEW G, NEW W, QueuesHold(B, C, F, W),
         \A j \in Jobs : G[j] = F[j] \/ (F[j].pc # "waiting" /\ G[j].pc # "waiting")
  PROVE  QueuesHold(B, C, G, W)
  <1>1. \A j \in Jobs : \A key : Waits(j, key, F, W) => Waits(j, key, G, W)
    BY DEF Waits
  <1>2. ASSUME NEW key \in DOMAIN B PROVE BucketHolds(B[key], key, G, W)
    BY SMTT(30), <1>1 DEF QueuesHold, BucketHolds
  <1>3. C \in Seq(Calls)
    BY DEF QueuesHold
  <1>4. ASSUME NEW n \in 1..Len(C) PROVE CallHolds(C[n], G, W)
    <2>1. C[n] \in Calls
      BY <1>3
    <2>2. CallHolds(C[n], F, W)
      BY DEF QueuesHold
    <2>3. C[n].batch \in Seq(Jobs)
      BY <2>1 DEF Calls
    <2>4. \A i \in 1..Len(C[n].batch) : C[n].batch[i] \in Jobs
      BY ONLY <2>3
    <2> QED
      BY ONLY <1>1, <2>2, <2>4 DEF CallHolds
  <1>5. \A j \in Jobs : G[j].pc = "waiting" => F[j].pc = "waiting"
    OBVIOUS
  <1> QED
    BY <1>2, <1>3, <1>4, <1>5 DEF QueuesHold

\* A job gets in line.
Queued(B, key, j) == IF key \in DOMAIN B THEN Append(B[key].items, j) ELSE <<j>>

\* A job that joins a bucket waits in one place, and the others wait where they did.
LEMMA JoinsQueue ==
  ASSUME NEW B, NEW C, NEW F, NEW G, NEW W, QueuesHold(B, C, F, W),
         NEW j \in Jobs, F[j].pc # "waiting", NEW key, Waits(j, key, G, W),
         \A k \in Jobs : k # j => G[k] = F[k],
         NEW D, D = With(B, key, [items |-> Queued(B, key, j), timer |-> TRUE])
  PROVE  QueuesHold(D, C, G, W)
  <1> DEFINE items == Queued(B, key, j)
  <1>a. PICK b : b = [items |-> items, timer |-> TRUE]
    OBVIOUS
  <1>b. b.items = items /\ b.timer = TRUE
    BY <1>a
  <1>c. D = With(B, key, b)
    BY <1>a
  <1>0. /\ DOMAIN D = DOMAIN B \cup {key} /\ key \in DOMAIN D /\ D[key] = b
        /\ \A k \in DOMAIN D : k # key => k \in DOMAIN B /\ D[k] = B[k]
        /\ \A k \in DOMAIN B : k # key => k \in DOMAIN D /\ D[k] = B[k]
    BY ONLY <1>c DEF With
  <1>1. ~InBucket(j, B) /\ \A n \in 1..Len(C) : ~InCall(j, C[n])
    BY InPlaceWaits
  <1>2. \A k \in Jobs : \A q : Waits(k, q, F, W) => Waits(k, q, G, W)
    BY DEF Waits
  <1>3. /\ items \in Seq(Jobs) /\ Len(items) >= 1
        /\ \A i \in 1..Len(items) : Waits(items[i], key, G, W)
        /\ \A i, k \in 1..Len(items) : items[i] = items[k] => i = k
        /\ \E i \in 1..Len(items) : items[i] = j
        /\ \A i \in 1..Len(items) : items[i] = j \/ \E k \in 1..Len(B[key].items) : key \in DOMAIN B /\ items[i] = B[key].items[k]
        /\ key \in DOMAIN B => \A k \in 1..Len(B[key].items) : \E i \in 1..Len(items) : items[i] = B[key].items[k]
    <2>1. CASE key \in DOMAIN B
      <3>1. PICK old \in Seq(Jobs) : old = B[key].items
        BY <2>1 DEF QueuesHold, BucketHolds
      <3>2. items = Append(old, j)
        BY <2>1, <3>1 DEF Queued
      <3>3. /\ items \in Seq(Jobs) /\ Len(items) = Len(old) + 1 /\ items[Len(old) + 1] = j /\ Len(old) \in Nat
            /\ \A i \in 1..Len(old) : items[i] = old[i]
        BY <3>2, AppendProperties
      <3>4. \A i \in 1..Len(old) : Waits(old[i], key, G, W) /\ old[i] # j
        BY <1>1, <1>2, <2>1, <3>1 DEF QueuesHold, BucketHolds, InBucket
      <3>5. \A i, k \in 1..Len(old) : old[i] = old[k] => i = k
        BY <2>1, <3>1 DEF QueuesHold, BucketHolds
      <3> HIDE DEF items
      <3>6. \A i \in 1..Len(items) : i \in 1..Len(old) \/ i = Len(old) + 1
        BY ONLY <3>3
      <3>7. \A i \in 1..Len(items) : Waits(items[i], key, G, W)
        BY <3>3, <3>4, <3>6
      <3>8. \A i, k \in 1..Len(items) : items[i] = items[k] => i = k
        BY ONLY <3>3, <3>4, <3>5, <3>6
      <3>9. Len(items) >= 1 /\ Len(old) + 1 \in 1..Len(items) /\ \A i \in 1..Len(old) : i \in 1..Len(items)
        BY ONLY <3>3
      <3> QED
        BY <2>1, <3>1, <3>3, <3>6, <3>7, <3>8, <3>9
    <2>2. CASE key \notin DOMAIN B
      <3>1. items = <<j>>
        BY <2>2 DEF Queued
      <3>2. items \in Seq(Jobs) /\ Len(items) = 1 /\ items[1] = j
        BY <3>1
      <3> HIDE DEF items
      <3> QED
        BY <2>2, <3>2
    <2> QED
      BY <2>1, <2>2
  <1> HIDE DEF items
  <1>4. ASSUME NEW k \in DOMAIN D PROVE BucketHolds(D[k], k, G, W)
    <2>1. CASE k = key
      <3>1. BucketHolds(b, key, G, W)
        BY <1>b, <1>3 DEF BucketHolds
      <3> QED
        BY <1>0, <2>1, <3>1
    <2>2. CASE k # key
      <3>1. k \in DOMAIN B /\ D[k] = B[k]
        BY <1>0, <2>2
      <3>2. PICK c : c = B[k]
        OBVIOUS
      <3>3. BucketHolds(c, k, F, W)
        BY <3>1, <3>2 DEF QueuesHold
      <3>4. BucketHolds(c, k, G, W)
        BY <1>2, <3>3 DEF BucketHolds
      <3> QED
        BY <3>1, <3>2, <3>4
    <2> QED
      BY <2>1, <2>2
  <1>5. C \in Seq(Calls)
    BY DEF QueuesHold
  <1>6. ASSUME NEW n \in 1..Len(C) PROVE CallHolds(C[n], G, W)
    <2>1. C[n] \in Calls
      BY <1>5
    <2>2. CallHolds(C[n], F, W)
      BY DEF QueuesHold
    <2>3. C[n].batch \in Seq(Jobs)
      BY <2>1 DEF Calls
    <2>4. \A i \in 1..Len(C[n].batch) : C[n].batch[i] \in Jobs
      BY ONLY <2>3
    <2> QED
      BY ONLY <1>2, <2>2, <2>4 DEF CallHolds
  <1>7. \A k \in Jobs : InBucket(k, D) <=> InBucket(k, B) \/ k = j
    <2> TAKE k \in Jobs
    <2>0. D[key].items = items /\ key \in DOMAIN D
      BY ONLY <1>0, <1>b
    <2>1. ASSUME InBucket(k, D) PROVE InBucket(k, B) \/ k = j
      <3>1. PICK q \in DOMAIN D : \E i \in 1..Len(D[q].items) : D[q].items[i] = k
        BY <2>1 DEF InBucket
      <3>2. CASE q = key
        BY <1>3, <2>0, <3>1, <3>2 DEF InBucket
      <3>3. CASE q # key
        <4>1. q \in DOMAIN B /\ D[q] = B[q]
          BY ONLY <1>0, <3>3, <3>1
        <4> QED
          BY <3>1, <4>1 DEF InBucket
      <3> QED
        BY <3>2, <3>3
    <2>2. ASSUME InBucket(k, B) PROVE InBucket(k, D)
      <3>1. PICK q \in DOMAIN B : \E i \in 1..Len(B[q].items) : B[q].items[i] = k
        BY <2>2 DEF InBucket
      <3>2. CASE q = key
        <4>1. PICK i \in 1..Len(B[key].items) : B[key].items[i] = k
          BY <3>1, <3>2
        <4>2. PICK l \in 1..Len(items) : items[l] = k
          BY <1>3, <3>1, <3>2, <4>1
        <4> QED
          BY <2>0, <4>2 DEF InBucket
      <3>3. CASE q # key
        <4>1. q \in DOMAIN D /\ D[q] = B[q]
          BY <1>0, <3>3
        <4> QED
          BY <3>1, <4>1 DEF InBucket
      <3> QED
        BY <3>2, <3>3
    <2>3. InBucket(j, D)
      BY <1>3, <2>0 DEF InBucket
    <2> QED
      BY <2>1, <2>2, <2>3
  <1>8. \A n \in 1..Len(C) : \A k \in Jobs : InCall(k, C[n]) => ~InBucket(k, D)
    BY <1>1, <1>7 DEF QueuesHold
  <1>9. \A k \in Jobs : G[k].pc = "waiting" => InBucket(k, D) \/ \E n \in 1..Len(C) : InCall(k, C[n])
    BY <1>7 DEF QueuesHold
  <1>10. \A n, m \in 1..Len(C) : \A k \in Jobs : InCall(k, C[n]) /\ InCall(k, C[m]) => n = m
    BY DEF QueuesHold
  <1> QED
    BY <1>4, <1>5, <1>6, <1>8, <1>9, <1>10 DEF QueuesHold

\* A batch leaves its bucket for a call.
LEMMA LeavesQueue ==
  ASSUME NEW B, NEW C, NEW F, NEW W, QueuesHold(B, C, F, W),
         NEW key \in DOMAIN B, key[1] \in {"examples", "scratch"}, NEW start \in Keys,
         NEW D, D = Without(B, key),
         NEW E, E = Append(C, [kind |-> key[1], batch |-> B[key].items, start |-> start])
  PROVE  QueuesHold(D, E, F, W)
  <1>1. PICK c : c = [kind |-> key[1], batch |-> B[key].items, start |-> start]
    OBVIOUS
  <1>2. BucketHolds(B[key], key, F, W)
    BY DEF QueuesHold
  <1>3. c.kind = key[1] /\ c.batch = B[key].items /\ c \in Calls
    BY <1>1, <1>2 DEF Calls, BucketHolds
  <1>4. CallHolds(c, F, W)
    BY <1>2, <1>3 DEF CallHolds, BucketHolds
  <1>5. C \in Seq(Calls) /\ E = Append(C, c)
    BY <1>1 DEF QueuesHold
  <1>6. /\ E \in Seq(Calls) /\ Len(C) \in Nat /\ Len(E) = Len(C) + 1 /\ E[Len(C) + 1] = c
        /\ \A n \in 1..Len(C) : E[n] = C[n]
    BY <1>3, <1>5, AppendProperties
  <1>7. \A n \in 1..Len(E) : n \in 1..Len(C) \/ n = Len(C) + 1
    BY ONLY <1>6
  <1>8. /\ DOMAIN D = DOMAIN B \ {key}
        /\ \A k \in DOMAIN D : D[k] = B[k]
    BY DEF Without
  <1>9. \A j \in Jobs : InCall(j, c) <=> \E i \in 1..Len(B[key].items) : B[key].items[i] = j
    BY <1>3 DEF InCall
  <1>10. ASSUME NEW j \in Jobs, InCall(j, c) PROVE InBucket(j, B) /\ ~InBucket(j, D)
    <2>1. InBucket(j, B)
      BY <1>9, <1>10 DEF InBucket
    <2>2. PICK i \in 1..Len(B[key].items) : B[key].items[i] = j
      BY <1>9, <1>10
    <2>3. Waits(j, key, F, W)
      BY <1>2, <2>2 DEF BucketHolds
    <2>4. ASSUME NEW k \in DOMAIN D, NEW l \in 1..Len(D[k].items), D[k].items[l] = j PROVE FALSE
      <3>1. k # key /\ BucketHolds(B[k], k, F, W) /\ D[k] = B[k]
        BY <1>8 DEF QueuesHold
      <3>2. Waits(j, k, F, W)
        BY <3>1, <2>4 DEF BucketHolds
      <3> QED
        BY <2>3, <3>1, <3>2 DEF Waits
    <2> QED
      BY <2>1, <2>4 DEF InBucket
  <1>11. ASSUME NEW j \in Jobs, InBucket(j, B), ~InCall(j, c) PROVE InBucket(j, D)
    <2>1. PICK k \in DOMAIN B : \E i \in 1..Len(B[k].items) : B[k].items[i] = j
      BY <1>11 DEF InBucket
    <2>2. k # key
      BY <1>9, <1>11, <2>1
    <2>3. k \in DOMAIN D /\ D[k] = B[k]
      BY <1>8, <2>2
    <2> QED
      BY <2>1, <2>3 DEF InBucket
  <1>12. ASSUME NEW j \in Jobs, InBucket(j, D) PROVE InBucket(j, B)
    BY <1>8, <1>12 DEF InBucket
  <1>13. ASSUME NEW n \in 1..Len(E), NEW m \in 1..Len(E), NEW j \in Jobs, InCall(j, E[n]), InCall(j, E[m])
         PROVE  n = m
    <2>1. CASE n \in 1..Len(C) /\ m \in 1..Len(C)
      BY <1>6, <1>13, <2>1 DEF QueuesHold
    <2>2. CASE n \in 1..Len(C) /\ m = Len(C) + 1
      BY <1>6, <1>10, <1>13, <2>2 DEF QueuesHold
    <2>3. CASE m \in 1..Len(C) /\ n = Len(C) + 1
      BY <1>6, <1>10, <1>13, <2>3 DEF QueuesHold
    <2> QED
      BY <1>7, <2>1, <2>2, <2>3
  <1>14. \A n \in 1..Len(E) : CallHolds(E[n], F, W)
    BY <1>4, <1>6, <1>7 DEF QueuesHold
  <1>15. \A n \in 1..Len(E) : \A j \in Jobs : InCall(j, E[n]) => ~InBucket(j, D)
    BY <1>6, <1>7, <1>10, <1>12 DEF QueuesHold
  <1>16. \A j \in Jobs : F[j].pc = "waiting" => InBucket(j, D) \/ \E n \in 1..Len(E) : InCall(j, E[n])
    <2> TAKE j \in Jobs
    <2> HAVE F[j].pc = "waiting"
    <2>1. CASE InBucket(j, B)
      BY <1>6, <1>11, <2>1
    <2>2. CASE \E n \in 1..Len(C) : InCall(j, C[n])
      <3>1. PICK n \in 1..Len(C) : InCall(j, C[n])
        BY <2>2
      <3>2. n \in 1..Len(E) /\ E[n] = C[n]
        BY <1>6
      <3> QED
        BY <3>1, <3>2
    <2> QED
      BY <2>1, <2>2 DEF QueuesHold
  <1>17. \A k \in DOMAIN D : BucketHolds(D[k], k, F, W)
    BY <1>8 DEF QueuesHold
  <1> QED
    BY <1>6, <1>13, <1>14, <1>15, <1>16, <1>17 DEF QueuesHold

\* What is left of a sequence.
LEMMA RemovedAt ==
  ASSUME NEW S, NEW s \in Seq(S), NEW n \in 1..Len(s), NEW t, t = RemoveAt(s, n)
  PROVE  /\ t \in Seq(S) /\ Len(t) = Len(s) - 1 /\ Len(s) \in Nat
         /\ \A m \in 1..Len(t) : t[m] = IF m < n THEN s[m] ELSE s[m + 1]
  <1>1. Len(s) \in Nat /\ \A i \in 1..Len(s) : s[i] \in S
    OBVIOUS
  <1>2. PICK a : a = SubSeq(s, 1, n - 1)
    OBVIOUS
  <1>3. PICK b : b = SubSeq(s, n + 1, Len(s))
    OBVIOUS
  <1>4. t = a \o b
    BY <1>2, <1>3 DEF RemoveAt
  <1>5. a \in Seq(S) /\ Len(a) = n - 1 /\ \A i \in 1..(n - 1) : a[i] = s[i]
    <2>1. \A i \in 1..(n - 1) : s[i] \in S
      BY <1>1
    <2>2. a = [i \in 1..(n - 1) |-> s[i]]
      BY <1>1, <1>2
    <2> QED
      BY <1>1, <2>1, <2>2
  <1>6. b \in Seq(S) /\ Len(b) = Len(s) - n /\ \A i \in 1..(Len(s) - n) : b[i] = s[i + n]
    <2>1. \A i \in 1..(Len(s) - n) : s[i + n] \in S
      BY <1>1
    <2>2. b = [i \in 1..(Len(s) - n) |-> s[i + n]]
      BY <1>1, <1>3
    <2> QED
      BY <1>1, <2>1, <2>2
  <1>7. /\ a \o b \in Seq(S) /\ Len(a \o b) = Len(a) + Len(b)
        /\ \A i \in 1 .. Len(a) + Len(b) : (a \o b)[i] = IF i <= Len(a) THEN a[i] ELSE b[i - Len(a)]
    BY <1>5, <1>6, ConcatProperties
  <1>8. t \in Seq(S) /\ Len(t) = Len(s) - 1
    BY ONLY <1>1, <1>4, <1>5, <1>6, <1>7, n \in 1..Len(s)
  <1>9. ASSUME NEW m \in 1..Len(t) PROVE t[m] = IF m < n THEN s[m] ELSE s[m + 1]
    <2>1. m \in 1..(Len(a) + Len(b)) /\ (m < n <=> m <= Len(a))
      BY <1>1, <1>5, <1>6, <1>8
    <2>2. t[m] = IF m < n THEN a[m] ELSE b[m - Len(a)]
      BY <1>4, <1>7, <2>1
    <2>3. CASE m < n
      <3>1. m \in 1..(n - 1)
        BY <1>8, <1>1, <2>3
      <3> QED
        BY <1>5, <2>2, <2>3, <3>1
    <2>4. CASE ~(m < n)
      <3>1. m - Len(a) \in 1..(Len(s) - n) /\ (m - Len(a)) + n = m + 1
        BY <1>1, <1>5, <1>8, <2>4
      <3> QED
        BY <1>6, <2>2, <2>4, <3>1
    <2> QED
      BY <2>3, <2>4
  <1> QED
    BY <1>1, <1>8, <1>9

\* Every job of the batch of a call has its answer, the call is over.
LEMMA CallAnswered ==
  ASSUME NEW B, NEW C, NEW F, NEW G, NEW W, QueuesHold(B, C, F, W), NEW n \in 1..Len(C),
         \A j \in Jobs : IF InCall(j, C[n]) THEN G[j].pc # "waiting" ELSE G[j] = F[j],
         NEW D, D = RemoveAt(C, n)
  PROVE  QueuesHold(B, D, G, W)
  <1>1. C \in Seq(Calls)
    BY DEF QueuesHold
  <1>2. /\ D \in Seq(Calls) /\ Len(D) = Len(C) - 1 /\ Len(C) \in Nat
        /\ \A m \in 1..Len(D) : D[m] = IF m < n THEN C[m] ELSE C[m + 1]
    BY <1>1, RemovedAt
  <1>3. PICK old : old = [m \in 1..Len(D) |-> IF m < n THEN m ELSE m + 1]
    OBVIOUS
  <1>4. /\ \A m \in 1..Len(D) : old[m] \in 1..Len(C) /\ old[m] # n /\ D[m] = C[old[m]]
        /\ \A m, l \in 1..Len(D) : old[m] = old[l] => m = l
        /\ \A k \in 1..Len(C) : k # n => \E m \in 1..Len(D) : old[m] = k
    <2>1. ASSUME NEW m \in 1..Len(D) PROVE old[m] \in 1..Len(C) /\ old[m] # n /\ D[m] = C[old[m]]
      BY <1>2, <1>3
    <2>2. ASSUME NEW m \in 1..Len(D), NEW l \in 1..Len(D), old[m] = old[l] PROVE m = l
      BY <1>2, <1>3, <2>2
    <2>3. ASSUME NEW k \in 1..Len(C), k # n PROVE \E m \in 1..Len(D) : old[m] = k
      <3>1. CASE k < n
        <4>1. k \in 1..Len(D) /\ old[k] = k
          BY <1>2, <1>3, <3>1
        <4> QED
          BY <4>1
      <3>2. CASE ~(k < n)
        <4>1. k - 1 \in 1..Len(D) /\ old[k - 1] = k
          BY <1>2, <1>3, <2>3, <3>2
        <4> QED
          BY <4>1
      <3> QED
        BY <3>1, <3>2
    <2> QED
      BY <2>1, <2>2, <2>3
  <1>5. ASSUME NEW j \in Jobs, NEW m \in 1..Len(D), InCall(j, D[m]) PROVE G[j] = F[j]
    BY <1>4, <1>5 DEF QueuesHold
  <1>6. ASSUME NEW j \in Jobs, InBucket(j, B) PROVE G[j] = F[j]
    BY <1>6 DEF QueuesHold
  <1>7. ASSUME NEW key \in DOMAIN B PROVE BucketHolds(B[key], key, G, W)
    <2>1. BucketHolds(B[key], key, F, W)
      BY DEF QueuesHold
    <2>2. \A i \in 1..Len(B[key].items) : B[key].items[i] \in Jobs /\ InBucket(B[key].items[i], B)
      BY <2>1 DEF BucketHolds, InBucket
    <2>3. \A i \in 1..Len(B[key].items) : Waits(B[key].items[i], key, G, W)
      BY <1>6, <2>1, <2>2 DEF BucketHolds, Waits
    <2> QED
      BY <2>1, <2>3 DEF BucketHolds
  <1>8. ASSUME NEW m \in 1..Len(D) PROVE CallHolds(D[m], G, W)
    <2>1. CallHolds(D[m], F, W) /\ D[m] \in Calls
      <3>1. D[m] \in Calls
        BY <1>2
      <3>2. old[m] \in 1..Len(C) /\ D[m] = C[old[m]]
        BY <1>4
      <3>3. \A k \in 1..Len(C) : CallHolds(C[k], F, W)
        BY DEF QueuesHold
      <3> QED
        BY <3>1, <3>2, <3>3
    <2>2. \A i \in 1..Len(D[m].batch) : D[m].batch[i] \in Jobs /\ InCall(D[m].batch[i], D[m])
      BY <2>1 DEF Calls, InCall
    <2>3. PICK key : key[1] = D[m].kind /\ \A i \in 1..Len(D[m].batch) : Waits(D[m].batch[i], key, F, W)
      BY <2>1 DEF CallHolds
    <2>4. \A i \in 1..Len(D[m].batch) : Waits(D[m].batch[i], key, G, W)
      BY <1>5, <2>2, <2>3 DEF Waits
    <2> QED
      BY <2>1, <2>3, <2>4 DEF CallHolds
  <1>9. \A m, l \in 1..Len(D) : \A j \in Jobs : InCall(j, D[m]) /\ InCall(j, D[l]) => m = l
    BY <1>4 DEF QueuesHold
  <1>10. \A m \in 1..Len(D) : \A j \in Jobs : InCall(j, D[m]) => ~InBucket(j, B)
    BY <1>4 DEF QueuesHold
  <1>11. \A j \in Jobs : G[j].pc = "waiting" => InBucket(j, B) \/ \E m \in 1..Len(D) : InCall(j, D[m])
    <2> TAKE j \in Jobs
    <2> HAVE G[j].pc = "waiting"
    <2>1. ~InCall(j, C[n]) /\ F[j].pc = "waiting"
      OBVIOUS
    <2>2. CASE InBucket(j, B)
      BY <2>2
    <2>3. CASE \E m \in 1..Len(C) : InCall(j, C[m])
      <3>1. PICK k \in 1..Len(C) : InCall(j, C[k])
        BY <2>3
      <3>2. PICK m \in 1..Len(D) : old[m] = k
        BY <1>4, <2>1, <3>1
      <3> QED
        BY <1>4, <3>1, <3>2
    <2> QED
      BY <2>1, <2>2, <2>3 DEF QueuesHold
  <1> QED
    BY <1>2, <1>7, <1>8, <1>9, <1>10, <1>11 DEF QueuesHold

\* A job is in as many places as it should be.
LEMMA PlacesCounted ==
  ASSUME QueuesHold(buckets, calls, fetching, wanted), NEW j \in Jobs
  PROVE  Cardinality({at \in UNION {{<<key, i>> : i \in DOMAIN buckets[key].items} : key \in DOMAIN buckets} :
                        buckets[at[1]].items[at[2]] = j})
         + Cardinality({n \in DOMAIN calls : j \in Range(calls[n].batch)})
         = IF fetching[j].pc = "waiting" THEN 1 ELSE 0
  <1> DEFINE all == UNION {{<<key, i>> : i \in DOMAIN buckets[key].items} : key \in DOMAIN buckets}
             inBuckets == {at \in all : buckets[at[1]].items[at[2]] = j}
             inCalls == {n \in DOMAIN calls : j \in Range(calls[n].batch)}
  <1>1. ASSUME NEW key \in DOMAIN buckets
        PROVE  DOMAIN buckets[key].items = 1..Len(buckets[key].items) /\ BucketHolds(buckets[key], key, fetching, wanted)
    BY DEF QueuesHold, BucketHolds
  <1>2. \A at \in all : \E key \in DOMAIN buckets : \E i \in DOMAIN buckets[key].items : at = <<key, i>>
    OBVIOUS
  <1>3. \A key \in DOMAIN buckets : \A i \in DOMAIN buckets[key].items : <<key, i>> \in all
    OBVIOUS
  <1> HIDE DEF all
  <1>4. \A at \in inBuckets : InBucket(j, buckets)
    <2> TAKE at \in inBuckets
    <2>0. at \in all /\ buckets[at[1]].items[at[2]] = j
      OBVIOUS
    <2>a. \E key \in DOMAIN buckets : \E i \in DOMAIN buckets[key].items : at = <<key, i>>
      BY ONLY <1>2, <2>0, Zenon
    <2>b. PICK key \in DOMAIN buckets : \E i \in DOMAIN buckets[key].items : at = <<key, i>>
      BY ONLY <2>a, Zenon
    <2>1. PICK i \in DOMAIN buckets[key].items : at = <<key, i>>
      BY ONLY <2>b, Zenon
    <2>2. buckets[key].items[i] = j
      BY <2>0, <2>1
    <2> QED
      BY <1>1, <2>2 DEF InBucket
  <1>5. InBucket(j, buckets) => inBuckets # {}
    <2> HAVE InBucket(j, buckets)
    <2>1. PICK key \in DOMAIN buckets : \E i \in 1..Len(buckets[key].items) : buckets[key].items[i] = j
      BY DEF InBucket
    <2>2. PICK i \in DOMAIN buckets[key].items : buckets[key].items[i] = j
      BY <1>1, <2>1
    <2>3. PICK at : at = <<key, i>>
      OBVIOUS
    <2>4. at \in all /\ at[1] = key /\ at[2] = i
      BY <1>3, <2>3
    <2> QED
      BY <2>2, <2>4
  <1>6. \A x, y \in inBuckets : x = y
    <2> TAKE x, y \in inBuckets
    <2>0. x \in all /\ y \in all
      OBVIOUS
    <2>a. PICK key \in DOMAIN buckets : \E i \in DOMAIN buckets[key].items : x = <<key, i>>
      BY ONLY <1>2, <2>0, Zenon
    <2>1. PICK i \in DOMAIN buckets[key].items : x = <<key, i>>
      BY ONLY <2>a, Zenon
    <2>b. PICK k \in DOMAIN buckets : \E l \in DOMAIN buckets[k].items : y = <<k, l>>
      BY ONLY <1>2, <2>0, Zenon
    <2>2. PICK l \in DOMAIN buckets[k].items : y = <<k, l>>
      BY ONLY <2>b, Zenon
    <2>3. buckets[key].items[i] = j /\ buckets[k].items[l] = j
      BY <2>1, <2>2
    <2>c. /\ i \in 1..Len(buckets[key].items) /\ l \in 1..Len(buckets[k].items)
          /\ BucketHolds(buckets[key], key, fetching, wanted) /\ BucketHolds(buckets[k], k, fetching, wanted)
      BY <1>1
    <2>4. Waits(j, key, fetching, wanted) /\ Waits(j, k, fetching, wanted)
      BY <2>c, <2>3 DEF BucketHolds
    <2>5. key = k
      BY <2>4 DEF Waits
    <2>6. i = l
      BY <1>1, <2>3, <2>5 DEF BucketHolds
    <2> QED
      BY <2>1, <2>2, <2>5, <2>6
  <1>7. \A n \in 1..Len(calls) : j \in Range(calls[n].batch) <=> InCall(j, calls[n])
    <2> TAKE n \in 1..Len(calls)
    <2>1. calls[n] \in Calls
      BY DEF QueuesHold
    <2>2. DOMAIN calls[n].batch = 1..Len(calls[n].batch)
      BY <2>1 DEF Calls
    <2> QED
      BY <2>2 DEF Range, InCall
  <1>8. DOMAIN calls = 1..Len(calls)
    BY DEF QueuesHold
  <1>9. \A x, y \in inCalls : x = y
    BY <1>7, <1>8 DEF QueuesHold
  <1>10. inCalls # {} <=> \E n \in 1..Len(calls) : InCall(j, calls[n])
    BY <1>7, <1>8
  <1>11. ~(inCalls # {} /\ inBuckets # {})
    BY <1>4, <1>10 DEF QueuesHold
  <1>12. fetching[j].pc = "waiting" <=> (inCalls # {} \/ inBuckets # {})
    <2>1. fetching[j].pc = "waiting" => (inCalls # {} \/ inBuckets # {})
      BY <1>5, <1>10 DEF QueuesHold
    <2>2. (inCalls # {} \/ inBuckets # {}) => fetching[j].pc = "waiting"
      BY <1>4, <1>10, InPlaceWaits
    <2> QED
      BY <2>1, <2>2
  <1> HIDE DEF inBuckets, inCalls
  <1>13. \A S : (\A x, y \in S : x = y) => Cardinality(S) = IF S = {} THEN 0 ELSE 1
    <2> SUFFICES ASSUME NEW S, \A x, y \in S : x = y PROVE Cardinality(S) = IF S = {} THEN 0 ELSE 1
      OBVIOUS
    <2>1. CASE S = {}
      BY <2>1, FS_EmptySet
    <2>2. CASE S # {}
      <3>1. PICK x \in S : S = {x}
        BY <2>2
      <3> QED
        BY <2>2, <3>1, FS_Singleton
    <2> QED
      BY <2>1, <2>2
  <1>14. /\ Cardinality(inBuckets) = IF inBuckets = {} THEN 0 ELSE 1
         /\ Cardinality(inCalls) = IF inCalls = {} THEN 0 ELSE 1
    BY <1>6, <1>9, <1>13
  <1>15. Cardinality(inBuckets) + Cardinality(inCalls) = IF fetching[j].pc = "waiting" THEN 1 ELSE 0
    BY <1>11, <1>12, <1>14
  <1> QED
    BY <1>15 DEF inBuckets, inCalls, all

\* The keys that are tried from any key on: each key once.
LEMMA Turns ==
  ASSUME NEW N \in Nat \ {0}, NEW s \in 0..(N - 1)
  PROVE  /\ \A i \in 0..(N - 1) : (s + i) % N \in 0..(N - 1)
         /\ \A i, k \in 0..(N - 1) : (s + i) % N = (s + k) % N => i = k
         /\ \A y \in 0..(N - 1) : \E i \in 0..(N - 1) : (s + i) % N = y
  <1>1. \A i \in 0..(N - 1) : (s + i) % N = IF s + i < N THEN s + i ELSE s + i - N
    OBVIOUS
  <1>2. \A i \in 0..(N - 1) : (s + i) % N \in 0..(N - 1)
    BY <1>1
  <1>3. \A i, k \in 0..(N - 1) : (s + i) % N = (s + k) % N => i = k
    BY <1>1
  <1>4. ASSUME NEW y \in 0..(N - 1) PROVE \E i \in 0..(N - 1) : (s + i) % N = y
    <2>1. CASE y >= s
      <3>1. y - s \in 0..(N - 1) /\ s + (y - s) = y /\ y < N
        BY <2>1
      <3>2. (s + (y - s)) % N = y
        BY <1>1, <3>1
      <3> QED
        BY <3>1, <3>2
    <2>2. CASE ~(y >= s)
      <3>1. PICK i \in 0..(N - 1) : i = y - s + N
        BY <2>2
      <3>2. s + i = y + N
        BY <3>1
      <3>3. (s + i) % N = y
        BY <1>1, <3>2
      <3> QED
        BY <3>3
    <2> QED
      BY <2>1, <2>2
  <1> QED
    BY <1>2, <1>3, <1>4

\* Keys are asked in turn up to the first that is not throttled.
LEMMA KeysInTurn ==
  ASSUME NEW start \in Keys, throttled \subseteq Keys, NEW asked, asked = KeysTried(start)
  PROVE  /\ IsInjective(asked)
         /\ \A i \in 1..(Len(asked) - 1) : asked[i] \in throttled
         /\ Range(asked) \subseteq throttled <=> throttled = Keys
  <1> DEFINE N == NumKeys
             at(i) == (start + i) % N
             reached == {i \in 0..(N - 1) : \A k \in 0..(i - 1) : at(k) \in throttled}
             free == {i \in 0..(N - 1) : at(i) \notin throttled}
  <1>1. N \in Nat \ {0} /\ start \in 0..(N - 1) /\ Keys = 0..(N - 1)
    BY SourcingAssumption DEF Keys
  <1>2. /\ \A i \in 0..(N - 1) : at(i) \in 0..(N - 1)
        /\ \A i, k \in 0..(N - 1) : at(i) = at(k) => i = k
        /\ \A y \in 0..(N - 1) : \E i \in 0..(N - 1) : at(i) = y
    BY <1>1, Turns
  <1>3. asked = [i \in 1..Cardinality(reached) |-> at(i - 1)]
    BY DEF KeysTried
  <1> HIDE DEF at, N
  <1>4. PICK m \in 0..(N - 1) : /\ \A k \in 0..(m - 1) : at(k) \in throttled
                                /\ m = N - 1 \/ at(m) \notin throttled
    <2>1. CASE free = {}
      <3>1. N - 1 \in 0..(N - 1) /\ \A k \in 0..((N - 1) - 1) : k \in 0..(N - 1)
        BY <1>1
      <3>2. \A k \in 0..((N - 1) - 1) : at(k) \in throttled
        BY <2>1, <3>1
      <3> QED
        BY <3>1, <3>2
    <2>2. CASE free # {}
      <3>1. free \subseteq Nat
        BY <1>1
      <3>2. PICK m \in free : \A i \in free : m <= i
        BY <2>2, <3>1, LeastNatural
      <3>3. m \in 0..(N - 1) /\ at(m) \notin throttled
        OBVIOUS
      <3>4. \A k \in 0..(m - 1) : k \in 0..(N - 1) /\ ~(m <= k)
        BY <1>1, <3>3
      <3>5. \A k \in 0..(m - 1) : at(k) \in throttled
        BY <3>2, <3>4
      <3> QED
        BY <3>3, <3>5
    <2> QED
      BY <2>1, <2>2
  <1>5. reached = 0..m
    <2>1. ASSUME NEW i \in reached PROVE i \in 0..m
      <3>1. CASE m = N - 1
        BY <1>1, <3>1
      <3>2. CASE at(m) \notin throttled
        <4>1. m \notin 0..(i - 1)
          BY <3>2
        <4> QED
          BY <1>1, <1>4, <4>1
      <3> QED
        BY <1>4, <3>1, <3>2
    <2>2. ASSUME NEW i \in 0..m PROVE i \in reached
      <3>1. i \in 0..(N - 1) /\ \A k \in 0..(i - 1) : k \in 0..(m - 1)
        BY <1>1
      <3> QED
        BY <1>4, <3>1
    <2> QED
      BY <2>1, <2>2
  <1>6. Cardinality(reached) = m + 1
    <2>1. Cardinality(0..m) = m - 0 + 1
      BY <1>1, FS_Interval
    <2> QED
      <3>1. m - 0 + 1 = m + 1
        BY <1>1
      <3> QED
        BY ONLY <1>5, <2>1, <3>1
  <1> HIDE DEF reached
  <1>7. asked = [i \in 1..(m + 1) |-> at(i - 1)]
    BY <1>3, <1>6
  <1>8. Len(asked) = m + 1 /\ DOMAIN asked = 1..(m + 1) /\ \A i \in 1..(m + 1) : asked[i] = at(i - 1) /\ i - 1 \in 0..(N - 1)
    BY <1>1, <1>7
  <1>9. IsInjective(asked)
    <2>1. ASSUME NEW i \in 1..(m + 1), NEW k \in 1..(m + 1), asked[i] = asked[k] PROVE i = k
      <3>1. at(i - 1) = at(k - 1) /\ i - 1 \in 0..(N - 1) /\ k - 1 \in 0..(N - 1)
        BY <1>8, <2>1
      <3>2. i - 1 = k - 1
        BY <1>2, <3>1
      <3> QED
        BY <1>1, <3>2
    <2> QED
      BY <1>8, <2>1 DEF IsInjective
  <1>10. \A i \in 1..(Len(asked) - 1) : asked[i] \in throttled
    <2> TAKE i \in 1..(Len(asked) - 1)
    <2>1. i \in 1..(m + 1) /\ i - 1 \in 0..(m - 1)
      BY <1>1, <1>8
    <2> QED
      BY <1>4, <1>8, <2>1
  <1>11. Range(asked) = {at(k) : k \in 0..m}
    <2>1. ASSUME NEW y \in Range(asked) PROVE y \in {at(k) : k \in 0..m}
      <3>1. PICK i \in 1..(m + 1) : y = asked[i]
        BY <1>8 DEF Range
      <3>2. i - 1 \in 0..m
        BY <1>1
      <3> QED
        BY <1>8, <3>1, <3>2
    <2>2. ASSUME NEW k \in 0..m PROVE at(k) \in Range(asked)
      <3>1. k + 1 \in 1..(m + 1) /\ (k + 1) - 1 = k
        BY <1>1
      <3>2. asked[k + 1] = at(k)
        BY <1>8, <3>1
      <3> QED
        BY <1>8, <3>1, <3>2 DEF Range
    <2> QED
      BY <2>1, <2>2
  <1>12. ASSUME Range(asked) \subseteq throttled PROVE throttled = Keys
    <2>1. m \in 0..m
      BY <1>1
    <2>2. at(m) \in throttled
      BY <1>11, <1>12, <2>1
    <2>3. m = N - 1
      BY <1>4, <2>2
    <2>4. \A y \in Keys : y \in throttled
      BY <1>1, <1>2, <1>11, <1>12, <2>3
    <2> QED
      BY <2>4
  <1>13. ASSUME throttled = Keys PROVE Range(asked) \subseteq throttled
    <2>1. \A k \in 0..m : k \in 0..(N - 1)
      BY <1>1
    <2>2. \A k \in 0..m : at(k) \in throttled
      BY ONLY <1>1, <1>2, <1>13, <2>1
    <2> QED
      BY ONLY <1>11, <2>2
  <1> QED
    BY <1>9, <1>10, <1>12, <1>13

-----------------------------------------------------------------------------
(* The invariant of the sources *)

Target(row) == ResolveTranslationLanguage(row)
InputOf(row) == InputGroups(DictionaryGroups(row))

\* What the model said, about a word if the reply named its words.
SaidPiece(piece, named, lemma, target) ==
  piece.by = "model" /\ (named => \E a, b \in Nat : piece.of = <<lemma, target, a, b>>)
SaidLevel(level, named, lemma, target) == level = Nothing \/ SaidPiece(level, named, lemma, target)

\* The only group of its part of speech.
Alone(groups, g) == \A h \in DOMAIN groups : groups[h].pos = groups[g].pos => h = g

\* What was said about the groups of a dictionary, if anything was.
DictionarySaid(said, groups, named, lemma, target) ==
  /\ SaidLevel(said.cefr, named, lemma, target)
  /\ said.groups # <<>> =>
       /\ Len(said.groups) = Len(groups) /\ DOMAIN said.groups = DOMAIN groups
       /\ \A g \in DOMAIN groups :
            /\ said.groups[g].pos = groups[g].pos
            /\ \A k \in DOMAIN said.groups[g].senses :
                 /\ SaidPiece(said.groups[g].senses[k], named, lemma, target)
                 /\ named /\ Alone(groups, g) => said.groups[g].senses[k].of = <<lemma, target, g, k>>

\* Groups in a list, each with its senses in a list.
Listed(groups) ==
  /\ Len(groups) \in Nat /\ DOMAIN groups = 1..Len(groups)
  /\ \A g \in 1..Len(groups) :
       Len(groups[g].senses) \in Nat /\ DOMAIN groups[g].senses = 1..Len(groups[g].senses)

\* What was said about a word that no dictionary has.
ScratchSaid(said, named, lemma, target) ==
  /\ SaidLevel(said.cefr, named, lemma, target) /\ Listed(said.groups) /\ Len(said.groups) >= 1
  /\ \A g \in DOMAIN said.groups : \A k \in DOMAIN said.groups[g].senses :
       SaidPiece(said.groups[g].senses[k], named, lemma, target)

AnsweredAs(kind, groups, said, named, row) ==
  \/ kind = "scratch" /\ ScratchSaid(said, named, row.lemma, Target(row))
  \/ /\ kind \in {"examples", "plain"} /\ groups = InputOf(row) /\ groups # <<>>
     /\ DictionarySaid(said, groups, named, row.lemma, Target(row))
     /\ kind = "examples" => Len(said.groups) = Len(groups)

\* OwnContent, ExamplesApart and CacheKept, of drafts.
OwnIn(drafts, kind, lemma, target) ==
  \A g \in DOMAIN drafts :
    /\ drafts[g].cefr.by = "model" => drafts[g].cefr.of[1] = lemma
    /\ \A k \in DOMAIN drafts[g].senses : \A piece \in PiecesOf(drafts[g].senses[k]) :
         piece.by = "model" =>
           /\ SubSeq(piece.of, 1, 2) = <<lemma, target>>
           /\ kind = "examples" /\ Alone(drafts, g) => SubSeq(piece.of, 3, 4) = <<g, k>>

ApartIn(drafts) ==
  LET places == UNION {{<<g, k>> : k \in DOMAIN drafts[g].senses} : g \in DOMAIN drafts}
      examples(p) == drafts[p[1]].senses[p[2]].examples
  IN /\ \A p, q \in places : \A d \in DOMAIN examples(p), e \in DOMAIN examples(q) :
          examples(p)[d].text = examples(q)[e].text /\ examples(p)[d].text.by = "corpus" => p = q
     /\ \A p \in places : \A e \in DOMAIN examples(p) :
          examples(p)[e].translation \in {Nothing, examples(p)[e].text}

UntranslatedIn(drafts, target) ==
  target = "none" => \A g \in DOMAIN drafts : \A k \in DOMAIN drafts[g].senses :
    drafts[g].senses[k].translation = Nothing

DraftsSound(drafts, named, kind, lemma, target) ==
  /\ drafts # <<>> /\ kind \in {"examples", "scratch", "plain"}
  /\ named => OwnIn(drafts, kind, lemma, target)
  /\ ApartIn(drafts) /\ UntranslatedIn(drafts, target)

FetchStages == {"idle", "waiting", "answered", "prepared", "empty", "failed"}
FetchKinds == {"none", "examples", "scratch", "plain"}

IsFetch(f) ==
  f = [pc |-> f.pc, tries |-> f.tries, kind |-> f.kind, groups |-> f.groups, said |-> f.said,
       named |-> f.named, drafts |-> f.drafts, hit |-> f.hit]

\* Where a job is, for this row.
FetchSound(f, row) ==
  /\ IsFetch(f) /\ f.pc \in FetchStages /\ f.tries \in 0..JobTries /\ f.kind \in FetchKinds
  /\ f.hit \in BOOLEAN /\ (f.hit => f.pc = "prepared")
  /\ f.pc = "waiting" => f.kind \in {"examples", "scratch"}
  /\ f.pc = "waiting" /\ f.kind = "examples" => f.groups = InputOf(row) /\ f.groups # <<>>
  /\ f.pc = "answered" => AnsweredAs(f.kind, f.groups, f.said, f.named, row)
  /\ f.pc = "prepared" => DraftsSound(f.drafts, f.named, f.kind, row.lemma, Target(row))

Rows == [lemma: Lemmas, language: STRING, translationLanguage: STRING]

Fetches == DOMAIN fetching = Jobs /\ \A j \in Jobs : wanted[j] \in Rows /\ FetchSound(fetching[j], wanted[j])

CacheSound ==
  /\ \A key \in DOMAIN cache :
       DraftsSound(cache[key].drafts, cache[key].named, cache[key].kind, key[2], key[3])
  /\ \A j \in Jobs : fetching[j].pc = "prepared" /\ fetching[j].hit =>
       CacheKey(wanted[j]) \in DOMAIN cache /\ cache[CacheKey(wanted[j])].drafts = fetching[j].drafts

LexiconSound == \A at \in DOMAIN lexicon : lexicon[at] \in {"dictionary", "opus-mt"}

\* The queues, the last one not full.
Queues ==
  /\ QueuesHold(buckets, calls, fetching, wanted)
  /\ \A key \in DOMAIN buckets : Len(buckets[key].items) <= MaxBatch - 1

Rotation ==
  /\ throttled \subseteq Keys /\ nextStartIndex \in Keys
  /\ lastCall.outcome \in {"none", "throttled", "error", "reply"} /\ KeysRotated

SourcingInv ==
  Fetches /\ CacheSound /\ LexiconSound /\ Queues /\ Rotation /\ mishaps \in 0..MaxMishaps

\* The invariant holds at the start.
LEMMA SourcingInitInv == SourcingInit => SourcingInv
  <1> SUFFICES ASSUME SourcingInit PROVE SourcingInv
    OBVIOUS
  <1>1. Fetches
    <2>1. PICK none : none = NotFetched
      OBVIOUS
    <2>2. /\ none.pc = "idle" /\ none.tries = 0 /\ none.kind = "none" /\ none.hit = FALSE
          /\ IsFetch(none)
      BY <2>1 DEF NotFetched, IsFetch
    <2>3. 0 \in 0..JobTries
      BY SourcingAssumption
    <2>4. \A j \in Jobs : wanted[j] \in Rows /\ fetching[j] = none
      BY <2>1, ContentAssumption DEF SourcingInit, Rows
    <2> QED
      BY <2>2, <2>3, <2>4 DEF Fetches, FetchSound, FetchStages, FetchKinds, SourcingInit
  <1>2. DOMAIN cache = {} /\ DOMAIN buckets = {}
    BY DEF SourcingInit
  <1>3. \A j \in Jobs : fetching[j].pc = "idle"
    BY DEF SourcingInit, NotFetched
  <1>4. CacheSound
    BY <1>2, <1>3 DEF CacheSound
  <1>5. LexiconSound
    BY DEF SourcingInit, LexiconSound
  <1>6. Queues
    <2>1. calls \in Seq(Calls) /\ Len(calls) = 0
      BY DEF SourcingInit
    <2> QED
      BY <1>2, <1>3, <2>1 DEF Queues, QueuesHold
  <1>7. Rotation
    <2>1. throttled \subseteq Keys /\ 0 \in Keys
      BY SourcingAssumption DEF SourcingInit, Keys
    <2>2. lastCall.asked = <<>> /\ lastCall.outcome = "none"
      BY DEF SourcingInit
    <2>3. DOMAIN <<>> = {} /\ Len(<<>>) = 0
      OBVIOUS
    <2>4. KeysRotated
      BY <2>2, <2>3 DEF KeysRotated, IsInjective
    <2> QED
      BY <2>1, <2>2, <2>4 DEF Rotation, SourcingInit
  <1>8. mishaps \in 0..MaxMishaps
    BY SourcingAssumption DEF SourcingInit
  <1> QED
    BY <1>1, <1>4, <1>5, <1>6, <1>7, <1>8 DEF SourcingInv

\* The invariant gives the types.
LEMMA SourcingInvTypeOK == SourcingInv => SourcingTypeOK
  <1> SUFFICES ASSUME SourcingInv PROVE SourcingTypeOK
    OBVIOUS
  <1>1. ASSUME NEW j \in Jobs
        PROVE  /\ fetching[j].pc \in {"idle", "waiting", "answered", "prepared", "empty", "failed"}
               /\ fetching[j].tries \in 0..JobTries
               /\ fetching[j].kind \in {"none", "examples", "scratch", "plain"}
               /\ fetching[j].pc = "prepared" => fetching[j].drafts # <<>>
               /\ fetching[j].pc = "answered" /\ fetching[j].kind = "examples" =>
                    Len(fetching[j].said.groups) = Len(fetching[j].groups)
    <2>1. FetchSound(fetching[j], wanted[j])
      BY DEF SourcingInv, Fetches
    <2>2. fetching[j].pc = "prepared" => fetching[j].drafts # <<>>
      BY <2>1 DEF FetchSound, DraftsSound
    <2>3. fetching[j].pc = "answered" /\ fetching[j].kind = "examples" =>
            Len(fetching[j].said.groups) = Len(fetching[j].groups)
      BY <2>1 DEF FetchSound, AnsweredAs
    <2> QED
      BY <2>1, <2>2, <2>3 DEF FetchSound, FetchStages, FetchKinds
  <1>2. ASSUME NEW key \in DOMAIN buckets
        PROVE  key[1] \in {"examples", "scratch"} /\ Range(buckets[key].items) \subseteq Jobs
    <2>1. BucketHolds(buckets[key], key, fetching, wanted)
      BY DEF SourcingInv, Queues, QueuesHold
    <2>2. buckets[key].items \in Seq(Jobs) /\ 1 \in 1..Len(buckets[key].items)
      BY <2>1 DEF BucketHolds
    <2>3. Waits(buckets[key].items[1], key, fetching, wanted) /\ buckets[key].items[1] \in Jobs
      BY <2>1, <2>2 DEF BucketHolds
    <2>4. key[1] \in {"examples", "scratch"}
      BY <2>3 DEF Waits, SourcingInv, Fetches, FetchSound
    <2> QED
      BY <2>2, <2>4 DEF Range
  <1>3. ASSUME NEW n \in DOMAIN calls PROVE calls[n].batch # <<>> /\ calls[n].start \in Keys
    <2>1. calls \in Seq(Calls) /\ n \in 1..Len(calls)
      BY DEF SourcingInv, Queues, QueuesHold
    <2>2. calls[n] \in Calls /\ Len(calls[n].batch) >= 1
      BY <2>1 DEF SourcingInv, Queues, QueuesHold, CallHolds
    <2> QED
      BY <2>2 DEF Calls
  <1> QED
    BY <1>1, <1>2, <1>3 DEF SourcingTypeOK, SourcingInv, Rotation

\* The invariant gives the properties of the sources.
LEMMA SourcingInvSafe ==
  SourcingInv => EveryCallerInOnePlace /\ KeysRotated /\ OwnContent /\ ExamplesApart /\ CacheKept
  <1> SUFFICES ASSUME SourcingInv
               PROVE  EveryCallerInOnePlace /\ KeysRotated /\ OwnContent /\ ExamplesApart /\ CacheKept
    OBVIOUS
  <1>1. EveryCallerInOnePlace
    <2>1. QueuesHold(buckets, calls, fetching, wanted)
      BY DEF SourcingInv, Queues
    <2>2. ASSUME NEW key \in DOMAIN buckets PROVE buckets[key].timer /\ Len(buckets[key].items) \in 1..(MaxBatch - 1)
      <3>1. BucketHolds(buckets[key], key, fetching, wanted)
        BY <2>1 DEF QueuesHold
      <3>2. buckets[key].timer /\ Len(buckets[key].items) \in Nat /\ Len(buckets[key].items) >= 1
        BY <3>1 DEF BucketHolds
      <3>3. Len(buckets[key].items) <= MaxBatch - 1
        BY DEF SourcingInv, Queues
      <3> QED
        BY <3>2, <3>3, SourcingAssumption
    <2> QED
      BY <2>1, <2>2, PlacesCounted DEF EveryCallerInOnePlace
  <1>2. KeysRotated
    BY DEF SourcingInv, Rotation
  <1>3. ASSUME NEW j \in Jobs, fetching[j].pc = "prepared"
        PROVE  DraftsSound(fetching[j].drafts, fetching[j].named, fetching[j].kind, wanted[j].lemma, Target(wanted[j]))
    BY <1>3 DEF SourcingInv, Fetches, FetchSound
  <1>4. OwnContent
    BY <1>3 DEF OwnContent, DraftsSound, OwnIn, Alone, Target
  <1>5. ExamplesApart
    BY <1>3 DEF ExamplesApart, DraftsSound, ApartIn
  <1>6. CacheKept
    <2>1. ASSUME NEW j \in Jobs, fetching[j].pc = "prepared", fetching[j].hit
          PROVE  cache[CacheKey(wanted[j])].drafts = fetching[j].drafts
      BY <2>1 DEF SourcingInv, CacheSound
    <2>2. ASSUME NEW j \in Jobs, fetching[j].pc = "prepared"
          PROVE  UntranslatedIn(fetching[j].drafts, CacheKey(wanted[j])[3])
      BY <1>3, <2>2 DEF DraftsSound, CacheKey, Target
    <2> QED
      BY <2>1, <2>2 DEF CacheKept, UntranslatedIn
  <1> QED
    BY <1>1, <1>2, <1>4, <1>5, <1>6

\* A list that is made place by place.
LEMMA MadeList ==
  ASSUME NEW S, NEW n \in Nat, NEW list, DOMAIN list = 1..n, list = [i \in 1..n |-> list[i]],
         \A i \in 1..n : list[i] \in S
  PROVE  list \in Seq(S) /\ Len(list) = n
  OBVIOUS

\* What is somewhere in a list is where it comes first.
LEMMA FirstsHold ==
  ASSUME NEW E, NEW list \in Seq(E)
  PROVE  /\ Firsts(list) \in Seq(E)
         /\ \A i \in 1..Len(list) : \E m \in 1..Len(Firsts(list)) : Firsts(list)[m] = list[i]
  <1>1. PICK I : I = {i \in DOMAIN list : \A j \in DOMAIN list : list[j] = list[i] => i <= j}
    OBVIOUS
  <1>2. I \in SUBSET DOMAIN list
    BY <1>1
  <1>3. PICK kept : kept = TakenAt(list, I)
    OBVIOUS
  <1>4. PICK places : PlacesTaken(places, kept, list, I, E)
    BY <1>2, <1>3, FilteredPlaces
  <1>5. Firsts(list) = kept
    BY <1>1, <1>3 DEF Firsts
  <1>6. ASSUME NEW i \in 1..Len(list) PROVE \E m \in 1..Len(kept) : kept[m] = list[i]
    <2>1. DOMAIN list = 1..Len(list) /\ Len(list) \in Nat
      OBVIOUS
    <2>2. PICK T : T = {j \in 1..Len(list) : list[j] = list[i]}
      OBVIOUS
    <2>3. T \in SUBSET Nat /\ T # {}
      BY <2>1, <2>2
    <2>4. PICK n \in T : \A m \in T : n <= m
      BY <2>3, LeastNatural
    <2>5. n \in I /\ list[n] = list[i]
      BY <1>1, <2>1, <2>2, <2>4
    <2>6. PICK k \in 1..Len(kept) : places[k] = n
      BY <1>4, <2>5 DEF PlacesTaken
    <2> QED
      BY <1>4, <2>5, <2>6 DEF PlacesTaken
  <1> QED
    BY <1>4, <1>5, <1>6 DEF PlacesTaken

-----------------------------------------------------------------------------
(* What the dictionaries give *)

\* Groups with lists of senses.
PromptTyped(groups) ==
  /\ Len(groups) \in Nat /\ DOMAIN groups = 1..Len(groups)
  /\ \A g \in 1..Len(groups) : groups[g].senses \in Seq(BOOLEAN)

Meanings == [pos: STRING, senses: Seq(BOOLEAN)]
Bodies == [ipa: BOOLEAN, meanings: Seq(Meanings)]
LocalRows == [pos: STRING, ipa: BOOLEAN, senses: Seq(BOOLEAN)]
Ipas == {"dictionary", "espeak", "none"}
RawGroups == [raw: STRING, ipa: Ipas, senses: Seq(BOOLEAN)]

\* Groups of the English dictionary.
LEMMA ApiGroups ==
  ASSUME NEW body \in Seq(Bodies)
  PROVE  ParseDictionaryResponse(body) \in Seq(RawGroups)
  <1>1. PICK lists : lists = [e \in DOMAIN body |-> body[e].meanings]
    OBVIOUS
  <1>2. lists \in Seq(Seq(Meanings))
    <2>1. \A e \in 1..Len(body) : body[e] \in Bodies
      OBVIOUS
    <2>2. \A e \in 1..Len(body) : body[e].meanings \in Seq(Meanings)
      BY ONLY <2>1 DEF Bodies
    <2>3. DOMAIN body = 1..Len(body) /\ Len(body) \in Nat
      OBVIOUS
    <2> QED
      BY <1>1, <2>2, <2>3
  <1>3. PICK all : all = FlattenSeq(lists)
    OBVIOUS
  <1>4. all \in Seq(Meanings)
    BY <1>2, <1>3, Flattened DEF Flat
  <1>5. PICK I : I = {i \in DOMAIN all : all[i].senses # <<>>}
    OBVIOUS
  <1>6. PICK meanings : meanings = TakenAt(all, I)
    OBVIOUS
  <1>7. meanings \in Seq(Meanings)
    BY <1>4, <1>5, <1>6, FilteredList DEF SiftedTo
  <1>8. PICK pos : pos = [m \in DOMAIN meanings |-> meanings[m].pos]
    OBVIOUS
  <1>9. pos \in Seq(STRING)
    <2>1. \A m \in 1..Len(meanings) : meanings[m] \in Meanings
      BY <1>7
    <2>2. \A m \in 1..Len(meanings) : meanings[m].pos \in STRING
      BY ONLY <2>1 DEF Meanings
    <2>3. DOMAIN meanings = 1..Len(meanings) /\ Len(meanings) \in Nat
      BY <1>7
    <2> QED
      BY <1>8, <2>2, <2>3
  <1>10. PICK labels : labels = Firsts(pos)
    OBVIOUS
  <1>11. labels \in Seq(STRING)
    BY <1>9, <1>10, FirstsHold
  <1>12. PICK ipa \in Ipas : ipa = IF FirstIpa(body) THEN "dictionary" ELSE "none"
    <2>1. CASE FirstIpa(body)
      BY <2>1 DEF Ipas
    <2>2. CASE ~FirstIpa(body)
      BY <2>2 DEF Ipas
    <2> QED
      BY <2>1, <2>2
  <1> DEFINE Of(label) == [m \in DOMAIN meanings |-> IF meanings[m].pos = label THEN meanings[m].senses ELSE <<>>]
             Made == [g \in DOMAIN labels |-> [raw |-> labels[g], ipa |-> ipa, senses |-> FlattenSeq(Of(labels[g]))]]
  <1>13. ParseDictionaryResponse(body) = Made
    BY SMTT(30), <1>1, <1>3, <1>5, <1>6, <1>8, <1>10, <1>12 DEF ParseDictionaryResponse, Filtered
  <1>14. \A label : Of(label) \in Seq(Seq(BOOLEAN))
    <2> TAKE label
    <2>1. <<>> \in Seq(BOOLEAN)
      BY EmptySeq
    <2>2. \A m \in 1..Len(meanings) : meanings[m] \in Meanings
      BY <1>7
    <2>3. \A m \in 1..Len(meanings) : meanings[m].senses \in Seq(BOOLEAN)
      BY ONLY <2>2 DEF Meanings
    <2>4. DOMAIN meanings = 1..Len(meanings) /\ Len(meanings) \in Nat
      BY <1>7
    <2>5. \A m \in 1..Len(meanings) :
            (IF meanings[m].pos = label THEN meanings[m].senses ELSE <<>>) \in Seq(BOOLEAN)
      BY ONLY <2>1, <2>3
    <2>6. PICK n \in Nat : n = Len(meanings)
      BY <2>4
    <2>7. PICK S : S = Seq(BOOLEAN)
      OBVIOUS
    <2>8. [m \in 1..n |-> IF meanings[m].pos = label THEN meanings[m].senses ELSE <<>>] \in Seq(S)
      BY ONLY <2>5, <2>6, <2>7
    <2> QED
      BY <2>4, <2>6, <2>7, <2>8
  <1>15. \A label : FlattenSeq(Of(label)) \in Seq(BOOLEAN)
    <2> TAKE label
    <2>1. PICK of : of = Of(label)
      OBVIOUS
    <2>2. of \in Seq(Seq(BOOLEAN))
      BY <1>14, <2>1
    <2>3. FlattenSeq(of) \in Seq(BOOLEAN)
      BY <2>2, Flattened DEF Flat
    <2> QED
      BY <2>1, <2>3
  <1>16. \A g \in DOMAIN labels : [raw |-> labels[g], ipa |-> ipa, senses |-> FlattenSeq(Of(labels[g]))] \in RawGroups
    <2> HIDE DEF Of
    <2> QED
      BY <1>11, <1>15 DEF RawGroups
  <1>17. Made \in Seq(RawGroups)
    <2> HIDE DEF Of
    <2>1. DOMAIN labels = 1..Len(labels) /\ Len(labels) \in Nat
      BY <1>11
    <2> QED
      BY <1>16, <2>1
  <1> QED
    BY <1>13, <1>17

\* Groups of either dictionary, cut and labelled for the prompt.
LEMMA LocalGroups ==
  ASSUME NEW lemma \in Lemmas
  PROVE  WiktionaryLookup(lemma) \in Seq(RawGroups)
  <1>1. PICK rows \in Seq(LocalRows) : rows = Wiktionary[lemma]
    BY ContentAssumption DEF LocalRows
  <1>2. PICK ipa \in Ipas : ipa = IF FirstIpa(rows) THEN "dictionary" ELSE "espeak"
    <2>1. CASE FirstIpa(rows)
      BY <2>1 DEF Ipas
    <2>2. CASE ~FirstIpa(rows)
      BY <2>2 DEF Ipas
    <2> QED
      BY <2>1, <2>2
  <1>3. WiktionaryLookup(lemma) = [g \in DOMAIN rows |-> [raw |-> rows[g].pos, ipa |-> ipa, senses |-> rows[g].senses]]
    BY <1>1, <1>2 DEF WiktionaryLookup
  <1>4. \A g \in 1..Len(rows) : [raw |-> rows[g].pos, ipa |-> ipa, senses |-> rows[g].senses] \in RawGroups
    <2>1. \A g \in 1..Len(rows) : rows[g] \in LocalRows
      OBVIOUS
    <2>2. \A g \in 1..Len(rows) : rows[g].pos \in STRING /\ rows[g].senses \in Seq(BOOLEAN)
      BY ONLY <2>1 DEF LocalRows
    <2> QED
      BY <2>2 DEF RawGroups
  <1>5. DOMAIN rows = 1..Len(rows) /\ Len(rows) \in Nat
    OBVIOUS
  <1> QED
    BY <1>3, <1>4, <1>5

\* The groups a word of a dictionary is asked about.
LEMMA InputTyped ==
  ASSUME NEW row \in Rows
  PROVE  PromptTyped(InputOf(row)) /\ (InputOf(row) # <<>> => Len(InputOf(row)) >= 1)
  <1>1. PICK found \in Seq(RawGroups) : found = DictionaryGroups(row)
    <2>1. row.lemma \in Lemmas
      BY DEF Rows
    <2>2. PICK body \in Seq(Bodies) : body = Dictionary[row.lemma]
      BY <2>1, ContentAssumption DEF Bodies, Meanings
    <2>3. ParseDictionaryResponse(body) \in Seq(RawGroups) /\ WiktionaryLookup(row.lemma) \in Seq(RawGroups)
      BY <2>1, ApiGroups, LocalGroups
    <2>4. DictionaryGroups(row) \in {ParseDictionaryResponse(body), WiktionaryLookup(row.lemma)}
      BY <2>2 DEF DictionaryGroups
    <2> QED
      BY <2>3, <2>4
  <1>2. PICK I : I = {i \in DOMAIN found : MapPartOfSpeech(found[i].raw) # "none"}
    OBVIOUS
  <1>3. PICK known : known = TakenAt(found, I)
    OBVIOUS
  <1>4. known \in Seq(RawGroups)
    BY <1>2, <1>3, FilteredList DEF SiftedTo
  <1>5. PICK groups : groups = [g \in DOMAIN known |->
          [pos |-> MapPartOfSpeech(known[g].raw), ipa |-> known[g].ipa,
           senses |-> SubSeq(known[g].senses, 1, Smaller(SensesPerPos, Len(known[g].senses)))]]
    OBVIOUS
  <1>6. InputOf(row) = groups
    BY <1>1, <1>2, <1>3, <1>5 DEF InputOf, InputGroups, Filtered
  <1>7. DOMAIN groups = 1..Len(known) /\ Len(known) \in Nat /\ Len(groups) = Len(known)
    BY <1>4, <1>5
  <1>8. ASSUME NEW g \in 1..Len(groups) PROVE groups[g].senses \in Seq(BOOLEAN)
    <2>0. known[g] \in RawGroups
      BY <1>4, <1>7
    <2>1. PICK senses \in Seq(BOOLEAN) : senses = known[g].senses
      BY ONLY <2>0 DEF RawGroups
    <2>2. PICK n \in Nat : n = Smaller(SensesPerPos, Len(senses)) /\ n <= Len(senses)
      BY SourcingAssumption DEF Smaller
    <2>3. groups[g].senses = SubSeq(senses, 1, n)
      BY <1>5, <1>7, <2>1, <2>2
    <2>4. SubSeq(senses, 1, n) \in Seq(BOOLEAN)
      BY <2>2, SubSeqProperties
    <2> QED
      BY <2>3, <2>4
  <1>9. groups # <<>> => Len(groups) >= 1
    BY <1>5, <1>7
  <1> QED
    BY <1>6, <1>7, <1>8, <1>9 DEF PromptTyped

-----------------------------------------------------------------------------
(* What the model replies *)

ReplyGroups(groups) ==
  [label: {groups[g].pos : g \in 1..Len(groups)}, group: 1..Len(groups), senses: Seq({1, 2})]

\* The groups of a reply, each labelled as the group of the prompt it is about,
\* and none without its label but those that are left out at the end.
GroupsAbout(list, groups) ==
  /\ list \in Seq(ReplyGroups(groups))
  /\ \A k \in 1..Len(list) : list[k].label = groups[list[k].group].pos
  /\ \A g \in 1..Len(groups) : g \in 1..Len(list) =>
       \E k \in 1..Len(list) : list[k].label = groups[g].pos

FullReply(groups) ==
  [g \in DOMAIN groups |->
     [label |-> groups[g].pos, group |-> g, senses |-> [k \in DOMAIN groups[g].senses |-> 2]]]

\* Every group of the prompt in its place.
IsFull(full, groups) ==
  /\ full \in Seq(ReplyGroups(groups)) /\ Len(full) = Len(groups)
  /\ \A g \in 1..Len(groups) : full[g].label = groups[g].pos /\ full[g].group = g

\* The full reply, place by place.
LEMMA FullIs ==
  ASSUME NEW groups, Listed(groups), NEW full, full = FullReply(groups)
  PROVE  IsFull(full, groups)
  <1>1. PICK n \in Nat : n = Len(groups) /\ DOMAIN groups = 1..n
    BY DEF Listed
  <1>2. ASSUME NEW g \in 1..n
        PROVE  full[g] \in ReplyGroups(groups) /\ full[g].label = groups[g].pos /\ full[g].group = g
    <2>1. PICK senses : senses = [k \in DOMAIN groups[g].senses |-> 2]
      OBVIOUS
    <2>2. senses \in Seq({1, 2})
      <3>1. PICK m \in Nat : DOMAIN groups[g].senses = 1..m
        BY <1>1 DEF Listed
      <3> QED
        BY ONLY <2>1, <3>1
    <2>3. full[g] = [label |-> groups[g].pos, group |-> g, senses |-> senses]
      BY <1>1, <2>1 DEF FullReply
    <2>4. groups[g].pos \in {groups[h].pos : h \in 1..Len(groups)} /\ g \in 1..Len(groups)
      BY <1>1
    <2> QED
      BY ONLY <2>2, <2>3, <2>4 DEF ReplyGroups
  <1>3. DOMAIN full = 1..n /\ full = [g \in 1..n |-> full[g]]
    BY <1>1 DEF FullReply
  <1>4. full \in Seq(ReplyGroups(groups)) /\ Len(full) = n
    BY ONLY <1>1, <1>2, <1>3
  <1> QED
    BY <1>1, <1>2, <1>4 DEF IsFull

\* The groups of the prompt in any order and with any marks, all or all but the last.
LEMMA ListAbout ==
  ASSUME NEW groups, Listed(groups), NEW full, IsFull(full, groups), NEW list \in Seq(ReplyGroups(groups)),
         \A k \in 1..Len(list) : \E g \in 1..Len(full) : list[k].label = full[g].label /\ list[k].group = full[g].group,
         \A g \in 1..Len(full) : g \in 1..Len(list) => \E k \in 1..Len(list) : list[k].label = full[g].label
  PROVE  GroupsAbout(list, groups)
  <1>1. ASSUME NEW k \in 1..Len(list) PROVE list[k].label = groups[list[k].group].pos
    <2>1. PICK g \in 1..Len(full) : list[k].label = full[g].label /\ list[k].group = full[g].group
      OBVIOUS
    <2> QED
      BY <2>1 DEF IsFull
  <1>2. ASSUME NEW g \in 1..Len(groups), g \in 1..Len(list)
        PROVE  \E k \in 1..Len(list) : list[k].label = groups[g].pos
    <2>1. g \in 1..Len(full)
      BY DEF IsFull
    <2>2. PICK k \in 1..Len(list) : list[k].label = full[g].label
      BY <1>2, <2>1
    <2> QED
      BY <2>2 DEF IsFull
  <1> QED
    BY <1>1, <1>2 DEF GroupsAbout

\* A full reply is about its groups.
LEMMA FullAbout ==
  ASSUME NEW groups, Listed(groups), NEW full, IsFull(full, groups)
  PROVE  GroupsAbout(full, groups)
  BY DEF GroupsAbout, IsFull

\* And so is one in the reverse order.
LEMMA ReversedAbout ==
  ASSUME NEW groups, Listed(groups), NEW full, IsFull(full, groups)
  PROVE  GroupsAbout(Reverse(full), groups)
  <1>1. PICK R : R = ReplyGroups(groups)
    OBVIOUS
  <1>2. full \in Seq(R)
    BY <1>1 DEF IsFull
  <1>3. PICK n \in Nat : n = Len(full)
    BY <1>2
  <1>4. PICK list : list = [k \in 1..n |-> full[(n - k) + 1]]
    OBVIOUS
  <1>5. Reverse(full) = list
    BY <1>3, <1>4 DEF Reverse
  <1>6. \A k \in 1..n : (n - k) + 1 \in 1..n /\ list[k] = full[(n - k) + 1] /\ list[(n - k) + 1] = full[k]
    BY ONLY <1>4
  <1>7. list \in Seq(R) /\ Len(list) = n
    BY <1>2, <1>3, <1>4
  <1>8. \A k \in 1..Len(list) : \E g \in 1..Len(full) : list[k].label = full[g].label /\ list[k].group = full[g].group
    BY <1>3, <1>6, <1>7
  <1>9. \A g \in 1..Len(full) : g \in 1..Len(list) => \E k \in 1..Len(list) : list[k].label = full[g].label
    BY <1>3, <1>6, <1>7
  <1> QED
    BY <1>1, <1>5, <1>7, <1>8, <1>9, ListAbout

\* And one that leaves out its last group.
LEMMA FrontAbout ==
  ASSUME NEW groups, Listed(groups), NEW full, IsFull(full, groups), Len(full) > 1
  PROVE  GroupsAbout(Front(full), groups)
  <1>1. PICK R : R = ReplyGroups(groups)
    OBVIOUS
  <1>2. full \in Seq(R)
    BY <1>1 DEF IsFull
  <1>3. PICK n \in Nat : n = Len(full) /\ n > 1
    BY <1>2
  <1>4. PICK list : list = SubSeq(full, 1, n - 1)
    OBVIOUS
  <1>5. Front(full) = list
    BY <1>3, <1>4 DEF Front
  <1>6. list \in Seq(R) /\ Len(list) = n - 1 /\ \A k \in 1..(n - 1) : list[k] = full[k]
    BY <1>2, <1>3, <1>4
  <1>7. \A k \in 1..Len(list) : k \in 1..Len(full) /\ list[k] = full[k]
    BY <1>3, <1>6
  <1> QED
    BY <1>1, <1>5, <1>6, <1>7, ListAbout

\* And one that leaves out the last sense of a group.
LEMMA LessAbout ==
  ASSUME NEW groups, Listed(groups), NEW full, IsFull(full, groups), NEW n, n = Len(full)
  PROVE  GroupsAbout([full EXCEPT ![n].senses[1] = 1], groups)
  <1>1. PICK R : R = ReplyGroups(groups)
    OBVIOUS
  <1>2. full \in Seq(R)
    BY <1>1 DEF IsFull
  <1>3. n \in Nat
    BY <1>2
  <1>4. PICK list : list = [full EXCEPT ![n].senses[1] = 1]
    OBVIOUS
  <1>5. CASE n = 0
    <2>1. list = full
      BY <1>2, <1>4, <1>5
    <2> QED
      BY <1>4, <2>1, FullAbout
  <1>6. CASE n # 0
    <2>1. n \in 1..Len(full) /\ full[n] \in R
      BY <1>2, <1>3, <1>6
    <2>2. full[n].senses \in Seq({1, 2})
      BY <1>1, <2>1 DEF ReplyGroups
    <2>3. PICK senses : senses = [full[n].senses EXCEPT ![1] = 1]
      OBVIOUS
    <2>4. senses \in Seq({1, 2})
      <3>1. PICK old \in Seq({1, 2}) : old = full[n].senses
        BY <2>2
      <3>2. CASE 1 \in 1..Len(old)
        BY <2>3, <3>1, <3>2, ExceptSeq
      <3>3. CASE 1 \notin 1..Len(old)
        <4>1. 1 \notin DOMAIN old
          BY <3>3
        <4>2. [old EXCEPT ![1] = 1] = old
          BY ONLY <4>1, old \in Seq({1, 2})
        <4> QED
          BY <2>3, <3>1, <4>2
      <3> QED
        BY <3>2, <3>3
    <2>5. PICK r : r = [full[n] EXCEPT !.senses = senses]
      OBVIOUS
    <2>6. r \in R /\ r.label = full[n].label /\ r.group = full[n].group
      BY <1>1, <2>1, <2>4, <2>5 DEF ReplyGroups
    <2>7. list = [full EXCEPT ![n] = r]
      BY <1>4, <2>3, <2>5
    <2>8. list \in Seq(R) /\ Len(list) = n /\ \A k \in 1..n : list[k] = IF k = n THEN r ELSE full[k]
      BY <1>2, <2>1, <2>6, <2>7, ExceptSeq
    <2>9. \A k \in 1..Len(list) : k \in 1..Len(full) /\ list[k].label = full[k].label /\ list[k].group = full[k].group
      BY <2>6, <2>8
    <2>10. \A k \in 1..Len(full) : k \in 1..Len(list) => list[k].label = full[k].label
      BY <2>9
    <2>11. GroupsAbout(list, groups)
      BY <1>1, <2>8, <2>9, <2>10, ListAbout
    <2> QED
      BY <1>4, <2>11
  <1> QED
    BY <1>5, <1>6

\* A word of a reply, about one word of its prompt.
WordAbout(word, lemma, target, groups) ==
  word.about = lemma /\ word.target = target /\ GroupsAbout(word.groups, groups)

\* The words of a reply are about words of the batch.
LEMMA WordsAbout ==
  ASSUME NEW row, NEW groups, Listed(groups), NEW target, NEW word \in WordReplies(row, groups, target)
  PROVE  WordAbout(word, row.lemma, target, groups)
  <1>1. PICK full : full = FullReply(groups)
    OBVIOUS
  <1>2. IsFull(full, groups)
    BY <1>1, FullIs
  <1>3. PICK good : good = [echo |-> row.lemma, about |-> row.lemma, target |-> target, cefr |-> TRUE, groups |-> full]
    OBVIOUS
  <1>4. PICK n : n = Len(full)
    OBVIOUS
  <1>5. word \in {good, [good EXCEPT !.groups = Reverse(full)], [good EXCEPT !.echo = "none"],
                  [good EXCEPT !.groups[n].senses[1] = 1],
                  IF n > 1 THEN [good EXCEPT !.groups = Front(full)] ELSE [good EXCEPT !.cefr = FALSE]}
    BY <1>1, <1>3, <1>4 DEF WordReplies, FullReply
  <1>6. PICK less : less = [full EXCEPT ![n].senses[1] = 1]
    OBVIOUS
  <1>7. [good EXCEPT !.groups[n].senses[1] = 1] = [good EXCEPT !.groups = less]
    BY <1>3, <1>6
  <1>8. /\ word.about = row.lemma /\ word.target = target
        /\ word.groups \in {full, Reverse(full), less} \/ (n > 1 /\ word.groups = Front(full))
    <2>1. CASE word = good
      BY <1>3, <2>1
    <2>2. CASE word = [good EXCEPT !.groups = Reverse(full)]
      BY <1>3, <2>2
    <2>3. CASE word = [good EXCEPT !.echo = "none"]
      BY <1>3, <2>3
    <2>4. CASE word = [good EXCEPT !.groups = less]
      BY <1>3, <2>4
    <2>5. CASE n > 1 /\ word = [good EXCEPT !.groups = Front(full)]
      BY <1>3, <2>5
    <2>6. CASE word = [good EXCEPT !.cefr = FALSE]
      BY <1>3, <2>6
    <2> QED
      BY <1>5, <1>7, <2>1, <2>2, <2>3, <2>4, <2>5, <2>6
  <1>9. GroupsAbout(full, groups) /\ GroupsAbout(Reverse(full), groups) /\ GroupsAbout(less, groups)
    BY <1>2, <1>4, <1>6, FullAbout, ReversedAbout, LessAbout
  <1>10. n > 1 => GroupsAbout(Front(full), groups)
    BY <1>2, <1>4, FrontAbout
  <1> QED
    BY <1>8, <1>9, <1>10 DEF WordAbout

\* What is found is at a place that was found, or else at the one that was given.
PlacedAt(x, seq, found, i) ==
  \E k \in DOMAIN seq : x = seq[k] /\ (found # {} => k \in found) /\ (found = {} => k = i)

\* What the fallback to the place finds.
LEMMA FirstOrAtIs ==
  ASSUME NEW seq, NEW found \in SUBSET DOMAIN seq, DOMAIN seq \in SUBSET Nat, NEW i,
         NEW x \in FirstOrAt(found, seq, i)
  PROVE  PlacedAt(x, seq, found, i)
  <1>1. CASE found # {}
    <2>1. PICK least : least = CHOOSE k \in found : \A l \in found : k <= l
      OBVIOUS
    <2>2. \E k \in found : \A l \in found : k <= l
      <3>1. found \in SUBSET Nat
        OBVIOUS
      <3> QED
        BY <1>1, <3>1, LeastNatural
    <2>3. least \in found
      BY <2>1, <2>2
    <2>4. x = seq[least]
      BY <1>1, <2>1 DEF FirstOrAt
    <2> QED
      BY <1>1, <2>3, <2>4 DEF PlacedAt
  <1>2. CASE found = {}
    BY <1>2 DEF FirstOrAt, PlacedAt
  <1> QED
    BY <1>1, <1>2

\* What an answer to the prompt of a dictionary word says.
LEMMA ExamplesSaid ==
  ASSUME NEW word, NEW about, NEW target, NEW asked, Listed(asked), WordAbout(word, about, target, asked),
         NEW groups, Listed(groups), NEW named \in BOOLEAN, NEW lemma,
         named => about = lemma /\ asked = groups,
         NEW res, res = ParseBatchExamplesResponse(word, groups), res.ok
  PROVE  DictionarySaid(res, groups, named, lemma, target) /\ Len(res.groups) = Len(groups)
  <1>1. PICK n \in Nat : n = Len(groups) /\ DOMAIN groups = 1..n
    BY DEF Listed
  <1>2. ~Failed.ok
    BY DEF Failed
  <1>3. /\ \A g \in DOMAIN groups : \E r \in GroupFor(word, groups[g].pos, g) :
             /\ Len(r.senses) >= Len(groups[g].senses)
             /\ \A k \in DOMAIN groups[g].senses : r.senses[k] >= 2
        /\ res = [ok |-> TRUE, cefr |-> CefrOf(word),
             groups |-> [g \in DOMAIN groups |->
               LET r == CHOOSE r \in GroupFor(word, groups[g].pos, g) : TRUE
               IN [pos |-> groups[g].pos, senses |-> [k \in DOMAIN groups[g].senses |-> Content(word, r, k)]]]]
    BY <1>2, Zenon DEF ParseBatchExamplesResponse
  <1> DEFINE R(g) == CHOOSE r \in GroupFor(word, groups[g].pos, g) : TRUE
  <1>4. PICK said : said = [g \in DOMAIN groups |->
          [pos |-> groups[g].pos, senses |-> [k \in DOMAIN groups[g].senses |-> Content(word, R(g), k)]]]
    OBVIOUS
  <1>5. \A g \in 1..n : R(g) \in GroupFor(word, groups[g].pos, g)
    BY <1>1, <1>3
  <1>6. res = [ok |-> TRUE, cefr |-> CefrOf(word), groups |-> said]
    BY <1>3, <1>4
  <1> HIDE DEF R
  <1>7. word.about = about /\ word.target = target /\ GroupsAbout(word.groups, asked)
    BY DEF WordAbout
  <1>8. PICK list : list = word.groups
    OBVIOUS
  <1>9. list \in Seq(ReplyGroups(asked)) /\ DOMAIN list = 1..Len(list) /\ Len(list) \in Nat
    BY <1>7, <1>8 DEF GroupsAbout
  <1>10. ASSUME NEW g \in 1..n
         PROVE  R(g).group \in Nat /\ (named /\ Alone(groups, g) => R(g).group = g)
    <2>1. PICK found : found = {k \in DOMAIN list : list[k].label = groups[g].pos}
      OBVIOUS
    <2>2. R(g) \in FirstOrAt(found, list, g)
      BY <1>5, <1>8, <2>1 DEF GroupFor
    <2>3. found \in SUBSET DOMAIN list /\ DOMAIN list \in SUBSET Nat
      BY <1>9, <2>1
    <2>4. PlacedAt(R(g), list, found, g)
      BY <2>2, <2>3, FirstOrAtIs
    <2>5. PICK k \in DOMAIN list : R(g) = list[k] /\ (found # {} => k \in found) /\ (found = {} => k = g)
      BY <2>4 DEF PlacedAt
    <2>6. R(g) \in ReplyGroups(asked)
      BY <1>9, <2>5
    <2>7. R(g).group \in 1..Len(asked)
      BY ONLY <2>6 DEF ReplyGroups
    <2>8. Len(asked) \in Nat
      BY DEF Listed
    <2>9. ASSUME named, Alone(groups, g) PROVE R(g).group = g
      <3>1. asked = groups
        BY <2>9
      <3>2. found # {}
        <4> SUFFICES ASSUME found = {} PROVE FALSE
          OBVIOUS
        <4>1. g \in 1..Len(list) /\ g \in 1..Len(asked)
          BY <1>1, <1>9, <2>5, <3>1
        <4>2. PICK l \in 1..Len(list) : list[l].label = asked[g].pos
          BY <1>7, <1>8, <4>1 DEF GroupsAbout
        <4> QED
          BY <1>9, <2>1, <3>1, <4>2
      <3>3. list[k].label = groups[g].pos /\ list[k].label = groups[list[k].group].pos
        BY <1>7, <1>8, <1>9, <2>1, <2>5, <3>1, <3>2 DEF GroupsAbout
      <3> QED
        BY <1>1, <2>5, <2>7, <2>9, <3>1, <3>3 DEF Alone
    <2> QED
      BY <2>7, <2>8, <2>9
  <1>11. ASSUME NEW g \in 1..n, NEW k \in DOMAIN said[g].senses
         PROVE  /\ SaidPiece(said[g].senses[k], named, lemma, target)
                /\ named /\ Alone(groups, g) => said[g].senses[k].of = <<lemma, target, g, k>>
    <2>1. k \in DOMAIN groups[g].senses /\ said[g].senses[k] = Content(word, R(g), k)
      BY <1>1, <1>4
    <2>2. k \in Nat
      BY <1>1, <2>1 DEF Listed
    <2>3. /\ said[g].senses[k].by = "model"
          /\ said[g].senses[k].of = <<about, target, R(g).group, k>>
      BY <1>7, <2>1 DEF Content, Piece
    <2> QED
      BY <1>10, <2>2, <2>3 DEF SaidPiece
  <1>12. SaidLevel(res.cefr, named, lemma, target)
    <2>1. res.cefr = [by |-> "model", of |-> <<about, target, 0, 0>>]
      BY <1>6, <1>7 DEF CefrOf, Piece
    <2>2. named => res.cefr.of = <<lemma, target, 0, 0>>
      BY <2>1
    <2> QED
      BY <2>1, <2>2 DEF SaidLevel, SaidPiece
  <1>13. DOMAIN said = 1..n /\ Len(said) = n /\ \A g \in 1..n : said[g].pos = groups[g].pos
    BY <1>1, <1>4
  <1>14. res.groups = said
    BY <1>6
  <1> QED
    BY <1>1, <1>11, <1>12, <1>13, <1>14 DEF DictionarySaid

\* What an answer to the prompt of any other word says.
LEMMA NumberedPlaces ==
  ASSUME NEW n \in Nat, NEW I, NEW list, list = [k \in 1..n |-> k], I \in SUBSET (1..n), NEW kept, kept = TakenAt(list, I)
  PROVE  kept \in Seq(1..n) /\ Len(kept) \in Nat /\ DOMAIN kept = 1..Len(kept)
  <1>1. list \in Seq(1..n) /\ DOMAIN list = 1..n
    OBVIOUS
  <1>2. SiftedTo(kept, list, I, 1..n)
    BY <1>1, FilteredList
  <1> QED
    BY <1>2 DEF SiftedTo

\* What is parsed of a reply about a word that no dictionary has.
LEMMA ScratchAnswered ==
  ASSUME NEW word, NEW about, NEW target, NEW asked, Listed(asked), WordAbout(word, about, target, asked),
         NEW named \in BOOLEAN, NEW lemma, named => about = lemma,
         NEW res, res = ParseBatchScratchResponse(word), res.ok
  PROVE  ScratchSaid(res, named, lemma, target)
  <1>1. ~Failed.ok
    BY DEF Failed
  <1>2. /\ ParsePosGroupsFromWord(word) # <<>>
        /\ res = [ok |-> TRUE, cefr |-> CefrOf(word), groups |-> ParsePosGroupsFromWord(word)]
    BY <1>1, Zenon DEF ParseBatchScratchResponse
  <1>3. word.about = about /\ word.target = target /\ GroupsAbout(word.groups, asked)
    BY DEF WordAbout
  <1>4. PICK list \in Seq(ReplyGroups(asked)) : list = word.groups
    BY <1>3 DEF GroupsAbout
  <1> DEFINE Usable(r) == TakenAt([k \in DOMAIN r.senses |-> k],
                            {i \in DOMAIN [k \in DOMAIN r.senses |-> k] : r.senses[[k \in DOMAIN r.senses |-> k][i]] >= 2})
  <1>5. PICK I : I = {i \in DOMAIN list : MapPartOfSpeech(list[i].label) # "none" /\ Usable(list[i]) # <<>>}
    OBVIOUS
  <1>6. PICK groups : groups = TakenAt(list, I)
    OBVIOUS
  <1>7. ParsePosGroupsFromWord(word) = [g \in DOMAIN groups |->
          [pos |-> MapPartOfSpeech(groups[g].label),
           senses |-> [k \in DOMAIN Usable(groups[g]) |-> Content(word, groups[g], Usable(groups[g])[k])]]]
    BY <1>4, <1>5, <1>6 DEF ParsePosGroupsFromWord, Filtered
  <1>8. groups \in Seq(ReplyGroups(asked))
    BY <1>4, <1>5, <1>6, FilteredList DEF SiftedTo
  <1>9. ASSUME NEW r \in ReplyGroups(asked)
        PROVE  /\ r.group \in Nat /\ \A k \in DOMAIN Usable(r) : Usable(r)[k] \in Nat
               /\ \E m \in Nat : DOMAIN Usable(r) = 1..m
    <2>1. r.senses \in Seq({1, 2}) /\ r.group \in 1..Len(asked)
      BY ONLY <1>9 DEF ReplyGroups
    <2>2. Len(asked) \in Nat
      BY DEF Listed
    <2>3. PICK n \in Nat : DOMAIN r.senses = 1..n
      BY <2>1
    <2>4. PICK all : all = [k \in 1..n |-> k]
      OBVIOUS
    <2>5. PICK J : J = {i \in DOMAIN all : r.senses[all[i]] >= 2}
      OBVIOUS
    <2>6. Usable(r) = TakenAt(all, J)
      BY <2>3, <2>4, <2>5
    <2>7. J \in SUBSET (1..n)
      BY <2>4, <2>5
    <2>8. PICK kept : kept = TakenAt(all, J)
      OBVIOUS
    <2>9. kept \in Seq(1..n) /\ Len(kept) \in Nat /\ DOMAIN kept = 1..Len(kept)
      BY ONLY <2>4, <2>7, <2>8, NumberedPlaces
    <2>10. \A k \in DOMAIN kept : kept[k] \in Nat
      BY <2>9
    <2> HIDE DEF Usable
    <2>11. Usable(r) = kept
      BY <2>6, <2>8
    <2>12. \E m \in Nat : DOMAIN Usable(r) = 1..m
      BY ONLY <2>9, <2>11
    <2>13. \A k \in DOMAIN Usable(r) : Usable(r)[k] \in Nat
      BY ONLY <2>10, <2>11
    <2>14. r.group \in Nat
      BY ONLY <2>1, <2>2
    <2> QED
      BY ONLY <2>12, <2>13, <2>14
  <1> HIDE DEF Usable
  <1>10. PICK said : said = ParsePosGroupsFromWord(word)
    OBVIOUS
  <1>11. ASSUME NEW g \in DOMAIN said, NEW k \in DOMAIN said[g].senses
         PROVE  SaidPiece(said[g].senses[k], named, lemma, target)
    <2>1. g \in DOMAIN groups /\ k \in DOMAIN Usable(groups[g])
      BY <1>7, <1>10
    <2>2. said[g].senses[k] = Content(word, groups[g], Usable(groups[g])[k])
      BY <1>7, <1>10, <2>1
    <2>3. groups[g] \in ReplyGroups(asked)
      BY <1>8, <2>1
    <2>4. groups[g].group \in Nat /\ Usable(groups[g])[k] \in Nat
      BY <1>9, <2>1, <2>3
    <2>5. /\ said[g].senses[k].by = "model"
          /\ said[g].senses[k].of = <<about, target, groups[g].group, Usable(groups[g])[k]>>
      BY <1>3, <2>2 DEF Content, Piece
    <2> QED
      BY <2>4, <2>5 DEF SaidPiece
  <1>12. Listed(said) /\ Len(said) >= 1
    <2>1. DOMAIN said = 1..Len(groups) /\ Len(groups) \in Nat /\ said # <<>>
      BY <1>2, <1>7, <1>8, <1>10
    <2>2. said = [g \in DOMAIN said |-> said[g]]
      BY <1>7, <1>10
    <2>3. PICK n \in Nat : n = Len(groups) /\ DOMAIN said = 1..n
      BY <2>1
    <2>4. PICK S : S = {said[g] : g \in 1..n}
      OBVIOUS
    <2>5. said \in Seq(S) /\ Len(said) = n
      BY ONLY <2>2, <2>3, <2>4
    <2>6. n # 0
      BY <2>1, <2>5, EmptySeq
    <2>7. \A g \in 1..n : Len(said[g].senses) \in Nat /\ DOMAIN said[g].senses = 1..Len(said[g].senses)
      <3> TAKE g \in 1..n
      <3>1. groups[g] \in ReplyGroups(asked) /\ g \in DOMAIN groups
        BY <1>8, <2>3
      <3>2. PICK m \in Nat : DOMAIN Usable(groups[g]) = 1..m
        BY <1>9, <3>1
      <3>3. said[g].senses = [k \in DOMAIN Usable(groups[g]) |-> Content(word, groups[g], Usable(groups[g])[k])]
        BY <1>7, <1>10, <3>1
      <3>4. PICK senses : senses = said[g].senses
        OBVIOUS
      <3>5. DOMAIN senses = 1..m /\ Len(senses) = m
        BY ONLY <3>2, <3>3, <3>4
      <3> QED
        BY <3>4, <3>5
    <2> QED
      BY <2>3, <2>5, <2>6, <2>7 DEF Listed
  <1>13. SaidLevel(res.cefr, named, lemma, target)
    <2>1. res.cefr = [by |-> "model", of |-> <<about, target, 0, 0>>]
      BY <1>2, <1>3 DEF CefrOf, Piece
    <2>2. named => res.cefr.of = <<lemma, target, 0, 0>>
      BY <2>1
    <2> QED
      BY <2>1, <2>2 DEF SaidLevel, SaidPiece
  <1>14. res.groups = said
    BY <1>2, <1>10
  <1> QED
    BY <1>11, <1>12, <1>13, <1>14 DEF ScratchSaid

\* The prompts of the jobs that wait: groups in lists.
LEMMA PromptsListed ==
  ASSUME Fetches, NEW j \in Jobs, NEW kind \in {"examples", "scratch"},
         fetching[j].pc = "waiting", fetching[j].kind = kind
  PROVE  /\ Listed(PromptGroups(kind, fetching[j]))
         /\ kind = "examples" => PromptGroups(kind, fetching[j]) = InputOf(wanted[j])
                                 /\ fetching[j].groups = InputOf(wanted[j]) /\ InputOf(wanted[j]) # <<>>
  <1>1. CASE kind = "examples"
    <2>1. FetchSound(fetching[j], wanted[j]) /\ wanted[j] \in Rows
      BY DEF Fetches
    <2>2. fetching[j].groups = InputOf(wanted[j]) /\ InputOf(wanted[j]) # <<>>
      BY <1>1, <2>1 DEF FetchSound
    <2>3. PromptTyped(InputOf(wanted[j]))
      BY <2>1, InputTyped
    <2>4. Listed(InputOf(wanted[j]))
      BY <2>3 DEF Listed, PromptTyped
    <2> QED
      BY <1>1, <2>2, <2>4 DEF PromptGroups
  <1>2. CASE kind = "scratch"
    <2>1. Listed(ScratchGroups)
      <3>1. Len(ScratchGroups) = 2 /\ DOMAIN ScratchGroups = 1..2
        BY DEF ScratchGroups
      <3>2. ScratchGroups[1].senses = <<2>> /\ ScratchGroups[2].senses = <<2, 2>>
        BY DEF ScratchGroups
      <3>3. Len(<<2>>) = 1 /\ DOMAIN <<2>> = 1..1 /\ Len(<<2, 2>>) = 2 /\ DOMAIN <<2, 2>> = 1..2
        OBVIOUS
      <3>4. \A g \in 1..2 : g = 1 \/ g = 2
        OBVIOUS
      <3> QED
        BY <3>1, <3>2, <3>3, <3>4 DEF Listed
    <2> QED
      BY <1>2, <2>1 DEF PromptGroups
  <1> QED
    BY <1>1, <1>2

\* Jobs that share a prompt share its languages; with the same word they ask the same.
LEMMA SamePrompt ==
  ASSUME NEW a, NEW b, NEW kind, BatchKey(kind, a) = BatchKey(kind, b)
  PROVE  Target(a) = Target(b) /\ (a.lemma = b.lemma => InputOf(a) = InputOf(b))
  <1>1. a.language = b.language /\ Target(a) = Target(b)
    BY DEF BatchKey, Target
  <1>2. ASSUME a.lemma = b.lemma PROVE InputOf(a) = InputOf(b)
    BY <1>1, <1>2 DEF InputOf, DictionaryGroups
  <1> QED
    BY <1>1, <1>2

\* Every word of a reply is about a word of the batch.
LEMMA RepliesAbout ==
  ASSUME Fetches, NEW kind \in {"examples", "scratch"}, NEW batch \in Seq(Jobs), Len(batch) >= 1,
         NEW key, key[1] = kind, \A i \in 1..Len(batch) : Waits(batch[i], key, fetching, wanted),
         NEW reply \in Replies(kind, batch)
  PROVE  /\ DOMAIN reply \in SUBSET Nat
         /\ \A k \in DOMAIN reply : \E m \in 1..Len(batch) :
              WordAbout(reply[k], wanted[batch[m]].lemma, Target(wanted[batch[1]]),
                        PromptGroups(kind, fetching[batch[m]]))
  <1> DEFINE target == ResolveTranslationLanguage(wanted[batch[1]])
             words == [i \in DOMAIN batch |->
                         WordReplies(wanted[batch[i]], PromptGroups(kind, fetching[batch[i]]), target)]
             orders == {p \in UNION {[1..n -> DOMAIN batch] : n \in (Len(batch) - 1)..Len(batch)} : IsInjective(p)}
             choices == {h \in [DOMAIN batch -> UNION {words[i] : i \in DOMAIN batch}] :
                           \A i \in DOMAIN batch : h[i] \in words[i]}
  <1>1. reply \in UNION {{[i \in DOMAIN p |-> f[p[i]]] : p \in orders} : f \in choices}
    BY Zenon DEF Replies
  <1>3. \A p \in orders : p \in UNION {[1..n -> DOMAIN batch] : n \in (Len(batch) - 1)..Len(batch)}
    OBVIOUS
  <1>4. \A f \in choices : \A i \in DOMAIN batch : f[i] \in words[i]
    OBVIOUS
  <1>2. \A i \in DOMAIN batch :
          words[i] = WordReplies(wanted[batch[i]], PromptGroups(kind, fetching[batch[i]]), target)
    OBVIOUS
  <1> HIDE DEF choices, orders, words
  <1>5. PICK f \in choices : reply \in {[i \in DOMAIN p |-> f[p[i]]] : p \in orders}
    BY <1>1
  <1>6. PICK p \in orders : reply = [i \in DOMAIN p |-> f[p[i]]]
    BY <1>5
  <1>7. PICK n \in (Len(batch) - 1)..Len(batch) : p \in [1..n -> DOMAIN batch]
    BY <1>3
  <1>8. n \in Nat /\ DOMAIN reply = 1..n
    BY <1>6, <1>7
  <1>9. ASSUME NEW k \in 1..n
        PROVE  \E m \in 1..Len(batch) :
                 WordAbout(reply[k], wanted[batch[m]].lemma, target, PromptGroups(kind, fetching[batch[m]]))
    <2>1. PICK m : m = p[k]
      OBVIOUS
    <2>2. m \in 1..Len(batch) /\ reply[k] = f[m] /\ DOMAIN batch = 1..Len(batch)
      BY <1>6, <1>7, <2>1
    <2>3. f[m] \in words[m]
      BY <1>4, <2>2
    <2>4. reply[k] \in WordReplies(wanted[batch[m]], PromptGroups(kind, fetching[batch[m]]), target)
      BY <1>2, <2>2, <2>3
    <2>5. batch[m] \in Jobs /\ Waits(batch[m], key, fetching, wanted)
      BY <2>2
    <2>6. Listed(PromptGroups(kind, fetching[batch[m]]))
      BY <2>5, PromptsListed DEF Waits
    <2>7. WordAbout(reply[k], wanted[batch[m]].lemma, target, PromptGroups(kind, fetching[batch[m]]))
      BY <2>4, <2>6, WordsAbout
    <2> QED
      BY <2>2, <2>7
  <1> QED
    BY <1>8, <1>9 DEF Target

\* Each job of a batch gets what was said, about its own word if the reply names them.
LEMMA RepliesSound ==
  ASSUME Fetches, NEW kind \in {"examples", "scratch"}, NEW batch \in Seq(Jobs), Len(batch) >= 1,
         NEW key, key[1] = kind, \A i \in 1..Len(batch) : Waits(batch[i], key, fetching, wanted),
         NEW reply \in Replies(kind, batch), NEW i \in 1..Len(batch),
         ParseBatch(kind, batch, reply)[i].ok
  PROVE  AnsweredAs(kind, fetching[batch[i]].groups, ParseBatch(kind, batch, reply)[i],
                    Named(batch, reply), wanted[batch[i]])
  <1>1. PICK j \in Jobs : j = batch[i]
    OBVIOUS
  <1>2. PICK row : row = wanted[j]
    OBVIOUS
  <1>3. PICK lemma : lemma = row.lemma
    OBVIOUS
  <1>4. PICK res : res = ParseBatch(kind, batch, reply)[i]
    OBVIOUS
  <1>5. PICK found : found = WordFor(reply, lemma, i)
    OBVIOUS
  <1>6. PICK word : word = CHOOSE w \in found : TRUE
    OBVIOUS
  <1>7. ~Failed.ok
    BY DEF Failed
  <1>8. i \in DOMAIN batch
    OBVIOUS
  <1>9. res = IF found = {} THEN Failed
              ELSE IF kind = "examples" THEN ParseBatchExamplesResponse(word, fetching[j].groups)
                   ELSE ParseBatchScratchResponse(word)
    <2>1. ParseBatch(kind, batch, reply) = [m \in DOMAIN batch |->
            IF WordFor(reply, wanted[batch[m]].lemma, m) = {} THEN Failed
            ELSE IF kind = "examples"
                 THEN ParseBatchExamplesResponse(CHOOSE w \in WordFor(reply, wanted[batch[m]].lemma, m) : TRUE,
                                                 fetching[batch[m]].groups)
                 ELSE ParseBatchScratchResponse(CHOOSE w \in WordFor(reply, wanted[batch[m]].lemma, m) : TRUE)]
      BY Zenon DEF ParseBatch
    <2>2. ParseBatch(kind, batch, reply)[i] =
            IF WordFor(reply, wanted[batch[i]].lemma, i) = {} THEN Failed
            ELSE IF kind = "examples"
                 THEN ParseBatchExamplesResponse(CHOOSE w \in WordFor(reply, wanted[batch[i]].lemma, i) : TRUE,
                                                 fetching[batch[i]].groups)
                 ELSE ParseBatchScratchResponse(CHOOSE w \in WordFor(reply, wanted[batch[i]].lemma, i) : TRUE)
      BY <1>8, <2>1, Zenon
    <2>3. wanted[batch[i]].lemma = lemma /\ batch[i] = j
      BY <1>1, <1>2, <1>3
    <2> QED
      BY <1>4, <1>5, <1>6, <2>2, <2>3, Zenon
  <1>10. res.ok
    BY <1>4
  <1>11. /\ found # {}
         /\ res = IF kind = "examples" THEN ParseBatchExamplesResponse(word, fetching[j].groups)
                  ELSE ParseBatchScratchResponse(word)
    BY <1>7, <1>9, <1>10, Zenon
  <1>12. word \in found
    BY <1>6, <1>11
  <1>13. PICK named \in BOOLEAN : named = Named(batch, reply)
    BY DEF Named
  <1>14. /\ DOMAIN reply \in SUBSET Nat
         /\ \A k \in DOMAIN reply : \E m \in 1..Len(batch) :
              WordAbout(reply[k], wanted[batch[m]].lemma, Target(wanted[batch[1]]),
                        PromptGroups(kind, fetching[batch[m]]))
    BY RepliesAbout
  <1>15. PICK echoing : echoing = {k \in DOMAIN reply : reply[k].echo = lemma}
    OBVIOUS
  <1>16. word \in FirstOrAt(echoing, reply, i)
    BY <1>5, <1>12, <1>15 DEF WordFor
  <1>17. echoing \in SUBSET DOMAIN reply
    BY <1>15
  <1>18. PlacedAt(word, reply, echoing, i)
    BY <1>14, <1>16, <1>17, FirstOrAtIs
  <1>19. PICK k \in DOMAIN reply : word = reply[k] /\ (echoing # {} => k \in echoing)
    BY <1>18 DEF PlacedAt
  <1>20. PICK m \in 1..Len(batch) :
           WordAbout(word, wanted[batch[m]].lemma, Target(wanted[batch[1]]), PromptGroups(kind, fetching[batch[m]]))
    BY <1>14, <1>19
  <1>21. PICK about : about = wanted[batch[m]].lemma
    OBVIOUS
  <1>22. ASSUME named PROVE about = lemma
    <2>1. /\ \A l \in DOMAIN reply : reply[l].echo = reply[l].about
          /\ \E l \in DOMAIN reply : reply[l].about = lemma
      BY <1>1, <1>2, <1>3, <1>8, <1>13, <1>22 DEF Named
    <2>2. echoing # {}
      BY <1>15, <2>1
    <2>3. reply[k].echo = lemma
      BY <1>15, <1>19, <2>2
    <2> QED
      BY <1>19, <1>20, <1>21, <2>1, <2>3 DEF WordAbout
  <1>23. PICK asked : asked = PromptGroups(kind, fetching[batch[m]])
    OBVIOUS
  <1>24. /\ batch[m] \in Jobs /\ Waits(batch[m], key, fetching, wanted) /\ Waits(j, key, fetching, wanted)
         /\ batch[1] \in Jobs /\ Waits(batch[1], key, fetching, wanted)
    BY <1>1
  <1>25. Listed(asked) /\ Listed(PromptGroups(kind, fetching[j]))
    BY <1>23, <1>24, PromptsListed DEF Waits
  <1>26. /\ BatchKey(kind, wanted[batch[m]]) = BatchKey(kind, row)
         /\ BatchKey(kind, wanted[batch[1]]) = BatchKey(kind, row)
    BY <1>2, <1>24 DEF Waits
  <1>27. PICK target : target = Target(row)
    OBVIOUS
  <1>28. WordAbout(word, about, target, asked)
    BY <1>20, <1>21, <1>23, <1>26, <1>27, SamePrompt
  <1>29. CASE kind = "examples"
    <2>1. PICK groups : groups = fetching[j].groups
      OBVIOUS
    <2>2. groups = InputOf(row) /\ InputOf(row) # <<>> /\ groups = PromptGroups(kind, fetching[j])
      BY <1>2, <1>24, <1>29, <2>1, PromptsListed DEF Waits, PromptGroups
    <2>3. Listed(groups)
      BY <1>25, <2>2
    <2>4. asked = InputOf(wanted[batch[m]])
      BY <1>23, <1>24, <1>29, PromptsListed DEF Waits
    <2>5. named => about = lemma /\ asked = groups
      BY <1>3, <1>21, <1>22, <1>26, <2>2, <2>4, SamePrompt
    <2>6. res = ParseBatchExamplesResponse(word, groups)
      BY <1>11, <1>29, <2>1
    <2>7. DictionarySaid(res, groups, named, lemma, target) /\ Len(res.groups) = Len(groups)
      BY <1>10, <1>25, <1>28, <2>3, <2>5, <2>6, ExamplesSaid
    <2>8. AnsweredAs(kind, groups, res, named, row)
      BY <1>3, <1>27, <1>29, <2>2, <2>7 DEF AnsweredAs
    <2> QED
      BY <1>1, <1>2, <1>4, <1>13, <2>1, <2>8
  <1>30. CASE kind = "scratch"
    <2>1. res = ParseBatchScratchResponse(word)
      BY <1>11, <1>30
    <2>2. ScratchSaid(res, named, lemma, target)
      BY <1>10, <1>22, <1>25, <1>28, <2>1, ScratchAnswered
    <2>3. AnsweredAs(kind, fetching[j].groups, res, named, row)
      BY <1>3, <1>27, <1>30, <2>2 DEF AnsweredAs
    <2> QED
      BY <1>1, <1>2, <1>4, <1>13, <2>3
  <1> QED
    BY <1>29, <1>30

-----------------------------------------------------------------------------
(* Drafts *)

IsSense(s) ==
  /\ s = [gloss |-> s.gloss, examples |-> s.examples, translation |-> s.translation]
  /\ Len(s.examples) \in Nat /\ DOMAIN s.examples = 1..Len(s.examples)
IsDraft(d) == d = [pos |-> d.pos, ipa |-> d.ipa, cefr |-> d.cefr, senses |-> d.senses]

\* Drafts in a list, with their senses and examples in lists.
Drafted(drafts) ==
  /\ Listed(drafts) /\ Len(drafts) >= 1
  /\ \A g \in 1..Len(drafts) : IsDraft(drafts[g]) /\ \A k \in 1..Len(drafts[g].senses) : IsSense(drafts[g].senses[k])

\* The same drafts, but for the translations of the examples.
Retold(drafts, plain) ==
  /\ DOMAIN drafts = DOMAIN plain
  /\ \A g \in DOMAIN plain :
       /\ drafts[g].pos = plain[g].pos /\ drafts[g].cefr = plain[g].cefr
       /\ DOMAIN drafts[g].senses = DOMAIN plain[g].senses
       /\ \A k \in DOMAIN plain[g].senses :
            LET s == drafts[g].senses[k]
                t == plain[g].senses[k]
            IN /\ s.gloss = t.gloss /\ s.translation = t.translation /\ DOMAIN s.examples = DOMAIN t.examples
               /\ \A e \in DOMAIN t.examples :
                    /\ s.examples[e].text = t.examples[e].text
                    /\ s.examples[e].translation \in {Nothing, t.examples[e].text}

\* Translating the examples leaves sound drafts sound.
LEMMA RetoldSound ==
  ASSUME NEW drafts, NEW plain, Retold(drafts, plain), NEW named, NEW kind, NEW lemma, NEW target,
         DraftsSound(plain, named, kind, lemma, target), drafts # <<>>
  PROVE  DraftsSound(drafts, named, kind, lemma, target)
  <1>1. /\ DOMAIN drafts = DOMAIN plain
        /\ \A g \in DOMAIN plain : /\ drafts[g].pos = plain[g].pos /\ drafts[g].cefr = plain[g].cefr
                                   /\ DOMAIN drafts[g].senses = DOMAIN plain[g].senses
    BY DEF Retold
  <1>2. ASSUME NEW g \in DOMAIN plain, NEW k \in DOMAIN plain[g].senses
        PROVE  PiecesOf(drafts[g].senses[k]) = PiecesOf(plain[g].senses[k])
    <2>1. PICK s, t : s = drafts[g].senses[k] /\ t = plain[g].senses[k]
      OBVIOUS
    <2>2. /\ s.gloss = t.gloss /\ s.translation = t.translation /\ DOMAIN s.examples = DOMAIN t.examples
          /\ \A e \in DOMAIN t.examples : s.examples[e].text = t.examples[e].text
      BY <1>2, <2>1 DEF Retold
    <2>3. {s.examples[e].text : e \in DOMAIN s.examples} = {t.examples[e].text : e \in DOMAIN t.examples}
      BY ONLY <2>2
    <2> QED
      BY ONLY <2>1, <2>2, <2>3 DEF PiecesOf
  <1>3. named => OwnIn(drafts, kind, lemma, target)
    <2> SUFFICES ASSUME named PROVE OwnIn(drafts, kind, lemma, target)
      OBVIOUS
    <2>1. OwnIn(plain, kind, lemma, target)
      BY DEF DraftsSound
    <2>2. \A g \in DOMAIN plain : Alone(drafts, g) <=> Alone(plain, g)
      BY <1>1 DEF Alone
    <2> QED
      BY <1>1, <1>2, <2>1, <2>2 DEF OwnIn
  <1>4. ApartIn(drafts)
    <2> DEFINE places == UNION {{<<g, k>> : k \in DOMAIN drafts[g].senses} : g \in DOMAIN drafts}
               before == UNION {{<<g, k>> : k \in DOMAIN plain[g].senses} : g \in DOMAIN plain}
    <2>1. \A p \in places : \E g \in DOMAIN plain : \E k \in DOMAIN plain[g].senses : p = <<g, k>>
      BY <1>1
    <2>2. \A g \in DOMAIN plain : \A k \in DOMAIN plain[g].senses : <<g, k>> \in before
      OBVIOUS
    <2>3. \A p \in places :
            /\ p \in before
            /\ DOMAIN drafts[p[1]].senses[p[2]].examples = DOMAIN plain[p[1]].senses[p[2]].examples
            /\ \A e \in DOMAIN plain[p[1]].senses[p[2]].examples :
                 /\ drafts[p[1]].senses[p[2]].examples[e].text = plain[p[1]].senses[p[2]].examples[e].text
                 /\ drafts[p[1]].senses[p[2]].examples[e].translation \in {Nothing, plain[p[1]].senses[p[2]].examples[e].text}
      <3> TAKE p \in places
      <3>1. PICK g \in DOMAIN plain : \E k \in DOMAIN plain[g].senses : p = <<g, k>>
        BY <2>1
      <3>2. PICK k \in DOMAIN plain[g].senses : p = <<g, k>>
        BY <3>1
      <3>3. p \in before /\ p[1] = g /\ p[2] = k
        BY <2>2, <3>2
      <3> HIDE DEF places, before
      <3> QED
        BY <3>3 DEF Retold
    <2>4. \A p, q \in before : \A d \in DOMAIN plain[p[1]].senses[p[2]].examples, e \in DOMAIN plain[q[1]].senses[q[2]].examples :
            plain[p[1]].senses[p[2]].examples[d].text = plain[q[1]].senses[q[2]].examples[e].text
            /\ plain[p[1]].senses[p[2]].examples[d].text.by = "corpus" => p = q
      BY DEF DraftsSound, ApartIn
    <2>5. /\ \A p, q \in places : \A d \in DOMAIN drafts[p[1]].senses[p[2]].examples, e \in DOMAIN drafts[q[1]].senses[q[2]].examples :
               drafts[p[1]].senses[p[2]].examples[d].text = drafts[q[1]].senses[q[2]].examples[e].text
               /\ drafts[p[1]].senses[p[2]].examples[d].text.by = "corpus" => p = q
          /\ \A p \in places : \A e \in DOMAIN drafts[p[1]].senses[p[2]].examples :
               drafts[p[1]].senses[p[2]].examples[e].translation \in {Nothing, drafts[p[1]].senses[p[2]].examples[e].text}
      <3> HIDE DEF places, before
      <3>1. ASSUME NEW p \in places, NEW q \in places,
                   NEW d \in DOMAIN drafts[p[1]].senses[p[2]].examples,
                   NEW e \in DOMAIN drafts[q[1]].senses[q[2]].examples,
                   drafts[p[1]].senses[p[2]].examples[d].text = drafts[q[1]].senses[q[2]].examples[e].text,
                   drafts[p[1]].senses[p[2]].examples[d].text.by = "corpus"
            PROVE  p = q
        <4>1. /\ p \in before /\ d \in DOMAIN plain[p[1]].senses[p[2]].examples
              /\ drafts[p[1]].senses[p[2]].examples[d].text = plain[p[1]].senses[p[2]].examples[d].text
          BY <2>3
        <4>2. /\ q \in before /\ e \in DOMAIN plain[q[1]].senses[q[2]].examples
              /\ drafts[q[1]].senses[q[2]].examples[e].text = plain[q[1]].senses[q[2]].examples[e].text
          BY <2>3
        <4> QED
          BY <2>4, <3>1, <4>1, <4>2
      <3>2. ASSUME NEW p \in places, NEW e \in DOMAIN drafts[p[1]].senses[p[2]].examples
            PROVE  drafts[p[1]].senses[p[2]].examples[e].translation
                     \in {Nothing, drafts[p[1]].senses[p[2]].examples[e].text}
        BY <2>3
      <3> QED
        BY <3>1, <3>2
    <2> QED
      BY <2>5 DEF ApartIn
  <1>5. UntranslatedIn(drafts, target)
    BY SMTT(30), <1>1 DEF DraftsSound, UntranslatedIn, Retold
  <1> QED
    BY <1>3, <1>4, <1>5 DEF DraftsSound

\* texts has every sentence of the drafts.
TextsHold(texts, S, drafts) ==
  /\ texts \in Seq(S)
  /\ \A g \in 1..Len(drafts) : \A k \in 1..Len(drafts[g].senses) :
       \A e \in 1..Len(drafts[g].senses[k].examples) :
         \E m \in 1..Len(texts) : texts[m] = drafts[g].senses[k].examples[e].text

\* Every sentence of the drafts is among those that are translated.
LEMMA SentencesHold ==
  ASSUME NEW drafts, Drafted(drafts), NEW texts, texts = Sentences(drafts)
  PROVE  \E S : TextsHold(texts, S, drafts)
  <1> DEFINE Text(g, k, e) == drafts[g].senses[k].examples[e].text
  <1>1. PICK S : S = {Text(p[1], p[2], p[3]) : p \in Nat \X Nat \X Nat}
    OBVIOUS
  <1>2. \A g, k, e \in Nat : Text(g, k, e) \in S
    <2> TAKE g, k, e \in Nat
    <2>1. PICK p : p = <<g, k, e>>
      OBVIOUS
    <2>2. p \in Nat \X Nat \X Nat /\ p[1] = g /\ p[2] = k /\ p[3] = e
      BY <2>1
    <2> HIDE DEF Text
    <2>3. Text(p[1], p[2], p[3]) \in S
      BY <1>1, <2>2
    <2> QED
      BY <2>2, <2>3
  <1> DEFINE InSense(g, k) == [e \in DOMAIN drafts[g].senses[k].examples |-> Text(g, k, e)]
             InGroup(g) == [k \in DOMAIN drafts[g].senses |-> InSense(g, k)]
             InGroups == [g \in DOMAIN drafts |-> FlattenSeq(InGroup(g))]
  <1>3. ASSUME NEW g \in 1..Len(drafts), NEW k \in 1..Len(drafts[g].senses)
        PROVE  InSense(g, k) \in Seq(S) /\ Len(InSense(g, k)) = Len(drafts[g].senses[k].examples)
    <2>1. PICK n \in Nat : n = Len(drafts[g].senses[k].examples) /\ DOMAIN drafts[g].senses[k].examples = 1..n
      BY DEF Drafted, IsSense
    <2>2. g \in Nat /\ k \in Nat
      BY DEF Drafted, Listed
    <2>3. \A e \in 1..n : Text(g, k, e) \in S
      BY <1>2, <2>2
    <2> HIDE DEF Text
    <2> QED
      BY <2>1, <2>3
  <1>4. ASSUME NEW g \in 1..Len(drafts)
        PROVE  InGroup(g) \in Seq(Seq(S)) /\ Len(InGroup(g)) = Len(drafts[g].senses)
    <2>1. PICK n \in Nat : n = Len(drafts[g].senses) /\ DOMAIN drafts[g].senses = 1..n
      BY DEF Drafted, Listed
    <2>2. \A k \in 1..n : InSense(g, k) \in Seq(S)
      BY <1>3, <2>1
    <2> HIDE DEF InSense
    <2> QED
      BY <2>1, <2>2
  <1> HIDE DEF InGroup
  <1>5. ASSUME NEW g \in 1..Len(drafts) PROVE Flat(FlattenSeq(InGroup(g)), InGroup(g), S)
    <2>1. PICK lists : lists = InGroup(g)
      OBVIOUS
    <2>2. lists \in Seq(Seq(S))
      BY <1>4, <2>1
    <2>3. Flat(FlattenSeq(lists), lists, S)
      BY <2>2, Flattened
    <2> QED
      BY <2>1, <2>3
  <1>6. PICK groups : groups = InGroups
    OBVIOUS
  <1>7. PICK n \in Nat : n = Len(drafts) /\ DOMAIN drafts = 1..n
    BY DEF Drafted, Listed
  <1>8. groups \in Seq(Seq(S)) /\ Len(groups) = n /\ \A g \in 1..n : groups[g] = FlattenSeq(InGroup(g))
    <2>1. \A g \in 1..n : FlattenSeq(InGroup(g)) \in Seq(S)
      BY <1>5, <1>7 DEF Flat
    <2>2. groups = [g \in 1..n |-> FlattenSeq(InGroup(g))]
      BY <1>6, <1>7
    <2> QED
      BY ONLY <2>1, <2>2, n \in Nat
  <1>9. PICK all : all = FlattenSeq(groups)
    OBVIOUS
  <1>10. Flat(all, groups, S)
    BY <1>8, <1>9, Flattened
  <1>11. texts = Firsts(all)
    BY <1>6, <1>9 DEF Sentences, InGroup
  <1>12. all \in Seq(S)
    BY <1>10 DEF Flat
  <1>13. texts \in Seq(S) /\ \A i \in 1..Len(all) : \E m \in 1..Len(texts) : texts[m] = all[i]
    BY <1>11, <1>12, FirstsHold
  <1>14. ASSUME NEW g \in 1..Len(drafts), NEW k \in 1..Len(drafts[g].senses),
                NEW e \in 1..Len(drafts[g].senses[k].examples)
         PROVE  \E m \in 1..Len(texts) : texts[m] = drafts[g].senses[k].examples[e].text
    <2>1. PICK sense : sense = InSense(g, k)
      OBVIOUS
    <2>2. DOMAIN drafts[g].senses[k].examples = 1..Len(drafts[g].senses[k].examples)
          /\ DOMAIN drafts[g].senses = 1..Len(drafts[g].senses)
      BY DEF Drafted, Listed, IsSense
    <2>3. e \in 1..Len(sense) /\ sense[e] = drafts[g].senses[k].examples[e].text
      BY <1>3, <2>1, <2>2
    <2>4. k \in 1..Len(InGroup(g)) /\ InGroup(g)[k] = sense
      <3>1. k \in 1..Len(InGroup(g))
        BY <1>4
      <3> QED
        BY <2>1, <2>2, <3>1 DEF InGroup
    <2>a. PICK lists : lists = InGroup(g)
      OBVIOUS
    <2>b. Flat(groups[g], lists, S) /\ k \in 1..Len(lists) /\ lists[k] = sense
      BY <1>5, <1>7, <1>8, <2>4, <2>a
    <2>5. PICK i \in 1..Len(groups[g]) : groups[g][i] = sense[e]
      BY ONLY <2>3, <2>b DEF Flat
    <2>6. PICK j \in 1..Len(all) : all[j] = groups[g][i]
      BY <1>7, <1>8, <1>10, <2>5 DEF Flat
    <2>7. PICK m \in 1..Len(texts) : texts[m] = all[j]
      BY <1>13
    <2> QED
      BY <2>3, <2>5, <2>6, <2>7
  <1>15. TextsHold(texts, S, drafts)
    BY <1>13, <1>14 DEF TextsHold
  <1> QED
    BY <1>15

\* The translated drafts are the drafts, told again.
LEMMA TranslatedSound ==
  ASSUME NEW row, NEW plain, Drafted(plain), NEW answers \in BOOLEAN,
         NEW drafts, drafts = TranslateExamples(row, plain, answers),
         NEW named, NEW kind, NEW lemma, NEW target, DraftsSound(plain, named, kind, lemma, target)
  PROVE  DraftsSound(drafts, named, kind, lemma, target)
  <1>1. PICK texts : texts = Sentences(plain)
    OBVIOUS
  <1>2. PICK S : TextsHold(texts, S, plain)
    BY <1>1, SentencesHold
  <1> DEFINE Place(text) == CHOOSE i \in DOMAIN texts : texts[i] = text
             Said(text) == TranslateSentences(texts, answers)[Place(text)]
             Examples(s) == [e \in DOMAIN s.examples |-> [text |-> s.examples[e].text, translation |-> Said(s.examples[e].text)]]
             Fill(s) == [s EXCEPT !.examples = Examples(s)]
             Senses(d) == [k \in DOMAIN d.senses |-> Fill(d.senses[k])]
  <1>3. drafts = IF ResolveTranslationLanguage(row) = "none" THEN plain
                 ELSE [d \in DOMAIN plain |-> [plain[d] EXCEPT !.senses = Senses(plain[d])]]
    BY <1>1 DEF TranslateExamples
  <1>4. CASE ResolveTranslationLanguage(row) = "none"
    BY <1>3, <1>4
  <1>5. CASE ResolveTranslationLanguage(row) # "none"
    <2>1. ASSUME NEW g \in 1..Len(plain), NEW k \in 1..Len(plain[g].senses),
                 NEW e \in 1..Len(plain[g].senses[k].examples)
          PROVE  Said(plain[g].senses[k].examples[e].text) \in {Nothing, plain[g].senses[k].examples[e].text}
      <3>1. PICK text : text = plain[g].senses[k].examples[e].text
        OBVIOUS
      <3>2. DOMAIN texts = 1..Len(texts)
        BY <1>2 DEF TextsHold
      <3>3. \E m \in DOMAIN texts : texts[m] = text
        BY <1>2, <3>1, <3>2 DEF TextsHold
      <3>4. PICK i : i = Place(text)
        OBVIOUS
      <3>5. i \in DOMAIN texts /\ texts[i] = text
        BY <3>3, <3>4
      <3>6. TranslateSentences(texts, answers)[i] \in {Nothing, texts[i]}
        BY <3>5 DEF TranslateSentences
      <3> HIDE DEF Place
      <3> QED
        BY <3>1, <3>4, <3>5, <3>6
    <2> HIDE DEF Said, Place
    <2>2. DOMAIN drafts = DOMAIN plain /\ DOMAIN plain = 1..Len(plain) /\ 1 \in DOMAIN plain
      BY <1>3, <1>5 DEF Drafted, Listed
    <2>3. ASSUME NEW g \in DOMAIN plain
          PROVE  /\ drafts[g].pos = plain[g].pos /\ drafts[g].cefr = plain[g].cefr
                 /\ drafts[g].senses = Senses(plain[g])
      <3>1. PICK d : d = plain[g]
        OBVIOUS
      <3>2. PICK senses : senses = Senses(d)
        OBVIOUS
      <3>3. drafts[g] = [d EXCEPT !.senses = senses]
        BY <1>3, <1>5, <3>1, <3>2
      <3>4. IsDraft(d)
        BY <2>2, <3>1 DEF Drafted
      <3>5. drafts[g].pos = d.pos /\ drafts[g].cefr = d.cefr /\ drafts[g].senses = senses
        BY ONLY <3>3, <3>4 DEF IsDraft
      <3> HIDE DEF Senses
      <3> QED
        BY <3>1, <3>2, <3>5
    <2>4. ASSUME NEW g \in DOMAIN plain, NEW k \in DOMAIN plain[g].senses
          PROVE  /\ drafts[g].senses[k].gloss = plain[g].senses[k].gloss
                 /\ drafts[g].senses[k].translation = plain[g].senses[k].translation
                 /\ drafts[g].senses[k].examples = Examples(plain[g].senses[k])
      <3>1. PICK s : s = plain[g].senses[k]
        OBVIOUS
      <3>2. PICK examples : examples = Examples(s)
        OBVIOUS
      <3>3. drafts[g].senses[k] = Fill(s)
        <4> HIDE DEF Fill
        <4> QED
          BY <2>3, <3>1
      <3>4. Fill(s) = [s EXCEPT !.examples = examples]
        BY <3>2
      <3>5. IsSense(s)
        BY <2>2, <3>1 DEF Drafted, Listed
      <3> HIDE DEF Fill, Examples
      <3>6. /\ drafts[g].senses[k].gloss = s.gloss /\ drafts[g].senses[k].translation = s.translation
            /\ drafts[g].senses[k].examples = examples
        BY ONLY <3>3, <3>4, <3>5 DEF IsSense
      <3> QED
        BY <3>1, <3>2, <3>6
    <2>5. ASSUME NEW g \in DOMAIN plain, NEW k \in DOMAIN plain[g].senses
          PROVE  LET s == drafts[g].senses[k]
                     t == plain[g].senses[k]
                 IN /\ s.gloss = t.gloss /\ s.translation = t.translation /\ DOMAIN s.examples = DOMAIN t.examples
                    /\ \A e \in DOMAIN t.examples :
                         /\ s.examples[e].text = t.examples[e].text
                         /\ s.examples[e].translation \in {Nothing, t.examples[e].text}
      <3>1. /\ DOMAIN plain[g].senses = 1..Len(plain[g].senses)
            /\ DOMAIN plain[g].senses[k].examples = 1..Len(plain[g].senses[k].examples)
        BY <2>2 DEF Drafted, Listed, IsSense
      <3>2. \A e \in DOMAIN plain[g].senses[k].examples :
              Said(plain[g].senses[k].examples[e].text) \in {Nothing, plain[g].senses[k].examples[e].text}
        BY <2>1, <2>2, <3>1
      <3>3. PICK t : t = plain[g].senses[k]
        OBVIOUS
      <3>4. PICK examples : examples = drafts[g].senses[k].examples
        OBVIOUS
      <3>5. examples = [e \in DOMAIN t.examples |-> [text |-> t.examples[e].text, translation |-> Said(t.examples[e].text)]]
        BY <2>4, <3>3, <3>4
      <3>6. DOMAIN examples = DOMAIN t.examples /\ \A e \in DOMAIN t.examples :
              examples[e].text = t.examples[e].text /\ examples[e].translation = Said(t.examples[e].text)
        BY ONLY <3>5
      <3> QED
        BY <2>4, <3>2, <3>3, <3>4, <3>6
    <2>6. \A g \in DOMAIN plain : DOMAIN drafts[g].senses = DOMAIN plain[g].senses
      BY <2>3
    <2>7. Retold(drafts, plain)
      <3> HIDE DEF Senses, Fill, Examples
      <3> QED
        BY <2>2, <2>3, <2>5, <2>6 DEF Retold
    <2>8. drafts # <<>>
      <3>1. DOMAIN <<>> = {}
        OBVIOUS
      <3> QED
        BY <2>2, <3>1
    <2> QED
      BY <2>7, <2>8, RetoldSound
  <1> QED
    BY <1>4, <1>5

\* Drafts of which each piece is the model's on that sense, or not the model's.
Sensed(s, model, target) ==
  /\ IsSense(s) /\ (target = "none" => s.translation = Nothing)
  /\ \A piece \in PiecesOf(s) : piece.by = "model" => piece = model
  /\ \A e \in DOMAIN s.examples : s.examples[e].translation = Nothing

\* The corpus sentences of two senses are not the same.
CorpusApart(drafts) ==
  \A g, h \in 1..Len(drafts) : \A k \in 1..Len(drafts[g].senses), l \in 1..Len(drafts[h].senses) :
    \A d \in 1..Len(drafts[g].senses[k].examples), e \in 1..Len(drafts[h].senses[l].examples) :
      drafts[g].senses[k].examples[d].text = drafts[h].senses[l].examples[e].text
      /\ drafts[g].senses[k].examples[d].text.by = "corpus" => g = h /\ k = l

\* The two halves of what a text of the model is about.
LEMMA OfParts ==
  ASSUME NEW a, NEW b, NEW c, NEW d
  PROVE  SubSeq(<<a, b, c, d>>, 1, 2) = <<a, b>> /\ SubSeq(<<a, b, c, d>>, 3, 4) = <<c, d>>
  <1>1. PICK s : s = <<a, b, c, d>>
    OBVIOUS
  <1>2. s[1] = a /\ s[2] = b /\ s[3] = c /\ s[4] = d
    BY <1>1
  <1>3. PICK S : S = {a, b, c, d}
    OBVIOUS
  <1>4. ASSUME NEW x, x \in S, NEW y, y \in S PROVE <<x, y>> \in Seq(S) /\ Len(<<x, y>>) = 2
    BY <1>4
  <1>5. ASSUME NEW m \in {1, 3} PROVE SubSeq(s, m, m + 1) = <<s[m], s[m + 1]>>
    <2>1. \A i \in m..(m + 1) : s[i] \in S
      BY <1>2, <1>3
    <2>2. PICK t : t = SubSeq(s, m, m + 1)
      OBVIOUS
    <2>3. m \in Int /\ m + 1 \in Int /\ m <= m + 1 /\ (m + 1) - m + 1 = 2
      OBVIOUS
    <2>4. t \in Seq(S) /\ Len(t) = 2 /\ \A i \in 1..2 : t[i] = s[m + i - 1]
      BY <2>1, <2>2, <2>3, SubSeqProperties
    <2>5. t[1] = s[m] /\ t[2] = s[m + 1]
      BY <2>4
    <2>6. PICK u : u = <<s[m], s[m + 1]>>
      OBVIOUS
    <2>7. s[m] \in S /\ s[m + 1] \in S
      BY <2>1
    <2>8. u \in Seq(S) /\ Len(u) = 2 /\ u[1] = s[m] /\ u[2] = s[m + 1]
      BY <1>4, <2>6, <2>7
    <2>9. \A i \in 1..2 : t[i] = u[i]
      BY <2>5, <2>8
    <2> QED
      BY <2>2, <2>4, <2>6, <2>8, <2>9, SeqEqual
  <1>6. SubSeq(s, 1, 1 + 1) = <<s[1], s[1 + 1]>> /\ SubSeq(s, 3, 3 + 1) = <<s[3], s[3 + 1]>>
    BY <1>5
  <1>7. SubSeq(s, 1, 2) = <<a, b>> /\ SubSeq(s, 3, 4) = <<c, d>>
    BY <1>2, <1>6
  <1> QED
    BY <1>1, <1>7

\* A group of drafts of which this holds.
GroupSensed(drafts, g, kind, named, lemma, target) ==
  /\ IsDraft(drafts[g]) /\ (named /\ drafts[g].cefr.by = "model" => drafts[g].cefr.of[1] = lemma)
  /\ \A k \in 1..Len(drafts[g].senses) : \E model :
       /\ Sensed(drafts[g].senses[k], model, target)
       /\ model = Nothing \/ SaidPiece(model, named, lemma, target)
       /\ named /\ model # Nothing /\ kind = "examples" /\ Alone(drafts, g) => model.of = <<lemma, target, g, k>>

\* Drafts whose senses are each what one answer of the model allows are sound.
LEMMA SensedSound ==
  ASSUME NEW drafts, Listed(drafts), Len(drafts) >= 1, NEW kind \in {"examples", "scratch", "plain"},
         NEW named, NEW lemma, NEW target, CorpusApart(drafts),
         \A g \in 1..Len(drafts) : GroupSensed(drafts, g, kind, named, lemma, target)
  PROVE  Drafted(drafts) /\ DraftsSound(drafts, named, kind, lemma, target)
  <1>1. DOMAIN drafts = 1..Len(drafts) /\ \A g \in 1..Len(drafts) : DOMAIN drafts[g].senses = 1..Len(drafts[g].senses)
    BY DEF Listed
  <1>2. Drafted(drafts)
    BY DEF Drafted, Sensed, GroupSensed
  <1>3. ASSUME named PROVE OwnIn(drafts, kind, lemma, target)
    <2>1. ASSUME NEW g \in 1..Len(drafts), NEW k \in 1..Len(drafts[g].senses),
                 NEW piece \in PiecesOf(drafts[g].senses[k]), piece.by = "model"
          PROVE  /\ SubSeq(piece.of, 1, 2) = <<lemma, target>>
                 /\ kind = "examples" /\ Alone(drafts, g) => SubSeq(piece.of, 3, 4) = <<g, k>>
      <3>1. PICK model : /\ Sensed(drafts[g].senses[k], model, target)
                         /\ model = Nothing \/ SaidPiece(model, named, lemma, target)
                         /\ named /\ model # Nothing /\ kind = "examples" /\ Alone(drafts, g) => model.of = <<lemma, target, g, k>>
        BY DEF GroupSensed
      <3>2. piece = model
        BY <2>1, <3>1 DEF Sensed
      <3>3. Nothing.by # "model"
        BY DEF Nothing, Piece
      <3>4. SaidPiece(model, named, lemma, target) /\ model # Nothing
        BY <2>1, <3>1, <3>2, <3>3
      <3>5. PICK a, b \in Nat : model.of = <<lemma, target, a, b>>
        BY <1>3, <3>4 DEF SaidPiece
      <3>6. SubSeq(piece.of, 1, 2) = <<lemma, target>>
        BY <3>2, <3>5, OfParts
      <3>7. kind = "examples" /\ Alone(drafts, g) => SubSeq(piece.of, 3, 4) = <<g, k>>
        <4> SUFFICES ASSUME kind = "examples", Alone(drafts, g) PROVE SubSeq(piece.of, 3, 4) = <<g, k>>
          OBVIOUS
        <4>1. model.of = <<lemma, target, g, k>>
          BY <1>3, <3>1, <3>4
        <4> QED
          BY ONLY <3>2, <4>1, OfParts
      <3> QED
        BY <3>6, <3>7
    <2> QED
      BY <1>1, <1>3, <2>1 DEF OwnIn, GroupSensed
  <1>4. ApartIn(drafts)
    <2> DEFINE places == UNION {{<<g, k>> : k \in DOMAIN drafts[g].senses} : g \in DOMAIN drafts}
    <2>1. \A p \in places : \E g \in 1..Len(drafts) : \E k \in 1..Len(drafts[g].senses) : p = <<g, k>>
      BY <1>1
    <2> HIDE DEF places
    <2>2. \A p \in places :
            /\ p[1] \in 1..Len(drafts) /\ p[2] \in 1..Len(drafts[p[1]].senses) /\ p = <<p[1], p[2]>>
            /\ DOMAIN drafts[p[1]].senses[p[2]].examples = 1..Len(drafts[p[1]].senses[p[2]].examples)
            /\ \A e \in DOMAIN drafts[p[1]].senses[p[2]].examples : drafts[p[1]].senses[p[2]].examples[e].translation = Nothing
      <3> TAKE p \in places
      <3>1. PICK g \in 1..Len(drafts) : \E k \in 1..Len(drafts[g].senses) : p = <<g, k>>
        BY <2>1
      <3>2. PICK k \in 1..Len(drafts[g].senses) : p = <<g, k>>
        BY <3>1
      <3>3. p[1] = g /\ p[2] = k
        BY <3>2
      <3>4. PICK model : Sensed(drafts[g].senses[k], model, target)
        BY DEF GroupSensed
      <3> QED
        BY <3>2, <3>3, <3>4 DEF Sensed, IsSense
    <2>3. ASSUME NEW p \in places, NEW q \in places,
                 NEW d \in DOMAIN drafts[p[1]].senses[p[2]].examples,
                 NEW e \in DOMAIN drafts[q[1]].senses[q[2]].examples,
                 drafts[p[1]].senses[p[2]].examples[d].text = drafts[q[1]].senses[q[2]].examples[e].text,
                 drafts[p[1]].senses[p[2]].examples[d].text.by = "corpus"
          PROVE  p = q
      <3>1. /\ p[1] \in 1..Len(drafts) /\ p[2] \in 1..Len(drafts[p[1]].senses) /\ p = <<p[1], p[2]>>
            /\ d \in 1..Len(drafts[p[1]].senses[p[2]].examples)
        BY <2>2
      <3>2. /\ q[1] \in 1..Len(drafts) /\ q[2] \in 1..Len(drafts[q[1]].senses) /\ q = <<q[1], q[2]>>
            /\ e \in 1..Len(drafts[q[1]].senses[q[2]].examples)
        BY <2>2
      <3>3. \A g, h \in 1..Len(drafts) : \A k \in 1..Len(drafts[g].senses), l \in 1..Len(drafts[h].senses) :
              \A a \in 1..Len(drafts[g].senses[k].examples), b \in 1..Len(drafts[h].senses[l].examples) :
                drafts[g].senses[k].examples[a].text = drafts[h].senses[l].examples[b].text
                /\ drafts[g].senses[k].examples[a].text.by = "corpus" => g = h /\ k = l
        BY DEF CorpusApart
      <3>5. \A k \in 1..Len(drafts[p[1]].senses), l \in 1..Len(drafts[q[1]].senses) :
              \A a \in 1..Len(drafts[p[1]].senses[k].examples), b \in 1..Len(drafts[q[1]].senses[l].examples) :
                drafts[p[1]].senses[k].examples[a].text = drafts[q[1]].senses[l].examples[b].text
                /\ drafts[p[1]].senses[k].examples[a].text.by = "corpus" => p[1] = q[1] /\ k = l
        BY ONLY <3>1, <3>2, <3>3
      <3>6. p[1] = q[1] /\ p[2] = q[2]
        BY ONLY <2>3, <3>1, <3>2, <3>5
      <3> QED
        BY ONLY <3>1, <3>2, <3>6
    <2>4. /\ \A p, q \in places : \A d \in DOMAIN drafts[p[1]].senses[p[2]].examples, e \in DOMAIN drafts[q[1]].senses[q[2]].examples :
               drafts[p[1]].senses[p[2]].examples[d].text = drafts[q[1]].senses[q[2]].examples[e].text
               /\ drafts[p[1]].senses[p[2]].examples[d].text.by = "corpus" => p = q
          /\ \A p \in places : \A e \in DOMAIN drafts[p[1]].senses[p[2]].examples :
               drafts[p[1]].senses[p[2]].examples[e].translation \in {Nothing, drafts[p[1]].senses[p[2]].examples[e].text}
      BY <2>2, <2>3
    <2> QED
      BY <2>4 DEF ApartIn, places
  <1>5. UntranslatedIn(drafts, target)
    BY <1>1 DEF UntranslatedIn, Sensed, GroupSensed
  <1>6. drafts # <<>>
    <2>1. DOMAIN <<>> = {} /\ 1 \in DOMAIN drafts
      BY <1>1 DEF Listed
    <2> QED
      BY <2>1
  <1> QED
    BY <1>2, <1>3, <1>4, <1>5, <1>6 DEF DraftsSound

\* A translation is the lexicon's, the translator's or the model's.
LEMMA ResolvedIs ==
  ASSUME LexiconSound, NEW row, NEW pos, NEW mt, NEW m, NEW t, t = BuildTranslations(row, Translate(row, pos, mt), m)
  PROVE  /\ t = Nothing \/ t = m \/ t.by \in {"dictionary", "opus-mt"}
         /\ Target(row) = "none" => t = Nothing
  <1>1. PICK resolved : resolved = Translate(row, pos, mt)
    OBVIOUS
  <1>2. resolved = Nothing \/ resolved.by \in {"dictionary", "opus-mt"}
    <2>1. PICK target : target = ResolveTranslationLanguage(row)
      OBVIOUS
    <2>2. PICK first : first = <<row.lemma, target, pos>>
      OBVIOUS
    <2>3. PICK last : last = <<row.lemma, target, AnyPos>>
      OBVIOUS
    <2>4. resolved = IF target = "none" THEN Nothing
                     ELSE IF first \in DOMAIN lexicon THEN Piece(lexicon[first], <<row.lemma, target, pos, 0>>)
                     ELSE IF last \in DOMAIN lexicon THEN Piece(lexicon[last], <<row.lemma, target, AnyPos, 0>>)
                     ELSE IF mt THEN Piece("opus-mt", <<row.lemma, target, AnyPos, 0>>) ELSE Nothing
      BY <1>1, <2>1, <2>2, <2>3 DEF Translate
    <2>5. \A by, of : Piece(by, of).by = by
      BY DEF Piece
    <2> QED
      BY <2>4, <2>5 DEF LexiconSound
  <1> QED
    BY <1>1, <1>2 DEF BuildTranslations, Target

\* The word list is not the model.
LEMMA LevelIs == ASSUME NEW lemma, NEW pos PROVE CefrEstimate(lemma, pos).by # "model"
  <1>1. Nothing.by = "nobody" /\ \A of : Piece("wordlist", of).by = "wordlist"
    BY DEF Nothing, Piece
  <1>2. CefrEstimate(lemma, pos) = Nothing \/ \E of : CefrEstimate(lemma, pos) = Piece("wordlist", of)
    BY DEF CefrEstimate
  <1> QED
    BY <1>1, <1>2

LevelOf(lemma, pos, said) == IF CefrEstimate(lemma, pos) # Nothing THEN CefrEstimate(lemma, pos) ELSE said

\* A level is nothing, the word list's or the model's on the word.
LEMMA LevelsOwn ==
  ASSUME NEW said, NEW named, NEW lemma, NEW target, SaidLevel(said, named, lemma, target),
         NEW pos, NEW level, level = LevelOf(lemma, pos, said),
         named, level.by = "model"
  PROVE  level.of[1] = lemma
  <1>1. level = said
    BY LevelIs DEF LevelOf
  <1>2. Nothing.by # "model"
    BY DEF Nothing, Piece
  <1>3. PICK a, b \in Nat : said.of = <<lemma, target, a, b>>
    BY <1>1, <1>2 DEF SaidLevel, SaidPiece
  <1> QED
    BY <1>1, <1>3

\* What the model said about sense k of group g, if anything.
ModelSaid(m, groups, named, lemma, target, g, k) ==
  /\ m = Nothing \/ SaidPiece(m, named, lemma, target)
  /\ named /\ m # Nothing /\ Alone(groups, g) => m.of = <<lemma, target, g, k>>

LEMMA ModelSenseIs ==
  ASSUME NEW said, NEW groups, NEW named, NEW lemma, NEW target, Listed(groups),
         DictionarySaid(said, groups, named, lemma, target), NEW g \in 1..Len(groups), NEW k,
         NEW m, m = ModelSense(said, groups[g].pos, k)
  PROVE  ModelSaid(m, groups, named, lemma, target, g, k)
  <1>1. PICK at : at = {h \in DOMAIN said.groups : said.groups[h].pos = groups[g].pos}
    OBVIOUS
  <1>2. PICK last : last = CHOOSE h \in at : \A i \in at : i <= h
    OBVIOUS
  <1>3. PICK senses : senses = said.groups[last].senses
    OBVIOUS
  <1>4. m = IF at = {} THEN Nothing ELSE IF k \in DOMAIN senses THEN senses[k] ELSE Nothing
    BY <1>1, <1>2, <1>3 DEF ModelSense
  <1>5. CASE m = Nothing
    BY <1>5 DEF ModelSaid
  <1>6. CASE m # Nothing
    <2>1. at # {} /\ k \in DOMAIN senses /\ m = senses[k]
      BY <1>4, <1>6
    <2>2. said.groups # <<>>
      <3>1. DOMAIN <<>> = {}
        OBVIOUS
      <3> QED
        BY <1>1, <2>1, <3>1
    <2>3. DOMAIN said.groups = DOMAIN groups /\ DOMAIN groups = 1..Len(groups) /\ Len(groups) \in Nat
      BY <2>2 DEF DictionarySaid, Listed
    <2>4. last \in at
      <3>1. at \in SUBSET Int /\ IsFiniteSet(at)
        <4>1. at \in SUBSET (1..Len(groups)) /\ IsFiniteSet(1..Len(groups))
          BY <1>1, <2>3, FS_Interval
        <4>2. IsFiniteSet(at)
          BY <4>1, FS_Subset
        <4> QED
          BY <2>3, <4>1, <4>2
      <3>2. Max(at) \in at /\ \A x \in at : x <= Max(at)
        BY <2>1, <3>1, GreatestOf
      <3> QED
        BY <1>2, <3>2
    <2>5. last \in DOMAIN groups /\ said.groups[last].pos = groups[g].pos
      BY <1>1, <2>3, <2>4
    <2>6. /\ said.groups[last].pos = groups[last].pos
          /\ SaidPiece(m, named, lemma, target)
          /\ named /\ Alone(groups, last) => m.of = <<lemma, target, last, k>>
      BY <1>3, <2>1, <2>2, <2>5 DEF DictionarySaid
    <2>7. Alone(groups, g) => last = g
      BY <2>5, <2>6 DEF Alone
    <2> QED
      BY <2>6, <2>7 DEF ModelSaid
  <1> QED
    BY <1>5, <1>6

\* A slice of the corpus starts where the one before ends.
LEMMA SliceIs ==
  ASSUME NEW lemma \in Lemmas, NEW n \in Nat \ {0}, NEW slice, slice = RetrieveSlice(lemma, n)
  PROVE  /\ Len(slice) \in Nat /\ DOMAIN slice = 1..Len(slice) /\ Len(slice) <= ExamplesPerSense
         /\ \A i \in 1..Len(slice) :
              slice[i] = Piece("corpus", <<lemma, "none", 0, (n - 1) * ExamplesPerSense + i>>)
         /\ slice = [i \in 1..Len(slice) |-> slice[i]]
  <1>1. PICK from \in Nat : from = (n - 1) * ExamplesPerSense
    <2>1. PICK e \in Nat : e = ExamplesPerSense
      BY SourcingAssumption
    <2>2. n - 1 \in Nat
      OBVIOUS
    <2>3. (n - 1) * e \in Nat
      BY <2>2
    <2> QED
      BY <2>1, <2>3
  <1>2. Corpus[lemma] \in Nat /\ ExamplesPerSense \in Nat
    BY SourcingAssumption, ContentAssumption
  <1>3. PICK more \in Nat : /\ more = IF Corpus[lemma] > from THEN Smaller(ExamplesPerSense, Corpus[lemma] - from) ELSE 0
                            /\ more <= ExamplesPerSense
    BY <1>2 DEF Smaller
  <1>4. slice = [i \in 1..more |-> Piece("corpus", <<lemma, "none", 0, from + i>>)]
    BY <1>1, <1>3 DEF RetrieveSlice
  <1>5. Len(slice) = more /\ DOMAIN slice = 1..more
    BY <1>4
  <1> QED
    BY <1>1, <1>3, <1>4, <1>5

\* Places of two slices are not the same.
LEMMA SlicesApart ==
  ASSUME NEW n \in Nat \ {0}, NEW m \in Nat \ {0}, NEW i \in 1..ExamplesPerSense, NEW j \in 1..ExamplesPerSense,
         (n - 1) * ExamplesPerSense + i = (m - 1) * ExamplesPerSense + j
  PROVE  n = m
  <1>1. PICK e \in Nat : e = ExamplesPerSense
    BY SourcingAssumption
  <1>2. \A a, b \in Nat : a < b => a * e + e <= b * e
    <2> TAKE a, b \in Nat
    <2> HAVE a < b
    <2>1. PICK c \in Nat : b = (a + 1) + c
      <3>1. b - (a + 1) \in Nat /\ b = (a + 1) + (b - (a + 1))
        OBVIOUS
      <3> QED
        BY <3>1
    <2>2. b * e = a * e + e + c * e
      BY <2>1
    <2>3. c * e \in Nat /\ a * e \in Nat /\ b * e \in Nat
      OBVIOUS
    <2> QED
      BY <2>2, <2>3
  <1>3. PICK a, b \in Nat : a = n - 1 /\ b = m - 1
    OBVIOUS
  <1>4. PICK x, y \in Nat : x = a * e /\ y = b * e
    OBVIOUS
  <1>5. x + i = y + j /\ i \in 1..e /\ j \in 1..e
    BY <1>1, <1>3, <1>4
  <1>6. (a < b => x + e <= y) /\ (b < a => y + e <= x)
    BY <1>2, <1>4
  <1>7. a = b
    BY <1>5, <1>6
  <1> QED
    BY <1>3, <1>7

\* The places of the groups before g, and of those before h.
PlacesOf(groups, h) == {<<h, i>> : i \in DOMAIN groups[h].senses}
Before(groups, g) == UNION {PlacesOf(groups, h) : h \in 1..(g - 1)}

\* The places of a group are as many as its senses.
LEMMA OfOneGroup ==
  ASSUME NEW groups, NEW h, NEW n \in Nat, DOMAIN groups[h].senses = 1..n
  PROVE  IsFiniteSet(PlacesOf(groups, h)) /\ Cardinality(PlacesOf(groups, h)) = n
  <1>0. PICK P : P = {<<h, i>> : i \in 1..n}
    OBVIOUS
  <1>1. PICK f : f = [i \in 1..n |-> <<h, i>>]
    OBVIOUS
  <1>2. f \in [1..n -> P] /\ \A x \in P : \E i \in 1..n : f[i] = x
    BY <1>0, <1>1
  <1>3. DOMAIN f = 1..n /\ \A i, j \in DOMAIN f : f[i] = f[j] => i = j
    <2> SUFFICES ASSUME NEW i \in 1..n, NEW j \in 1..n, f[i] = f[j] PROVE i = j
      BY <1>1
    <2>1. <<h, i>> = <<h, j>>
      BY <1>1
    <2>2. <<h, i>>[2] = <<h, j>>[2]
      BY <2>1
    <2> QED
      BY <2>2
  <1>4. f \in Bijection(1..n, P)
    BY <1>2, <1>3, Zenon DEF Bijection, Injection, Surjection, IsInjective
  <1>5. ExistsBijection(1..n, P)
    BY <1>4 DEF ExistsBijection
  <1>6. IsFiniteSet(P) /\ Cardinality(P) = n
    BY <1>5, FS_NatBijection, FS_CountingElements
  <1>7. PlacesOf(groups, h) = P
    BY <1>0 DEF PlacesOf
  <1> QED
    BY <1>6, <1>7

\* There are finitely many places before a group.
LEMMA BeforeFinite ==
  ASSUME NEW groups, Listed(groups), NEW g \in 1..Len(groups)
  PROVE  IsFiniteSet(Before(groups, g)) /\ Cardinality(Before(groups, g)) \in Nat
  <1>1. g \in Nat /\ g >= 1 /\ Len(groups) \in Nat
    BY DEF Listed
  <1>2. PICK P : P = {PlacesOf(groups, h) : h \in 1..(g - 1)}
    OBVIOUS
  <1>3. IsFiniteSet(P)
    <2>1. PICK f : f = [h \in 1..(g - 1) |-> PlacesOf(groups, h)]
      OBVIOUS
    <2>2. f \in Surjection(1..(g - 1), P)
      BY <1>2, <2>1 DEF Surjection
    <2>3. IsFiniteSet(1..(g - 1))
      BY <1>1, FS_Interval
    <2> QED
      BY <2>2, <2>3, FS_Surjection
  <1>4. \A T \in P : IsFiniteSet(T)
    <2> TAKE T \in P
    <2>1. PICK h \in 1..(g - 1) : T = PlacesOf(groups, h)
      BY <1>2
    <2>2. h \in 1..Len(groups)
      BY <1>1
    <2>3. PICK n \in Nat : DOMAIN groups[h].senses = 1..n
      BY <2>2 DEF Listed
    <2> QED
      BY <2>1, <2>3, OfOneGroup
  <1>5. IsFiniteSet(UNION P)
    BY <1>3, <1>4, FS_UNION
  <1> QED
    BY <1>2, <1>5, FS_CardinalityType DEF Before

\* The places before a later group include all of an earlier one.
LEMMA BeforeGrows ==
  ASSUME NEW groups, Listed(groups), NEW g \in 1..Len(groups), NEW h \in 1..Len(groups), g < h
  PROVE  Cardinality(Before(groups, g)) + Len(groups[g].senses) <= Cardinality(Before(groups, h))
  <1>1. Len(groups) \in Nat /\ g \in Nat /\ h \in Nat /\ g >= 1
    BY DEF Listed
  <1>2. PICK n \in Nat : n = Len(groups[g].senses) /\ DOMAIN groups[g].senses = 1..n
    BY DEF Listed
  <1>3. PICK P : P = PlacesOf(groups, g)
    OBVIOUS
  <1>4. IsFiniteSet(P) /\ Cardinality(P) = n
    BY <1>2, <1>3, OfOneGroup
  <1>5. PICK B : B = Before(groups, g)
    OBVIOUS
  <1>6. IsFiniteSet(B) /\ Cardinality(B) \in Nat
    BY <1>5, BeforeFinite
  <1>7. B \cap P = {}
    <2> SUFFICES ASSUME NEW x \in B, x \in P PROVE FALSE
      OBVIOUS
    <2>1. PICK k \in 1..(g - 1) : x \in PlacesOf(groups, k)
      BY <1>5 DEF Before
    <2>2. x[1] = k /\ x[1] = g
      BY <1>3, <2>1 DEF PlacesOf
    <2> QED
      BY <1>1, <2>1, <2>2
  <1>8. IsFiniteSet(B \cup P) /\ Cardinality(B \cup P) = Cardinality(B) + n
    <2>1. Cardinality(B \cap P) = 0
      BY <1>7, FS_EmptySet
    <2>2. IsFiniteSet(B \cup P) /\ Cardinality(B \cup P) = Cardinality(B) + Cardinality(P) - Cardinality(B \cap P)
      BY <1>4, <1>6, FS_Union
    <2> QED
      BY <1>4, <1>6, <2>1, <2>2
  <1>9. PICK C : C = Before(groups, h)
    OBVIOUS
  <1>10. IsFiniteSet(C) /\ Cardinality(C) \in Nat
    BY <1>9, BeforeFinite
  <1>11. B \cup P \subseteq C
    <2>1. g \in 1..(h - 1) /\ \A k \in 1..(g - 1) : k \in 1..(h - 1)
      BY <1>1
    <2> QED
      BY <1>3, <1>5, <1>9, <2>1 DEF Before
  <1>12. Cardinality(B \cup P) <= Cardinality(C)
    BY <1>10, <1>11, FS_Subset
  <1> QED
    BY <1>2, <1>5, <1>8, <1>9, <1>12

\* Every sense has a slice of its own.
LEMMA NumbersApart ==
  ASSUME NEW groups, Listed(groups), NEW g \in 1..Len(groups), NEW h \in 1..Len(groups),
         NEW k \in 1..Len(groups[g].senses), NEW l \in 1..Len(groups[h].senses),
         Cardinality(Before(groups, g)) + k = Cardinality(Before(groups, h)) + l
  PROVE  g = h /\ k = l
  <1>1. /\ Cardinality(Before(groups, g)) \in Nat /\ Cardinality(Before(groups, h)) \in Nat
        /\ Len(groups[g].senses) \in Nat /\ Len(groups[h].senses) \in Nat /\ Len(groups) \in Nat
    BY BeforeFinite DEF Listed
  <1>2. (g < h => Cardinality(Before(groups, g)) + Len(groups[g].senses) <= Cardinality(Before(groups, h)))
        /\ (h < g => Cardinality(Before(groups, h)) + Len(groups[h].senses) <= Cardinality(Before(groups, g)))
    BY BeforeGrows
  <1>3. g = h
    BY <1>1, <1>2
  <1> QED
    BY <1>1, <1>3

\* A sense of a dictionary: its slice, what the model said on it and its own example.
DictionarySense(row, pos, model, slice, own, has, mt) ==
  [gloss |-> IF model # Nothing THEN model ELSE own,
   examples |-> Untranslated(
     (IF slice # <<>> THEN slice ELSE IF model # Nothing THEN <<model>> ELSE <<>>)
     \o (IF has THEN <<own>> ELSE <<>>)),
   translation |-> BuildTranslations(row, Translate(row, pos, mt), model)]

\* The texts of the corpus are those of the n-th slice.
FromSlice(s, lemma, n) ==
  \A e \in 1..Len(s.examples) : s.examples[e].text.by = "corpus" =>
    \E i \in 1..ExamplesPerSense : s.examples[e].text = Piece("corpus", <<lemma, "none", 0, (n - 1) * ExamplesPerSense + i>>)

\* Examples before they are translated.
LEMMA UntranslatedIs ==
  ASSUME NEW S, NEW texts \in Seq(S), NEW examples, examples = Untranslated(texts)
  PROVE  /\ Len(examples) \in Nat /\ DOMAIN examples = 1..Len(examples)
         /\ \A e \in 1..Len(examples) : examples[e].text \in S /\ examples[e].translation = Nothing
  BY DEF Untranslated

\* A sense of a dictionary keeps to what the model said on it and to its slice.
LEMMA DictionarySenseIs ==
  ASSUME LexiconSound, NEW row \in Rows, NEW pos, NEW mt, NEW has, NEW n \in Nat \ {0},
         NEW model, model = Nothing \/ model.by = "model", NEW own, own.by = "dictionary",
         NEW s, s = DictionarySense(row, pos, model, RetrieveSlice(row.lemma, n), own, has, mt)
  PROVE  Sensed(s, model, Target(row)) /\ FromSlice(s, row.lemma, n)
  <1>1. PICK slice : slice = RetrieveSlice(row.lemma, n)
    OBVIOUS
  <1>2. row.lemma \in Lemmas
    BY DEF Rows
  <1>3. /\ Len(slice) \in Nat /\ DOMAIN slice = 1..Len(slice) /\ Len(slice) <= ExamplesPerSense
        /\ \A i \in 1..Len(slice) :
             slice[i] = Piece("corpus", <<row.lemma, "none", 0, (n - 1) * ExamplesPerSense + i>>)
        /\ slice = [i \in 1..Len(slice) |-> slice[i]]
    BY <1>1, <1>2, SliceIs
  <1>4. PICK C : C = {slice[i] : i \in 1..Len(slice)}
    OBVIOUS
  <1>5. PICK S : S = C \cup {model, own}
    OBVIOUS
  <1>6. slice \in Seq(S)
    <2>1. \A i \in 1..Len(slice) : slice[i] \in S
      BY <1>4, <1>5
    <2> QED
      BY ONLY <1>3, <2>1
  <1>7. PICK a : a = IF slice # <<>> THEN slice ELSE IF model # Nothing THEN <<model>> ELSE <<>>
    OBVIOUS
  <1>8. PICK b : b = IF has THEN <<own>> ELSE <<>>
    OBVIOUS
  <1>9. <<>> \in Seq(S) /\ <<model>> \in Seq(S) /\ <<own>> \in Seq(S)
    <2>1. model \in S /\ own \in S
      BY <1>5
    <2> QED
      BY <2>1, EmptySeq
  <1>10. a \in Seq(S) /\ b \in Seq(S)
    <2>1. a \in {slice, <<model>>, <<>>} /\ b \in {<<own>>, <<>>}
      BY ONLY <1>7, <1>8
    <2> QED
      BY ONLY <1>6, <1>9, <2>1
  <1>11. PICK texts : texts = a \o b
    OBVIOUS
  <1>12. texts \in Seq(S)
    BY <1>10, <1>11, ConcatProperties
  <1>13. PICK examples : examples = Untranslated(texts)
    OBVIOUS
  <1>14. /\ Len(examples) \in Nat /\ DOMAIN examples = 1..Len(examples)
         /\ \A e \in 1..Len(examples) : examples[e].text \in S /\ examples[e].translation = Nothing
    BY <1>12, <1>13, UntranslatedIs
  <1>15. PICK gloss : gloss = IF model # Nothing THEN model ELSE own
    OBVIOUS
  <1>16. PICK t : t = BuildTranslations(row, Translate(row, pos, mt), model)
    OBVIOUS
  <1>17. s = [gloss |-> gloss, examples |-> examples, translation |-> t]
    BY <1>1, <1>7, <1>8, <1>11, <1>13, <1>15, <1>16 DEF DictionarySense
  <1>18. s.gloss = gloss /\ s.examples = examples /\ s.translation = t
    BY <1>17
  <1>19. IsSense(s)
    BY <1>14, <1>17, <1>18 DEF IsSense
  <1>20. /\ t = Nothing \/ t = model \/ t.by \in {"dictionary", "opus-mt"}
         /\ Target(row) = "none" => t = Nothing
    BY <1>16, ResolvedIs
  <1>21. Nothing.by = "nobody" /\ \A of : Piece("corpus", of).by = "corpus"
    BY DEF Nothing, Piece
  <1>22. \A x \in C : x.by = "corpus"
    BY ZenonT(30), <1>3, <1>4, <1>21
  <1>23. \A piece \in PiecesOf(s) : piece.by = "model" => piece = model
    <2> TAKE piece \in PiecesOf(s)
    <2> HAVE piece.by = "model"
    <2>1. piece = gloss \/ piece = t \/ \E e \in 1..Len(examples) : piece = examples[e].text
      BY <1>14, <1>18 DEF PiecesOf
    <2>2. piece = gloss \/ piece = t \/ piece \in S
      BY <1>14, <2>1
    <2>3. piece = gloss => piece = model
      BY <1>15
    <2>4. piece = t => piece = model
      BY <1>20, <1>21
    <2>5. piece \in S => piece = model
      BY <1>5, <1>22
    <2> QED
      BY <2>2, <2>3, <2>4, <2>5
  <1>24. Sensed(s, model, Target(row))
    BY <1>14, <1>18, <1>19, <1>20, <1>23 DEF Sensed
  <1>25. ASSUME NEW e \in 1..Len(examples), examples[e].text.by = "corpus"
         PROVE  \E i \in 1..ExamplesPerSense :
                  examples[e].text = Piece("corpus", <<row.lemma, "none", 0, (n - 1) * ExamplesPerSense + i>>)
    <2>1. examples[e].text \in C
      BY <1>5, <1>14, <1>21, <1>25
    <2>2. PICK i \in 1..Len(slice) : examples[e].text = slice[i]
      BY <1>4, <2>1
    <2>3. i \in 1..ExamplesPerSense
      BY <1>3, SourcingAssumption
    <2> QED
      BY <1>3, <2>2, <2>3
  <1>26. FromSlice(s, row.lemma, n)
    BY <1>18, <1>25 DEF FromSlice
  <1> QED
    BY <1>24, <1>26

\* The drafts of a word of a dictionary.
LEMMA DictionaryDrafts ==
  ASSUME LexiconSound, NEW row \in Rows, NEW kind \in {"examples", "plain"}, NEW groups, Listed(groups), Len(groups) >= 1,
         NEW said, NEW named, DictionarySaid(said, groups, named, row.lemma, Target(row)), NEW mt,
         NEW drafts, drafts = DraftsFromDictionary(row, groups, said, mt)
  PROVE  Drafted(drafts) /\ DraftsSound(drafts, named, kind, row.lemma, Target(row))
  <1> DEFINE Model(g, k) == ModelSense(said, groups[g].pos, k)
             Number(g, k) == Cardinality(Before(groups, g)) + k
             Own(g, k) == Piece("dictionary", <<row.lemma, "none", g, k>>)
             Sense(g, k) == DictionarySense(row, groups[g].pos, Model(g, k), RetrieveSlice(row.lemma, Number(g, k)),
                                    Own(g, k), groups[g].senses[k], mt)
             Level(g) == LevelOf(row.lemma, groups[g].pos, said.cefr)
             Senses(g) == [k \in DOMAIN groups[g].senses |-> Sense(g, k)]
  <1>1. drafts = [g \in DOMAIN groups |->
          [pos |-> groups[g].pos, ipa |-> groups[g].ipa, cefr |-> Level(g), senses |-> Senses(g)]]
    BY DEF DraftsFromDictionary, Before, PlacesOf, DictionarySense, LevelOf
  <1>2. PICK n \in Nat : n = Len(groups) /\ DOMAIN groups = 1..n
    BY DEF Listed
  <1>3. ASSUME NEW g \in 1..n, NEW k \in 1..Len(groups[g].senses)
        PROVE  /\ Sensed(Sense(g, k), Model(g, k), Target(row)) /\ FromSlice(Sense(g, k), row.lemma, Number(g, k))
               /\ Number(g, k) \in Nat \ {0}
               /\ ModelSaid(Model(g, k), groups, named, row.lemma, Target(row), g, k)
    <2>1. PICK model : model = Model(g, k)
      OBVIOUS
    <2>2. ModelSaid(model, groups, named, row.lemma, Target(row), g, k)
      <3>1. g \in 1..Len(groups) /\ model = ModelSense(said, groups[g].pos, k)
        BY <1>2, <2>1
      <3>2. Listed(groups) /\ DictionarySaid(said, groups, named, row.lemma, Target(row))
        OBVIOUS
      <3> QED
        BY <3>1, <3>2, ModelSenseIs
    <2>3. PICK m \in Nat \ {0} : m = Number(g, k)
      <3>1. Cardinality(Before(groups, g)) \in Nat
        BY <1>2, BeforeFinite
      <3>2. k \in Nat \ {0}
        BY <1>2 DEF Listed
      <3> QED
        BY <3>1, <3>2
    <2>4. PICK own : own = Own(g, k)
      OBVIOUS
    <2>5. own.by = "dictionary"
      BY <2>4 DEF Piece
    <2>6. model = Nothing \/ model.by = "model"
      BY <2>2 DEF SaidPiece, ModelSaid
    <2> HIDE DEF Model, Number, Own
    <2>7. PICK s : s = Sense(g, k)
      OBVIOUS
    <2>8. s = DictionarySense(row, groups[g].pos, model, RetrieveSlice(row.lemma, m), own, groups[g].senses[k], mt)
      BY <2>1, <2>3, <2>4, <2>7
    <2>9. Sensed(s, model, Target(row)) /\ FromSlice(s, row.lemma, m)
      BY <2>5, <2>6, <2>8, DictionarySenseIs
    <2> HIDE DEF Sense
    <2> QED
      BY <2>1, <2>2, <2>3, <2>7, <2>9
  <1> HIDE DEF Model, Own, Sense, Number
  <1>4. /\ DOMAIN drafts = 1..n /\ Len(drafts) = n
        /\ \A g \in 1..n : drafts[g] = [pos |-> groups[g].pos, ipa |-> groups[g].ipa, cefr |-> Level(g), senses |-> Senses(g)]
    <2> HIDE DEF Level, Senses
    <2> QED
      BY <1>1, <1>2
  <1>5. ASSUME NEW g \in 1..n
        PROVE  /\ drafts[g].pos = groups[g].pos /\ drafts[g].cefr = Level(g) /\ IsDraft(drafts[g])
               /\ DOMAIN drafts[g].senses = 1..Len(groups[g].senses) /\ Len(drafts[g].senses) = Len(groups[g].senses)
               /\ Len(groups[g].senses) \in Nat
               /\ \A k \in 1..Len(groups[g].senses) : drafts[g].senses[k] = Sense(g, k)
    <2>1. PICK senses : senses = Senses(g)
      OBVIOUS
    <2>2. PICK level : level = Level(g)
      OBVIOUS
    <2>3. PICK d : d = drafts[g]
      OBVIOUS
    <2>4. d = [pos |-> groups[g].pos, ipa |-> groups[g].ipa, cefr |-> level, senses |-> senses]
      BY <1>4, <2>1, <2>2, <2>3
    <2>5. d.pos = groups[g].pos /\ d.cefr = level /\ d.senses = senses /\ IsDraft(d)
      BY ONLY <2>4 DEF IsDraft
    <2>6. PICK m \in Nat : m = Len(groups[g].senses) /\ DOMAIN groups[g].senses = 1..m
      BY <1>2 DEF Listed
    <2>7. DOMAIN senses = 1..m /\ Len(senses) = m /\ \A k \in 1..m : senses[k] = Sense(g, k)
      BY <2>1, <2>6
    <2> HIDE DEF Level
    <2> QED
      BY <2>2, <2>3, <2>5, <2>6, <2>7
  <1>6. Listed(drafts) /\ Len(drafts) >= 1
    BY <1>2, <1>4, <1>5 DEF Listed
  <1>7. CorpusApart(drafts)
    <2> SUFFICES \A g, h \in 1..Len(drafts) : \A k \in 1..Len(drafts[g].senses), l \in 1..Len(drafts[h].senses) :
                   \A d \in 1..Len(drafts[g].senses[k].examples), e \in 1..Len(drafts[h].senses[l].examples) :
                     drafts[g].senses[k].examples[d].text = drafts[h].senses[l].examples[e].text
                     /\ drafts[g].senses[k].examples[d].text.by = "corpus" => g = h /\ k = l
      BY Zenon DEF CorpusApart
    <2> TAKE g, h \in 1..Len(drafts)
    <2>0. g \in 1..n /\ h \in 1..n
      BY <1>4
    <2> TAKE k \in 1..Len(drafts[g].senses), l \in 1..Len(drafts[h].senses)
    <2> TAKE d \in 1..Len(drafts[g].senses[k].examples), e \in 1..Len(drafts[h].senses[l].examples)
    <2> HAVE drafts[g].senses[k].examples[d].text = drafts[h].senses[l].examples[e].text
             /\ drafts[g].senses[k].examples[d].text.by = "corpus"
    <2>1. k \in 1..Len(groups[g].senses) /\ l \in 1..Len(groups[h].senses)
      BY <1>5, <2>0
    <2>2. PICK s, t : s = drafts[g].senses[k] /\ t = drafts[h].senses[l]
      OBVIOUS
    <2>3. PICK x, y : x = Number(g, k) /\ y = Number(h, l)
      OBVIOUS
    <2>4. /\ s = Sense(g, k) /\ t = Sense(h, l)
      BY <1>5, <2>0, <2>1, <2>2
    <2>5. FromSlice(s, row.lemma, x) /\ FromSlice(t, row.lemma, y) /\ x \in Nat \ {0} /\ y \in Nat \ {0}
      BY <1>3, <2>0, <2>1, <2>3, <2>4
    <2>6. PICK i \in 1..ExamplesPerSense : s.examples[d].text = Piece("corpus", <<row.lemma, "none", 0, (x - 1) * ExamplesPerSense + i>>)
      BY <2>2, <2>5 DEF FromSlice
    <2>7. PICK j \in 1..ExamplesPerSense : t.examples[e].text = Piece("corpus", <<row.lemma, "none", 0, (y - 1) * ExamplesPerSense + j>>)
      BY <2>2, <2>5 DEF FromSlice
    <2>8. PICK p, q : p = (x - 1) * ExamplesPerSense + i /\ q = (y - 1) * ExamplesPerSense + j
      OBVIOUS
    <2>9. Piece("corpus", <<row.lemma, "none", 0, p>>) = Piece("corpus", <<row.lemma, "none", 0, q>>)
      BY <2>2, <2>6, <2>7, <2>8
    <2>10. <<row.lemma, "none", 0, p>> = <<row.lemma, "none", 0, q>>
      <3>1. \A of : Piece("corpus", of).of = of
        BY DEF Piece
      <3> QED
        BY ONLY SMTT(30), <2>9, <3>1
    <2>11. p = q
      BY ONLY <2>10
    <2>12. x = y
      BY <2>5, <2>8, <2>11, SlicesApart
    <2>13. Cardinality(Before(groups, g)) + k = Cardinality(Before(groups, h)) + l
      BY <2>3, <2>12 DEF Number
    <2>14. Listed(groups) /\ g \in 1..Len(groups) /\ h \in 1..Len(groups)
      BY <1>2, <2>0
    <2> QED
      BY ONLY <2>1, <2>13, <2>14, NumbersApart
  <1>8. ASSUME NEW g \in 1..n
        PROVE  named /\ drafts[g].cefr.by = "model" => drafts[g].cefr.of[1] = row.lemma
    <2>1. SaidLevel(said.cefr, named, row.lemma, Target(row))
      BY DEF DictionarySaid
    <2>2. PICK level : level = Level(g)
      OBVIOUS
    <2>3. drafts[g].cefr = level
      BY <1>5, <2>2
    <2> SUFFICES ASSUME named, level.by = "model" PROVE level.of[1] = row.lemma
      BY <2>3
    <2> QED
      BY <2>1, <2>2, LevelsOwn
  <1>9. \A g \in 1..n : Alone(drafts, g) => Alone(groups, g)
    BY <1>2, <1>4, <1>5 DEF Alone
  <1>10. ASSUME NEW g \in 1..n, NEW k \in 1..Len(drafts[g].senses)
         PROVE  \E model : /\ Sensed(drafts[g].senses[k], model, Target(row))
                           /\ model = Nothing \/ SaidPiece(model, named, row.lemma, Target(row))
                           /\ named /\ model # Nothing /\ kind = "examples" /\ Alone(drafts, g) =>
                                model.of = <<row.lemma, Target(row), g, k>>
    <2>1. k \in 1..Len(groups[g].senses)
      BY <1>5
    <2>2. drafts[g].senses[k] = Sense(g, k)
      BY <1>5, <2>1
    <2> WITNESS Model(g, k)
    <2> QED
      BY <1>3, <1>9, <2>1, <2>2 DEF ModelSaid
  <1>11. kind \in {"examples", "scratch", "plain"} /\ \A g \in 1..n : IsDraft(drafts[g])
    BY <1>5
  <1>12. \A g \in 1..n : GroupSensed(drafts, g, kind, named, row.lemma, Target(row))
    BY <1>8, <1>10, <1>11 DEF GroupSensed
  <1> QED
    BY <1>4, <1>6, <1>7, <1>11, <1>12, SensedSound

\* A sense of a word that no dictionary has.
ScratchSense(row, pos, model, mt) ==
  [gloss |-> model, examples |-> Untranslated(<<model>>),
   translation |-> BuildTranslations(row, Translate(row, pos, mt), model)]

\* A sense of the model has only what it said.
LEMMA ScratchSenseIs ==
  ASSUME LexiconSound, NEW row, NEW pos, NEW mt, NEW model, model.by = "model",
         NEW s, s = ScratchSense(row, pos, model, mt)
  PROVE  Sensed(s, model, Target(row)) /\ \A e \in 1..Len(s.examples) : s.examples[e].text.by # "corpus"
  <1>1. PICK texts : texts = <<model>>
    OBVIOUS
  <1>2. texts \in Seq({model})
    BY <1>1
  <1>3. PICK examples : examples = Untranslated(texts)
    OBVIOUS
  <1>4. /\ Len(examples) \in Nat /\ DOMAIN examples = 1..Len(examples)
        /\ \A e \in 1..Len(examples) : examples[e].text \in {model} /\ examples[e].translation = Nothing
    BY <1>2, <1>3, UntranslatedIs
  <1>5. PICK t : t = BuildTranslations(row, Translate(row, pos, mt), model)
    OBVIOUS
  <1>6. s = [gloss |-> model, examples |-> examples, translation |-> t]
    BY <1>1, <1>3, <1>5 DEF ScratchSense
  <1>7. s.gloss = model /\ s.examples = examples /\ s.translation = t
    BY <1>6
  <1>8. IsSense(s)
    BY <1>4, <1>6, <1>7 DEF IsSense
  <1>9. /\ t = Nothing \/ t = model \/ t.by \in {"dictionary", "opus-mt"}
        /\ Target(row) = "none" => t = Nothing
    BY <1>5, ResolvedIs
  <1>10. Nothing.by = "nobody"
    BY DEF Nothing, Piece
  <1>11. \A piece \in PiecesOf(s) : piece.by = "model" => piece = model
    <2> TAKE piece \in PiecesOf(s)
    <2> HAVE piece.by = "model"
    <2>1. piece = model \/ piece = t \/ \E e \in 1..Len(examples) : piece = examples[e].text
      BY <1>4, <1>7 DEF PiecesOf
    <2> QED
      BY <1>4, <1>9, <1>10, <2>1
  <1> QED
    BY <1>4, <1>7, <1>8, <1>9, <1>11 DEF Sensed

\* The drafts of a word that no dictionary has.
LEMMA ScratchDrafts ==
  ASSUME LexiconSound, NEW row \in Rows, NEW said, NEW named, ScratchSaid(said, named, row.lemma, Target(row)),
         NEW mt, NEW hiccup, NEW drafts, drafts = DraftsFromScratch(row, said, mt, hiccup)
  PROVE  Drafted(drafts) /\ DraftsSound(drafts, named, "scratch", row.lemma, Target(row))
  <1>1. PICK groups : groups = said.groups
    OBVIOUS
  <1> DEFINE Composed == IF row.language = "en" /\ ~hiccup THEN ComposeIpaFromWords(row.lemma) ELSE "none"
             Ipa == IF Composed = "none" THEN "model" ELSE Composed
             Model(g, k) == groups[g].senses[k]
             Sense(g, k) == ScratchSense(row, groups[g].pos, Model(g, k), mt)
             Level(g) == LevelOf(row.lemma, groups[g].pos, said.cefr)
             Senses(g) == [k \in DOMAIN groups[g].senses |-> Sense(g, k)]
  <1>2. drafts = [g \in DOMAIN groups |->
          [pos |-> groups[g].pos, ipa |-> Ipa, cefr |-> Level(g), senses |-> Senses(g)]]
    BY <1>1 DEF DraftsFromScratch, ScratchSense, LevelOf
  <1>3. PICK n \in Nat : n = Len(groups) /\ DOMAIN groups = 1..n /\ n >= 1
    BY <1>1 DEF ScratchSaid, Listed
  <1>4. ASSUME NEW g \in 1..n, NEW k \in 1..Len(groups[g].senses)
        PROVE  /\ Sensed(Sense(g, k), Model(g, k), Target(row))
               /\ \A e \in 1..Len(Sense(g, k).examples) : Sense(g, k).examples[e].text.by # "corpus"
               /\ SaidPiece(Model(g, k), named, row.lemma, Target(row))
    <2>1. PICK model : model = Model(g, k)
      OBVIOUS
    <2>2. SaidPiece(model, named, row.lemma, Target(row))
      <3>1. g \in DOMAIN said.groups /\ k \in DOMAIN said.groups[g].senses
        BY <1>1, <1>3 DEF ScratchSaid, Listed
      <3> QED
        BY <1>1, <2>1, <3>1 DEF ScratchSaid
    <2>3. model.by = "model"
      BY <2>2 DEF SaidPiece
    <2> HIDE DEF Model
    <2>4. PICK s : s = Sense(g, k)
      OBVIOUS
    <2>5. s = ScratchSense(row, groups[g].pos, model, mt)
      BY <2>1, <2>4
    <2>6. Sensed(s, model, Target(row)) /\ \A e \in 1..Len(s.examples) : s.examples[e].text.by # "corpus"
      BY <2>3, <2>5, ScratchSenseIs
    <2> HIDE DEF Sense
    <2> QED
      BY <2>1, <2>2, <2>4, <2>6
  <1> HIDE DEF Model, Sense, Ipa
  <1>5. /\ DOMAIN drafts = 1..n /\ Len(drafts) = n
        /\ \A g \in 1..n : drafts[g] = [pos |-> groups[g].pos, ipa |-> Ipa, cefr |-> Level(g), senses |-> Senses(g)]
    <2> HIDE DEF Level, Senses
    <2> QED
      BY <1>2, <1>3
  <1>6. ASSUME NEW g \in 1..n
        PROVE  /\ drafts[g].cefr = Level(g) /\ IsDraft(drafts[g])
               /\ DOMAIN drafts[g].senses = 1..Len(groups[g].senses) /\ Len(drafts[g].senses) = Len(groups[g].senses)
               /\ Len(groups[g].senses) \in Nat
               /\ \A k \in 1..Len(groups[g].senses) : drafts[g].senses[k] = Sense(g, k)
    <2>1. PICK senses : senses = Senses(g)
      OBVIOUS
    <2>2. PICK level : level = Level(g)
      OBVIOUS
    <2>3. PICK d, ipa : d = drafts[g] /\ ipa = Ipa
      OBVIOUS
    <2>4. d = [pos |-> groups[g].pos, ipa |-> ipa, cefr |-> level, senses |-> senses]
      BY <1>5, <2>1, <2>2, <2>3
    <2>5. d.cefr = level /\ d.senses = senses /\ IsDraft(d)
      BY ONLY <2>4 DEF IsDraft
    <2>6. PICK m \in Nat : m = Len(groups[g].senses) /\ DOMAIN groups[g].senses = 1..m
      BY <1>1, <1>3 DEF ScratchSaid, Listed
    <2>7. DOMAIN senses = 1..m /\ Len(senses) = m /\ \A k \in 1..m : senses[k] = Sense(g, k)
      BY <2>1, <2>6
    <2> HIDE DEF Level
    <2> QED
      BY <2>2, <2>3, <2>5, <2>6, <2>7
  <1>7. Listed(drafts) /\ Len(drafts) >= 1
    BY <1>3, <1>5, <1>6 DEF Listed
  <1>8. CorpusApart(drafts)
    <2>1. ASSUME NEW g \in 1..Len(drafts), NEW k \in 1..Len(drafts[g].senses)
          PROVE  \A d \in 1..Len(drafts[g].senses[k].examples) : drafts[g].senses[k].examples[d].text.by # "corpus"
      <3>1. g \in 1..n
        BY <1>5
      <3>2. k \in 1..Len(groups[g].senses) /\ drafts[g].senses[k] = Sense(g, k)
        BY <1>6, <3>1
      <3>3. \A e \in 1..Len(Sense(g, k).examples) : Sense(g, k).examples[e].text.by # "corpus"
        BY <1>4, <3>1, <3>2
      <3> QED
        BY ONLY <3>2, <3>3
    <2> SUFFICES \A g, h \in 1..Len(drafts) : \A k \in 1..Len(drafts[g].senses), l \in 1..Len(drafts[h].senses) :
                   \A d \in 1..Len(drafts[g].senses[k].examples), e \in 1..Len(drafts[h].senses[l].examples) :
                     drafts[g].senses[k].examples[d].text = drafts[h].senses[l].examples[e].text
                     /\ drafts[g].senses[k].examples[d].text.by = "corpus" => g = h /\ k = l
      BY Zenon DEF CorpusApart
    <2> QED
      BY ONLY <2>1
  <1>9. ASSUME NEW g \in 1..n
        PROVE  named /\ drafts[g].cefr.by = "model" => drafts[g].cefr.of[1] = row.lemma
    <2>1. SaidLevel(said.cefr, named, row.lemma, Target(row))
      BY DEF ScratchSaid
    <2>2. PICK level : level = Level(g)
      OBVIOUS
    <2>3. drafts[g].cefr = level
      BY <1>6, <2>2
    <2> SUFFICES ASSUME named, level.by = "model" PROVE level.of[1] = row.lemma
      BY <2>3
    <2> QED
      BY <2>1, <2>2, LevelsOwn
  <1>10. ASSUME NEW g \in 1..n, NEW k \in 1..Len(drafts[g].senses)
         PROVE  \E model : /\ Sensed(drafts[g].senses[k], model, Target(row))
                           /\ model = Nothing \/ SaidPiece(model, named, row.lemma, Target(row))
                           /\ named /\ model # Nothing /\ "scratch" = "examples" /\ Alone(drafts, g) =>
                                model.of = <<row.lemma, Target(row), g, k>>
    <2>1. k \in 1..Len(groups[g].senses)
      BY <1>6
    <2>2. drafts[g].senses[k] = Sense(g, k)
      BY <1>6, <2>1
    <2> WITNESS Model(g, k)
    <2> QED
      BY <1>4, <2>1, <2>2
  <1>11. \A g \in 1..n : GroupSensed(drafts, g, "scratch", named, row.lemma, Target(row))
    BY <1>6, <1>9, <1>10 DEF GroupSensed
  <1> QED
    BY <1>5, <1>7, <1>8, <1>11, SensedSound

\* Prepared drafts are sound.
LEMMA PreparedSound ==
  ASSUME NEW row \in Rows, LexiconSound, NEW kind, NEW groups, NEW said, NEW named,
         AnsweredAs(kind, groups, said, named, row),
         NEW answers \in BOOLEAN, NEW hiccup \in BOOLEAN, NEW drafts,
         drafts = TranslateExamples(row,
                    IF kind = "scratch" THEN DraftsFromScratch(row, said, answers, hiccup)
                    ELSE DraftsFromDictionary(row, groups, said, answers), answers)
  PROVE  DraftsSound(drafts, named, kind, row.lemma, Target(row))
  <1>1. PICK plain : plain = IF kind = "scratch" THEN DraftsFromScratch(row, said, answers, hiccup)
                             ELSE DraftsFromDictionary(row, groups, said, answers)
    OBVIOUS
  <1>2. drafts = TranslateExamples(row, plain, answers)
    BY <1>1
  <1>3. Drafted(plain) /\ DraftsSound(plain, named, kind, row.lemma, Target(row))
    <2>1. CASE kind = "scratch"
      <3>1. ScratchSaid(said, named, row.lemma, Target(row))
        BY <2>1 DEF AnsweredAs
      <3>2. plain = DraftsFromScratch(row, said, answers, hiccup)
        BY <1>1, <2>1
      <3> QED
        BY <2>1, <3>1, <3>2, ScratchDrafts
    <2>2. CASE kind # "scratch"
      <3>1. /\ kind \in {"examples", "plain"} /\ groups = InputOf(row) /\ groups # <<>>
            /\ DictionarySaid(said, groups, named, row.lemma, Target(row))
        BY <2>2 DEF AnsweredAs
      <3>2. PromptTyped(groups) /\ Len(groups) >= 1
        BY <3>1, InputTyped
      <3>3. Listed(groups)
        BY <3>2 DEF PromptTyped, Listed
      <3>4. plain = DraftsFromDictionary(row, groups, said, answers)
        BY <1>1, <2>2
      <3> QED
        BY <3>1, <3>2, <3>3, <3>4, DictionaryDrafts
    <2> QED
      BY <2>1, <2>2
  <1> QED
    BY <1>2, <1>3, TranslatedSound

-----------------------------------------------------------------------------
(* Sourcing: the steps *)

\* One job moves, and neither waited nor does.
LEMMA OneMoves ==
  ASSUME SourcingInv, NEW j \in Jobs, NEW new, fetching' = [fetching EXCEPT ![j] = new],
         wanted' = wanted, FetchSound(new, wanted[j])
  PROVE  /\ Fetches' /\ fetching'[j] = new /\ \A k \in Jobs : k # j => fetching'[k] = fetching[k]
         /\ UNCHANGED <<buckets, calls>> /\ fetching[j].pc # "waiting" /\ new.pc # "waiting" => Queues'
  <1>1. fetching'[j] = new /\ DOMAIN fetching' = Jobs /\ \A k \in Jobs : k # j => fetching'[k] = fetching[k]
    BY DEF SourcingInv, Fetches
  <1>2. Fetches'
    BY <1>1 DEF SourcingInv, Fetches
  <1>3. ASSUME UNCHANGED <<buckets, calls>>, fetching[j].pc # "waiting", new.pc # "waiting"
        PROVE  Queues'
    <2>1. PICK G : G = fetching'
      OBVIOUS
    <2>2. \A k \in Jobs : G[k] = fetching[k] \/ (fetching[k].pc # "waiting" /\ G[k].pc # "waiting")
      BY <1>1, <1>3, <2>1
    <2>3. QueuesHold(buckets, calls, fetching, wanted)
      BY DEF SourcingInv, Queues
    <2>4. QueuesHold(buckets, calls, G, wanted)
      BY <2>2, <2>3, OthersMove
    <2>5. QueuesHold(buckets', calls', fetching', wanted')
      BY <1>3, <2>1, <2>4
    <2> QED
      BY <1>3, <2>5 DEF SourcingInv, Queues
  <1> QED
    BY <1>1, <1>2, <1>3

\* The keys stand still.
LEMMA RotationKept ==
  ASSUME Rotation, UNCHANGED <<throttled, nextStartIndex, lastCall>>
  PROVE  Rotation'
  BY DEF Rotation, KeysRotated

\* What a job enters with.
LEMMA Entered ==
  ASSUME SourcingInv, NEW j \in Jobs, Started(j), NEW entry, IsFetch(entry), Enters(j, entry)
  PROVE  \E new : /\ IsFetch(new) /\ fetching' = [fetching EXCEPT ![j] = new]
                  /\ new.tries \in 0..JobTries /\ fetching[j].pc # "waiting"
                  /\ new.pc = entry.pc /\ new.kind = entry.kind /\ new.groups = entry.groups
                  /\ new.said = entry.said /\ new.named = entry.named
                  /\ new.drafts = entry.drafts /\ new.hit = entry.hit
  <1>1. PICK n : n = fetching[j].tries + 1
    OBVIOUS
  <1>2. n \in 0..JobTries
    <2>1. fetching[j].tries \in 0..JobTries
      BY DEF SourcingInv, Fetches, FetchSound
    <2> QED
      BY <1>1, <2>1, SourcingAssumption DEF Started
  <1>3. PICK new : new = [entry EXCEPT !.tries = n]
    OBVIOUS
  <1>4. fetching' = [fetching EXCEPT ![j] = new]
    BY <1>1, <1>3 DEF Enters
  <1>5. /\ IsFetch(new) /\ new.tries = n /\ new.pc = entry.pc /\ new.kind = entry.kind
        /\ new.groups = entry.groups /\ new.said = entry.said /\ new.named = entry.named
        /\ new.drafts = entry.drafts /\ new.hit = entry.hit
    BY ONLY <1>3, IsFetch(entry) DEF IsFetch
  <1> QED
    BY <1>2, <1>4, <1>5 DEF Started

\* What a job has before it starts.
LEMMA NotFetchedIs ==
  /\ IsFetch(NotFetched) /\ NotFetched.tries = 0 /\ NotFetched.groups = <<>> /\ NotFetched.said = NothingSaid
  /\ NotFetched.named = TRUE /\ NotFetched.drafts = <<>> /\ NotFetched.hit = FALSE /\ NotFetched.kind = "none"
  BY DEF NotFetched, IsFetch

\* dictionary.service.ts: an entry of the cache is replayed.
LEMMA ReplayCachedKeeps ==
  ASSUME SourcingInv, NEW j \in Jobs, ReplayCached(j)
  PROVE  SourcingInv'
  <1> DEFINE key == CacheKey(wanted[j])
  <1>1. PICK none : none = NotFetched
    OBVIOUS
  <1>2. PICK entry : entry = [none EXCEPT !.pc = "prepared", !.hit = TRUE, !.drafts = cache[key].drafts,
                                          !.named = cache[key].named, !.kind = cache[key].kind]
    OBVIOUS
  <1>3. /\ IsFetch(entry) /\ entry.pc = "prepared" /\ entry.hit = TRUE /\ entry.drafts = cache[key].drafts
        /\ entry.named = cache[key].named /\ entry.kind = cache[key].kind
    <2>1. IsFetch(none)
      BY <1>1, NotFetchedIs
    <2> QED
      BY ONLY <1>2, <2>1 DEF IsFetch
  <1>4. Enters(j, entry) /\ Started(j) /\ key \in DOMAIN cache
    BY <1>1, <1>2 DEF ReplayCached
  <1>5. PICK new : /\ IsFetch(new) /\ fetching' = [fetching EXCEPT ![j] = new]
                   /\ new.tries \in 0..JobTries /\ fetching[j].pc # "waiting"
                   /\ new.pc = entry.pc /\ new.kind = entry.kind /\ new.groups = entry.groups
                   /\ new.said = entry.said /\ new.named = entry.named
                   /\ new.drafts = entry.drafts /\ new.hit = entry.hit
    BY <1>3, <1>4, Entered
  <1>6. DraftsSound(cache[key].drafts, cache[key].named, cache[key].kind, key[2], key[3])
    BY <1>4 DEF SourcingInv, CacheSound
  <1>7. key[2] = wanted[j].lemma /\ key[3] = Target(wanted[j])
    BY DEF CacheKey, Target
  <1>8. new.pc = "prepared" /\ DraftsSound(new.drafts, new.named, new.kind, wanted[j].lemma, Target(wanted[j]))
    BY <1>3, <1>5, <1>6, <1>7
  <1>9. FetchSound(new, wanted[j])
    <2>1. new.kind \in FetchKinds
      BY <1>8 DEF DraftsSound, FetchKinds
    <2> QED
      BY <1>3, <1>5, <1>8, <2>1 DEF FetchSound, FetchStages
  <1>10. UNCHANGED <<wanted, fallback, throttled, cache, lexicon, buckets, calls, lastCall, nextStartIndex, mishaps>>
    BY DEF ReplayCached
  <1>11. Fetches' /\ Queues' /\ fetching'[j] = new /\ \A k \in Jobs : k # j => fetching'[k] = fetching[k]
    BY <1>5, <1>8, <1>9, <1>10, OneMoves
  <1>12. CacheSound'
    <2>1. ASSUME NEW k \in Jobs, fetching'[k].pc = "prepared", fetching'[k].hit
          PROVE  CacheKey(wanted[k]) \in DOMAIN cache /\ cache[CacheKey(wanted[k])].drafts = fetching'[k].drafts
      <3>1. CASE k = j
        BY <1>3, <1>4, <1>5, <1>11, <3>1
      <3>2. CASE k # j
        BY <1>11, <2>1, <3>2 DEF SourcingInv, CacheSound
      <3> QED
        BY <3>1, <3>2
    <2>2. \A k \in Jobs : CacheKey(wanted[k])' = CacheKey(wanted[k])
      BY <1>10 DEF CacheKey, ResolveTranslationLanguage
    <2> QED
      BY <1>10, <2>1, <2>2 DEF SourcingInv, CacheSound
  <1>13. Rotation'
    BY <1>10, RotationKept DEF SourcingInv
  <1> QED
    BY <1>10, <1>11, <1>12, <1>13 DEF SourcingInv, LexiconSound

\* The cache stands still and so do those that had a hit.
LEMMA CacheStands ==
  ASSUME SourcingInv, UNCHANGED <<wanted, cache>>,
         \A k \in Jobs : fetching'[k] = fetching[k] \/ ~(fetching'[k].pc = "prepared" /\ fetching'[k].hit)
  PROVE  CacheSound'
  <1>1. \A k \in Jobs : CacheKey(wanted[k])' = CacheKey(wanted[k])
    BY DEF CacheKey, ResolveTranslationLanguage
  <1> QED
    BY <1>1 DEF SourcingInv, CacheSound

\* The dictionary fails, and the job with it.
LEMMA FetchDictionaryEntryFailsKeeps ==
  ASSUME SourcingInv, NEW j \in Jobs, FetchDictionaryEntryFails(j)
  PROVE  SourcingInv'
  <1>1. PICK none : none = NotFetched
    OBVIOUS
  <1>2. PICK entry : entry = [none EXCEPT !.pc = "failed"]
    OBVIOUS
  <1>3. IsFetch(entry) /\ entry.pc = "failed" /\ entry.kind = "none" /\ entry.hit = FALSE
    <2>1. IsFetch(none) /\ none.kind = "none" /\ none.hit = FALSE
      BY <1>1, NotFetchedIs
    <2> QED
      BY ONLY <1>2, <2>1 DEF IsFetch
  <1>4. Enters(j, entry) /\ Started(j)
    BY <1>1, <1>2 DEF FetchDictionaryEntryFails
  <1>5. PICK new : /\ IsFetch(new) /\ fetching' = [fetching EXCEPT ![j] = new]
                   /\ new.tries \in 0..JobTries /\ fetching[j].pc # "waiting"
                   /\ new.pc = entry.pc /\ new.kind = entry.kind /\ new.groups = entry.groups
                   /\ new.said = entry.said /\ new.named = entry.named
                   /\ new.drafts = entry.drafts /\ new.hit = entry.hit
    BY <1>3, <1>4, Entered
  <1>9. FetchSound(new, wanted[j])
    BY <1>3, <1>5 DEF FetchSound, FetchStages, FetchKinds
  <1>10. /\ UNCHANGED <<wanted, fallback, throttled, cache, lexicon, buckets, calls, lastCall, nextStartIndex>>
         /\ mishaps < MaxMishaps /\ mishaps' = mishaps + 1
    BY DEF FetchDictionaryEntryFails
  <1>11. Fetches' /\ Queues' /\ fetching'[j] = new /\ \A k \in Jobs : k # j => fetching'[k] = fetching[k]
    BY <1>3, <1>5, <1>9, <1>10, OneMoves
  <1>12. CacheSound'
    BY <1>3, <1>5, <1>10, <1>11, CacheStands
  <1>13. Rotation'
    BY <1>10, RotationKept DEF SourcingInv
  <1>14. mishaps' \in 0..MaxMishaps
    BY <1>10, SourcingAssumption DEF SourcingInv
  <1> QED
    BY <1>10, <1>11, <1>12, <1>13, <1>14 DEF SourcingInv, LexiconSound

\* A batch leaves its bucket, whatever is left of the others.
LEMMA NextKey == ASSUME nextStartIndex \in Keys PROVE (nextStartIndex + 1) % NumKeys \in Keys
  <1>1. NumKeys \in Nat \ {0} /\ nextStartIndex \in Nat
    BY SourcingAssumption DEF Keys
  <1>2. (nextStartIndex + 1) % NumKeys \in 0..(NumKeys - 1)
    BY <1>1
  <1> QED
    BY <1>2 DEF Keys

\* A job joins a bucket, which may flush at once.
LEMMA Submitted ==
  ASSUME Queues, Rotation, NEW j \in Jobs, fetching[j].pc # "waiting",
         NEW G, \A k \in Jobs : k # j => G[k] = fetching[k],
         NEW key, Waits(j, key, G, wanted), key[1] \in {"examples", "scratch"}, Submit(key, j)
  PROVE  /\ QueuesHold(buckets', calls', G, wanted)
         /\ \A k \in DOMAIN buckets' : Len(buckets'[k].items) <= MaxBatch - 1
         /\ nextStartIndex' \in Keys /\ lastCall' = lastCall
  <1>1. PICK items : items = Queued(buckets, key, j)
    OBVIOUS
  <1>2. PICK b : b = [items |-> items, timer |-> TRUE]
    OBVIOUS
  <1>3. PICK D : D = With(buckets, key, b)
    OBVIOUS
  <1>4. b.items = items /\ D = With(buckets, key, [items |-> Queued(buckets, key, j), timer |-> TRUE])
    BY <1>1, <1>2, <1>3
  <1>5. QueuesHold(buckets, calls, fetching, wanted)
    BY DEF Queues
  <1>6. QueuesHold(D, calls, G, wanted)
    BY <1>4, <1>5, JoinsQueue
  <1>7. /\ DOMAIN D = DOMAIN buckets \cup {key} /\ D[key] = b
        /\ \A k \in DOMAIN buckets : k # key => D[k] = buckets[k]
    BY ONLY <1>3 DEF With
  <1>8. BucketHolds(D[key], key, G, wanted)
    BY <1>6, <1>7 DEF QueuesHold
  <1>9. D[key].items = items /\ items \in Seq(Jobs)
    BY <1>4, <1>7, <1>8 DEF BucketHolds
  <1>10. IF Len(items) >= MaxBatch THEN FlushKey(key, items)
         ELSE buckets' = D /\ UNCHANGED <<calls, lastCall, nextStartIndex>>
    BY <1>1, <1>2, <1>3 DEF Submit, Queued
  <1>11. nextStartIndex \in Keys /\ \A k \in DOMAIN buckets : Len(buckets[k].items) <= MaxBatch - 1
    BY DEF Rotation, Queues
  <1>12. CASE Len(items) >= MaxBatch
    <2>1. /\ buckets' = Without(buckets, key) /\ lastCall' = lastCall
          /\ calls' = Append(calls, [kind |-> key[1], batch |-> items, start |-> nextStartIndex])
          /\ nextStartIndex' = (nextStartIndex + 1) % NumKeys
      BY <1>10, <1>12 DEF FlushKey
    <2>2. Without(buckets, key) = Without(D, key)
      BY <1>7 DEF Without
    <2>3. PICK E : E = Append(calls, [kind |-> key[1], batch |-> D[key].items, start |-> nextStartIndex])
      OBVIOUS
    <2>4. PICK B : B = Without(D, key)
      OBVIOUS
    <2>5. QueuesHold(B, E, G, wanted)
      BY <1>6, <1>7, <1>11, <2>3, <2>4, LeavesQueue
    <2>6. buckets' = B /\ calls' = E
      BY <1>9, <2>1, <2>2, <2>3, <2>4
    <2>7. \A k \in DOMAIN B : k \in DOMAIN buckets /\ B[k] = buckets[k]
      BY <2>2, <2>4 DEF Without
    <2> QED
      BY <1>11, <2>1, <2>5, <2>6, <2>7, NextKey
  <1>13. CASE ~(Len(items) >= MaxBatch)
    <2>1. Len(D[key].items) <= MaxBatch - 1
      BY <1>9, <1>13, SourcingAssumption
    <2>2. \A k \in DOMAIN D : Len(D[k].items) <= MaxBatch - 1
      BY <1>7, <1>11, <2>1
    <2>3. buckets' = D /\ UNCHANGED <<calls, lastCall, nextStartIndex>>
      BY <1>10, <1>13
    <2> QED
      BY <1>6, <1>11, <2>2, <2>3
  <1> QED
    BY <1>12, <1>13

\* A job asks the dictionaries and, where there is a key, the batcher.
LEMMA GenerateDraftsKeeps ==
  ASSUME SourcingInv, NEW j \in Jobs, GenerateDrafts(j)
  PROVE  SourcingInv'
  <1>1. PICK found : found = DictionaryGroups(wanted[j])
    OBVIOUS
  <1>2. PICK groups : groups = InputGroups(found)
    OBVIOUS
  <1>3. PICK kind \in {"examples", "scratch"} : kind = IF found = <<>> THEN "scratch" ELSE "examples"
    OBVIOUS
  <1>4. PICK asks \in BOOLEAN : asks <=> (fallback /\ (groups # <<>> \/ found = <<>>))
    OBVIOUS
  <1>5. PICK none : none = NotFetched
    OBVIOUS
  <1>6. PICK entry : entry = [none EXCEPT !.groups = groups, !.kind = IF asks THEN kind ELSE "plain",
                     !.pc = IF asks THEN "waiting" ELSE IF groups # <<>> THEN "answered" ELSE "empty"]
    OBVIOUS
  <1>7. /\ Started(j) /\ Enters(j, entry)
        /\ IF asks THEN Submit(BatchKey(kind, wanted[j]), j) ELSE UNCHANGED <<buckets, calls, lastCall, nextStartIndex>>
        /\ UNCHANGED <<wanted, fallback, throttled, cache, lexicon, mishaps>>
    BY <1>1, <1>2, <1>3, <1>4, <1>5, <1>6 DEF GenerateDrafts
  <1>8. /\ IsFetch(entry) /\ entry.groups = groups /\ entry.kind = (IF asks THEN kind ELSE "plain")
        /\ entry.pc = (IF asks THEN "waiting" ELSE IF groups # <<>> THEN "answered" ELSE "empty")
        /\ entry.said = NothingSaid /\ entry.named = TRUE /\ entry.hit = FALSE
    <2>1. IsFetch(none) /\ none.said = NothingSaid /\ none.named = TRUE /\ none.hit = FALSE
      BY <1>5, NotFetchedIs
    <2> QED
      BY ONLY <1>6, <2>1 DEF IsFetch
  <1>9. PICK new : /\ IsFetch(new) /\ fetching' = [fetching EXCEPT ![j] = new]
                   /\ new.tries \in 0..JobTries /\ fetching[j].pc # "waiting"
                   /\ new.pc = entry.pc /\ new.kind = entry.kind /\ new.groups = entry.groups
                   /\ new.said = entry.said /\ new.named = entry.named
                   /\ new.drafts = entry.drafts /\ new.hit = entry.hit
    BY <1>7, <1>8, Entered
  <1>10. groups = InputOf(wanted[j])
    BY <1>1, <1>2 DEF InputOf
  <1>11. FetchSound(new, wanted[j])
    <2>1. CASE asks
      <3>1. new.pc = "waiting" /\ new.kind = kind /\ new.groups = groups /\ new.hit = FALSE
        BY <1>8, <1>9, <2>1
      <3>2. kind = "examples" => groups # <<>>
        BY <1>3, <1>4, <2>1
      <3> QED
        BY <1>9, <1>10, <3>1, <3>2 DEF FetchSound, FetchStages, FetchKinds
    <2>2. CASE ~asks /\ groups # <<>>
      <3>1. new.pc = "answered" /\ new.kind = "plain" /\ new.groups = groups /\ new.said = NothingSaid /\ new.hit = FALSE
        BY <1>8, <1>9, <2>2
      <3>2. new.said.cefr = Nothing /\ new.said.groups = <<>>
        BY <3>1 DEF NothingSaid
      <3>3. AnsweredAs(new.kind, new.groups, new.said, new.named, wanted[j])
        BY <1>10, <2>2, <3>1, <3>2 DEF AnsweredAs, DictionarySaid, SaidLevel
      <3> QED
        BY <1>9, <3>1, <3>3 DEF FetchSound, FetchStages, FetchKinds
    <2>3. CASE ~asks /\ groups = <<>>
      <3>1. new.pc = "empty" /\ new.kind = "plain" /\ new.hit = FALSE
        BY <1>8, <1>9, <2>3
      <3> QED
        BY <1>9, <3>1 DEF FetchSound, FetchStages, FetchKinds
    <2> QED
      BY <2>1, <2>2, <2>3
  <1>12. /\ Fetches' /\ fetching'[j] = new /\ \A k \in Jobs : k # j => fetching'[k] = fetching[k]
         /\ UNCHANGED <<buckets, calls>> /\ fetching[j].pc # "waiting" /\ new.pc # "waiting" => Queues'
    BY <1>7, <1>9, <1>11, OneMoves
  <1>13. CacheSound'
    <2>1. new.pc # "prepared"
      BY <1>8, <1>9
    <2> QED
      BY <1>7, <1>12, <2>1, CacheStands
  <1>14. Queues' /\ Rotation'
    <2>1. CASE asks
      <3>1. PICK key : key = BatchKey(kind, wanted[j])
        OBVIOUS
      <3>2. key[1] = kind
        BY <3>1 DEF BatchKey
      <3>3. PICK G : G = fetching'
        OBVIOUS
      <3>4. G[j] = new /\ \A k \in Jobs : k # j => G[k] = fetching[k]
        BY <1>12, <3>3
      <3>5. Waits(j, key, G, wanted)
        BY <1>8, <1>9, <2>1, <3>1, <3>2, <3>4 DEF Waits
      <3>6. Submit(key, j) /\ Queues /\ Rotation
        BY <1>7, <2>1, <3>1 DEF SourcingInv
      <3>7. /\ QueuesHold(buckets', calls', G, wanted)
            /\ \A k \in DOMAIN buckets' : Len(buckets'[k].items) <= MaxBatch - 1
            /\ nextStartIndex' \in Keys /\ lastCall' = lastCall
        BY <1>9, <3>2, <3>4, <3>5, <3>6, Submitted
      <3>8. QueuesHold(buckets', calls', fetching', wanted')
        BY <1>7, <3>3, <3>7
      <3>9. Queues'
        BY <3>7, <3>8 DEF Queues
      <3> QED
        BY <1>7, <3>6, <3>7, <3>9 DEF Rotation, KeysRotated
    <2>2. CASE ~asks
      <3>1. UNCHANGED <<buckets, calls, lastCall, nextStartIndex>> /\ new.pc # "waiting"
        BY <1>7, <1>8, <1>9, <2>2
      <3> QED
        BY <1>7, <1>9, <1>12, <3>1, RotationKept DEF SourcingInv
    <2> QED
      BY <2>1, <2>2
  <1> QED
    BY <1>7, <1>12, <1>13, <1>14 DEF SourcingInv, LexiconSound

\* A timer flushes its bucket.
LEMMA LingerElapsesKeeps ==
  ASSUME SourcingInv, NEW key \in DOMAIN buckets, LingerElapses(key)
  PROVE  SourcingInv'
  <1>1. /\ buckets' = Without(buckets, key) /\ lastCall' = lastCall
        /\ calls' = Append(calls, [kind |-> key[1], batch |-> buckets[key].items, start |-> nextStartIndex])
        /\ nextStartIndex' = (nextStartIndex + 1) % NumKeys
        /\ UNCHANGED <<wanted, fallback, throttled, fetching, cache, lexicon, mishaps>>
    BY DEF LingerElapses, FlushKey
  <1>2. key[1] \in {"examples", "scratch"}
    BY SourcingInvTypeOK DEF SourcingTypeOK
  <1>3. PICK E : E = Append(calls, [kind |-> key[1], batch |-> buckets[key].items, start |-> nextStartIndex])
    OBVIOUS
  <1>4. PICK B : B = Without(buckets, key)
    OBVIOUS
  <1>5. QueuesHold(buckets, calls, fetching, wanted) /\ nextStartIndex \in Keys
    BY DEF SourcingInv, Queues, Rotation
  <1>6. QueuesHold(B, E, fetching, wanted)
    BY <1>2, <1>3, <1>4, <1>5, LeavesQueue
  <1>7. QueuesHold(buckets', calls', fetching', wanted')
    BY <1>1, <1>3, <1>4, <1>6
  <1>8. \A k \in DOMAIN buckets' : k \in DOMAIN buckets /\ buckets'[k] = buckets[k]
    BY <1>1 DEF Without
  <1>9. Queues'
    BY <1>7, <1>8 DEF SourcingInv, Queues
  <1>10. Rotation'
    BY <1>1, <1>5, NextKey DEF SourcingInv, Rotation, KeysRotated
  <1>11. Fetches'
    BY <1>1 DEF SourcingInv, Fetches
  <1>12. CacheSound'
    BY <1>1, CacheStands
  <1> QED
    BY <1>1, <1>9, <1>10, <1>11, <1>12 DEF SourcingInv, LexiconSound

\* Every job of a batch has its result.
LEMMA RunFlushKeeps ==
  ASSUME SourcingInv, NEW n \in 1..Len(calls), NEW outcome \in {"throttled", "error", "reply"},
         NEW results, NEW named, RunFlush(n, outcome, results, named),
         outcome = "throttled" <=> Range(KeysTried(calls[n].start)) \subseteq throttled,
         \A i \in 1..Len(calls[n].batch) : results[i].ok =>
           AnsweredAs(calls[n].kind, fetching[calls[n].batch[i]].groups, results[i], named, wanted[calls[n].batch[i]]),
         mishaps' \in 0..MaxMishaps
  PROVE  SourcingInv'
  <1>1. PICK c \in Calls : c = calls[n]
    BY DEF SourcingInv, Queues, QueuesHold
  <1>2. PICK batch \in Seq(Jobs) : batch = c.batch
    BY DEF Calls
  <1>3. PICK at : at = [j \in Jobs |-> CHOOSE i \in DOMAIN batch : batch[i] = j]
    OBVIOUS
  <1>4. ASSUME NEW j \in Jobs, InCall(j, c) PROVE at[j] \in 1..Len(batch) /\ batch[at[j]] = j
    BY <1>2, <1>3, <1>4 DEF InCall
  <1>5. \A j \in Jobs : j \in Range(batch) <=> InCall(j, c)
    BY <1>2 DEF Range, InCall
  <1>6. /\ DOMAIN fetching' = Jobs
        /\ \A j \in Jobs : fetching'[j] =
              IF j \notin Range(batch) THEN fetching[j]
              ELSE IF results[at[j]].ok
                   THEN [fetching[j] EXCEPT !.pc = "answered", !.said = results[at[j]], !.named = named]
                   ELSE [fetching[j] EXCEPT !.pc = "failed"]
        /\ calls' = RemoveAt(calls, n)
        /\ lastCall' = [asked |-> KeysTried(c.start), outcome |-> outcome]
        /\ UNCHANGED <<wanted, fallback, throttled, cache, lexicon, buckets, nextStartIndex>>
    <2> DEFINE At(j) == CHOOSE i \in DOMAIN calls[n].batch : calls[n].batch[i] = j
               After(j) == IF j \notin Range(calls[n].batch) THEN fetching[j]
                           ELSE IF results[At(j)].ok
                                THEN [fetching[j] EXCEPT !.pc = "answered", !.said = results[At(j)], !.named = named]
                                ELSE [fetching[j] EXCEPT !.pc = "failed"]
    <2>1. /\ fetching' = [j \in Jobs |-> After(j)]
          /\ calls' = RemoveAt(calls, n)
          /\ lastCall' = [asked |-> KeysTried(calls[n].start), outcome |-> outcome]
          /\ UNCHANGED <<wanted, fallback, throttled, cache, lexicon, buckets, nextStartIndex>>
      BY Zenon DEF RunFlush
    <2>2. calls[n].batch = batch /\ calls[n].start = c.start
      BY <1>1, <1>2
    <2>3. \A j \in Jobs : at[j] = At(j)
      BY <1>3, <2>2
    <2> HIDE DEF At
    <2>4. \A j \in Jobs : fetching'[j] = After(j)
      <3> HIDE DEF After
      <3> QED
        BY <2>1
    <2>5. DOMAIN fetching' = Jobs
      <3> HIDE DEF After
      <3> QED
        BY <2>1
    <2>6. \A j \in Jobs : fetching'[j] =
              IF j \notin Range(batch) THEN fetching[j]
              ELSE IF results[at[j]].ok
                   THEN [fetching[j] EXCEPT !.pc = "answered", !.said = results[at[j]], !.named = named]
                   ELSE [fetching[j] EXCEPT !.pc = "failed"]
      <3> TAKE j \in Jobs
      <3>1. fetching'[j] = After(j) /\ at[j] = At(j)
        BY <2>3, <2>4
      <3> QED
        BY ONLY <2>2, <3>1, Zenon DEF After
    <2> QED
      BY ONLY <2>1, <2>2, <2>5, <2>6
  <1>7. PICK G : G = fetching'
    OBVIOUS
  <1>8. QueuesHold(buckets, calls, fetching, wanted)
    BY DEF SourcingInv, Queues
  <1>9. ASSUME NEW j \in Jobs, ~InCall(j, c) PROVE G[j] = fetching[j]
    BY <1>5, <1>6, <1>7, <1>9
  <1>10. ASSUME NEW j \in Jobs, InCall(j, c)
         PROVE  FetchSound(G[j], wanted[j]) /\ G[j].pc \in {"answered", "failed"}
    <2>1. PICK f : f = fetching[j]
      OBVIOUS
    <2>2. FetchSound(f, wanted[j])
      BY <2>1 DEF SourcingInv, Fetches
    <2>3. PICK i \in 1..Len(batch) : i = at[j] /\ batch[i] = j
      BY <1>4, <1>10
    <2>4. f.kind = c.kind /\ f.pc = "waiting"
      <3>1. CallHolds(c, fetching, wanted)
        BY <1>1, <1>8 DEF QueuesHold
      <3> QED
        BY <1>2, <2>1, <2>3, <3>1 DEF CallHolds, Waits
    <2>5. CASE results[i].ok
      <3>1. PICK r : r = results[i]
        OBVIOUS
      <3>2. G[j] = [f EXCEPT !.pc = "answered", !.said = r, !.named = named]
        BY <1>5, <1>6, <1>7, <1>10, <2>1, <2>3, <2>5, <3>1
      <3>3. AnsweredAs(f.kind, f.groups, r, named, wanted[j])
        BY <1>1, <1>2, <2>1, <2>3, <2>4, <2>5, <3>1
      <3>4. PICK g : g = G[j]
        OBVIOUS
      <3>5. /\ IsFetch(g) /\ g.pc = "answered" /\ g.tries = f.tries /\ g.kind = f.kind /\ g.groups = f.groups
            /\ g.said = r /\ g.named = named /\ g.hit = f.hit
        <4>1. IsFetch(f)
          BY <2>2 DEF FetchSound
        <4> QED
          BY ONLY <3>2, <3>4, <4>1 DEF IsFetch
      <3>6. FetchSound(g, wanted[j])
        BY <2>2, <2>4, <3>3, <3>5 DEF FetchSound, FetchStages
      <3> QED
        BY <3>4, <3>5, <3>6
    <2>6. CASE ~results[i].ok
      <3>1. PICK g : g = G[j]
        OBVIOUS
      <3>2. g = [f EXCEPT !.pc = "failed"]
        BY <1>5, <1>6, <1>7, <1>10, <2>1, <2>3, <2>6, <3>1
      <3>3. IsFetch(g) /\ g.pc = "failed" /\ g.tries = f.tries /\ g.kind = f.kind /\ g.hit = f.hit
        <4>1. IsFetch(f)
          BY <2>2 DEF FetchSound
        <4> QED
          BY ONLY <3>2, <4>1 DEF IsFetch
      <3>4. FetchSound(g, wanted[j])
        BY <2>2, <2>4, <3>3 DEF FetchSound, FetchStages
      <3> QED
        BY <3>1, <3>3, <3>4
    <2> QED
      BY <2>5, <2>6
  <1>11. Fetches'
    <2>1. DOMAIN fetching' = Jobs
      BY <1>6
    <2>2. \A j \in Jobs : FetchSound(fetching'[j], wanted[j]) /\ wanted[j] \in Rows
      BY <1>7, <1>9, <1>10 DEF SourcingInv, Fetches
    <2> QED
      BY <1>6, <2>1, <2>2 DEF Fetches
  <1>12. Queues'
    <2>1. PICK D : D = RemoveAt(calls, n)
      OBVIOUS
    <2>2. \A j \in Jobs : IF InCall(j, calls[n]) THEN G[j].pc # "waiting" ELSE G[j] = fetching[j]
      BY <1>1, <1>9, <1>10
    <2>3. QueuesHold(buckets, D, G, wanted)
      BY <1>8, <2>1, <2>2, CallAnswered
    <2>4. QueuesHold(buckets', calls', fetching', wanted')
      BY <1>6, <1>7, <2>1, <2>3
    <2> QED
      BY <1>6, <2>4 DEF SourcingInv, Queues
  <1>13. CacheSound'
    <2>1. \A k \in Jobs : fetching'[k] = fetching[k] \/ ~(fetching'[k].pc = "prepared" /\ fetching'[k].hit)
      BY <1>7, <1>9, <1>10
    <2> QED
      BY <1>6, <2>1, CacheStands
  <1>14. Rotation'
    <2>1. PICK asked : asked = KeysTried(c.start)
      OBVIOUS
    <2>2. c.start \in Keys /\ throttled \subseteq Keys
      BY DEF Calls, SourcingInv, Rotation
    <2>3. /\ IsInjective(asked)
          /\ \A i \in 1..(Len(asked) - 1) : asked[i] \in throttled
          /\ Range(asked) \subseteq throttled <=> throttled = Keys
      BY <2>1, <2>2, KeysInTurn
    <2>4. lastCall'.asked = asked /\ lastCall'.outcome = outcome
      BY <1>6, <2>1
    <2>5. outcome = "throttled" <=> throttled = Keys
      BY <1>1, <2>1, <2>3
    <2>6. throttled' = throttled
      BY <1>6
    <2>7. KeysRotated'
      BY <2>3, <2>4, <2>5, <2>6 DEF KeysRotated
    <2> QED
      BY <1>6, <2>4, <2>7 DEF SourcingInv, Rotation
  <1> QED
    BY <1>6, <1>11, <1>12, <1>13, <1>14 DEF SourcingInv, LexiconSound

\* A call tries the keys and ends with a reply, an error or no key.
LEMMA GenerateContentKeeps ==
  ASSUME SourcingInv, NEW n \in DOMAIN calls, GenerateContent(n)
  PROVE  SourcingInv'
  <1>1. n \in 1..Len(calls) /\ calls[n] \in Calls /\ CallHolds(calls[n], fetching, wanted)
    BY DEF SourcingInv, Queues, QueuesHold
  <1>2. PICK c \in Calls : c = calls[n]
    BY <1>1
  <1>3. PICK batch \in Seq(Jobs) : batch = c.batch
    BY DEF Calls
  <1>4. PICK nothing : nothing = [i \in DOMAIN batch |-> Failed]
    OBVIOUS
  <1>5. \A i \in 1..Len(batch) : ~nothing[i].ok
    BY <1>4 DEF Failed
  <1>6. mishaps \in 0..MaxMishaps /\ MaxMishaps \in Nat
    BY SourcingAssumption DEF SourcingInv
  <1>7. CASE Range(KeysTried(c.start)) \subseteq throttled
    <2>1. RunFlush(n, "throttled", nothing, TRUE) /\ UNCHANGED mishaps
      BY <1>2, <1>3, <1>4, <1>7 DEF GenerateContent
    <2> QED
      BY <1>1, <1>2, <1>3, <1>5, <1>6, <1>7, <2>1, RunFlushKeeps
  <1>8. CASE ~(Range(KeysTried(c.start)) \subseteq throttled)
    <2>1. \/ /\ mishaps < MaxMishaps /\ mishaps' = mishaps + 1
             /\ RunFlush(n, "error", nothing, TRUE)
          \/ \E reply \in Replies(c.kind, batch) :
               /\ RunFlush(n, "reply", ParseBatch(c.kind, batch, reply), Named(batch, reply))
               /\ IF Flawless(c.kind, batch, reply) THEN UNCHANGED mishaps
                  ELSE mishaps < MaxMishaps /\ mishaps' = mishaps + 1
      BY <1>2, <1>3, <1>4, <1>8 DEF GenerateContent
    <2>2. CASE mishaps < MaxMishaps /\ mishaps' = mishaps + 1 /\ RunFlush(n, "error", nothing, TRUE)
      <3>1. mishaps' \in 0..MaxMishaps
        BY <1>6, <2>2
      <3> QED
        BY <1>1, <1>2, <1>3, <1>5, <1>8, <2>2, <3>1, RunFlushKeeps
    <2>3. ASSUME NEW reply \in Replies(c.kind, batch),
                 RunFlush(n, "reply", ParseBatch(c.kind, batch, reply), Named(batch, reply)),
                 IF Flawless(c.kind, batch, reply) THEN UNCHANGED mishaps
                 ELSE mishaps < MaxMishaps /\ mishaps' = mishaps + 1
          PROVE  SourcingInv'
      <3>1. mishaps' \in 0..MaxMishaps
        BY <1>6, <2>3
      <3>2. PICK results : results = ParseBatch(c.kind, batch, reply)
        OBVIOUS
      <3>3. PICK named : named = Named(batch, reply)
        OBVIOUS
      <3>4. PICK key : key[1] = c.kind /\ \A i \in 1..Len(batch) : Waits(batch[i], key, fetching, wanted)
        BY <1>1, <1>2, <1>3 DEF CallHolds
      <3>5. Len(batch) >= 1 /\ c.kind \in {"examples", "scratch"} /\ Fetches
        BY <1>1, <1>2, <1>3 DEF CallHolds, Calls, SourcingInv
      <3>6. ASSUME NEW i \in 1..Len(batch), results[i].ok
            PROVE  AnsweredAs(c.kind, fetching[batch[i]].groups, results[i], named, wanted[batch[i]])
        BY <3>2, <3>3, <3>4, <3>5, <3>6, RepliesSound
      <3> QED
        BY <1>1, <1>2, <1>3, <1>8, <2>3, <3>1, <3>2, <3>3, <3>6, RunFlushKeeps
    <2> QED
      BY <2>1, <2>2, <2>3
  <1> QED
    BY <1>7, <1>8

\* A job makes its drafts of what was said and stores them.
LEMMA PrepareDraftsKeeps ==
  ASSUME SourcingInv, NEW j \in Jobs, PrepareDrafts(j)
  PROVE  SourcingInv'
  <1>1. PICK row : row = wanted[j]
    OBVIOUS
  <1>2. PICK f : f = fetching[j]
    OBVIOUS
  <1>3. /\ f.pc = "answered"
        /\ UNCHANGED <<wanted, fallback, throttled, buckets, calls, lastCall, nextStartIndex>>
    BY <1>2 DEF PrepareDrafts
  <1>3a. PICK answers \in BOOLEAN, kept \in BOOLEAN, hiccup \in BOOLEAN : \E drafts :
          /\ drafts = TranslateExamples(row,
                        IF f.kind = "scratch" THEN DraftsFromScratch(row, f.said, answers, hiccup)
                        ELSE DraftsFromDictionary(row, f.groups, f.said, answers), answers)
          /\ fetching' = [fetching EXCEPT ![j].pc = "prepared", ![j].drafts = drafts,
                            ![j].groups = <<>>, ![j].said = NothingSaid]
          /\ IF kept
             THEN /\ cache' = PutInCache(j, drafts) /\ lexicon' = CacheTranslation(row, drafts)
                  /\ UNCHANGED mishaps
             ELSE /\ mishaps < MaxMishaps /\ mishaps' = mishaps + 1
                  /\ UNCHANGED <<cache, lexicon>>
    <2>1. \E answers, kept \in BOOLEAN, hiccup \in (IF Len(Tokens[wanted[j].lemma]) > 1 THEN BOOLEAN ELSE {FALSE}) :
            LET plain == IF fetching[j].kind = "scratch" THEN DraftsFromScratch(wanted[j], fetching[j].said, answers, hiccup)
                         ELSE DraftsFromDictionary(wanted[j], fetching[j].groups, fetching[j].said, answers)
                drafts == TranslateExamples(wanted[j], plain, answers)
            IN /\ fetching' = [fetching EXCEPT ![j].pc = "prepared", ![j].drafts = drafts,
                                 ![j].groups = <<>>, ![j].said = NothingSaid]
               /\ IF kept
                  THEN /\ cache' = PutInCache(j, drafts) /\ lexicon' = CacheTranslation(wanted[j], drafts)
                       /\ UNCHANGED mishaps
                  ELSE /\ mishaps < MaxMishaps /\ mishaps' = mishaps + 1
                       /\ UNCHANGED <<cache, lexicon>>
      BY Zenon DEF PrepareDrafts
    <2>2. PICK answers \in BOOLEAN, kept \in BOOLEAN, hiccup \in (IF Len(Tokens[wanted[j].lemma]) > 1 THEN BOOLEAN ELSE {FALSE}) :
            LET plain == IF fetching[j].kind = "scratch" THEN DraftsFromScratch(wanted[j], fetching[j].said, answers, hiccup)
                         ELSE DraftsFromDictionary(wanted[j], fetching[j].groups, fetching[j].said, answers)
                drafts == TranslateExamples(wanted[j], plain, answers)
            IN /\ fetching' = [fetching EXCEPT ![j].pc = "prepared", ![j].drafts = drafts,
                                 ![j].groups = <<>>, ![j].said = NothingSaid]
               /\ IF kept
                  THEN /\ cache' = PutInCache(j, drafts) /\ lexicon' = CacheTranslation(wanted[j], drafts)
                       /\ UNCHANGED mishaps
                  ELSE /\ mishaps < MaxMishaps /\ mishaps' = mishaps + 1
                       /\ UNCHANGED <<cache, lexicon>>
      BY ONLY <2>1, Zenon
    <2>6. hiccup \in BOOLEAN
      OBVIOUS
    <2>3. PICK drafts : drafts = TranslateExamples(wanted[j],
            IF fetching[j].kind = "scratch" THEN DraftsFromScratch(wanted[j], fetching[j].said, answers, hiccup)
            ELSE DraftsFromDictionary(wanted[j], fetching[j].groups, fetching[j].said, answers), answers)
      OBVIOUS
    <2>4. /\ fetching' = [fetching EXCEPT ![j].pc = "prepared", ![j].drafts = drafts,
                             ![j].groups = <<>>, ![j].said = NothingSaid]
          /\ IF kept
             THEN /\ cache' = PutInCache(j, drafts) /\ lexicon' = CacheTranslation(wanted[j], drafts)
                  /\ UNCHANGED mishaps
             ELSE /\ mishaps < MaxMishaps /\ mishaps' = mishaps + 1
                  /\ UNCHANGED <<cache, lexicon>>
      BY ONLY <2>2, <2>3, Zenon
    <2> QED
      BY <1>1, <1>2, <2>3, <2>4, <2>6, Zenon
  <1>4. PICK drafts :
          /\ drafts = TranslateExamples(row,
                        IF f.kind = "scratch" THEN DraftsFromScratch(row, f.said, answers, hiccup)
                        ELSE DraftsFromDictionary(row, f.groups, f.said, answers), answers)
          /\ fetching' = [fetching EXCEPT ![j].pc = "prepared", ![j].drafts = drafts,
                            ![j].groups = <<>>, ![j].said = NothingSaid]
          /\ IF kept
             THEN /\ cache' = PutInCache(j, drafts) /\ lexicon' = CacheTranslation(row, drafts)
                  /\ UNCHANGED mishaps
             ELSE /\ mishaps < MaxMishaps /\ mishaps' = mishaps + 1
                  /\ UNCHANGED <<cache, lexicon>>
    BY ONLY <1>3a, Zenon
  <1>5. row \in Rows /\ FetchSound(f, row) /\ DOMAIN fetching = Jobs
    BY <1>1, <1>2 DEF SourcingInv, Fetches
  <1>6. DraftsSound(drafts, f.named, f.kind, row.lemma, Target(row))
    <2>1. AnsweredAs(f.kind, f.groups, f.said, f.named, row) /\ LexiconSound
      BY <1>3, <1>5 DEF FetchSound, SourcingInv
    <2> QED
      BY <1>4, <1>5, <2>1, PreparedSound
  <1>7. PICK new : new = [f EXCEPT !.pc = "prepared", !.drafts = drafts, !.groups = <<>>, !.said = NothingSaid]
    OBVIOUS
  <1>8. fetching' = [fetching EXCEPT ![j] = new]
    BY <1>2, <1>4, <1>5, <1>7
  <1>9. /\ IsFetch(new) /\ new.pc = "prepared" /\ new.drafts = drafts /\ new.named = f.named /\ new.kind = f.kind
        /\ new.tries = f.tries /\ new.hit = f.hit
    <2>1. IsFetch(f)
      BY <1>5 DEF FetchSound
    <2> QED
      BY ONLY <1>7, <2>1 DEF IsFetch
  <1>10. FetchSound(new, row)
    BY <1>5, <1>6, <1>9 DEF FetchSound, FetchStages
  <1>11. Fetches' /\ Queues' /\ fetching'[j] = new /\ \A k \in Jobs : k # j => fetching'[k] = fetching[k]
    BY <1>1, <1>2, <1>3, <1>8, <1>9, <1>10, OneMoves
  <1>12. new.hit = FALSE
    BY <1>3, <1>5, <1>9 DEF FetchSound
  <1>13. PICK key : key = CacheKey(row)
    OBVIOUS
  <1>14. key[2] = row.lemma /\ key[3] = Target(row)
    BY <1>13 DEF CacheKey, Target
  <1>15. PICK entry : entry = [drafts |-> drafts, named |-> f.named, kind |-> f.kind]
    OBVIOUS
  <1>16. \/ cache' = cache
         \/ key \notin DOMAIN cache /\ cache' = With(cache, key, entry)
    BY <1>1, <1>2, <1>4, <1>13, <1>15 DEF PutInCache, WithNew
  <1>17. /\ \A k \in DOMAIN cache : k \in DOMAIN cache' /\ cache'[k] = cache[k]
         /\ \A k \in DOMAIN cache' : k \in DOMAIN cache \/ (k = key /\ cache'[k] = entry)
    <2>1. CASE cache' = cache
      BY <2>1
    <2>2. CASE key \notin DOMAIN cache /\ cache' = With(cache, key, entry)
      BY ONLY <2>2 DEF With
    <2> QED
      BY <1>16, <2>1, <2>2
  <1>18. CacheSound'
    <2>1. ASSUME NEW k \in DOMAIN cache'
          PROVE  DraftsSound(cache'[k].drafts, cache'[k].named, cache'[k].kind, k[2], k[3])
      <3>1. CASE k \in DOMAIN cache
        BY <1>17, <3>1 DEF SourcingInv, CacheSound
      <3>2. CASE k = key /\ cache'[k] = entry
        <4>1. entry.drafts = drafts /\ entry.named = f.named /\ entry.kind = f.kind
          BY <1>15
        <4> QED
          BY <1>6, <1>14, <3>2, <4>1
      <3> QED
        BY <1>17, <3>1, <3>2
    <2>2. ASSUME NEW k \in Jobs, fetching'[k].pc = "prepared", fetching'[k].hit
          PROVE  CacheKey(wanted[k]) \in DOMAIN cache' /\ cache'[CacheKey(wanted[k])].drafts = fetching'[k].drafts
      <3>1. k # j
        BY <1>11, <1>12, <2>2
      <3>2. fetching'[k] = fetching[k]
        BY <1>11, <3>1
      <3>3. CacheKey(wanted[k]) \in DOMAIN cache /\ cache[CacheKey(wanted[k])].drafts = fetching[k].drafts
        BY <2>2, <3>2 DEF SourcingInv, CacheSound
      <3> QED
        BY <1>17, <3>2, <3>3
    <2>3. \A k \in Jobs : CacheKey(wanted[k])' = CacheKey(wanted[k])
      BY <1>3 DEF CacheKey, ResolveTranslationLanguage
    <2> QED
      BY <2>1, <2>2, <2>3 DEF CacheSound
  <1>19. LexiconSound'
    <2>1. \/ lexicon' = lexicon
          \/ \E at : lexicon' = With(lexicon, at, "opus-mt")
      BY <1>4 DEF CacheTranslation, WithNew
    <2>2. CASE lexicon' = lexicon
      BY <2>2 DEF SourcingInv, LexiconSound
    <2>3. CASE \E at : lexicon' = With(lexicon, at, "opus-mt")
      BY <2>3 DEF SourcingInv, LexiconSound, With
    <2> QED
      BY <2>1, <2>2, <2>3
  <1>20. Rotation'
    BY <1>3, RotationKept DEF SourcingInv
  <1>21. mishaps' \in 0..MaxMishaps
    <2>1. mishaps \in 0..MaxMishaps /\ MaxMishaps \in Nat
      BY SourcingAssumption DEF SourcingInv
    <2> QED
      BY ONLY <1>4, <2>1
  <1> QED
    BY <1>11, <1>18, <1>19, <1>20, <1>21 DEF SourcingInv

\* Every step keeps the invariant.
LEMMA SourcingStepInv == SourcingInv /\ [SourcingNext]_sourcingVars => SourcingInv'
  <1> SUFFICES ASSUME SourcingInv, [SourcingNext]_sourcingVars PROVE SourcingInv'
    OBVIOUS
  <1>1. ASSUME NEW j \in Jobs, ReplayCached(j) \/ FetchDictionaryEntryFails(j) \/ GenerateDrafts(j) \/ PrepareDrafts(j)
        PROVE  SourcingInv'
    BY <1>1, ReplayCachedKeeps, FetchDictionaryEntryFailsKeeps, GenerateDraftsKeeps, PrepareDraftsKeeps
  <1>2. ASSUME NEW key \in DOMAIN buckets, LingerElapses(key) PROVE SourcingInv'
    BY <1>2, LingerElapsesKeeps
  <1>3. ASSUME NEW n \in DOMAIN calls, GenerateContent(n) PROVE SourcingInv'
    BY <1>3, GenerateContentKeeps
  <1>4. ASSUME UNCHANGED sourcingVars PROVE SourcingInv'
    <2>1. /\ wanted' = wanted /\ throttled' = throttled /\ fetching' = fetching /\ cache' = cache
          /\ lexicon' = lexicon /\ buckets' = buckets /\ calls' = calls /\ lastCall' = lastCall
          /\ nextStartIndex' = nextStartIndex /\ mishaps' = mishaps
      BY <1>4 DEF sourcingVars
    <2>2. Fetches' /\ CacheSound'
      BY <2>1, CacheStands DEF SourcingInv, Fetches
    <2>3. LexiconSound' /\ Queues'
      BY <2>1 DEF SourcingInv, LexiconSound, Queues
    <2>4. Rotation'
      BY <2>1, RotationKept DEF SourcingInv
    <2> QED
      BY <2>1, <2>2, <2>3, <2>4 DEF SourcingInv
  <1> QED
    BY <1>1, <1>2, <1>3, <1>4 DEF SourcingNext

-----------------------------------------------------------------------------
(* The theorems about the sources *)

BothInv == WholeInv /\ (part = "sourcing" => SourcingInv)

\* The lessons and the sources, whichever run.
LEMMA BothInvariant == Spec => []BothInv
  <1>1. Spec => [](part = "sourcing" => SourcingInv)
    <2>1. Init => (part = "sourcing" => SourcingInv)
      BY SourcingInitInv DEF Init
    <2>2. (part = "sourcing" => SourcingInv) /\ [Next]_vars => (part = "sourcing" => SourcingInv)'
      <3> SUFFICES ASSUME part = "sourcing" => SourcingInv, [Next]_vars, part' = "sourcing" PROVE SourcingInv'
        OBVIOUS
      <3>1. part = "sourcing"
        BY DEF Next, vars
      <3>2. [SourcingNext]_sourcingVars
        BY <3>1 DEF Next, vars
      <3> QED
        BY <3>1, <3>2, SourcingStepInv
    <2> QED
      BY <2>1, <2>2, PTL DEF Spec
  <1> QED
    BY <1>1, WholeInvariant, PTL DEF BothInv

\* gemma-batcher.ts, groq-request.ts, gemma-enricher.ts, enrichment.processor.ts,
\* enrichment-cache.service.ts: a waiting job is at one place of the batcher, and no
\* bucket is full or without its timer; a call asks no key twice and is lost to
\* throttling only when all keys are throttled; what the model said goes into the
\* word, and the sense, it was said about, if its reply names every word; no corpus
\* sentence serves two senses; and what is cached is what later jobs get.
THEOREM SourcesAreSafe == Spec => []SourcesSafe
  <1>1. BothInv => SourcesSafe
    BY SourcingInvSafe DEF BothInv, SourcesSafe
  <1> QED
    BY <1>1, BothInvariant, PTL

\* What the state of the lessons and that of the sources may be.
THEOREM StudyIsTyped == Spec => []StudyTypeOK
  <1>1. BothInv => StudyTypeOK
    BY LessonsTyped, SourcingInvTypeOK DEF BothInv, WholeInv, StudyTypeOK
  <1> QED
    BY <1>1, BothInvariant, PTL
=============================================================================
