----------------------------- MODULE MCLessons ------------------------------
(***************************************************************************)
(* What a word goes through before and while it is learned, for TLC: where *)
(* its content comes from (module Sourcing) and how it is asked (module    *)
(* Lessons).  One of the two runs, the variables of the other are off.     *)
(***************************************************************************)
EXTENDS Lessons, Sourcing

CONSTANTS w1, w2, w3, s1, c1, j1, j2, j3

VARIABLE part    \* the component that runs

vars == <<part, lessonVars, sourcingVars>>

Off == "off"
LessonsOff == /\ clock = Off /\ version = Off /\ card = Off /\ session = Off /\ held = Off
              /\ answer = Off /\ finals = Off /\ lessons = Off
SourcingOff == /\ wanted = Off /\ fallback = Off /\ throttled = Off /\ fetching = Off
               /\ cache = Off /\ lexicon = Off /\ buckets = Off /\ calls = Off
               /\ lastCall = Off /\ nextStartIndex = Off /\ mishaps = Off

Init ==
  /\ part \in {"lessons", "sourcing"}
  /\ IF part = "lessons" THEN LessonsInit ELSE LessonsOff
  /\ IF part = "sourcing" THEN SourcingInit ELSE SourcingOff

Next ==
  /\ UNCHANGED part
  /\ \/ part = "lessons" /\ LessonsNext /\ UNCHANGED sourcingVars
     \/ part = "sourcing" /\ SourcingNext /\ UNCHANGED lessonVars

Spec == Init /\ [][Next]_vars

-----------------------------------------------------------------------------
(* The catalog of the lessons: a word with two senses, edited once into one
   that has lost its examples but one, a word whose first sense has no
   example, and a word with one sense. *)

ExampleRow(id, sentence) == [id |-> id, sentence |-> sentence]
SenseRow(id, image, rows, texts) ==
  [id |-> id, image |-> image, examples |-> rows, translations |-> {Plain(t) : t \in texts}]
Verb(lemma, audio, level, senses) ==
  [lemma |-> lemma, pos |-> "verb", level |-> level, system |-> TRUE, approved |-> TRUE,
   audio |-> audio, senses |-> senses]

MCVersions == [w \in Words |->
  CASE w = w1 -> <<Verb("run", TRUE, 1, <<
                     SenseRow(1, TRUE, {ExampleRow("e1", {<<"run", "s">>}), ExampleRow("e2", {<<"go", "">>})}, {"chay"}),
                     SenseRow(2, FALSE, {ExampleRow("e3", {<<"run", "">>})}, {"dieu hanh"})>>),
                   Verb("run", TRUE, 1, <<SenseRow(1, TRUE, {ExampleRow("e2", {<<"run", "">>})}, {"vanh"})>>)>>
    [] w = w2 -> <<Verb("eat", FALSE, 2, <<SenseRow(3, FALSE, {}, {"an"}),
                                            SenseRow(5, FALSE, {ExampleRow("e4", {<<"eat", "">>})}, {"mon"})>>)>>
    [] w = w3 -> <<Verb("go", TRUE, 1, <<SenseRow(4, FALSE, {ExampleRow("e5", {<<"go", "ed">>})}, {"di", "roi"})>>)>>]

OnLadder(status, reps, interval, next) ==
  [status |-> status, reps |-> reps, ease |-> 250, interval |-> interval, next |-> next, step |-> Graduated]
MCCards0 == [w \in Words |->
  CASE w = w1 -> {NoCard, OnLadder("review", 3, 15, 0)}
    [] w = w2 -> {OnLadder("mastered", 5, 95, 0)}
    [] w = w3 -> {OnLadder("review", 3, 15, 20)}]

MCLearningSteps == <<1, 10>>
MCSuitability == [w \in Words |-> IF w = w1 THEN 1 ELSE 2]
MCDeck == [w \in {w1, w2} |-> IF w = w1 THEN 1 ELSE 2]
MCRequests ==
  {[mode |-> "daily", practice |-> FALSE, lang |-> TRUE], [mode |-> "deck", practice |-> TRUE, lang |-> TRUE],
   [mode |-> "topic", practice |-> FALSE, lang |-> FALSE], [mode |-> "review", practice |-> FALSE, lang |-> TRUE]}
MCOrders ==
  {<<"cloze_mcq", "meaning_in_context", "word_from_translation", "translation_from_word", "listening_cloze",
     "listening_choice", "image_choice", "cloze_typing", "dictation", "pronunciation", "sense_disambiguation">>,
   <<"image_choice", "translation_from_word", "listening_cloze", "meaning_in_context", "dictation",
     "pronunciation", "cloze_typing", "cloze_mcq", "word_from_translation", "listening_choice",
     "sense_disambiguation">>}

-----------------------------------------------------------------------------
(* The sources: a word of the English dictionary, two no dictionary has, and
   a German one whose two rows are one part of speech here. *)

Meaning(pos, senses) == [pos |-> pos, senses |-> senses]
MCDictionary == [l \in {"cat", "blip", "mad parties", "ach"} |-> IF l # "cat" THEN <<>> ELSE
  <<[ipa |-> FALSE, meanings |-> <<Meaning("noun", <<TRUE, FALSE>>), Meaning("determiner", <<FALSE>>)>>],
    [ipa |-> TRUE, meanings |-> <<Meaning("verb", <<FALSE>>), Meaning("noun", <<FALSE>>)>>]>>]
MCTokens == [l \in DOMAIN MCDictionary |->
  IF l = "mad parties" THEN <<<<"mad", "">>, <<"part", "ies">>>> ELSE <<<<l, "">>>>]
MCPronounced == {<<"cat", "">>, <<"mad", "">>, <<"part", "y">>}
MCWiktionary == [l \in DOMAIN MCDictionary |-> IF l # "ach" THEN <<>> ELSE
  <<[pos |-> "interjection", ipa |-> FALSE, senses |-> <<FALSE, FALSE>>],
    [pos |-> "exclamation", ipa |-> FALSE, senses |-> <<FALSE>>]>>]
MCCorpus == [l \in DOMAIN MCDictionary |-> IF l = "cat" THEN 3 ELSE 0]
MCCefrRows == <<"cat", "noun">> :> FALSE @@ <<"cat", "">> :> TRUE
MCLexicon == {<<"cat", "vi", "noun">>}

Asked(lemma, language, target) == [lemma |-> lemma, language |-> language, translationLanguage |-> target]
MCJobRows ==
  {j1 :> Asked("cat", "en", "none") @@ j2 :> Asked("cat", "en", "en") @@ j3 :> Asked("cat", "en", "vi"),
   j1 :> Asked("blip", "en", "vi") @@ j2 :> Asked("mad parties", "en", "none") @@ j3 :> Asked("ach", "de", "vi")}

-----------------------------------------------------------------------------
\* The state of the component that runs is well formed.
StudyTypeOK ==
  /\ part = "lessons" => LessonsTypeOK
  /\ part = "sourcing" => SourcingTypeOK

\* learn.service.ts, question-builder.service.ts: see module Lessons.
SessionSound ==
  part = "lessons" => StepsInOrder /\ SameTypesAsked /\ NoWordLeftOut /\ EmptySaysWhy

\* answer-grader.service.ts: see module Lessons.
AnswersGraded == part = "lessons" => GradedAsAsked

\* learn.service.ts, progress.service.ts: see module Lessons.
ReviewedOncePerLesson == part = "lessons" => OneReviewPerLesson /\ AnsweredNotDue

\* What learn.service.ts:249-252 says of a lesson: see module Lessons.
LessonIsOneEvent == part = "lessons" => GraduatesInOneEvent

\* The sources of the content of a word: see module Sourcing.
SourcesSafe ==
  part = "sourcing" =>
    EveryCallerInOnePlace /\ KeysRotated /\ OwnContent /\ ExamplesApart /\ CacheKept
=============================================================================
