----------------------------- MODULE Questions -----------------------------
(***************************************************************************)
(* What a lesson asks of a word and how an answer is graded                *)
(* (src/src/learn/question-bands.ts, question-builder.service.ts,          *)
(* distractor.service.ts, cloze.util.ts, answer-grader.service.ts), as     *)
(* operators.                                                              *)
(*                                                                         *)
(* A text is a pair <<stem, ending>>: a lemma is <<l, "">>, its inflected  *)
(* forms differ in the ending, a translation has the ending "".  How an    *)
(* ending is spelled, upper and lower case and blanks are abstracted; a    *)
(* sentence is the set of texts it contains.  All words are in one         *)
(* language and all translations in the one the learner may ask for.       *)
(*                                                                         *)
(* A row has sets of examples and translations: no query orders them.  A   *)
(* loaded word has them as sequences, in an order that each query gives.   *)
(***************************************************************************)
EXTENDS Integers, Sequences, SequencesExt, FiniteSets, Selections

CONSTANTS
  Distractors,     \* wrong options of a question (3 in the code)
  MaxTypesPerBand, \* cfg.maxTypesPerBand
  ClozeCap         \* cfg.clozeFamilyCapPerLesson

ASSUME QuestionsAssumption ==
  Distractors \in Nat \ {0} /\ MaxTypesPerBand \in Nat \ {0} /\ ClozeCap \in Nat \ {0}

NoText == <<"", "">>
Plain(stem) == <<stem, "">>

\* The first k elements of s, or s itself.
Prefix(k, s) == SubSeq(s, 1, IF Len(s) < k THEN Len(s) ELSE k)

First(s) == IF s = <<>> THEN {} ELSE {Head(s)}

\* The first element of a list that passes a test, as a set: empty when none does.
FirstSuch(list, Passes(_)) ==
  LET places == {i \in DOMAIN list : Passes(list[i])}
  IN {list[i] : i \in {j \in places : \A k \in places : j <= k}}

-----------------------------------------------------------------------------
(* Bands: easiest first; as a word matures the easy bands drop away. *)

NewBand == 0
ReviewBand == 1
MasterBand == 2

LADDER ==
  <<[type |-> "flashcard", band |-> NewBand],
    [type |-> "cloze_mcq", band |-> NewBand],
    [type |-> "meaning_in_context", band |-> NewBand],
    [type |-> "word_from_translation", band |-> NewBand],
    [type |-> "translation_from_word", band |-> NewBand],
    [type |-> "listening_cloze", band |-> NewBand],
    [type |-> "listening_choice", band |-> NewBand],
    [type |-> "image_choice", band |-> NewBand],
    [type |-> "cloze_typing", band |-> ReviewBand],
    [type |-> "dictation", band |-> ReviewBand],
    [type |-> "pronunciation", band |-> ReviewBand],
    [type |-> "sense_disambiguation", band |-> MasterBand]>>

ClozeFamily == {"cloze_mcq", "cloze_typing", "listening_cloze"}
AlwaysInclude == {"flashcard"}

LadderIndex(type) == CHOOSE i \in DOMAIN LADDER : LADDER[i].type = type
BandOf(type) == LADDER[LadderIndex(type)].band

MinBandForStatus(status) ==
  CASE status = "new" -> NewBand
    [] status \in {"learning", "review"} -> ReviewBand
    [] status = "mastered" -> MasterBand

QuestionTypes == {LADDER[i].type : i \in DOMAIN LADDER}
EligibleTypesForStatus(status) ==
  {LADDER[i].type : i \in {j \in DOMAIN LADDER : LADDER[j].band >= MinBandForStatus(status)}}

-----------------------------------------------------------------------------
(* Loading a word, and finding its lemma in a sentence *)

\* The columns of a row; ids of examples are keys.
WellFormedRow(row) ==
  /\ DOMAIN row = {"lemma", "pos", "level", "system", "approved", "audio", "senses"}
  /\ row.senses \in Seq(ToSet(row.senses))
  /\ \A sense \in ToSet(row.senses) :
       /\ DOMAIN sense = {"id", "image", "examples", "translations"}
       /\ IsFiniteSet(sense.examples) /\ IsFiniteSet(sense.translations)
  /\ \A i, j \in DOMAIN row.senses : \A e \in row.senses[i].examples, f \in row.senses[j].examples :
       e.id = f.id => i = j /\ e = f

LoadedSenses(sense) ==
  {[sense EXCEPT !.examples = es, !.translations = ts] :
     es \in SetToSeqs(sense.examples), ts \in SetToSeqs(sense.translations)}

\* Every way the query may return the word of a row.
Loads(row) ==
  {[row EXCEPT !.senses = ss] :
     ss \in {f \in [DOMAIN row.senses -> UNION {LoadedSenses(row.senses[i]) : i \in DOMAIN row.senses}] :
               \A i \in DOMAIN row.senses : f[i] \in LoadedSenses(row.senses[i])}}

Endings(pos) ==
  CASE pos = "verb" -> <<"", "s", "ed", "ing">>
    [] pos = "noun" -> <<"", "s">>
    [] OTHER -> <<"">>

ExpandForms(word) == [i \in DOMAIN Endings(word.pos) |-> <<word.lemma, Endings(word.pos)[i]>>]

\* The form of the lemma that is blanked: the first of its forms in the sentence.
BlankedForm(word, sentence) ==
  LET found == FirstSuch(ExpandForms(word), LAMBDA form : form \in sentence)
  IN IF found = {} THEN NoText ELSE CHOOSE form \in found : TRUE

-----------------------------------------------------------------------------
(* Wrong options.  A context c of a question has the id and the loaded word,
   whether a translation language was asked for (lang), and the catalog, the
   rows that exist.  Which words the wrong options are drawn from at random is
   abstracted: they are all the text Other, and what matters is that there are
   enough of them. *)

Other == Plain("other")

NoLevel == 0        \* cefr_level IS NULL; A1 is 1
NeighbouringCefr(level) ==
  IF level = NoLevel THEN 0..6 ELSE {l \in 1..6 : l \in (level - 1)..(level + 1)}

\* The system words like the word of c, drafts included.
Candidates(c) ==
  {v \in DOMAIN c.catalog \ {c.id} :
     /\ c.catalog[v].system /\ c.catalog[v].pos = c.word.pos
     /\ c.catalog[v].level \in NeighbouringCefr(c.word.level)}

\* System words of one part of speech have different lemmas; those that share a
\* topic come first, but the others make up the number.
EnoughLemmas(c) == Cardinality(Candidates(c)) >= Distractors

TranslationsOf(row) == UNION {row.senses[i].translations : i \in DOMAIN row.senses}

\* With at most five candidates an option none is left out of the draw.
EnoughTranslations(c, exclude, n) ==
  Cardinality(UNION {TranslationsOf(c.catalog[v]) : v \in Candidates(c)} \ exclude) >= n

-----------------------------------------------------------------------------
(* The builders: the question of one type, as a set: empty when the data of the
   word does not allow one. *)

Question(type, example, right, options) ==
  [type |-> type, example |-> example.id, right |-> right, options |-> options]

FirstExample(word) ==
  UNION {First(sense.examples) : sense \in FirstSuch(word.senses, LAMBDA s : s.examples # <<>>)}

\* The first example with the lemma in it.  The first of all is kept for study
\* when a sense has three or more.
WithForm(word, sense) ==
  FirstSuch(IF Len(sense.examples) >= 3 THEN Tail(sense.examples) ELSE sense.examples,
            LAMBDA e : BlankedForm(word, e.sentence) # NoText)

PickExampleForCloze(word) ==
  UNION {WithForm(word, sense) : sense \in FirstSuch(word.senses, LAMBDA s : WithForm(word, s) # {})}

FirstTranslation(sense) == IF sense.translations = <<>> THEN NoText ELSE Head(sense.translations)

\* The first sense that can be shown with a translation and an example.
FirstTranslated(c) ==
  IF c.lang THEN FirstSuch(c.word.senses, LAMBDA s : s.translations # <<>> /\ s.examples # <<>>)
            ELSE {}

Typed(type, examples, right) == {Question(type, e, right, {}) : e \in examples}

LemmaMcq(type, c, examples, right) ==
  {Question(type, e, right, {right, Other}) : e \in {x \in examples : EnoughLemmas(c)}}

\* traps: wrong translations from the word itself.
TranslationMcq(type, c, example, right, traps) ==
  IF EnoughTranslations(c, {right} \cup ToSet(traps), Distractors - Len(traps))
  THEN {Question(type, example, right, {right, Other} \cup ToSet(traps))} ELSE {}

BuildFlashcard(c) == Typed("flashcard", FirstExample(c.word), NoText)

BuildClozeTyping(c) ==
  UNION {Typed("cloze_typing", {e}, BlankedForm(c.word, e.sentence)) : e \in PickExampleForCloze(c.word)}

BuildCloze(type, c) ==
  UNION {LemmaMcq(type, c, {e}, BlankedForm(c.word, e.sentence)) : e \in PickExampleForCloze(c.word)}

BuildListeningCloze(c) == IF c.word.audio THEN BuildCloze("listening_cloze", c) ELSE {}

\* The first translation of another sense, which may be the right one again.
OtherTranslations(word, sense) ==
  FlattenSeq([i \in DOMAIN word.senses |->
    IF word.senses[i].id = sense.id THEN <<>> ELSE Prefix(1, word.senses[i].translations)])

MeaningOf(c, sense) ==
  LET trap == Prefix(1, OtherTranslations(c.word, sense)) IN
  IF sense.translations = <<>> THEN {}
  ELSE UNION {TranslationMcq("meaning_in_context", c, e, FirstTranslation(sense), trap) :
                e \in WithForm(c.word, sense)}

BuildMeaningInContext(c) ==
  IF c.lang
  THEN UNION {MeaningOf(c, sense) : sense \in FirstSuch(c.word.senses, LAMBDA s : MeaningOf(c, s) # {})}
  ELSE {}

\* The traps come from the other senses; other words only fill up what is left,
\* as far as they can.
Disambiguation(c, sense) ==
  LET right == FirstTranslation(sense)
      Added(seen, t) == IF t \in ToSet(seen) \cup {right} THEN seen ELSE Append(seen, t)
      traps == FoldLeft(Added, <<>>, OtherTranslations(c.word, sense))
      filling == IF Len(traps) < Distractors /\ EnoughTranslations(c, {right} \cup ToSet(traps), 1)
                 THEN {Other} ELSE {}
  IN IF traps = <<>> THEN {}
     ELSE {Question("sense_disambiguation", sense.examples[1], right,
                    {right} \cup ToSet(Prefix(Distractors, traps)) \cup filling)}

BuildSenseDisambiguation(c) == UNION {Disambiguation(c, s) : s \in FirstTranslated(c)}

BuildWordFromTranslation(c) ==
  UNION {LemmaMcq("word_from_translation", c, {s.examples[1]}, Plain(c.word.lemma)) : s \in FirstTranslated(c)}

BuildTranslationFromWord(c) ==
  UNION {TranslationMcq("translation_from_word", c, s.examples[1], FirstTranslation(s), <<>>) :
           s \in FirstTranslated(c)}

BuildListeningChoice(c) ==
  IF c.word.audio THEN LemmaMcq("listening_choice", c, FirstExample(c.word), Plain(c.word.lemma)) ELSE {}

BuildDictation(c) ==
  IF c.word.audio THEN Typed("dictation", FirstExample(c.word), Plain(c.word.lemma)) ELSE {}

BuildImageChoice(c) ==
  IF \E i \in DOMAIN c.word.senses : c.word.senses[i].image
  THEN LemmaMcq("image_choice", c, FirstExample(c.word), Plain(c.word.lemma)) ELSE {}

BuildPronunciation(c) == Typed("pronunciation", FirstExample(c.word), Plain(c.word.lemma))

TryBuild(type, c) ==
  CASE type = "flashcard" -> BuildFlashcard(c)
    [] type = "cloze_mcq" -> BuildCloze("cloze_mcq", c)
    [] type = "meaning_in_context" -> BuildMeaningInContext(c)
    [] type = "word_from_translation" -> BuildWordFromTranslation(c)
    [] type = "translation_from_word" -> BuildTranslationFromWord(c)
    [] type = "listening_cloze" -> BuildListeningCloze(c)
    [] type = "listening_choice" -> BuildListeningChoice(c)
    [] type = "image_choice" -> BuildImageChoice(c)
    [] type = "cloze_typing" -> BuildClozeTyping(c)
    [] type = "dictation" -> BuildDictation(c)
    [] type = "pronunciation" -> BuildPronunciation(c)
    [] type = "sense_disambiguation" -> BuildSenseDisambiguation(c)

-----------------------------------------------------------------------------
(* The ladder of a word: its questions, easiest first.  order says in which
   order the sampled types of a band are tried. *)

CountIn(questions, Test(_)) == Cardinality({k \in DOMAIN questions : Test(questions[k].type)})

Full(questions, type) ==
  \/ /\ type \notin AlwaysInclude
     /\ CountIn(questions, LAMBDA t : BandOf(t) = BandOf(type) /\ t \notin AlwaysInclude) >= MaxTypesPerBand
  \/ type \in ClozeFamily /\ CountIn(questions, LAMBDA t : t \in ClozeFamily) >= ClozeCap

\* The ladder so far, with a question of one more type when there can be one.
Extended(questions, type, c) ==
  IF Full(questions, type) THEN questions ELSE questions \o SetToSeq(TryBuild(type, c))

TypesInBand(status, order, band) ==
  Filtered(SetToSeq(AlwaysInclude) \o order,
           LAMBDA t : BandOf(t) = band /\ t \in EligibleTypesForStatus(status))

Easier(q, r) == LadderIndex(q.type) < LadderIndex(r.type)

BuildLadder(status, order, c) ==
  LET tried == TypesInBand(status, order, NewBand) \o TypesInBand(status, order, ReviewBand)
                 \o TypesInBand(status, order, MasterBand)
      Try(questions, type) == Extended(questions, type, c)
  IN Ranked(ToSet(FoldLeft(Try, <<>>, tried)), Easier)

-----------------------------------------------------------------------------
(* Grading: the right answer is derived again from the word as it is now. *)

\* An answer one edit away from t; two texts of the model are further apart.
Typo(t) == <<t[1], t[2], "typo">>

Ratings == {"forgot", "hard", "good", "easy"}

FlashcardQuality(rating) ==
  CASE rating = Plain("forgot") -> 1 [] rating = Plain("hard") -> 3
    [] rating = Plain("easy") -> 5 [] OTHER -> 4

ExamplesOf(row) ==
  UNION {{e.id : e \in row.senses[i].examples} : i \in DOMAIN row.senses}

\* Mutant of SenseOf: the first sense, whichever example was shown.
SenseOf_First(word, example) == word.senses[1]

SenseOf(word, example) ==
  word.senses[CHOOSE i \in DOMAIN word.senses : \E e \in ToSet(word.senses[i].examples) : e.id = example]

SentenceOf(word, example) ==
  (CHOOSE e \in ToSet(SenseOf(word, example).examples) : e.id = example).sentence

MeaningTypes == {"meaning_in_context", "translation_from_word", "sense_disambiguation"}
TypedTypes == {"cloze_typing", "dictation", "pronunciation"}

CorrectAnswer(type, word, example, lang) ==
  CASE type \in ClozeFamily ->
         LET form == BlankedForm(word, SentenceOf(word, example))
         IN IF form = NoText THEN Plain(word.lemma) ELSE form
    [] type \in MeaningTypes -> IF lang THEN FirstTranslation(SenseOf(word, example)) ELSE NoText
    [] OTHER -> Plain(word.lemma)

Grade(type, word, example, lang, answer, fast) ==
  LET right == CorrectAnswer(type, word, example, lang)
      quality == IF type = "flashcard" THEN FlashcardQuality(answer)
                 ELSE IF answer = right THEN (IF fast THEN 5 ELSE 4)
                 ELSE IF type \in TypedTypes /\ answer = Typo(right) THEN 3 ELSE 2
  IN [quality |-> quality,
      correct |-> IF type = "flashcard" THEN quality >= 3 ELSE answer = right]
=============================================================================
