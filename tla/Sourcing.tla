------------------------------ MODULE Sourcing ------------------------------
(***************************************************************************)
(* Where the content of a new word comes from (src/src/vocabularies/       *)
(* enrichment): the cache, the dictionaries, the batched language model    *)
(* with its rotating keys, the corpus, the lexicons and the sentence       *)
(* translator.  Module Enrichment takes over where this one ends, with the *)
(* drafts of one job.                                                      *)
(*                                                                         *)
(* A text is a piece: who wrote it and what about, [by, of].  What the     *)
(* model writes is about one sense of one group of one word, in the        *)
(* language its prompt named.                                              *)
(***************************************************************************)
EXTENDS Integers, Sequences, SequencesExt, FiniteSets, Selections, TLC

CONSTANTS
  Jobs,               \* enrichment jobs, each run by the worker up to JobTries times
  JobRows,            \* what the jobs may ask for: functions from Jobs to rows
  DefaultLanguage,    \* gemma.translationLanguage
  Dictionary,         \* for every lemma the body dictionaryapi.dev answers, <<>> for 404
  Tokens,             \* for every lemma its words, as <<stem, ending>>
  Pronounced,         \* the words dictionaryapi.dev has an IPA for
  Wiktionary,         \* for every lemma its rows in dictionary_entry, in the order they come
  Corpus,             \* for every lemma how many sentences hold it, best first
  CefrRows,           \* cefr_lexicon: for every <<lemma, pos>> it has, whether the level is valid
  Lexicon0,           \* the <<lemma, target, pos>> bilingual_lexicon has at first
  SensesPerPos,       \* MAX_SENSES_PER_POS
  ExamplesPerSense,   \* EXAMPLES_PER_SENSE
  MaxBatch,           \* BATCH_SIZE
  NumKeys,            \* API keys of the model
  JobTries,           \* attempts of a job
  MaxMishaps          \* bound: calls and writes that fail, flawed replies

VARIABLES
  wanted,             \* the row of each job
  fallback,           \* enrichment.useGemmaFallback
  throttled,          \* the keys that answer 429 or 503
  fetching,           \* where each job is and what it has got so far
  cache,              \* vocab_enrichment_cache
  lexicon,            \* bilingual_lexicon: who wrote each row
  buckets,            \* the batchers' buckets, by batch key
  calls,              \* model calls under way
  lastCall,           \* history: the keys the last call has asked, and its outcome
  nextStartIndex,     \* the key the next call starts with, modulo their number
  mishaps             \* how many there have been

sourcingVars == <<wanted, fallback, throttled, fetching, cache, lexicon, buckets, calls,
                  lastCall, nextStartIndex, mishaps>>

ASSUME SourcingAssumption ==
  /\ {SensesPerPos, ExamplesPerSense, MaxBatch, NumKeys, JobTries} \subseteq Nat \ {0}
  /\ MaxMishaps \in Nat

Lemmas == DOMAIN Dictionary

\* What the dictionaries answer, and what a job may ask for.
ASSUME ContentAssumption ==
  /\ Dictionary \in [Lemmas -> Seq([ipa: BOOLEAN, meanings: Seq([pos: STRING, senses: Seq(BOOLEAN)])])]
  /\ Wiktionary \in [Lemmas -> Seq([pos: STRING, ipa: BOOLEAN, senses: Seq(BOOLEAN)])]
  /\ Corpus \in [Lemmas -> Nat]
  /\ \A rows \in JobRows : rows \in [Jobs -> [lemma: Lemmas, language: STRING, translationLanguage: STRING]]

Keys == 0..(NumKeys - 1)
Smaller(m, n) == IF m < n THEN m ELSE n

Piece(by, of) == [by |-> by, of |-> of]
Nothing == Piece("nobody", <<>>)

-----------------------------------------------------------------------------
(* The dictionaries *)

POS_LOOKUP == [p \in {"noun", "verb", "adjective", "adverb", "pronoun", "preposition",
                      "conjunction", "interjection", "phrase"} |-> p]
              @@ "exclamation" :> "interjection" @@ "idiom" :> "phrase"
MapPartOfSpeech(raw) == IF raw \in DOMAIN POS_LOOKUP THEN POS_LOOKUP[raw] ELSE "none"

\* The elements of a sequence, each where it comes first.
Firsts(seq) ==
  TakenAt(seq, {i \in DOMAIN seq : \A j \in DOMAIN seq : seq[j] = seq[i] => i <= j})

FirstIpa(entries) ==
  LET with == SelectSeq(entries, LAMBDA e : e.ipa) IN with # <<>>

\* Meanings are merged by part of speech over all entries; the first IPA serves
\* every group.  A sense is whether it has an example of its own.
ParseDictionaryResponse(body) ==
  LET meanings == Filtered(FlattenSeq([e \in DOMAIN body |-> body[e].meanings]),
                           LAMBDA m : m.senses # <<>>)
      labels == Firsts([m \in DOMAIN meanings |-> meanings[m].pos])
      sensesOf(label) ==
        FlattenSeq([m \in DOMAIN meanings |-> IF meanings[m].pos = label THEN meanings[m].senses ELSE <<>>])
  IN [g \in DOMAIN labels |->
        [raw |-> labels[g], ipa |-> IF FirstIpa(body) THEN "dictionary" ELSE "none",
         senses |-> sensesOf(labels[g])]]

\* A row per part of speech as Wiktionary spells it; espeak-ng when none has an IPA.
WiktionaryLookup(lemma) ==
  LET rows == Wiktionary[lemma] IN
  [g \in DOMAIN rows |->
     [raw |-> rows[g].pos, ipa |-> IF FirstIpa(rows) THEN "dictionary" ELSE "espeak",
      senses |-> rows[g].senses]]

\* The API for English, then the local dictionary; <<>> when both miss.
DictionaryGroups(row) ==
  LET entry == IF row.language = "en" THEN ParseDictionaryResponse(Dictionary[row.lemma]) ELSE <<>>
  IN IF entry # <<>> THEN entry ELSE WiktionaryLookup(row.lemma)

\* Groups of a part of speech the application has, each cut to its first senses.
InputGroups(groups) ==
  LET known == Filtered(groups, LAMBDA g : MapPartOfSpeech(g.raw) # "none")
  IN [g \in DOMAIN known |->
        [pos |-> MapPartOfSpeech(known[g].raw), ipa |-> known[g].ipa,
         senses |-> SubSeq(known[g].senses, 1, Smaller(SensesPerPos, Len(known[g].senses)))]]

\* The singular forms a plural may have, in the order they are tried: -ies, -es,
\* -s; a word in -ss has ending "".
SingularFallbacks(word) ==
  LET stem == word[1] IN
  CASE word[2] = "ies" -> <<<<stem, "y">>, <<stem, "i">>, <<stem, "ie">>>>
    [] word[2] = "es"  -> <<<<stem, "">>, <<stem, "e">>>>
    [] word[2] = "s"   -> <<<<stem, "">>>>
    [] OTHER -> <<>>

\* The word as it is, or else the first of its singular forms that has an IPA.
FetchWordIpa(word) ==
  SelectSeq(<<word>> \o SingularFallbacks(word), LAMBDA form : form \in Pronounced)

\* The IPA of a phrase is put together from all of its words, or not at all.
ComposeIpaFromWords(lemma) ==
  LET perWord == [i \in DOMAIN Tokens[lemma] |-> FetchWordIpa(Tokens[lemma][i])]
  IN IF Len(perWord) < 2 \/ Contains(perWord, <<>>) THEN "none" ELSE "composed"

-----------------------------------------------------------------------------
(* The language model: one prompt for a batch of words, one reply *)

ResolveTranslationLanguage(row) ==
  LET target == IF row.translationLanguage = "none" THEN DefaultLanguage ELSE row.translationLanguage
  IN IF target = row.language THEN "none" ELSE target

\* Only requests with the same languages share a prompt, which names those of its first word.
BatchKey(kind, row) == <<kind, row.language, ResolveTranslationLanguage(row)>>

\* A word of the reply: the lemma it echoes, the word and the language it is
\* about, whether its CEFR level is valid, and its groups: the label, the group
\* of the prompt it is about and for every sense the number of usable examples.
\* The model may keep to the prompt, turn the groups around, leave senses out
\* or write one example less, forget the echo, or give no CEFR level.
ScratchGroups == <<[pos |-> "suffix", senses |-> <<2>>], [pos |-> "noun", senses |-> <<2, 2>>]>>
WordReplies(row, groups, target) ==
  LET full == [g \in DOMAIN groups |->
                 [label |-> groups[g].pos, group |-> g, senses |-> [k \in DOMAIN groups[g].senses |-> 2]]]
      good == [echo |-> row.lemma, about |-> row.lemma, target |-> target, cefr |-> TRUE, groups |-> full]
      last == Len(full)
  IN {good, [good EXCEPT !.groups = Reverse(full)], [good EXCEPT !.echo = "none"],
      [good EXCEPT !.groups[last].senses[1] = 1],
      IF last > 1 THEN [good EXCEPT !.groups = Front(full)] ELSE [good EXCEPT !.cefr = FALSE]}

PromptGroups(kind, f) == IF kind = "examples" THEN f.groups ELSE ScratchGroups

\* Replies to a batch of jobs: its words in any order, one of them left out or not.
Replies(kind, batch) ==
  LET target == ResolveTranslationLanguage(wanted[batch[1]])
      words == [i \in DOMAIN batch |->
                  WordReplies(wanted[batch[i]], PromptGroups(kind, fetching[batch[i]]), target)]
      orders == {p \in UNION {[1..n -> DOMAIN batch] : n \in (Len(batch) - 1)..Len(batch)} : IsInjective(p)}
      choices == {h \in [DOMAIN batch -> UNION {words[i] : i \in DOMAIN batch}] :
                    \A i \in DOMAIN batch : h[i] \in words[i]}
  IN UNION {{[i \in DOMAIN p |-> f[p[i]]] : p \in orders} : f \in choices}

\* The words of the reply are as the prompt wanted them (bound).
Flawless(kind, batch, reply) ==
  \A i \in DOMAIN reply : /\ reply[i].echo = reply[i].about /\ reply[i].cefr
                          /\ \E k \in DOMAIN batch :
                               /\ wanted[batch[k]].lemma = reply[i].about
                               /\ Len(reply[i].groups) = Len(PromptGroups(kind, fetching[batch[k]]))
                          /\ \A g \in DOMAIN reply[i].groups : /\ reply[i].groups[g].group = g
                                                               /\ reply[i].groups[g].senses[1] = 2

\* Whether the reply holds every word of the batch under its name (history).
Named(batch, reply) ==
  /\ \A i \in DOMAIN reply : reply[i].echo = reply[i].about
  /\ \A i \in DOMAIN batch : \E k \in DOMAIN reply : reply[k].about = wanted[batch[i]].lemma

Failed == [ok |-> FALSE]

\* The first of the places that were found, else place i if there is one.
FirstOrAt(found, seq, i) ==
  IF found # {} THEN {seq[CHOOSE k \in found : \A l \in found : k <= l]}
  ELSE IF i \in DOMAIN seq THEN {seq[i]} ELSE {}

\* Mutant of WordFor: words are found by position.
WordFor_Position(reply, lemma, i) == IF i \in DOMAIN reply THEN {reply[i]} ELSE {}

\* Words are found by the lemma they echo, or else by position.
WordFor(reply, lemma, i) == FirstOrAt({k \in DOMAIN reply : reply[k].echo = lemma}, reply, i)
GroupFor(word, pos, g) == FirstOrAt({k \in DOMAIN word.groups : word.groups[k].label = pos}, word.groups, g)

Content(word, group, k) == Piece("model", <<word.about, word.target, group.group, k>>)
CefrOf(word) == Piece("model", <<word.about, word.target, 0, 0>>)

\* Every group and sense that was asked for must be there, with two examples.
ParseBatchExamplesResponse(word, groups) ==
  IF /\ word.cefr
     /\ \A g \in DOMAIN groups : \E r \in GroupFor(word, groups[g].pos, g) :
          /\ Len(r.senses) >= Len(groups[g].senses)
          /\ \A k \in DOMAIN groups[g].senses : r.senses[k] >= 2
  THEN [ok |-> TRUE, cefr |-> CefrOf(word),
        groups |-> [g \in DOMAIN groups |->
          LET r == CHOOSE r \in GroupFor(word, groups[g].pos, g) : TRUE
          IN [pos |-> groups[g].pos, senses |-> [k \in DOMAIN groups[g].senses |-> Content(word, r, k)]]]]
  ELSE Failed

\* Senses without two examples, and groups that have no sense or an unknown
\* label, are dropped.
ParsePosGroupsFromWord(word) ==
  LET usable(r) == Filtered([k \in DOMAIN r.senses |-> k], LAMBDA k : r.senses[k] >= 2)
      groups == Filtered(word.groups, LAMBDA r : MapPartOfSpeech(r.label) # "none" /\ usable(r) # <<>>)
  IN [g \in DOMAIN groups |->
        [pos |-> MapPartOfSpeech(groups[g].label),
         senses |-> [k \in DOMAIN usable(groups[g]) |-> Content(word, groups[g], usable(groups[g])[k])]]]

\* Mutant of ParseBatchScratchResponse: a word without a usable sense passes.
ParseBatchScratchResponse_NoSense(word) ==
  IF word.cefr THEN [ok |-> TRUE, cefr |-> CefrOf(word), groups |-> ParsePosGroupsFromWord(word)]
  ELSE Failed

\* A word must keep a sense.
ParseBatchScratchResponse(word) ==
  IF word.cefr /\ ParsePosGroupsFromWord(word) # <<>>
  THEN [ok |-> TRUE, cefr |-> CefrOf(word), groups |-> ParsePosGroupsFromWord(word)]
  ELSE Failed

\* One result for every job of the batch, in its order.
ParseBatch(kind, batch, reply) ==
  [i \in DOMAIN batch |->
     LET found == WordFor(reply, wanted[batch[i]].lemma, i)
     IN IF found = {} THEN Failed
        ELSE LET word == CHOOSE w \in found : TRUE
             IN IF kind = "examples" THEN ParseBatchExamplesResponse(word, fetching[batch[i]].groups)
                ELSE ParseBatchScratchResponse(word)]

-----------------------------------------------------------------------------
(* Lexicons, corpus and the sentence translator *)

\* The rows of a table, where a new one replaces the old one or does not.
With(f, key, value) == [k \in DOMAIN f \cup {key} |-> IF k = key THEN value ELSE f[k]]
WithNew(f, key, value) == IF key \in DOMAIN f THEN f ELSE With(f, key, value)
Without(f, key) == [k \in DOMAIN f \ {key} |-> f[k]]

\* The part of speech of a row that serves every one.
AnyPos == ""

\* The row of the part of speech before the one for any; a level the
\* application does not know counts as none.
CefrEstimate(lemma, pos) ==
  LET at == IF <<lemma, pos>> \in DOMAIN CefrRows THEN <<lemma, pos>> ELSE <<lemma, AnyPos>>
  IN IF at \in DOMAIN CefrRows /\ CefrRows[at] THEN Piece("wordlist", <<at[1], "none", 0, 0>>) ELSE Nothing

\* The lexicon, or else what the translator says now (mt).
Translate(row, pos, mt) ==
  LET target == ResolveTranslationLanguage(row)
      at(p) == <<row.lemma, target, p>>
      piece(by, p) == Piece(by, <<row.lemma, target, p, 0>>)
  IN IF target = "none" THEN Nothing
     ELSE IF at(pos) \in DOMAIN lexicon THEN piece(lexicon[at(pos)], pos)
     ELSE IF at(AnyPos) \in DOMAIN lexicon THEN piece(lexicon[at(AnyPos)], AnyPos)
     ELSE IF mt THEN piece("opus-mt", AnyPos) ELSE Nothing

\* What the translator said is kept for every part of speech; a row that is there stays.
CacheTranslation(row, drafts) ==
  IF \E d \in DOMAIN drafts : \E k \in DOMAIN drafts[d].senses : drafts[d].senses[k].translation.by = "opus-mt"
  THEN WithNew(lexicon, <<row.lemma, ResolveTranslationLanguage(row), AnyPos>>, "opus-mt")
  ELSE lexicon

BuildTranslations(row, resolved, said) ==
  IF ResolveTranslationLanguage(row) = "none" THEN Nothing
  ELSE IF resolved # Nothing THEN resolved ELSE said

\* The n-th slice of the ranked corpus: ExamplesPerSense sentences as long as there are any.
RetrieveSlice(lemma, n) ==
  LET from == (n - 1) * ExamplesPerSense
      more == IF Corpus[lemma] > from THEN Smaller(ExamplesPerSense, Corpus[lemma] - from) ELSE 0
  IN [i \in 1..more |-> Piece("corpus", <<lemma, "none", 0, from + i>>)]

\* The answer is aligned to the sentences, Nothing where there is no
\* translation: everywhere when the service does not answer.
TranslateSentences(texts, answers) ==
  [i \in DOMAIN texts |-> IF answers /\ i # 1 THEN texts[i] ELSE Nothing]

Sentences(drafts) ==
  Firsts(FlattenSeq([d \in DOMAIN drafts |->
    FlattenSeq([k \in DOMAIN drafts[d].senses |->
      [e \in DOMAIN drafts[d].senses[k].examples |-> drafts[d].senses[k].examples[e].text]])]))

\* Every untranslated sentence, once.
TranslateExamples(row, drafts, answers) ==
  LET texts == Sentences(drafts)
      place(text) == CHOOSE i \in DOMAIN texts : texts[i] = text
      translated == TranslateSentences(texts, answers)
      Filled(sense) ==
        [sense EXCEPT !.examples = [e \in DOMAIN sense.examples |->
           LET text == sense.examples[e].text IN [text |-> text, translation |-> translated[place(text)]]]]
  IN IF ResolveTranslationLanguage(row) = "none" THEN drafts
     ELSE [d \in DOMAIN drafts |->
             [drafts[d] EXCEPT !.senses = [k \in DOMAIN drafts[d].senses |-> Filled(drafts[d].senses[k])]]]

-----------------------------------------------------------------------------
(* Drafts *)

Untranslated(texts) == [i \in DOMAIN texts |-> [text |-> texts[i], translation |-> Nothing]]

\* The model's word on sense k of a part of speech; of two groups with the same
\* one the later counts.
ModelSense(said, pos, k) ==
  LET named == {g \in DOMAIN said.groups : said.groups[g].pos = pos}
  IN IF named = {} THEN Nothing
     ELSE LET senses == said.groups[CHOOSE g \in named : \A h \in named : h <= g].senses
          IN IF k \in DOMAIN senses THEN senses[k] ELSE Nothing

NothingSaid == [ok |-> TRUE, cefr |-> Nothing, groups |-> <<>>]

\* Corpus sentences go to the senses slice by slice, the model fills in.
DraftsFromDictionary(row, groups, said, mt) ==
  LET before(g) == Cardinality(UNION {{<<h, i>> : i \in DOMAIN groups[h].senses} : h \in 1..(g - 1)})
      sense(g, k) ==
        LET pos == groups[g].pos
            model == ModelSense(said, pos, k)
            slice == RetrieveSlice(row.lemma, before(g) + k)
            own == Piece("dictionary", <<row.lemma, "none", g, k>>)
        IN [gloss |-> IF model # Nothing THEN model ELSE own,
            examples |-> Untranslated(
              (IF slice # <<>> THEN slice ELSE IF model # Nothing THEN <<model>> ELSE <<>>)
              \o (IF groups[g].senses[k] THEN <<own>> ELSE <<>>)),
            translation |-> BuildTranslations(row, Translate(row, pos, mt), model)]
      level(pos) == CefrEstimate(row.lemma, pos)
  IN [g \in DOMAIN groups |->
        [pos |-> groups[g].pos, ipa |-> groups[g].ipa,
         cefr |-> IF level(groups[g].pos) # Nothing THEN level(groups[g].pos) ELSE said.cefr,
         senses |-> [k \in DOMAIN groups[g].senses |-> sense(g, k)]]]

\* hiccup: the dictionary has not answered for the words of a phrase.
DraftsFromScratch(row, said, mt, hiccup) ==
  LET composed == IF row.language = "en" /\ ~hiccup THEN ComposeIpaFromWords(row.lemma) ELSE "none"
      sense(pos, model) ==
        [gloss |-> model, examples |-> Untranslated(<<model>>),
         translation |-> BuildTranslations(row, Translate(row, pos, mt), model)]
      level(pos) == CefrEstimate(row.lemma, pos)
  IN [g \in DOMAIN said.groups |->
        LET pos == said.groups[g].pos IN
        [pos |-> pos, ipa |-> IF composed = "none" THEN "model" ELSE composed,
         cefr |-> IF level(pos) # Nothing THEN level(pos) ELSE said.cefr,
         senses |-> [k \in DOMAIN said.groups[g].senses |-> sense(pos, said.groups[g].senses[k])]]]

-----------------------------------------------------------------------------
(* Jobs, buckets and calls *)

NotFetched == [pc |-> "idle", tries |-> 0, kind |-> "none", groups |-> <<>>, said |-> NothingSaid,
               named |-> TRUE, drafts |-> <<>>, hit |-> FALSE]

SourcingTypeOK ==
  /\ \A j \in Jobs :
       /\ fetching[j].pc \in {"idle", "waiting", "answered", "prepared", "empty", "failed"}
       /\ fetching[j].tries \in 0..JobTries
       /\ fetching[j].kind \in {"none", "examples", "scratch", "plain"}
       /\ fetching[j].pc = "prepared" => fetching[j].drafts # <<>>
       /\ fetching[j].pc = "answered" /\ fetching[j].kind = "examples" =>
            Len(fetching[j].said.groups) = Len(fetching[j].groups)
  /\ \A key \in DOMAIN buckets : key[1] \in {"examples", "scratch"} /\ Range(buckets[key].items) \subseteq Jobs
  /\ \A n \in DOMAIN calls : calls[n].batch # <<>> /\ calls[n].start \in Keys
  /\ nextStartIndex \in Keys /\ lastCall.outcome \in {"none", "throttled", "error", "reply"}
  /\ mishaps \in 0..MaxMishaps

SourcingInit ==
  /\ wanted \in JobRows /\ fallback \in BOOLEAN
  /\ throttled \in (IF fallback THEN {0..(n - 1) : n \in 0..NumKeys} ELSE {{}})
  /\ fetching = [j \in Jobs |-> NotFetched]
  /\ cache = <<>> /\ lexicon = [at \in Lexicon0 |-> "dictionary"]
  /\ buckets = <<>> /\ calls = <<>>
  /\ lastCall = [asked |-> <<>>, outcome |-> "none"]
  /\ nextStartIndex = 0 /\ mishaps = 0

CacheKey(row) == <<row.language, row.lemma, ResolveTranslationLanguage(row)>>

\* A batch leaves its bucket, the timer with it, and the call takes its first key.
FlushKey(key, batch) ==
  /\ buckets' = Without(buckets, key)
  /\ calls' = Append(calls, [kind |-> key[1], batch |-> batch, start |-> nextStartIndex])
  /\ nextStartIndex' = (nextStartIndex + 1) % NumKeys
  /\ UNCHANGED lastCall

Submit(key, j) ==
  LET items == IF key \in DOMAIN buckets THEN Append(buckets[key].items, j) ELSE <<j>>
  IN IF Len(items) >= MaxBatch THEN FlushKey(key, items)
     ELSE /\ buckets' = With(buckets, key, [items |-> items, timer |-> TRUE])
          /\ UNCHANGED <<calls, lastCall, nextStartIndex>>

\* A job is run for the first time, or again after it has failed.
Started(j) == fetching[j].pc \in {"idle", "failed"} /\ fetching[j].tries < JobTries
Enters(j, entry) ==
  fetching' = [fetching EXCEPT ![j] = [entry EXCEPT !.tries = fetching[j].tries + 1]]

ReplayCached(j) ==
  LET key == CacheKey(wanted[j]) IN
  /\ Started(j) /\ key \in DOMAIN cache
  /\ Enters(j, [NotFetched EXCEPT !.pc = "prepared", !.hit = TRUE, !.drafts = cache[key].drafts,
                                  !.named = cache[key].named, !.kind = cache[key].kind])
  /\ UNCHANGED <<wanted, fallback, throttled, cache, lexicon, buckets, calls, lastCall, nextStartIndex, mishaps>>

\* The dictionary answers neither 200 nor 404, or not in time.
FetchDictionaryEntryFails(j) ==
  /\ Started(j) /\ CacheKey(wanted[j]) \notin DOMAIN cache /\ wanted[j].language = "en"
  /\ mishaps < MaxMishaps /\ mishaps' = mishaps + 1
  /\ Enters(j, [NotFetched EXCEPT !.pc = "failed"])
  /\ UNCHANGED <<wanted, fallback, throttled, cache, lexicon, buckets, calls, lastCall, nextStartIndex>>

GenerateDrafts(j) ==
  LET found == DictionaryGroups(wanted[j])
      groups == InputGroups(found)
      kind == IF found = <<>> THEN "scratch" ELSE "examples"
      asks == fallback /\ (groups # <<>> \/ found = <<>>)
  IN /\ Started(j) /\ CacheKey(wanted[j]) \notin DOMAIN cache
     /\ Enters(j, [NotFetched EXCEPT !.groups = groups,
                     !.kind = IF asks THEN kind ELSE "plain",
                     !.pc = IF asks THEN "waiting" ELSE IF groups # <<>> THEN "answered" ELSE "empty"])
     /\ IF asks THEN Submit(BatchKey(kind, wanted[j]), j) ELSE UNCHANGED <<buckets, calls, lastCall, nextStartIndex>>
     /\ UNCHANGED <<wanted, fallback, throttled, cache, lexicon, mishaps>>

LingerElapses(key) ==
  /\ buckets[key].timer
  /\ FlushKey(key, buckets[key].items)
  /\ UNCHANGED <<wanted, fallback, throttled, fetching, cache, lexicon, mishaps>>

\* The keys from start on, each at most once, up to the first that is not
\* throttled (groq-request.ts and gemma-request.ts have the same loop).
KeysTried(start) ==
  LET at(i) == (start + i) % NumKeys
      reached == {i \in 0..(NumKeys - 1) : \A k \in 0..(i - 1) : at(k) \in throttled}
  IN [i \in 1..Cardinality(reached) |-> at(i - 1)]

\* Every job of the batch gets its result, an error fails it alone.
RunFlush(n, outcome, results, named) ==
  LET batch == calls[n].batch
      at(j) == CHOOSE i \in DOMAIN batch : batch[i] = j
  IN /\ fetching' = [j \in Jobs |->
          IF j \notin Range(batch) THEN fetching[j]
          ELSE IF results[at(j)].ok
               THEN [fetching[j] EXCEPT !.pc = "answered", !.said = results[at(j)], !.named = named]
               ELSE [fetching[j] EXCEPT !.pc = "failed"]]
     /\ calls' = RemoveAt(calls, n)
     /\ lastCall' = [asked |-> KeysTried(calls[n].start), outcome |-> outcome]
     /\ UNCHANGED <<wanted, fallback, throttled, cache, lexicon, buckets, nextStartIndex>>

\* A call that throws fails every job of its batch: all keys throttled, another
\* status, no connection, an empty reply or one that is no JSON.
GenerateContent(n) ==
  LET batch == calls[n].batch
      nothing == [i \in DOMAIN batch |-> Failed]
  IN IF Range(KeysTried(calls[n].start)) \subseteq throttled
     THEN RunFlush(n, "throttled", nothing, TRUE) /\ UNCHANGED mishaps
     ELSE \/ /\ mishaps < MaxMishaps /\ mishaps' = mishaps + 1
             /\ RunFlush(n, "error", nothing, TRUE)
          \/ \E reply \in Replies(calls[n].kind, batch) :
               /\ RunFlush(n, "reply", ParseBatch(calls[n].kind, batch, reply), Named(batch, reply))
               /\ IF Flawless(calls[n].kind, batch, reply) THEN UNCHANGED mishaps
                  ELSE mishaps < MaxMishaps /\ mishaps' = mishaps + 1

\* A row of another job that has come first stays; a write that fails is passed over.
PutInCache(j, drafts) ==
  WithNew(cache, CacheKey(wanted[j]), [drafts |-> drafts, named |-> fetching[j].named, kind |-> fetching[j].kind])

\* answers: the translator answers; kept: the writes to cache and lexicon succeed.
PrepareDrafts(j) ==
  LET row == wanted[j] IN
  /\ fetching[j].pc = "answered"
  /\ \E answers, kept \in BOOLEAN, hiccup \in (IF Len(Tokens[row.lemma]) > 1 THEN BOOLEAN ELSE {FALSE}) :
       LET plain == IF fetching[j].kind = "scratch" THEN DraftsFromScratch(row, fetching[j].said, answers, hiccup)
                    ELSE DraftsFromDictionary(row, fetching[j].groups, fetching[j].said, answers)
           drafts == TranslateExamples(row, plain, answers)
       IN /\ fetching' = [fetching EXCEPT ![j].pc = "prepared", ![j].drafts = drafts,
                            ![j].groups = <<>>, ![j].said = NothingSaid]
          /\ IF kept
             THEN /\ cache' = PutInCache(j, drafts) /\ lexicon' = CacheTranslation(row, drafts)
                  /\ UNCHANGED mishaps
             ELSE /\ mishaps < MaxMishaps /\ mishaps' = mishaps + 1
                  /\ UNCHANGED <<cache, lexicon>>
  /\ UNCHANGED <<wanted, fallback, throttled, buckets, calls, lastCall, nextStartIndex>>

SourcingNext ==
  \/ \E j \in Jobs : \/ ReplayCached(j) \/ FetchDictionaryEntryFails(j)
                     \/ GenerateDrafts(j) \/ PrepareDrafts(j)
  \/ \E key \in DOMAIN buckets : LingerElapses(key)
  \/ \E n \in DOMAIN calls : GenerateContent(n)

SourcingSpec == SourcingInit /\ [][SourcingNext]_sourcingVars

-----------------------------------------------------------------------------
(* Properties *)

\* gemma-batcher.ts: a waiting job is in one bucket or one call, a job that
\* does not wait is in none; a bucket is never full, never empty and has its
\* timer, so that every caller is answered, once.
EveryCallerInOnePlace ==
  /\ \A j \in Jobs :
       Cardinality({at \in UNION {{<<key, i>> : i \in DOMAIN buckets[key].items} : key \in DOMAIN buckets} :
                      buckets[at[1]].items[at[2]] = j})
       + Cardinality({n \in DOMAIN calls : j \in Range(calls[n].batch)})
       = IF fetching[j].pc = "waiting" THEN 1 ELSE 0
  /\ \A key \in DOMAIN buckets : buckets[key].timer /\ Len(buckets[key].items) \in 1..(MaxBatch - 1)

\* groq-request.ts, gemma-request.ts: a call asks no key twice, goes on only
\* from a throttled key, and is lost to throttling only when all of them are.
KeysRotated ==
  LET asked == lastCall.asked IN
  /\ IsInjective(asked)
  /\ \A i \in 1..(Len(asked) - 1) : asked[i] \in throttled
  /\ lastCall.outcome # "none" => (lastCall.outcome = "throttled" <=> throttled = Keys)

PiecesOf(sense) ==
  {sense.gloss, sense.translation} \cup {sense.examples[e].text : e \in DOMAIN sense.examples}

\* gemma-enricher.ts, enrichment.processor.ts: when the reply names every word
\* of its batch, in whatever order, what the model said goes into the drafts of
\* the word, and in a dictionary word into the sense, that it was said about,
\* in the language that was asked for.  Two groups of one part of speech are
\* excepted: they share what was said about one of them.
OwnContent ==
  \A j \in Jobs : fetching[j].pc = "prepared" /\ fetching[j].named =>
    LET drafts == fetching[j].drafts
        target == ResolveTranslationLanguage(wanted[j])
        alone(g) == \A h \in DOMAIN drafts : drafts[h].pos = drafts[g].pos => h = g
    IN \A g \in DOMAIN drafts :
         /\ drafts[g].cefr.by = "model" => drafts[g].cefr.of[1] = wanted[j].lemma
         /\ \A k \in DOMAIN drafts[g].senses : \A piece \in PiecesOf(drafts[g].senses[k]) :
              piece.by = "model" =>
                /\ SubSeq(piece.of, 1, 2) = <<wanted[j].lemma, target>>
                /\ fetching[j].kind = "examples" /\ alone(g) => SubSeq(piece.of, 3, 4) = <<g, k>>

\* enrichment.processor.ts: no corpus sentence serves two senses of a word, and
\* an example is translated by its own translation.
ExamplesApart ==
  \A j \in Jobs : fetching[j].pc = "prepared" =>
    LET drafts == fetching[j].drafts
        places == UNION {{<<g, k>> : k \in DOMAIN drafts[g].senses} : g \in DOMAIN drafts}
        examples(p) == drafts[p[1]].senses[p[2]].examples
    IN /\ \A p, q \in places : \A d \in DOMAIN examples(p), e \in DOMAIN examples(q) :
            examples(p)[d].text = examples(q)[e].text /\ examples(p)[d].text.by = "corpus" => p = q
       /\ \A p \in places : \A e \in DOMAIN examples(p) :
            examples(p)[e].translation \in {Nothing, examples(p)[e].text}

\* enrichment-cache.service.ts: what is cached for a word stays, so that every
\* later job for it gets the same drafts; a word without a translation
\* language never gets what was made for one.
CacheKept ==
  \A j \in Jobs : fetching[j].pc = "prepared" =>
    LET key == CacheKey(wanted[j]) IN
    /\ fetching[j].hit => cache[key].drafts = fetching[j].drafts
    /\ key[3] = "none" => \A g \in DOMAIN fetching[j].drafts : \A k \in DOMAIN fetching[j].drafts[g].senses :
         fetching[j].drafts[g].senses[k].translation = Nothing
=============================================================================
