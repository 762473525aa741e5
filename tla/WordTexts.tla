------------------------------ MODULE WordTexts ------------------------------
(***************************************************************************)
(* The translations and examples of one sense, and the topics of its word, *)
(* as admins and imports write them (src/src/vocabularies/                 *)
(* vocabularies.service.ts), next to the catalog of topics                 *)
(* (src/src/topics/topics.service.ts).                                     *)
(*                                                                         *)
(* A transaction at READ COMMITTED: what it reads is a step, its writes    *)
(* are another.  A row is named after the call that inserts it.            *)
(***************************************************************************)
EXTENDS Naturals, FiniteSets, Functions

CONSTANTS
  TextCalls,       \* requests of admins
  Texts,           \* translations: language and text
  Slugs            \* slugs of topics

ASSUME TextsAssumption == IsFiniteSet(TextCalls) /\ "none" \notin Texts \cup TextCalls

VARIABLES
  translations,    \* vocabulary_translations of the sense: the text of every row
  examples,        \* vocabulary_examples of the sense: "import" or "admin" for every row
  topics,          \* the topics that exist
  links,           \* vocabulary_topics of the word
  textCall,        \* where each call is and what it has read
  wantedLinks,     \* history: the topics the word was given, one change after the other
  textsOverlapped  \* history: a call wrote when what it had read had changed

textVars == <<translations, examples, topics, links, textCall, wantedLinks, textsOverlapped>>

TextIdle == [pc |-> "idle", translations |-> <<>>, hasExamples |-> FALSE,
             topics |-> {}, links |-> {}, target |-> "none", text |-> "none", slugs |-> {}]
TextPcs == {"idle", "translating", "retranslating", "editing", "importing", "replacing", "done"}

WordTextsTypeOK ==
  /\ DOMAIN translations \subseteq TextCalls /\ Range(translations) \subseteq Texts
  /\ IsInjective(translations)
  /\ DOMAIN examples \subseteq TextCalls /\ Range(examples) \subseteq {"admin", "import"}
  /\ topics \subseteq Slugs /\ links \subseteq topics /\ wantedLinks \subseteq Slugs
  /\ \A c \in TextCalls :
       /\ textCall[c].pc \in TextPcs
       /\ DOMAIN textCall[c].translations \subseteq TextCalls
       /\ textCall[c].hasExamples \in BOOLEAN
       /\ textCall[c].links \cup textCall[c].topics \cup textCall[c].slugs \subseteq Slugs
       /\ textCall[c].target \in TextCalls \cup {"none"}
       /\ textCall[c].text \in Texts \cup {"none"}
  /\ textsOverlapped \in BOOLEAN

WordTextsInit ==
  /\ translations = <<>> /\ examples = <<>>
  /\ topics = Slugs /\ links = {} /\ wantedLinks = {}
  /\ textCall = [c \in TextCalls |-> TextIdle]
  /\ textsOverlapped = FALSE

TextAt(c, pc) == textCall[c].pc = pc
ReadsTexts(c, entry) ==
  /\ textCall' = [textCall EXCEPT ![c] =
       [entry EXCEPT !.translations = translations, !.hasExamples = examples # <<>>,
                     !.topics = topics, !.links = links]]
  /\ UNCHANGED <<translations, examples, topics, links, wantedLinks, textsOverlapped>>
TextEnds(c) == textCall' = [textCall EXCEPT ![c] = [TextIdle EXCEPT !.pc = "done"]]

\* What the call has read is not what is there any more.
Stale(c) ==
  \/ textCall[c].translations # translations \/ textCall[c].hasExamples # (examples # <<>>)
  \/ textCall[c].topics # topics \/ textCall[c].links # links

Noted(c) == textsOverlapped' = (textsOverlapped \/ Stale(c))

\* UQ_vocabulary_translations_sense_lang_translation: one row for each text.
StoreTranslations(ts) == translations' = IF IsInjective(ts) THEN ts ELSE translations
Put(f, x, y) == [z \in DOMAIN f \cup {x} |-> IF z = x THEN y ELSE f[z]]

-----------------------------------------------------------------------------
(* addTranslation, updateTranslation, deleteTranslation *)

Taken(ts, text, except) == \E t \in DOMAIN ts \ {except} : ts[t] = text

AddTranslationRead(c) ==
  /\ TextAt(c, "idle")
  /\ \E text \in Texts :
       ReadsTexts(c, [TextIdle EXCEPT !.text = text,
         !.pc = IF Taken(translations, text, "none") THEN "done" ELSE "translating"])

AddTranslationCommit(c) ==
  /\ TextAt(c, "translating")
  /\ StoreTranslations(Put(translations, c, textCall[c].text))
  /\ Noted(c) /\ TextEnds(c)
  /\ UNCHANGED <<examples, topics, links, wantedLinks>>

UpdateTranslationRead(c) ==
  /\ TextAt(c, "idle")
  /\ \E t \in DOMAIN translations, text \in Texts :
       ReadsTexts(c, [TextIdle EXCEPT !.text = text, !.target = t,
         !.pc = IF Taken(translations, text, t) THEN "done" ELSE "retranslating"])

\* save inserts the row again if it was deleted since.
UpdateTranslationCommit(c) ==
  /\ TextAt(c, "retranslating")
  /\ StoreTranslations(Put(translations, textCall[c].target, textCall[c].text))
  /\ Noted(c) /\ TextEnds(c)
  /\ UNCHANGED <<examples, topics, links, wantedLinks>>

DeleteTranslation(c) ==
  /\ TextAt(c, "idle")
  /\ \E t \in DOMAIN translations :
       translations' = Restrict(translations, DOMAIN translations \ {t})
  /\ TextEnds(c)
  /\ UNCHANGED <<examples, topics, links, wantedLinks, textsOverlapped>>

-----------------------------------------------------------------------------
(* addExample, updateExample, deleteExample *)

\* The sentence is translated before the transaction: what that gives is stored.
AddExample(c) ==
  /\ TextAt(c, "idle")
  /\ examples' = Put(examples, c, "admin")
  /\ TextEnds(c)
  /\ UNCHANGED <<translations, topics, links, wantedLinks, textsOverlapped>>

UpdateExampleRead(c) ==
  /\ TextAt(c, "idle")
  /\ \E e \in DOMAIN examples :
       ReadsTexts(c, [TextIdle EXCEPT !.pc = "editing", !.target = e])

\* save inserts the row again if it was deleted since; its text is the admin's now.
UpdateExampleCommit(c) ==
  /\ TextAt(c, "editing")
  /\ examples' = Put(examples, textCall[c].target, "admin")
  /\ Noted(c) /\ TextEnds(c)
  /\ UNCHANGED <<translations, topics, links, wantedLinks>>

DeleteExample(c) ==
  /\ TextAt(c, "idle")
  /\ \E e \in DOMAIN examples : examples' = Restrict(examples, DOMAIN examples \ {e})
  /\ TextEnds(c)
  /\ UNCHANGED <<translations, topics, links, wantedLinks, textsOverlapped>>

-----------------------------------------------------------------------------
(* An import's sense: upsertSenseTranslations, upsertSenseExamples,        *)
(* upsertTopicLinks                                                        *)

ImportTextsRead(c) ==
  /\ TextAt(c, "idle")
  /\ \E text \in Texts, slugs \in SUBSET Slugs :
       ReadsTexts(c, [TextIdle EXCEPT !.pc = "importing", !.text = text, !.slugs = slugs])

\* A text that is there is left, examples are added to a sense that has none,
\* topics are added.  A slug nobody knows, a text or a link inserted meanwhile
\* and a topic deleted meanwhile roll it all back.
ImportTextsCommit(c) ==
  LET k == textCall[c]
      adds == ~Taken(k.translations, k.text, "none")
      new == k.slugs \ k.links
      refused == \/ ~(k.slugs \subseteq k.topics /\ new \subseteq topics)
                 \/ adds /\ Taken(translations, k.text, "none")
                 \/ new \cap links # {}
  IN
  /\ TextAt(c, "importing")
  /\ TextEnds(c)
  /\ IF refused
     THEN UNCHANGED <<translations, examples, links, wantedLinks, textsOverlapped>>
     ELSE /\ translations' = IF adds THEN Put(translations, c, k.text) ELSE translations
          /\ examples' = IF k.hasExamples THEN examples ELSE Put(examples, c, "import")
          /\ links' = links \cup new
          /\ wantedLinks' = wantedLinks \cup k.slugs
          /\ Noted(c)
  /\ UNCHANGED topics

-----------------------------------------------------------------------------
(* replaceTopics; create and deleteBySlug of the topics' catalog *)

ReplaceTopicsRead(c) ==
  /\ TextAt(c, "idle")
  /\ \E slugs \in SUBSET Slugs :
       ReadsTexts(c, [TextIdle EXCEPT !.slugs = slugs,
         !.pc = IF slugs \subseteq topics THEN "replacing" ELSE "done"])

\* The links too many are deleted, those that lack are inserted.
Replaced(current, desired, seen) == (current \ (seen \ desired)) \cup (desired \ seen)

ReplaceTopicsCommit(c) ==
  LET k == textCall[c] IN
  /\ TextAt(c, "replacing")
  /\ TextEnds(c)
  /\ IF k.slugs \ k.links \subseteq topics
     THEN /\ links' = Replaced(links, k.slugs, k.links)
          /\ wantedLinks' = k.slugs
          /\ Noted(c)
     ELSE UNCHANGED <<links, wantedLinks, textsOverlapped>>
  /\ UNCHANGED <<translations, examples, topics>>

CreateTopic(s) ==
  /\ s \notin topics
  /\ topics' = topics \cup {s}
  /\ UNCHANGED <<translations, examples, links, textCall, wantedLinks, textsOverlapped>>

\* The links go with the topic.
DeleteTopic(s) ==
  /\ s \in topics
  /\ topics' = topics \ {s}
  /\ links' = links \ {s}
  /\ wantedLinks' = wantedLinks \ {s}
  /\ UNCHANGED <<translations, examples, textCall, textsOverlapped>>

WordTextsNext ==
  \/ \E c \in TextCalls :
       \/ AddTranslationRead(c) \/ AddTranslationCommit(c) \/ UpdateTranslationRead(c)
       \/ UpdateTranslationCommit(c) \/ DeleteTranslation(c)
       \/ AddExample(c) \/ UpdateExampleRead(c) \/ UpdateExampleCommit(c) \/ DeleteExample(c)
       \/ ImportTextsRead(c) \/ ImportTextsCommit(c)
       \/ ReplaceTopicsRead(c) \/ ReplaceTopicsCommit(c)
  \/ \E s \in Slugs : CreateTopic(s) \/ DeleteTopic(s)

WordTextsSpec == WordTextsInit /\ [][WordTextsNext]_textVars

-----------------------------------------------------------------------------
(* Properties *)

\* Imports add examples to a sense once, and the word has the topics it was
\* given last, unless a call wrote when what it had read had changed
\* (vocabularies.service.ts:1632, 1222-1246).
TextsKept ==
  ~textsOverlapped =>
    /\ Cardinality({e \in DOMAIN examples : examples[e] = "import"}) <= 1
    /\ links = wantedLinks
=============================================================================
