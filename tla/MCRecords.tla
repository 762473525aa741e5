------------------------------ MODULE MCRecords ------------------------------
(***************************************************************************)
(* The components that keep rows of their own and share none of them, for  *)
(* TLC: one of them runs, the variables of the others are off.             *)
(***************************************************************************)
EXTENDS Accounts, RefreshTokens, Decks, Scenarios, Senses, Media, WordTexts, Reports,
        BulkCreate

CONSTANTS a, b, c, x1, x2 \* a, b, c: Calls, Edits, ...; x1, x2: MediaCalls

Symmetry == Permutations({a, b, c}) \cup Permutations({x1, x2})

VARIABLE part    \* the component that runs

vars == <<part, accountVars, tokenVars, deckVars, scenarioVars, senseVars, mediaVars, textVars,
          reportVars, bulkVars>>

Runs(p) == part = p /\ UNCHANGED part

Off == "off"
AccountsOff == /\ user = Off /\ identity = Off /\ codes = Off /\ mailed = Off /\ call = Off
               /\ accountFaults = Off /\ deleted = Off /\ confirmed = Off /\ tries = Off
               /\ staleSave = Off /\ codesOverlapped = Off
TokensOff == /\ account = Off /\ tokens = Off /\ refresh = Off /\ tokenFaults = Off
             /\ overlapped = Off /\ ended = Off /\ racing = Off /\ rotated = Off
DecksOff == /\ decks = Off /\ members = Off /\ words = Off /\ deckCall = Off
            /\ vanished = Off /\ staleDeckSave = Off /\ appendsOverlapped = Off
ScenariosOff == /\ scenario = Off /\ edit = Off /\ starting = Off /\ sessions = Off
                /\ staleScenarioSave = Off /\ editedRetired = Off /\ startsOverlapped = Off
SensesOff == /\ wordRow = Off /\ order = Off /\ lastId = Off /\ senseCall = Off
             /\ sensesRaced = Off
MediaOff == /\ row = Off /\ mediaCall = Off /\ mediaJob = Off /\ worker = Off /\ script = Off
            /\ mediaFaults = Off /\ asked = Off /\ staleWordSave = Off
TextsOff == /\ translations = Off /\ examples = Off /\ topics = Off /\ links = Off
            /\ textCall = Off /\ wantedLinks = Off /\ textsOverlapped = Off
ReportsOff == /\ time = Off /\ shelf = Off /\ approved = Off /\ progress = Off /\ activity = Off
              /\ optedOut = Off /\ reader = Off /\ studied = Off
BulkOff == /\ catalog = Off /\ knownTopics = Off /\ jobs = Off /\ upload = Off /\ removed = Off

Init ==
  /\ part \in {"accounts", "tokens", "decks", "scenarios", "senses", "media", "texts",
              "reports", "bulk"}
  /\ IF part = "accounts" THEN AccountsInit ELSE AccountsOff
  /\ IF part = "tokens" THEN TokensInit ELSE TokensOff
  /\ IF part = "decks" THEN DecksInit ELSE DecksOff
  /\ IF part = "scenarios" THEN ScenariosInit ELSE ScenariosOff
  /\ IF part = "senses" THEN SensesInit ELSE SensesOff
  /\ IF part = "media" THEN MediaInit ELSE MediaOff
  /\ IF part = "texts" THEN WordTextsInit ELSE TextsOff
  /\ IF part = "reports" THEN ReportsInit ELSE ReportsOff
  /\ IF part = "bulk" THEN BulkInit ELSE BulkOff

Next ==
  \/ /\ Runs("accounts") /\ AccountsNext
     /\ UNCHANGED <<tokenVars, deckVars, scenarioVars, senseVars, mediaVars, textVars, reportVars, bulkVars>>
  \/ /\ Runs("tokens") /\ TokensNext
     /\ UNCHANGED <<accountVars, deckVars, scenarioVars, senseVars, mediaVars, textVars, reportVars, bulkVars>>
  \/ /\ Runs("decks") /\ DecksNext
     /\ UNCHANGED <<accountVars, tokenVars, scenarioVars, senseVars, mediaVars, textVars, reportVars, bulkVars>>
  \/ /\ Runs("scenarios") /\ ScenariosNext
     /\ UNCHANGED <<accountVars, tokenVars, deckVars, senseVars, mediaVars, textVars, reportVars, bulkVars>>
  \/ /\ Runs("senses") /\ SensesNext
     /\ UNCHANGED <<accountVars, tokenVars, deckVars, scenarioVars, mediaVars, textVars, reportVars, bulkVars>>
  \/ /\ Runs("media") /\ MediaNext
     /\ UNCHANGED <<accountVars, tokenVars, deckVars, scenarioVars, senseVars, textVars, reportVars, bulkVars>>
  \/ /\ Runs("texts") /\ WordTextsNext
     /\ UNCHANGED <<accountVars, tokenVars, deckVars, scenarioVars, senseVars, mediaVars, reportVars, bulkVars>>
  \/ /\ Runs("reports") /\ ReportsNext
     /\ UNCHANGED <<accountVars, tokenVars, deckVars, scenarioVars, senseVars, mediaVars, textVars, bulkVars>>
  \/ /\ Runs("bulk") /\ BulkNext
     /\ UNCHANGED <<accountVars, tokenVars, deckVars, scenarioVars, senseVars, mediaVars, textVars, reportVars>>

Spec == Init /\ [][Next]_vars

\* A learner with a word due, one to come and one of her own, and a learner who
\* has mastered a word that an admin may delete.
MCOwner == [w \in StudyWords |-> IF w = "mine" THEN "ann" ELSE "system"]
MCDistance == [w \in StudyWords |-> IF w = "sky" THEN 1 ELSE 0]
MCAlphabetical == [who \in Learners |-> IF who = "ann" THEN 1 ELSE 2]
MCOutcomes == {[status |-> "learning", delay |-> 10], [status |-> "mastered", delay |-> 21 * DayMinutes]}
Card(status, next, last) == [status |-> status, next |-> next, last |-> last]
MCInitialRows == {[who \in Learners |-> [w \in StudyWords |->
  CASE who = "ann" /\ w = "sun" -> Card("review", 0, 0)
    [] who = "ann" /\ w = "sky" -> Card("new", 0, Forever)
    [] who = "bob" /\ w = "sun" -> Card("mastered", 4000, 0)
    [] OTHER -> Unseen]]}

\* A list with a lemma in two spellings and a blank line, a sentence with a
\* stopword, a list longer than the limit.
MCLowerCase == [e \in {"run", "Run", "jump", "the"} |-> IF e = "Run" THEN "run" ELSE e]
MCPastes == {<<"Run", "", "run">>, <<"run", "the", "jump">>}

-----------------------------------------------------------------------------
\* The state of the component that runs is well formed.
RecordsTypeOK ==
  /\ part = "accounts" => AccountsTypeOK
  /\ part = "tokens" => TokensTypeOK
  /\ part = "decks" => DecksTypeOK
  /\ part = "scenarios" => ScenariosTypeOK
  /\ part = "senses" => SensesTypeOK
  /\ part = "media" => MediaTypeOK
  /\ part = "texts" => WordTextsTypeOK
  /\ part = "reports" => ReportsTypeOK
  /\ part = "bulk" => BulkTypeOK

\* users.service.ts and email-verification.service.ts: see module Accounts.
AccountsSafe == part = "accounts" => AccountSound /\ GuessesLimited /\ OneActiveCode

\* token.service.ts: see module RefreshTokens.
TokensSafe == part = "tokens" => ExchangedOnce /\ ReuseEndsSessions /\ ExchangesUnlessCutOff

\* decks.service.ts and deck-membership.service.ts: see module Decks.
DecksConsistent == part = "decks" => CountTracksMembers /\ PositionsDistinct

\* scenarios.service.ts and speaking-session.service.ts: see module Scenarios.
ScenariosSafe == part = "scenarios" => VersionNamesSpec /\ SessionsCapped

\* The senses of a word, the counts of a batch and the lemmas of a list: see
\* modules Senses and BulkCreate.
ListsSound ==
  /\ part = "senses" => SensesOrdered
  /\ part = "bulk" => BatchesAddUp /\ SameHygiene

\* Words, media, texts and topics: see modules Media, WordTexts and BulkCreate.
CatalogKept ==
  /\ part = "media" => EditsKept
  /\ part = "texts" => TextsKept
  /\ part = "bulk" => ListLands /\ MadeOnce

\* progress.service.ts, leaderboard.service.ts, practice.service.ts: see module
\* Reports.
ReportsAgree ==
  part = "reports" =>
    StreakIsLit /\ HeatmapComplete /\ StatsAgree /\ SuggestionsSound /\ BoardAgrees
=============================================================================
