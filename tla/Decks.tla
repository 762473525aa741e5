-------------------------------- MODULE Decks --------------------------------
(***************************************************************************)
(* Personal decks and their members (src/src/decks/decks.service.ts and    *)
(* deck-membership.service.ts): create, clone, append, remove, update and  *)
(* delete as concurrent requests of the API and of the enrichment worker,  *)
(* and words that are deleted meanwhile.                                   *)
(*                                                                         *)
(* A transaction reads at READ COMMITTED, statement by statement; what it  *)
(* writes shows at its commit, and a transaction that writes the same rows *)
(* waits for it.  So its reads are steps of their own and its writes are   *)
(* one step.                                                               *)
(***************************************************************************)
EXTENDS Integers, FiniteSets, Functions

CONSTANTS
  DeckCalls,       \* requests, and appends by the worker; a created deck has its call's id
  Words            \* words the learner may study: system words and the learner's own

ASSUME DecksAssumption == IsFiniteSet(Words) /\ IsFiniteSet(DeckCalls)
                          /\ {"shelf", "none"} \cap DeckCalls = {}

VARIABLES
  decks,           \* the rows of decks; "shelf" is there from the start
  members,         \* deck_vocabularies: the position of each word, NotIn if it is no member
  words,           \* the words that exist
  deckCall,        \* where each call is and what it has read
  vanished,        \* history: memberships that went with a deleted word
  staleDeckSave,   \* history: a deck was saved over a row its request had not read
  appendsOverlapped \* history: decks changed during an append, and their clones

deckVars == <<decks, members, words, deckCall, vanished, staleDeckSave, appendsOverlapped>>

DeckIds == DeckCalls \cup {"shelf"}
NotIn == -1
\* Every append can start one after the last, with every word.
Positions == 0..(Cardinality(Words) * (1 + Cardinality(DeckCalls)))
NoDeck == [exists |-> FALSE, visibility |-> "private", count |-> 0]
DeckRows == [exists: BOOLEAN, visibility: {"private", "public"}, count: Int]
Memberships == [Words -> Positions \cup {NotIn}]
NoMembers == [w \in Words |-> NotIn]
MembersOf(m) == {w \in Words : m[w] # NotIn}

DeckIdle == [pc |-> "idle", deck |-> "none", ids |-> {}, found |-> {}, start |-> 0,
             entity |-> NoDeck, base |-> NoDeck, seen |-> NoDeck]
DeckCallStates ==
  [pc: {"idle", "numbering", "selecting", "appending", "removing", "cloning",
        "saving", "selected", "deleting", "done"},
   deck: DeckIds \cup {"none"}, ids: SUBSET Words, found: SUBSET Words, start: Nat,
   entity: DeckRows, base: DeckRows, seen: DeckRows]

DecksTypeOK ==
  /\ decks \in [DeckIds -> DeckRows]
  /\ members \in [DeckIds -> Memberships]
  /\ words \in SUBSET Words
  /\ deckCall \in [DeckCalls -> DeckCallStates]
  /\ vanished \in [DeckIds -> Nat]
  /\ staleDeckSave \in BOOLEAN /\ appendsOverlapped \in SUBSET DeckIds

\* An empty deck, or one to which a word has been appended.
DecksInit ==
  /\ \E m \in {{}} \cup {{w} : w \in Words} :
       /\ decks = [d \in DeckIds |-> IF d = "shelf"
                     THEN [NoDeck EXCEPT !.exists = TRUE, !.count = Cardinality(m)]
                     ELSE NoDeck]
       /\ members = [d \in DeckIds |-> [w \in Words |->
                       IF d = "shelf" /\ w \in m THEN 0 ELSE NotIn]]
  /\ words = Words
  /\ deckCall = [c \in DeckCalls |-> DeckIdle]
  /\ vanished = [d \in DeckIds |-> 0]
  /\ staleDeckSave = FALSE /\ appendsOverlapped = {}

Ready(c, pc) == deckCall[c].pc = pc
Finish(c) == deckCall' = [deckCall EXCEPT ![c] = [DeckIdle EXCEPT !.pc = "done"]]
Step(c, pc) == deckCall' = [deckCall EXCEPT ![c].pc = pc]
deckHistory == <<vanished, staleDeckSave, appendsOverlapped>>
OnlyDeckCalls == UNCHANGED <<decks, members, words, deckHistory>>

\* assertOwnedByUser, for the caller's own decks
Owned(d) == decks[d].exists

\* Positions count up from start in the order in which the ids were given.
Placed(m, order, start) ==
  [w \in Words |-> IF w \in DOMAIN order THEN start + order[w] ELSE m[w]]
Orders(ids) == Bijection(ids, 0..(Cardinality(ids) - 1))

InAppend(d) == {c \in DeckCalls : deckCall[c].deck = d /\ deckCall[c].pc \in
                                    {"numbering", "selecting", "appending"}}
Disturbs(c, d) ==
  appendsOverlapped' = appendsOverlapped \cup IF InAppend(d) \ {c} # {} THEN {d} ELSE {}

-----------------------------------------------------------------------------
(* appendMembers, for POST decks/:id/vocabularies and for the worker *)

\* The accessible ids, less those that are members already.  The foreign key
\* refuses what the worker would append to a deck that is gone.
AppendRead(c) ==
  /\ Ready(c, "idle")
  /\ \E d \in DeckIds, asked \in SUBSET Words \ {{}} :
       LET new == (asked \cap words) \ MembersOf(members[d]) IN
       IF new = {} \/ ~Owned(d) THEN Finish(c)
       ELSE deckCall' = [deckCall EXCEPT ![c] =
              [DeckIdle EXCEPT !.pc = "numbering", !.deck = d, !.ids = new]]
  /\ OnlyDeckCalls

\* COALESCE(MAX(position), -1)
MaxPosition(m) == CHOOSE p \in Range(m) : \A w \in Words : m[w] <= p

AppendNumber(c) ==
  /\ Ready(c, "numbering")
  /\ deckCall' = [deckCall EXCEPT ![c].pc = "selecting",
                     ![c].start = MaxPosition(members[deckCall[c].deck]) + 1]
  /\ OnlyDeckCalls

\* save looks for the rows by their keys ...
AppendSelect(c) ==
  /\ Ready(c, "selecting")
  /\ deckCall' = [deckCall EXCEPT ![c].pc = "appending",
                     ![c].found = @ \cup (deckCall[c].ids \cap MembersOf(members[deckCall[c].deck]))]
  /\ OnlyDeckCalls

\* ... inserts those it did not find and moves those it did, and vocabCount
\* grows by all of them.  A row inserted since, and a deck or a word that is
\* gone, roll the transaction back.
AppendCommit(c) ==
  LET k == deckCall[c]
      m == members[k.deck]
      insert == k.ids \ k.found
      move == k.found \cap MembersOf(m)
  IN
  /\ Ready(c, "appending")
  /\ IF decks[k.deck].exists /\ insert \subseteq words \ MembersOf(m)
     THEN /\ \E order \in Orders(k.ids) :
               members' = [members EXCEPT ![k.deck] =
                             Placed(m, [w \in insert \cup move |-> order[w]], k.start)]
          /\ decks' = [decks EXCEPT ![k.deck].count = @ + Cardinality(k.ids)]
          /\ Disturbs(c, k.deck)
     ELSE UNCHANGED <<members, decks, appendsOverlapped>>
  /\ Finish(c)
  /\ UNCHANGED <<words, vanished, staleDeckSave>>

-----------------------------------------------------------------------------
(* createUserDeck, cloneDeck, removeVocabularyFromUserDeck *)

\* One transaction; nobody else sees the deck before its commit.
CreateDeck(c) ==
  /\ Ready(c, "idle") /\ ~decks[c].exists
  /\ \E ids \in SUBSET words, v \in {"private", "public"} :
       /\ decks' = [decks EXCEPT ![c] = [exists |-> TRUE, visibility |-> v,
                                         count |-> Cardinality(ids)]]
       /\ \E order \in Orders(ids) :
            members' = [members EXCEPT ![c] = Placed(NoMembers, order, 0)]
  /\ Finish(c)
  /\ UNCHANGED <<words, deckHistory>>

\* The source must be public when it is looked up.
CloneLoad(c) ==
  /\ Ready(c, "idle")
  /\ \E d \in DeckIds :
       IF decks[d].exists /\ decks[d].visibility = "public"
       THEN deckCall' = [deckCall EXCEPT ![c] = [DeckIdle EXCEPT !.pc = "cloning", !.deck = d]]
       ELSE Finish(c)
  /\ OnlyDeckCalls

\* Its members are what the later query finds, with their positions.
CloneCommit(c) ==
  LET m == members[deckCall[c].deck] IN
  /\ Ready(c, "cloning")
  /\ decks' = [decks EXCEPT ![c] = [NoDeck EXCEPT !.exists = TRUE,
                                       !.count = Cardinality(MembersOf(m))]]
  /\ members' = [members EXCEPT ![c] = m]
  /\ appendsOverlapped' = appendsOverlapped \cup
       IF deckCall[c].deck \in appendsOverlapped THEN {c} ELSE {}
  /\ Finish(c)
  /\ UNCHANGED <<words, vanished, staleDeckSave>>

\* Ownership is checked before the transaction.
RemoveCheck(c) ==
  /\ Ready(c, "idle")
  /\ \E d \in DeckIds, w \in Words :
       IF Owned(d)
       THEN deckCall' = [deckCall EXCEPT ![c] =
              [DeckIdle EXCEPT !.pc = "removing", !.deck = d, !.ids = {w}]]
       ELSE Finish(c)
  /\ OnlyDeckCalls

\* Mutant: the count goes down whether or not the DELETE met the row.
RemoveCommit_Always(c) ==
  LET d == deckCall[c].deck IN
  /\ Ready(c, "removing")
  /\ members' = [members EXCEPT ![d] =
       [w \in Words |-> IF w \in deckCall[c].ids THEN NotIn ELSE @[w]]]
  /\ decks' = [decks EXCEPT ![d].count = @ - 1]
  /\ Disturbs(c, d)
  /\ Finish(c)
  /\ UNCHANGED <<words, vanished, staleDeckSave>>

\* The count goes down only if the DELETE met the row.
RemoveCommit(c) ==
  LET d == deckCall[c].deck
      hit == deckCall[c].ids \cap MembersOf(members[d])
  IN
  /\ Ready(c, "removing")
  /\ members' = [members EXCEPT ![d] = [w \in Words |-> IF w \in hit THEN NotIn ELSE @[w]]]
  /\ decks' = [decks EXCEPT ![d].count = @ - Cardinality(hit)]
  /\ Disturbs(c, d)
  /\ Finish(c)
  /\ UNCHANGED <<words, vanished, staleDeckSave>>

-----------------------------------------------------------------------------
(* updateUserDeck, deleteUserDeck, and words that are deleted *)

\* The dto's columns are set on the deck that assertOwnedByUser has loaded.
UpdateLoad(c) ==
  /\ Ready(c, "idle")
  /\ \E d \in DeckIds, v \in {"private", "public"} :
       IF Owned(d)
       THEN deckCall' = [deckCall EXCEPT ![c] =
              [DeckIdle EXCEPT !.pc = "saving", !.deck = d, !.base = decks[d],
                               !.entity = [decks[d] EXCEPT !.visibility = v]]]
       ELSE Finish(c)
  /\ OnlyDeckCalls

UpdateSelect(c) ==
  /\ Ready(c, "saving")
  /\ deckCall' = [deckCall EXCEPT ![c].pc = "selected", ![c].seen = decks[deckCall[c].deck]]
  /\ OnlyDeckCalls

\* The columns that differ from what save's SELECT found, vocabCount among
\* them; a deck deleted before that SELECT is inserted again, without members.
UpdateCommit(c) ==
  LET k == deckCall[c]
      row == decks[k.deck]
  IN
  /\ Ready(c, "selected")
  /\ decks' = [decks EXCEPT ![k.deck] =
                 IF ~k.seen.exists THEN k.entity
                 ELSE IF ~row.exists THEN row
                 ELSE [f \in DOMAIN row |-> IF k.entity[f] # k.seen[f] THEN k.entity[f]
                                            ELSE row[f]]]
  /\ staleDeckSave' = (staleDeckSave \/ (decks' # decks /\ row # k.base))
  /\ Finish(c)
  /\ UNCHANGED <<members, words, vanished, appendsOverlapped>>

DeleteCheck(c) ==
  /\ Ready(c, "idle")
  /\ \E d \in DeckIds :
       IF Owned(d)
       THEN deckCall' = [deckCall EXCEPT ![c] = [DeckIdle EXCEPT !.pc = "deleting", !.deck = d]]
       ELSE Finish(c)
  /\ OnlyDeckCalls

\* Members go with the deck.
DeleteCommit(c) ==
  LET d == deckCall[c].deck IN
  /\ Ready(c, "deleting")
  /\ decks' = [decks EXCEPT ![d] = NoDeck]
  /\ members' = [members EXCEPT ![d] = NoMembers]
  /\ vanished' = [vanished EXCEPT ![d] = 0]
  /\ Disturbs(c, d)
  /\ Finish(c)
  /\ UNCHANGED <<words, staleDeckSave>>

\* Memberships go with a word; no count is touched.
DeleteWord(w) ==
  /\ w \in words
  /\ words' = words \ {w}
  /\ members' = [d \in DeckIds |-> [members[d] EXCEPT ![w] = NotIn]]
  /\ vanished' = [d \in DeckIds |-> vanished[d] + IF members[d][w] # NotIn THEN 1 ELSE 0]
  /\ appendsOverlapped' = appendsOverlapped \cup
       {d \in DeckIds : members[d][w] # NotIn /\ InAppend(d) # {}}
  /\ UNCHANGED <<decks, deckCall, staleDeckSave>>

AppendWords(c) == AppendRead(c) \/ AppendNumber(c) \/ AppendSelect(c) \/ AppendCommit(c)
Clone(c) == CloneLoad(c) \/ CloneCommit(c)
RemoveMember(c) == RemoveCheck(c) \/ RemoveCommit(c)
UpdateDeck(c) == UpdateLoad(c) \/ UpdateSelect(c) \/ UpdateCommit(c)
DeleteDeck(c) == DeleteCheck(c) \/ DeleteCommit(c)

DecksNext ==
  \/ \E c \in DeckCalls : AppendWords(c) \/ CreateDeck(c) \/ Clone(c) \/ RemoveMember(c)
                           \/ UpdateDeck(c) \/ DeleteDeck(c)
  \/ \E w \in Words : DeleteWord(w)

DecksSpec == DecksInit /\ [][DecksNext]_deckVars

-----------------------------------------------------------------------------
(* Properties *)

\* vocabCount is the number of members plus those that went with a deleted
\* word, which nothing subtracts, as long as no deck was saved over a row its
\* request had not read and no append ran next to another change of the deck
\* (deck-membership.service.ts:97, decks.service.ts:283, 334).
CountTracksMembers ==
  \A d \in DeckIds :
    decks[d].exists /\ ~staleDeckSave /\ d \notin appendsOverlapped
      => decks[d].count = Cardinality(MembersOf(members[d])) + vanished[d]

\* The words of a deck keep distinct positions unless an append ran next to
\* another change of the deck (deck-membership.service.ts:79-91).
PositionsDistinct ==
  \A d \in DeckIds : d \notin appendsOverlapped =>
    IsInjective(Restrict(members[d], MembersOf(members[d])))
=============================================================================
