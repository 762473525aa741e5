------------------------------- MODULE Senses -------------------------------
(***************************************************************************)
(* The senses of one word and their order, as admins add, edit, delete and *)
(* reorder them, and as bulk imports and the seed script write them by     *)
(* position (src/src/vocabularies/vocabularies.service.ts,                 *)
(* src/src/database/seeds/seed.ts).                                        *)
(*                                                                         *)
(* Each request is one transaction at READ COMMITTED: what it reads first  *)
(* is one step, its writes show at its commit and are the other.  save of  *)
(* a sense writes all columns of the entity read; a row gone by then is    *)
(* inserted again.  The script has no transaction.                         *)
(***************************************************************************)
EXTENDS Integers, FiniteSets, FiniteSetsExt, Functions, SequencesExt, Selections

CONSTANTS
  SenseCalls,      \* requests of admins and runs of the seed script
  MaxSenses        \* bound: senses the word ever gets; they are numbered as they come

ASSUME SensesAssumption == MaxSenses \in Nat

VARIABLES
  wordRow,         \* "none" yet, "stored" or "deleted"; a later word of that lemma is another
  order,           \* sense_order of every sense of the word
  lastId,          \* the id of the sense inserted last
  senseCall,       \* where each call is and what it has read
  sensesRaced      \* history: senses were written by orders the call had not read

senseVars == <<wordRow, order, lastId, senseCall, sensesRaced>>

SenseIds == 1..MaxSenses
SenseIdle == [pc |-> "idle", seen |-> <<>>, sense |-> 0, list |-> <<>>, todo |-> {}]
SensePcs == {"idle", "adding", "deleting", "reordering", "updating", "creating",
             "importing", "seeding", "done", "failed"}

\* CK_vocabulary_senses_order_positive
OrdersPositive(o) == \A s \in DOMAIN o : o[s] >= 1

SensesTypeOK ==
  /\ wordRow \in {"none", "stored", "deleted"}
  /\ lastId \in 0..MaxSenses
  /\ DOMAIN order \subseteq 1..lastId
  /\ \A s \in DOMAIN order : order[s] \in SenseIds
  /\ IsInjective(order)
  /\ DOMAIN senseCall = SenseCalls
  /\ \A c \in SenseCalls :
       /\ senseCall[c].pc \in SensePcs
       /\ DOMAIN senseCall[c].seen \subseteq SenseIds
       /\ senseCall[c].sense \in 0..MaxSenses
       /\ ToSet(senseCall[c].list) \subseteq SenseIds
       /\ senseCall[c].todo \subseteq SenseIds
  /\ sensesRaced \in BOOLEAN

\* createVocabulary of the enrichment worker: i + 1 for the i-th sense.
Drafted(n) == [s \in 1..n |-> s]

SensesInit ==
  /\ lastId \in 0..MaxSenses
  /\ order = Drafted(lastId)
  /\ wordRow = IF lastId = 0 THEN "none" ELSE "stored"
  /\ senseCall = [c \in SenseCalls |-> SenseIdle]
  /\ sensesRaced = FALSE

SenseReady(c, pc) == senseCall[c].pc = pc
OnlySenseCalls == UNCHANGED <<wordRow, order, lastId, sensesRaced>>
Reads(c, entry) ==
  senseCall' = [senseCall EXCEPT ![c] = [entry EXCEPT !.seen = order]]
Answers(c, pc) == senseCall' = [senseCall EXCEPT ![c] = [SenseIdle EXCEPT !.pc = pc]]

\* Mutant: no unique index.
Allowed_Twice(o) == OrdersPositive(o)

\* Both constraints of the table; they are checked row by row.
Allowed(o) == OrdersPositive(o) /\ IsInjective(o)

Fails(c) ==
  /\ senseCall' = [senseCall EXCEPT ![c] =
       [SenseIdle EXCEPT !.pc = "failed", !.list = senseCall[c].list]]
  /\ UNCHANGED <<order, lastId, sensesRaced>>

\* The writes of call c leave the orders o; a refused one rolls back.
Writes(c, o) ==
  IF wordRow = "stored" /\ Allowed(o)
  THEN /\ order' = o
       /\ sensesRaced' = (sensesRaced \/ (o # order /\ order # senseCall[c].seen))
       /\ lastId' = Max({lastId} \cup DOMAIN o)
       /\ Answers(c, "done")
  ELSE Fails(c)

With(o, s, n) == [t \in DOMAIN o \cup {s} |-> IF t = s THEN n ELSE o[t]]

-----------------------------------------------------------------------------
(* addSense, deleteSense, reorderSenses, updateSense *)

\* COALESCE(MAX(sense_order), 0) + 1
NextOrder(o) == 1 + IF DOMAIN o = {} THEN 0 ELSE Max(Range(o))

AddSenseRead(c) ==
  /\ SenseReady(c, "idle")
  /\ IF wordRow = "stored" THEN Reads(c, [SenseIdle EXCEPT !.pc = "adding"]) ELSE Answers(c, "done")
  /\ OnlySenseCalls

AddSenseCommit(c) ==
  /\ SenseReady(c, "adding")
  /\ lastId < MaxSenses
  /\ Writes(c, With(order, lastId + 1, NextOrder(senseCall[c].seen)))
  /\ UNCHANGED wordRow

DeleteSenseRead(c) ==
  /\ SenseReady(c, "idle")
  /\ \E s \in DOMAIN order : Reads(c, [SenseIdle EXCEPT !.pc = "deleting", !.sense = s])
  /\ OnlySenseCalls

\* Mutant: the gap stays.
Compacted_Not(o, at) == o

\* sense_order - 1 for every sense of the word that is past the deleted one
Above(o, at) == {s \in DOMAIN o : o[s] > at}
Compacted(o, at) == [s \in DOMAIN o |-> IF s \in Above(o, at) THEN o[s] - 1 ELSE o[s]]

\* The order of the deleted sense is the one read; nobody looks whether the
\* DELETE met the row.  The unique index is checked after every row of the
\* UPDATE, so two rows that move may collide before both have moved.
DeleteSenseCommit(c) ==
  LET k == senseCall[c]
      rest == Restrict(order, DOMAIN order \ {k.sense})
      at == k.seen[k.sense]
  IN
  /\ SenseReady(c, "deleting")
  /\ \/ Writes(c, Compacted(rest, at))
     \/ /\ Cardinality(Above(rest, at)) > 1
        /\ Fails(c)
  /\ UNCHANGED wordRow

\* The ids must be a permutation of those that are there.
ReorderRead(c) ==
  /\ SenseReady(c, "idle") /\ wordRow = "stored"
  /\ \/ Answers(c, "done")
     \/ \E list \in SetToSeqs(DOMAIN order) :
          list # <<>> /\ Reads(c, [SenseIdle EXCEPT !.pc = "reordering", !.list = list])
  /\ OnlySenseCalls

Negated(o) == [s \in DOMAIN o |-> -o[s]]
Reordered(o, list) ==
  [s \in DOMAIN o |-> IF s \in ToSet(list) THEN CHOOSE i \in DOMAIN list : list[i] = s
                      ELSE o[s]]

\* All orders are negated, then the ids given get their places one by one.
ReorderCommit(c) ==
  LET list == senseCall[c].list IN
  /\ SenseReady(c, "reordering")
  /\ IF Allowed(Negated(order)) THEN Writes(c, Reordered(Negated(order), list))
     ELSE Fails(c)
  /\ UNCHANGED wordRow

UpdateSenseRead(c) ==
  /\ SenseReady(c, "idle")
  /\ \E s \in DOMAIN order : Reads(c, [SenseIdle EXCEPT !.pc = "updating", !.sense = s])
  /\ OnlySenseCalls

UpdateSenseCommit(c) ==
  LET k == senseCall[c] IN
  /\ SenseReady(c, "updating")
  /\ Writes(c, With(order, k.sense, k.seen[k.sense]))
  /\ UNCHANGED wordRow

-----------------------------------------------------------------------------
(* upsertSenses by position: bulk import and creation, and the seed script *)

\* What was read at the positions is written back with them; at those where
\* nothing was read, new senses are inserted.
Missing(seen, positions) == positions \ Range(seen)
NewIds(ns) == {lastId + i : i \in 1..Cardinality(ns)}
Inserted(ns) == [s \in NewIds(ns) |-> Ranked(ns, <)[s - lastId]]
Over(new, o) == [s \in DOMAIN new \cup DOMAIN o |-> IF s \in DOMAIN new THEN new[s] ELSE o[s]]
Upserted(seen, positions) ==
  Over(Inserted(Missing(seen, positions)),
       Over(Restrict(seen, {s \in DOMAIN seen : seen[s] \in positions}), order))

\* The word is looked up and saved, then its senses are read.  The script's
\* word shows at once, an import's with its commit.
ImportRead(c) ==
  /\ SenseReady(c, "idle") /\ wordRow # "deleted"
  /\ \E n \in SenseIds : Reads(c, [SenseIdle EXCEPT !.todo = 1..n,
       !.pc = IF wordRow = "none" THEN "creating" ELSE "importing"])
  /\ OnlySenseCalls

SeedRead(c) ==
  /\ SenseReady(c, "idle") /\ wordRow # "deleted"
  /\ \E n \in SenseIds : Reads(c, [SenseIdle EXCEPT !.todo = 1..n, !.pc = "seeding"])
  /\ wordRow' = "stored"
  /\ UNCHANGED <<order, lastId, sensesRaced>>

\* The unique index on a word's key lets one of two creations through.
ImportCommit(c) ==
  LET k == senseCall[c] IN
  /\ lastId + Cardinality(Missing(k.seen, k.todo)) <= MaxSenses
  /\ \/ /\ SenseReady(c, "importing")
        /\ Writes(c, Upserted(k.seen, k.todo))
        /\ UNCHANGED wordRow
     \/ /\ SenseReady(c, "creating") /\ wordRow = "none"
        /\ wordRow' = "stored"
        /\ order' = Upserted(<<>>, k.todo)
        /\ lastId' = Cardinality(k.todo)
        /\ Answers(c, "done")
        /\ UNCHANGED sensesRaced
     \/ /\ SenseReady(c, "creating") /\ wordRow # "none"
        /\ Fails(c)
        /\ UNCHANGED wordRow

\* The script stores sense after sense, and stops at the first failure.
SeedSense(c) ==
  LET k == senseCall[c]
      n == Min(k.todo)
      o == Upserted(k.seen, {n})
  IN
  /\ SenseReady(c, "seeding")
  /\ lastId + Cardinality(Missing(k.seen, {n})) <= MaxSenses
  /\ IF k.todo # {n} /\ wordRow = "stored" /\ Allowed(o)
     THEN /\ order' = o
          /\ lastId' = Max({lastId} \cup DOMAIN o)
          /\ sensesRaced' = (sensesRaced \/ (o # order /\ order # k.seen))
          /\ senseCall' = [senseCall EXCEPT ![c].todo = @ \ {n}, ![c].seen = o]
     ELSE Writes(c, o)
  /\ UNCHANGED wordRow

\* deleteSystemVocabulary, deleteUserVocabulary: the senses go with the word.
DeleteWordRow ==
  /\ wordRow = "stored" /\ wordRow' = "deleted"
  /\ order' = <<>>
  /\ UNCHANGED <<lastId, senseCall, sensesRaced>>

SensesNext ==
  \/ \E c \in SenseCalls :
       \/ AddSenseRead(c) \/ AddSenseCommit(c) \/ DeleteSenseRead(c) \/ DeleteSenseCommit(c)
       \/ ReorderRead(c) \/ ReorderCommit(c) \/ UpdateSenseRead(c) \/ UpdateSenseCommit(c)
       \/ ImportRead(c) \/ ImportCommit(c) \/ SeedRead(c) \/ SeedSense(c)
  \/ DeleteWordRow

SensesSpec == SensesInit /\ [][SensesNext]_senseVars

-----------------------------------------------------------------------------
(* Properties *)

\* The senses of a word are numbered 1..N, unless a call wrote senses by orders
\* that had changed since it read them: neither additions, deletions, imports
\* shorter or longer than what is there, nor failures leave a gap
\* (vocabularies.service.ts:966-986, 1543-1589; api-endpoints.md: "compacted so
\* senseOrder stays contiguous 1..N").
SensesOrdered == ~sensesRaced => Range(order) = 1..Cardinality(DOMAIN order)

\* A reorder whose ids were accepted takes effect: negative orders are meant to
\* keep clear of the unique index (vocabularies.service.ts:1012-1014).
ReorderSucceeds ==
  \A c \in SenseCalls : senseCall[c].pc = "failed" /\ ~sensesRaced => senseCall[c].list = <<>>
=============================================================================
