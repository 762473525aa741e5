---------------------------- MODULE RecordsProofs ----------------------------
(***************************************************************************)
(* The system of all the rows, MCRecords, one component of which runs.     *)
(* What UserRowProofs proves of the rows of a user is taken over; the      *)
(* invariants of Scenarios, Media, WordTexts, Senses and BulkCreate are    *)
(* proved here.                                                            *)
(***************************************************************************)
EXTENDS MCRecords, UserRowProofs

-----------------------------------------------------------------------------
(* Scenarios: a version names one snapshot, and the daily cap holds *)

\* A later state of the scenario's row: versions only grow, and what was published once
\* keeps its spec as long as it keeps its version.
Follows(old, new) ==
  /\ old.version <= new.version
  /\ old.status # "draft" =>
       new.status # "draft" /\ (old.version = new.version => old.spec = new.spec)

\* An edit holds the rows it has read.
HoldsRows(k) ==
  /\ k.pc \in {"saving", "selected"} => k.base \in ScenarioRows /\ k.entity \in ScenarioRows
  /\ k.pc = "selected" => k.seen \in ScenarioRows

EditsRead == \A e \in Edits : HoldsRows(edit[e])

\* What an edit holds follows what it has loaded, and the row follows both.
HoldsFollow(k, now) ==
  /\ k.pc \in {"saving", "selected"} => Follows(k.base, k.entity) /\ Follows(k.base, now)
  /\ k.pc = "selected" => Follows(k.base, k.seen) /\ Follows(k.seen, now)

EditsFollow ==
  ~staleScenarioSave /\ ~editedRetired => \A e \in Edits : HoldsFollow(edit[e], scenario)

\* The rows of which sessions keep a snapshot, or are about to.
Loading == {s \in Starts : starting[s].pc \in {"loaded", "counted"}}
Kept == {sessions[s] : s \in DOMAIN sessions}
        \cup {[version |-> starting[s].copy.version, spec |-> starting[s].copy.spec] : s \in Loading}

CopiesRead == \A s \in Loading : starting[s].copy \in ScenarioRows

SnapshotsFollow == ~staleScenarioSave /\ ~editedRetired => \A x \in Kept :
  /\ scenario.status # "draft" /\ x.version <= scenario.version
  /\ x.version = scenario.version => x.spec = scenario.spec
  /\ \A y \in Kept : x.version = y.version => x.spec = y.spec

Counted == {s \in Starts : starting[s].pc = "counted"}
UnderCap == ~startsOverlapped =>
  /\ Cardinality(DOMAIN sessions) <= DailySessions
  /\ \A s, t \in Counted : s = t
  /\ Counted # {} => Cardinality(DOMAIN sessions) < DailySessions

ScenariosInv ==
  ScenariosTypeOK /\ EditsRead /\ EditsFollow /\ CopiesRead /\ SnapshotsFollow /\ UnderCap

LEMMA ScenariosInitInv == ScenariosInit => ScenariosInv
  <1> SUFFICES ASSUME ScenariosInit PROVE ScenariosInv
    OBVIOUS
  <1>1. DOMAIN sessions = {} /\ Cardinality(DOMAIN sessions) = 0
    BY FS_EmptySet DEF ScenariosInit
  <1>2. ScenariosTypeOK
    <2>1. scenario \in ScenarioRows
      BY DEF ScenariosInit, Created, ScenarioRows
    <2>2. edit \in [Edits -> EditStates] /\ starting \in [Starts -> StartStates]
      BY DEF ScenariosInit, Blank, EditStates, StartStates, NoRow
    <2> QED
      BY <1>1, <2>1, <2>2 DEF ScenariosInit, ScenariosTypeOK
  <1>3. EditsRead /\ EditsFollow
    BY DEF ScenariosInit, EditsRead, HoldsRows, EditsFollow, HoldsFollow, Blank
  <1>4. Loading = {} /\ Counted = {} /\ Kept = {}
    BY <1>1 DEF ScenariosInit, Loading, Counted, Kept
  <1>5. CopiesRead /\ SnapshotsFollow /\ UnderCap
    BY <1>1, <1>4, ScenariosAssumption DEF CopiesRead, SnapshotsFollow, UnderCap
  <1> QED
    BY <1>2, <1>3, <1>5 DEF ScenariosInv

LEMMA FollowsTransitive ==
  ASSUME NEW p \in ScenarioRows, NEW q \in ScenarioRows, NEW r \in ScenarioRows,
         Follows(p, q), Follows(q, r)
  PROVE  Follows(p, r)
  BY DEF Follows, ScenarioRows

\* The columns that a save over the row it was loaded from leaves.
Written(entity, seen, old) ==
  [f \in DOMAIN old |-> IF entity[f] # seen[f] THEN entity[f] ELSE old[f]]

LEMMA WrittenFollows ==
  ASSUME NEW entity \in ScenarioRows, NEW seen \in ScenarioRows, NEW old \in ScenarioRows
  PROVE  /\ Written(entity, seen, old) \in ScenarioRows
         /\ Follows(old, entity) /\ Follows(old, seen) /\ Follows(seen, old)
              => Follows(old, Written(entity, seen, old))
  <1> DEFINE new == Written(entity, seen, old)
             Columns == {"status", "version", "spec"}
  <1>1. DOMAIN old = Columns
    BY DEF ScenarioRows
  <1>2. new = [f \in Columns |-> IF entity[f] # seen[f] THEN entity[f] ELSE old[f]]
    BY <1>1 DEF Written
  <1>3. new = [status |-> new.status, version |-> new.version, spec |-> new.spec]
    BY <1>2
  <1>4. /\ new.status = IF entity.status # seen.status THEN entity.status ELSE old.status
        /\ new.version = IF entity.version # seen.version THEN entity.version ELSE old.version
        /\ new.spec = IF entity.spec # seen.spec THEN entity.spec ELSE old.spec
    BY <1>2
  <1>5. new \in ScenarioRows
    BY <1>3, <1>4 DEF ScenarioRows
  <1>6. ASSUME Follows(old, entity), Follows(old, seen), Follows(seen, old)
        PROVE  Follows(old, new)
    BY <1>4, <1>6 DEF Follows, ScenarioRows
  <1> QED
    BY <1>5, <1>6

\* An edit reads, or ends without a change.
LEMMA EditReadKept ==
  ASSUME ScenariosInv, NEW e \in Edits, OnlyEdits, NEW k \in EditStates,
         edit' = [edit EXCEPT ![e] = k], HoldsRows(k),
         editedRetired' \in BOOLEAN, editedRetired => editedRetired',
         ~staleScenarioSave /\ ~editedRetired' => HoldsFollow(k, scenario)
  PROVE  ScenariosInv'
  <1>1. /\ UNCHANGED <<scenario, starting, sessions, staleScenarioSave, startsOverlapped>>
        /\ edit \in [Edits -> EditStates]
    BY DEF OnlyEdits, ScenariosInv, ScenariosTypeOK
  <1>2. ScenariosTypeOK'
    BY <1>1 DEF ScenariosInv, ScenariosTypeOK
  <1>3. EditsRead'
    BY <1>1 DEF ScenariosInv, EditsRead
  <1>4. EditsFollow'
    BY <1>1 DEF ScenariosInv, EditsFollow
  <1>5. Loading' = Loading /\ Counted' = Counted /\ Kept' = Kept
    BY <1>1 DEF Loading, Counted, Kept
  <1>6. CopiesRead' /\ UnderCap'
    BY <1>1, <1>5 DEF ScenariosInv, CopiesRead, UnderCap
  <1>7. SnapshotsFollow'
    BY <1>1, <1>5 DEF ScenariosInv, SnapshotsFollow
  <1> QED
    BY <1>2, <1>3, <1>4, <1>6, <1>7 DEF ScenariosInv

\* An edit that is to save: its entity follows what it has loaded.
LEMMA SavesKept ==
  ASSUME ScenariosInv, NEW e \in Edits, OnlyEdits, NEW entity \in ScenarioRows, Saves(e, entity),
         editedRetired' \in BOOLEAN, editedRetired => editedRetired',
         ~editedRetired' => Follows(scenario, entity)
  PROVE  ScenariosInv'
  <1>1. scenario \in ScenarioRows /\ edit \in [Edits -> EditStates]
    BY DEF ScenariosInv, ScenariosTypeOK
  <1>2. PICK now \in ScenarioRows : now = scenario
    BY <1>1
  <1>3. PICK old \in EditStates : old = edit[e]
    BY <1>1
  <1> DEFINE k == [old EXCEPT !.pc = "saving", !.base = now, !.entity = entity]
  <1>4. k \in EditStates /\ k.pc = "saving" /\ k.base = now /\ k.entity = entity
    BY DEF EditStates
  <1>5. edit' = [edit EXCEPT ![e] = k]
    BY <1>2, <1>3 DEF Saves
  <1> HIDE DEF k
  <1>6. HoldsRows(k)
    BY <1>4 DEF HoldsRows
  <1>7. ~editedRetired' => HoldsFollow(k, scenario)
    BY <1>2, <1>4 DEF HoldsFollow, Follows, ScenarioRows
  <1> QED
    BY <1>4, <1>5, <1>6, <1>7, EditReadKept

LEMMA RefusesKept ==
  ASSUME ScenariosInv, NEW e \in Edits, OnlyEdits, Refuses(e), UNCHANGED editedRetired
  PROVE  ScenariosInv'
  <1> DEFINE k == Blank("done")
  <1>1. k \in EditStates /\ k.pc = "done"
    BY DEF Blank, EditStates
  <1>2. edit' = [edit EXCEPT ![e] = k]
    BY DEF Refuses
  <1> HIDE DEF k
  <1>3. HoldsRows(k) /\ HoldsFollow(k, scenario)
    BY <1>1 DEF HoldsRows, HoldsFollow
  <1>4. editedRetired' \in BOOLEAN /\ (editedRetired => editedRetired')
    BY DEF ScenariosInv, ScenariosTypeOK
  <1> QED
    BY <1>1, <1>2, <1>3, <1>4, EditReadKept

\* Only a published row gets the next version.
LEMMA BumpedFollows ==
  ASSUME NEW now \in ScenarioRows, NEW spec \in Specs
  PROVE  /\ Bumped([now EXCEPT !.spec = spec]) \in ScenarioRows
         /\ Bumped(now) \in ScenarioRows /\ Follows(now, Bumped(now))
         /\ now.status # "retired" => Follows(now, Bumped([now EXCEPT !.spec = spec]))
  <1>1. PICK new \in ScenarioRows : /\ new = [now EXCEPT !.spec = spec] /\ new.status = now.status
                                    /\ new.version = now.version
    <2>1. [now EXCEPT !.spec = spec] \in ScenarioRows
      BY DEF ScenarioRows
    <2> QED
      BY <2>1 DEF ScenarioRows
  <1>2. ASSUME NEW r \in ScenarioRows
        PROVE  /\ Bumped(r) \in ScenarioRows /\ Bumped(r).status = r.status
               /\ Bumped(r).spec = r.spec
               /\ Bumped(r).version = IF r.status = "published" THEN r.version + 1 ELSE r.version
    <2>1. PICK n \in Nat \ {0} : n = r.version + 1
      BY DEF ScenarioRows
    <2>2. [r EXCEPT !.version = n] \in ScenarioRows /\ [r EXCEPT !.version = n].version = n
      BY DEF ScenarioRows
    <2>3. Bumped(r) = IF r.status = "published" THEN [r EXCEPT !.version = n] ELSE r
      BY <2>1 DEF Bumped
    <2> QED
      BY <2>1, <2>2, <2>3 DEF ScenarioRows
  <1> QED
    BY <1>1, <1>2 DEF Follows, ScenarioRows

LEMMA EditKept ==
  ASSUME ScenariosInv, NEW e \in Edits, Edit(e), edit[e].pc # "selected"
  PROVE  ScenariosInv'
  <1>1. /\ scenario \in ScenarioRows /\ edit \in [Edits -> EditStates]
        /\ editedRetired \in BOOLEAN
    BY DEF ScenariosInv, ScenariosTypeOK
  <1>2. PICK now \in ScenarioRows : now = scenario
    BY <1>1
  <1>3. CASE UpdateScenario(e)
    <2>1. PICK spec \in Specs : Saves(e, Bumped([now EXCEPT !.spec = spec]))
      BY <1>2, <1>3 DEF UpdateScenario
    <2>2. OnlyEdits /\ editedRetired' = (editedRetired \/ now.status = "retired")
      BY <1>2, <1>3 DEF UpdateScenario
    <2> DEFINE entity == Bumped([now EXCEPT !.spec = spec])
    <2>3. entity \in ScenarioRows /\ (now.status # "retired" => Follows(now, entity))
      BY BumpedFollows
    <2>4. editedRetired' \in BOOLEAN /\ (editedRetired => editedRetired')
      BY <1>1, <2>2
    <2> QED
      BY <1>2, <2>1, <2>2, <2>3, <2>4, SavesKept
  <1>4. CASE AttachIntroVideo(e)
    <2>1. Saves(e, Bumped(now)) /\ OnlyEdits /\ UNCHANGED editedRetired
      BY <1>2, <1>4 DEF AttachIntroVideo
    <2>2. Bumped(now) \in ScenarioRows /\ Follows(now, Bumped(now))
      BY ScenariosAssumption, BumpedFollows
    <2> QED
      BY <1>1, <1>2, <2>1, <2>2, SavesKept
  <1>5. CASE Publish(e) \/ Retire(e)
    <2>1. OnlyEdits /\ UNCHANGED editedRetired
      BY <1>5 DEF Publish, Retire
    <2>2. CASE Refuses(e)
      BY <2>1, <2>2, RefusesKept
    <2>3. ASSUME NEW st \in {"published", "retired"}, Saves(e, [now EXCEPT !.status = st])
          PROVE  ScenariosInv'
      <3>1. PICK entity \in ScenarioRows : /\ entity = [now EXCEPT !.status = st]
                                           /\ Follows(now, entity)
        <4>1. [now EXCEPT !.status = st] \in ScenarioRows
          BY DEF ScenarioRows
        <4>2. Follows(now, [now EXCEPT !.status = st])
          BY DEF ScenarioRows, Follows
        <4> QED
          BY <4>1, <4>2
      <3> QED
        BY <1>1, <1>2, <2>1, <2>3, <3>1, SavesKept
    <2> QED
      BY <1>2, <1>5, <2>2, <2>3 DEF Publish, Retire
  <1>6. CASE SaveSelect(e)
    <2>1. PICK old \in EditStates : old = edit[e] /\ old.pc = "saving" /\ HoldsRows(old)
      BY <1>1, <1>6 DEF SaveSelect, ScenariosInv, EditsRead
    <2> DEFINE k == [old EXCEPT !.pc = "selected", !.seen = now]
    <2>2. /\ k \in EditStates /\ k.pc = "selected" /\ k.base = old.base /\ k.entity = old.entity
          /\ k.seen = now
      BY DEF EditStates
    <2>3. edit' = [edit EXCEPT ![e] = k] /\ OnlyEdits /\ UNCHANGED editedRetired
      BY <1>1, <1>2, <1>6, <2>1 DEF SaveSelect
    <2> HIDE DEF k
    <2>4. HoldsRows(k)
      BY <2>1, <2>2 DEF HoldsRows
    <2>5. ~staleScenarioSave /\ ~editedRetired => HoldsFollow(k, scenario)
      BY <1>2, <2>1, <2>2 DEF ScenariosInv, EditsFollow, HoldsFollow, Follows, ScenarioRows
    <2> QED
      BY <1>1, <2>2, <2>3, <2>4, <2>5, EditReadKept
  <1>7. ~SaveCommit(e)
    BY DEF SaveCommit
  <1> QED
    BY <1>3, <1>4, <1>5, <1>6, <1>7 DEF Edit

LEMMA SaveCommitKept ==
  ASSUME ScenariosInv, NEW e \in Edits, SaveCommit(e)
  PROVE  ScenariosInv'
  <1>1. /\ scenario \in ScenarioRows /\ edit \in [Edits -> EditStates] /\ edit[e].pc = "selected"
        /\ staleScenarioSave \in BOOLEAN /\ editedRetired \in BOOLEAN
        /\ edit' = [edit EXCEPT ![e] = Blank("done")]
        /\ UNCHANGED <<starting, sessions, editedRetired, startsOverlapped>>
    BY DEF ScenariosInv, ScenariosTypeOK, SaveCommit
  <1>2. PICK k \in EditStates : k = edit[e] /\ HoldsRows(k)
    BY <1>1 DEF ScenariosInv, EditsRead
  <1>3. PICK old \in ScenarioRows : old = scenario
    BY <1>1
  <1>4. PICK base \in ScenarioRows, entity \in ScenarioRows, seen \in ScenarioRows :
          base = k.base /\ entity = k.entity /\ seen = k.seen
    BY <1>1, <1>2 DEF HoldsRows
  <1>5. PICK new \in ScenarioRows : /\ new = Written(entity, seen, old)
                                    /\ Follows(old, entity) /\ Follows(old, seen) /\ Follows(seen, old)
                                         => Follows(old, new)
    BY WrittenFollows
  <1>6. scenario' = new /\ staleScenarioSave' = (staleScenarioSave \/ old # base)
    BY <1>2, <1>3, <1>4, <1>5 DEF SaveCommit, Written
  <1>7. Blank("done") \in EditStates /\ Blank("done").pc = "done"
    BY DEF Blank, EditStates
  <1>8. ~staleScenarioSave' /\ ~editedRetired' => ~staleScenarioSave /\ ~editedRetired /\ Follows(old, new)
    <2> SUFFICES ASSUME ~staleScenarioSave', ~editedRetired'
                 PROVE  ~staleScenarioSave /\ ~editedRetired /\ Follows(old, new)
      OBVIOUS
    <2>1. ~staleScenarioSave /\ ~editedRetired /\ old = base
      BY <1>1, <1>6
    <2>2. HoldsFollow(k, old)
      BY <1>2, <1>3, <2>1 DEF ScenariosInv, EditsFollow
    <2>3. Follows(base, entity) /\ Follows(base, seen) /\ Follows(seen, old)
      BY <1>1, <1>2, <1>4, <2>2 DEF HoldsFollow
    <2> QED
      BY <1>5, <2>1, <2>3
  <1>9. ScenariosTypeOK'
    BY <1>1, <1>6, <1>7 DEF ScenariosInv, ScenariosTypeOK
  <1>10. EditsRead'
    BY <1>1, <1>7 DEF ScenariosInv, EditsRead, HoldsRows
  <1>11. EditsFollow'
    <2> SUFFICES ASSUME ~staleScenarioSave', ~editedRetired', NEW f \in Edits
                 PROVE  HoldsFollow(edit'[f], new)
      BY <1>6 DEF EditsFollow
    <2>1. CASE f = e
      BY <1>1, <1>7, <2>1 DEF HoldsFollow
    <2>2. CASE f # e
      <3>1. PICK q \in EditStates : q = edit[f] /\ q = edit'[f] /\ HoldsRows(q) /\ HoldsFollow(q, old)
        BY <1>1, <1>3, <1>8, <2>2 DEF ScenariosInv, EditsRead, EditsFollow
      <3>2. q.pc \in {"saving", "selected"} => Follows(q.base, new)
        BY <1>8, <3>1, FollowsTransitive DEF HoldsRows, HoldsFollow
      <3>3. q.pc = "selected" => Follows(q.seen, new)
        BY <1>8, <3>1, FollowsTransitive DEF HoldsRows, HoldsFollow
      <3> QED
        BY <3>1, <3>2, <3>3 DEF HoldsFollow
    <2> QED
      BY <2>1, <2>2
  <1>12. Loading' = Loading /\ Counted' = Counted /\ Kept' = Kept
    BY <1>1 DEF Loading, Counted, Kept
  <1>13. CopiesRead' /\ UnderCap'
    BY <1>1, <1>12 DEF ScenariosInv, CopiesRead, UnderCap
  <1>14. Kept \subseteq Snapshots
    BY DEF Kept, ScenariosInv, ScenariosTypeOK, CopiesRead, ScenarioRows, Snapshots
  <1>15. SnapshotsFollow'
    <2> SUFFICES ASSUME ~staleScenarioSave', ~editedRetired', NEW x \in Kept
                 PROVE  /\ new.status # "draft" /\ x.version <= new.version
                        /\ x.version = new.version => x.spec = new.spec
                        /\ \A y \in Kept : x.version = y.version => x.spec = y.spec
      BY <1>6, <1>12 DEF SnapshotsFollow
    <2>1. /\ old.status # "draft" /\ x.version <= old.version
          /\ x.version = old.version => x.spec = old.spec
          /\ \A y \in Kept : x.version = y.version => x.spec = y.spec
      BY <1>3, <1>8 DEF ScenariosInv, SnapshotsFollow
    <2>2. x.version \in Nat
      BY <1>14 DEF Snapshots
    <2> QED
      BY <1>8, <2>1, <2>2 DEF Follows, ScenarioRows
  <1> QED
    BY <1>9, <1>10, <1>11, <1>13, <1>15 DEF ScenariosInv

LEMMA StartLoadKept ==
  ASSUME ScenariosInv, NEW s \in Starts, StartLoad(s)
  PROVE  ScenariosInv'
  <1>1. /\ scenario \in ScenarioRows /\ starting \in [Starts -> StartStates]
        /\ starting[s].pc = "idle"
        /\ UNCHANGED <<scenario, edit, sessions, staleScenarioSave, editedRetired, startsOverlapped>>
    BY DEF ScenariosInv, ScenariosTypeOK, StartLoad
  <1>2. PICK k \in StartStates :
          /\ starting' = [starting EXCEPT ![s] = k]
          /\ k.pc # "counted"
          /\ k.pc = "loaded" => k.copy = scenario /\ scenario.status = "published"
    <2>1. CASE scenario.status = "published"
      <3> DEFINE k == [pc |-> "loaded", copy |-> scenario]
      <3>1. k \in StartStates /\ k.pc = "loaded" /\ k.copy = scenario
        BY <1>1 DEF StartStates
      <3>2. starting' = [starting EXCEPT ![s] = k]
        BY <2>1 DEF StartLoad
      <3> HIDE DEF k
      <3> QED
        BY <2>1, <3>1, <3>2
    <2>2. CASE scenario.status # "published"
      <3>1. Started \in StartStates /\ Started.pc = "done"
        BY DEF Started, StartStates
      <3>2. starting' = [starting EXCEPT ![s] = Started]
        BY <2>2 DEF StartLoad
      <3> QED
        BY <3>1, <3>2
    <2> QED
      BY <2>1, <2>2
  <1>3. ScenariosTypeOK'
    BY <1>1, <1>2 DEF ScenariosInv, ScenariosTypeOK
  <1>4. EditsRead' /\ EditsFollow'
    BY <1>1 DEF ScenariosInv, EditsRead, EditsFollow
  <1>5. Counted' = Counted
    BY <1>1, <1>2 DEF Counted
  <1>6. UnderCap'
    BY <1>1, <1>5 DEF ScenariosInv, UnderCap
  <1>7. CopiesRead'
    BY <1>1, <1>2 DEF ScenariosInv, CopiesRead, Loading
  <1>8. \A x \in Kept' : x \in Kept \/ (/\ scenario.status = "published"
                                        /\ x.version = scenario.version /\ x.spec = scenario.spec)
    BY <1>1, <1>2 DEF Kept, Loading
  <1>9. SnapshotsFollow'
    <2> SUFFICES ASSUME ~staleScenarioSave, ~editedRetired, NEW x \in Kept'
                 PROVE  /\ scenario.status # "draft" /\ x.version <= scenario.version
                        /\ x.version = scenario.version => x.spec = scenario.spec
                        /\ \A y \in Kept' : x.version = y.version => x.spec = y.spec
      BY <1>1 DEF SnapshotsFollow
    <2>1. \A y \in Kept : /\ scenario.status # "draft" /\ y.version <= scenario.version
                          /\ y.version = scenario.version => y.spec = scenario.spec
                          /\ \A z \in Kept : z.version = y.version => z.spec = y.spec
      BY DEF ScenariosInv, SnapshotsFollow
    <2> QED
      BY <1>1, <1>8, <2>1 DEF ScenarioRows
  <1> QED
    BY <1>3, <1>4, <1>6, <1>7, <1>9 DEF ScenariosInv

LEMMA StartCountKept ==
  ASSUME ScenariosInv, NEW s \in Starts, StartCount(s)
  PROVE  ScenariosInv'
  <1>1. /\ starting \in [Starts -> StartStates] /\ starting[s].pc = "loaded"
        /\ startsOverlapped \in BOOLEAN
        /\ startsOverlapped' =
             (startsOverlapped \/ \E t \in Starts \ {s} : starting[t].pc = "counted")
        /\ UNCHANGED <<scenario, edit, sessions, staleScenarioSave, editedRetired>>
        /\ DOMAIN sessions \subseteq Starts
    BY DEF ScenariosInv, ScenariosTypeOK, StartCount
  <1>2. Cardinality(DOMAIN sessions) \in Nat /\ DailySessions \in Nat
    BY <1>1, ScenariosAssumption, FS_Subset, FS_CardinalityType
  <1>3. PICK k \in StartStates :
          /\ starting' = [starting EXCEPT ![s] = k]
          /\ k.pc \in {"counted", "done"}
          /\ k.pc = "counted" => k.copy = starting[s].copy
                                 /\ Cardinality(DOMAIN sessions) < DailySessions
    <2>1. PICK old \in StartStates : old = starting[s]
      BY <1>1
    <2>2. CASE Cardinality(DOMAIN sessions) >= DailySessions
      <3>1. Started \in StartStates /\ Started.pc = "done"
        BY DEF Started, StartStates, NoRow
      <3>2. starting' = [starting EXCEPT ![s] = Started]
        BY <2>2 DEF StartCount
      <3> QED
        BY <3>1, <3>2
    <2>3. CASE ~(Cardinality(DOMAIN sessions) >= DailySessions)
      <3> DEFINE k == [old EXCEPT !.pc = "counted"]
      <3>1. k \in StartStates /\ k.pc = "counted" /\ k.copy = old.copy
        BY DEF StartStates
      <3>2. starting' = [starting EXCEPT ![s] = k]
        BY <2>1, <2>3 DEF StartCount
      <3> HIDE DEF k
      <3> QED
        <4>1. Cardinality(DOMAIN sessions) < DailySessions
          BY <1>2, <2>3
        <4> QED
          BY <2>1, <3>1, <3>2, <4>1
    <2> QED
      BY <2>2, <2>3
  <1>4. ScenariosTypeOK'
    BY <1>1, <1>3 DEF ScenariosInv, ScenariosTypeOK
  <1>5. EditsRead' /\ EditsFollow'
    BY <1>1 DEF ScenariosInv, EditsRead, EditsFollow
  <1>6. CopiesRead'
    BY <1>1, <1>3 DEF ScenariosInv, CopiesRead, Loading
  <1>7. Kept' \subseteq Kept
    BY <1>1, <1>3 DEF Kept, Loading
  <1>8. SnapshotsFollow'
    BY <1>1, <1>7 DEF ScenariosInv, SnapshotsFollow
  <1>9. UnderCap'
    <2> SUFFICES ASSUME ~startsOverlapped'
                 PROVE  /\ Cardinality(DOMAIN sessions) <= DailySessions
                        /\ \A p, q \in Counted' : p = q
                        /\ Counted' # {} => Cardinality(DOMAIN sessions) < DailySessions
      BY <1>1 DEF UnderCap
    <2>1. ~startsOverlapped /\ \A t \in Starts \ {s} : starting[t].pc # "counted"
      BY <1>1
    <2>2. Counted' \subseteq {s} /\ (Counted' # {} => k.pc = "counted")
      BY <1>1, <1>3, <2>1 DEF Counted
    <2> QED
      BY <1>3, <2>1, <2>2 DEF ScenariosInv, UnderCap
  <1> QED
    BY <1>4, <1>5, <1>6, <1>8, <1>9 DEF ScenariosInv

LEMMA StartInsertKept ==
  ASSUME ScenariosInv, NEW s \in Starts, StartInsert(s)
  PROVE  ScenariosInv'
  <1>1. /\ starting \in [Starts -> StartStates] /\ starting[s].pc = "counted"
        /\ UNCHANGED <<scenario, edit, staleScenarioSave, editedRetired, startsOverlapped>>
        /\ DOMAIN sessions \subseteq Starts
        /\ starting' = [starting EXCEPT ![s] = Started]
    BY DEF ScenariosInv, ScenariosTypeOK, StartInsert
  <1>2. s \in Loading /\ s \in Counted /\ starting[s].copy \in ScenarioRows
    BY <1>1 DEF Loading, Counted, ScenariosInv, CopiesRead
  <1> DEFINE new == [version |-> starting[s].copy.version, spec |-> starting[s].copy.spec]
  <1>3. new \in Snapshots /\ new \in Kept
    BY <1>2 DEF Snapshots, ScenarioRows, Kept
  <1>4. /\ DOMAIN sessions' = DOMAIN sessions \cup {s}
        /\ \A t \in DOMAIN sessions' : sessions'[t] = IF t = s THEN new ELSE sessions[t]
    BY DEF StartInsert
  <1> HIDE DEF new
  <1>5. Started \in StartStates /\ Started.pc = "done"
    BY DEF Started, StartStates
  <1>6. ScenariosTypeOK'
    BY <1>1, <1>3, <1>4, <1>5 DEF ScenariosInv, ScenariosTypeOK
  <1>7. EditsRead' /\ EditsFollow'
    BY <1>1 DEF ScenariosInv, EditsRead, EditsFollow
  <1>8. Loading' = Loading \ {s} /\ Counted' = Counted \ {s}
    BY <1>1, <1>5 DEF Loading, Counted
  <1>9. CopiesRead'
    BY <1>1, <1>8 DEF ScenariosInv, CopiesRead, Loading
  <1>10. Kept' \subseteq Kept
    BY <1>1, <1>3, <1>4, <1>8 DEF Kept, Loading
  <1>11. SnapshotsFollow'
    BY <1>1, <1>10 DEF ScenariosInv, SnapshotsFollow
  <1>12. UnderCap'
    <2> SUFFICES ASSUME ~startsOverlapped
                 PROVE  /\ Cardinality(DOMAIN sessions') <= DailySessions /\ Counted' = {}
      BY <1>1 DEF UnderCap
    <2>1. Counted' = {} /\ Cardinality(DOMAIN sessions) < DailySessions
      BY <1>2, <1>8 DEF ScenariosInv, UnderCap
    <2>2. IsFiniteSet(DOMAIN sessions) /\ Cardinality(DOMAIN sessions) \in Nat
      BY <1>1, ScenariosAssumption, FS_Subset, FS_CardinalityType
    <2>3. Cardinality(DOMAIN sessions') <= Cardinality(DOMAIN sessions) + 1
      BY <1>4, <2>2, FS_AddElement
    <2>4. Cardinality(DOMAIN sessions') \in Nat
      BY <1>4, <2>2, FS_AddElement, FS_CardinalityType
    <2> QED
      BY <2>1, <2>2, <2>3, <2>4, ScenariosAssumption
  <1> QED
    BY <1>6, <1>7, <1>9, <1>11, <1>12 DEF ScenariosInv

LEMMA ScenariosStepInv == ScenariosInv /\ [ScenariosNext]_scenarioVars => ScenariosInv'
  <1> SUFFICES ASSUME ScenariosInv, [ScenariosNext]_scenarioVars PROVE ScenariosInv'
    OBVIOUS
  <1>1. CASE UNCHANGED scenarioVars
    <2>1. UNCHANGED <<scenario, edit, starting, sessions,
                      staleScenarioSave, editedRetired, startsOverlapped>>
      BY <1>1 DEF scenarioVars
    <2>2. Loading' = Loading /\ Counted' = Counted /\ Kept' = Kept
      BY <2>1 DEF Loading, Counted, Kept
    <2> QED
      BY <2>1, <2>2 DEF ScenariosInv, ScenariosTypeOK, EditsRead, EditsFollow, CopiesRead,
                        SnapshotsFollow, UnderCap
  <1>2. ASSUME NEW e \in Edits, Edit(e) PROVE ScenariosInv'
    <2>1. CASE edit[e].pc # "selected"
      BY <1>2, <2>1, EditKept
    <2>2. CASE edit[e].pc = "selected"
      <3>1. SaveCommit(e)
        BY <1>2, <2>2 DEF Edit, UpdateScenario, AttachIntroVideo, Publish, Retire, SaveSelect
      <3> QED
        BY <3>1, SaveCommitKept
    <2> QED
      BY <2>1, <2>2
  <1>3. ASSUME NEW s \in Starts, StartSession(s) PROVE ScenariosInv'
    BY <1>3, StartLoadKept, StartCountKept, StartInsertKept DEF StartSession
  <1> QED
    BY <1>1, <1>2, <1>3 DEF ScenariosNext

LEMMA ScenariosInvSafe == ScenariosInv => VersionNamesSpec /\ SessionsCapped
  <1> SUFFICES ASSUME ScenariosInv PROVE VersionNamesSpec /\ SessionsCapped
    OBVIOUS
  <1>1. \A s \in DOMAIN sessions : sessions[s] \in Kept
    BY DEF Kept
  <1> QED
    BY <1>1 DEF ScenariosInv, SnapshotsFollow, UnderCap, VersionNamesSpec, SessionsCapped

-----------------------------------------------------------------------------
(* Media: what admins asked for stays *)

Copies == [pc: MediaPcs, base: Rows, entity: Rows]

\* The copy a request or a script is to save differs from what it was made of
\* by the column that was asked for.
CopySound(k) ==
  /\ k \in Copies
  /\ k.pc = "savingWord" =>
       /\ k.base.exists /\ k.entity.audio \in {k.base.audio, "manual"}
       /\ k.entity.approved = k.base.approved
  /\ k.pc = "savingSense" => k.base.exists /\ k.entity.image \in {k.base.image, "manual"}
  /\ k.pc = "importing" => /\ k.entity.exists /\ k.entity.approved
                           /\ k.entity.image \in {k.base.image, "manual"}
  /\ k.pc = "approving" => /\ k.base.exists /\ k.entity.approved
                           /\ k.entity.audio = k.base.audio
ScriptSound(k) ==
  /\ script[k] \in [pc: {"idle", "generating", "done"}, base: Rows]
  /\ script[k].pc = "generating" => script[k].base.exists /\ script[k].base[k] = "none"

CopiesSound ==
  /\ DOMAIN mediaCall = MediaCalls /\ \A d \in MediaCalls : CopySound(mediaCall[d])
  /\ DOMAIN script = Kinds /\ \A k \in Kinds : ScriptSound(k)

MediaInv ==
  /\ row \in Rows /\ asked \in Rows /\ staleWordSave \in BOOLEAN
  /\ CopiesSound /\ EditsKept

LEMMA SomeRows ==
  /\ NoWordRow \in Rows /\ ~NoWordRow.exists /\ ~NoWordRow.approved
  /\ NoWordRow.audio = "none" /\ NoWordRow.image = "none"
  /\ Approved \in Rows /\ Approved.exists /\ Approved.approved
  <1>1. /\ NoWordRow \in Rows /\ ~NoWordRow.exists /\ ~NoWordRow.approved
        /\ NoWordRow.audio = "none" /\ NoWordRow.image = "none"
    BY DEF NoWordRow, Rows, Urls
  <1>2. PICK r \in Rows : r = NoWordRow
    BY <1>1
  <1>3. /\ [r EXCEPT !.exists = TRUE, !.approved = TRUE] \in Rows
        /\ [r EXCEPT !.exists = TRUE, !.approved = TRUE].exists
        /\ [r EXCEPT !.exists = TRUE, !.approved = TRUE].approved
    BY DEF Rows
  <1> QED
    BY <1>1, <1>2, <1>3 DEF Approved

\* A row with one column, or two, given.
LEMMA RowFields ==
  ASSUME NEW r \in Rows
  PROVE  r.audio \in Urls /\ r.image \in Urls
  BY DEF Rows

LEMMA RowWithAudio ==
  ASSUME NEW r \in Rows, NEW url \in Urls, NEW q, q = [r EXCEPT !.audio = url]
  PROVE  /\ q \in Rows /\ q.exists = r.exists /\ q.approved = r.approved
         /\ q.audio = url /\ q.image = r.image
  BY DEF Rows

LEMMA RowWithImage ==
  ASSUME NEW r \in Rows, NEW url \in Urls, NEW q, q = [r EXCEPT !.image = url]
  PROVE  /\ q \in Rows /\ q.exists = r.exists /\ q.approved = r.approved
         /\ q.audio = r.audio /\ q.image = url
  BY DEF Rows

LEMMA RowApproved ==
  ASSUME NEW r \in Rows, NEW q, q = [r EXCEPT !.approved = TRUE]
  PROVE  /\ q \in Rows /\ q.exists = r.exists /\ q.approved
         /\ q.audio = r.audio /\ q.image = r.image
  BY DEF Rows

LEMMA RowInserted ==
  ASSUME NEW r \in Rows, NEW url \in Urls
  PROVE  \E q \in Rows :
           /\ q = [r EXCEPT !.exists = TRUE, !.image = url]
           /\ q.exists /\ q.approved = r.approved /\ q.audio = r.audio /\ q.image = url
  <1>0. PICK p : p = [r EXCEPT !.exists = TRUE]
    OBVIOUS
  <1>1. p \in Rows /\ p.exists /\ p.approved = r.approved /\ p.audio = r.audio
    BY <1>0 DEF Rows
  <1>2. PICK q : q = [p EXCEPT !.image = url]
    OBVIOUS
  <1>3. /\ q \in Rows /\ q.exists = p.exists /\ q.approved = p.approved
        /\ q.audio = p.audio /\ q.image = url
    BY ZenonT(30), <1>1, <1>2, RowWithImage
  <1>4. q = [r EXCEPT !.exists = TRUE, !.image = url]
    BY <1>0, <1>1, <1>2 DEF Rows
  <1> QED
    BY <1>1, <1>3, <1>4

LEMMA SavedRows ==
  ASSUME NEW r \in Rows, row \in Rows
  PROVE  /\ WordSaved(r) \in Rows /\ WordSaved(r).exists /\ WordSaved(r).approved = r.approved
         /\ WordSaved(r).audio = r.audio
         /\ WordSaved(r).image = IF row.exists THEN row.image ELSE "none"
         /\ SenseSaved(r) \in Rows /\ SenseSaved(r).exists = row.exists
         /\ SenseSaved(r).approved = row.approved /\ SenseSaved(r).audio = row.audio
         /\ SenseSaved(r).image = IF row.exists THEN r.image ELSE row.image
  <1>1. PICK now \in Rows : now = row
    OBVIOUS
  <1>2. PICK url \in Urls : url = IF now.exists THEN now.image ELSE "none"
    BY DEF Rows, Urls
  <1>3. WordSaved(r) = [r EXCEPT !.exists = TRUE, !.image = url]
    BY <1>1, <1>2 DEF WordSaved
  <1>4. PICK own \in Urls : own = r.image
    BY DEF Rows
  <1>5. SenseSaved(r) = IF now.exists THEN [now EXCEPT !.image = own] ELSE now
    BY <1>1, <1>4 DEF SenseSaved
  <1>6. /\ WordSaved(r) \in Rows /\ WordSaved(r).exists /\ WordSaved(r).approved = r.approved
        /\ WordSaved(r).audio = r.audio /\ WordSaved(r).image = url
    <2>1. PICK q \in Rows :
            /\ q = [r EXCEPT !.exists = TRUE, !.image = url]
            /\ q.exists /\ q.approved = r.approved /\ q.audio = r.audio /\ q.image = url
      BY RowInserted
    <2>2. WordSaved(r) = q
      BY <1>3, <2>1
    <2> QED
      BY <2>1, <2>2
  <1>7. CASE now.exists
    <2>1. SenseSaved(r) = [now EXCEPT !.image = own]
      BY <1>5, <1>7
    <2>2. /\ SenseSaved(r) \in Rows /\ SenseSaved(r).exists = now.exists
          /\ SenseSaved(r).approved = now.approved /\ SenseSaved(r).audio = now.audio
          /\ SenseSaved(r).image = own
      BY <2>1, RowWithImage
    <2> QED
      BY <1>1, <1>2, <1>4, <1>6, <1>7, <2>2
  <1>8. CASE ~now.exists
    <2>1. SenseSaved(r) = now
      BY <1>5, <1>8
    <2> QED
      BY <1>1, <1>2, <1>6, <1>8, <2>1
  <1> QED
    BY <1>7, <1>8

LEMMA MediaInitInv == MediaInit => MediaInv
  <1> SUFFICES ASSUME MediaInit PROVE MediaInv
    OBVIOUS
  <1>1. row \in Rows
    <2>1. PICK r \in Rows : r = NoWordRow
      BY SomeRows
    <2>2. [r EXCEPT !.exists = TRUE] \in Rows
      BY DEF Rows
    <2>3. [exists: {TRUE}, approved: {TRUE}, audio: {"none", "manual"}, image: {"none"}] \subseteq Rows
      BY DEF Rows, Urls
    <2> QED
      BY <2>1, <2>2, <2>3 DEF MediaInit
  <1>2. MediaIdle.pc = "idle" /\ CopySound(MediaIdle)
    BY SomeRows DEF MediaIdle, CopySound, Copies, MediaPcs
  <1>3. CopiesSound
    BY <1>2, SomeRows DEF MediaInit, CopiesSound, ScriptSound
  <1>4. EditsKept
    BY DEF MediaInit, EditsKept
  <1> QED
    BY <1>1, <1>3, <1>4 DEF MediaInv, MediaInit

\* A step that keeps the rows.
LEMMA MediaReadsKept ==
  ASSUME MediaInv, UNCHANGED <<row, asked, staleWordSave>>, CopiesSound'
  PROVE  MediaInv'
  BY DEF MediaInv, EditsKept

\* A request moves on to k.
LEMMA CopiesKept ==
  ASSUME CopiesSound, NEW d \in MediaCalls, NEW k, CopySound(k),
         mediaCall' = [mediaCall EXCEPT ![d] = k], UNCHANGED script
  PROVE  CopiesSound'
  <1>1. DOMAIN mediaCall' = MediaCalls /\ \A e \in MediaCalls : CopySound(mediaCall'[e])
    BY DEF CopiesSound
  <1>2. \A e \in MediaCalls : CopySound(mediaCall[e])'
    BY <1>1 DEF CopySound
  <1> QED
    BY <1>1, <1>2 DEF CopiesSound, ScriptSound

LEMMA MediaEndsKept ==
  ASSUME CopiesSound, NEW d \in MediaCalls, MediaEnds(d), UNCHANGED script
  PROVE  CopiesSound'
  <1> DEFINE k == [MediaIdle EXCEPT !.pc = "done"]
  <1>1. k.pc = "done" /\ k \in Copies
    BY SomeRows DEF MediaIdle, Copies, MediaPcs
  <1>2. mediaCall' = [mediaCall EXCEPT ![d] = k]
    BY DEF MediaEnds
  <1> HIDE DEF k
  <1>3. CopySound(k)
    BY <1>1 DEF CopySound
  <1> QED
    BY <1>2, <1>3, CopiesKept

\* The steps of a request that only reads, and of one that enqueues.
LEMMA AdminReadsKept ==
  ASSUME MediaInv, NEW d \in MediaCalls,
         PatchWord(d) \/ PatchSense(d) \/ Import(d) \/ Approve(d) \/ EnqueueMedia(d)
  PROVE  MediaInv'
  <1>1. /\ UNCHANGED <<row, asked, staleWordSave, script>> /\ CopiesSound /\ row \in Rows
    BY DEF MediaInv, PatchWord, PatchSense, Import, Approve, EnqueueMedia, OnlyMediaCalls, background
  <1>2. CASE MediaEnds(d)
    BY <1>1, <1>2, MediaEndsKept, MediaReadsKept
  <1>3. ASSUME NEW pc \in MediaPcs, NEW entity \in Rows, Loads(d, pc, entity),
               \A k \in Copies : k.pc = pc /\ k.base = row /\ k.entity = entity => CopySound(k)
        PROVE  MediaInv'
    <2> DEFINE k == [pc |-> pc, base |-> row, entity |-> entity]
    <2>1. mediaCall' = [mediaCall EXCEPT ![d] = k]
      BY <1>3 DEF Loads
    <2>2. CopySound(k)
      BY <1>1, <1>3 DEF Copies
    <2> HIDE DEF k
    <2> QED
      BY <1>1, <2>1, <2>2, CopiesKept, MediaReadsKept
  <1>4. PICK now \in Rows : now = row
    BY <1>1
  <1>5. CASE PatchWord(d) /\ ~MediaEnds(d)
    <2>1. PICK url \in {now.audio, "manual"} : Loads(d, "savingWord", [now EXCEPT !.audio = url])
      BY <1>4, <1>5 DEF PatchWord
    <2>2. now.exists /\ url \in Urls
      BY <1>4, <1>5 DEF PatchWord, Rows, Urls
    <2>3. PICK e : e = [now EXCEPT !.audio = url]
      OBVIOUS
    <2>4. e \in Rows /\ e.audio = url /\ e.approved = now.approved
      BY <2>2, <2>3, RowWithAudio
    <2>5. \A k \in Copies : k.pc = "savingWord" /\ k.base = row /\ k.entity = e => CopySound(k)
      BY <1>4, <2>1, <2>2, <2>4 DEF CopySound
    <2> QED
      BY <1>3, <2>1, <2>3, <2>4, <2>5 DEF MediaPcs
  <1>6. CASE PatchSense(d) /\ ~MediaEnds(d)
    <2>1. PICK url \in {now.image, "manual"} : Loads(d, "savingSense", [now EXCEPT !.image = url])
      BY <1>4, <1>6 DEF PatchSense
    <2>2. now.exists /\ url \in Urls
      BY <1>4, <1>6 DEF PatchSense, Rows, Urls
    <2>3. PICK e \in Rows : e = [now EXCEPT !.image = url] /\ e.image = url
      BY ZenonT(30), <2>2, RowWithImage
    <2>4. \A k \in Copies : k.pc = "savingSense" /\ k.base = row /\ k.entity = e => CopySound(k)
      BY <1>4, <2>1, <2>2, <2>3 DEF CopySound
    <2> QED
      BY <1>3, <2>1, <2>3, <2>4 DEF MediaPcs
  <1>7. CASE Import(d)
    <2>1. PICK audio \in {"none", "manual"}, image \in {now.image, "manual"} :
            Loads(d, "importing", [Approved EXCEPT !.audio = audio, !.image = image])
      BY <1>4, <1>7 DEF Import
    <2>2. audio \in Urls /\ image \in Urls
      BY DEF Rows, Urls
    <2>3. PICK e \in Rows : /\ e = [Approved EXCEPT !.audio = audio, !.image = image]
                            /\ e.exists /\ e.approved /\ e.image = image
      <3>1. PICK q \in Rows : q = Approved /\ q.exists /\ q.approved
        BY SomeRows
      <3>2. [q EXCEPT !.audio = audio, !.image = image] \in Rows
        BY <2>2 DEF Rows
      <3>3. /\ [q EXCEPT !.audio = audio, !.image = image].exists = q.exists
            /\ [q EXCEPT !.audio = audio, !.image = image].approved = q.approved
            /\ [q EXCEPT !.audio = audio, !.image = image].image = image
        BY DEF Rows
      <3> QED
        BY <3>1, <3>2, <3>3
    <2>4. \A k \in Copies : k.pc = "importing" /\ k.base = row /\ k.entity = e => CopySound(k)
      BY <1>4, <2>1, <2>3 DEF CopySound
    <2> QED
      BY <1>3, <2>1, <2>3, <2>4 DEF MediaPcs
  <1>8. CASE Approve(d) /\ ~MediaEnds(d)
    <2>1. PICK pc \in {"enqueueing", "approving"} : Loads(d, pc, [now EXCEPT !.approved = TRUE])
      BY <1>4, <1>8 DEF Approve
    <2>2. now.exists
      BY <1>4, <1>8 DEF Approve
    <2>3. PICK e \in Rows : /\ e = [now EXCEPT !.approved = TRUE] /\ e.approved
                            /\ e.audio = now.audio
      BY RowApproved
    <2>4. \A k \in Copies : k.pc = pc /\ k.base = row /\ k.entity = e => CopySound(k)
      BY <1>4, <2>2, <2>3 DEF CopySound
    <2>5. pc \in MediaPcs
      BY DEF MediaPcs
    <2> QED
      BY <1>3, <2>1, <2>3, <2>4, <2>5
  <1>9. CASE EnqueueMedia(d)
    BY <1>2, <1>9 DEF EnqueueMedia
  <1> QED
    BY <1>2, <1>5, <1>6, <1>7, <1>8, <1>9

LEMMA AdminSavesKept ==
  ASSUME MediaInv, NEW d \in MediaCalls,
         PatchWordSave(d) \/ PatchSenseSave(d) \/ ImportSave(d) \/ ApproveSave(d)
  PROVE  MediaInv'
  <1>1. /\ CopiesSound /\ row \in Rows /\ asked \in Rows /\ staleWordSave \in BOOLEAN
        /\ CopySound(mediaCall[d]) /\ EditsKept
        /\ UNCHANGED script
    BY DEF MediaInv, CopiesSound, PatchWordSave, PatchSenseSave, ImportSave, ApproveSave, background
  <1>2. PICK base \in Rows, entity \in Rows : base = mediaCall[d].base /\ entity = mediaCall[d].entity
    BY <1>1 DEF CopySound, Copies
  <1>3. PICK now \in Rows, want \in Rows : now = row /\ want = asked
    BY <1>1
  <1>4. CASE UNCHANGED <<row, asked, staleWordSave>> /\ MediaEnds(d)
    BY <1>1, <1>4, MediaEndsKept, MediaReadsKept
  <1>5. ASSUME NEW r \in Rows, Saved(r, base), NEW w \in Rows, asked' = w, CopiesSound',
               ~staleWordSave /\ (r = now \/ now = base) =>
                 /\ r.exists = w.exists /\ r.approved = w.approved
                 /\ w.audio = "manual" => r.audio = "manual"
                 /\ w.image = "manual" => r.image = "manual"
        PROVE  MediaInv'
    <2>1. row' = r /\ staleWordSave' = (staleWordSave \/ (r # now /\ now # base))
      BY <1>3, <1>5 DEF Saved
    <2>2. EditsKept'
      BY <1>5, <2>1 DEF EditsKept, Kinds
    <2> QED
      BY <1>1, <1>5, <2>1, <2>2 DEF MediaInv
  <1>6. ~staleWordSave =>
          /\ now.exists = want.exists /\ now.approved = want.approved
          /\ want.audio = "manual" => now.audio = "manual"
          /\ want.image = "manual" => now.image = "manual"
    BY <1>1, <1>3 DEF EditsKept, Kinds
  <1>7. CASE PatchWordSave(d)
    <2>1. /\ base.exists /\ entity.audio \in {base.audio, "manual"}
          /\ entity.approved = base.approved
      BY <1>1, <1>2, <1>7 DEF PatchWordSave, MediaAt, CopySound
    <2>2. PICK r : r = WordSaved(entity)
      OBVIOUS
    <2>3. /\ r \in Rows /\ r.exists /\ r.approved = entity.approved /\ r.audio = entity.audio
          /\ r.image = IF now.exists THEN now.image ELSE "none"
      BY <1>1, <1>3, <2>2, SavedRows
    <2>4. PICK w : w = IF entity.audio # base.audio THEN [want EXCEPT !.audio = "manual"] ELSE want
      OBVIOUS
    <2>5. /\ w \in Rows /\ w.exists = want.exists /\ w.approved = want.approved
          /\ w.image = want.image
          /\ w.audio = IF entity.audio # base.audio THEN "manual" ELSE want.audio
      BY <2>4, RowWithAudio, RowFields DEF Urls
    <2>6. Saved(r, base) /\ asked' = w
      BY <1>2, <1>3, <1>7, <2>2, <2>4 DEF PatchWordSave
    <2>7. CopiesSound'
      BY <1>1, <1>7, MediaEndsKept DEF PatchWordSave
    <2>8. ~staleWordSave /\ (r = now \/ now = base) =>
            /\ r.exists = w.exists /\ r.approved = w.approved
            /\ w.audio = "manual" => r.audio = "manual"
            /\ w.image = "manual" => r.image = "manual"
      BY <1>6, <2>1, <2>3, <2>5
    <2> QED
      BY <1>5, <2>3, <2>5, <2>6, <2>7, <2>8
  <1>8. CASE PatchSenseSave(d)
    <2>1. base.exists /\ entity.image \in {base.image, "manual"}
      BY <1>1, <1>2, <1>8 DEF PatchSenseSave, MediaAt, CopySound
    <2>2. PICK r : r = SenseSaved(entity)
      OBVIOUS
    <2>3. /\ r \in Rows /\ r.exists = now.exists /\ r.approved = now.approved /\ r.audio = now.audio
          /\ r.image = IF now.exists THEN entity.image ELSE now.image
      BY <1>1, <1>3, <2>2, SavedRows
    <2>4. PICK w : w = IF now.exists /\ entity.image # base.image
                       THEN [want EXCEPT !.image = "manual"] ELSE want
      OBVIOUS
    <2>5. /\ w \in Rows /\ w.exists = want.exists /\ w.approved = want.approved
          /\ w.audio = want.audio
          /\ w.image = IF now.exists /\ entity.image # base.image THEN "manual" ELSE want.image
      BY <2>4, RowWithImage, RowFields DEF Urls
    <2>6. Saved(r, base) /\ asked' = w
      BY <1>2, <1>3, <1>8, <2>2, <2>4 DEF PatchSenseSave
    <2>7. CopiesSound'
      BY <1>1, <1>8, MediaEndsKept DEF PatchSenseSave
    <2>8. ~staleWordSave /\ (r = now \/ now = base) =>
            /\ r.exists = w.exists /\ r.approved = w.approved
            /\ w.audio = "manual" => r.audio = "manual"
            /\ w.image = "manual" => r.image = "manual"
      BY <1>6, <2>1, <2>3, <2>5
    <2> QED
      BY <1>5, <2>3, <2>5, <2>6, <2>7, <2>8
  <1>9. CASE ImportSave(d)
    <2>0. /\ entity.exists /\ entity.approved /\ entity.image \in {base.image, "manual"}
      BY <1>1, <1>2, <1>9 DEF ImportSave, MediaAt, CopySound
    <2>1. PICK url \in Urls : url = IF entity.image # base.image THEN entity.image ELSE want.image
      BY RowFields
    <2>2. PICK w : w = [entity EXCEPT !.image = url]
      OBVIOUS
    <2>3. /\ w \in Rows /\ w.exists = entity.exists /\ w.approved = entity.approved
          /\ w.audio = entity.audio /\ w.image = url
      BY <2>2, RowWithImage
    <2>4. ASSUME Saved(entity, base), asked' = w, CopiesSound'
          PROVE  MediaInv'
      <3>1. ~staleWordSave /\ (entity = now \/ now = base) =>
              /\ entity.exists = w.exists /\ entity.approved = w.approved
              /\ w.audio = "manual" => entity.audio = "manual"
              /\ w.image = "manual" => entity.image = "manual"
        BY <1>6, <2>0, <2>1, <2>3
      <3> QED
        BY <1>5, <2>3, <2>4, <3>1
    <2>5. CASE ~base.exists /\ row.exists
      BY <1>2, <1>4, <1>9, <2>5 DEF ImportSave
    <2>6. CASE ~(~base.exists /\ row.exists)
      <3>1. Saved(entity, base) /\ asked' = w
        BY <1>2, <1>3, <1>9, <2>1, <2>2, <2>6 DEF ImportSave
      <3>2. CASE MediaEnds(d)
        BY <1>1, <2>4, <3>1, <3>2, MediaEndsKept
      <3>3. CASE ~MediaEnds(d)
        <4>1. PICK k : k = [MediaIdle EXCEPT !.pc = "voicing", !.entity = entity]
          OBVIOUS
        <4>2. k.pc = "voicing" /\ k \in Copies
          BY <4>1, SomeRows DEF MediaIdle, Copies, MediaPcs
        <4>3. mediaCall' = [mediaCall EXCEPT ![d] = k]
          BY <1>2, <1>9, <2>6, <3>3, <4>1 DEF ImportSave
        <4> QED
          BY <1>1, <2>4, <3>1, <4>2, <4>3, CopiesKept DEF CopySound
      <3> QED
        BY <3>2, <3>3
    <2> QED
      BY <2>5, <2>6
  <1>10. CASE ApproveSave(d)
    <2>1. base.exists /\ entity.approved /\ entity.audio = base.audio
      BY <1>1, <1>2, <1>10 DEF ApproveSave, MediaAt, CopySound
    <2>2. PICK r : r = WordSaved(entity)
      OBVIOUS
    <2>3. /\ r \in Rows /\ r.exists /\ r.approved = entity.approved /\ r.audio = entity.audio
          /\ r.image = IF now.exists THEN now.image ELSE "none"
      BY <1>1, <1>3, <2>2, SavedRows
    <2>4. PICK w : w = [want EXCEPT !.approved = TRUE]
      OBVIOUS
    <2>5. /\ w \in Rows /\ w.exists = want.exists /\ w.approved
          /\ w.audio = want.audio /\ w.image = want.image
      BY <2>4, RowApproved
    <2>6. Saved(r, base) /\ asked' = w
      BY <1>2, <1>3, <1>10, <2>2, <2>4 DEF ApproveSave
    <2>7. CopiesSound'
      <3>1. PICK k \in Copies : k = mediaCall[d]
        BY <1>1 DEF CopySound
      <3>2. PICK e : e = [k EXCEPT !.pc = "enqueueing", !.base = NoWordRow]
        OBVIOUS
      <3>3. e.pc = "enqueueing" /\ e \in Copies
        BY <3>2, SomeRows DEF Copies, MediaPcs
      <3>4. mediaCall' = [mediaCall EXCEPT ![d] = e]
        BY <1>10, <3>1, <3>2 DEF ApproveSave
      <3> QED
        BY <1>1, <3>3, <3>4, CopiesKept DEF CopySound
    <2>8. ~staleWordSave /\ (r = now \/ now = base) =>
            /\ r.exists = w.exists /\ r.approved = w.approved
            /\ w.audio = "manual" => r.audio = "manual"
            /\ w.image = "manual" => r.image = "manual"
      BY <1>6, <2>1, <2>3, <2>5
    <2> QED
      BY <1>5, <2>3, <2>5, <2>6, <2>7, <2>8
  <1> QED
    BY <1>7, <1>8, <1>9, <1>10

\* A row with the column of a queue given.
LEMMA RowFilled ==
  ASSUME NEW r \in Rows, NEW k \in Kinds, NEW url \in Urls
  PROVE  \E q \in Rows :
           /\ q = [r EXCEPT ![k] = url] /\ q.exists = r.exists /\ q.approved = r.approved
           /\ q.audio = IF k = "audio" THEN url ELSE r.audio
           /\ q.image = IF k = "image" THEN url ELSE r.image
  <1>1. CASE k = "audio"
    <2>1. PICK q : q = [r EXCEPT !.audio = url]
      OBVIOUS
    <2>2. /\ q \in Rows /\ q.exists = r.exists /\ q.approved = r.approved
          /\ q.audio = url /\ q.image = r.image
      BY <2>1, RowWithAudio
    <2>3. q = [r EXCEPT ![k] = url]
      BY <1>1, <2>1
    <2> QED
      BY <1>1, <2>2, <2>3
  <1>2. CASE k = "image"
    <2>1. PICK q : q = [r EXCEPT !.image = url]
      OBVIOUS
    <2>2. /\ q \in Rows /\ q.exists = r.exists /\ q.approved = r.approved
          /\ q.image = url /\ q.audio = r.audio
      BY <2>1, RowWithImage
    <2>3. q = [r EXCEPT ![k] = url]
      BY <1>2, <2>1
    <2> QED
      BY <1>2, <2>2, <2>3
  <1> QED
    BY <1>1, <1>2 DEF Kinds

LEMMA WorkersKept ==
  ASSUME MediaInv, NEW k \in Kinds,
         WorkerStart(k) \/ WorkerStore(k) \/ NoMatch \/ GenerationFails(k)
  PROVE  MediaInv'
  <1>1. /\ CopiesSound /\ row \in Rows /\ asked \in Rows /\ staleWordSave \in BOOLEAN
        /\ EditsKept /\ UNCHANGED <<mediaCall, script, asked, staleWordSave>>
    BY DEF MediaInv, WorkerStart, WorkerStore, NoMatch, GenerationFails, OnlyWorkers
  <1>2. CopiesSound'
    BY <1>1 DEF CopiesSound, CopySound, ScriptSound
  <1>3. CASE UNCHANGED row
    BY <1>1, <1>2, <1>3, MediaReadsKept
  <1>4. CASE WorkerStore(k)
    <2>1. PICK now \in Rows : now = row
      BY <1>1
    <2>2. CASE ~(now.exists /\ now[k] = "none")
      BY <1>3, <1>4, <2>1, <2>2 DEF WorkerStore, Filled
    <2>3. CASE now.exists /\ now[k] = "none"
      <3>1. PICK r \in Rows :
              /\ r = [now EXCEPT ![k] = "made"]
              /\ r.exists = now.exists /\ r.approved = now.approved
              /\ r.audio = IF k = "audio" THEN "made" ELSE now.audio
              /\ r.image = IF k = "image" THEN "made" ELSE now.image
        <4>1. "made" \in Urls
          BY DEF Urls
        <4> QED
          BY <4>1, RowFilled
      <3>2. row' = r
        BY <1>4, <2>1, <2>3, <3>1 DEF WorkerStore, Filled
      <3>4. /\ k = "audio" => now.audio = "none"
            /\ k = "image" => now.image = "none"
        BY <2>3
      <3>5. EditsKept'
        BY <1>1, <2>1, <3>1, <3>2, <3>4 DEF EditsKept, Kinds
      <3> QED
        BY <1>1, <1>2, <3>1, <3>2, <3>5 DEF MediaInv
    <2> QED
      BY <2>2, <2>3
  <1> QED
    BY <1>3, <1>4 DEF WorkerStart, NoMatch, GenerationFails

LEMMA ScriptsKept ==
  ASSUME MediaInv, NEW k \in Kinds,
         BackfillRead(k) \/ BackfillSave(k) \/ BackfillSkip(k)
  PROVE  MediaInv'
  <1>1. /\ CopiesSound /\ row \in Rows /\ asked \in Rows /\ staleWordSave \in BOOLEAN
        /\ EditsKept /\ ScriptSound(k)
        /\ UNCHANGED <<mediaCall, asked>>
    BY DEF MediaInv, CopiesSound, BackfillRead, BackfillSave, BackfillSkip, OnlyScripts
  <1>2. ASSUME NEW pc \in {"generating", "done"}, NEW base \in Rows,
               script' = [script EXCEPT ![k] = [pc |-> pc, base |-> base]],
               pc = "generating" => base.exists /\ base[k] = "none"
        PROVE  CopiesSound'
    <2>1. /\ DOMAIN script' = Kinds
          /\ \A j \in Kinds : script'[j] = IF j = k THEN [pc |-> pc, base |-> base] ELSE script[j]
      BY <1>1, <1>2 DEF CopiesSound
    <2>2. \A j \in Kinds : ScriptSound(j)'
      BY <1>1, <1>2, <2>1 DEF CopiesSound, ScriptSound
    <2> QED
      BY <1>1, <2>1, <2>2 DEF CopiesSound, CopySound
  <1>3. CASE BackfillRead(k)
    <2>1. PICK pc \in {"generating", "done"} :
            /\ script' = [script EXCEPT ![k] = [pc |-> pc, base |-> row]]
            /\ pc = "generating" => row.exists /\ row[k] = "none"
      BY <1>3 DEF BackfillRead
    <2> QED
      BY <1>1, <1>2, <1>3, <2>1, MediaReadsKept DEF BackfillRead
  <1>4. CASE BackfillSkip(k)
    BY <1>2, <1>4, SomeRows, <1>1, MediaReadsKept DEF BackfillSkip
  <1>5. CASE BackfillSave(k)
    <2>1. CopiesSound'
      BY <1>2, <1>5, SomeRows DEF BackfillSave
    <2>2. PICK base \in Rows : base = script[k].base /\ base.exists /\ base[k] = "none"
      BY <1>1, <1>5 DEF BackfillSave, ScriptSound
    <2>3. PICK now \in Rows, want \in Rows : now = row /\ want = asked
      BY <1>1
    <2>4. PICK e \in Rows :
            /\ e = [base EXCEPT ![k] = "made"]
            /\ e.exists = base.exists /\ e.approved = base.approved
            /\ e.audio = IF k = "audio" THEN "made" ELSE base.audio
            /\ e.image = IF k = "image" THEN "made" ELSE base.image
      <3>1. "made" \in Urls
        BY DEF Urls
      <3> QED
        BY <3>1, RowFilled
    <2>6. PICK r : r = IF k = "audio" THEN WordSaved(e) ELSE SenseSaved(e)
      OBVIOUS
    <2>7. row' = r /\ staleWordSave' = (staleWordSave \/ (r # now /\ now # base))
      BY <1>5, <2>2, <2>3, <2>4, <2>6 DEF BackfillSave, Saved
    <2>8. r \in Rows
      BY <1>1, <2>4, <2>6, SavedRows
    <2>9. ASSUME now = base
          PROVE  /\ r.exists = now.exists /\ r.approved = now.approved
                 /\ now.audio = "manual" => r.audio = "manual"
                 /\ now.image = "manual" => r.image = "manual"
      <3>1. CASE k = "audio"
        <4>1. /\ r.exists /\ r.approved = e.approved /\ r.audio = e.audio
              /\ r.image = IF now.exists THEN now.image ELSE "none"
          BY <1>1, <2>3, <2>4, <2>6, <3>1, SavedRows
        <4>2. now.audio = "none"
          BY <2>2, <2>9, <3>1
        <4> QED
          BY <2>2, <2>4, <2>9, <3>1, <4>1, <4>2
      <3>2. CASE k = "image"
        <4>1. /\ r.exists = now.exists /\ r.approved = now.approved /\ r.audio = now.audio
          BY <1>1, <2>3, <2>4, <2>6, <3>2, SavedRows
        <4>2. now.image = "none"
          BY <2>2, <2>9, <3>2
        <4> QED
          BY <4>1, <4>2
      <3> QED
        BY <3>1, <3>2 DEF Kinds
    <2>10. EditsKept'
      BY <1>1, <2>3, <2>7, <2>9 DEF EditsKept, Kinds
    <2> QED
      BY <1>1, <2>1, <2>7, <2>8, <2>10 DEF MediaInv
  <1> QED
    BY <1>3, <1>4, <1>5

LEMMA MediaStepInv == MediaInv /\ [MediaNext]_mediaVars => MediaInv'
  <1> SUFFICES ASSUME MediaInv, [MediaNext]_mediaVars PROVE MediaInv'
    OBVIOUS
  <1>1. CASE UNCHANGED mediaVars
    BY <1>1 DEF mediaVars, MediaInv, CopiesSound, CopySound, ScriptSound, EditsKept
  <1>2. CASE RemoveWord
    <2>1. CopiesSound'
      BY <1>2 DEF RemoveWord, background, MediaInv, CopiesSound, CopySound, ScriptSound
    <2>2. EditsKept'
      BY <1>2, SomeRows DEF RemoveWord, EditsKept, Kinds
    <2> QED
      BY <1>2, <2>1, <2>2, SomeRows DEF RemoveWord, MediaInv
  <1>3. CASE NoMatch
    BY <1>3, WorkersKept DEF Kinds
  <1> QED
    BY <1>1, <1>2, <1>3, AdminReadsKept, AdminSavesKept, WorkersKept, ScriptsKept DEF MediaNext

\* The queues: a job that waits or runs has a try left, a worker has its job.
QueuesSound ==
  /\ mediaJob \in [Kinds -> [state: {"none", "waiting", "active", "failed"}, tries: 0..MediaTries]]
  /\ worker \in [Kinds -> {"idle", "generating"}] /\ mediaFaults \in 0..MaxMediaFaults
  /\ \A k \in Kinds : /\ mediaJob[k].state \in {"waiting", "active"} => mediaJob[k].tries < MediaTries
                      /\ worker[k] = "generating" => mediaJob[k].state = "active"

MediaShaped ==
  /\ mediaCall = [d \in MediaCalls |-> mediaCall[d]] /\ script = [k \in Kinds |-> script[k]]
  /\ QueuesSound

LEMMA MediaTyped == MediaInv /\ MediaShaped => MediaTypeOK
  <1> SUFFICES ASSUME MediaInv, MediaShaped PROVE MediaTypeOK
    OBVIOUS
  <1>1. \A d \in MediaCalls : mediaCall[d] \in Copies
    BY DEF MediaInv, CopiesSound, CopySound
  <1>2. mediaCall \in [MediaCalls -> [pc: MediaPcs, base: Rows, entity: Rows]]
    BY <1>1 DEF MediaShaped, Copies
  <1>3. \A k \in Kinds : script[k] \in [pc: {"idle", "generating", "done"}, base: Rows]
    BY DEF MediaInv, CopiesSound, ScriptSound
  <1>4. script \in [Kinds -> [pc: {"idle", "generating", "done"}, base: Rows]]
    BY <1>3 DEF MediaShaped
  <1> QED
    BY <1>2, <1>4 DEF MediaInv, MediaShaped, QueuesSound, MediaTypeOK

LEMMA MediaInitShaped == MediaInit => MediaShaped
  <1> SUFFICES ASSUME MediaInit PROVE MediaShaped
    OBVIOUS
  <1>1. /\ mediaCall = [d \in MediaCalls |-> MediaIdle]
        /\ mediaJob = [k \in Kinds |-> [state |-> "none", tries |-> 0]]
        /\ worker = [k \in Kinds |-> "idle"]
        /\ script = [k \in Kinds |-> [pc |-> "idle", base |-> NoWordRow]]
        /\ mediaFaults = 0
    BY DEF MediaInit
  <1>2. MediaTries \in Nat \ {0} /\ MaxMediaFaults \in Nat
    BY MediaAssumption DEF MediaAssumption
  <1>3. QueuesSound
    BY <1>1, <1>2 DEF QueuesSound
  <1> QED
    BY <1>1, <1>3 DEF MediaShaped

LEMMA QueueWritten ==
  ASSUME QueuesSound, NEW k \in Kinds, NEW st \in {"none", "waiting", "active", "failed"}, NEW n \in 0..MediaTries,
         st \in {"waiting", "active"} => n < MediaTries,
         mediaJob' = [mediaJob EXCEPT ![k] = [state |-> st, tries |-> n]],
         NEW at \in {"idle", "generating"}, worker' = [worker EXCEPT ![k] = at], at = "generating" => st = "active",
         mediaFaults' \in 0..MaxMediaFaults
  PROVE  QueuesSound'
  <1>1. [state |-> st, tries |-> n] \in [state: {"none", "waiting", "active", "failed"}, tries: 0..MediaTries]
    OBVIOUS
  <1>2. PICK job : job = [state |-> st, tries |-> n]
    OBVIOUS
  <1>3. job.state = st /\ job.tries = n
    BY <1>2
  <1>4. /\ mediaJob' \in [Kinds -> [state: {"none", "waiting", "active", "failed"}, tries: 0..MediaTries]]
        /\ worker' \in [Kinds -> {"idle", "generating"}]
        /\ mediaJob'[k] = job /\ worker'[k] = at
        /\ \A l \in Kinds : l # k => mediaJob'[l] = mediaJob[l] /\ worker'[l] = worker[l]
    BY <1>1, <1>2 DEF QueuesSound
  <1> QED
    BY <1>3, <1>4 DEF QueuesSound

LEMMA WorkersShaped ==
  ASSUME MediaShaped, NEW k \in Kinds, WorkerStart(k) \/ WorkerStore(k) \/ GenerationFails(k)
  PROVE  MediaShaped'
  <1>1. mediaCall' = mediaCall /\ script' = script
    BY DEF WorkerStart, WorkerStore, GenerationFails, OnlyWorkers
  <1>2. QueuesSound /\ mediaJob[k].tries \in 0..MediaTries /\ worker[k] \in {"idle", "generating"}
        /\ mediaFaults \in 0..MaxMediaFaults /\ MediaTries \in Nat \ {0} /\ MaxMediaFaults \in Nat
        /\ DOMAIN mediaJob[k] = {"state", "tries"}
    BY MediaAssumption DEF MediaShaped, QueuesSound, MediaAssumption
  <1>3. worker = [worker EXCEPT ![k] = worker[k]]
    BY DEF MediaShaped, QueuesSound
  <1>4. CASE Completed(k) /\ mediaFaults' = mediaFaults /\ \E at \in {"idle"} : worker' = [worker EXCEPT ![k] = at]
    <2>1. mediaJob' = [mediaJob EXCEPT ![k] = [state |-> "none", tries |-> 0]] /\ 0 \in 0..MediaTries
      BY <1>2, <1>4 DEF Completed
    <2>2. QueuesSound'
      BY <1>2, <1>4, <2>1, QueueWritten
    <2> QED
      BY <1>1, <2>2 DEF MediaShaped
  <1>5. CASE WorkerStart(k)
    <2>1. mediaJob[k].state = "waiting" /\ worker[k] = "idle" /\ mediaFaults' = mediaFaults
      BY <1>5 DEF WorkerStart
    <2>2. CASE Completed(k) /\ UNCHANGED worker
      BY <1>3, <1>4, <2>1, <2>2
    <2>3. CASE /\ mediaJob' = [mediaJob EXCEPT ![k].state = "active"]
               /\ worker' = [worker EXCEPT ![k] = "generating"]
      <3>1. PICK n \in 0..MediaTries : n = mediaJob[k].tries /\ n < MediaTries
        BY <1>2, <2>1 DEF QueuesSound
      <3>2. PICK job : job = mediaJob[k]
        OBVIOUS
      <3>3. job \in [state: {"none", "waiting", "active", "failed"}, tries: 0..MediaTries]
        BY <1>2, <3>2 DEF QueuesSound
      <3>4. [job EXCEPT !.state = "active"] = [state |-> "active", tries |-> n]
        BY <3>1, <3>2, <3>3
      <3>5. mediaJob' = [mediaJob EXCEPT ![k] = [state |-> "active", tries |-> n]]
        BY <2>3, <3>2, <3>4
      <3>6. QueuesSound'
        BY <1>2, <2>1, <2>3, <3>1, <3>5, QueueWritten
      <3> QED
        BY <1>1, <3>6 DEF MediaShaped
    <2> QED
      BY <1>5, <2>2, <2>3 DEF WorkerStart
  <1>6. CASE WorkerStore(k)
    BY <1>4, <1>6 DEF WorkerStore
  <1>7. CASE GenerationFails(k)
    <2>1. /\ worker[k] = "generating" /\ mediaFaults < MaxMediaFaults /\ mediaFaults' = mediaFaults + 1
          /\ worker' = [worker EXCEPT ![k] = "idle"]
          /\ mediaJob' = [mediaJob EXCEPT ![k] =
                [state |-> IF mediaJob[k].tries + 1 < MediaTries THEN "waiting" ELSE "failed",
                 tries |-> mediaJob[k].tries + 1]]
      BY <1>7 DEF GenerationFails
    <2>2. mediaJob[k].tries < MediaTries
      BY <1>2, <2>1 DEF QueuesSound
    <2>3. PICK n \in 0..MediaTries : n = mediaJob[k].tries + 1
      BY <1>2, <2>2
    <2>4. PICK st \in {"waiting", "failed"} : st = IF n < MediaTries THEN "waiting" ELSE "failed"
      OBVIOUS
    <2>5. mediaJob' = [mediaJob EXCEPT ![k] = [state |-> st, tries |-> n]] /\ (st = "waiting" => n < MediaTries)
      BY <2>1, <2>3, <2>4
    <2>6. mediaFaults' \in 0..MaxMediaFaults
      BY <1>2, <2>1
    <2>7. QueuesSound'
      BY <1>2, <2>1, <2>4, <2>5, <2>6, QueueWritten
    <2> QED
      BY <1>1, <2>7 DEF MediaShaped
  <1> QED
    BY <1>5, <1>6, <1>7

LEMMA NoMatchShaped == ASSUME MediaShaped, NoMatch PROVE MediaShaped'
  <1>1. mediaCall' = mediaCall /\ script' = script /\ mediaFaults' = mediaFaults
        /\ mediaJob' = [mediaJob EXCEPT !["image"] = [state |-> "none", tries |-> 0]]
        /\ worker' = [worker EXCEPT !["image"] = "idle"]
    BY DEF NoMatch, OnlyWorkers, Completed
  <1>2. QueuesSound /\ "image" \in Kinds /\ 0 \in 0..MediaTries /\ mediaFaults' \in 0..MaxMediaFaults
    BY <1>1, MediaAssumption DEF MediaShaped, QueuesSound, Kinds, MediaAssumption
  <1>3. QueuesSound'
    BY <1>1, <1>2, QueueWritten
  <1> QED
    BY <1>1, <1>3 DEF MediaShaped

LEMMA EnqueueShaped ==
  ASSUME MediaShaped, NEW d \in MediaCalls, EnqueueMedia(d)
  PROVE  MediaShaped'
  <1>1. /\ script' = script /\ worker' = worker
        /\ mediaCall' = [mediaCall EXCEPT ![d] = [MediaIdle EXCEPT !.pc = "done"]]
    BY DEF EnqueueMedia, MediaEnds
  <1>2. mediaCall' = [e \in MediaCalls |-> mediaCall'[e]]
    BY <1>1 DEF MediaShaped
  <1>3. PICK refused \in SUBSET Kinds, taken \in SUBSET Kinds :
          /\ mediaFaults + Cardinality(refused) <= MaxMediaFaults
          /\ mediaFaults' = mediaFaults + Cardinality(refused)
          /\ mediaJob' = [k \in Kinds |-> IF k \in taken THEN Enqueued(k) ELSE mediaJob[k]]
    <2> DEFINE wanted == {k \in Kinds : mediaCall[d].entity[k] = "none" /\
                                  (k = "image" => MediaAt(d, "enqueueing"))}
    <2>1. PICK refused \in SUBSET wanted :
            /\ mediaFaults + Cardinality(refused) <= MaxMediaFaults
            /\ mediaFaults' = mediaFaults + Cardinality(refused)
            /\ mediaJob' = [k \in Kinds |-> IF k \in wanted \ refused THEN Enqueued(k) ELSE mediaJob[k]]
      BY DEF EnqueueMedia
    <2>2. refused \in SUBSET Kinds /\ wanted \ refused \in SUBSET Kinds
      OBVIOUS
    <2> HIDE DEF wanted
    <2> QED
      BY <2>1, <2>2
  <1>4. mediaFaults' \in 0..MaxMediaFaults
    <2>1. IsFiniteSet(Kinds)
      <3>1. IsFiniteSet({"audio"}) /\ IsFiniteSet({"image"})
        BY FS_Singleton
      <3>2. IsFiniteSet({"audio"} \cup {"image"})
        BY <3>1, FS_Union
      <3>3. Kinds = {"audio"} \cup {"image"}
        BY DEF Kinds
      <3> QED
        BY <3>2, <3>3
    <2>2. Cardinality(refused) \in Nat
      BY <2>1, FS_Subset, FS_CardinalityType
    <2>3. mediaFaults \in 0..MaxMediaFaults /\ MaxMediaFaults \in Nat
      BY MediaAssumption DEF MediaShaped, QueuesSound, MediaAssumption
    <2> QED
      BY <1>3, <2>2, <2>3
  <1>5. ASSUME NEW k \in Kinds
        PROVE  /\ mediaJob'[k] \in [state: {"none", "waiting", "active", "failed"}, tries: 0..MediaTries]
               /\ mediaJob'[k].state \in {"waiting", "active"} => mediaJob'[k].tries < MediaTries
               /\ worker'[k] = "generating" => mediaJob'[k].state = "active"
    <2>1. /\ mediaJob[k] \in [state: {"none", "waiting", "active", "failed"}, tries: 0..MediaTries]
          /\ mediaJob[k].state \in {"waiting", "active"} => mediaJob[k].tries < MediaTries
          /\ worker[k] = "generating" => mediaJob[k].state = "active"
      BY DEF MediaShaped, QueuesSound
    <2>2. CASE mediaJob'[k] = mediaJob[k]
      BY <1>1, <2>1, <2>2
    <2>3. CASE mediaJob[k].state = "none" /\ mediaJob'[k] = [state |-> "waiting", tries |-> 0]
      <3>1. MediaTries \in Nat \ {0}
        BY MediaAssumption DEF MediaAssumption
      <3>2. PICK job : job = [state |-> "waiting", tries |-> 0]
        OBVIOUS
      <3>3. job \in [state: {"none", "waiting", "active", "failed"}, tries: 0..MediaTries]
            /\ job.state = "waiting" /\ job.tries = 0
        BY <3>1, <3>2
      <3>4. 0 < MediaTries
        BY <3>1
      <3> QED
        BY <1>1, <2>1, <2>3, <3>2, <3>3, <3>4
    <2> QED
      BY <1>3, <2>2, <2>3 DEF Enqueued
  <1>6. QueuesSound'
    <2>1. mediaJob' = [k \in Kinds |-> mediaJob'[k]]
      BY <1>3
    <2>2. worker' \in [Kinds -> {"idle", "generating"}]
      BY <1>1 DEF MediaShaped, QueuesSound
    <2> QED
      BY <1>4, <1>5, <2>1, <2>2 DEF QueuesSound
  <1> QED
    BY <1>1, <1>2, <1>6 DEF MediaShaped

LEMMA MediaStepShaped == MediaShaped /\ [MediaNext]_mediaVars => MediaShaped'
  <1> SUFFICES ASSUME MediaShaped, [MediaNext]_mediaVars PROVE MediaShaped'
    OBVIOUS
  <1>1. CASE UNCHANGED mediaVars
    BY <1>1 DEF mediaVars, MediaShaped, QueuesSound
  <1>2. ASSUME UNCHANGED <<script, mediaJob, worker, mediaFaults>>,
               mediaCall' = mediaCall \/ \E d, e : mediaCall' = [mediaCall EXCEPT ![d] = e]
        PROVE  MediaShaped'
    <2>1. QueuesSound'
      BY <1>2 DEF MediaShaped, QueuesSound
    <2>2. mediaCall' = [d \in MediaCalls |-> mediaCall'[d]]
      BY <1>2 DEF MediaShaped
    <2> QED
      BY <1>2, <2>1, <2>2 DEF MediaShaped
  <1>3. ASSUME NEW d \in MediaCalls, PatchWord(d) \/ PatchSense(d) \/ Import(d) \/ Approve(d)
        PROVE  MediaShaped'
    <2>1. UNCHANGED <<script, mediaJob, worker, mediaFaults>>
      BY <1>3 DEF PatchWord, PatchSense, Import, Approve, OnlyMediaCalls, background
    <2>2. \E e : mediaCall' = [mediaCall EXCEPT ![d] = e]
      BY <1>3 DEF PatchWord, PatchSense, Import, Approve, Loads, MediaEnds
    <2> QED
      BY <1>2, <2>1, <2>2
  <1>4. ASSUME NEW d \in MediaCalls, PatchWordSave(d) \/ PatchSenseSave(d) \/ ImportSave(d)
        PROVE  MediaShaped'
    <2>1. UNCHANGED <<script, mediaJob, worker, mediaFaults>>
      BY <1>4 DEF PatchWordSave, PatchSenseSave, ImportSave, background
    <2>2. \E e : mediaCall' = [mediaCall EXCEPT ![d] = e]
      BY <1>4 DEF PatchWordSave, PatchSenseSave, ImportSave, MediaEnds
    <2> QED
      BY <1>2, <2>1, <2>2
  <1>5. ASSUME NEW d \in MediaCalls, ApproveSave(d)
        PROVE  MediaShaped'
    <2>1. UNCHANGED <<script, mediaJob, worker, mediaFaults>>
      BY <1>5 DEF ApproveSave, background
    <2>2. mediaCall' = [mediaCall EXCEPT ![d].pc = "enqueueing", ![d].base = NoWordRow]
      BY <1>5 DEF ApproveSave
    <2>3. mediaCall' = [e \in MediaCalls |-> mediaCall'[e]]
      BY <2>2 DEF MediaShaped
    <2>4. QueuesSound'
      BY <2>1 DEF MediaShaped, QueuesSound
    <2> QED
      BY <2>1, <2>3, <2>4 DEF MediaShaped
  <1>6. ASSUME NEW k \in Kinds, BackfillRead(k) \/ BackfillSave(k) \/ BackfillSkip(k)
        PROVE  MediaShaped'
    <2>1. UNCHANGED <<mediaCall, mediaJob, worker, mediaFaults>>
      BY <1>6 DEF BackfillRead, BackfillSave, BackfillSkip, OnlyScripts
    <2>2. \E e : script' = [script EXCEPT ![k] = e]
      BY <1>6 DEF BackfillRead, BackfillSave, BackfillSkip
    <2>3. script' = [l \in Kinds |-> script'[l]]
      BY <2>2 DEF MediaShaped
    <2>4. QueuesSound'
      BY <2>1 DEF MediaShaped, QueuesSound
    <2> QED
      BY <2>1, <2>3, <2>4 DEF MediaShaped
  <1>7. CASE RemoveWord
    BY <1>2, <1>7 DEF RemoveWord, background
  <1> QED
    BY <1>1, <1>3, <1>4, <1>5, <1>6, <1>7, EnqueueShaped, WorkersShaped, NoMatchShaped DEF MediaNext
-----------------------------------------------------------------------------
(* WordTexts: examples are imported once, and the topics are those given *)

ImportedOnce == \A e, f \in DOMAIN examples : examples[e] = "import" /\ examples[f] = "import" => e = f

TextsInv ==
  /\ textsOverlapped \in BOOLEAN
  /\ ~textsOverlapped => ImportedOnce /\ links = wantedLinks

LEMMA TextsInvKept == TextsInv => TextsKept
  <1> SUFFICES ASSUME TextsInv, ~textsOverlapped PROVE TextsKept
    BY DEF TextsKept
  <1> DEFINE imported == {e \in DOMAIN examples : examples[e] = "import"}
  <1>1. \A e, f \in imported : e = f
    BY DEF TextsInv, ImportedOnce
  <1>2. CASE imported = {}
    <2>1. Cardinality(imported) = 0
      BY <1>2, FS_EmptySet
    <2> QED
      BY <2>1 DEF TextsInv, TextsKept
  <1>3. CASE imported # {}
    <2>1. PICK e \in imported : imported = {e}
      BY <1>1, <1>3
    <2>2. Cardinality(imported) = 1
      BY <2>1, FS_Singleton
    <2> QED
      BY <2>2 DEF TextsInv, TextsKept
  <1> QED
    BY <1>2, <1>3

LEMMA TextsInitInv == WordTextsInit => TextsInv
  <1> SUFFICES ASSUME WordTextsInit PROVE TextsInv
    OBVIOUS
  <1>1. DOMAIN examples = {}
    BY DEF WordTextsInit
  <1> QED
    BY <1>1 DEF WordTextsInit, TextsInv, ImportedOnce

\* An example more that is not an import, an example less.
LEMMA ExamplesKept ==
  /\ \A e : ImportedOnce /\ examples' = Put(examples, e, "admin") => ImportedOnce'
  /\ \A S \in SUBSET DOMAIN examples :
       ImportedOnce /\ examples' = Restrict(examples, S) => ImportedOnce'
  <1>1. ASSUME NEW e, ImportedOnce, examples' = Put(examples, e, "admin") PROVE ImportedOnce'
    <2>1. DOMAIN examples' = DOMAIN examples \cup {e}
      BY <1>1 DEF Put
    <2>2. \A f \in DOMAIN examples' : examples'[f] = IF f = e THEN "admin" ELSE examples[f]
      BY <1>1 DEF Put
    <2> QED
      BY <1>1, <2>1, <2>2 DEF ImportedOnce
  <1>2. ASSUME NEW S \in SUBSET DOMAIN examples, ImportedOnce, examples' = Restrict(examples, S)
        PROVE  ImportedOnce'
    <2>1. DOMAIN examples' = S /\ \A f \in S : examples'[f] = examples[f]
      BY <1>2 DEF Restrict
    <2> QED
      BY <1>2, <2>1 DEF ImportedOnce
  <1> QED
    BY <1>1, <1>2

\* A step that leaves examples and links alone.
LEMMA OtherTextsKept ==
  ASSUME TextsInv, UNCHANGED <<examples, links, wantedLinks>>, textsOverlapped' \in BOOLEAN,
         textsOverlapped => textsOverlapped'
  PROVE  TextsInv'
  BY DEF TextsInv, ImportedOnce

LEMMA NotedKept ==
  ASSUME TextsInv, NEW d, Noted(d)
  PROVE  /\ textsOverlapped' \in BOOLEAN /\ (textsOverlapped => textsOverlapped')
         /\ ~textsOverlapped' => ~textsOverlapped /\ ~Stale(d)
  BY DEF TextsInv, Noted, Stale

LEMMA ImportTextsKept ==
  ASSUME TextsInv, NEW d \in TextCalls, ImportTextsCommit(d)
  PROVE  TextsInv'
  <1> DEFINE k == textCall[d]
             new == k.slugs \ k.links
  <1>1. CASE UNCHANGED <<examples, links, wantedLinks, textsOverlapped>>
    BY <1>1, OtherTextsKept DEF TextsInv
  <1>2. CASE /\ examples' = IF k.hasExamples THEN examples ELSE Put(examples, d, "import")
             /\ links' = links \cup new
             /\ wantedLinks' = wantedLinks \cup k.slugs
             /\ Noted(d)
    <2>1. /\ textsOverlapped' \in BOOLEAN
          /\ ~textsOverlapped' => ~textsOverlapped /\ ~Stale(d)
      BY <1>2, NotedKept
    <2>2. ASSUME ~textsOverlapped' PROVE ImportedOnce' /\ links' = wantedLinks'
      <3>1. /\ ImportedOnce /\ links = wantedLinks /\ k.links = links
            /\ k.hasExamples = (examples # <<>>)
        BY <2>1, <2>2 DEF TextsInv, Stale
      <3>2. links' = wantedLinks'
        BY <1>2, <3>1
      <3>3. CASE examples # <<>>
        <4>1. examples' = examples
          BY <1>2, <3>1, <3>3
        <4> QED
          BY <3>1, <3>2, <4>1 DEF ImportedOnce
      <3>4. CASE examples = <<>>
        <4>1. ~k.hasExamples
          BY <3>1, <3>4
        <4>2. examples' = Put(<<>>, d, "import")
          BY <1>2, <3>4, <4>1
        <4>3. DOMAIN examples' = {d}
          BY <4>2 DEF Put
        <4> QED
          BY <3>2, <4>3 DEF ImportedOnce
      <3> QED
        BY <3>3, <3>4
    <2> QED
      BY <2>1, <2>2 DEF TextsInv
  <1> QED
    BY <1>1, <1>2 DEF ImportTextsCommit

LEMMA TextsStepInv == TextsInv /\ [WordTextsNext]_textVars => TextsInv'
  <1> SUFFICES ASSUME TextsInv, [WordTextsNext]_textVars PROVE TextsInv'
    OBVIOUS
  <1>1. textsOverlapped \in BOOLEAN
    BY DEF TextsInv
  <1>2. CASE UNCHANGED textVars
    BY <1>1, <1>2, OtherTextsKept DEF textVars
  <1>3. ASSUME NEW d \in TextCalls,
               \/ AddTranslationRead(d) \/ UpdateTranslationRead(d) \/ UpdateExampleRead(d)
               \/ ImportTextsRead(d) \/ ReplaceTopicsRead(d) \/ DeleteTranslation(d)
        PROVE  TextsInv'
    BY <1>1, <1>3, OtherTextsKept DEF AddTranslationRead, UpdateTranslationRead,
       UpdateExampleRead, ImportTextsRead, ReplaceTopicsRead, DeleteTranslation, ReadsTexts
  <1>4. ASSUME NEW d \in TextCalls, AddTranslationCommit(d) \/ UpdateTranslationCommit(d)
        PROVE  TextsInv'
    BY <1>4, NotedKept, OtherTextsKept DEF AddTranslationCommit, UpdateTranslationCommit
  <1>5. ASSUME NEW d \in TextCalls, AddExample(d) \/ DeleteExample(d)
        PROVE  TextsInv'
    <2>1. UNCHANGED <<links, wantedLinks, textsOverlapped>>
      BY <1>5 DEF AddExample, DeleteExample
    <2>2. \/ \E e : examples' = Put(examples, e, "admin")
          \/ \E S \in SUBSET DOMAIN examples : examples' = Restrict(examples, S)
      BY <1>5 DEF AddExample, DeleteExample
    <2>3. ImportedOnce => ImportedOnce'
      BY <2>2, ExamplesKept
    <2> QED
      BY <2>1, <2>3 DEF TextsInv
  <1>6. ASSUME NEW d \in TextCalls, UpdateExampleCommit(d)
        PROVE  TextsInv'
    <2>1. /\ examples' = Put(examples, textCall[d].target, "admin")
          /\ UNCHANGED <<links, wantedLinks>> /\ Noted(d)
      BY <1>6 DEF UpdateExampleCommit
    <2>2. ImportedOnce => ImportedOnce'
      BY <2>1, ExamplesKept
    <2> QED
      BY <2>1, <2>2, NotedKept DEF TextsInv
  <1>7. ASSUME NEW d \in TextCalls, ReplaceTopicsCommit(d)
        PROVE  TextsInv'
    <2>1. CASE UNCHANGED <<examples, links, wantedLinks, textsOverlapped>>
      BY <1>1, <2>1, OtherTextsKept
    <2>2. CASE ~UNCHANGED <<examples, links, wantedLinks, textsOverlapped>>
      <3>1. /\ links' = Replaced(links, textCall[d].slugs, textCall[d].links)
            /\ wantedLinks' = textCall[d].slugs /\ Noted(d) /\ UNCHANGED examples
        BY <1>7, <2>2 DEF ReplaceTopicsCommit
      <3>2. ~textsOverlapped' => ~textsOverlapped /\ textCall[d].links = links
        BY <3>1, NotedKept DEF Stale
      <3>3. ~textsOverlapped' => links' = wantedLinks'
        BY <3>1, <3>2 DEF Replaced
      <3> QED
        BY <3>1, <3>2, <3>3, NotedKept DEF TextsInv, ImportedOnce
    <2> QED
      BY <2>1, <2>2
  <1>8. ASSUME NEW s \in Slugs, CreateTopic(s) \/ DeleteTopic(s)
        PROVE  TextsInv'
    BY <1>8 DEF CreateTopic, DeleteTopic, TextsInv, ImportedOnce
  <1> QED
    BY <1>2, <1>3, <1>4, <1>5, <1>6, <1>7, <1>8, ImportTextsKept DEF WordTextsNext

\* What a request holds: the text it stores is a text, the row it changes a row.
EntrySound(k) ==
  /\ k.pc \in TextPcs
  /\ DOMAIN k.translations \subseteq TextCalls
  /\ k.hasExamples \in BOOLEAN
  /\ k.links \subseteq Slugs /\ k.topics \subseteq Slugs /\ k.slugs \subseteq Slugs
  /\ k.target \in TextCalls \cup {"none"}
  /\ k.text \in Texts \cup {"none"}
  /\ k.pc \in {"translating", "retranslating", "importing"} => k.text \in Texts
  /\ k.pc \in {"retranslating", "editing"} => k.target \in TextCalls

TextRows(f, values) == DOMAIN f \subseteq TextCalls /\ Range(f) \subseteq values

TextRowsSound ==
  /\ TextRows(translations, Texts) /\ IsInjective(translations)
  /\ TextRows(examples, {"admin", "import"})
  /\ topics \subseteq Slugs /\ links \subseteq topics /\ wantedLinks \subseteq Slugs
  /\ textsOverlapped \in BOOLEAN

TextCallsSound == DOMAIN textCall = TextCalls /\ \A d \in TextCalls : EntrySound(textCall[d])

TextsShaped == TextRowsSound /\ TextCallsSound

LEMMA TextsTyped == TextsShaped => WordTextsTypeOK
  BY DEF TextsShaped, TextRowsSound, TextCallsSound, TextRows, EntrySound, WordTextsTypeOK

\* One entry of the requests is written.
LEMMA TextEntryWritten ==
  ASSUME TextCallsSound, NEW d \in TextCalls, NEW e, EntrySound(e), textCall' = [textCall EXCEPT ![d] = e]
  PROVE  TextCallsSound'
  <1>1. DOMAIN textCall' = TextCalls /\ \A x \in TextCalls : textCall'[x] = IF x = d THEN e ELSE textCall[x]
    BY DEF TextCallsSound
  <1>2. \A x \in TextCalls : EntrySound(textCall'[x])
    BY <1>1 DEF TextCallsSound
  <1> QED
    BY <1>1, <1>2 DEF TextCallsSound, EntrySound

\* An empty entry, at any place of the code.
LEMMA IdleSound ==
  ASSUME NEW pc \in {"idle", "done"}
  PROVE  EntrySound([TextIdle EXCEPT !.pc = pc])
  <1>1. PICK e : e = [TextIdle EXCEPT !.pc = pc]
    OBVIOUS
  <1>2. /\ e.pc = pc /\ e.translations = <<>> /\ e.hasExamples = FALSE /\ e.topics = {} /\ e.links = {}
        /\ e.target = "none" /\ e.text = "none" /\ e.slugs = {}
    BY <1>1 DEF TextIdle
  <1>3. DOMAIN e.translations = {} /\ pc \in TextPcs
    BY <1>2 DEF TextPcs
  <1> QED
    BY <1>1, <1>2, <1>3 DEF EntrySound

LEMMA TextEndsSound == ASSUME TextCallsSound, NEW d \in TextCalls, TextEnds(d) PROVE TextCallsSound'
  BY IdleSound, TextEntryWritten DEF TextEnds

\* A request reads what is there.
LEMMA TextReadsSound ==
  ASSUME TextsShaped, NEW d \in TextCalls, NEW pc \in TextPcs, NEW target \in TextCalls \cup {"none"},
         NEW text \in Texts \cup {"none"}, NEW slugs \in SUBSET Slugs,
         pc \in {"translating", "retranslating", "importing"} => text \in Texts,
         pc \in {"retranslating", "editing"} => target \in TextCalls,
         NEW entry, DOMAIN entry = DOMAIN TextIdle,
         entry.pc = pc /\ entry.target = target /\ entry.text = text /\ entry.slugs = slugs,
         ReadsTexts(d, entry)
  PROVE  TextsShaped'
  <1>1. PICK has \in BOOLEAN : has = (examples # <<>>)
    OBVIOUS
  <1>2. PICK e : e = [entry EXCEPT !.translations = translations, !.hasExamples = has,
                                   !.topics = topics, !.links = links]
    OBVIOUS
  <1>3. DOMAIN entry = {"pc", "translations", "hasExamples", "topics", "links", "target", "text", "slugs"}
    BY DEF TextIdle
  <1>4. /\ e.pc = pc /\ e.target = target /\ e.text = text /\ e.slugs = slugs
        /\ e.translations = translations /\ e.hasExamples = has /\ e.topics = topics /\ e.links = links
    BY <1>2, <1>3
  <1>5. /\ DOMAIN translations \subseteq TextCalls /\ topics \subseteq Slugs /\ links \subseteq Slugs
    BY DEF TextsShaped, TextRowsSound, TextRows
  <1>6. EntrySound(e)
    BY <1>4, <1>5 DEF EntrySound
  <1>7. /\ textCall' = [textCall EXCEPT ![d] = e]
        /\ UNCHANGED <<translations, examples, topics, links, wantedLinks, textsOverlapped>>
    BY <1>1, <1>2 DEF ReadsTexts
  <1>8. TextCallsSound'
    BY <1>6, <1>7, TextEntryWritten DEF TextsShaped
  <1> QED
    BY <1>7, <1>8 DEF TextsShaped, TextRowsSound, TextRows

\* A row more, a row less.
LEMMA PutKept ==
  ASSUME NEW f, NEW values, TextRows(f, values), NEW x \in TextCalls, NEW y \in values
  PROVE  /\ TextRows(Put(f, x, y), values)
         /\ IsInjective(f) /\ (\A t \in DOMAIN f : f[t] # y) => IsInjective(Put(f, x, y))
  <1>1. PICK g : g = Put(f, x, y)
    OBVIOUS
  <1>2. DOMAIN g = DOMAIN f \cup {x} /\ \A z \in DOMAIN g : g[z] = IF z = x THEN y ELSE f[z]
    BY <1>1 DEF Put
  <1>3. TextRows(g, values)
    BY <1>2 DEF TextRows, Range
  <1>4. ASSUME IsInjective(f), \A t \in DOMAIN f : f[t] # y PROVE IsInjective(g)
    BY <1>2, <1>4 DEF IsInjective
  <1> QED
    BY <1>1, <1>3, <1>4

LEMMA RestrictKept ==
  ASSUME NEW f, NEW values, TextRows(f, values), NEW S \in SUBSET DOMAIN f
  PROVE  /\ TextRows(Restrict(f, S), values)
         /\ IsInjective(f) => IsInjective(Restrict(f, S))
  <1>1. PICK g : g = Restrict(f, S)
    OBVIOUS
  <1>2. DOMAIN g = S /\ \A z \in S : g[z] = f[z]
    BY <1>1 DEF Restrict
  <1> QED
    BY <1>1, <1>2 DEF TextRows, Range, IsInjective

LEMMA NotedTyped == ASSUME TextRowsSound, NEW d, Noted(d) PROVE textsOverlapped' \in BOOLEAN
  BY DEF TextRowsSound, Noted, Stale

\* The unique index: a text stored twice is refused.
LEMMA StoreKept ==
  ASSUME TextRowsSound, NEW x \in TextCalls, NEW y \in Texts, StoreTranslations(Put(translations, x, y))
  PROVE  TextRows(translations', Texts) /\ IsInjective(translations')
  BY PutKept DEF TextRowsSound, StoreTranslations

LEMMA TranslationsShaped ==
  ASSUME TextsShaped, NEW d \in TextCalls,
         AddTranslationCommit(d) \/ UpdateTranslationCommit(d) \/ DeleteTranslation(d)
  PROVE  TextsShaped'
  <1>1. TextCallsSound'
    BY TextEndsSound DEF TextsShaped, AddTranslationCommit, UpdateTranslationCommit, DeleteTranslation
  <1>2. /\ UNCHANGED <<examples, topics, links, wantedLinks>> /\ textsOverlapped' \in BOOLEAN
    BY NotedTyped DEF TextsShaped, TextRowsSound, AddTranslationCommit, UpdateTranslationCommit,
       DeleteTranslation
  <1>3. TextRows(translations', Texts) /\ IsInjective(translations')
    <2>1. CASE AddTranslationCommit(d)
      <3>1. textCall[d].text \in Texts
        BY <2>1 DEF AddTranslationCommit, TextAt, TextsShaped, TextCallsSound, EntrySound
      <3> QED
        BY <2>1, <3>1, StoreKept DEF AddTranslationCommit, TextsShaped
    <2>2. CASE UpdateTranslationCommit(d)
      <3>1. textCall[d].text \in Texts /\ textCall[d].target \in TextCalls
        BY <2>2 DEF UpdateTranslationCommit, TextAt, TextsShaped, TextCallsSound, EntrySound
      <3> QED
        BY <2>2, <3>1, StoreKept DEF UpdateTranslationCommit, TextsShaped
    <2>3. CASE DeleteTranslation(d)
      <3>1. \E S \in SUBSET DOMAIN translations : translations' = Restrict(translations, S)
        BY <2>3 DEF DeleteTranslation
      <3> QED
        BY <3>1, RestrictKept DEF TextsShaped, TextRowsSound
    <2> QED
      BY <2>1, <2>2, <2>3
  <1> QED
    BY <1>1, <1>2, <1>3 DEF TextsShaped, TextRowsSound, TextRows

LEMMA ExamplesShaped ==
  ASSUME TextsShaped, NEW d \in TextCalls, AddExample(d) \/ UpdateExampleCommit(d) \/ DeleteExample(d)
  PROVE  TextsShaped'
  <1>1. TextCallsSound'
    BY TextEndsSound DEF TextsShaped, AddExample, UpdateExampleCommit, DeleteExample
  <1>2. UNCHANGED <<translations, topics, links, wantedLinks>> /\ textsOverlapped' \in BOOLEAN
    BY NotedTyped DEF TextsShaped, TextRowsSound, AddExample, UpdateExampleCommit, DeleteExample
  <1>3. TextRows(examples', {"admin", "import"})
    <2>1. CASE \E x \in TextCalls : examples' = Put(examples, x, "admin")
      BY <2>1, PutKept DEF TextsShaped, TextRowsSound
    <2>2. CASE \E S \in SUBSET DOMAIN examples : examples' = Restrict(examples, S)
      BY <2>2, RestrictKept DEF TextsShaped, TextRowsSound
    <2>3. CASE AddExample(d)
      BY <2>1, <2>3 DEF AddExample
    <2>4. CASE UpdateExampleCommit(d)
      <3>1. textCall[d].target \in TextCalls
        BY <2>4 DEF UpdateExampleCommit, TextAt, TextsShaped, TextCallsSound, EntrySound
      <3> QED
        BY <2>1, <2>4, <3>1 DEF UpdateExampleCommit
    <2>5. CASE DeleteExample(d)
      BY <2>2, <2>5 DEF DeleteExample
    <2> QED
      BY <2>3, <2>4, <2>5
  <1> QED
    BY <1>1, <1>2, <1>3 DEF TextsShaped, TextRowsSound, TextRows

\* An import stores a text no row has, and links topics that exist.
LEMMA ImportShaped == ASSUME TextsShaped, NEW d \in TextCalls, ImportTextsCommit(d) PROVE TextsShaped'
  <1> DEFINE k == textCall[d]
             adds == ~Taken(k.translations, k.text, "none")
             new == k.slugs \ k.links
  <1>1. TextCallsSound'
    BY TextEndsSound DEF TextsShaped, ImportTextsCommit
  <1>2. k.text \in Texts /\ k.slugs \subseteq Slugs
    BY DEF ImportTextsCommit, TextAt, TextsShaped, TextCallsSound, EntrySound
  <1>3. topics' = topics
    BY DEF ImportTextsCommit
  <1>4. CASE UNCHANGED <<translations, examples, links, wantedLinks, textsOverlapped>>
    BY <1>1, <1>3, <1>4 DEF TextsShaped, TextRowsSound, TextRows
  <1>5. CASE ~UNCHANGED <<translations, examples, links, wantedLinks, textsOverlapped>>
    <2>1. /\ new \subseteq topics /\ (adds => ~Taken(translations, k.text, "none"))
          /\ translations' = IF adds THEN Put(translations, d, k.text) ELSE translations
          /\ examples' = IF k.hasExamples THEN examples ELSE Put(examples, d, "import")
          /\ links' = links \cup new /\ wantedLinks' = wantedLinks \cup k.slugs /\ Noted(d)
      BY <1>5 DEF ImportTextsCommit
    <2>2. TextRows(translations', Texts) /\ IsInjective(translations')
      <3>1. CASE adds
        <4>1. \A t \in DOMAIN translations : translations[t] # k.text
          BY <2>1, <3>1, TextsAssumption DEF Taken, TextsShaped, TextRowsSound, TextRows, TextsAssumption
        <4>2. translations' = Put(translations, d, k.text)
          BY <2>1, <3>1
        <4> HIDE DEF k
        <4> QED
          BY <1>2, <4>1, <4>2, PutKept DEF TextsShaped, TextRowsSound
      <3>2. CASE ~adds
        BY <2>1, <3>2 DEF TextsShaped, TextRowsSound
      <3> QED
        BY <3>1, <3>2
    <2>3. TextRows(examples', {"admin", "import"})
      BY <2>1, PutKept DEF TextsShaped, TextRowsSound
    <2>4. links' \subseteq topics' /\ wantedLinks' \subseteq Slugs /\ topics' \subseteq Slugs
      BY <1>2, <1>3, <2>1 DEF TextsShaped, TextRowsSound
    <2>5. textsOverlapped' \in BOOLEAN
      BY <2>1, NotedTyped DEF TextsShaped
    <2> QED
      BY <1>1, <2>2, <2>3, <2>4, <2>5 DEF TextsShaped, TextRowsSound, TextRows
  <1> QED
    BY <1>4, <1>5

LEMMA TopicsShaped ==
  /\ \A d \in TextCalls : TextsShaped /\ ReplaceTopicsCommit(d) => TextsShaped'
  /\ \A s \in Slugs : TextsShaped /\ (CreateTopic(s) \/ DeleteTopic(s)) => TextsShaped'
  <1>1. ASSUME NEW d \in TextCalls, TextsShaped, ReplaceTopicsCommit(d) PROVE TextsShaped'
    <2>1. TextCallsSound' /\ UNCHANGED <<translations, examples, topics>>
      BY <1>1, TextEndsSound DEF TextsShaped, ReplaceTopicsCommit
    <2>2. textCall[d].slugs \subseteq Slugs
      BY <1>1 DEF TextsShaped, TextCallsSound, EntrySound
    <2>3. links' \subseteq topics' /\ wantedLinks' \subseteq Slugs /\ textsOverlapped' \in BOOLEAN
      BY <1>1, <2>1, <2>2, NotedTyped DEF ReplaceTopicsCommit, Replaced, TextsShaped, TextRowsSound
    <2> QED
      BY <1>1, <2>1, <2>3 DEF TextsShaped, TextRowsSound, TextRows
  <1>2. ASSUME NEW s \in Slugs, TextsShaped, CreateTopic(s) \/ DeleteTopic(s) PROVE TextsShaped'
    BY <1>2 DEF CreateTopic, DeleteTopic, TextsShaped, TextRowsSound, TextCallsSound, TextRows, EntrySound
  <1> QED
    BY <1>1, <1>2

LEMMA TextReadsShaped ==
  ASSUME TextsShaped, NEW d \in TextCalls,
         \/ AddTranslationRead(d) \/ UpdateTranslationRead(d) \/ UpdateExampleRead(d)
         \/ ImportTextsRead(d) \/ ReplaceTopicsRead(d)
  PROVE  TextsShaped'
  <1>1. /\ DOMAIN translations \subseteq TextCalls /\ DOMAIN examples \subseteq TextCalls
        /\ TextPcs = {"idle", "translating", "retranslating", "editing", "importing", "replacing", "done"}
    BY DEF TextsShaped, TextRowsSound, TextRows, TextPcs
  <1>2. CASE AddTranslationRead(d)
    <2>1. PICK text \in Texts : ReadsTexts(d, [TextIdle EXCEPT !.text = text,
                      !.pc = IF Taken(translations, text, "none") THEN "done" ELSE "translating"])
      BY <1>2 DEF AddTranslationRead
    <2>2. PICK pc \in {"done", "translating"} : pc = IF Taken(translations, text, "none") THEN "done" ELSE "translating"
      OBVIOUS
    <2>3. PICK entry : entry = [TextIdle EXCEPT !.text = text, !.pc = pc]
      OBVIOUS
    <2>4. /\ DOMAIN entry = DOMAIN TextIdle
          /\ entry.pc = pc /\ entry.target = "none" /\ entry.text = text /\ entry.slugs = {}
      BY <2>3 DEF TextIdle
    <2>5. ReadsTexts(d, entry)
      BY <2>1, <2>2, <2>3
    <2> QED
      BY <1>1, <2>1, <2>2, <2>3, <2>4, <2>5, TextReadsSound
  <1>3. CASE UpdateTranslationRead(d)
    <2>1. PICK t \in DOMAIN translations, text \in Texts :
            ReadsTexts(d, [TextIdle EXCEPT !.text = text, !.target = t,
                      !.pc = IF Taken(translations, text, t) THEN "done" ELSE "retranslating"])
      BY <1>3 DEF UpdateTranslationRead
    <2>2. PICK pc \in {"done", "retranslating"} : pc = IF Taken(translations, text, t) THEN "done" ELSE "retranslating"
      OBVIOUS
    <2>3. PICK entry : entry = [TextIdle EXCEPT !.text = text, !.target = t, !.pc = pc]
      OBVIOUS
    <2>4. /\ DOMAIN entry = DOMAIN TextIdle
          /\ entry.pc = pc /\ entry.target = t /\ entry.text = text /\ entry.slugs = {}
      BY <2>3 DEF TextIdle
    <2>5. ReadsTexts(d, entry)
      BY <2>1, <2>2, <2>3
    <2> QED
      BY <1>1, <2>1, <2>2, <2>3, <2>4, <2>5, TextReadsSound
  <1>4. CASE UpdateExampleRead(d)
    <2>1. PICK e \in DOMAIN examples : ReadsTexts(d, [TextIdle EXCEPT !.pc = "editing", !.target = e])
      BY <1>4 DEF UpdateExampleRead
    <2>2. PICK entry : entry = [TextIdle EXCEPT !.pc = "editing", !.target = e]
      OBVIOUS
    <2>3. /\ DOMAIN entry = DOMAIN TextIdle
          /\ entry.pc = "editing" /\ entry.target = e /\ entry.text = "none" /\ entry.slugs = {}
      BY <2>2 DEF TextIdle
    <2>4. ReadsTexts(d, entry)
      BY <2>1, <2>2
    <2> QED
      BY <1>1, <2>1, <2>2, <2>3, <2>4, TextReadsSound
  <1>5. CASE ImportTextsRead(d)
    <2>1. PICK text \in Texts, slugs \in SUBSET Slugs :
            ReadsTexts(d, [TextIdle EXCEPT !.pc = "importing", !.text = text, !.slugs = slugs])
      BY <1>5 DEF ImportTextsRead
    <2>2. PICK entry : entry = [TextIdle EXCEPT !.pc = "importing", !.text = text, !.slugs = slugs]
      OBVIOUS
    <2>3. /\ DOMAIN entry = DOMAIN TextIdle
          /\ entry.pc = "importing" /\ entry.target = "none" /\ entry.text = text /\ entry.slugs = slugs
      BY <2>2 DEF TextIdle
    <2>4. ReadsTexts(d, entry)
      BY <2>1, <2>2
    <2> QED
      BY <1>1, <2>1, <2>2, <2>3, <2>4, TextReadsSound
  <1>6. CASE ReplaceTopicsRead(d)
    <2>1. PICK slugs \in SUBSET Slugs :
            ReadsTexts(d, [TextIdle EXCEPT !.slugs = slugs,
                             !.pc = IF slugs \subseteq topics THEN "replacing" ELSE "done"])
      BY <1>6 DEF ReplaceTopicsRead
    <2>2. PICK pc \in {"done", "replacing"} : pc = IF slugs \subseteq topics THEN "replacing" ELSE "done"
      OBVIOUS
    <2>3. PICK entry : entry = [TextIdle EXCEPT !.slugs = slugs, !.pc = pc]
      OBVIOUS
    <2>4. /\ DOMAIN entry = DOMAIN TextIdle
          /\ entry.pc = pc /\ entry.target = "none" /\ entry.text = "none" /\ entry.slugs = slugs
      BY <2>3 DEF TextIdle
    <2>5. ReadsTexts(d, entry)
      BY <2>1, <2>2, <2>3
    <2> QED
      BY <1>1, <2>1, <2>2, <2>3, <2>4, <2>5, TextReadsSound
  <1> QED
    BY <1>2, <1>3, <1>4, <1>5, <1>6

LEMMA TextsInitShaped == WordTextsInit => TextsShaped
  <1> SUFFICES ASSUME WordTextsInit PROVE TextsShaped
    OBVIOUS
  <1>1. DOMAIN translations = {} /\ DOMAIN examples = {}
    BY DEF WordTextsInit
  <1>2. TextRowsSound
    BY <1>1 DEF WordTextsInit, TextRowsSound, TextRows, Range, IsInjective
  <1>3. [TextIdle EXCEPT !.pc = "idle"] = TextIdle
    BY DEF TextIdle
  <1>4. EntrySound(TextIdle)
    BY <1>3, IdleSound
  <1> QED
    BY <1>2, <1>4 DEF WordTextsInit, TextsShaped, TextCallsSound

LEMMA TextsStepShaped == TextsShaped /\ [WordTextsNext]_textVars => TextsShaped'
  <1>1. TextsShaped /\ UNCHANGED textVars => TextsShaped'
    BY DEF textVars, TextsShaped, TextRowsSound, TextCallsSound, TextRows, EntrySound
  <1> QED
    BY <1>1, TranslationsShaped, ExamplesShaped, ImportShaped, TopicsShaped, TextReadsShaped DEF WordTextsNext
-----------------------------------------------------------------------------
(* BulkCreate: a list lands whole, and a lemma is made once *)

JobRows == [status: {"pending", "completed", "failed"}, topicSlugs: SUBSET BulkSlugs, made: BOOLEAN]
UploadFields == DOMAIN UploadIdle

\* The word is in the catalog with the topics of the list that still exist.
Lands(u, l) == l \in DOMAIN catalog /\ upload[u].slugs \cap knownTopics \subseteq catalog[l]
JobOpen(u, l) ==
  /\ <<u, l>> \in DOMAIN jobs
  /\ jobs[<<u, l>>].status # "completed" \/ ~jobs[<<u, l>>].made
\* The lemmas a request found in the catalog.
Found(u) == (Asked(u) \cap upload[u].taken) \ upload[u].deferred

UploadSound(u) ==
  /\ DOMAIN upload[u] = UploadFields /\ upload[u].slugs \subseteq BulkSlugs
  /\ upload[u].pc = "tagging" => Found(u) \subseteq DOMAIN catalog \cup removed
  /\ upload[u].pc = "linking" => Found(u) \subseteq upload[u].existing \cup removed
  /\ upload[u].pc = "saving" => \A l \in Found(u) : Lands(u, l) \/ l \in removed
  /\ upload[u].pc = "answered" =>
       \A l \in Asked(u) : Lands(u, l) \/ JobOpen(u, l) \/ l \in removed \cup upload[u].deferred
  /\ \A l : <<u, l>> \in DOMAIN jobs =>
       upload[u].pc = "answered" /\ jobs[<<u, l>>].topicSlugs = upload[u].slugs

JobsSound ==
  /\ \A j \in DOMAIN jobs : /\ jobs[j] \in JobRows
                            /\ jobs[j].made => j[2] \in DOMAIN catalog \cup removed
  /\ \A i, j \in DOMAIN jobs :
       jobs[i].made /\ jobs[j].made /\ i[2] = j[2] /\ i[2] \notin removed => i = j

BulkInv ==
  /\ DOMAIN upload = Uploads /\ \A u \in Uploads : UploadSound(u)
  /\ JobsSound

LEMMA BulkInvLands == BulkInv => ListLands
  BY DEF BulkInv, UploadSound, ListLands, UploadAt, Lands, JobOpen

LEMMA BulkInvMadeOnce == BulkInv => MadeOnce
  <1> SUFFICES ASSUME BulkInv, NEW l \in Lemmas \ removed
               PROVE  Cardinality({j \in DOMAIN jobs : j[2] = l /\ jobs[j].made}) <= 1
    BY DEF MadeOnce
  <1> DEFINE made == {j \in DOMAIN jobs : j[2] = l /\ jobs[j].made}
  <1>1. \A i, j \in made : i = j
    BY DEF BulkInv, JobsSound
  <1>2. CASE made = {}
    <2>1. Cardinality(made) = 0
      BY <1>2, FS_EmptySet
    <2> QED
      BY <2>1
  <1>3. CASE made # {}
    <2>1. PICK j \in made : made = {j}
      BY <1>1, <1>3
    <2>2. Cardinality(made) = 1
      BY <2>1, FS_Singleton
    <2> QED
      BY <2>2
  <1> QED
    BY <1>2, <1>3

LEMMA IdleUpload ==
  /\ DOMAIN UploadIdle = UploadFields /\ UploadIdle.slugs = {} /\ UploadIdle.pc = "idle"
  /\ UploadIdle.taken = {} /\ UploadIdle.deferred = {} /\ UploadIdle.lemmas = <<>>
  /\ {"pc", "list", "lemmas", "slugs", "taken", "deferred", "existing", "accepted"} = UploadFields
  BY DEF UploadIdle, UploadFields

LEMMA BulkInitInv == BulkInit => BulkInv
  <1> SUFFICES ASSUME BulkInit PROVE BulkInv
    OBVIOUS
  <1>1. DOMAIN jobs = {}
    BY DEF BulkInit
  <1>2. DOMAIN upload = Uploads /\ \A u \in Uploads : upload[u] = UploadIdle
    BY DEF BulkInit
  <1>3. \A u \in Uploads : UploadSound(u)
    BY <1>1, <1>2, IdleUpload DEF UploadSound
  <1> QED
    BY <1>1, <1>2, <1>3 DEF BulkInv, JobsSound

\* What a step may do to the catalog: words go only into removed, and lose only
\* topics that are gone.
CatalogGrows ==
  /\ removed \subseteq removed' /\ DOMAIN catalog \subseteq DOMAIN catalog' \cup removed'
  /\ knownTopics' \subseteq knownTopics
  /\ \A l \in DOMAIN catalog \cap DOMAIN catalog' : catalog[l] \cap knownTopics' \subseteq catalog'[l]

\* A request that does not move while jobs run and the catalog changes.
LEMMA UploadStays ==
  ASSUME NEW u \in Uploads, UploadSound(u), CatalogGrows, upload'[u] = upload[u],
         \A l : <<u, l>> \in DOMAIN jobs' => <<u, l>> \in DOMAIN jobs,
         \A l : <<u, l>> \in DOMAIN jobs =>
           /\ <<u, l>> \in DOMAIN jobs'
           /\ jobs'[<<u, l>>].topicSlugs = jobs[<<u, l>>].topicSlugs
           /\ JobOpen(u, l) => JobOpen(u, l)' \/ Lands(u, l)'
  PROVE  UploadSound(u)'
  <1>1. Asked(u)' = Asked(u) /\ Found(u)' = Found(u)
    BY DEF Asked, Found
  <1>2. \A l : Lands(u, l) => Lands(u, l)' \/ l \in removed'
    BY DEF Lands, CatalogGrows
  <1>3. /\ DOMAIN upload'[u] = UploadFields /\ upload'[u].slugs \subseteq BulkSlugs
        /\ upload'[u].pc = "tagging" => Found(u)' \subseteq DOMAIN catalog' \cup removed'
        /\ upload'[u].pc = "linking" => Found(u)' \subseteq upload'[u].existing \cup removed'
    BY <1>1 DEF UploadSound, CatalogGrows
  <1>4. upload'[u].pc = "saving" => \A l \in Found(u)' : Lands(u, l)' \/ l \in removed'
    BY <1>1, <1>2 DEF UploadSound, CatalogGrows
  <1>5. upload'[u].pc = "answered" =>
          \A l \in Asked(u)' : Lands(u, l)' \/ JobOpen(u, l)' \/ l \in removed' \cup upload'[u].deferred
    <2> SUFFICES ASSUME upload[u].pc = "answered", NEW l \in Asked(u)
                 PROVE  Lands(u, l)' \/ JobOpen(u, l)' \/ l \in removed' \cup upload[u].deferred
      BY <1>1
    <2>1. Lands(u, l) \/ JobOpen(u, l) \/ l \in removed \cup upload[u].deferred
      BY DEF UploadSound
    <2>2. CASE JobOpen(u, l)
      BY <2>2 DEF JobOpen
    <2> QED
      BY <2>1, <2>2, <1>2 DEF CatalogGrows
  <1>6. \A l : <<u, l>> \in DOMAIN jobs' =>
          upload'[u].pc = "answered" /\ jobs'[<<u, l>>].topicSlugs = upload'[u].slugs
    BY DEF UploadSound
  <1> QED
    BY <1>3, <1>4, <1>5, <1>6 DEF UploadSound, UploadFields

\* A step that leaves the jobs alone.
LEMMA JobsStay ==
  ASSUME JobsSound, CatalogGrows, UNCHANGED jobs
  PROVE  JobsSound'
  BY DEF JobsSound, CatalogGrows, JobRows

\* The catalog changes and no request moves.
LEMMA CatalogChanges ==
  ASSUME BulkInv, CatalogGrows, UNCHANGED <<jobs, upload>>
  PROVE  BulkInv'
  <1>1. \A u \in Uploads : UploadSound(u)'
    <2> SUFFICES ASSUME NEW u \in Uploads PROVE UploadSound(u)'
      OBVIOUS
    <2>1. \A l : JobOpen(u, l) => JobOpen(u, l)'
      BY DEF JobOpen
    <2> QED
      BY <2>1, UploadStays DEF BulkInv
  <1> QED
    BY <1>1, JobsStay DEF BulkInv

\* A request moves on to k; the catalog may grow.
LEMMA RequestMoves ==
  ASSUME BulkInv, NEW u \in Uploads, NEW k, upload' = [upload EXCEPT ![u] = k],
         CatalogGrows, UNCHANGED jobs, upload'[u] = k => UploadSound(u)'
  PROVE  BulkInv'
  <1>1. DOMAIN upload' = Uploads /\ upload'[u] = k
        /\ \A v \in Uploads : v # u => upload'[v] = upload[v]
    BY DEF BulkInv
  <1>2. \A v \in Uploads : UploadSound(v)'
    <2> SUFFICES ASSUME NEW v \in Uploads, v # u PROVE UploadSound(v)'
      BY <1>1
    <2>1. \A l : JobOpen(v, l) => JobOpen(v, l)'
      BY DEF JobOpen
    <2> QED
      BY <1>1, <2>1, UploadStays DEF BulkInv
  <1> QED
    BY <1>1, <1>2, JobsStay DEF BulkInv

LEMMA RemovalsKept ==
  ASSUME BulkInv,
         \/ \E l \in Contested : RemoveSystemWord(l)
         \/ \E s \in BulkSlugs : RemoveTopic(s)
  PROVE  BulkInv'
  <1>1. ASSUME NEW l \in Contested, RemoveSystemWord(l) PROVE BulkInv'
    <2>1. /\ DOMAIN catalog' = DOMAIN catalog \ {l}
          /\ \A m \in DOMAIN catalog' : catalog'[m] = catalog[m]
      BY <1>1 DEF RemoveSystemWord, Restrict
    <2>2. CatalogGrows
      BY <1>1, <2>1 DEF RemoveSystemWord, CatalogGrows
    <2> QED
      BY <1>1, <2>2, CatalogChanges DEF RemoveSystemWord
  <1>2. ASSUME NEW s \in BulkSlugs, RemoveTopic(s) PROVE BulkInv'
    <2>1. CatalogGrows
      BY <1>2 DEF RemoveTopic, CatalogGrows
    <2> QED
      BY <1>2, <2>1, CatalogChanges DEF RemoveTopic
  <1> QED
    BY <1>1, <1>2

\* A request that has no job yet moves on to k, and the catalog stays.
LEMMA QuietMove ==
  ASSUME BulkInv, NEW u \in Uploads, upload[u].pc # "answered",
         UNCHANGED <<catalog, knownTopics, jobs, removed>>,
         NEW k, upload' = [upload EXCEPT ![u] = k],
         DOMAIN k = UploadFields, k.slugs \subseteq BulkSlugs,
         LET found == (Range(k.lemmas) \cap k.taken) \ k.deferred IN
         /\ k.pc = "tagging" => found \subseteq DOMAIN catalog \cup removed
         /\ k.pc = "linking" => found \subseteq k.existing \cup removed
         /\ k.pc = "saving" => \A l \in found :
              \/ l \in DOMAIN catalog /\ k.slugs \cap knownTopics \subseteq catalog[l]
              \/ l \in removed
         /\ k.pc = "answered" => Range(k.lemmas) \subseteq k.deferred
  PROVE  BulkInv'
  <1>1. CatalogGrows
    BY DEF CatalogGrows
  <1>2. \A l : <<u, l>> \notin DOMAIN jobs
    BY DEF BulkInv, UploadSound
  <1>3. ASSUME upload'[u] = k PROVE UploadSound(u)'
    BY <1>2, <1>3 DEF UploadSound, Found, Asked, Lands, UploadFields
  <1> QED
    BY <1>1, <1>3, RequestMoves

LEMMA NoLemmas == Range(<<>>) = {}
  BY DEF Range

LEMMA ListsKept ==
  ASSUME BulkInv, NEW u \in Uploads, Extract(u) \/ BulkQuickCreateVocabulary(u)
  PROVE  BulkInv'
  <1>1. UNCHANGED <<catalog, knownTopics, jobs, removed>> /\ upload[u].pc # "answered"
        /\ UploadSound(u)
    BY DEF Extract, BulkQuickCreateVocabulary, UploadAt, BulkInv
  <1>2. CASE Extract(u)
    <2>1. PICK list : Proceeds(u, [UploadIdle EXCEPT !.pc = "reviewing", !.list = list])
      BY <1>2 DEF Extract
    <2>2. PICK k : k = [UploadIdle EXCEPT !.pc = "reviewing", !.list = list]
      OBVIOUS
    <2>3. DOMAIN k = UploadFields /\ k.pc = "reviewing" /\ k.slugs = {}
      BY <2>2 DEF UploadIdle, UploadFields
    <2>4. upload' = [upload EXCEPT ![u] = k]
      BY <2>1, <2>2 DEF Proceeds
    <2> QED
      BY <1>1, <2>3, <2>4, QuietMove
  <1>3. CASE BulkQuickCreateVocabulary(u)
    <2> DEFINE pcOf(lemmas, slugs) == IF lemmas = <<>> THEN "answered"
                                      ELSE IF ValidateTopicSlugs(slugs) THEN "validated" ELSE "refused"
    <2>1. PICK slugs \in SUBSET BulkSlugs : \E lemmas :
            Proceeds(u, [upload[u] EXCEPT !.lemmas = lemmas, !.slugs = slugs,
                                          !.pc = pcOf(lemmas, slugs)])
      BY <1>3 DEF BulkQuickCreateVocabulary
    <2>2. PICK lemmas : Proceeds(u, [upload[u] EXCEPT !.lemmas = lemmas, !.slugs = slugs,
                                                      !.pc = pcOf(lemmas, slugs)])
      BY <2>1
    <2>3. PICK pc : pc = pcOf(lemmas, slugs)
      OBVIOUS
    <2>4. /\ Proceeds(u, [upload[u] EXCEPT !.lemmas = lemmas, !.slugs = slugs, !.pc = pc])
          /\ pc \in {"answered", "validated", "refused"} /\ (pc = "answered" => lemmas = <<>>)
      BY <2>2, <2>3
    <2>5. PICK k : k = [upload[u] EXCEPT !.lemmas = lemmas, !.slugs = slugs, !.pc = pc]
      OBVIOUS
    <2>6. DOMAIN k = UploadFields /\ k.pc = pc /\ k.slugs = slugs /\ k.lemmas = lemmas
      BY <1>1, <2>5, IdleUpload DEF UploadSound
    <2>7. upload' = [upload EXCEPT ![u] = k]
      BY <2>4, <2>5 DEF Proceeds
    <2> QED
      BY <1>1, <2>4, <2>6, <2>7, NoLemmas, QuietMove
  <1> QED
    BY <1>2, <1>3

LEMMA ReadsKept ==
  ASSUME BulkInv, NEW u \in Uploads, LemmasAlreadyHandled(u) \/ TagExistingRead(u)
  PROVE  BulkInv'
  <1>1. UNCHANGED <<catalog, knownTopics, jobs, removed>> /\ upload[u].pc # "answered"
        /\ UploadSound(u)
    BY DEF LemmasAlreadyHandled, TagExistingRead, UploadAt, BulkInv
  <1>2. CASE LemmasAlreadyHandled(u)
    <2>1. PICK deferred, pc :
            /\ Proceeds(u, [upload[u] EXCEPT !.taken = deferred \cup (Asked(u) \cap DOMAIN catalog),
                              !.deferred = deferred, !.pc = pc])
            /\ pc = IF upload[u].slugs = {} THEN "saving" ELSE "tagging"
      BY <1>2 DEF LemmasAlreadyHandled
    <2>2. PICK taken : taken = deferred \cup (Asked(u) \cap DOMAIN catalog)
      OBVIOUS
    <2>3. PICK k : k = [upload[u] EXCEPT !.taken = taken, !.deferred = deferred, !.pc = pc]
      OBVIOUS
    <2>4. /\ DOMAIN k = UploadFields /\ k.pc = pc /\ k.slugs = upload[u].slugs
          /\ k.taken = taken /\ k.deferred = deferred
      BY <1>1, <2>3, IdleUpload DEF UploadSound
    <2>5. upload' = [upload EXCEPT ![u] = k]
      BY <2>1, <2>2, <2>3 DEF Proceeds
    <2>6. (Range(k.lemmas) \cap k.taken) \ k.deferred \subseteq DOMAIN catalog
      BY <2>2, <2>4
    <2>7. k.slugs \subseteq BulkSlugs
      BY <1>1, <2>4 DEF UploadSound
    <2> QED
      BY <1>1, <2>1, <2>4, <2>5, <2>6, <2>7, QuietMove
  <1>3. CASE TagExistingRead(u)
    <2>1. PICK existing, pc :
            /\ Proceeds(u, [upload[u] EXCEPT !.existing = existing, !.pc = pc])
            /\ existing = Asked(u) \cap DOMAIN catalog
            /\ pc = IF existing = {} THEN "saving" ELSE "linking"
      BY <1>3 DEF TagExistingRead
    <2>2. PICK k : k = [upload[u] EXCEPT !.existing = existing, !.pc = pc]
      OBVIOUS
    <2>3. /\ DOMAIN k = UploadFields /\ k.pc = pc /\ k.slugs = upload[u].slugs
          /\ k.taken = upload[u].taken /\ k.deferred = upload[u].deferred
          /\ k.lemmas = upload[u].lemmas /\ k.existing = existing
      BY <1>1, <2>2, IdleUpload DEF UploadSound
    <2>4. upload' = [upload EXCEPT ![u] = k]
      BY <2>1, <2>2 DEF Proceeds
    <2>5. /\ (Range(k.lemmas) \cap k.taken) \ k.deferred = Found(u)
          /\ Found(u) \subseteq Asked(u) /\ Found(u) \subseteq DOMAIN catalog \cup removed
          /\ k.slugs \subseteq BulkSlugs
      BY <1>1, <1>3, <2>3 DEF Found, Asked, UploadSound, TagExistingRead, UploadAt
    <2> QED
      BY <1>1, <2>1, <2>3, <2>4, <2>5, QuietMove
  <1> QED
    BY <1>2, <1>3

LEMMA QuickCreateKept ==
  ASSUME BulkInv, NEW u \in Uploads, NEW l \in Contested, QuickCreateVocabulary(u, l)
  PROVE  BulkInv'
  <1>1. UNCHANGED <<catalog, knownTopics, jobs, removed>> /\ upload[u].pc # "answered"
    BY DEF QuickCreateVocabulary, UploadAt
  <1>2. Range(<<l>>) = {l}
    BY DEF Range
  <1>3. PICK entry : entry = [UploadIdle EXCEPT !.lemmas = <<l>>]
    OBVIOUS
  <1>4. /\ DOMAIN entry = UploadFields /\ entry.lemmas = <<l>> /\ entry.slugs = {}
        /\ entry.taken = {} /\ entry.deferred = {}
    BY <1>3 DEF UploadIdle, UploadFields
  <1>5. CASE PendingJobs(l) # {}
    <2>1. PICK k : k = [entry EXCEPT !.pc = "answered", !.taken = {l}, !.deferred = {l}]
      OBVIOUS
    <2>2. upload' = [upload EXCEPT ![u] = k]
      BY <1>3, <1>5, <2>1 DEF QuickCreateVocabulary, Proceeds
    <2>3. /\ DOMAIN k = UploadFields /\ k.pc = "answered" /\ k.slugs = {} /\ k.lemmas = <<l>>
          /\ k.deferred = {l}
      BY <1>4, <2>1, IdleUpload
    <2> QED
      BY <1>1, <1>2, <2>2, <2>3, QuietMove
  <1>6. CASE PendingJobs(l) = {}
    <2>1. PICK k : k = [entry EXCEPT !.pc = "saving"]
      OBVIOUS
    <2>2. upload' = [upload EXCEPT ![u] = k]
      BY <1>3, <1>6, <2>1 DEF QuickCreateVocabulary, Proceeds
    <2>3. /\ DOMAIN k = UploadFields /\ k.pc = "saving" /\ k.slugs = {} /\ k.taken = {}
      BY <1>4, <2>1, IdleUpload
    <2> QED
      BY <1>1, <2>2, <2>3, QuietMove
  <1> QED
    BY <1>5, <1>6

LEMMA LinksKept ==
  ASSUME BulkInv, NEW u \in Uploads, TagExistingCommit(u)
  PROVE  BulkInv'
  <1> DEFINE linked == upload[u].slugs \subseteq knownTopics /\ upload[u].existing \subseteq DOMAIN catalog
  <1>1. UNCHANGED <<knownTopics, jobs, removed>> /\ upload[u].pc = "linking" /\ UploadSound(u)
    BY DEF TagExistingCommit, UploadAt, BulkInv
  <1>2. /\ DOMAIN catalog' = DOMAIN catalog
        /\ \A l \in DOMAIN catalog :
             catalog'[l] = IF linked /\ l \in upload[u].existing
                           THEN catalog[l] \cup upload[u].slugs ELSE catalog[l]
    BY DEF TagExistingCommit
  <1>3. CatalogGrows
    BY <1>1, <1>2 DEF CatalogGrows
  <1>4. \A l : <<u, l>> \notin DOMAIN jobs
    BY <1>1 DEF UploadSound
  <1>5. CASE linked
    <2>1. PICK k : k = [upload[u] EXCEPT !.pc = "saving"]
      OBVIOUS
    <2>2. upload' = [upload EXCEPT ![u] = k]
      BY <1>5, <2>1 DEF TagExistingCommit, Proceeds
    <2>3. /\ DOMAIN k = UploadFields /\ k.pc = "saving" /\ k.slugs = upload[u].slugs
          /\ k.taken = upload[u].taken /\ k.deferred = upload[u].deferred
          /\ k.lemmas = upload[u].lemmas
      BY <1>1, <2>1, IdleUpload DEF UploadSound
    <2>4. ASSUME upload'[u] = k PROVE UploadSound(u)'
      <3>1. Found(u)' = Found(u)
        BY <2>3, <2>4 DEF Found, Asked
      <3>2. \A l \in Found(u) : l \in upload[u].existing \/ l \in removed
        BY <1>1 DEF UploadSound
      <3>3. \A l \in upload[u].existing : Lands(u, l)'
        BY <1>2, <1>5, <2>3, <2>4 DEF Lands
      <3>4. k.slugs \subseteq BulkSlugs
        BY <1>1, <2>3 DEF UploadSound
      <3> QED
        BY <1>1, <1>4, <2>3, <2>4, <3>1, <3>2, <3>3, <3>4 DEF UploadSound, UploadFields
    <2> QED
      BY <1>1, <1>3, <2>2, <2>4, RequestMoves
  <1>6. CASE ~linked
    <2>1. PICK k : k = [UploadIdle EXCEPT !.pc = "refused"]
      OBVIOUS
    <2>2. upload' = [upload EXCEPT ![u] = k]
      BY <1>6, <2>1 DEF TagExistingCommit, Proceeds
    <2>3. DOMAIN k = UploadFields /\ k.pc = "refused" /\ k.slugs = {}
      BY <2>1 DEF UploadIdle, UploadFields
    <2>4. ASSUME upload'[u] = k PROVE UploadSound(u)'
      BY <1>1, <1>4, <2>3, <2>4 DEF UploadSound, UploadFields
    <2> QED
      BY <1>1, <1>3, <2>2, <2>4, RequestMoves
  <1> QED
    BY <1>5, <1>6

\* The row of a new job.
LEMMA NewJob ==
  ASSUME NEW slugs \in SUBSET BulkSlugs
  PROVE  \E r \in JobRows :
           /\ r = [status |-> "pending", topicSlugs |-> slugs, made |-> FALSE]
           /\ r.status = "pending" /\ r.topicSlugs = slugs /\ ~r.made
  <1>1. PICK r : r = [status |-> "pending", topicSlugs |-> slugs, made |-> FALSE]
    OBVIOUS
  <1>2. r \in JobRows
    BY <1>1 DEF JobRows
  <1>3. r.status = "pending" /\ r.topicSlugs = slugs /\ ~r.made
    BY <1>1
  <1> QED
    BY <1>1, <1>2, <1>3

\* New jobs, that have made nothing.
LEMMA JobsAdded ==
  ASSUME JobsSound, UNCHANGED <<catalog, removed>>, DOMAIN jobs \subseteq DOMAIN jobs',
         \A j \in DOMAIN jobs : jobs'[j] = jobs[j],
         \A j \in DOMAIN jobs' \ DOMAIN jobs : jobs'[j] \in JobRows /\ ~jobs'[j].made
  PROVE  JobsSound'
  <1>1. \A j \in DOMAIN jobs' : /\ jobs'[j] \in JobRows
                                /\ jobs'[j].made => j \in DOMAIN jobs /\ jobs[j].made
    BY DEF JobsSound
  <1> QED
    BY <1>1 DEF JobsSound, JobRows

LEMMA SaveJobsKept ==
  ASSUME BulkInv, NEW u \in Uploads, SaveJobs(u)
  PROVE  BulkInv'
  <1> DEFINE new == {u} \X (Asked(u) \ upload[u].taken)
  <1>1. /\ UNCHANGED <<catalog, knownTopics, removed>> /\ upload[u].pc = "saving"
        /\ UploadSound(u) /\ upload[u].slugs \in SUBSET BulkSlugs
    BY DEF SaveJobs, UploadAt, BulkInv, UploadSound
  <1>2. PICK r \in JobRows :
          /\ r = [status |-> "pending", topicSlugs |-> upload[u].slugs, made |-> FALSE]
          /\ r.status = "pending" /\ r.topicSlugs = upload[u].slugs /\ ~r.made
    BY <1>1, NewJob
  <1>3. jobs' = [j \in DOMAIN jobs \cup new |-> IF j \in new THEN r ELSE jobs[j]]
    BY <1>2 DEF SaveJobs
  <1>4. \A l : <<u, l>> \notin DOMAIN jobs
    BY <1>1 DEF UploadSound
  <1>5. new \cap DOMAIN jobs = {}
    BY <1>4
  <1>6. /\ DOMAIN jobs' = DOMAIN jobs \cup new
        /\ \A j \in DOMAIN jobs : jobs'[j] = jobs[j]
        /\ \A j \in new : jobs'[j] = r
    BY <1>3, <1>5
  <1>7. JobsSound'
    BY <1>1, <1>2, <1>6, JobsAdded DEF BulkInv
  <1>8. PICK k : k = [UploadIdle EXCEPT !.pc = "answered", !.accepted = Cardinality(new),
               !.lemmas = upload[u].lemmas, !.slugs = upload[u].slugs,
               !.deferred = upload[u].deferred]
    OBVIOUS
  <1>9. /\ DOMAIN k = UploadFields /\ k.pc = "answered" /\ k.lemmas = upload[u].lemmas
        /\ k.slugs = upload[u].slugs /\ k.deferred = upload[u].deferred
    BY <1>8 DEF UploadIdle, UploadFields
  <1>10. upload' = [upload EXCEPT ![u] = k]
    BY <1>8 DEF SaveJobs, Proceeds
  <1>11. DOMAIN upload' = Uploads /\ upload'[u] = k
         /\ \A v \in Uploads : v # u => upload'[v] = upload[v]
    BY <1>10 DEF BulkInv
  <1>12. UploadSound(u)'
    <2>1. \A l \in Asked(u)' : Lands(u, l)' \/ JobOpen(u, l)' \/ l \in removed' \cup upload'[u].deferred
      <3> SUFFICES ASSUME NEW l \in Asked(u)
                   PROVE  Lands(u, l)' \/ JobOpen(u, l)' \/ l \in removed' \cup upload'[u].deferred
        BY <1>9, <1>11 DEF Asked
      <3>1. CASE l \notin upload[u].taken
        <4>1. <<u, l>> \in new
          BY <3>1
        <4>2. jobs'[<<u, l>>].status = "pending" /\ <<u, l>> \in DOMAIN jobs'
          BY <1>2, <1>6, <4>1
        <4> QED
          BY <4>2 DEF JobOpen
      <3>2. CASE l \in upload[u].taken /\ l \notin upload[u].deferred
        <4>1. Lands(u, l) \/ l \in removed
          BY <1>1, <3>2 DEF UploadSound, Found
        <4> QED
          BY <1>1, <1>9, <1>11, <4>1 DEF Lands
      <3> QED
        BY <1>9, <1>11, <3>1, <3>2
    <2>2. \A l : <<u, l>> \in DOMAIN jobs' => jobs'[<<u, l>>].topicSlugs = upload'[u].slugs
      BY <1>2, <1>4, <1>6, <1>9, <1>11
    <2> QED
      BY <1>1, <1>9, <1>11, <2>1, <2>2 DEF UploadSound, UploadFields
  <1>13. ASSUME NEW v \in Uploads, v # u PROVE UploadSound(v)'
    <2>1. CatalogGrows
      BY <1>1 DEF CatalogGrows
    <2>2. \A l : <<v, l>> \notin new
      BY <1>13
    <2>3. \A l : /\ <<v, l>> \in DOMAIN jobs' <=> <<v, l>> \in DOMAIN jobs
                 /\ <<v, l>> \in DOMAIN jobs => jobs'[<<v, l>>] = jobs[<<v, l>>]
      BY <1>6, <2>2
    <2>4. \A l : JobOpen(v, l) => JobOpen(v, l)'
      BY <2>3 DEF JobOpen
    <2> QED
      BY <1>11, <1>13, <2>1, <2>3, <2>4, UploadStays DEF BulkInv
  <1> QED
    BY <1>7, <1>11, <1>12, <1>13 DEF BulkInv

LEMMA QuickCreateUserKept ==
  ASSUME BulkInv, NEW l \in Contested, QuickCreateUser(l)
  PROVE  BulkInv'
  <1>1. UNCHANGED <<catalog, knownTopics, upload, removed>> /\ <<"learner", l>> \notin DOMAIN jobs
    BY DEF QuickCreateUser
  <1>2. PICK r \in JobRows : r = [status |-> "pending", topicSlugs |-> {}, made |-> FALSE] /\ ~r.made
    BY NewJob
  <1>3. jobs' = [j \in DOMAIN jobs \cup {<<"learner", l>>} |-> IF j \in DOMAIN jobs THEN jobs[j] ELSE r]
    BY <1>2 DEF QuickCreateUser
  <1>4. /\ DOMAIN jobs' = DOMAIN jobs \cup {<<"learner", l>>}
        /\ \A j \in DOMAIN jobs : jobs'[j] = jobs[j]
        /\ \A j \in DOMAIN jobs' \ DOMAIN jobs : jobs'[j] = r
    BY <1>3
  <1>5. JobsSound'
    BY <1>1, <1>2, <1>4, JobsAdded DEF BulkInv
  <1>6. ASSUME NEW u \in Uploads PROVE UploadSound(u)'
    <2>1. CatalogGrows
      BY <1>1 DEF CatalogGrows
    <2>2. u # "learner"
      BY BulkAssumption
    <2>3. \A m : /\ <<u, m>> \in DOMAIN jobs' <=> <<u, m>> \in DOMAIN jobs
                 /\ <<u, m>> \in DOMAIN jobs => jobs'[<<u, m>>] = jobs[<<u, m>>]
      BY <1>4, <2>2
    <2>4. \A m : JobOpen(u, m) => JobOpen(u, m)'
      BY <2>3 DEF JobOpen
    <2> QED
      BY <1>1, <2>1, <2>3, <2>4, UploadStays DEF BulkInv
  <1> QED
    BY <1>1, <1>5, <1>6 DEF BulkInv

\* What becomes of the row of a job that was run.
LEMMA JobFails ==
  ASSUME NEW r \in JobRows
  PROVE  \E q \in JobRows : /\ q = [r EXCEPT !.status = "failed"]
                            /\ q.status = "failed" /\ q.topicSlugs = r.topicSlugs
                            /\ q.made = r.made
  <1>1. PICK q : q = [r EXCEPT !.status = "failed"]
    OBVIOUS
  <1>2. q \in JobRows /\ q.status = "failed" /\ q.topicSlugs = r.topicSlugs /\ q.made = r.made
    BY <1>1 DEF JobRows
  <1> QED
    BY <1>1, <1>2

LEMMA JobCompletes ==
  ASSUME NEW r \in JobRows, NEW makes \in BOOLEAN
  PROVE  \E q \in JobRows : /\ q = [r EXCEPT !.status = "completed", !.made = makes]
                            /\ q.status = "completed" /\ q.topicSlugs = r.topicSlugs
                            /\ q.made = makes
  <1>1. PICK p : p = [r EXCEPT !.status = "completed"]
    OBVIOUS
  <1>2. p \in JobRows /\ p.status = "completed" /\ p.topicSlugs = r.topicSlugs
    BY <1>1 DEF JobRows
  <1>3. PICK q : q = [p EXCEPT !.made = makes]
    OBVIOUS
  <1>4. q \in JobRows /\ q.status = p.status /\ q.topicSlugs = p.topicSlugs /\ q.made = makes
    BY <1>2, <1>3 DEF JobRows
  <1>5. q = [r EXCEPT !.status = "completed", !.made = makes]
    BY <1>1, <1>3
  <1> QED
    BY <1>2, <1>4, <1>5

LEMMA RunJobKept ==
  ASSUME BulkInv, NEW j \in DOMAIN jobs, RunJob(j)
  PROVE  BulkInv'
  <1> DEFINE makes == j[1] # "learner" /\ j[2] \notin DOMAIN catalog
  <1>1. /\ UNCHANGED <<knownTopics, upload, removed>> /\ JobsSound
        /\ DOMAIN upload = Uploads /\ \A u \in Uploads : UploadSound(u)
    BY DEF RunJob, BulkInv
  <1>2. PICK r \in JobRows : r = jobs[j]
    BY <1>1 DEF JobsSound
  <1>3. makes \in BOOLEAN
    OBVIOUS
  <1>4. ASSUME NEW q \in JobRows, jobs' = [jobs EXCEPT ![j] = q], q.topicSlugs = r.topicSlugs,
               CatalogGrows,
               q.made => \/ r.made
                         \/ /\ j[2] \notin DOMAIN catalog
                            /\ j[2] \in DOMAIN catalog'
                            /\ r.topicSlugs \cap knownTopics \subseteq catalog'[j[2]],
               q.status = "completed" => (q.made => j[2] \notin DOMAIN catalog
                            /\ j[2] \in DOMAIN catalog'
                            /\ r.topicSlugs \cap knownTopics \subseteq catalog'[j[2]])
        PROVE  BulkInv'
    <2>1. /\ DOMAIN jobs' = DOMAIN jobs /\ jobs'[j] = q
          /\ \A i \in DOMAIN jobs : i # j => jobs'[i] = jobs[i]
      BY <1>4
    <2>2. JobsSound'
      <3>1. \A i \in DOMAIN jobs' : /\ jobs'[i] \in JobRows
                                    /\ jobs'[i].made => i[2] \in DOMAIN catalog' \cup removed'
        BY <1>1, <1>2, <1>4, <2>1 DEF JobsSound, CatalogGrows
      <3>2. \A i \in DOMAIN jobs : i # j /\ jobs[i].made /\ q.made /\ i[2] = j[2] => i[2] \in removed
        BY <1>1, <1>2, <1>4 DEF JobsSound
      <3>3. \A h, i \in DOMAIN jobs' :
              jobs'[h].made /\ jobs'[i].made /\ h[2] = i[2] /\ h[2] \notin removed' => h = i
        <4> SUFFICES ASSUME NEW h \in DOMAIN jobs, NEW i \in DOMAIN jobs,
                            jobs'[h].made, jobs'[i].made, h[2] = i[2], h[2] \notin removed, h # i
                     PROVE  FALSE
          BY <1>1, <2>1
        <4>1. CASE h # j /\ i # j
          BY <1>1, <2>1, <4>1 DEF JobsSound
        <4>2. CASE h = j
          BY <2>1, <3>2, <4>2
        <4>3. CASE i = j
          BY <2>1, <3>2, <4>3
        <4> QED
          BY <4>1, <4>2, <4>3
      <3> QED
        BY <3>1, <3>3 DEF JobsSound, JobRows
    <2>3. ASSUME NEW u \in Uploads PROVE UploadSound(u)'
      <3>1. \A l : <<u, l>> \in DOMAIN jobs => jobs'[<<u, l>>].topicSlugs = jobs[<<u, l>>].topicSlugs
        BY <1>2, <1>4, <2>1
      <3>2. ASSUME NEW l, JobOpen(u, l) PROVE JobOpen(u, l)' \/ Lands(u, l)'
        <4>1. CASE <<u, l>> # j
          BY <2>1, <3>2, <4>1 DEF JobOpen
        <4>2. CASE <<u, l>> = j /\ (q.status # "completed" \/ ~q.made)
          BY <2>1, <4>2 DEF JobOpen
        <4>3. CASE <<u, l>> = j /\ q.status = "completed" /\ q.made
          <5>1. j[2] = l /\ r.topicSlugs = upload[u].slugs
            BY <1>1, <1>2, <4>3 DEF UploadSound
          <5> QED
            BY <1>1, <1>4, <4>3, <5>1 DEF Lands
        <4> QED
          BY <4>1, <4>2, <4>3
      <3> QED
        BY <1>1, <1>4, <2>1, <3>1, <3>2, UploadStays
    <2> QED
      BY <1>1, <2>2, <2>3 DEF BulkInv
  <1>5. CASE jobs' = [jobs EXCEPT ![j].status = "failed"] /\ UNCHANGED catalog
    <2>1. PICK q \in JobRows : /\ q = [r EXCEPT !.status = "failed"]
                               /\ q.status = "failed" /\ q.topicSlugs = r.topicSlugs
                               /\ q.made = r.made
      BY JobFails
    <2>2. jobs' = [jobs EXCEPT ![j] = q]
      BY <1>2, <1>5, <2>1
    <2>3. CatalogGrows
      BY <1>1, <1>5 DEF CatalogGrows
    <2> QED
      BY <1>4, <2>1, <2>2, <2>3
  <1>6. CASE /\ jobs' = [jobs EXCEPT ![j].status = "completed", ![j].made = makes]
             /\ catalog' = [l \in DOMAIN catalog \cup (IF makes THEN {j[2]} ELSE {}) |->
                  IF l \in DOMAIN catalog THEN catalog[l] ELSE jobs[j].topicSlugs \cap knownTopics]
    <2>1. PICK made \in BOOLEAN : made = makes
      BY <1>3
    <2>2. PICK q \in JobRows : /\ q = [r EXCEPT !.status = "completed", !.made = made]
                               /\ q.status = "completed" /\ q.topicSlugs = r.topicSlugs
                               /\ q.made = made
      BY JobCompletes
    <2>3. jobs' = [jobs EXCEPT ![j] = q]
      BY <1>2, <1>6, <2>1, <2>2
    <2>4. CatalogGrows
      BY <1>1, <1>6 DEF CatalogGrows
    <2>5. made => /\ j[2] \notin DOMAIN catalog /\ j[2] \in DOMAIN catalog'
                  /\ r.topicSlugs \cap knownTopics \subseteq catalog'[j[2]]
      BY <1>2, <1>6, <2>1
    <2> HIDE DEF makes
    <2> QED
      BY <1>4, <2>2, <2>3, <2>4, <2>5
  <1> QED
    BY <1>5, <1>6 DEF RunJob

LEMMA BulkStepInv == BulkInv /\ [BulkNext]_bulkVars => BulkInv'
  <1> SUFFICES ASSUME BulkInv, [BulkNext]_bulkVars PROVE BulkInv'
    OBVIOUS
  <1>1. CASE UNCHANGED bulkVars
    <2>1. CatalogGrows /\ UNCHANGED <<jobs, upload>>
      BY <1>1 DEF bulkVars, CatalogGrows
    <2> QED
      BY <2>1, CatalogChanges
  <1> QED
    BY <1>1, ListsKept, ReadsKept, LinksKept, SaveJobsKept, QuickCreateKept, QuickCreateUserKept,
       RunJobKept, RemovalsKept DEF BulkNext

-----------------------------------------------------------------------------
(* BulkCreate: what normalizeLemmas makes of a list, and the counts of a batch *)

\* A lemma in one spelling only.
Clean(s) ==
  /\ s \in Seq(Lemmas)
  /\ \A i, j \in 1..Len(s) : LowerCase[s[i]] = LowerCase[s[j]] => i = j

Tallies == [lemmas: Seq(Lemmas), deduped: Nat, capped: BOOLEAN]
NoTally == [lemmas |-> <<>>, deduped |-> 0, capped |-> FALSE]

\* The body of the loop in normalizeLemmas.
Tallied(acc, entry, cap) ==
  IF acc.capped \/ entry = BlankEntry THEN acc
  ELSE IF \E l \in Range(acc.lemmas) : LowerCase[l] = LowerCase[entry]
       THEN [acc EXCEPT !.deduped = @ + 1]
  ELSE IF Len(acc.lemmas) >= cap THEN [acc EXCEPT !.capped = TRUE]
  ELSE [acc EXCEPT !.lemmas = Append(@, entry)]

LEMMA TallyMoves ==
  ASSUME NEW acc \in Tallies, NEW entry \in Lemmas \cup {BlankEntry}, NEW cap \in Nat
  PROVE  /\ Tallied(acc, entry, cap) \in Tallies
         /\ \/ Tallied(acc, entry, cap).lemmas = acc.lemmas
            \/ /\ Tallied(acc, entry, cap).lemmas = Append(acc.lemmas, entry) /\ entry # BlankEntry
               /\ Len(acc.lemmas) < cap
               /\ ~ \E l \in Range(acc.lemmas) : LowerCase[l] = LowerCase[entry]
         /\ entry # BlankEntry /\ ~acc.capped /\ ~(\E l \in Range(acc.lemmas) : LowerCase[l] = LowerCase[entry]) =>
              /\ Len(acc.lemmas) >= cap => Tallied(acc, entry, cap).lemmas = acc.lemmas /\ Tallied(acc, entry, cap).capped
              /\ ~(Len(acc.lemmas) >= cap) => /\ Tallied(acc, entry, cap).lemmas = Append(acc.lemmas, entry)
                                              /\ Tallied(acc, entry, cap).capped = acc.capped
         /\ acc.capped => Tallied(acc, entry, cap) = acc
  <1>1. PICK ls \in Seq(Lemmas), d \in Nat, capped \in BOOLEAN : acc = [lemmas |-> ls, deduped |-> d, capped |-> capped]
    BY DEF Tallies
  <1>2. acc.lemmas = ls /\ acc.deduped = d /\ acc.capped = capped
    BY <1>1
  <1>3. PICK more \in Nat : more = d + 1
    OBVIOUS
  <1>4. CASE capped \/ entry = BlankEntry
    BY <1>2, <1>4, Zenon DEF Tallied
  <1>5. CASE ~(capped \/ entry = BlankEntry) /\ \E l \in Range(ls) : LowerCase[l] = LowerCase[entry]
    <2>1. Tallied(acc, entry, cap) = [acc EXCEPT !.deduped = more]
      BY <1>2, <1>3, <1>5 DEF Tallied
    <2>2. Tallied(acc, entry, cap) = [lemmas |-> ls, deduped |-> more, capped |-> capped]
      BY <1>1, <2>1
    <2> QED
      BY <1>2, <1>5, <2>2 DEF Tallies
  <1>6. CASE /\ ~(capped \/ entry = BlankEntry) /\ ~ \E l \in Range(ls) : LowerCase[l] = LowerCase[entry]
             /\ Len(ls) >= cap
    <2>1. Tallied(acc, entry, cap) = [acc EXCEPT !.capped = TRUE]
      BY <1>2, <1>6, Zenon DEF Tallied
    <2>2. Tallied(acc, entry, cap) = [lemmas |-> ls, deduped |-> d, capped |-> TRUE]
      BY <1>1, <2>1
    <2>3. Tallied(acc, entry, cap) \in Tallies
      BY <2>2 DEF Tallies
    <2>4. Tallied(acc, entry, cap).lemmas = acc.lemmas /\ Tallied(acc, entry, cap).capped
      BY <1>2, <2>2
    <2>5. Len(acc.lemmas) >= cap /\ ~acc.capped
      BY <1>2, <1>6
    <2> QED
      BY <2>3, <2>4, <2>5
  <1>7. CASE /\ ~(capped \/ entry = BlankEntry) /\ ~ \E l \in Range(ls) : LowerCase[l] = LowerCase[entry]
             /\ ~(Len(ls) >= cap)
    <2>0. entry \in Lemmas
      BY <1>7
    <2>a. Append(ls, entry) \in Seq(Lemmas)
      BY <2>0
    <2>1. PICK longer \in Seq(Lemmas) : longer = Append(ls, entry)
      BY <2>a, Zenon
    <2>2. Tallied(acc, entry, cap) = [acc EXCEPT !.lemmas = longer]
      BY <1>2, <1>7, <2>1, Zenon DEF Tallied
    <2>3. Tallied(acc, entry, cap) = [lemmas |-> longer, deduped |-> d, capped |-> capped]
      BY <1>1, <2>2
    <2> QED
      BY <1>2, <1>7, <2>1, <2>3 DEF Tallies
  <1> QED
    BY <1>4, <1>5, <1>6, <1>7

\* run is what the loop of normalizeLemmas has after each entry.
TallyRun(run, raw, cap) ==
  /\ run \in [0..Len(raw) -> Tallies]
  /\ run[0] = NoTally /\ NormalizeLemmas(raw, cap) = run[Len(raw)]
  /\ \A k \in 1..Len(raw) : run[k] = Tallied(run[k - 1], raw[k], cap)

\* normalizeLemmas goes through the list, one entry after the other.
LEMMA Normalizes ==
  ASSUME NEW raw \in Seq(Lemmas \cup {BlankEntry}), NEW cap \in Nat
  PROVE  \E run : TallyRun(run, raw, cap)
  <1> DEFINE n == Len(raw)
             step == [p \in (1..n) \X Tallies |-> Tallied(p[2], raw[p[1]], cap)]
             Eq(f) == f = [s \in SUBSET DOMAIN raw |->
                             IF s = {} THEN NoTally ELSE Tallied(f[s \ {Max(s)}], raw[Max(s)], cap)]
             it == CHOOSE f : Eq(f)
  <1>0. n \in Nat /\ DOMAIN raw = 1..n /\ IsFiniteSet(1..n) /\ \A i \in 1..n : raw[i] \in Lemmas \cup {BlankEntry}
    BY FS_Interval
  <1>1. step \in [(1..n) \X Tallies -> Tallies]
    BY <1>0, TallyMoves
  <1>2. \A s \in SUBSET (1..n) : s # {} => Max(s) \in s
    <2> TAKE s \in SUBSET (1..n)
    <2>1. s \in SUBSET Int
      BY <1>0
    <2>2. IsFiniteSet(s)
      BY <1>0, FS_Subset, Zenon
    <2> QED
      BY <2>1, <2>2, GreatestOf, Zenon
  <1>3. NormalizeLemmas(raw, cap) = it[DOMAIN raw]
    BY DEF NormalizeLemmas, FoldLeft, MapThenFoldSet, Tallied, NoTally
  <1>4. PICK f \in [SUBSET (1..n) -> Tallies] : SolvesMaxFold(f, n, NoTally, step)
    <2>1. NoTally \in Tallies
      BY DEF NoTally, Tallies
    <2> HIDE DEF n, step
    <2> QED
      BY <1>0, <1>1, <2>1, FoldOfPrefixes, Zenon
  <1>5. Eq(f)
    <2>1. \A s \in SUBSET (1..n) : s # {} => step[<<Max(s), f[s \ {Max(s)}]>>] = Tallied(f[s \ {Max(s)}], raw[Max(s)], cap)
      <3> TAKE s \in SUBSET (1..n)
      <3> HAVE s # {}
      <3>1. Max(s) \in 1..n /\ f[s \ {Max(s)}] \in Tallies
        BY <1>2
      <3> QED
        BY <3>1
    <2>2. \A s \in SUBSET (1..n) : f[s] = IF s = {} THEN NoTally ELSE Tallied(f[s \ {Max(s)}], raw[Max(s)], cap)
      <3> HIDE DEF n, step
      <3> TAKE s \in SUBSET (1..n)
      <3>1. f[s] = IF s = {} THEN NoTally ELSE step[<<Max(s), f[s \ {Max(s)}]>>]
        BY <1>4, Zenon DEF SolvesMaxFold
      <3> QED
        BY <3>1, <2>1, Zenon
    <2> QED
      BY <1>0, <2>2, Zenon
  <1>6. Eq(it)
    <2> HIDE DEF Eq
    <2> QED
      BY <1>5
  <1>7. it[{}] = NoTally /\ \A s \in SUBSET (1..n) : s # {} => it[s] = Tallied(it[s \ {Max(s)}], raw[Max(s)], cap)
    <2> HIDE DEF it
    <2> QED
      BY <1>0, <1>6, Zenon
  <1>8. \A k \in 1..n : it[1..(k - 1)] \in Tallies => it[1..k] = step[<<k, it[1..(k - 1)]>>]
    <2> TAKE k \in 1..n
    <2> HAVE it[1..(k - 1)] \in Tallies
    <2>1. k \in Nat /\ k >= 1 /\ 1..k \in SUBSET (1..n) /\ 1..k # {}
      BY <1>0
    <2>2. Max(1..k) = k /\ (1..k) \ {k} = 1..(k - 1)
      BY <2>1, MaxOfPrefix, Zenon
    <2>3. it[1..k] = Tallied(it[1..(k - 1)], raw[k], cap)
      <3> HIDE DEF it, n
      <3> QED
        BY <2>1, <2>2, <1>7, Zenon
    <2>4. <<k, it[1..(k - 1)]>> \in (1..n) \X Tallies
      <3> HIDE DEF it, n
      <3> QED
        BY Zenon
    <2> HIDE DEF it, n
    <2> QED
      BY <2>3, <2>4
  <1>9. PICK run \in [0..n -> Tallies] : RunsAlong(run, it, n, step)
    <2>1. NoTally \in Tallies
      BY DEF NoTally, Tallies
    <2>2. GoesOn(it, n, Tallies, step)
      <3> HIDE DEF it, n, step
      <3> QED
        BY <1>8, Zenon DEF GoesOn
    <2> HIDE DEF it, n, step
    <2> QED
      BY <1>0, <1>1, <1>7, <2>1, <2>2, RunExists, Zenon
  <1>10. \A k \in 1..n : run[k] = Tallied(run[k - 1], raw[k], cap)
    <2> TAKE k \in 1..n
    <2>1. k - 1 \in 0..n
      BY <1>0
    <2>2. run[k - 1] \in Tallies
      BY <2>1
    <2>3. run[k] = step[<<k, run[k - 1]>>]
      <3> HIDE DEF it, n, step
      <3> QED
        BY <1>9, Zenon DEF RunsAlong
    <2> HIDE DEF it, n
    <2> QED
      BY <2>2, <2>3
  <1>11. run[0] = NoTally /\ run[n] = it[DOMAIN raw]
    <2> HIDE DEF it, n, step
    <2> QED
      BY <1>0, <1>7, <1>9, Zenon DEF RunsAlong
  <1> QED
    <2> HIDE DEF it
    <2> QED
      BY <1>3, <1>10, <1>11, Zenon DEF TallyRun

\* No lemma is taken twice, in whatever spelling.
LEMMA NormalizedClean ==
  ASSUME NEW raw \in Seq(Lemmas \cup {BlankEntry}), NEW cap \in Nat, BulkAssumption
  PROVE  Clean(NormalizeLemmas(raw, cap).lemmas)
  <1> DEFINE n == Len(raw)
  <1>0. n \in Nat /\ (\A i \in 1..n : raw[i] \in Lemmas \cup {BlankEntry}) /\ BlankEntry \notin Lemmas
    BY DEF BulkAssumption, Lemmas
  <1>1. PICK run : TallyRun(run, raw, cap)
    BY Normalizes, Zenon
  <1>2. /\ run \in [0..n -> Tallies] /\ run[0] = NoTally /\ NormalizeLemmas(raw, cap) = run[n]
        /\ \A k \in 1..n : run[k] = Tallied(run[k - 1], raw[k], cap)
    BY ONLY <1>1, Zenon DEF TallyRun
  <1> HIDE DEF n
  <1> DEFINE T == {k \in Nat : k <= n => Clean(run[k].lemmas)}
  <1>3. 0 \in T
    <2>1. run[0].lemmas = <<>>
      BY <1>2 DEF NoTally
    <2>2. Clean(<<>>)
      BY DEF Clean
    <2> QED
      BY <2>1, <2>2
  <1>4. \A k \in Nat : k \in T => k + 1 \in T
    <2> TAKE k \in Nat
    <2> HAVE k \in T
    <2> SUFFICES ASSUME k + 1 <= n PROVE Clean(run[k + 1].lemmas)
      OBVIOUS
    <2>1. (k + 1) - 1 = k /\ k + 1 \in 1..n /\ k \in 0..n
      BY <1>0
    <2>2. PICK acc \in Tallies : acc = run[k]
      BY <1>2, <2>1
    <2>3. PICK entry \in Lemmas \cup {BlankEntry} : entry = raw[k + 1]
      BY <1>0, <2>1
    <2>4. run[k + 1] = Tallied(acc, entry, cap)
      BY <1>2, <2>1, <2>2, <2>3
    <2>5. Clean(acc.lemmas)
      BY <2>1, <2>2
    <2>6. \/ Tallied(acc, entry, cap).lemmas = acc.lemmas
          \/ /\ Tallied(acc, entry, cap).lemmas = Append(acc.lemmas, entry) /\ entry # BlankEntry
             /\ ~ \E l \in Range(acc.lemmas) : LowerCase[l] = LowerCase[entry]
      BY TallyMoves, ZenonT(30)
    <2>7. CASE Tallied(acc, entry, cap).lemmas = acc.lemmas
      BY <2>4, <2>5, <2>7
    <2>8. CASE /\ Tallied(acc, entry, cap).lemmas = Append(acc.lemmas, entry) /\ entry # BlankEntry
               /\ ~ \E l \in Range(acc.lemmas) : LowerCase[l] = LowerCase[entry]
      <3>1. PICK ls : ls = acc.lemmas
        OBVIOUS
      <3>2. ls \in Seq(Lemmas) /\ Len(ls) \in Nat /\ entry \in Lemmas
            /\ \A i, j \in 1..Len(ls) : LowerCase[ls[i]] = LowerCase[ls[j]] => i = j
        <4>1. Clean(ls)
          BY <2>5, <3>1
        <4>2. entry \in Lemmas
          BY <2>8
        <4> QED
          BY ONLY <4>1, <4>2 DEF Clean
      <3>3. \A i \in 1..Len(ls) : LowerCase[ls[i]] # LowerCase[entry]
        BY <2>8, <3>1, <3>2 DEF Range
      <3>4. PICK longer : longer = Append(ls, entry)
        OBVIOUS
      <3>5. longer \in Seq(Lemmas) /\ Len(longer) = Len(ls) + 1 /\ longer[Len(ls) + 1] = entry
            /\ \A i \in 1..Len(ls) : longer[i] = ls[i]
        BY ONLY <3>2, <3>4
      <3>6. \A i \in 1..Len(longer) : i \in 1..Len(ls) \/ i = Len(ls) + 1
        BY ONLY <3>2, <3>5
      <3>7. \A i, j \in 1..Len(longer) : LowerCase[longer[i]] = LowerCase[longer[j]] => i = j
        BY ONLY <3>2, <3>3, <3>5, <3>6
      <3> QED
        BY <2>4, <2>8, <3>1, <3>4, <3>5, <3>7 DEF Clean
    <2> QED
      BY <2>6, <2>7, <2>8
  <1>5. n \in T
    <2> HIDE DEF T
    <2> QED
      BY <1>0, <1>3, <1>4, Induct
  <1> QED
    BY <1>0, <1>2, <1>5

\* list begins with what kept is, and kept has all of it or cap entries.
Shown(kept, list, cap) ==
  /\ Len(kept) = IF Len(list) <= cap THEN Len(list) ELSE cap
  /\ \A i \in 1..Len(kept) : kept[i] = list[i]

\* A list that was normalized is taken as it is, up to the limit.
LEMMA NormalizedAgain ==
  ASSUME NEW raw, Clean(raw), NEW cap \in Nat, BulkAssumption
  PROVE  Shown(NormalizeLemmas(raw, cap).lemmas, raw, cap)
  <1> DEFINE n == Len(raw)
  <1>0. /\ raw \in Seq(Lemmas) /\ raw \in Seq(Lemmas \cup {BlankEntry})
        /\ n \in Nat /\ (\A i \in 1..n : raw[i] \in Lemmas) /\ BlankEntry \notin Lemmas
        /\ \A i, j \in 1..n : LowerCase[raw[i]] = LowerCase[raw[j]] => i = j
    BY DEF BulkAssumption, Lemmas, Clean
  <1>1. PICK run : TallyRun(run, raw, cap)
    BY <1>0, Normalizes, Zenon
  <1>2. /\ run \in [0..n -> Tallies] /\ run[0] = NoTally /\ NormalizeLemmas(raw, cap) = run[n]
        /\ \A k \in 1..n : run[k] = Tallied(run[k - 1], raw[k], cap)
    BY ONLY <1>1, Zenon DEF TallyRun
  <1> HIDE DEF n
  <1> DEFINE Told(k) == IF k <= cap THEN k ELSE cap
             AfterEntry(k) == /\ Len(run[k].lemmas) = Told(k) /\ (run[k].capped <=> k > cap)
                      /\ \A i \in 1..Told(k) : run[k].lemmas[i] = raw[i]
             T == {k \in Nat : k <= n => AfterEntry(k)}
  <1>3. 0 \in T
    BY <1>2 DEF NoTally
  <1>4. \A k \in Nat : k \in T => k + 1 \in T
    <2> TAKE k \in Nat
    <2> HAVE k \in T
    <2> SUFFICES ASSUME k + 1 <= n PROVE AfterEntry(k + 1)
      OBVIOUS
    <2>1. (k + 1) - 1 = k /\ k + 1 \in 1..n /\ k \in 0..n
      BY <1>0
    <2>2. PICK acc \in Tallies : acc = run[k]
      BY <1>2, <2>1
    <2>3. PICK entry \in Lemmas : entry = raw[k + 1]
      BY <1>0, <2>1
    <2>4. run[k + 1] = Tallied(acc, entry, cap)
      BY <1>2, <2>1, <2>2, <2>3
    <2>5. PICK ls \in Seq(Lemmas) : ls = acc.lemmas
      BY DEF Tallies
    <2>6. Len(ls) = Told(k) /\ (acc.capped <=> k > cap) /\ \A i \in 1..Told(k) : ls[i] = raw[i]
      BY <2>1, <2>2, <2>5
    <2>7. CASE k > cap
      <3>1. acc.capped
        BY <2>6, <2>7
      <3>2. Tallied(acc, entry, cap) = acc
        BY <3>1 DEF Tallied
      <3>3. run[k + 1] = run[k]
        BY <2>2, <2>4, <3>2
      <3>4. Told(k + 1) = Told(k) /\ k + 1 > cap
        BY ONLY <2>7, k \in Nat, cap \in Nat
      <3> QED
        BY <2>1, <2>7, <3>3, <3>4
    <2>8. CASE ~(k > cap)
      <3>1. Len(ls) = k /\ ~acc.capped
        BY <2>6, <2>8
      <3>2. \A i \in 1..k : LowerCase[ls[i]] # LowerCase[entry]
        <4> TAKE i \in 1..k
        <4>1. i \in 1..n /\ i # k + 1 /\ ls[i] = raw[i]
          BY <1>0, <2>1, <2>6, <2>8
        <4> QED
          BY <1>0, <2>1, <2>3, <4>1
      <3>3. ~ \E l \in Range(acc.lemmas) : LowerCase[l] = LowerCase[entry]
        BY <2>5, <3>1, <3>2 DEF Range
      <3>4. entry # BlankEntry /\ entry \in Lemmas \cup {BlankEntry}
        BY <1>0
      <3>5. /\ Len(acc.lemmas) >= cap => Tallied(acc, entry, cap).lemmas = acc.lemmas /\ Tallied(acc, entry, cap).capped
            /\ ~(Len(acc.lemmas) >= cap) => /\ Tallied(acc, entry, cap).lemmas = Append(acc.lemmas, entry)
                                            /\ Tallied(acc, entry, cap).capped = acc.capped
        BY <3>1, <3>3, <3>4, TallyMoves, Zenon
      <3>6. CASE k >= cap
        <4>1. run[k + 1].lemmas = ls /\ run[k + 1].capped
          BY <2>4, <2>5, <3>1, <3>5, <3>6
        <4>2. k = cap /\ Told(k + 1) = k /\ Told(k) = k /\ k + 1 > cap
          BY ONLY <2>8, <3>6, k \in Nat, cap \in Nat
        <4> QED
          BY <2>6, <4>1, <4>2
      <3>7. CASE ~(k >= cap)
        <4>1. run[k + 1].lemmas = Append(ls, entry) /\ ~run[k + 1].capped
          BY <2>4, <2>5, <3>1, <3>5, <3>7
        <4>2. Told(k + 1) = k + 1 /\ Told(k) = k /\ ~(k + 1 > cap)
          BY ONLY <3>7, k \in Nat, cap \in Nat
        <4>3. PICK longer : longer = Append(ls, entry)
          OBVIOUS
        <4>4. Len(longer) = k + 1 /\ longer[k + 1] = entry /\ \A i \in 1..k : longer[i] = ls[i]
          BY ONLY <2>5, <3>1, <4>3, entry \in Lemmas
        <4>5. \A i \in 1..(k + 1) : longer[i] = raw[i]
          BY <2>3, <2>6, <4>2, <4>4
        <4> QED
          BY <4>1, <4>2, <4>3, <4>4, <4>5
      <3> QED
        BY <3>6, <3>7
    <2> QED
      BY <2>7, <2>8
  <1>5. n \in T
    <2> HIDE DEF T
    <2> QED
      BY <1>0, <1>3, <1>4, Induct
  <1> QED
    BY <1>0, <1>2, <1>5 DEF Shown, n

\* What tokenize makes of a text.
LEMMA TokensOfText ==
  ASSUME BulkAssumption, NEW text \in Pastes, NEW mode
  PROVE  Tokenize(text, mode) \in Seq(Lemmas \cup {BlankEntry})
  <1>0. text \in Seq(Lemmas \cup {BlankEntry}) /\ \A e \in Lemmas : LowerCase[e] \in Lemmas
    BY DEF BulkAssumption, Lemmas, Range
  <1> DEFINE E == Lemmas \cup {BlankEntry}
             I == {i \in DOMAIN text : text[i] # BlankEntry}
             entries == TakenAt(text, I)
  <1>1. Filtered(text, LAMBDA e : e # BlankEntry) = entries
    BY DEF Filtered, Ranked, Ascending, TakenAt
  <1>2. SiftedTo(entries, text, I, E)
    <2>1. I \in SUBSET DOMAIN text
      OBVIOUS
    <2>2. text \in Seq(E)
      BY <1>0
    <2> HIDE DEF I, E
    <2> QED
      BY <2>1, <2>2, FilteredList, Zenon
  <1>a. /\ entries \in Seq(E) /\ Len(entries) \in Nat
        /\ \A k \in 1..Len(entries) : Ascending(I)[k] \in I /\ entries[k] = text[Ascending(I)[k]]
    BY ONLY <1>2, Zenon DEF SiftedTo
  <1>3. \A k \in 1..Len(entries) : entries[k] \in Lemmas
    <2> TAKE k \in 1..Len(entries)
    <2>1. Ascending(I)[k] \in I /\ entries[k] = text[Ascending(I)[k]]
      BY <1>a, Zenon
    <2>2. PICK p \in I : p = Ascending(I)[k]
      BY <2>1
    <2>3. text[p] \in E /\ text[p] # BlankEntry
      BY <1>0
    <2> HIDE DEF entries
    <2> QED
      BY <2>1, <2>2, <2>3
  <1>4. PICK es \in Seq(Lemmas) : es = entries /\ Len(es) \in Nat
    <2> HIDE DEF I
    <2>1. entries \in Seq(Lemmas)
      <3> HIDE DEF entries
      <3> QED
        BY <1>a, <1>3
    <2> QED
      BY <2>1
  <1> HIDE DEF entries
  <1>5. CASE mode = "list"
    <2>1. Tokenize(text, mode) = es
      BY <1>1, <1>4, <1>5, Zenon DEF Tokenize
    <2> QED
      BY <2>1
  <1>6. CASE mode # "list"
    <2> DEFINE low == [i \in DOMAIN es |-> LowerCase[es[i]]]
               J == {i \in DOMAIN low : low[i] \notin Stopwords}
               rest == TakenAt(low, J)
    <2>1. low \in Seq(Lemmas)
      BY <1>0, <1>4
    <2>2. Tokenize(text, mode) = Filtered(low, LAMBDA e : e \notin Stopwords)
      BY <1>1, <1>4, <1>6 DEF Tokenize
    <2> HIDE DEF low
    <2>3. Filtered(low, LAMBDA e : e \notin Stopwords) = rest
      BY DEF Filtered, Ranked, Ascending, TakenAt
    <2>4. rest \in Seq(Lemmas)
      <3>1. J \in SUBSET DOMAIN low
        OBVIOUS
      <3> HIDE DEF J
      <3>2. SiftedTo(TakenAt(low, J), low, J, Lemmas)
        BY <2>1, <3>1, FilteredList, Zenon
      <3> QED
        BY <3>2, Zenon DEF SiftedTo
    <2> QED
      BY <2>2, <2>3, <2>4
  <1> QED
    BY <1>5, <1>6

\* What is extracted holds no lemma twice.
LEMMA ExtractedClean ==
  ASSUME BulkAssumption, NEW text \in Pastes, NEW mode
  PROVE  Clean(ExtractLemmas(text, mode))
  <1>1. PICK entries \in Seq(Lemmas \cup {BlankEntry}) : entries = Tokenize(text, mode)
    BY TokensOfText
  <1>2. ExtractCap \in Nat
    BY DEF BulkAssumption
  <1>3. PICK list : list = NormalizeLemmas(entries, ExtractCap).lemmas
    OBVIOUS
  <1>4. Clean(list)
    BY <1>2, <1>3, NormalizedClean, Zenon
  <1>5. list \in Seq(Lemmas) /\ \A i, j \in 1..Len(list) : LowerCase[list[i]] = LowerCase[list[j]] => i = j
    BY <1>4 DEF Clean
  <1> DEFINE I == {i \in DOMAIN list : list[i] \notin DOMAIN catalog}
             places == Ascending(I)
             kept == TakenAt(list, I)
  <1>6. ExtractLemmas(text, mode) = kept
    BY <1>1, <1>3 DEF ExtractLemmas, Filtered, Ranked, Ascending, TakenAt
  <1>7. /\ kept \in Seq(Lemmas) /\ Len(kept) \in Nat
        /\ \A k \in 1..Len(kept) : places[k] \in I /\ kept[k] = list[places[k]]
        /\ \A k, l \in 1..Len(kept) : places[k] = places[l] => k = l
    <2>1. I \in SUBSET DOMAIN list
      OBVIOUS
    <2> HIDE DEF I
    <2>2. SiftedTo(TakenAt(list, I), list, I, Lemmas)
      BY <1>5, <2>1, FilteredList, Zenon
    <2> QED
      BY <2>2, Zenon DEF SiftedTo
  <1>8. \A k, l \in 1..Len(kept) : LowerCase[kept[k]] = LowerCase[kept[l]] => k = l
    <2> HIDE DEF kept, places
    <2>1. \A k \in 1..Len(kept) : places[k] \in 1..Len(list)
      BY <1>5, <1>7
    <2> TAKE k, l \in 1..Len(kept)
    <2> HAVE LowerCase[kept[k]] = LowerCase[kept[l]]
    <2>2. LowerCase[list[places[k]]] = LowerCase[list[places[l]]]
      BY <1>7, Zenon
    <2>3. places[k] = places[l]
      BY <1>5, <2>1, <2>2, Zenon
    <2> QED
      BY <1>7, <2>3, Zenon
  <1> HIDE DEF kept
  <1> QED
    BY <1>6, <1>7, <1>8 DEF Clean

-----------------------------------------------------------------------------
(* The invariant of the lists: what a request holds, and the jobs it made *)

UploadStages ==
  {"idle", "reviewing", "validated", "tagging", "linking", "saving", "answered", "refused"}

\* A request's row: its lists hold no lemma twice, and what it takes is of its list.
ListsClean(k) ==
  /\ k.pc \in UploadStages /\ Clean(k.lemmas) /\ Clean(k.list)
  /\ k.list # <<>> /\ k.lemmas # <<>> => Shown(k.lemmas, k.list, BulkMax)
  /\ k.taken \cup k.existing \subseteq Range(k.lemmas)
  /\ k.pc \in {"idle", "reviewing"} => k.lemmas = <<>>
  /\ k.pc = "idle" => k.list = <<>>

\* The jobs of a request are as many as it accepted; it has none before it is answered.
JobsOf(u) == {j \in DOMAIN jobs : j[1] = u}
JobsCounted(u) ==
  /\ IsFiniteSet(JobsOf(u)) /\ Cardinality(JobsOf(u)) = upload[u].accepted
  /\ upload[u].pc # "answered" => JobsOf(u) = {}

CatalogSound ==
  /\ DOMAIN catalog \subseteq Lemmas /\ knownTopics \subseteq BulkSlugs
  /\ \A l \in DOMAIN catalog : catalog[l] \subseteq knownTopics
  /\ removed \subseteq Lemmas
  /\ DOMAIN jobs \subseteq (Uploads \cup {"learner"}) \X Lemmas

BatchInv ==
  /\ CatalogSound
  /\ \A u \in Uploads : ListsClean(upload[u]) /\ JobsCounted(u)

LEMMA NothingClean == Clean(<<>>) /\ Range(<<>>) = {}
  BY DEF Clean, Range

\* The row of a request that has nothing, but where it is.
LEMMA EmptyClean ==
  ASSUME NEW k, k.pc \in UploadStages, k.list = <<>>, k.lemmas = <<>>, k.taken = {}, k.existing = {}
  PROVE  ListsClean(k)
  BY NothingClean, Zenon DEF ListsClean

LEMMA BatchInitInv == BulkInit => BatchInv
  <1> SUFFICES ASSUME BulkInit PROVE BatchInv
    OBVIOUS
  <1>1. DOMAIN jobs = {} /\ DOMAIN catalog = {} /\ knownTopics = BulkSlugs /\ removed = {}
    BY DEF BulkInit
  <1>2. CatalogSound
    BY <1>1 DEF CatalogSound
  <1>3. ASSUME NEW u \in Uploads PROVE ListsClean(upload[u]) /\ JobsCounted(u)
    <2>1. PICK k : k = upload[u]
      OBVIOUS
    <2>2. /\ k.pc = "idle" /\ k.list = <<>> /\ k.lemmas = <<>> /\ k.taken = {} /\ k.existing = {}
          /\ k.accepted = 0
      BY <2>1 DEF BulkInit, UploadIdle
    <2>3. k.pc \in UploadStages
      BY <2>2 DEF UploadStages
    <2>4. ListsClean(k)
      BY <2>2, <2>3, EmptyClean, Zenon
    <2>5. JobsOf(u) = {}
      BY <1>1 DEF JobsOf
    <2> QED
      BY <2>1, <2>2, <2>4, <2>5, FS_EmptySet DEF JobsCounted
  <1> QED
    BY <1>2, <1>3 DEF BatchInv

\* A request moves on without a job, and is not answered yet.
LEMMA RequestReads ==
  ASSUME BatchInv, NEW u \in Uploads, NEW k, DOMAIN upload = Uploads, upload' = [upload EXCEPT ![u] = k],
         UNCHANGED jobs, CatalogSound', upload[u].pc # "answered",
         ListsClean(k), k.accepted = upload[u].accepted
  PROVE  BatchInv'
  <1>1. upload'[u] = k /\ \A v \in Uploads : v # u => upload'[v] = upload[v]
    OBVIOUS
  <1>2. \A v \in Uploads : JobsOf(v)' = JobsOf(v)
    BY DEF JobsOf
  <1>3. JobsOf(u) = {} /\ JobsCounted(u)
    BY DEF BatchInv, JobsCounted
  <1>4. ASSUME NEW v \in Uploads PROVE ListsClean(upload'[v]) /\ JobsCounted(v)'
    <2>1. CASE v = u
      BY <1>1, <1>2, <1>3, <2>1 DEF JobsCounted
    <2>2. CASE v # u
      BY <1>1, <1>2, <2>2 DEF JobsCounted, BatchInv
    <2> QED
      BY <2>1, <2>2
  <1> QED
    BY <1>4 DEF BatchInv

\* A request that has no job accepts none.
LEMMA NoneAccepted ==
  ASSUME BatchInv, NEW u \in Uploads, upload[u].pc # "answered"
  PROVE  upload[u].accepted = 0
  BY FS_EmptySet DEF BatchInv, JobsCounted

LEMMA IdleRow == UploadIdle.list = <<>> /\ UploadIdle.existing = {} /\ UploadIdle.accepted = 0
  BY DEF UploadIdle

\* Steps that change the catalog alone.
LEMMA BatchElsewhere ==
  ASSUME BatchInv, UNCHANGED upload, DOMAIN jobs' = DOMAIN jobs, CatalogSound'
  PROVE  BatchInv'
  <1>1. \A v \in Uploads : JobsOf(v)' = JobsOf(v)
    BY DEF JobsOf
  <1> QED
    BY <1>1 DEF BatchInv, JobsCounted

LEMMA CatalogSame ==
  ASSUME CatalogSound, UNCHANGED <<catalog, knownTopics, jobs, removed>>
  PROVE  CatalogSound'
  BY DEF CatalogSound

LEMMA BatchListsKept ==
  ASSUME BulkInv, BatchInv, BulkAssumption, NEW u \in Uploads, Extract(u) \/ BulkQuickCreateVocabulary(u)
  PROVE  BatchInv'
  <1>1. UNCHANGED <<catalog, knownTopics, jobs, removed>> /\ upload[u].pc # "answered"
        /\ DOMAIN upload = Uploads /\ DOMAIN upload[u] = UploadFields /\ ListsClean(upload[u])
    BY DEF Extract, BulkQuickCreateVocabulary, UploadAt, BulkInv, UploadSound, BatchInv
  <1>2. CatalogSound' /\ upload[u].accepted = 0
    BY <1>1, CatalogSame, NoneAccepted DEF BatchInv
  <1>3. CASE Extract(u)
    <2>1. PICK text \in Pastes, mode \in {"list", "prose"} :
            Proceeds(u, [UploadIdle EXCEPT !.pc = "reviewing", !.list = ExtractLemmas(text, mode)])
      BY <1>3 DEF Extract
    <2>2. PICK list : list = ExtractLemmas(text, mode)
      OBVIOUS
    <2>3. PICK k : k = [UploadIdle EXCEPT !.pc = "reviewing", !.list = list]
      OBVIOUS
    <2>4. upload' = [upload EXCEPT ![u] = k]
      BY <2>1, <2>2, <2>3 DEF Proceeds
    <2>5. /\ k.pc = "reviewing" /\ k.lemmas = <<>> /\ k.list = list /\ k.taken = {} /\ k.existing = {}
          /\ k.accepted = 0
      BY <2>3 DEF UploadIdle
    <2>6. Clean(list)
      BY <2>2, ExtractedClean
    <2>7. ListsClean(k)
      BY <2>5, <2>6, NothingClean DEF ListsClean, UploadStages
    <2> QED
      BY <1>1, <1>2, <2>4, <2>5, <2>7, RequestReads
  <1>4. CASE BulkQuickCreateVocabulary(u)
    <2> DEFINE pcOf(lemmas, slugs) == IF lemmas = <<>> THEN "answered"
                                      ELSE IF ValidateTopicSlugs(slugs) THEN "validated" ELSE "refused"
    <2>0. upload[u].pc \in {"idle", "reviewing"}
      BY <1>4 DEF BulkQuickCreateVocabulary
    <2>1. PICK list \in IF UploadAt(u, "idle") THEN Pastes ELSE {upload[u].list}, slugs \in SUBSET BulkSlugs :
            Proceeds(u, [upload[u] EXCEPT !.lemmas = NormalizeLemmas(list, BulkMax).lemmas, !.slugs = slugs,
                                          !.pc = pcOf(NormalizeLemmas(list, BulkMax).lemmas, slugs)])
      BY <1>4 DEF BulkQuickCreateVocabulary
    <2>2. PICK lemmas : lemmas = NormalizeLemmas(list, BulkMax).lemmas
      OBVIOUS
    <2>3. PICK pc \in {"answered", "validated", "refused"} : pc = pcOf(lemmas, slugs)
      OBVIOUS
    <2>4. PICK k : k = [upload[u] EXCEPT !.lemmas = lemmas, !.slugs = slugs, !.pc = pc]
      OBVIOUS
    <2>5. upload' = [upload EXCEPT ![u] = k]
      BY <2>1, <2>2, <2>3, <2>4 DEF Proceeds
    <2>6. /\ k.pc = pc /\ k.lemmas = lemmas /\ k.list = upload[u].list
          /\ k.taken = upload[u].taken /\ k.existing = upload[u].existing /\ k.accepted = upload[u].accepted
      BY <1>1, <2>4, IdleUpload
    <2>7. upload[u].lemmas = <<>> /\ upload[u].taken = {} /\ upload[u].existing = {} /\ Clean(upload[u].list)
      BY <1>1, <2>0, NothingClean DEF ListsClean
    <2>8. list \in Seq(Lemmas \cup {BlankEntry}) /\ BulkMax \in Nat
      BY <2>1, <2>7 DEF BulkAssumption, Lemmas, Clean
    <2>9. Clean(lemmas)
      BY <2>2, <2>8, NormalizedClean, Zenon
    <2>10. upload[u].list # <<>> => Shown(lemmas, upload[u].list, BulkMax)
      <3> HAVE upload[u].list # <<>>
      <3>1. list = upload[u].list
        BY <1>1, <2>1 DEF ListsClean, UploadAt
      <3> QED
        BY <2>2, <2>7, <2>8, <3>1, NormalizedAgain
    <2>11. pc \in UploadStages /\ pc \notin {"idle", "reviewing"}
      BY DEF UploadStages
    <2>12. ListsClean(k)
      BY ONLY <2>6, <2>7, <2>9, <2>10, <2>11 DEF ListsClean
    <2> QED
      BY <1>1, <1>2, <2>5, <2>6, <2>12, RequestReads
  <1> QED
    BY <1>3, <1>4

LEMMA BatchReadsKept ==
  ASSUME BulkInv, BatchInv, NEW u \in Uploads, LemmasAlreadyHandled(u) \/ TagExistingRead(u)
  PROVE  BatchInv'
  <1>1. UNCHANGED <<catalog, knownTopics, jobs, removed>> /\ upload[u].pc \in {"validated", "tagging"}
        /\ DOMAIN upload = Uploads /\ DOMAIN upload[u] = UploadFields /\ ListsClean(upload[u])
    BY DEF LemmasAlreadyHandled, TagExistingRead, UploadAt, BulkInv, UploadSound, BatchInv
  <1>2. CatalogSound'
    BY <1>1, CatalogSame DEF BatchInv
  <1>3. CASE LemmasAlreadyHandled(u)
    <2>1. PICK deferred \in SUBSET Asked(u), pc \in {"saving", "tagging"} :
            Proceeds(u, [upload[u] EXCEPT !.taken = deferred \cup (Asked(u) \cap DOMAIN catalog),
                              !.deferred = deferred, !.pc = pc])
      BY <1>3 DEF LemmasAlreadyHandled
    <2>2. PICK taken \in SUBSET Asked(u) : taken = deferred \cup (Asked(u) \cap DOMAIN catalog)
      OBVIOUS
    <2>3. PICK k : k = [upload[u] EXCEPT !.taken = taken, !.deferred = deferred, !.pc = pc]
      OBVIOUS
    <2>4. upload' = [upload EXCEPT ![u] = k]
      BY <2>1, <2>2, <2>3 DEF Proceeds
    <2>5. /\ k.pc = pc /\ k.lemmas = upload[u].lemmas /\ k.list = upload[u].list
          /\ k.taken = taken /\ k.existing = upload[u].existing /\ k.accepted = upload[u].accepted
      BY <1>1, <2>3, IdleUpload
    <2>6. ListsClean(k)
      BY <1>1, <2>5 DEF ListsClean, UploadStages, Asked
    <2> QED
      BY <1>1, <1>2, <2>4, <2>5, <2>6, RequestReads
  <1>4. CASE TagExistingRead(u)
    <2>1. PICK existing \in SUBSET Asked(u), pc \in {"saving", "linking"} :
            Proceeds(u, [upload[u] EXCEPT !.existing = existing, !.pc = pc])
      BY <1>4 DEF TagExistingRead
    <2>3. PICK k : k = [upload[u] EXCEPT !.existing = existing, !.pc = pc]
      OBVIOUS
    <2>4. upload' = [upload EXCEPT ![u] = k]
      BY <2>1, <2>3 DEF Proceeds
    <2>5. /\ k.pc = pc /\ k.lemmas = upload[u].lemmas /\ k.list = upload[u].list
          /\ k.taken = upload[u].taken /\ k.existing = existing /\ k.accepted = upload[u].accepted
      BY <1>1, <2>3, IdleUpload
    <2>6. ListsClean(k)
      BY <1>1, <2>5 DEF ListsClean, UploadStages, Asked
    <2> QED
      BY <1>1, <1>2, <2>4, <2>5, <2>6, RequestReads
  <1> QED
    BY <1>3, <1>4

LEMMA BatchLinksKept ==
  ASSUME BulkInv, BatchInv, NEW u \in Uploads, TagExistingCommit(u)
  PROVE  BatchInv'
  <1> DEFINE linked == upload[u].slugs \subseteq knownTopics /\ upload[u].existing \subseteq DOMAIN catalog
  <1>1. UNCHANGED <<knownTopics, jobs, removed>> /\ upload[u].pc = "linking"
        /\ DOMAIN upload = Uploads /\ DOMAIN upload[u] = UploadFields /\ ListsClean(upload[u])
        /\ CatalogSound
    BY DEF TagExistingCommit, UploadAt, BulkInv, UploadSound, BatchInv
  <1>2. /\ DOMAIN catalog' = DOMAIN catalog
        /\ \A l \in DOMAIN catalog :
             catalog'[l] = IF linked /\ l \in upload[u].existing
                           THEN catalog[l] \cup upload[u].slugs ELSE catalog[l]
    BY DEF TagExistingCommit
  <1>3. CatalogSound'
    BY <1>1, <1>2 DEF CatalogSound
  <1>4. upload[u].accepted = 0
    BY <1>1, NoneAccepted
  <1>5. CASE linked
    <2>1. PICK k : k = [upload[u] EXCEPT !.pc = "saving"]
      OBVIOUS
    <2>2. upload' = [upload EXCEPT ![u] = k]
      BY <1>5, <2>1 DEF TagExistingCommit, Proceeds
    <2>3. /\ k.pc = "saving" /\ k.lemmas = upload[u].lemmas /\ k.list = upload[u].list
          /\ k.taken = upload[u].taken /\ k.existing = upload[u].existing /\ k.accepted = upload[u].accepted
      BY <1>1, <2>1, IdleUpload
    <2>4. ListsClean(k)
      BY <1>1, <2>3 DEF ListsClean, UploadStages
    <2> QED
      BY <1>1, <1>3, <2>2, <2>3, <2>4, RequestReads
  <1>6. CASE ~linked
    <2>1. PICK k : k = [UploadIdle EXCEPT !.pc = "refused"]
      OBVIOUS
    <2>2. upload' = [upload EXCEPT ![u] = k]
      BY <1>6, <2>1 DEF TagExistingCommit, Proceeds
    <2>3. /\ k.pc = "refused" /\ k.lemmas = <<>> /\ k.list = <<>> /\ k.taken = {} /\ k.existing = {}
          /\ k.accepted = 0
      BY <2>1 DEF UploadIdle
    <2>4. k.pc \in UploadStages
      BY <2>3 DEF UploadStages
    <2>5. ListsClean(k)
      BY <2>3, <2>4, EmptyClean, Zenon
    <2> QED
      BY <1>1, <1>3, <1>4, <2>2, <2>3, <2>5, RequestReads
  <1> QED
    BY <1>5, <1>6

LEMMA BatchQuickCreateKept ==
  ASSUME BulkInv, BatchInv, BulkAssumption, NEW u \in Uploads, NEW l \in Contested,
         QuickCreateVocabulary(u, l)
  PROVE  BatchInv'
  <1>1. UNCHANGED <<catalog, knownTopics, jobs, removed>> /\ upload[u].pc # "answered"
        /\ DOMAIN upload = Uploads
    BY DEF QuickCreateVocabulary, UploadAt, BulkInv
  <1>2. CatalogSound' /\ upload[u].accepted = 0
    BY <1>1, CatalogSame, NoneAccepted DEF BatchInv
  <1>3. PICK one : one = <<l>>
    OBVIOUS
  <1>4. Clean(one) /\ Range(one) = {l}
    <2>1. l \in Lemmas
      BY DEF BulkAssumption, Lemmas
    <2> QED
      BY <1>3, <2>1 DEF Clean, Range
  <1>5. CASE PendingJobs(l) # {}
    <2>1. PICK k : k = [[UploadIdle EXCEPT !.lemmas = one] EXCEPT !.pc = "answered", !.taken = {l}, !.deferred = {l}]
      OBVIOUS
    <2>2. upload' = [upload EXCEPT ![u] = k]
      BY <1>3, <1>5, <2>1 DEF QuickCreateVocabulary, Proceeds
    <2>3. /\ k.pc = "answered" /\ k.lemmas = one /\ k.list = <<>> /\ k.taken = {l} /\ k.existing = {}
          /\ k.accepted = 0
      BY <2>1 DEF UploadIdle
    <2>4. ListsClean(k)
      BY <1>4, <2>3, NothingClean DEF ListsClean, UploadStages
    <2> QED
      BY <1>1, <1>2, <2>2, <2>3, <2>4, RequestReads
  <1>6. CASE PendingJobs(l) = {}
    <2>1. PICK k : k = [[UploadIdle EXCEPT !.lemmas = one] EXCEPT !.pc = "saving"]
      OBVIOUS
    <2>2. upload' = [upload EXCEPT ![u] = k]
      BY <1>3, <1>6, <2>1 DEF QuickCreateVocabulary, Proceeds
    <2>3. /\ k.pc = "saving" /\ k.lemmas = one /\ k.list = <<>> /\ k.taken = {} /\ k.existing = {}
          /\ k.accepted = 0
      BY <2>1 DEF UploadIdle
    <2>4. ListsClean(k)
      BY <1>4, <2>3, NothingClean DEF ListsClean, UploadStages
    <2> QED
      BY <1>1, <1>2, <2>2, <2>3, <2>4, RequestReads
  <1> QED
    BY <1>5, <1>6

\* A list without two entries that are equal is of finitely many.
LEMMA AskedFinite ==
  ASSUME NEW list \in Seq(Lemmas)
  PROVE  IsFiniteSet(Range(list))
  <1>1. IsFiniteSet(1..Len(list)) /\ DOMAIN list = 1..Len(list)
    BY FS_Interval
  <1>2. list \in Surjection(1..Len(list), Range(list))
    BY <1>1 DEF Range, Surjection
  <1> QED
    BY <1>1, <1>2, FS_Surjection

LEMMA BatchSaveJobsKept ==
  ASSUME BulkInv, BatchInv, NEW u \in Uploads, SaveJobs(u)
  PROVE  BatchInv'
  <1> DEFINE rest == Asked(u) \ upload[u].taken
             new == {u} \X rest
  <1>1. UNCHANGED <<catalog, knownTopics, removed>> /\ upload[u].pc = "saving"
        /\ DOMAIN upload = Uploads /\ DOMAIN upload[u] = UploadFields /\ ListsClean(upload[u])
        /\ CatalogSound /\ JobsOf(u) = {}
    BY DEF SaveJobs, UploadAt, BulkInv, UploadSound, BatchInv, JobsCounted
  <1>2. DOMAIN jobs' = DOMAIN jobs \cup new
    BY DEF SaveJobs
  <1>3. Clean(upload[u].lemmas) /\ Asked(u) \subseteq Lemmas /\ IsFiniteSet(Asked(u))
    <2>1. PICK list \in Seq(Lemmas) : list = upload[u].lemmas
      BY <1>1 DEF ListsClean, Clean
    <2>2. Range(list) \subseteq Lemmas
      BY DEF Range
    <2> QED
      BY <1>1, <2>1, <2>2, AskedFinite DEF ListsClean, Asked
  <1>4. CatalogSound'
    BY <1>1, <1>2, <1>3 DEF CatalogSound
  <1>5. IsFiniteSet(new)
    <2>1. IsFiniteSet(rest) /\ IsFiniteSet({u})
      BY <1>3, FS_Subset, FS_Singleton
    <2> HIDE DEF rest
    <2> QED
      BY <2>1, FS_Product
  <1>6. JobsOf(u)' = new /\ \A v \in Uploads : v # u => JobsOf(v)' = JobsOf(v)
    BY <1>1, <1>2 DEF JobsOf
  <1>7. PICK m : m = Cardinality(new)
    OBVIOUS
  <1>8. PICK k : k = [UploadIdle EXCEPT !.pc = "answered", !.accepted = m,
               !.lemmas = upload[u].lemmas, !.slugs = upload[u].slugs,
               !.deferred = upload[u].deferred]
    OBVIOUS
  <1>9. upload' = [upload EXCEPT ![u] = k]
    BY <1>7, <1>8 DEF SaveJobs, Proceeds
  <1>10. /\ k.pc = "answered" /\ k.lemmas = upload[u].lemmas /\ k.list = <<>>
         /\ k.taken = {} /\ k.existing = {} /\ k.accepted = m
    BY <1>8 DEF UploadIdle
  <1>11. ListsClean(k)
    BY <1>3, <1>10, NothingClean DEF ListsClean, UploadStages
  <1> HIDE DEF new
  <1>12. upload'[u] = k /\ \A v \in Uploads : v # u => upload'[v] = upload[v]
    BY <1>1, <1>9
  <1>13. ASSUME NEW v \in Uploads PROVE ListsClean(upload'[v]) /\ JobsCounted(v)'
    <2>1. CASE v = u
      BY <1>5, <1>6, <1>7, <1>10, <1>11, <1>12, <2>1 DEF JobsCounted
    <2>2. CASE v # u
      BY <1>6, <1>12, <2>2 DEF JobsCounted, BatchInv
    <2> QED
      BY <2>1, <2>2
  <1> QED
    BY <1>4, <1>13 DEF BatchInv

LEMMA BatchElsewhereKept ==
  ASSUME BatchInv, BulkAssumption,
         \/ \E l \in Contested : QuickCreateUser(l) \/ RemoveSystemWord(l)
         \/ \E s \in BulkSlugs : RemoveTopic(s)
         \/ \E j \in DOMAIN jobs : RunJob(j)
  PROVE  BatchInv'
  <1>0. CatalogSound /\ \A l \in Contested : l \in Lemmas
    BY DEF BatchInv, BulkAssumption, Lemmas
  <1>1. ASSUME NEW l \in Contested, QuickCreateUser(l) PROVE BatchInv'
    <2>1. DOMAIN jobs' = DOMAIN jobs \cup {<<"learner", l>>} /\ UNCHANGED <<catalog, knownTopics, removed, upload>>
      BY <1>1 DEF QuickCreateUser
    <2>2. CatalogSound'
      BY <1>0, <2>1 DEF CatalogSound
    <2>3. \A v \in Uploads : JobsOf(v)' = JobsOf(v)
      BY <2>1 DEF JobsOf, BulkAssumption
    <2> QED
      BY <2>1, <2>2, <2>3 DEF BatchInv, JobsCounted
  <1>2. ASSUME NEW l \in Contested, RemoveSystemWord(l) PROVE BatchInv'
    <2>1. /\ UNCHANGED <<knownTopics, jobs, upload>> /\ removed' = removed \cup {l}
          /\ DOMAIN catalog' = DOMAIN catalog \ {l} /\ \A m \in DOMAIN catalog' : catalog'[m] = catalog[m]
      BY <1>2 DEF RemoveSystemWord, Restrict
    <2>2. CatalogSound'
      BY <1>0, <2>1 DEF CatalogSound
    <2> QED
      BY <2>1, <2>2, BatchElsewhere
  <1>3. ASSUME NEW s \in BulkSlugs, RemoveTopic(s) PROVE BatchInv'
    <2>1. /\ UNCHANGED <<jobs, upload, removed>> /\ knownTopics' = knownTopics \ {s}
          /\ DOMAIN catalog' = DOMAIN catalog /\ \A m \in DOMAIN catalog : catalog'[m] = catalog[m] \ {s}
      BY <1>3 DEF RemoveTopic
    <2>2. CatalogSound'
      BY <1>0, <2>1 DEF CatalogSound
    <2> QED
      BY <2>1, <2>2, BatchElsewhere
  <1>4. ASSUME NEW j \in DOMAIN jobs, RunJob(j) PROVE BatchInv'
    <2>1. UNCHANGED <<knownTopics, upload, removed>> /\ DOMAIN jobs' = DOMAIN jobs
      BY <1>4 DEF RunJob
    <2>2. j[2] \in Lemmas
      BY <1>0 DEF CatalogSound
    <2>3. CASE UNCHANGED catalog
      <3>1. CatalogSound'
        BY <1>0, <2>1, <2>3 DEF CatalogSound
      <3> QED
        BY <2>1, <3>1, BatchElsewhere
    <2>4. CASE \E T \in SUBSET {j[2]} :
                 catalog' = [l \in DOMAIN catalog \cup T |->
                               IF l \in DOMAIN catalog THEN catalog[l] ELSE jobs[j].topicSlugs \cap knownTopics]
      <3>1. CatalogSound'
        BY <1>0, <2>1, <2>2, <2>4 DEF CatalogSound
      <3> QED
        BY <2>1, <3>1, BatchElsewhere
    <2>5. UNCHANGED catalog \/
          \E T \in SUBSET {j[2]} :
                 catalog' = [l \in DOMAIN catalog \cup T |->
                               IF l \in DOMAIN catalog THEN catalog[l] ELSE jobs[j].topicSlugs \cap knownTopics]
      BY <1>4 DEF RunJob
    <2> QED
      BY <2>3, <2>4, <2>5
  <1> QED
    BY <1>1, <1>2, <1>3, <1>4

LEMMA BatchStepInv == BulkInv /\ BatchInv /\ [BulkNext]_bulkVars => BatchInv'
  <1> SUFFICES ASSUME BulkInv, BatchInv, [BulkNext]_bulkVars PROVE BatchInv'
    OBVIOUS
  <1>0. BulkAssumption
    BY BulkAssumption
  <1>1. CASE UNCHANGED bulkVars
    <2>1. UNCHANGED <<catalog, knownTopics, jobs, upload, removed>>
      BY <1>1 DEF bulkVars
    <2>2. CatalogSound'
      BY <2>1, CatalogSame DEF BatchInv
    <2> QED
      BY <2>1, <2>2, BatchElsewhere
  <1> QED
    BY <1>0, <1>1, BatchListsKept, BatchReadsKept, BatchLinksKept, BatchSaveJobsKept, BatchQuickCreateKept,
       BatchElsewhereKept DEF BulkNext

-----------------------------------------------------------------------------
(* What follows *)

LEMMA BatchInvTypeOK == BulkInv /\ BatchInv => BulkTypeOK
  <1> SUFFICES ASSUME BulkInv, BatchInv PROVE BulkTypeOK
    OBVIOUS
  <1>1. /\ DOMAIN catalog \subseteq Lemmas /\ knownTopics \subseteq BulkSlugs
        /\ \A l \in DOMAIN catalog : catalog[l] \subseteq knownTopics
        /\ DOMAIN jobs \subseteq (Uploads \cup {"learner"}) \X Lemmas /\ removed \subseteq Lemmas
    BY DEF BatchInv, CatalogSound
  <1>2. \A j \in DOMAIN jobs : /\ jobs[j].status \in {"pending", "completed", "failed"}
                               /\ jobs[j].topicSlugs \subseteq BulkSlugs /\ jobs[j].made \in BOOLEAN
    BY DEF BulkInv, JobsSound, JobRows
  <1>3. ASSUME NEW u \in Uploads
        PROVE  /\ upload[u].pc \in {"idle", "reviewing", "validated", "tagging", "linking", "saving",
                                     "answered", "refused"}
               /\ upload[u].taken \cup upload[u].existing \subseteq Asked(u) /\ Asked(u) \subseteq Lemmas
    <2>1. ListsClean(upload[u])
      BY DEF BatchInv
    <2>2. PICK list \in Seq(Lemmas) : list = upload[u].lemmas
      BY <2>1 DEF ListsClean, Clean
    <2>3. Range(list) \subseteq Lemmas
      BY DEF Range
    <2> QED
      BY <2>1, <2>2, <2>3 DEF ListsClean, UploadStages, Asked
  <1> QED
    BY <1>1, <1>2, <1>3 DEF BulkTypeOK

LEMMA BatchInvHygiene == BatchInv => SameHygiene
  <1> SUFFICES ASSUME BatchInv, NEW u \in Uploads
      PROVE  /\ \A i, j \in DOMAIN upload[u].lemmas :
                  LowerCase[upload[u].lemmas[i]] = LowerCase[upload[u].lemmas[j]] => i = j
             /\ upload[u].list # <<>> /\ upload[u].lemmas # <<>> =>
                  /\ IsPrefix(upload[u].lemmas, upload[u].list)
                  /\ Len(upload[u].lemmas) < Len(upload[u].list) => Len(upload[u].lemmas) = BulkMax
    BY DEF SameHygiene
  <1>0. BulkMax \in Nat
    BY BulkAssumption DEF BulkAssumption
  <1>1. PICK ls, shown : ls = upload[u].lemmas /\ shown = upload[u].list
    OBVIOUS
  <1>2. /\ ls \in Seq(Lemmas) /\ shown \in Seq(Lemmas)
        /\ \A i, j \in 1..Len(ls) : LowerCase[ls[i]] = LowerCase[ls[j]] => i = j
        /\ shown # <<>> /\ ls # <<>> => Shown(ls, shown, BulkMax)
    BY <1>1 DEF BatchInv, ListsClean, Clean
  <1>3. ASSUME shown # <<>>, ls # <<>>
        PROVE  IsPrefix(ls, shown) /\ (Len(ls) < Len(shown) => Len(ls) = BulkMax)
    <2>1. /\ Len(ls) = IF Len(shown) <= BulkMax THEN Len(shown) ELSE BulkMax
          /\ \A i \in 1..Len(ls) : ls[i] = shown[i]
      BY <1>2, <1>3 DEF Shown
    <2>2. Len(ls) <= Len(shown) /\ Len(ls) \in Nat /\ Len(shown) \in Nat
      BY <1>0, <1>2, <2>1
    <2>3. SubSeq(ls, 1, Len(ls)) = SubSeq(shown, 1, Len(ls))
      <3>1. SubSeq(ls, 1, Len(ls)) = [i \in 1..Len(ls) |-> ls[i]]
        BY <1>2, <2>2
      <3>2. SubSeq(shown, 1, Len(ls)) = [i \in 1..Len(ls) |-> shown[i]]
        BY <1>2, <2>2
      <3> QED
        BY <2>1, <3>1, <3>2
    <2> QED
      BY <1>0, <2>1, <2>2, <2>3 DEF IsPrefix
  <1> QED
    BY SMTT(30), <1>1, <1>2, <1>3

\* The three classes of jobs make up a batch.
LEMMA ThreeClasses ==
  ASSUME NEW A, NEW B, NEW C, IsFiniteSet(A \cup B \cup C), A \cap B = {}, (A \cup B) \cap C = {}
  PROVE  Cardinality(A) + Cardinality(B) + Cardinality(C) = Cardinality(A \cup B \cup C)
  <1>1. IsFiniteSet(A) /\ IsFiniteSet(B) /\ IsFiniteSet(C) /\ IsFiniteSet(A \cup B)
    BY FS_Subset
  <1>2. Cardinality(A \cup B) = Cardinality(A) + Cardinality(B) - Cardinality(A \cap B)
    BY <1>1, FS_Union, Zenon
  <1>3. Cardinality((A \cup B) \cup C) = Cardinality(A \cup B) + Cardinality(C) - Cardinality((A \cup B) \cap C)
    BY <1>1, FS_Union, Zenon
  <1>4. Cardinality({}) = 0 /\ Cardinality(A) \in Nat /\ Cardinality(B) \in Nat /\ Cardinality(C) \in Nat
    BY <1>1, FS_EmptySet, FS_CardinalityType
  <1>5. Cardinality(A \cap B) = 0 /\ Cardinality((A \cup B) \cap C) = 0
    BY <1>4
  <1> QED
    BY <1>2, <1>3, <1>4, <1>5

LEMMA BatchInvAddsUp == BulkInv /\ BatchInv => BatchesAddUp
  <1> SUFFICES ASSUME BulkInv, BatchInv, NEW u \in Uploads
      PROVE  SummarizeBatch(u)["pending"] + SummarizeBatch(u)["completed"] + SummarizeBatch(u)["failed"]
               = upload[u].accepted
    BY DEF BatchesAddUp
  <1> DEFINE Class(s) == {j \in DOMAIN jobs : j[1] = u /\ jobs[j].status = s}
  <1>1. IsFiniteSet(JobsOf(u)) /\ Cardinality(JobsOf(u)) = upload[u].accepted
    BY DEF BatchInv, JobsCounted
  <1>2. \A j \in DOMAIN jobs : jobs[j].status \in {"pending", "completed", "failed"}
    BY DEF BulkInv, JobsSound, JobRows
  <1>3. /\ Class("pending") \cup Class("completed") \cup Class("failed") = JobsOf(u)
        /\ Class("pending") \cap Class("completed") = {}
        /\ (Class("pending") \cup Class("completed")) \cap Class("failed") = {}
    BY <1>2 DEF JobsOf
  <1>4. /\ SummarizeBatch(u)["pending"] = Cardinality(Class("pending"))
        /\ SummarizeBatch(u)["completed"] = Cardinality(Class("completed"))
        /\ SummarizeBatch(u)["failed"] = Cardinality(Class("failed"))
    BY DEF SummarizeBatch
  <1> HIDE DEF Class
  <1>5. Cardinality(Class("pending")) + Cardinality(Class("completed")) + Cardinality(Class("failed"))
          = Cardinality(Class("pending") \cup Class("completed") \cup Class("failed"))
    BY <1>1, <1>3, ThreeClasses
  <1> QED
    BY <1>1, <1>3, <1>4, <1>5

-----------------------------------------------------------------------------
(* Senses: their orders are 1..N *)

\* Ids that have been given, at orders no larger than their number.
Within(o, last) == DOMAIN o \subseteq 1..last /\ \A s \in DOMAIN o : o[s] \in 1..last

\* What a call holds: senses that were there, and positions it has still to write.
SenseCallSound(k, last, raced) ==
  /\ k = [pc |-> k.pc, seen |-> k.seen, sense |-> k.sense, list |-> k.list, todo |-> k.todo]
  /\ k.pc \in SensePcs /\ k.sense \in 0..MaxSenses /\ ToSet(k.list) \subseteq SenseIds
  /\ k.todo \subseteq SenseIds /\ Within(k.seen, last)
  /\ k.pc \in {"deleting", "updating"} => k.sense \in DOMAIN k.seen
  /\ k.pc \in {"importing", "creating"} => \E n \in SenseIds : k.todo = 1..n
  /\ k.pc = "seeding" => \E n, m \in SenseIds :
       /\ k.todo = n..m /\ n <= m /\ n <= last + 1
       /\ ~raced => 1..(n - 1) \subseteq Range(k.seen)

SensesInv ==
  /\ wordRow \in {"none", "stored", "deleted"} /\ lastId \in 0..MaxSenses /\ sensesRaced \in BOOLEAN
  /\ wordRow = "none" => lastId = 0
  /\ Within(order, lastId) /\ IsInjective(order) /\ SensesOrdered
  /\ DOMAIN senseCall = SenseCalls
  /\ \A cl \in SenseCalls : SenseCallSound(senseCall[cl], lastId, sensesRaced)

LEMMA SensesInvTypeOK == SensesInv => SensesTypeOK
  <1> SUFFICES ASSUME SensesInv PROVE SensesTypeOK
    OBVIOUS
  <1>1. 1..lastId \subseteq SenseIds
    BY SensesAssumption DEF SensesInv, SenseIds
  <1>2. \A cl \in SenseCalls : DOMAIN senseCall[cl].seen \subseteq SenseIds
    BY <1>1 DEF SensesInv, SenseCallSound, Within
  <1> QED
    BY <1>1, <1>2 DEF SensesInv, SensesTypeOK, SenseCallSound, Within

\* The orders of the table make up 1..N when they make up 1..m for some m.
LEMMA OrderedUpTo ==
  ASSUME NEW last \in Nat, NEW o, Within(o, last), IsInjective(o), NEW m \in Nat, Range(o) = 1..m
  PROVE  Range(o) = 1..Cardinality(DOMAIN o)
  <1>1. IsFiniteSet(1..last)
    BY FS_Interval
  <1>2. IsFiniteSet(DOMAIN o)
    BY <1>1, FS_Subset DEF Within
  <1> QED
    BY <1>2, NumbersCounted

LEMMA SensesInitInv == SensesInit => SensesInv
  <1> SUFFICES ASSUME SensesInit PROVE SensesInv
    OBVIOUS
  <1>1. /\ lastId \in Nat /\ lastId \in 0..MaxSenses /\ DOMAIN order = 1..lastId
        /\ \A s \in DOMAIN order : order[s] = s
    BY SensesAssumption DEF SensesInit, Drafted
  <1>2. Within(order, lastId) /\ IsInjective(order) /\ Range(order) = 1..lastId
    BY <1>1 DEF Within, IsInjective, Range
  <1>3. SensesOrdered
    BY <1>1, <1>2, OrderedUpTo DEF SensesOrdered
  <1>4. SenseCallSound(SenseIdle, lastId, sensesRaced)
    <2>1. DOMAIN <<>> = {} /\ ToSet(<<>>) = {}
      BY DEF ToSet
    <2>2. Within(<<>>, lastId)
      BY <2>1 DEF Within
    <2> QED
      BY <2>1, <2>2, SensesAssumption DEF SenseIdle, SenseCallSound, SensePcs
  <1> QED
    BY <1>1, <1>2, <1>3, <1>4 DEF SensesInit, SensesInv

\* What was sound stays so as ids are given.
LEMMA SenseCallLater ==
  ASSUME NEW k, NEW last \in Nat, NEW raced, SenseCallSound(k, last, raced),
         NEW later \in Nat, last <= later, NEW racing2, raced => racing2
  PROVE  SenseCallSound(k, later, racing2)
  <1>1. Within(k.seen, later)
    BY DEF SenseCallSound, Within
  <1>2. ASSUME k.pc = "seeding"
        PROVE  \E n, m \in SenseIds :
                 /\ k.todo = n..m /\ n <= m /\ n <= later + 1
                 /\ ~racing2 => 1..(n - 1) \subseteq Range(k.seen)
    <2>1. PICK n, m \in SenseIds :
                 /\ k.todo = n..m /\ n <= m /\ n <= last + 1
                 /\ ~raced => 1..(n - 1) \subseteq Range(k.seen)
      BY <1>2 DEF SenseCallSound
    <2>2. n <= later + 1
      BY <2>1 DEF SenseIds
    <2> QED
      BY <2>1, <2>2
  <1> QED
    BY <1>1, <1>2 DEF SenseCallSound

\* A call moves on, to what is sound.
LEMMA SenseCallMoves ==
  ASSUME SensesInv, NEW cl \in SenseCalls, NEW k, senseCall' = [senseCall EXCEPT ![cl] = k],
         lastId' \in Nat, lastId <= lastId', sensesRaced => sensesRaced',
         SenseCallSound(k, lastId', sensesRaced')
  PROVE  /\ DOMAIN senseCall' = SenseCalls
         /\ \A d \in SenseCalls : SenseCallSound(senseCall'[d], lastId', sensesRaced')
  <1>1. DOMAIN senseCall' = SenseCalls /\ senseCall'[cl] = k
    BY DEF SensesInv
  <1>2. ASSUME NEW d \in SenseCalls, d # cl
        PROVE  SenseCallSound(senseCall'[d], lastId', sensesRaced')
    <2>1. senseCall'[d] = senseCall[d] /\ SenseCallSound(senseCall[d], lastId, sensesRaced)
      BY <1>2 DEF SensesInv
    <2>2. lastId \in Nat
      BY SensesAssumption DEF SensesInv
    <2> QED
      BY <2>1, <2>2, SenseCallLater
  <1> QED
    BY <1>1, <1>2

\* A call that is over, with what it had read or without.
LEMMA SenseCallEnds ==
  ASSUME NEW pc \in {"done", "failed"}, NEW list, ToSet(list) \subseteq SenseIds, NEW last \in Nat, NEW raced,
         NEW k, k = [pc |-> pc, seen |-> <<>>, sense |-> 0, list |-> list, todo |-> {}]
  PROVE  SenseCallSound(k, last, raced)
  <1>1. DOMAIN <<>> = {}
    OBVIOUS
  <1>2. Within(k.seen, last)
    BY <1>1 DEF Within
  <1>3. k.pc = pc /\ k.sense = 0 /\ k.list = list /\ k.todo = {}
    OBVIOUS
  <1> QED
    BY <1>2, <1>3, SensesAssumption DEF SenseCallSound, SensePcs

LEMMA AnsweredSound ==
  ASSUME NEW pc \in {"done", "failed"}, NEW last \in Nat, NEW raced,
         NEW k, k = [SenseIdle EXCEPT !.pc = pc]
  PROVE  SenseCallSound(k, last, raced)
  <1>1. ToSet(<<>>) = {}
    BY DEF ToSet
  <1>2. PICK list : list = <<>>
    OBVIOUS
  <1>3. k = [pc |-> pc, seen |-> <<>>, sense |-> 0, list |-> list, todo |-> {}]
    BY <1>2 DEF SenseIdle
  <1> QED
    BY <1>1, <1>2, <1>3, SenseCallEnds

LEMMA FailsKept ==
  ASSUME SensesInv, NEW cl \in SenseCalls, Fails(cl), UNCHANGED wordRow
  PROVE  SensesInv'
  <1>1. UNCHANGED <<wordRow, order, lastId, sensesRaced>>
    BY DEF Fails
  <1>2. PICK list : list = senseCall[cl].list
    OBVIOUS
  <1>3. PICK k : k = [SenseIdle EXCEPT !.pc = "failed", !.list = list]
    OBVIOUS
  <1>4. senseCall' = [senseCall EXCEPT ![cl] = k] /\ ToSet(list) \subseteq SenseIds
    BY <1>2, <1>3 DEF Fails, SensesInv, SenseCallSound
  <1>5. k = [pc |-> "failed", seen |-> <<>>, sense |-> 0, list |-> list, todo |-> {}]
    BY <1>3 DEF SenseIdle
  <1>6. lastId \in Nat
    BY SensesAssumption DEF SensesInv
  <1>7. SenseCallSound(k, lastId, sensesRaced)
    BY <1>4, <1>5, <1>6, SenseCallEnds
  <1>8. /\ DOMAIN senseCall' = SenseCalls
        /\ \A d \in SenseCalls : SenseCallSound(senseCall'[d], lastId', sensesRaced')
    <2>1. /\ lastId' \in Nat /\ lastId <= lastId' /\ (sensesRaced => sensesRaced')
          /\ SenseCallSound(k, lastId', sensesRaced')
      BY <1>1, <1>6, <1>7
    <2> QED
      BY <1>4, <2>1, SenseCallMoves
  <1> QED
    BY <1>1, <1>8 DEF SensesInv, SensesOrdered

\* The orders o as a call writes them, given what they make up.
Fits(o, seen) ==
  /\ \E last \in lastId..MaxSenses : last = Max({lastId} \cup DOMAIN o) /\ Within(o, last)
  /\ ~sensesRaced /\ order = seen => \E m \in Nat : Range(o) = 1..m

LEMMA OrdersWritten ==
  ASSUME SensesInv, NEW o, NEW seen, Fits(o, seen), IsInjective(o), order' = o,
         sensesRaced' = (sensesRaced \/ (o # order /\ order # seen)),
         lastId' = Max({lastId} \cup DOMAIN o)
  PROVE  /\ lastId' \in lastId..MaxSenses /\ sensesRaced' \in BOOLEAN
         /\ Within(order, lastId)' /\ IsInjective(order') /\ SensesOrdered'
  <1>1. lastId' \in lastId..MaxSenses /\ Within(o, lastId')
    BY DEF Fits
  <1>2. lastId' \in Nat
    BY <1>1, SensesAssumption DEF SensesInv
  <1>3. ASSUME ~sensesRaced' PROVE Range(o) = 1..Cardinality(DOMAIN o)
    <2>1. ~sensesRaced /\ (o = order \/ order = seen)
      BY <1>3
    <2>2. CASE o = order
      BY <2>1, <2>2 DEF SensesInv, SensesOrdered
    <2>3. CASE order = seen
      <3>1. PICK m \in Nat : Range(o) = 1..m
        BY <2>1, <2>3 DEF Fits
      <3> QED
        BY <1>1, <1>2, <3>1, OrderedUpTo
    <2> QED
      BY <2>1, <2>2, <2>3
  <1> QED
    BY <1>1, <1>3 DEF SensesOrdered, SensesInv

LEMMA WritesKept ==
  ASSUME SensesInv, NEW cl \in SenseCalls, NEW o, Writes(cl, o), UNCHANGED wordRow,
         Fits(o, senseCall[cl].seen)
  PROVE  SensesInv'
  <1>1. CASE ~(wordRow = "stored" /\ Allowed(o))
    BY <1>1, FailsKept DEF Writes
  <1>2. CASE wordRow = "stored" /\ Allowed(o)
    <2>1. /\ IsInjective(o) /\ order' = o
          /\ sensesRaced' = (sensesRaced \/ (o # order /\ order # senseCall[cl].seen))
          /\ lastId' = Max({lastId} \cup DOMAIN o)
          /\ Answers(cl, "done")
      BY <1>2 DEF Writes, Allowed
    <2>2. PICK seen : seen = senseCall[cl].seen
      OBVIOUS
    <2>3. /\ lastId' \in lastId..MaxSenses /\ sensesRaced' \in BOOLEAN
          /\ Within(order, lastId)' /\ IsInjective(order') /\ SensesOrdered'
      BY <2>1, <2>2, OrdersWritten
    <2>4. PICK k : k = [SenseIdle EXCEPT !.pc = "done"]
      OBVIOUS
    <2>5. lastId' \in Nat /\ lastId <= lastId' /\ lastId' \in 0..MaxSenses /\ (sensesRaced => sensesRaced')
      BY <2>1, <2>3, SensesAssumption DEF SensesInv
    <2>6. SenseCallSound(k, lastId', sensesRaced')
      BY <2>4, <2>5, AnsweredSound
    <2>7. /\ DOMAIN senseCall' = SenseCalls
          /\ \A d \in SenseCalls : SenseCallSound(senseCall'[d], lastId', sensesRaced')
      BY <2>1, <2>4, <2>5, <2>6, SenseCallMoves DEF Answers
    <2> QED
      BY <1>2, <2>3, <2>5, <2>7 DEF SensesInv
  <1> QED
    BY <1>1, <1>2

LEMMA SenseReadsKept ==
  ASSUME SensesInv, NEW cl \in SenseCalls, NEW k, SenseCallSound(k, lastId, sensesRaced),
         senseCall' = [senseCall EXCEPT ![cl] = k], UNCHANGED <<order, lastId, sensesRaced>>,
         wordRow' \in {wordRow, "stored"}
  PROVE  SensesInv'
  <1>1. /\ lastId' \in Nat /\ lastId <= lastId' /\ (sensesRaced => sensesRaced')
        /\ SenseCallSound(k, lastId', sensesRaced')
    BY SensesAssumption DEF SensesInv
  <1>2. /\ DOMAIN senseCall' = SenseCalls
        /\ \A d \in SenseCalls : SenseCallSound(senseCall'[d], lastId', sensesRaced')
    BY <1>1, SenseCallMoves
  <1> QED
    BY <1>2 DEF SensesInv, SensesOrdered

\* What a call reads first: the senses as they are.
LEMMA SenseReadSound ==
  ASSUME SensesInv, NEW cl \in SenseCalls, NEW pc \in SensePcs, NEW s \in 0..MaxSenses,
         NEW list, ToSet(list) \subseteq SenseIds, NEW todo \in SUBSET SenseIds,
         pc \in {"deleting", "updating"} => s \in DOMAIN order,
         pc \in {"importing", "creating", "seeding"} => \E n \in SenseIds : todo = 1..n,
         NEW k, k = [pc |-> pc, seen |-> order, sense |-> s, list |-> list, todo |-> todo]
  PROVE  SenseCallSound(k, lastId, sensesRaced)
  <1>1. /\ k.pc = pc /\ k.seen = order /\ k.sense = s /\ k.list = list /\ k.todo = todo
        /\ Within(order, lastId)
    BY DEF SensesInv
  <1>2. ASSUME pc = "seeding"
        PROVE  \E n, m \in SenseIds :
                 /\ k.todo = n..m /\ n <= m /\ n <= lastId + 1
                 /\ ~sensesRaced => 1..(n - 1) \subseteq Range(k.seen)
    <2>1. PICK m \in SenseIds : todo = 1..m
      BY <1>2
    <2>2. 1 \in SenseIds /\ 1 <= m /\ 1 <= lastId + 1 /\ 1..(1 - 1) = {}
      BY SensesAssumption DEF SenseIds, SensesInv
    <2> QED
      BY <1>1, <2>1, <2>2
  <1> QED
    BY <1>1, <1>2 DEF SenseCallSound

\* The reading halves of the calls, and the calls that end with reading.
LEMMA SenseCallsRead ==
  ASSUME SensesInv, NEW cl \in SenseCalls,
         \/ AddSenseRead(cl) \/ DeleteSenseRead(cl) \/ ReorderRead(cl) \/ UpdateSenseRead(cl)
         \/ ImportRead(cl) \/ SeedRead(cl)
  PROVE  SensesInv'
  <1>0. /\ lastId \in Nat /\ 0 \in 0..MaxSenses /\ Within(order, lastId) /\ DOMAIN order \subseteq SenseIds
        /\ DOMAIN order \subseteq 0..MaxSenses
    <2>1. lastId \in Nat /\ 1..lastId \subseteq SenseIds /\ 1..lastId \subseteq 0..MaxSenses
      BY SensesAssumption DEF SensesInv, SenseIds
    <2> QED
      BY <2>1, SensesAssumption DEF SensesInv, Within
  <1>1. ToSet(<<>>) = {}
    BY DEF ToSet
  <1>2. PICK none : none = <<>>
    OBVIOUS
  <1>3. ASSUME NEW pc \in {"done"}, Answers(cl, pc), OnlySenseCalls PROVE SensesInv'
    <2>1. PICK k : k = [SenseIdle EXCEPT !.pc = pc]
      OBVIOUS
    <2>2. SenseCallSound(k, lastId, sensesRaced)
      BY <1>0, <2>1, AnsweredSound
    <2> QED
      BY <1>3, <2>1, <2>2, SenseReadsKept DEF Answers, OnlySenseCalls
  <1>4. ASSUME NEW pc \in SensePcs, NEW s \in 0..MaxSenses, NEW list, ToSet(list) \subseteq SenseIds,
               NEW todo \in SUBSET SenseIds,
               pc \in {"deleting", "updating"} => s \in DOMAIN order,
               pc \in {"importing", "creating", "seeding"} => \E n \in SenseIds : todo = 1..n,
               NEW k, k = [pc |-> pc, seen |-> order, sense |-> s, list |-> list, todo |-> todo],
               senseCall' = [senseCall EXCEPT ![cl] = k], UNCHANGED <<order, lastId, sensesRaced>>,
               wordRow' \in {wordRow, "stored"}
        PROVE  SensesInv'
    <2>1. SenseCallSound(k, lastId, sensesRaced)
      BY <1>4, SenseReadSound
    <2> QED
      BY <1>4, <2>1, SenseReadsKept
  <1>5. CASE AddSenseRead(cl)
    <2>1. CASE wordRow = "stored"
      <3>1. PICK k : k = [[SenseIdle EXCEPT !.pc = "adding"] EXCEPT !.seen = order]
        OBVIOUS
      <3>2. senseCall' = [senseCall EXCEPT ![cl] = k] /\ UNCHANGED <<wordRow, order, lastId, sensesRaced>>
        BY <1>5, <2>1, <3>1 DEF AddSenseRead, Reads, OnlySenseCalls
      <3>3. k = [pc |-> "adding", seen |-> order, sense |-> 0, list |-> none, todo |-> {}]
        BY <3>1, <1>2 DEF SenseIdle
      <3> QED
        BY <1>0, <1>1, <1>2, <1>4, <3>2, <3>3 DEF SensePcs
    <2>2. CASE wordRow # "stored"
      BY <1>3, <1>5, <2>2 DEF AddSenseRead
    <2> QED
      BY <2>1, <2>2
  <1>6. CASE DeleteSenseRead(cl)
    <2>1. PICK s \in DOMAIN order : Reads(cl, [SenseIdle EXCEPT !.pc = "deleting", !.sense = s])
      BY <1>6 DEF DeleteSenseRead
    <2>2. PICK k : k = [[SenseIdle EXCEPT !.pc = "deleting", !.sense = s] EXCEPT !.seen = order]
      OBVIOUS
    <2>3. senseCall' = [senseCall EXCEPT ![cl] = k] /\ UNCHANGED <<wordRow, order, lastId, sensesRaced>>
      BY <1>6, <2>1, <2>2 DEF DeleteSenseRead, Reads, OnlySenseCalls
    <2>4. k = [pc |-> "deleting", seen |-> order, sense |-> s, list |-> none, todo |-> {}]
      BY <2>2, <1>2 DEF SenseIdle
    <2> QED
      BY <1>0, <1>1, <1>2, <1>4, <2>3, <2>4 DEF SensePcs
  <1>7. CASE UpdateSenseRead(cl)
    <2>1. PICK s \in DOMAIN order : Reads(cl, [SenseIdle EXCEPT !.pc = "updating", !.sense = s])
      BY <1>7 DEF UpdateSenseRead
    <2>2. PICK k : k = [[SenseIdle EXCEPT !.pc = "updating", !.sense = s] EXCEPT !.seen = order]
      OBVIOUS
    <2>3. senseCall' = [senseCall EXCEPT ![cl] = k] /\ UNCHANGED <<wordRow, order, lastId, sensesRaced>>
      BY <1>7, <2>1, <2>2 DEF UpdateSenseRead, Reads, OnlySenseCalls
    <2>4. k = [pc |-> "updating", seen |-> order, sense |-> s, list |-> none, todo |-> {}]
      BY <2>2, <1>2 DEF SenseIdle
    <2> QED
      BY <1>0, <1>1, <1>2, <1>4, <2>3, <2>4 DEF SensePcs
  <1>8. CASE ReorderRead(cl)
    <2>1. CASE Answers(cl, "done")
      BY <1>3, <1>8, <2>1 DEF ReorderRead
    <2>2. ASSUME NEW list \in SetToSeqs(DOMAIN order), Reads(cl, [SenseIdle EXCEPT !.pc = "reordering", !.list = list])
          PROVE  SensesInv'
      <3>1. PICK k : k = [[SenseIdle EXCEPT !.pc = "reordering", !.list = list] EXCEPT !.seen = order]
        OBVIOUS
      <3>2. senseCall' = [senseCall EXCEPT ![cl] = k] /\ UNCHANGED <<wordRow, order, lastId, sensesRaced>>
        BY <1>8, <2>2, <3>1 DEF ReorderRead, Reads, OnlySenseCalls
      <3>3. k = [pc |-> "reordering", seen |-> order, sense |-> 0, list |-> list, todo |-> {}]
        BY <3>1 DEF SenseIdle
      <3>4. ToSet(list) \subseteq DOMAIN order
        BY DEF SetToSeqs, ToSet
      <3> QED
        BY <1>0, <1>4, <3>2, <3>3, <3>4 DEF SensePcs
    <2> QED
      BY <1>8, <2>1, <2>2 DEF ReorderRead
  <1>9. ASSUME NEW n \in SenseIds, NEW pc \in {"creating", "importing", "seeding"},
               Reads(cl, [SenseIdle EXCEPT !.todo = 1..n, !.pc = pc]),
               UNCHANGED <<order, lastId, sensesRaced>>, wordRow' \in {wordRow, "stored"}
        PROVE  SensesInv'
    <2>1. PICK todo : todo = 1..n
      OBVIOUS
    <2>2. PICK k : k = [[SenseIdle EXCEPT !.todo = todo, !.pc = pc] EXCEPT !.seen = order]
      OBVIOUS
    <2>3. senseCall' = [senseCall EXCEPT ![cl] = k]
      BY <1>9, <2>1, <2>2 DEF Reads
    <2>4. k = [pc |-> pc, seen |-> order, sense |-> 0, list |-> none, todo |-> todo]
      BY <2>2, <1>2 DEF SenseIdle
    <2>5. todo \in SUBSET SenseIds
      BY <2>1, SensesAssumption DEF SenseIds
    <2> QED
      BY <1>0, <1>1, <1>2, <1>4, <1>9, <2>1, <2>3, <2>4, <2>5 DEF SensePcs
  <1>10. CASE ImportRead(cl)
    <2>1. PICK n \in SenseIds : Reads(cl, [SenseIdle EXCEPT !.todo = 1..n,
             !.pc = IF wordRow = "none" THEN "creating" ELSE "importing"])
      BY <1>10 DEF ImportRead
    <2>2. PICK pc \in {"creating", "importing"} : pc = IF wordRow = "none" THEN "creating" ELSE "importing"
      OBVIOUS
    <2> QED
      BY <1>9, <1>10, <2>1, <2>2 DEF ImportRead, OnlySenseCalls
  <1>11. CASE SeedRead(cl)
    BY <1>9, <1>11 DEF SeedRead
  <1> QED
    BY <1>5, <1>6, <1>7, <1>8, <1>10, <1>11

LEMMA LastGiven ==
  ASSUME NEW last \in Nat, NEW S \in SUBSET (1..last), NEW old \in 0..last, old = last \/ last \in S
  PROVE  Max({old} \cup S) = last
  <1>1. last \in {old} \cup S /\ \A x \in {old} \cup S : x \in Int /\ last >= x
    OBVIOUS
  <1>2. \A m \in {old} \cup S : (\A x \in {old} \cup S : m >= x) => m = last
    BY <1>1
  <1> QED
    BY <1>1, <1>2 DEF Max

\* Writes that give no id.
LEMMA FitsWithin ==
  ASSUME SensesInv, NEW o, NEW seen, Within(o, lastId),
         ~sensesRaced /\ order = seen => \E m \in Nat : Range(o) = 1..m
  PROVE  Fits(o, seen)
  <1>1. lastId \in Nat /\ lastId \in lastId..MaxSenses /\ DOMAIN o \in SUBSET (1..lastId)
    BY SensesAssumption DEF SensesInv, Within
  <1>2. Max({lastId} \cup DOMAIN o) = lastId
    BY <1>1, LastGiven
  <1> QED
    BY <1>1, <1>2 DEF Fits

LEMMA OrdersUpTo ==
  ASSUME SensesInv
  PROVE  /\ lastId \in Nat /\ Within(order, lastId)
         /\ ~sensesRaced => Cardinality(DOMAIN order) \in Nat /\ Range(order) = 1..Cardinality(DOMAIN order)
  <1>1. lastId \in Nat /\ Within(order, lastId)
    BY SensesAssumption DEF SensesInv
  <1>2. IsFiniteSet(1..lastId)
    BY <1>1, FS_Interval
  <1>3. IsFiniteSet(DOMAIN order)
    BY <1>1, <1>2, FS_Subset DEF Within
  <1> QED
    BY <1>1, <1>3, FS_CardinalityType DEF SensesInv, SensesOrdered

LEMMA AddSenseKept ==
  ASSUME SensesInv, NEW cl \in SenseCalls, AddSenseCommit(cl)
  PROVE  SensesInv'
  <1>1. PICK seen : seen = senseCall[cl].seen
    OBVIOUS
  <1>2. Within(seen, lastId)
    BY <1>1 DEF SensesInv, SenseCallSound
  <1>3. PICK n : n = NextOrder(seen)
    OBVIOUS
  <1>4. lastId \in Nat /\ lastId < MaxSenses /\ Within(order, lastId)
    BY OrdersUpTo DEF AddSenseCommit
  <1>5. DOMAIN seen # {} => Max(Range(seen)) \in Range(seen)
    <2>1. Range(seen) \in SUBSET (1..lastId)
      BY <1>2 DEF Within, Range
    <2>2. IsFiniteSet(1..lastId) /\ 1..lastId \in SUBSET Int
      BY <1>4, FS_Interval
    <2>3. IsFiniteSet(Range(seen))
      BY <2>1, <2>2, FS_Subset
    <2>4. DOMAIN seen # {} => Range(seen) # {}
      BY DEF Range
    <2> QED
      BY <2>1, <2>2, <2>3, <2>4, GreatestOf
  <1>6. n \in 1..(lastId + 1)
    <2>1. PICK greatest : greatest = Max(Range(seen))
      OBVIOUS
    <2>2. DOMAIN seen # {} => greatest \in 1..lastId
      BY <1>2, <1>5, <2>1 DEF Within, Range
    <2>3. n = 1 + (IF DOMAIN seen = {} THEN 0 ELSE greatest)
      BY <1>3, <2>1 DEF NextOrder
    <2>4. CASE DOMAIN seen = {}
      BY <1>4, <2>3, <2>4
    <2>5. CASE DOMAIN seen # {}
      BY <1>4, <2>2, <2>3, <2>5
    <2> QED
      BY <2>4, <2>5
  <1>7. PICK o : o = With(order, lastId + 1, n)
    OBVIOUS
  <1>8. /\ DOMAIN o = DOMAIN order \cup {lastId + 1} /\ o[lastId + 1] = n
        /\ \A s \in DOMAIN order : s # lastId + 1 /\ o[s] = order[s]
    BY <1>4, <1>7 DEF With, Within
  <1>9. Within(o, lastId + 1)
    BY <1>4, <1>6, <1>8 DEF Within
  <1>10. Max({lastId} \cup DOMAIN o) = lastId + 1
    <2>1. lastId + 1 \in Nat /\ DOMAIN o \in SUBSET (1..(lastId + 1)) /\ lastId \in 0..(lastId + 1)
      BY <1>4, <1>9 DEF Within
    <2> QED
      BY <1>8, <2>1, LastGiven
  <1>11. ASSUME ~sensesRaced, order = seen PROVE \E m \in Nat : Range(o) = 1..m
    <2>1. PICK m \in Nat : Range(order) = 1..m
      BY <1>11, OrdersUpTo
    <2>2. Range(o) = Range(order) \cup {n}
      BY <1>8 DEF Range
    <2>3. n = m + 1
      <3>1. CASE m = 0
        <4>1. Range(seen) = {}
          BY <1>11, <2>1, <3>1
        <4>2. DOMAIN seen = {}
          BY <4>1 DEF Range
        <4> QED
          BY <1>3, <3>1, <4>2 DEF NextOrder
      <3>2. CASE m >= 1
        <4>1. m \in Range(seen) /\ Range(seen) = 1..m
          BY <1>11, <2>1, <3>2
        <4>2. DOMAIN seen # {}
          BY <4>1 DEF Range
        <4>3. Max(Range(seen)) = m
          BY <2>1, <3>2, <4>1, MaxOfPrefix
        <4> QED
          BY <1>3, <2>1, <4>2, <4>3 DEF NextOrder
      <3> QED
        BY <2>1, <3>1, <3>2
    <2>4. Range(o) = 1..(m + 1) /\ m + 1 \in Nat
      BY <2>1, <2>2, <2>3
    <2> QED
      BY <2>4
  <1>12. Fits(o, seen)
    BY <1>4, <1>9, <1>10, <1>11, SensesAssumption DEF Fits
  <1> QED
    BY <1>1, <1>3, <1>7, <1>12, WritesKept DEF AddSenseCommit

LEMMA DeleteSenseKept ==
  ASSUME SensesInv, NEW cl \in SenseCalls, DeleteSenseCommit(cl)
  PROVE  SensesInv'
  <1>1. PICK seen, gone, at : seen = senseCall[cl].seen /\ gone = senseCall[cl].sense /\ at = seen[gone]
    OBVIOUS
  <1>2. gone \in DOMAIN seen /\ at \in 1..lastId
    BY <1>1 DEF SensesInv, SenseCallSound, Within, DeleteSenseCommit, SenseReady
  <1>3. PICK rest : rest = Restrict(order, DOMAIN order \ {gone})
    OBVIOUS
  <1>4. PICK o : o = Compacted(rest, at)
    OBVIOUS
  <1>5. lastId \in Nat /\ Within(order, lastId)
    BY OrdersUpTo
  <1>6. DOMAIN rest = DOMAIN order \ {gone} /\ \A s \in DOMAIN rest : rest[s] = order[s]
    BY <1>3 DEF Restrict
  <1>7. /\ DOMAIN o = DOMAIN rest
        /\ \A s \in DOMAIN rest : o[s] = IF order[s] > at THEN order[s] - 1 ELSE order[s]
    BY <1>4, <1>6 DEF Compacted, Above
  <1>8. Within(o, lastId)
    BY <1>2, <1>5, <1>6, <1>7 DEF Within
  <1>9. ASSUME ~sensesRaced, order = seen PROVE \E m \in Nat : Range(o) = 1..m
    <2>1. PICK m \in Nat : Range(order) = 1..m
      BY <1>9, OrdersUpTo
    <2>2. at \in 1..m /\ order[gone] = at
      BY <1>1, <1>2, <1>9, <2>1 DEF Range
    <2>3. \A s \in DOMAIN rest : order[s] \in 1..m /\ order[s] # at
      <3>1. \A s \in DOMAIN order : order[s] = order[gone] => s = gone
        BY <1>2, <1>9 DEF SensesInv, IsInjective
      <3> QED
        BY <1>6, <2>1, <2>2, <3>1 DEF Range
    <2>4. \A s \in DOMAIN rest : o[s] \in 1..(m - 1)
      BY <1>7, <2>2, <2>3
    <2>5. ASSUME NEW i \in 1..(m - 1) PROVE \E s \in DOMAIN rest : o[s] = i
      <3>1. PICK j \in 1..m : j = IF i < at THEN i ELSE i + 1
        OBVIOUS
      <3>2. j # at /\ (j > at <=> i >= at)
        BY <2>2, <3>1
      <3>3. PICK s \in DOMAIN order : order[s] = j
        BY <2>1 DEF Range
      <3>4. s \in DOMAIN rest
        BY <1>6, <2>2, <3>2, <3>3
      <3> QED
        BY <1>7, <2>2, <3>1, <3>2, <3>3, <3>4
    <2>6. Range(o) = 1..(m - 1) /\ m - 1 \in Nat
      BY <1>7, <2>2, <2>4, <2>5 DEF Range
    <2> QED
      BY <2>6
  <1>10. Fits(o, seen)
    BY <1>8, <1>9, FitsWithin
  <1>11. CASE Writes(cl, o)
    BY <1>1, <1>10, <1>11, WritesKept DEF DeleteSenseCommit
  <1>12. CASE Fails(cl)
    BY <1>12, FailsKept DEF DeleteSenseCommit
  <1> QED
    BY <1>1, <1>3, <1>4, <1>11, <1>12 DEF DeleteSenseCommit

LEMMA ReorderKept ==
  ASSUME SensesInv, NEW cl \in SenseCalls, ReorderCommit(cl)
  PROVE  SensesInv'
  <1>1. CASE ~Allowed(Negated(order))
    BY <1>1, FailsKept DEF ReorderCommit
  <1>2. CASE Allowed(Negated(order))
    <2>1. PICK o : o = Reordered(Negated(order), senseCall[cl].list)
      OBVIOUS
    <2>2. DOMAIN Negated(order) = DOMAIN order /\ \A s \in DOMAIN order : Negated(order)[s] = -order[s]
      BY DEF Negated
    <2>3. DOMAIN order = {}
      <3>1. \A s \in DOMAIN order : order[s] \in Nat /\ -order[s] >= 1
        BY <1>2, <2>2, OrdersUpTo DEF Allowed, OrdersPositive, Within
      <3> QED
        BY <3>1
    <2>4. DOMAIN o = {} /\ Range(o) = 1..0
      BY <2>1, <2>2, <2>3 DEF Reordered, Range
    <2>5. Fits(o, senseCall[cl].seen)
      BY <2>4, FitsWithin DEF Within
    <2> QED
      BY <1>2, <2>1, <2>5, WritesKept DEF ReorderCommit
  <1> QED
    BY <1>1, <1>2

LEMMA UpdateSenseKept ==
  ASSUME SensesInv, NEW cl \in SenseCalls, UpdateSenseCommit(cl)
  PROVE  SensesInv'
  <1>1. PICK seen, s : seen = senseCall[cl].seen /\ s = senseCall[cl].sense
    OBVIOUS
  <1>2. s \in DOMAIN seen /\ Within(seen, lastId)
    BY <1>1 DEF SensesInv, SenseCallSound, UpdateSenseCommit, SenseReady
  <1>3. PICK o : o = With(order, s, seen[s])
    OBVIOUS
  <1>4. /\ DOMAIN o = DOMAIN order \cup {s} /\ o[s] = seen[s]
        /\ \A r \in DOMAIN order \ {s} : o[r] = order[r]
    BY <1>3 DEF With
  <1>5. Within(o, lastId)
    BY <1>2, <1>4, OrdersUpTo DEF Within
  <1>6. order = seen => Range(o) = Range(order)
    BY <1>2, <1>4 DEF Range
  <1>7. Fits(o, seen)
    BY <1>5, <1>6, OrdersUpTo, FitsWithin
  <1> QED
    BY <1>1, <1>3, <1>7, WritesKept DEF UpdateSenseCommit

-----------------------------------------------------------------------------
(* Senses written by position *)

\* What upsertSenses writes: the positions that are missing go to new senses.
LEMMA UpsertedOrders ==
  ASSUME NEW last \in Nat, last = lastId, NEW seen, NEW positions, NEW ns, ns = Missing(seen, positions),
         ns \in SUBSET Int, IsFiniteSet(ns), NEW o, o = Upserted(seen, positions),
         DOMAIN seen \subseteq 1..last, DOMAIN order \subseteq 1..last
  PROVE  /\ Cardinality(ns) \in Nat
         /\ DOMAIN o = ((last + 1)..(last + Cardinality(ns)))
                       \cup {s \in DOMAIN seen : seen[s] \in positions} \cup DOMAIN order
         /\ \A s \in (last + 1)..(last + Cardinality(ns)) : o[s] \in ns
         /\ \A x \in ns : \E s \in (last + 1)..(last + Cardinality(ns)) : o[s] = x
         /\ \A s \in DOMAIN seen : seen[s] \in positions => o[s] = seen[s]
         /\ \A s \in DOMAIN order : ~(s \in DOMAIN seen /\ seen[s] \in positions) => o[s] = order[s]
         /\ \A s, r \in (last + 1)..(last + Cardinality(ns)) : o[s] = o[r] => s = r
  <1>1. PICK list : list = Ascending(ns)
    OBVIOUS
  <1>2. Ascends(list, ns)
    BY <1>1, AscendingList, Zenon
  <1>3. PICK n \in Nat : n = Cardinality(ns)
    BY FS_CardinalityType
  <1>4. /\ list \in [1..n -> ns] /\ \A x \in ns : \E i \in 1..n : list[i] = x
        /\ \A i, j \in 1..n : list[i] = list[j] => i = j
    BY <1>2, <1>3 DEF Ascends
  <1>5. NewIds(ns) = (last + 1)..(last + n)
    <2>1. \A s \in (last + 1)..(last + n) : s - last \in 1..n /\ s = last + (s - last)
      OBVIOUS
    <2> QED
      BY <1>3, <2>1 DEF NewIds
  <1>6. PICK new : new = Inserted(ns)
    OBVIOUS
  <1>7. DOMAIN new = (last + 1)..(last + n) /\ \A s \in (last + 1)..(last + n) : new[s] = list[s - last]
    <2>1. new = [s \in NewIds(ns) |-> list[s - lastId]]
      <3>1. new = [s \in NewIds(ns) |-> Ascending(ns)[s - lastId]]
        BY <1>6 DEF Inserted, Ranked, Ascending
      <3> QED
        BY <1>1, <3>1
    <2> QED
      BY <1>5, <2>1
  <1>8. PICK rest : rest = Restrict(seen, {s \in DOMAIN seen : seen[s] \in positions})
    OBVIOUS
  <1>9. /\ DOMAIN rest = {s \in DOMAIN seen : seen[s] \in positions}
        /\ \A s \in DOMAIN rest : rest[s] = seen[s]
    BY <1>8 DEF Restrict
  <1>10. o = Over(new, Over(rest, order))
    BY <1>6, <1>8 DEF Upserted
  <1>11. /\ DOMAIN o = DOMAIN new \cup DOMAIN rest \cup DOMAIN order
         /\ \A s \in DOMAIN new : o[s] = new[s]
         /\ \A s \in DOMAIN rest : s \notin DOMAIN new => o[s] = rest[s]
         /\ \A s \in DOMAIN order : s \notin DOMAIN new /\ s \notin DOMAIN rest => o[s] = order[s]
    BY <1>10 DEF Over
  <1>12. \A s \in 1..last : s \notin DOMAIN new
    BY <1>3, <1>7
  <1>13. DOMAIN rest \subseteq 1..last
    BY <1>9
  <1>14. \A s \in (last + 1)..(last + n) : s - last \in 1..n
    BY <1>3
  <1>15. \A x \in ns : \E s \in (last + 1)..(last + n) : o[s] = x
    <2> TAKE x \in ns
    <2>1. PICK i \in 1..n : list[i] = x
      BY <1>4
    <2>2. last + i \in (last + 1)..(last + n) /\ (last + i) - last = i
      BY <1>3
    <2> QED
      BY <1>7, <1>11, <2>1, <2>2
  <1>16. \A s, r \in (last + 1)..(last + n) : o[s] = o[r] => s = r
    <2> TAKE s, r \in (last + 1)..(last + n)
    <2>1. s - last \in 1..n /\ r - last \in 1..n /\ o[s] = list[s - last] /\ o[r] = list[r - last]
      BY <1>7, <1>11, <1>14
    <2>2. o[s] = o[r] => s - last = r - last
      BY <1>4, <2>1
    <2> QED
      BY <2>2
  <1>17. \A s \in (last + 1)..(last + n) : o[s] \in ns
    <2> TAKE s \in (last + 1)..(last + n)
    <2>1. s - last \in 1..n /\ o[s] = list[s - last]
      BY <1>7, <1>11, <1>14
    <2> QED
      BY <1>4, <2>1
  <1>18. DOMAIN o = ((last + 1)..(last + n)) \cup {s \in DOMAIN seen : seen[s] \in positions} \cup DOMAIN order
    BY <1>7, <1>9, <1>11
  <1>19. \A s \in DOMAIN seen : seen[s] \in positions => o[s] = seen[s]
    BY <1>9, <1>11, <1>12
  <1>20. \A s \in DOMAIN order : ~(s \in DOMAIN seen /\ seen[s] \in positions) => o[s] = order[s]
    BY <1>9, <1>11, <1>12
  <1> QED
    BY <1>3, <1>15, <1>16, <1>17, <1>18, <1>19, <1>20

\* The positions fit when none is larger than the number of ids will be.
LEMMA UpsertedFits ==
  ASSUME SensesInv, NEW seen, Within(seen, lastId), NEW positions \in SUBSET SenseIds,
         NEW o, o = Upserted(seen, positions),
         lastId + Cardinality(Missing(seen, positions)) <= MaxSenses,
         \A p \in positions : p <= lastId + Cardinality(Missing(seen, positions)),
         ~sensesRaced /\ order = seen => \E m \in Nat : Range(seen) \cup positions = 1..m
  PROVE  /\ Fits(o, seen) /\ positions \subseteq Range(o)
         /\ Cardinality(Missing(seen, positions)) \in Nat
         /\ Max({lastId} \cup DOMAIN o) = lastId + Cardinality(Missing(seen, positions))
         /\ Within(o, lastId + Cardinality(Missing(seen, positions)))
  <1>1. PICK last \in Nat : last = lastId /\ Within(order, last)
    BY OrdersUpTo
  <1>2. PICK ns : ns = Missing(seen, positions)
    OBVIOUS
  <1>3. ns \in SUBSET Int /\ ns \subseteq positions /\ IsFiniteSet(ns)
    <2>0. IsFiniteSet(SenseIds)
      <3>1. 1 \in Int /\ MaxSenses \in Int
        BY SensesAssumption
      <3> QED
        BY <3>1, FS_Interval, Zenon DEF SenseIds
    <2>1. IsFiniteSet(SenseIds) /\ ns \in SUBSET SenseIds /\ SenseIds \in SUBSET Int /\ ns \subseteq positions
      <3>1. ns \subseteq positions
        BY <1>2 DEF Missing
      <3>2. \A x \in SenseIds : x \in Int
        BY SensesAssumption DEF SenseIds
      <3> QED
        BY <2>0, <3>1, <3>2
    <2>2. IsFiniteSet(ns)
      BY <2>1, FS_Subset, Zenon
    <2> QED
      BY <2>1, <2>2
  <1>4. DOMAIN seen \subseteq 1..last /\ DOMAIN order \subseteq 1..last
    BY <1>1 DEF Within
  <1>5. /\ Cardinality(ns) \in Nat
        /\ DOMAIN o = ((last + 1)..(last + Cardinality(ns)))
                      \cup {s \in DOMAIN seen : seen[s] \in positions} \cup DOMAIN order
        /\ \A s \in (last + 1)..(last + Cardinality(ns)) : o[s] \in ns
        /\ \A x \in ns : \E s \in (last + 1)..(last + Cardinality(ns)) : o[s] = x
        /\ \A s \in DOMAIN seen : seen[s] \in positions => o[s] = seen[s]
        /\ \A s \in DOMAIN order : ~(s \in DOMAIN seen /\ seen[s] \in positions) => o[s] = order[s]
        /\ \A s, r \in (last + 1)..(last + Cardinality(ns)) : o[s] = o[r] => s = r
    BY <1>1, <1>2, <1>3, <1>4, UpsertedOrders
  <1>6. PICK n \in Nat : n = Cardinality(ns)
    BY <1>5
  <1>7. \A p \in ns : p \in 1..(last + n)
    BY <1>1, <1>2, <1>3, <1>6 DEF SenseIds
  <1>8. Within(o, last + n)
    <2>1. ASSUME NEW s \in DOMAIN o PROVE s \in 1..(last + n) /\ o[s] \in 1..(last + n)
      <3>1. CASE s \in (last + 1)..(last + n)
        BY <1>5, <1>6, <1>7, <3>1
      <3>2. CASE s \in DOMAIN seen /\ seen[s] \in positions
        BY <1>1, <1>5, <1>6, <3>2 DEF Within
      <3>3. CASE s \in DOMAIN order /\ ~(s \in DOMAIN seen /\ seen[s] \in positions)
        BY <1>1, <1>5, <1>6, <3>3 DEF Within
      <3> QED
        BY <1>5, <1>6, <3>1, <3>2, <3>3
    <2> QED
      BY <2>1 DEF Within
  <1>9. Max({lastId} \cup DOMAIN o) = last + n
    <2>1. last + n \in Nat /\ DOMAIN o \in SUBSET (1..(last + n)) /\ lastId \in 0..(last + n)
      BY <1>1, <1>6, <1>8 DEF Within
    <2>2. lastId = last + n \/ last + n \in DOMAIN o
      BY <1>1, <1>5, <1>6
    <2> QED
      BY <2>1, <2>2, LastGiven
  <1>10. positions \subseteq Range(o)
    <2> SUFFICES ASSUME NEW x \in positions PROVE \E s \in DOMAIN o : o[s] = x
      BY DEF Range
    <2>1. CASE x \in ns
      BY <1>5, <1>6, <2>1
    <2>2. CASE x \notin ns
      <3>1. PICK s \in DOMAIN seen : seen[s] = x
        BY <1>2, <2>2 DEF Missing, Range
      <3> QED
        BY <1>5, <3>1
    <2> QED
      BY <2>1, <2>2
  <1>11. ASSUME ~sensesRaced, order = seen PROVE \E m \in Nat : Range(o) = 1..m
    <2>1. Range(o) = Range(seen) \cup positions
      <3>1. ASSUME NEW s \in DOMAIN o PROVE o[s] \in Range(seen) \cup positions
        BY <1>3, <1>5, <1>6, <1>11 DEF Range
      <3>2. ASSUME NEW s \in DOMAIN seen PROVE s \in DOMAIN o /\ o[s] = seen[s]
        BY <1>5, <1>11
      <3> QED
        BY <1>10, <3>1, <3>2 DEF Range
    <2> QED
      BY <1>11, <2>1
  <1>12. last + n \in lastId..MaxSenses
    BY <1>1, <1>2, <1>6, SensesAssumption
  <1> QED
    BY <1>1, <1>2, <1>6, <1>8, <1>9, <1>10, <1>11, <1>12 DEF Fits

LEMMA PositionsFit ==
  ASSUME NEW last \in Nat, NEW seen, Within(seen, last), NEW n \in Nat,
         NEW ns, ns = Missing(seen, 1..n)
  PROVE  IsFiniteSet(ns) /\ Cardinality(ns) \in Nat /\ n <= last + Cardinality(ns)
  <1>1. IsFiniteSet(1..n) /\ ns \subseteq 1..n
    BY FS_Interval DEF Missing
  <1>2. IsFiniteSet(ns) /\ Cardinality(ns) \in Nat
    BY <1>1, FS_Subset, FS_CardinalityType
  <1>3. CASE n <= last
    BY <1>2, <1>3
  <1>4. CASE n > last
    <2>1. (last + 1)..n \in SUBSET ns
      BY <1>4 DEF Missing, Range, Within
    <2>2. Cardinality((last + 1)..n) <= Cardinality(ns)
      BY <1>2, <2>1, FS_Subset
    <2>3. Cardinality((last + 1)..n) = n - last
      <3>1. last + 1 \in Int /\ n \in Int /\ ~(last + 1 > n) /\ n - (last + 1) + 1 = n - last
        BY <1>4
      <3> QED
        BY <3>1, FS_Interval
    <2> QED
      BY <1>2, <2>2, <2>3
  <1> QED
    BY <1>3, <1>4

LEMMA ImportKept ==
  ASSUME SensesInv, NEW cl \in SenseCalls, ImportCommit(cl)
  PROVE  SensesInv'
  <1>1. PICK seen, todo : seen = senseCall[cl].seen /\ todo = senseCall[cl].todo
    OBVIOUS
  <1>2. /\ Within(seen, lastId) /\ lastId \in Nat /\ Within(order, lastId)
        /\ SenseReady(cl, "importing") \/ SenseReady(cl, "creating") => \E n \in SenseIds : todo = 1..n
    BY <1>1, OrdersUpTo DEF SensesInv, SenseCallSound, SenseReady
  <1>3. lastId + Cardinality(Missing(seen, todo)) <= MaxSenses
    BY <1>1 DEF ImportCommit
  <1>4. CASE SenseReady(cl, "importing") /\ Writes(cl, Upserted(seen, todo)) /\ UNCHANGED wordRow
    <2>1. PICK n \in SenseIds : todo = 1..n
      BY <1>2, <1>4
    <2>2. n \in Nat /\ todo \in SUBSET SenseIds
      BY <2>1, SensesAssumption DEF SenseIds
    <2>3. PICK ns : ns = Missing(seen, todo)
      OBVIOUS
    <2>4. Cardinality(ns) \in Nat /\ n <= lastId + Cardinality(ns)
      BY <1>2, <2>1, <2>2, <2>3, PositionsFit
    <2>5. \A p \in todo : p <= lastId + Cardinality(ns)
      BY <1>2, <2>1, <2>2, <2>4
    <2>6. ASSUME ~sensesRaced, order = seen PROVE \E m \in Nat : Range(seen) \cup todo = 1..m
      <3>1. PICK N \in Nat : Range(seen) = 1..N
        BY <2>6, OrdersUpTo
      <3>2. PICK m \in Nat : m = IF N < n THEN n ELSE N
        BY <2>2
      <3>3. (1..N) \cup (1..n) = 1..m
        BY <2>2, <3>2
      <3> QED
        BY <2>1, <3>1, <3>3
    <2>7. Fits(Upserted(seen, todo), seen)
      BY <1>2, <1>3, <2>2, <2>3, <2>5, <2>6, UpsertedFits
    <2> QED
      BY <1>1, <1>4, <2>7, WritesKept
  <1>5. CASE /\ SenseReady(cl, "creating") /\ wordRow = "none"
             /\ wordRow' = "stored"
             /\ order' = Upserted(<<>>, todo)
             /\ lastId' = Cardinality(todo)
             /\ Answers(cl, "done")
             /\ UNCHANGED sensesRaced
    <2>1. PICK n \in SenseIds : todo = 1..n
      BY <1>2, <1>5
    <2>2. n \in 1..MaxSenses /\ n \in Nat /\ Cardinality(todo) = n /\ lastId = 0
      BY <1>5, <2>1, FS_Interval, SensesAssumption DEF SenseIds, SensesInv
    <2>3. DOMAIN order = {}
      BY <1>2, <2>2 DEF Within
    <2>4. PICK none : none = <<>>
      OBVIOUS
    <2>5. DOMAIN none = {} /\ Range(none) = {}
      BY <2>4 DEF Range
    <2>6. Missing(none, todo) = todo
      BY <2>5 DEF Missing
    <2>7. PICK o : o = Upserted(none, todo)
      OBVIOUS
    <2>8. todo \in SUBSET Int /\ IsFiniteSet(todo)
      BY <2>1, <2>2, FS_Interval
    <2>9. DOMAIN o = 1..n /\ Range(o) = todo /\ IsInjective(o)
      <3>1. PICK last \in Nat : last = lastId /\ DOMAIN none \subseteq 1..last /\ DOMAIN order \subseteq 1..last
        BY <2>2, <2>3, <2>5
      <3>2. PICK ns : ns = Missing(none, todo)
        OBVIOUS
      <3>3. ns \in SUBSET Int /\ IsFiniteSet(ns)
        BY <2>6, <2>8, <3>2
      <3>4. /\ Cardinality(ns) \in Nat
            /\ DOMAIN o = ((last + 1)..(last + Cardinality(ns)))
                          \cup {s \in DOMAIN none : none[s] \in todo} \cup DOMAIN order
            /\ \A s \in (last + 1)..(last + Cardinality(ns)) : o[s] \in ns
            /\ \A x \in ns : \E s \in (last + 1)..(last + Cardinality(ns)) : o[s] = x
            /\ \A s \in DOMAIN none : none[s] \in todo => o[s] = none[s]
            /\ \A s \in DOMAIN order : ~(s \in DOMAIN none /\ none[s] \in todo) => o[s] = order[s]
            /\ \A s, r \in (last + 1)..(last + Cardinality(ns)) : o[s] = o[r] => s = r
        BY <2>7, <3>1, <3>2, <3>3, UpsertedOrders
      <3>5. ns = todo /\ (last + 1)..(last + Cardinality(ns)) = 1..n
        BY <2>2, <2>6, <3>1, <3>2
      <3>6. DOMAIN o = 1..n
        BY <2>3, <2>5, <3>4, <3>5
      <3> QED
        <4>1. \A s \in 1..n : o[s] \in todo
          BY <3>4, <3>5
        <4>2. \A x \in todo : \E s \in 1..n : o[s] = x
          BY <3>4, <3>5
        <4>3. \A s, r \in 1..n : o[s] = o[r] => s = r
          BY <3>4, <3>5
        <4>4. Range(o) = todo
          BY <3>6, <4>1, <4>2 DEF Range
        <4>5. IsInjective(o)
          BY <3>6, <4>3 DEF IsInjective
        <4> QED
          BY <3>6, <4>4, <4>5
    <2>10. Within(o, n) /\ Range(o) = 1..n
      BY <2>1, <2>2, <2>9 DEF Within, Range
    <2>11. Range(o) = 1..Cardinality(DOMAIN o)
      BY <2>2, <2>9, <2>10, OrderedUpTo
    <2>12. order' = o /\ lastId' = n
      BY <1>5, <2>2, <2>4, <2>7
    <2>13. PICK k : k = [SenseIdle EXCEPT !.pc = "done"]
      OBVIOUS
    <2>14. lastId' \in Nat /\ lastId <= lastId' /\ (sensesRaced => sensesRaced')
      BY <1>5, <2>2, <2>12
    <2>15. SenseCallSound(k, lastId', sensesRaced')
      BY <2>13, <2>14, AnsweredSound
    <2>16. /\ DOMAIN senseCall' = SenseCalls
           /\ \A d \in SenseCalls : SenseCallSound(senseCall'[d], lastId', sensesRaced')
      BY <1>5, <2>13, <2>14, <2>15, SenseCallMoves DEF Answers
    <2>17. lastId' \in 0..MaxSenses
      BY <2>2, <2>12
    <2> QED
      BY <1>5, <2>9, <2>10, <2>11, <2>12, <2>16, <2>17 DEF SensesInv, SensesOrdered
  <1>6. CASE Fails(cl) /\ UNCHANGED wordRow
    BY <1>6, FailsKept
  <1> QED
    BY <1>1, <1>4, <1>5, <1>6 DEF ImportCommit

\* The positions that a run of the seed script has still to write, once the
\* first of them is written.
LEMMA SeedMovesOn ==
  ASSUME NEW n \in Nat, NEW m \in Nat, n >= 1, n <= m, NEW todo, todo = n..m, todo # {n}
  PROVE  n < m /\ todo \ {n} = (n + 1)..m
  <1>1. n # m
    OBVIOUS
  <1> QED
    BY <1>1

LEMMA SeedSenseKept ==
  ASSUME SensesInv, NEW cl \in SenseCalls, SeedSense(cl)
  PROVE  SensesInv'
  <1>1. PICK k : k = senseCall[cl] /\ k.pc = "seeding"
    BY DEF SeedSense, SenseReady
  <1>2. PICK seen, todo : seen = k.seen /\ todo = k.todo
    OBVIOUS
  <1>3. SenseCallSound(k, lastId, sensesRaced) /\ Within(seen, lastId) /\ lastId \in Nat
    BY <1>1, <1>2, OrdersUpTo DEF SensesInv, SenseCallSound
  <1>4. PICK n, m \in SenseIds : /\ todo = n..m /\ n <= m /\ n <= lastId + 1
                                 /\ ~sensesRaced => 1..(n - 1) \subseteq Range(seen)
    BY <1>1, <1>2, <1>3 DEF SenseCallSound
  <1>5. n \in Nat /\ m \in Nat /\ n >= 1 /\ n <= m /\ m <= MaxSenses
    BY <1>4, SensesAssumption DEF SenseIds
  <1>6. Min(todo) = n
    <2>1. n \in todo /\ \A x \in todo : n <= x
      BY <1>4, <1>5
    <2>2. \A y \in todo : (\A x \in todo : y <= x) => y = n
      BY <1>4, <1>5, <2>1
    <2> QED
      BY <2>1, <2>2 DEF Min
  <1>7. PICK ns : ns = Missing(seen, {n})
    OBVIOUS
  <1>8. PICK o : o = Upserted(seen, {n})
    OBVIOUS
  <1>9. /\ lastId + Cardinality(ns) <= MaxSenses
        /\ IF todo # {n} /\ wordRow = "stored" /\ Allowed(o)
           THEN /\ order' = o
                /\ lastId' = Max({lastId} \cup DOMAIN o)
                /\ sensesRaced' = (sensesRaced \/ (o # order /\ order # seen))
                /\ senseCall' = [senseCall EXCEPT ![cl].todo = @ \ {n}, ![cl].seen = o]
           ELSE Writes(cl, o)
        /\ UNCHANGED wordRow
    BY <1>1, <1>2, <1>6, <1>7, <1>8 DEF SeedSense
  <1>10. n <= lastId + Cardinality(ns)
    <2>1. CASE n \in Range(seen)
      <3>1. ns = {} /\ n \in 1..lastId
        BY <1>3, <1>7, <2>1 DEF Missing, Within, Range
      <3> QED
        BY <1>3, <3>1, FS_EmptySet
    <2>2. CASE n \notin Range(seen)
      <3>1. ns = {n}
        BY <1>7, <2>2 DEF Missing
      <3>2. Cardinality(ns) = 1
        BY <3>1, FS_Singleton
      <3> QED
        BY <1>3, <1>4, <3>2
    <2> QED
      BY <2>1, <2>2
  <1>11. ASSUME ~sensesRaced, order = seen PROVE \E N \in Nat : Range(seen) \cup {n} = 1..N
    <2>1. PICK N \in Nat : Range(seen) = 1..N
      BY <1>11, OrdersUpTo
    <2>2. n <= N + 1
      <3> SUFFICES ASSUME n > N + 1 PROVE FALSE
        BY <1>5, <2>1
      <3>1. n - 1 \in 1..(n - 1) /\ n - 1 \notin 1..N
        BY <1>5, <2>1
      <3> QED
        BY <1>4, <1>11, <2>1, <3>1
    <2>3. CASE n <= N
      <3>1. (1..N) \cup {n} = 1..N
        BY <1>5, <2>1, <2>3
      <3> QED
        BY <2>1, <3>1
    <2>4. CASE n = N + 1
      <3>1. (1..N) \cup {n} = 1..(N + 1) /\ N + 1 \in Nat
        BY <1>5, <2>1, <2>4
      <3> QED
        BY <2>1, <3>1
    <2> QED
      BY <1>5, <2>1, <2>2, <2>3, <2>4
  <1>12. {n} \in SUBSET SenseIds /\ \A p \in {n} : p <= lastId + Cardinality(ns)
    BY <1>4, <1>10
  <1>13. /\ Fits(o, seen) /\ {n} \subseteq Range(o)
         /\ Cardinality(ns) \in Nat
         /\ Max({lastId} \cup DOMAIN o) = lastId + Cardinality(ns)
         /\ Within(o, lastId + Cardinality(ns))
    BY <1>3, <1>7, <1>8, <1>9, <1>11, <1>12, UpsertedFits
  <1>14. CASE Writes(cl, o)
    BY <1>1, <1>2, <1>9, <1>13, <1>14, WritesKept
  <1>15. CASE todo # {n} /\ wordRow = "stored" /\ Allowed(o)
    <2>1. /\ lastId' \in lastId..MaxSenses /\ sensesRaced' \in BOOLEAN
          /\ Within(order, lastId)' /\ IsInjective(order') /\ SensesOrdered'
      BY <1>9, <1>13, <1>15, OrdersWritten DEF Allowed
    <2>2. order' = o /\ n < m /\ todo \ {n} = (n + 1)..m
      BY <1>4, <1>5, <1>9, <1>15, SeedMovesOn
    <2>3. lastId' = lastId + Cardinality(ns) /\ lastId' \in Nat /\ lastId <= lastId'
      BY <1>3, <1>9, <1>13, <1>15
    <2>4. n + 1 <= lastId' + 1 /\ n + 1 \in SenseIds
      BY <1>3, <1>5, <1>10, <2>2, <2>3, SensesAssumption DEF SenseIds
    <2>5. ASSUME ~sensesRaced' PROVE 1..((n + 1) - 1) \subseteq Range(o)
      <3>1. ~sensesRaced /\ (o = order \/ order = seen)
        BY <1>9, <1>15, <2>5
      <3>2. PICK N \in Nat : Range(o) = 1..N
        <4>1. CASE o = order
          BY <3>1, <4>1, OrdersUpTo
        <4>2. CASE order = seen
          BY <1>13, <3>1, <4>2 DEF Fits
        <4> QED
          BY <3>1, <4>1, <4>2
      <3>3. n <= N
        BY <1>5, <1>13, <3>2
      <3> QED
        BY <1>5, <3>2, <3>3
    <2>6. PICK left : left = todo \ {n}
      OBVIOUS
    <2>7. PICK q : q = [k EXCEPT !.todo = left, !.seen = o]
      OBVIOUS
    <2>8. senseCall' = [senseCall EXCEPT ![cl] = q]
      BY <1>1, <1>2, <1>9, <1>15, <2>6, <2>7 DEF SensesInv
    <2>9. q = [pc |-> "seeding", seen |-> o, sense |-> k.sense, list |-> k.list, todo |-> left]
      BY <1>1, <1>3, <2>7 DEF SenseCallSound
    <2>10. SenseCallSound(q, lastId', sensesRaced')
      <3>1. /\ q.pc = "seeding" /\ q.seen = o /\ q.sense = k.sense /\ q.list = k.list /\ q.todo = left
        BY <2>9
      <3>2. left \subseteq SenseIds /\ Within(o, lastId')
        BY <1>2, <1>3, <1>13, <2>3, <2>6 DEF SenseCallSound
      <3>3. \E i, j \in SenseIds : /\ left = i..j /\ i <= j /\ i <= lastId' + 1
                                   /\ ~sensesRaced' => 1..(i - 1) \subseteq Range(o)
        BY <1>4, <1>5, <2>2, <2>4, <2>5, <2>6
      <3>4. "seeding" \in SensePcs
        BY DEF SensePcs
      <3> QED
        BY <1>3, <2>9, <3>1, <3>2, <3>3, <3>4 DEF SenseCallSound
    <2>11. sensesRaced => sensesRaced'
      BY <1>9, <1>15
    <2>12. /\ DOMAIN senseCall' = SenseCalls
           /\ \A d \in SenseCalls : SenseCallSound(senseCall'[d], lastId', sensesRaced')
      BY <2>3, <2>8, <2>10, <2>11, SenseCallMoves
    <2>13. lastId' \in 0..MaxSenses
      BY <1>3, <2>1, SensesAssumption
    <2> QED
      BY <1>9, <1>15, <2>1, <2>12, <2>13 DEF SensesInv
  <1> QED
    BY <1>9, <1>14, <1>15

LEMMA DeleteSenseWordKept ==
  ASSUME SensesInv, DeleteWordRow
  PROVE  SensesInv'
  <1>1. /\ wordRow' = "deleted" /\ order' = <<>> /\ UNCHANGED <<lastId, senseCall, sensesRaced>>
    BY DEF DeleteWordRow
  <1>2. PICK none : none = <<>> /\ DOMAIN none = {}
    OBVIOUS
  <1>3. Within(none, lastId) /\ IsInjective(none) /\ Range(none) = {} /\ Cardinality(DOMAIN none) = 0
    BY <1>2, FS_EmptySet DEF Within, IsInjective, Range
  <1>4. 1..0 = {}
    OBVIOUS
  <1> QED
    BY <1>1, <1>2, <1>3, <1>4 DEF SensesInv, SensesOrdered

LEMMA SensesStepInv == SensesInv /\ [SensesNext]_senseVars => SensesInv'
  <1> SUFFICES ASSUME SensesInv, [SensesNext]_senseVars PROVE SensesInv'
    OBVIOUS
  <1>1. CASE UNCHANGED senseVars
    BY <1>1 DEF senseVars, SensesInv, SensesOrdered
  <1> QED
    BY <1>1, SenseCallsRead, AddSenseKept, DeleteSenseKept, ReorderKept, UpdateSenseKept, ImportKept,
       SeedSenseKept, DeleteSenseWordKept DEF SensesNext

-----------------------------------------------------------------------------
(* The composition: one component runs, by its own next-state relation *)

LEMMA PartRuns ==
  ASSUME [Next]_vars
  PROVE  /\ part' = part
         /\ part = "accounts" => [AccountsNext]_accountVars
         /\ part = "tokens" => [TokensNext]_tokenVars
         /\ part = "decks" => [DecksNext]_deckVars
         /\ part = "scenarios" => [ScenariosNext]_scenarioVars
         /\ part = "senses" => [SensesNext]_senseVars
         /\ part = "media" => [MediaNext]_mediaVars
         /\ part = "texts" => [WordTextsNext]_textVars
         /\ part = "reports" => [ReportsNext]_reportVars
         /\ part = "bulk" => [BulkNext]_bulkVars
  <1>1. CASE Next
    BY <1>1 DEF Next, Runs
  <1>2. CASE UNCHANGED vars
    BY <1>2 DEF vars
  <1> QED
    BY <1>1, <1>2

\* users.service.ts and email-verification.service.ts, in the system of all the
\* rows: accounts stay sound, guesses and codes limited.
THEOREM AccountsAreSafe == Spec => []AccountsSafe
  <1> DEFINE I == part = "accounts" => AccountsInv
  <1>1. Init => I
    BY AccountsInitInv DEF Init
  <1>2. I /\ [Next]_vars => I'
    BY AccountsStepInv, PartRuns
  <1>3. I => AccountsSafe
    BY AccountsInvSafe DEF AccountsSafe
  <1> QED
    BY <1>1, <1>2, <1>3, PTL DEF Spec

\* token.service.ts, in the same system: a refresh token is exchanged
\* once, and presenting a used one ends every session.
THEOREM TokensAreSafe == Spec => []TokensSafe
  <1> DEFINE I == part = "tokens" => TokensInv
  <1>1. Init => I
    BY TokensInitInv DEF Init
  <1>2. I /\ [Next]_vars => I'
    BY TokensStepInv, PartRuns
  <1>3. I => TokensSafe
    BY TokensInvSafe DEF TokensSafe
  <1> QED
    BY <1>1, <1>2, <1>3, PTL DEF Spec

\* decks.service.ts and deck-membership.service.ts, in the same system: a deck's
\* count is that of its members and they have distinct positions.
THEOREM DecksAreConsistent == Spec => []DecksConsistent
  <1> DEFINE I == part = "decks" => DecksInv
  <1>1. Init => I
    BY DecksInitInv DEF Init
  <1>2. I /\ [Next]_vars => I'
    BY DecksStepInv, PartRuns
  <1>3. I => DecksConsistent
    BY DecksInvSafe DEF DecksConsistent
  <1> QED
    BY <1>1, <1>2, <1>3, PTL DEF Spec

\* scenarios.service.ts and speaking-session.service.ts, in the same system: a
\* version names one snapshot, and the sessions of a day stay within the cap.
THEOREM ScenariosAreSafe == Spec => []ScenariosSafe
  <1> DEFINE I == part = "scenarios" => ScenariosInv
  <1>1. Init => I
    BY ScenariosInitInv DEF Init
  <1>2. I /\ [Next]_vars => I'
    BY ScenariosStepInv, PartRuns
  <1>3. I => ScenariosSafe
    BY ScenariosInvSafe DEF ScenariosSafe
  <1> QED
    BY <1>1, <1>2, <1>3, PTL DEF Spec

\* vocabularies.service.ts, the workers and the back-fill scripts, in the same
\* system: what admins asked for stays, examples are imported once, topics are
\* those given last, lists land whole and a lemma is made once.
THEOREM CatalogIsKept == Spec => []CatalogKept
  <1> DEFINE I == /\ part = "media" => MediaInv
                  /\ part = "texts" => TextsInv
                  /\ part = "bulk" => BulkInv
  <1>1. Init => I
    BY MediaInitInv, TextsInitInv, BulkInitInv DEF Init
  <1>2. I /\ [Next]_vars => I'
    BY MediaStepInv, TextsStepInv, BulkStepInv, PartRuns
  <1>3. I => CatalogKept
    BY TextsInvKept, BulkInvLands, BulkInvMadeOnce DEF CatalogKept, MediaInv
  <1> QED
    BY <1>1, <1>2, <1>3, PTL DEF Spec

\* decks.service.ts, vocabularies.service.ts and the enrichment of lists, in the
\* same system: the senses of a word are ordered 1 to N unless two calls about
\* them met, the counts of a batch add up to its list, and the three ways of
\* normalising a list agree.
THEOREM ListsAreSound == Spec => []ListsSound
  <1> DEFINE I == /\ part = "senses" => SensesInv
                  /\ part = "bulk" => BulkInv /\ BatchInv
  <1>1. Init => I
    BY SensesInitInv, BulkInitInv, BatchInitInv DEF Init
  <1>2. I /\ [Next]_vars => I'
    BY SensesStepInv, BulkStepInv, BatchStepInv, PartRuns
  <1>3. I => ListsSound
    BY BatchInvAddsUp, BatchInvHygiene DEF ListsSound, SensesInv
  <1> QED
    BY <1>1, <1>2, <1>3, PTL DEF Spec

\* progress.service.ts, leaderboard.service.ts and practice.service.ts, in the
\* same system: whatever comes between the queries of a request, streak, heatmap,
\* statistics, suggestions and the board agree with the rows and the log.
THEOREM ReportsAlwaysAgree == Spec => []ReportsAgree
  <1> DEFINE I == part = "reports" => ReportsInv
  <1>1. Init => I
    BY ReportsInitInv DEF Init
  <1>2. I /\ [Next]_vars => I'
    BY ReportsStepInv, PartRuns
  <1>3. I => ReportsAgree
    BY ReportsInvAgree DEF ReportsAgree
  <1> QED
    BY <1>1, <1>2, <1>3, PTL DEF Spec

\* The rows of every component keep their types, whichever runs.
THEOREM RecordsAreTyped == Spec => []RecordsTypeOK
  <1> DEFINE I == /\ part = "accounts" => AccountsInv
                  /\ part = "tokens" => TokensInv
                  /\ part = "decks" => DecksInv
                  /\ part = "scenarios" => ScenariosInv
                  /\ part = "senses" => SensesInv
                  /\ part = "media" => MediaInv /\ MediaShaped
                  /\ part = "texts" => TextsShaped
                  /\ part = "reports" => ReportsInv
                  /\ part = "bulk" => BulkInv /\ BatchInv
  <1>1. Init => I
    BY AccountsInitInv, TokensInitInv, DecksInitInv, ScenariosInitInv, SensesInitInv, MediaInitInv,
       MediaInitShaped, TextsInitShaped, ReportsInitInv, BulkInitInv, BatchInitInv DEF Init
  <1>2. I /\ [Next]_vars => I'
    BY AccountsStepInv, TokensStepInv, DecksStepInv, ScenariosStepInv, SensesStepInv, MediaStepInv,
       MediaStepShaped, TextsStepShaped, ReportsStepInv, BulkStepInv, BatchStepInv, PartRuns
  <1>3. I => RecordsTypeOK
    <2>1. AccountsInv => AccountsTypeOK
      BY DEF AccountsInv, AccountsTyped
    <2>2. TokensInv => TokensTypeOK
      BY DEF TokensInv
    <2>3. DecksInv => DecksTypeOK
      BY DEF DecksInv
    <2>4. ScenariosInv => ScenariosTypeOK
      BY DEF ScenariosInv
    <2>5. MediaInv /\ MediaShaped => MediaTypeOK
      BY MediaTyped
    <2>6. TextsShaped => WordTextsTypeOK
      BY TextsTyped
    <2>7. SensesInv => SensesTypeOK
      BY SensesInvTypeOK
    <2>8. BulkInv /\ BatchInv => BulkTypeOK
      BY BatchInvTypeOK
    <2>9. ReportsInv => ReportsTypeOK
      BY ReportsInvTypeOK
    <2> QED
      BY <2>1, <2>2, <2>3, <2>4, <2>5, <2>6, <2>7, <2>8, <2>9 DEF RecordsTypeOK
  <1> QED
    BY <1>1, <1>2, <1>3, PTL DEF Spec
=============================================================================
