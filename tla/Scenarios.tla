------------------------------ MODULE Scenarios ------------------------------
(***************************************************************************)
(* One scenario of the speaking room as its admins edit, publish and       *)
(* retire it (src/src/speaking-room/scenarios.service.ts), and the         *)
(* sessions one learner starts on it meanwhile                             *)
(* (src/src/speaking-room/speaking-session.service.ts).                    *)
(*                                                                         *)
(* save(entity) selects the row and updates the columns that differ from   *)
(* an entity that may have been loaded earlier.                            *)
(***************************************************************************)
EXTENDS Naturals, FiniteSets

CONSTANTS
  Edits,           \* requests of admins
  Starts,          \* POST speaking-room/sessions
  Specs,           \* what the prompts are made of: setting, roles, goal, opening line
  DailySessions    \* groq.dailySessionsPerUser

ASSUME ScenariosAssumption == IsFiniteSet(Starts) /\ Specs # {} /\ DailySessions \in Nat

VARIABLES
  scenario,        \* the row of scenarios
  edit,            \* where each edit is, its entity and what save's SELECT found
  starting,        \* where each start is, and the scenario it has loaded
  sessions,        \* the sessions: the version and the snapshot each one keeps
  staleScenarioSave, \* history: the scenario was saved over a row the edit had not read
  editedRetired,   \* history: a retired scenario was edited
  startsOverlapped \* history: two starts were past the daily cap's count at once

scenarioVars == <<scenario, edit, starting, sessions,
                  staleScenarioSave, editedRetired, startsOverlapped>>

NoRow == [status |-> "none", version |-> 0, spec |-> "none"]
ScenarioRows == [status: {"draft", "published", "retired"}, version: Nat \ {0}, spec: Specs]
EditStates == [pc: {"idle", "saving", "selected", "done"},
               base: ScenarioRows \cup {NoRow}, entity: ScenarioRows \cup {NoRow},
               seen: ScenarioRows \cup {NoRow}]
StartStates == [pc: {"idle", "loaded", "counted", "done"}, copy: ScenarioRows \cup {NoRow}]
Snapshots == [version: Nat \ {0}, spec: Specs]

ScenariosTypeOK ==
  /\ scenario \in ScenarioRows
  /\ edit \in [Edits -> EditStates]
  /\ starting \in [Starts -> StartStates]
  /\ DOMAIN sessions \subseteq Starts
  /\ \A s \in DOMAIN sessions : sessions[s] \in Snapshots
  /\ staleScenarioSave \in BOOLEAN /\ editedRetired \in BOOLEAN
  /\ startsOverlapped \in BOOLEAN

Blank(pc) == [pc |-> pc, base |-> NoRow, entity |-> NoRow, seen |-> NoRow]

\* create: a draft of version 1.
Created(spec) == [status |-> "draft", version |-> 1, spec |-> spec]

ScenariosInit ==
  /\ \E spec \in Specs : scenario = Created(spec)
  /\ edit = [e \in Edits |-> Blank("idle")]
  /\ starting = [s \in Starts |-> [pc |-> "idle", copy |-> NoRow]]
  /\ sessions = <<>>
  /\ staleScenarioSave = FALSE /\ editedRetired = FALSE /\ startsOverlapped = FALSE

-----------------------------------------------------------------------------
(* update, attachIntroVideo, publish, retire *)

Saves(e, entity) ==
  edit' = [edit EXCEPT ![e] = [@ EXCEPT !.pc = "saving", !.base = scenario, !.entity = entity]]
Refuses(e) == edit' = [edit EXCEPT ![e] = Blank("done")]
OnlyEdits == UNCHANGED <<scenario, starting, sessions, staleScenarioSave, startsOverlapped>>

\* Mutant: no edit gets a new version.
Bumped_Never(row) == row

\* saveBumpingVersion: only what is published gets a new version.
Bumped(row) == IF row.status = "published" THEN [row EXCEPT !.version = @ + 1] ELSE row

UpdateScenario(e) ==
  /\ edit[e].pc = "idle"
  /\ \E spec \in Specs : Saves(e, Bumped([scenario EXCEPT !.spec = spec]))
  /\ editedRetired' = (editedRetired \/ scenario.status = "retired")
  /\ OnlyEdits

\* The video and its script are no part of what a session keeps.
AttachIntroVideo(e) ==
  /\ edit[e].pc = "idle"
  /\ Saves(e, Bumped(scenario))
  /\ OnlyEdits /\ UNCHANGED editedRetired

Publish(e) ==
  /\ edit[e].pc = "idle"
  /\ IF scenario.status = "published" THEN Refuses(e)
     ELSE Saves(e, [scenario EXCEPT !.status = "published"])
  /\ OnlyEdits /\ UNCHANGED editedRetired

Retire(e) ==
  /\ edit[e].pc = "idle"
  /\ IF scenario.status = "retired" THEN Refuses(e)
     ELSE Saves(e, [scenario EXCEPT !.status = "retired"])
  /\ OnlyEdits /\ UNCHANGED editedRetired

SaveSelect(e) ==
  /\ edit[e].pc = "saving"
  /\ edit' = [edit EXCEPT ![e].pc = "selected", ![e].seen = scenario]
  /\ OnlyEdits /\ UNCHANGED editedRetired

SaveCommit(e) ==
  LET k == edit[e] IN
  /\ edit[e].pc = "selected"
  /\ scenario' = [f \in DOMAIN scenario |->
                    IF k.entity[f] # k.seen[f] THEN k.entity[f] ELSE scenario[f]]
  /\ staleScenarioSave' = (staleScenarioSave \/ scenario # k.base)
  /\ edit' = [edit EXCEPT ![e] = Blank("done")]
  /\ UNCHANGED <<starting, sessions, editedRetired, startsOverlapped>>

-----------------------------------------------------------------------------
(* start *)

Started == [pc |-> "done", copy |-> NoRow]

\* The scenario must be published when it is loaded.
StartLoad(s) ==
  /\ starting[s].pc = "idle"
  /\ starting' = [starting EXCEPT ![s] =
                    IF scenario.status = "published"
                    THEN [pc |-> "loaded", copy |-> scenario] ELSE Started]
  /\ UNCHANGED <<scenario, edit, sessions, staleScenarioSave, editedRetired, startsOverlapped>>

\* assertUnderDailySessionCap
StartCount(s) ==
  /\ starting[s].pc = "loaded"
  /\ starting' = [starting EXCEPT ![s] =
       IF Cardinality(DOMAIN sessions) >= DailySessions THEN Started
       ELSE [@ EXCEPT !.pc = "counted"]]
  /\ startsOverlapped' =
       (startsOverlapped \/ \E t \in Starts \ {s} : starting[t].pc = "counted")
  /\ UNCHANGED <<scenario, edit, sessions, staleScenarioSave, editedRetired>>

\* The INSERT of the session, with the snapshot of the scenario as it was loaded.
StartInsert(s) ==
  /\ starting[s].pc = "counted"
  /\ sessions' = [t \in DOMAIN sessions \cup {s} |->
                    IF t = s THEN [version |-> starting[s].copy.version,
                                   spec |-> starting[s].copy.spec]
                    ELSE sessions[t]]
  /\ starting' = [starting EXCEPT ![s] = Started]
  /\ UNCHANGED <<scenario, edit, staleScenarioSave, editedRetired, startsOverlapped>>

Edit(e) == UpdateScenario(e) \/ AttachIntroVideo(e) \/ Publish(e) \/ Retire(e)
           \/ SaveSelect(e) \/ SaveCommit(e)
StartSession(s) == StartLoad(s) \/ StartCount(s) \/ StartInsert(s)

ScenariosNext == (\E e \in Edits : Edit(e)) \/ (\E s \in Starts : StartSession(s))

ScenariosSpec == ScenariosInit /\ [][ScenariosNext]_scenarioVars

-----------------------------------------------------------------------------
(* Properties *)

\* The version a session keeps tells what the scenario was: two sessions of one
\* version have one snapshot, unless two edits overlapped or a retired scenario
\* was edited, which bumps no version before it is published again
\* (scenarios.service.ts:134-143, scenario.entity.ts:88-91).
VersionNamesSpec ==
  ~staleScenarioSave /\ ~editedRetired =>
    \A s, t \in DOMAIN sessions :
      sessions[s].version = sessions[t].version => sessions[s].spec = sessions[t].spec

\* A learner starts no more sessions a day than the cap unless two starts count
\* before either inserts (speaking-session.service.ts:137).
SessionsCapped == ~startsOverlapped => Cardinality(DOMAIN sessions) <= DailySessions
=============================================================================
