--------------------------- MODULE SpeakingProofs ---------------------------
(***************************************************************************)
(* Proofs about SpeakingSession, for any number of turn, end and report    *)
(* requests, any limit and any number of faults.                           *)
(*                                                                         *)
(* The transcript: every copy a request holds is the opening line and some *)
(* pairs of turns, so it has an odd number of rows and the next pair keeps *)
(* the roles on their indexes, however stale the copy is.                  *)
(*                                                                         *)
(* The report: every entity at work has the status ended, so no save, of   *)
(* whichever columns, reopens the session; from then on the transcript     *)
(* changes only by a late turn, so every report made of it stays complete. *)
(***************************************************************************)
EXTENDS SpeakingSession, FiniteSetTheorems, TLAPS

-----------------------------------------------------------------------------
(* Lemmas about the operators *)

\* The opening line and pairs of one user and one AI turn.
IsTranscript(S) ==
  IsFiniteSet(S) /\ Cardinality(S) = 2 * Cardinality(UserTurns(S)) + 1

LEMMA OpeningIsTranscript ==
  LET opening == [index |-> 0, role |-> "ai", of |-> "opening"]
  IN  opening \in Turns /\ IsTranscript({opening})
<1> DEFINE opening == [index |-> 0, role |-> "ai", of |-> "opening"]
<1>1. opening \in Turns  BY LimitsAssumption DEF Turns
<1>2. UserTurns({opening}) = {}  BY DEF UserTurns
<1>3. IsFiniteSet({opening}) /\ Cardinality({opening}) = 1 /\ Cardinality({}) = 0
  BY FS_Singleton, FS_EmptySet
<1> QED BY <1>1, <1>2, <1>3 DEF IsTranscript

\* The user turns of a transcript are countable.
LEMMA UserTurnsFinite ==
  ASSUME NEW S, IsFiniteSet(S)
  PROVE  /\ IsFiniteSet(UserTurns(S)) /\ Cardinality(UserTurns(S)) \in Nat
         /\ Cardinality(S) \in Nat
<1>1. UserTurns(S) \subseteq S  BY DEF UserTurns
<1> QED BY <1>1, FS_Subset, FS_CardinalityType

\* One more pair.
LEMMA AddPair ==
  ASSUME NEW S, IsTranscript(S), NEW u, NEW a, u \notin S, a \notin S,
         u.role = "user", a.role = "ai"
  PROVE  /\ IsTranscript(S \cup {u, a})
         /\ Cardinality(S \cup {u, a}) = Cardinality(S) + 2
         /\ Cardinality(UserTurns(S \cup {u, a})) = Cardinality(UserTurns(S)) + 1
<1> DEFINE U == UserTurns(S)
<1>1. IsFiniteSet(S) /\ IsFiniteSet(U) /\ Cardinality(U) \in Nat /\ Cardinality(S) \in Nat
  BY UserTurnsFinite DEF IsTranscript
<1>2. UserTurns(S \cup {u, a}) = U \cup {u} /\ u \notin U
  BY DEF UserTurns
<1>3. IsFiniteSet(S \cup {u}) /\ Cardinality(S \cup {u}) = Cardinality(S) + 1
  BY <1>1, FS_AddElement
<1>4. a \notin S \cup {u} /\ (S \cup {u}) \cup {a} = S \cup {u, a}
  OBVIOUS
<1>5. IsFiniteSet(S \cup {u, a}) /\ Cardinality(S \cup {u, a}) = Cardinality(S) + 1 + 1
  <2>1. /\ IsFiniteSet((S \cup {u}) \cup {a})
        /\ Cardinality((S \cup {u}) \cup {a}) = Cardinality(S \cup {u}) + 1
    BY <1>3, <1>4, FS_AddElement
  <2> QED BY <2>1, <1>3, <1>4
<1>6. Cardinality(U \cup {u}) = Cardinality(U) + 1
  BY <1>1, <1>2, FS_AddElement
<1>7. Cardinality(UserTurns(S \cup {u, a})) = Cardinality(U) + 1
  BY <1>2, <1>6
<1>8. Cardinality(S) = 2 * Cardinality(U) + 1
  BY DEF IsTranscript
<1>9. Cardinality(S \cup {u, a}) = 2 * Cardinality(UserTurns(S \cup {u, a})) + 1
  <2> DEFINE m == Cardinality(U)
             n == Cardinality(UserTurns(S \cup {u, a}))
             l == Cardinality(S \cup {u, a})
  <2>1. m \in Nat /\ n = m + 1 /\ l = 2 * m + 1 + 1 + 1
    BY <1>1, <1>5, <1>7, <1>8
  <2> HIDE DEF m, n, l
  <2>2. l = 2 * n + 1
    BY <2>1
  <2> QED BY <2>2 DEF n, l
<1> QED BY <1>1, <1>5, <1>7, <1>9 DEF IsTranscript

\* What save writes: each column from the entity or from the row, and the
\* entity itself when nobody wrote the row since it was selected.
LEMMA DifferingColumns ==
  ASSUME NEW old \in Sessions, NEW entity \in Sessions, NEW seen \in Sessions
  PROVE  LET new == Differing(old, entity, seen) IN
         /\ new \in Sessions
         /\ new.status = IF entity.status # seen.status THEN entity.status ELSE old.status
         /\ new.report \in {entity.report, old.report}
         /\ seen = old => new = entity
<1> DEFINE new == Differing(old, entity, seen)
           Columns == {"status", "reportStatus", "report"}
<1>1. DOMAIN old = Columns
  BY DEF Sessions
<1>2. new = [col \in Columns |-> IF entity[col] # seen[col] THEN entity[col] ELSE old[col]]
  BY <1>1 DEF Differing
<1>3. new = [status |-> new.status, reportStatus |-> new.reportStatus, report |-> new.report]
  BY <1>2
<1>4. /\ new.status = IF entity.status # seen.status THEN entity.status ELSE old.status
      /\ new.reportStatus = IF entity.reportStatus # seen.reportStatus
                            THEN entity.reportStatus ELSE old.reportStatus
      /\ new.report = IF entity.report # seen.report THEN entity.report ELSE old.report
  BY <1>2
<1>5. new \in Sessions
  BY <1>3, <1>4 DEF Sessions
<1>6. ASSUME seen = old PROVE new = entity
  <2>1. new.status = entity.status /\ new.reportStatus = entity.reportStatus
          /\ new.report = entity.report
    BY <1>4, <1>6
  <2> QED BY <1>3, <2>1 DEF Sessions
<1> QED BY <1>4, <1>5, <1>6

LEMMA ConstantTypes ==
  /\ NoSession \in Sessions /\ NoRequest \in RequestStates /\ NoTurn \in TurnStates
  /\ NoReport \notin Reports
BY CallsAssumption DEF NoSession, Sessions, NoRequest, RequestStates, NoTurn, TurnStates,
                       NoReport, Reports

-----------------------------------------------------------------------------
(* The transcript *)

Waiting(c) == turn[c].pc = "waiting"

NotBegun == start # "done" => turns = {} /\ \A c \in TurnCalls : turn[c].pc = "idle"
RowsPaired == start = "done" => IsTranscript(turns)
CopiesPaired ==
  \A c \in TurnCalls : Waiting(c) => IsTranscript(turn[c].read) /\ ~AtLimit(turn[c].read)
StoredOnce == \A c \in TurnCalls : turn[c].pc # "done" => \A t \in turns : t.of # c
AloneIfNotOverlapped ==
  ~turnsOverlapped =>
    \A c \in TurnCalls : Waiting(c) =>
      turn[c].read = turns /\ \A d \in TurnCalls : Waiting(d) => d = c

TranscriptInv ==
  /\ NotBegun /\ RowsPaired /\ CopiesPaired /\ StoredOnce /\ AloneIfNotOverlapped
  /\ RolesAlternate /\ TranscriptInOrder

\* The pair a waiting request stores.
Pair(c, n) == {[index |-> n, role |-> "user", of |-> c],
               [index |-> n + 1, role |-> "ai", of |-> c]}

\* It is numbered from an odd index within the bounds of Turns.
LEMMA PairIndexes ==
  ASSUME TypeOK, TranscriptInv, NEW c \in TurnCalls, Waiting(c)
  PROVE  LET n == Cardinality(turn[c].read) IN
         /\ n \in Nat /\ n % 2 = 1 /\ (n + 1) % 2 = 0
         /\ Pair(c, n) \subseteq Turns
<1> DEFINE R == turn[c].read
           n == Cardinality(R)
           k == Cardinality(UserTurns(R))
<1>1. IsTranscript(R) /\ ~(k >= MaxTurns)
  BY DEF TranscriptInv, CopiesPaired, AtLimit
<1>2. k \in Nat /\ n \in Nat
  BY <1>1, UserTurnsFinite DEF IsTranscript
<1>3. n = 2 * k + 1
  BY <1>1 DEF IsTranscript
<1> HIDE DEF n, k
<1>4. k + 1 <= MaxTurns /\ MaxTurns \in Nat
  BY <1>1, <1>2, LimitsAssumption
<1>5. n % 2 = 1 /\ (n + 1) % 2 = 0 /\ n \in 0..(2 * MaxTurns) /\ n + 1 \in 0..(2 * MaxTurns)
  BY <1>2, <1>3, <1>4
<1>6. Pair(c, n) \subseteq Turns
  BY <1>5 DEF Pair, Turns
<1> QED BY <1>2, <1>5, <1>6 DEF n

LEMMA StoreTurnStep ==
  ASSUME TypeOK, TranscriptInv, NEW c \in TurnCalls, StoreTurn(c)
  PROVE  TranscriptInv' /\ turns' \in SUBSET Turns
<1> DEFINE n == Cardinality(turn[c].read)
           u == [index |-> n, role |-> "user", of |-> c]
           a == [index |-> n + 1, role |-> "ai", of |-> c]
<1>1. /\ Waiting(c) /\ start' = start /\ turnsOverlapped' = turnsOverlapped
      /\ turns' = turns \cup {u, a}
      /\ turn' = [turn EXCEPT ![c] = [NoTurn EXCEPT !.pc = "done"]]
  BY DEF StoreTurn, TurnDone, Waiting
<1>2. n \in Nat /\ n % 2 = 1 /\ (n + 1) % 2 = 0 /\ {u, a} \subseteq Turns
  BY <1>1, PairIndexes DEF Pair
<1>3. /\ turn'[c].pc = "done"
      /\ \A d \in TurnCalls : d # c => turn'[d] = turn[d]
  BY <1>1 DEF TypeOK, NoTurn
<1>4. start = "done"
  BY <1>1 DEF TranscriptInv, NotBegun, Waiting
<1>5. u \notin turns /\ a \notin turns
  BY <1>1 DEF TranscriptInv, StoredOnce, Waiting
<1> HIDE DEF n
<1>6. /\ IsTranscript(turns')
      /\ Cardinality(turns') = Cardinality(turns) + 2
      /\ Cardinality(UserTurns(turns')) = Cardinality(UserTurns(turns)) + 1
  <2>1. u.role = "user" /\ a.role = "ai"
    OBVIOUS
  <2>2. IsTranscript(turns)
    BY <1>4 DEF TranscriptInv, RowsPaired
  <2> QED BY <1>1, <1>5, <2>1, <2>2, AddPair
<1>7. NotBegun' /\ RowsPaired'
  BY <1>1, <1>4, <1>6 DEF NotBegun, RowsPaired
<1>8. CopiesPaired'
  BY <1>3 DEF TranscriptInv, CopiesPaired, Waiting
<1>9. StoredOnce'
  BY <1>1, <1>3 DEF TranscriptInv, StoredOnce
<1>10. AloneIfNotOverlapped'
  BY <1>1, <1>3 DEF TranscriptInv, AloneIfNotOverlapped, Waiting
<1>11. RolesAlternate'
  BY <1>1, <1>2 DEF TranscriptInv, RolesAlternate
<1>12. TranscriptInOrder'
  <2> DEFINE k == Cardinality(UserTurns(turns))
  <2>0. SUFFICES ASSUME ~turnsOverlapped
                 PROVE  /\ {t.index : t \in turns'} = 0 .. (Cardinality(turns') - 1)
                        /\ Cardinality(UserTurns(turns')) <= MaxTurns
    BY <1>1 DEF TranscriptInOrder
  <2>1. turn[c].read = turns
    BY <1>1, <2>0 DEF TranscriptInv, AloneIfNotOverlapped
  <2>2. n = Cardinality(turns)
    BY <2>1 DEF n
  <2>3. {t.index : t \in turns} = 0 .. (n - 1)
    BY <2>0, <2>2 DEF TranscriptInv, TranscriptInOrder
  <2>4. {t.index : t \in turns'} = {t.index : t \in turns} \cup {n, n + 1}
    <3>1. u.index = n /\ a.index = n + 1 /\ turns' = turns \cup {u, a}
      BY <1>1
    <3> HIDE DEF u, a
    <3> QED BY <3>1
  <2>5. {t.index : t \in turns'} = 0 .. (n + 1)
    BY <1>2, <2>3, <2>4
  <2>6. k \in Nat /\ ~(k >= MaxTurns)
    BY <1>1, <1>4, <2>1, UserTurnsFinite
       DEF TranscriptInv, CopiesPaired, RowsPaired, IsTranscript, AtLimit
  <2>7. k + 1 <= MaxTurns
    BY <2>6, LimitsAssumption
  <2>8. Cardinality(turns') - 1 = n + 1
    BY <1>2, <1>6, <2>2
  <2> QED BY <1>6, <2>5, <2>7, <2>8
<1>13. turns' \in SUBSET Turns
  BY <1>1, <1>2 DEF TypeOK
<1> QED BY <1>7, <1>8, <1>9, <1>10, <1>11, <1>12, <1>13 DEF TranscriptInv

LEMMA TranscriptInit == Init => TranscriptInv
<1> SUFFICES ASSUME Init PROVE TranscriptInv
  OBVIOUS
<1>1. NotBegun /\ RowsPaired /\ CopiesPaired /\ StoredOnce /\ AloneIfNotOverlapped
  BY DEF Init, NotBegun, RowsPaired, CopiesPaired, StoredOnce, AloneIfNotOverlapped,
         Waiting, NoTurn
<1>2. RolesAlternate
  BY DEF Init, RolesAlternate
<1>3. TranscriptInOrder
  <2>1. turns = {} /\ UserTurns(turns) = {} /\ Cardinality({}) = 0
    BY FS_EmptySet DEF Init, UserTurns
  <2>2. {t.index : t \in turns} = 0 .. (Cardinality(turns) - 1)
    BY <2>1
  <2> QED BY <2>1, <2>2, LimitsAssumption DEF TranscriptInOrder
<1> QED BY <1>1, <1>2, <1>3 DEF TranscriptInv

LEMMA StartSeedStep ==
  ASSUME TypeOK, TranscriptInv, StartSeed
  PROVE  TranscriptInv' /\ turns' \in SUBSET Turns
<1> DEFINE opening == [index |-> 0, role |-> "ai", of |-> "opening"]
<1>1. /\ turns' = {opening} /\ start' = "done"
      /\ UNCHANGED <<turn, turnsOverlapped>>
      /\ \A c \in TurnCalls : turn[c].pc = "idle"
  BY DEF StartSeed, TranscriptInv, NotBegun
<1>2. opening \in Turns /\ IsTranscript({opening})
  BY OpeningIsTranscript
<1>3. NotBegun' /\ RowsPaired' /\ CopiesPaired' /\ AloneIfNotOverlapped'
  BY <1>1, <1>2 DEF NotBegun, RowsPaired, CopiesPaired, AloneIfNotOverlapped, Waiting
<1>4. StoredOnce'
  BY <1>1, CallsAssumption DEF StoredOnce
<1>5. RolesAlternate'
  BY <1>1 DEF RolesAlternate
<1>6. TranscriptInOrder'
  <2>1. UserTurns({opening}) = {}
    BY DEF UserTurns
  <2>2. Cardinality({opening}) = 1 /\ Cardinality({}) = 0
    BY FS_Singleton, FS_EmptySet
  <2>3. {t.index : t \in {opening}} = {0}
    OBVIOUS
  <2>4. 0 .. (1 - 1) = {0} /\ 0 <= MaxTurns
    BY LimitsAssumption
  <2> QED BY <1>1, <2>1, <2>2, <2>3, <2>4 DEF TranscriptInOrder
<1> QED BY <1>1, <1>2, <1>3, <1>4, <1>5, <1>6 DEF TranscriptInv

\* A turn request that reads, or goes away.
LEMMA ReadTurnsStep ==
  ASSUME TypeOK, TranscriptInv, NEW c \in TurnCalls, ReadTurns(c)
  PROVE  TranscriptInv'
<1>1. UNCHANGED <<turns, start>> /\ turn[c].pc = "checked"
      /\ \A d \in TurnCalls : d # c => turn'[d] = turn[d]
  BY DEF ReadTurns, TurnDone, TypeOK
<1>2. start = "done"
  BY <1>1 DEF TranscriptInv, NotBegun
<1>3. NotBegun' /\ RowsPaired' /\ RolesAlternate'
  BY <1>1, <1>2 DEF TranscriptInv, NotBegun, RowsPaired, RolesAlternate
<1>4. CASE AtLimit(turns)
  <2>1. turn'[c].pc = "done" /\ turnsOverlapped' = turnsOverlapped
    BY <1>4 DEF ReadTurns, TurnDone, NoTurn, TypeOK
  <2>2. CopiesPaired' /\ StoredOnce' /\ AloneIfNotOverlapped'
    BY <1>1, <2>1 DEF TranscriptInv, CopiesPaired, StoredOnce, AloneIfNotOverlapped, Waiting
  <2>3. TranscriptInOrder'
    BY <1>1, <2>1 DEF TranscriptInv, TranscriptInOrder
  <2> QED BY <1>3, <2>2, <2>3 DEF TranscriptInv
<1>5. CASE ~AtLimit(turns)
  <2>1. /\ turn'[c] = [pc |-> "waiting", read |-> turns]
        /\ turnsOverlapped' = (turnsOverlapped \/ \E d \in TurnCalls : Waiting(d))
    BY <1>5 DEF ReadTurns, TypeOK, Waiting
  <2>2. CopiesPaired'
    BY <1>1, <1>2, <1>5, <2>1
       DEF TranscriptInv, CopiesPaired, RowsPaired, Waiting, AtLimit
  <2>3. StoredOnce'
    BY <1>1, <2>1 DEF TranscriptInv, StoredOnce
  <2>4. AloneIfNotOverlapped'
    <3>1. ASSUME ~turnsOverlapped', NEW d \in TurnCalls, turn'[d].pc = "waiting"
          PROVE  d = c
      BY <1>1, <2>1, <3>1 DEF Waiting
    <3>2. turn'[c].read = turns'
      BY <1>1, <2>1
    <3> QED BY <3>1, <3>2 DEF AloneIfNotOverlapped, Waiting
  <2>5. TranscriptInOrder'
    BY <1>1, <2>1 DEF TranscriptInv, TranscriptInOrder
  <2> QED BY <1>3, <2>2, <2>3, <2>4, <2>5 DEF TranscriptInv
<1> QED BY <1>4, <1>5

LEMMA QuietTurnStep ==
  ASSUME TypeOK, TranscriptInv, NEW c \in TurnCalls,
         UNCHANGED <<turns, start, turnsOverlapped>>,
         \/ TurnDone(c) /\ start = "done"
         \/ turn' = [turn EXCEPT ![c].pc = "checked"] /\ turn[c].pc = "idle" /\ start = "done"
  PROVE  TranscriptInv'
<1>1. /\ turn'[c].pc \in {"done", "checked"}
      /\ turn'[c].pc = "checked" => turn[c].pc # "done"
      /\ \A d \in TurnCalls : d # c => turn'[d] = turn[d]
  BY DEF TurnDone, NoTurn, TypeOK, TurnStates
<1>2. NotBegun' /\ RowsPaired' /\ RolesAlternate'
  BY DEF TranscriptInv, NotBegun, RowsPaired, RolesAlternate
<1>3. CopiesPaired' /\ StoredOnce' /\ AloneIfNotOverlapped'
  BY <1>1 DEF TranscriptInv, CopiesPaired, StoredOnce, AloneIfNotOverlapped, Waiting
<1>4. TranscriptInOrder'
  BY DEF TranscriptInv, TranscriptInOrder
<1> QED BY <1>2, <1>3, <1>4 DEF TranscriptInv

\* Steps that leave the transcript and its readers alone.
LEMMA TranscriptUnchanged ==
  ASSUME TranscriptInv, UNCHANGED <<turns, turn, turnsOverlapped>>,
         start' = start \/ (start # "done" /\ start' # "done")
  PROVE  TranscriptInv'
<1>1. NotBegun' /\ RowsPaired' /\ CopiesPaired' /\ StoredOnce' /\ AloneIfNotOverlapped'
  BY DEF TranscriptInv, NotBegun, RowsPaired, CopiesPaired, StoredOnce,
         AloneIfNotOverlapped, Waiting
<1>2. RolesAlternate' /\ TranscriptInOrder'
  BY DEF TranscriptInv, RolesAlternate, TranscriptInOrder
<1> QED BY <1>1, <1>2 DEF TranscriptInv

LEMMA TranscriptStep ==
  ASSUME TypeOK, TranscriptInv, [Next]_vars
  PROVE  TranscriptInv' /\ turns' \in SUBSET Turns
<1>1. CASE StartRefuse \/ StartSave \/ StartAborts
  <2>1. UNCHANGED <<turns, turn, turnsOverlapped>> /\ start # "done" /\ start' # "done"
    BY <1>1 DEF StartRefuse, StartSave, StartAborts
  <2> QED BY <2>1, TranscriptUnchanged DEF TypeOK
<1>2. CASE StartSeed
  BY <1>2, StartSeedStep
<1>3. ASSUME NEW c \in TurnCalls, CheckTurn(c) \/ TurnFails(c) \/ TurnAborts(c)
      PROVE  TranscriptInv' /\ turns' \in SUBSET Turns
  <2>1. UNCHANGED <<turns, start, turnsOverlapped>>
    BY <1>3 DEF CheckTurn, TurnFails, TurnAborts
  <2>2. start = "done"
    BY <1>3 DEF CheckTurn, TurnFails, TurnAborts, TranscriptInv, NotBegun
  <2>3. \/ TurnDone(c)
        \/ turn' = [turn EXCEPT ![c].pc = "checked"] /\ turn[c].pc = "idle"
    BY <1>3 DEF CheckTurn, TurnFails, TurnAborts
  <2>4. TranscriptInv'
    BY <2>1, <2>2, <2>3, QuietTurnStep
  <2> QED BY <2>1, <2>4 DEF TypeOK
<1>4. ASSUME NEW c \in TurnCalls, ReadTurns(c)
      PROVE  TranscriptInv' /\ turns' \in SUBSET Turns
  BY <1>4, ReadTurnsStep DEF ReadTurns, TypeOK
<1>5. ASSUME NEW c \in TurnCalls, StoreTurn(c)
      PROVE  TranscriptInv' /\ turns' \in SUBSET Turns
  BY <1>5, StoreTurnStep
<1>6. ASSUME NEW r \in ReportCalls, End(r) \/ GetReport(r) \/ RequestStep(r) \/ RequestAborts(r)
      PROVE  TranscriptInv' /\ turns' \in SUBSET Turns
  <2>1. UNCHANGED <<turns, start, turn, turnsOverlapped>>
    BY <1>6 DEF End, GetReport, RequestStep, RequestAborts, SaveSelect, EndSaved, SaveUpdate,
                ReadTranscript, Generated, GenerationFails, ReportSaved
  <2> QED BY <2>1, TranscriptUnchanged DEF TypeOK
<1>7. CASE UNCHANGED vars
  BY <1>7, TranscriptUnchanged DEF vars, TypeOK
<1> QED BY <1>1, <1>2, <1>3, <1>4, <1>5, <1>6, <1>7 DEF Next, TurnStep

-----------------------------------------------------------------------------
(* Types *)

LEMMA TypeInit == Init => TypeOK
<1> SUFFICES ASSUME Init PROVE TypeOK
  OBVIOUS
<1>1. turn \in [TurnCalls -> TurnStates] /\ request \in [ReportCalls -> RequestStates]
  BY ConstantTypes DEF Init
<1>2. session \in Sessions /\ turns \in SUBSET Turns
  BY ConstantTypes DEF Init
<1>3. faults \in 0..MaxFaults /\ start = "idle"
  BY LimitsAssumption DEF Init
<1>4. turnsOverlapped \in BOOLEAN /\ reportsOverlapped \in BOOLEAN /\ lateTurn \in BOOLEAN
  BY Zenon DEF Init
<1> QED BY <1>1, <1>2, <1>3, <1>4 DEF TypeOK

\* A request that finishes, or loads an entity, keeps its type.
LEMMA RequestTypes ==
  ASSUME TypeOK, NEW r \in ReportCalls
  PROVE  /\ RequestDone(r) => request' \in [ReportCalls -> RequestStates]
         /\ \A pc \in {"ending", "reading"}, entity \in Sessions :
              LoadFor(r, pc, entity) =>
                /\ request' \in [ReportCalls -> RequestStates]
                /\ request'[r] = [NoRequest EXCEPT !.pc = pc, !.entity = entity]
                /\ reportsOverlapped' \in BOOLEAN
<1>1. [NoRequest EXCEPT !.pc = "done"] \in RequestStates
  BY ConstantTypes DEF NoRequest, RequestStates
<1>2. ASSUME NEW pc \in {"ending", "reading"}, NEW entity \in Sessions
      PROVE  [NoRequest EXCEPT !.pc = pc, !.entity = entity] \in RequestStates
  BY ConstantTypes DEF NoRequest, RequestStates
<1>3. RequestDone(r) => request' \in [ReportCalls -> RequestStates]
  BY <1>1 DEF RequestDone, TypeOK
<1>4. ASSUME NEW pc \in {"ending", "reading"}, NEW entity \in Sessions, LoadFor(r, pc, entity)
      PROVE  /\ request' \in [ReportCalls -> RequestStates]
             /\ request'[r] = [NoRequest EXCEPT !.pc = pc, !.entity = entity]
  BY <1>2, <1>4 DEF LoadFor, TypeOK
<1>5. ASSUME NEW pc, NEW entity, LoadFor(r, pc, entity)
      PROVE  reportsOverlapped' \in BOOLEAN
  BY <1>5, Zenon DEF LoadFor
<1> QED BY <1>3, <1>4, <1>5

LEMMA FaultType == ASSUME TypeOK, Fault PROVE faults' \in 0..MaxFaults
BY LimitsAssumption DEF Fault, TypeOK

LEMMA EndedType ==
  ASSUME NEW s \in Sessions
  PROVE  [s EXCEPT !.status = "ended"] \in Sessions
BY DEF Sessions

LEMMA StartTypes ==
  ASSUME TypeOK, StartRefuse \/ StartSave \/ StartSeed \/ StartAborts, turns' \in SUBSET Turns
  PROVE  TypeOK'
<1>1. [NoSession EXCEPT !.status = "active"] \in Sessions
  BY DEF NoSession, Sessions
<1>2. /\ session' \in Sessions
      /\ start' \in {"idle", "saved", "done", "failed"}
      /\ faults' \in 0..MaxFaults
      /\ UNCHANGED <<turn, request, turnsOverlapped, reportsOverlapped, lateTurn>>
  BY <1>1, LimitsAssumption DEF StartRefuse, StartSave, StartSeed, StartAborts, Fault, TypeOK
<1> QED BY <1>2 DEF TypeOK

LEMMA TurnTypes ==
  ASSUME TypeOK, NEW c \in TurnCalls, CheckTurn(c) \/ TurnStep(c) \/ TurnAborts(c),
         turns' \in SUBSET Turns
  PROVE  TypeOK'
<1>1. [NoTurn EXCEPT !.pc = "done"] \in TurnStates
  BY DEF NoTurn, TurnStates
<1>2. turn[c] \in TurnStates /\ [turn[c] EXCEPT !.pc = "checked"] \in TurnStates
  BY DEF TypeOK, TurnStates
<1>3. [pc |-> "waiting", read |-> turns] \in TurnStates
  BY DEF TypeOK, TurnStates
<1>4. turn' \in [TurnCalls -> TurnStates]
  <2>1. \/ turn' = [turn EXCEPT ![c] = [NoTurn EXCEPT !.pc = "done"]]
        \/ turn' = [turn EXCEPT ![c].pc = "checked"]
        \/ turn' = [turn EXCEPT ![c] = [pc |-> "waiting", read |-> turns]]
    BY DEF CheckTurn, TurnStep, ReadTurns, StoreTurn, TurnFails, TurnAborts, TurnDone
  <2> QED BY <1>1, <1>2, <1>3, <2>1 DEF TypeOK
<1>5. UNCHANGED <<session, start, request, reportsOverlapped>>
  BY DEF CheckTurn, TurnStep, ReadTurns, StoreTurn, TurnFails, TurnAborts
<1>6. faults' \in 0..MaxFaults
  <2>1. Fault \/ faults' = faults
    BY DEF CheckTurn, TurnStep, ReadTurns, StoreTurn, TurnFails, TurnAborts
  <2> QED BY <2>1, FaultType DEF TypeOK
<1>7. turnsOverlapped' \in BOOLEAN
  <2>1. \/ turnsOverlapped' = turnsOverlapped
        \/ turnsOverlapped' = (turnsOverlapped \/ \E d \in TurnCalls : turn[d].pc = "waiting")
    BY DEF CheckTurn, TurnStep, ReadTurns, StoreTurn, TurnFails, TurnAborts
  <2> QED BY <2>1, Zenon DEF TypeOK
<1>8. lateTurn' \in BOOLEAN
  <2>1. \/ lateTurn' = lateTurn
        \/ lateTurn' = (lateTurn \/ session.status = "ended")
    BY DEF CheckTurn, TurnStep, ReadTurns, StoreTurn, TurnFails, TurnAborts
  <2> QED BY <2>1, Zenon DEF TypeOK
<1> QED BY <1>4, <1>5, <1>6, <1>7, <1>8 DEF TypeOK

\* What the steps of a request write has the types of TypeOK.
LEMMA RequestStepTypes ==
  ASSUME TypeOK, NEW r \in ReportCalls,
         End(r) \/ GetReport(r) \/ RequestStep(r) \/ RequestAborts(r)
  PROVE  TypeOK'
<1>0. request[r] \in RequestStates /\ session \in Sessions
  BY DEF TypeOK
<1>1. CASE End(r) \/ GetReport(r)
  <2>1. /\ request' \in [ReportCalls -> RequestStates]
        /\ reportsOverlapped' \in BOOLEAN
    BY <1>0, <1>1, EndedType, RequestTypes DEF End, GetReport, TypeOK
  <2>2. UNCHANGED <<session, turns, start, turn, faults, turnsOverlapped, lateTurn>>
    BY <1>1 DEF End, GetReport
  <2> QED BY <2>1, <2>2 DEF TypeOK
<1>2. CASE SaveSelect(r)
  <2>1. request' \in [ReportCalls -> RequestStates]
    <3>1. request' = [request EXCEPT ![r] =
            [request[r] EXCEPT !.seen = session,
               !.pc = IF request[r].pc = "ending" THEN "endingSelected" ELSE "storingSelected"]]
      BY <1>0, <1>2 DEF SaveSelect, TypeOK
    <3>2. [request[r] EXCEPT !.seen = session,
             !.pc = IF request[r].pc = "ending" THEN "endingSelected" ELSE "storingSelected"]
          \in RequestStates
      BY <1>0 DEF RequestStates
    <3> QED BY <3>1, <3>2 DEF TypeOK
  <2>2. UNCHANGED <<session, turns, start, turn, faults,
                    turnsOverlapped, reportsOverlapped, lateTurn>>
    BY <1>2 DEF SaveSelect
  <2> QED BY <2>1, <2>2 DEF TypeOK
<1>3. CASE EndSaved(r) \/ ReportSaved(r)
  <2>1. session' \in Sessions
    BY <1>0, <1>3, DifferingColumns DEF EndSaved, ReportSaved, SaveUpdate, RequestStates
  <2>2. UNCHANGED <<turns, start, turn, faults, turnsOverlapped, reportsOverlapped, lateTurn>>
    BY <1>3 DEF EndSaved, ReportSaved, SaveUpdate
  <2>3. CASE RequestDone(r)
    BY <2>1, <2>2, <2>3, RequestTypes DEF TypeOK
  <2>4. CASE request' = [request EXCEPT ![r].pc = "reading", ![r].seen = NoSession]
    <3>1. [request[r] EXCEPT !.pc = "reading", !.seen = NoSession] \in RequestStates
      BY <1>0, ConstantTypes DEF RequestStates
    <3> QED BY <1>0, <2>1, <2>2, <2>4, <3>1 DEF TypeOK
  <2> QED BY <1>3, <2>3, <2>4 DEF EndSaved, ReportSaved
<1>4. CASE ReadTranscript(r)
  <2>1. [request[r] EXCEPT !.pc = "generating", !.covers = turns] \in RequestStates
    BY <1>0 DEF RequestStates, TypeOK
  <2> QED BY <1>0, <1>4, <2>1 DEF ReadTranscript, TypeOK
<1>5. CASE Generated(r) \/ GenerationFails(r)
  <2>1. [by |-> r, covers |-> request[r].covers] \in Reports
    BY <1>0 DEF Reports, RequestStates
  <2>2. request'[r] \in RequestStates
    BY <1>0, <1>5, <2>1 DEF Generated, GenerationFails, RequestStates, Sessions, TypeOK
  <2>3. /\ request' \in [ReportCalls -> {request'[q] : q \in ReportCalls}]
        /\ \A q \in ReportCalls : q # r => request'[q] = request[q]
    BY <1>5 DEF Generated, GenerationFails, TypeOK
  <2>4. request' \in [ReportCalls -> RequestStates]
    BY <2>2, <2>3 DEF TypeOK
  <2> QED BY <1>5, <2>4 DEF Generated, GenerationFails, TypeOK
<1>6. CASE RequestAborts(r)
  <2>1. request' \in [ReportCalls -> RequestStates] /\ faults' \in 0..MaxFaults
    BY <1>6, RequestTypes, FaultType DEF RequestAborts
  <2> QED BY <1>6, <2>1 DEF RequestAborts, TypeOK
<1> QED BY <1>1, <1>2, <1>3, <1>4, <1>5, <1>6 DEF RequestStep

LEMMA TypeStep ==
  ASSUME TypeOK, TranscriptInv, [Next]_vars
  PROVE  TypeOK'
<1>1. turns' \in SUBSET Turns
  BY TranscriptStep
<1>2. CASE UNCHANGED vars
  BY <1>2 DEF vars, TypeOK
<1> QED BY <1>1, <1>2, StartTypes, TurnTypes, RequestStepTypes DEF Next

-----------------------------------------------------------------------------
(* The session and its report *)

Saving == {"ending", "endingSelected"}
Reporting == {"reading", "generating", "storing", "storingSelected"}

\* Nobody knows a session that is not set up.
Unknown ==
  /\ start # "done" => \A r \in ReportCalls : request[r].pc = "idle"
  /\ start # "done" => session.status # "ended"
  /\ start \in {"saved", "done"} => session.status # "none"
ActiveHasNoReport ==
  session.status # "ended" => session.report = NoReport /\ session.reportStatus = "pending"
\* Whoever is at work means to end the session, and reports only on an ended one.
EntitiesEnd ==
  \A r \in ReportCalls :
    /\ AtWork(r) => request[r].entity.status = "ended"
    /\ request[r].pc \in Reporting => session.status = "ended"
    /\ request[r].pc = "endingSelected" /\ request[r].seen.status = "ended" =>
         session.status = "ended"
    /\ request[r].pc \in Saving =>
         request[r].entity.report = NoReport /\ request[r].entity.reportStatus = "pending"
CopiesCover ==
  ~lateTurn => \A r \in ReportCalls :
    /\ request[r].pc = "generating" => request[r].covers = turns
    /\ AtWork(r) /\ request[r].entity.report # NoReport => request[r].entity.report.covers = turns

\* Without overlap, the one request at work holds the row itself.
Matches(entity) == entity.report # NoReport <=> entity.reportStatus = "ready"
OneAtWork ==
  ~reportsOverlapped => \A r \in ReportCalls : AtWork(r) =>
    /\ \A q \in ReportCalls : AtWork(q) => q = r
    /\ session.reportStatus # "ready"
    /\ Matches(request[r].entity)
    /\ request[r].pc \in {"endingSelected", "storingSelected"} => request[r].seen = session
    /\ request[r].pc \in {"reading", "generating"} => request[r].entity = session

SessionInv ==
  /\ Unknown /\ ActiveHasNoReport /\ EntitiesEnd
  /\ CopiesCover /\ ReportCoversTranscript
  /\ OneAtWork /\ ReportMatchesStatus

LEMMA SessionInit == Init => SessionInv
BY DEF Init, SessionInv, Unknown, ActiveHasNoReport, EntitiesEnd, CopiesCover,
       ReportCoversTranscript, OneAtWork, ReportMatchesStatus, NoSession, NoRequest,
       AtWork, Saving, Reporting

\* Nobody is at work before the session is set up.
LEMMA StartSessionStep ==
  ASSUME TypeOK, SessionInv, StartRefuse \/ StartSave \/ StartSeed \/ StartAborts
  PROVE  SessionInv'
<1>1. /\ start # "done" /\ UNCHANGED <<request, reportsOverlapped, lateTurn>>
      /\ \A r \in ReportCalls : request[r].pc = "idle"
  BY DEF StartRefuse, StartSave, StartSeed, StartAborts, SessionInv, Unknown
<1>2. \A r \in ReportCalls : ~AtWork(r) /\ ~AtWork(r)'
  BY <1>1 DEF AtWork
<1>3. session'.status # "ended" /\ session'.report = NoReport /\ session'.reportStatus = "pending"
  <2>1. session.status # "ended" /\ session.report = NoReport /\ session.reportStatus = "pending"
    BY <1>1 DEF SessionInv, Unknown, ActiveHasNoReport
  <2>2. session' = session \/ session' = [NoSession EXCEPT !.status = "active"]
    BY DEF StartRefuse, StartSave, StartSeed, StartAborts
  <2> QED BY <2>1, <2>2 DEF NoSession
<1>4. Unknown'
  <2>1. start' \in {"saved", "done"} => session'.status # "none"
    BY DEF StartRefuse, StartSave, StartSeed, StartAborts, SessionInv, Unknown, NoSession
  <2> QED BY <1>1, <1>3, <2>1 DEF Unknown
<1>6. ActiveHasNoReport' /\ ReportCoversTranscript' /\ ReportMatchesStatus'
  BY <1>1, <1>3 DEF ActiveHasNoReport, ReportCoversTranscript, ReportMatchesStatus
<1>5. EntitiesEnd' /\ CopiesCover' /\ OneAtWork'
  BY <1>1, <1>2 DEF EntitiesEnd, CopiesCover, OneAtWork, Saving, Reporting
<1> QED BY <1>4, <1>5, <1>6 DEF SessionInv

\* A turn request: only a late turn can change the transcript of a report.
LEMMA TurnSessionStep ==
  ASSUME TypeOK, SessionInv, NEW c \in TurnCalls, CheckTurn(c) \/ TurnStep(c) \/ TurnAborts(c)
  PROVE  SessionInv'
<1>0. /\ UNCHANGED <<session, start, request, reportsOverlapped>>
      /\ \/ lateTurn' = lateTurn /\ turns' = turns
         \/ lateTurn' = (lateTurn \/ session.status = "ended")
  BY DEF CheckTurn, TurnStep, ReadTurns, StoreTurn, TurnFails, TurnAborts
<1>1. /\ UNCHANGED <<session, start, request, reportsOverlapped>>
      /\ lateTurn => lateTurn'
      /\ turns' = turns \/ session.status # "ended" \/ lateTurn'
  <2>1. ASSUME lateTurn' = (lateTurn \/ session.status = "ended")
        PROVE  (lateTurn => lateTurn') /\ (session.status = "ended" => lateTurn')
    BY <2>1, Zenon
  <2> QED BY <1>0, <2>1
<1>2. Unknown' /\ ActiveHasNoReport' /\ ReportMatchesStatus'
  BY <1>1 DEF SessionInv, Unknown, ActiveHasNoReport, ReportMatchesStatus
<1>3. EntitiesEnd' /\ OneAtWork'
  BY <1>1 DEF SessionInv, EntitiesEnd, OneAtWork, AtWork
<1>4. ReportCoversTranscript'
  BY <1>1 DEF SessionInv, ActiveHasNoReport, ReportCoversTranscript
<1>5. CopiesCover'
  <2>1. CASE turns' = turns
    BY <1>1, <2>1 DEF SessionInv, CopiesCover, AtWork
  <2>2. CASE session.status # "ended" /\ ~lateTurn
    <3>1. ASSUME NEW r \in ReportCalls, AtWork(r)
          PROVE  request[r].pc \in Saving /\ request[r].entity.report = NoReport
      BY <2>2, <3>1 DEF SessionInv, EntitiesEnd, TypeOK, RequestStates, AtWork, Saving, Reporting
    <3> QED BY <1>1, <3>1 DEF CopiesCover, AtWork, Saving
  <2> QED BY <1>1, <2>1, <2>2 DEF CopiesCover
<1> QED BY <1>2, <1>3, <1>4, <1>5 DEF SessionInv

\* A request that goes away without touching the row.
LEMMA RequestLeaves ==
  ASSUME TypeOK, SessionInv, NEW r \in ReportCalls, RequestDone(r),
         UNCHANGED <<session, turns, start, reportsOverlapped, lateTurn>>, start = "done"
  PROVE  SessionInv'
<1>1. request'[r].pc = "done" /\ \A q \in ReportCalls : q # r => request'[q] = request[q]
  BY DEF RequestDone, NoRequest, TypeOK
<1>2. /\ Unknown' /\ ActiveHasNoReport'
      /\ ReportCoversTranscript' /\ ReportMatchesStatus'
  BY DEF SessionInv, Unknown, ActiveHasNoReport, ReportCoversTranscript, ReportMatchesStatus
<1>3. EntitiesEnd' /\ CopiesCover'
  BY <1>1 DEF SessionInv, EntitiesEnd, CopiesCover, AtWork, Saving, Reporting
<1>4. OneAtWork'
  BY <1>1 DEF SessionInv, OneAtWork, AtWork
<1> QED BY <1>2, <1>3, <1>4 DEF SessionInv

\* A request that loads the entity it will write: of an active session to end
\* it, or of an ended one that has no report.
LEMMA RequestLoads ==
  ASSUME TypeOK, SessionInv, NEW r \in ReportCalls,
         NEW pc \in {"ending", "reading"}, NEW entity \in Sessions,
         LoadFor(r, pc, entity), request[r].pc = "idle", start = "done",
         UNCHANGED <<session, turns, start, lateTurn>>,
         \/ /\ pc = "ending" /\ session.status = "active"
            /\ entity = [session EXCEPT !.status = "ended"]
         \/ /\ pc = "reading" /\ session.status = "ended"
            /\ entity = session /\ NeedsReport(session)
  PROVE  SessionInv'
<1>0. session \in Sessions
  BY DEF TypeOK
<1>1. /\ request'[r].pc = pc /\ request'[r].entity = entity
      /\ \A q \in ReportCalls : q # r => request'[q] = request[q]
  BY RequestTypes DEF LoadFor, NoRequest, TypeOK
<1>2. /\ entity.status = "ended"
      /\ entity.report = session.report /\ entity.reportStatus = session.reportStatus
      /\ pc = "ending" => session.report = NoReport /\ session.reportStatus = "pending"
      /\ session.reportStatus # "ready"
  BY <1>0 DEF NeedsReport, SessionInv, ActiveHasNoReport, Sessions
<1>3. /\ reportsOverlapped => reportsOverlapped'
      /\ ~reportsOverlapped' => \A q \in ReportCalls : ~AtWork(q)
  <2>1. reportsOverlapped' = (reportsOverlapped \/ \E q \in ReportCalls : AtWork(q))
    BY DEF LoadFor
  <2> QED BY <2>1, Zenon
<1>4. Unknown' /\ ActiveHasNoReport' /\ ReportCoversTranscript'
  BY DEF SessionInv, Unknown, ActiveHasNoReport, ReportCoversTranscript
<1>5. ReportMatchesStatus'
  BY <1>3 DEF SessionInv, ReportMatchesStatus
<1>6. EntitiesEnd'
  BY <1>1, <1>2 DEF SessionInv, EntitiesEnd, AtWork, Saving, Reporting
<1>7. CopiesCover'
  BY <1>1, <1>2 DEF SessionInv, CopiesCover, ReportCoversTranscript, AtWork
<1>8. OneAtWork'
  <2>1. ASSUME ~reportsOverlapped' PROVE Matches(entity)
    BY <1>2, <1>3, <2>1 DEF SessionInv, ReportMatchesStatus, Matches
  <2>2. ASSUME ~reportsOverlapped', NEW q \in ReportCalls, AtWork(q)'
        PROVE  q = r
    BY <1>1, <1>3, <2>2 DEF AtWork
  <2>3. pc \in {"ending", "reading"} /\ (pc = "reading" => entity = session)
    OBVIOUS
  <2> QED BY <1>1, <1>2, <2>1, <2>2, <2>3 DEF OneAtWork, Matches
<1> QED BY <1>4, <1>5, <1>6, <1>7, <1>8 DEF SessionInv

LEMMA EndSteps ==
  ASSUME TypeOK, SessionInv, NEW r \in ReportCalls, End(r) \/ GetReport(r)
  PROVE  SessionInv'
<1>1. /\ start = "done" /\ request[r].pc = "idle"
      /\ UNCHANGED <<session, turns, start, lateTurn>>
      /\ session \in Sessions /\ session.status \in {"active", "ended"}
  BY DEF End, GetReport, TypeOK, Sessions, SessionInv, Unknown
<1>2. \/ RequestDone(r) /\ UNCHANGED reportsOverlapped
      \/ session.status = "active" /\ LoadFor(r, "ending", [session EXCEPT !.status = "ended"])
      \/ session.status = "ended" /\ NeedsReport(session) /\ LoadFor(r, "reading", session)
  BY <1>1 DEF End, GetReport
<1> QED BY <1>1, <1>2, RequestLeaves, RequestLoads, EndedType

\* A request at work moves on without touching the row.
LEMMA RequestMoves ==
  ASSUME TypeOK, SessionInv, NEW r \in ReportCalls, AtWork(r),
         SaveSelect(r) \/ ReadTranscript(r) \/ Generated(r) \/ GenerationFails(r)
  PROVE  SessionInv'
<1> DEFINE old == request[r]
           new == request'[r]
<1>0. /\ old \in RequestStates
      /\ UNCHANGED <<session, turns, start, reportsOverlapped, lateTurn>>
      /\ \A q \in ReportCalls : q # r => request'[q] = request[q]
  BY DEF SaveSelect, ReadTranscript, Generated, GenerationFails, TypeOK
<1>1. start = "done"
  BY DEF SessionInv, Unknown, AtWork
<1>2. Unknown' /\ ActiveHasNoReport' /\ ReportCoversTranscript' /\ ReportMatchesStatus'
  BY <1>0, <1>1
     DEF SessionInv, Unknown, ActiveHasNoReport, ReportCoversTranscript, ReportMatchesStatus
<1>3. CASE SaveSelect(r)
  <2>1. /\ new.entity = old.entity /\ new.seen = session
        /\ old.pc = "ending" => new.pc = "endingSelected"
        /\ old.pc = "storing" => new.pc = "storingSelected"
        /\ old.pc \in {"ending", "storing"}
    BY <1>0, <1>3 DEF SaveSelect, TypeOK, RequestStates
  <2> HIDE DEF new
  <2>2. EntitiesEnd'
    BY <1>0, <2>1 DEF SessionInv, EntitiesEnd, AtWork, Saving, Reporting, new
  <2>3. CopiesCover'
    BY <1>0, <2>1 DEF SessionInv, CopiesCover, AtWork, new
  <2>4. OneAtWork'
    BY <1>0, <2>1 DEF SessionInv, OneAtWork, AtWork, new
  <2> QED BY <1>2, <2>2, <2>3, <2>4 DEF SessionInv
<1>4. CASE ReadTranscript(r)
  <2>1. /\ new.entity = old.entity /\ new.covers = turns
        /\ old.pc = "reading" /\ new.pc = "generating"
    BY <1>0, <1>4 DEF ReadTranscript, TypeOK, RequestStates
  <2> HIDE DEF new
  <2>2. EntitiesEnd'
    BY <1>0, <2>1 DEF SessionInv, EntitiesEnd, AtWork, Saving, Reporting, new
  <2>3. CopiesCover'
    BY <1>0, <2>1 DEF SessionInv, CopiesCover, AtWork, new
  <2>4. OneAtWork'
    BY <1>0, <2>1 DEF SessionInv, OneAtWork, AtWork, new
  <2> QED BY <1>2, <2>2, <2>3, <2>4 DEF SessionInv
<1>5. CASE Generated(r)
  <2>1. /\ new.entity.status = old.entity.status /\ new.entity.reportStatus = "ready"
        /\ new.entity.report = [by |-> r, covers |-> old.covers]
        /\ old.pc = "generating" /\ new.pc = "storing"
    BY <1>0, <1>5 DEF Generated, TypeOK, RequestStates, Sessions
  <2>2. [by |-> r, covers |-> old.covers] # NoReport
    BY CallsAssumption DEF NoReport
  <2> HIDE DEF new
  <2>3. EntitiesEnd'
    BY <1>0, <2>1 DEF SessionInv, EntitiesEnd, AtWork, Saving, Reporting, new
  <2>4. CopiesCover'
    BY <1>0, <2>1 DEF SessionInv, CopiesCover, AtWork, new
  <2>5. OneAtWork'
    BY <1>0, <2>1, <2>2 DEF SessionInv, OneAtWork, Matches, AtWork, new
  <2> QED BY <1>2, <2>3, <2>4, <2>5 DEF SessionInv
<1>6. CASE GenerationFails(r)
  <2>1. /\ new.entity.status = old.entity.status /\ new.entity.reportStatus = "failed"
        /\ new.entity.report = old.entity.report
        /\ old.pc = "generating" /\ new.pc = "storing"
    BY <1>0, <1>6 DEF GenerationFails, TypeOK, RequestStates, Sessions
  <2> HIDE DEF new
  <2>2. EntitiesEnd'
    BY <1>0, <2>1 DEF SessionInv, EntitiesEnd, AtWork, Saving, Reporting, new
  <2>3. CopiesCover'
    BY <1>0, <2>1 DEF SessionInv, CopiesCover, AtWork, new
  <2>4. OneAtWork'
    BY <1>0, <2>1 DEF SessionInv, OneAtWork, Matches, AtWork, new
  <2> QED BY <1>2, <2>2, <2>3, <2>4 DEF SessionInv
<1> QED BY <1>3, <1>4, <1>5, <1>6

\* What a save leaves: an ended session, whose report is the old or the new one.
LEMMA SavedRow ==
  ASSUME TypeOK, SessionInv, NEW r \in ReportCalls, SaveUpdate(r),
         request[r].pc \in {"endingSelected", "storingSelected"}
  PROVE  /\ session' \in Sessions /\ session'.status = "ended"
         /\ session'.report \in {request[r].entity.report, session.report}
         /\ ~reportsOverlapped => session' = request[r].entity
<1>0. session \in Sessions /\ request[r].entity \in Sessions /\ request[r].seen \in Sessions
  BY DEF TypeOK, RequestStates
<1>1. /\ session' \in Sessions
      /\ session'.status = IF request[r].entity.status # request[r].seen.status
                           THEN request[r].entity.status ELSE session.status
      /\ session'.report \in {request[r].entity.report, session.report}
      /\ request[r].seen = session => session' = request[r].entity
  BY <1>0, DifferingColumns DEF SaveUpdate
<1>2. request[r].entity.status = "ended"
  BY DEF SessionInv, EntitiesEnd, AtWork
<1>3. session'.status = "ended"
  BY <1>1, <1>2 DEF SessionInv, EntitiesEnd, Reporting
<1>4. ~reportsOverlapped => request[r].seen = session
  BY DEF SessionInv, OneAtWork, AtWork
<1> QED BY <1>1, <1>3, <1>4

LEMMA SaveSteps ==
  ASSUME TypeOK, SessionInv, NEW r \in ReportCalls, EndSaved(r) \/ ReportSaved(r)
  PROVE  SessionInv'
<1>0. /\ SaveUpdate(r) /\ request[r] \in RequestStates
      /\ request[r].pc \in {"endingSelected", "storingSelected"}
      /\ UNCHANGED <<turns, start, reportsOverlapped, lateTurn>>
  BY DEF EndSaved, ReportSaved, SaveUpdate, TypeOK
<1>1. AtWork(r) /\ start = "done"
  BY <1>0 DEF AtWork, SessionInv, Unknown
<1>2. /\ session'.status = "ended"
      /\ session'.report \in {request[r].entity.report, session.report}
      /\ ~reportsOverlapped => session' = request[r].entity
  BY <1>0, SavedRow
<1>3. /\ \A q \in ReportCalls : q # r => request'[q] = request[q]
      /\ \/ request'[r].pc = "done"
         \/ request'[r] = [request[r] EXCEPT !.pc = "reading", !.seen = NoSession]
               /\ request[r].pc = "endingSelected"
  BY <1>0 DEF EndSaved, ReportSaved, RequestDone, NoRequest, TypeOK
<1>4. /\ request'[r].pc \in {"done", "reading"}
      /\ request'[r].pc = "reading" =>
           request'[r].entity = request[r].entity /\ request[r].pc = "endingSelected"
  BY <1>0, <1>3 DEF RequestStates
<1>5. Unknown' /\ ActiveHasNoReport'
  BY <1>0, <1>1, <1>2 DEF Unknown, ActiveHasNoReport
<1>6. EntitiesEnd'
  BY <1>1, <1>2, <1>3, <1>4 DEF SessionInv, EntitiesEnd, AtWork, Saving, Reporting
<1>7. ReportCoversTranscript'
  BY <1>0, <1>1, <1>2 DEF SessionInv, ReportCoversTranscript, CopiesCover
<1>8. CopiesCover'
  BY <1>0, <1>1, <1>3, <1>4 DEF SessionInv, CopiesCover, AtWork
<1>9. ReportMatchesStatus'
  BY <1>0, <1>1, <1>2 DEF SessionInv, ReportMatchesStatus, OneAtWork, Matches
<1>10. OneAtWork'
  <2>1. ASSUME ~reportsOverlapped, NEW q \in ReportCalls, AtWork(q)'
        PROVE  q = r /\ request'[r].pc = "reading"
    BY <1>1, <1>3, <1>4, <2>1 DEF SessionInv, OneAtWork, AtWork
  <2>2. request'[r].pc = "reading" => request[r].entity.reportStatus = "pending"
    BY <1>4 DEF SessionInv, EntitiesEnd, Saving
  <2>3. ~reportsOverlapped => Matches(request[r].entity)
    BY <1>1 DEF SessionInv, OneAtWork
  <2> QED BY <1>0, <1>2, <1>4, <2>1, <2>2, <2>3 DEF OneAtWork, Matches
<1> QED BY <1>5, <1>6, <1>7, <1>8, <1>9, <1>10 DEF SessionInv

LEMMA SessionStep ==
  ASSUME TypeOK, SessionInv, [Next]_vars
  PROVE  SessionInv'
<1>1. CASE StartRefuse \/ StartSave \/ StartSeed \/ StartAborts
  BY <1>1, StartSessionStep
<1>2. ASSUME NEW c \in TurnCalls, CheckTurn(c) \/ TurnStep(c) \/ TurnAborts(c)
      PROVE  SessionInv'
  BY <1>2, TurnSessionStep
<1>3. ASSUME NEW r \in ReportCalls, End(r) \/ GetReport(r)
      PROVE  SessionInv'
  BY <1>3, EndSteps
<1>4. ASSUME NEW r \in ReportCalls, RequestStep(r)
      PROVE  SessionInv'
  <2>1. AtWork(r)
    BY <1>4 DEF RequestStep, SaveSelect, EndSaved, ReadTranscript, Generated,
                GenerationFails, ReportSaved, AtWork
  <2> QED BY <1>4, <2>1, RequestMoves, SaveSteps DEF RequestStep
<1>5. ASSUME NEW r \in ReportCalls, RequestAborts(r)
      PROVE  SessionInv'
  <2>1. start = "done"
    BY <1>5 DEF RequestAborts, AtWork, SessionInv, Unknown
  <2> QED BY <1>5, <2>1, RequestLeaves DEF RequestAborts
<1>6. CASE UNCHANGED vars
  BY <1>6 DEF vars, SessionInv, Unknown, ActiveHasNoReport, EntitiesEnd, CopiesCover,
       ReportCoversTranscript, OneAtWork, ReportMatchesStatus, AtWork
<1> QED BY <1>1, <1>2, <1>3, <1>4, <1>5, <1>6 DEF Next

-----------------------------------------------------------------------------
(* Theorems *)

IInv == TypeOK /\ TranscriptInv /\ SessionInv

LEMMA Invariance == Spec => []IInv
<1>1. Init => IInv
  BY TypeInit, TranscriptInit, SessionInit DEF IInv
<1>2. IInv /\ [Next]_vars => IInv'
  BY TypeStep, TranscriptStep, SessionStep DEF IInv
<1> QED BY <1>1, <1>2, PTL DEF Spec

\* Rows, requests and their copies keep their types; no transcript is longer
\* than the bound in Turns, even if requests overlap.
THEOREM TypeCorrect == Spec => []TypeOK
<1>1. IInv => TypeOK
  BY DEF IInv
<1> QED BY <1>1, Invariance, PTL

\* AI and learner alternate in every transcript takeTurn stores, however many
\* requests overlap.
THEOREM RolesKeepAlternating == Spec => []RolesAlternate
<1>1. IInv => RolesAlternate
  BY DEF IInv, TranscriptInv
<1> QED BY <1>1, Invariance, PTL

\* Without overlapping turn requests takeTurn numbers the turns without a gap
\* and keeps the limit.
THEOREM TranscriptStaysInOrder == Spec => []TranscriptInOrder
<1>1. IInv => TranscriptInOrder
  BY DEF IInv, TranscriptInv
<1> QED BY <1>1, Invariance, PTL

\* Every report generateAndStoreReport stores was made of the whole transcript,
\* unless takeTurn stored a late turn.
THEOREM ReportComplete == Spec => []ReportCoversTranscript
<1>1. IInv => ReportCoversTranscript
  BY DEF IInv, SessionInv
<1> QED BY <1>1, Invariance, PTL

\* Without overlapping end and report requests, report and report status agree.
THEOREM ReportAgrees == Spec => []ReportMatchesStatus
<1>1. IInv => ReportMatchesStatus
  BY DEF IInv, SessionInv
<1> QED BY <1>1, Invariance, PTL

\* The steps that write the session's row.
LEMMA RowWriters ==
  ASSUME IInv, [Next]_vars, session' # session
  PROVE  \/ StartSave /\ session.status # "ended" /\ session.reportStatus = "pending"
         \/ /\ session'.status = "ended" /\ reportsOverlapped' = reportsOverlapped
            /\ ~reportsOverlapped => session.reportStatus # "ready"
<1>1. CASE StartSave
  <2>1. session.status # "ended"
    BY <1>1 DEF StartSave, IInv, SessionInv, Unknown
  <2> QED BY <1>1, <2>1 DEF IInv, SessionInv, ActiveHasNoReport
<1>2. ASSUME NEW r \in ReportCalls, EndSaved(r) \/ ReportSaved(r)
      PROVE  /\ session'.status = "ended" /\ reportsOverlapped' = reportsOverlapped
             /\ ~reportsOverlapped => session.reportStatus # "ready"
  <2>1. /\ SaveUpdate(r) /\ AtWork(r)
        /\ request[r].pc \in {"endingSelected", "storingSelected"}
    BY <1>2 DEF EndSaved, ReportSaved, AtWork
  <2>2. session'.status = "ended"
    BY <2>1, SavedRow DEF IInv
  <2> QED BY <2>1, <2>2 DEF SaveUpdate, IInv, SessionInv, OneAtWork
<1>3. StartSave \/ \E r \in ReportCalls : EndSaved(r) \/ ReportSaved(r)
  BY DEF Next, vars, StartRefuse, StartSeed, StartAborts, CheckTurn, TurnStep, ReadTurns,
         StoreTurn, TurnFails, TurnAborts, End, GetReport, RequestStep, SaveSelect,
         ReadTranscript, Generated, GenerationFails, RequestAborts
<1> QED BY <1>1, <1>2, <1>3

\* No stale save of end or generateAndStoreReport reopens a session.
THEOREM NeverReopened == Spec => EndedForever
<1>1. IInv /\ [Next]_vars => [session.status = "ended" => session'.status = "ended"]_vars
  <2>1. ASSUME IInv, [Next]_vars, session.status = "ended"
        PROVE  session'.status = "ended"
    BY <2>1, RowWriters
  <2> QED BY <2>1
<1> QED BY <1>1, Invariance, PTL DEF Spec, EndedForever

\* Without overlapping end and report requests, a stored report stays: "calling
\* it again returns the stored report".
THEOREM ReportKept == Spec => ReportKeptUnlessOverlapping
<1>1. IInv /\ [Next]_vars =>
        [session.reportStatus = "ready" /\ ~reportsOverlapped' => session' = session]_vars
  <2>1. ASSUME IInv, [Next]_vars, session.reportStatus = "ready", ~reportsOverlapped'
        PROVE  session' = session
    BY <2>1, RowWriters
  <2> QED BY <2>1
<1> QED BY <1>1, Invariance, PTL DEF Spec, ReportKeptUnlessOverlapping
=============================================================================
