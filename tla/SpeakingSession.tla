--------------------------- MODULE SpeakingSession ---------------------------
(***************************************************************************)
(* One session of the speaking room                                        *)
(* (src/src/speaking-room/speaking-session.service.ts): start, the turns,  *)
(* end and the report, as concurrent requests that interleave at every     *)
(* query and at every call of the language model.                          *)
(*                                                                         *)
(* save(entity) is TypeORM's: it selects the row, compares it with the     *)
(* entity, which may have been loaded long ago, and updates the columns    *)
(* that differ.  The database is READ COMMITTED and nothing locks a row.   *)
(***************************************************************************)
EXTENDS Naturals, FiniteSets

CONSTANTS
  TurnCalls,       \* POST sessions/:id/turn, one id per request
  ReportCalls,     \* POST sessions/:id/end and GET sessions/:id/report
  MaxTurns,        \* groq.maxTurnsPerSession
  MaxFaults        \* bound: requests cut off by a failing query or a dying process

ASSUME LimitsAssumption == MaxTurns \in Nat /\ MaxFaults \in Nat
ASSUME CallsAssumption ==
  IsFiniteSet(TurnCalls) /\ "opening" \notin TurnCalls /\ "nobody" \notin ReportCalls

VARIABLES
  session,         \* the row of speaking_sessions
  turns,           \* the rows of speaking_turns
  start,           \* where the start request is
  turn,            \* where each turn request is, and the rows it has read
  request,         \* where each end or report request is, and its entity
  faults,          \* faults so far
  turnsOverlapped, \* history: a turn request read the turns while another one was at work
  reportsOverlapped, \* history: the same of the requests that write the session
  lateTurn         \* history: a turn was stored in an ended session

vars == <<session, turns, start, turn, request, faults,
          turnsOverlapped, reportsOverlapped, lateTurn>>

\* No index beyond twice the limit, even when requests overlap.
Turns == [index: 0..(2 * MaxTurns), role: {"ai", "user"},
          of: TurnCalls \cup {"opening"}]
NoReport == [by |-> "nobody", covers |-> {}]
Reports == [by: ReportCalls, covers: SUBSET Turns]

\* The columns that change after the INSERT; ended_at goes with status and
\* report_model with report.
NoSession == [status |-> "none", reportStatus |-> "pending", report |-> NoReport]
Sessions == [status: {"none", "active", "ended"},
             reportStatus: {"pending", "ready", "failed"},
             report: Reports \cup {NoReport}]

NoTurn == [pc |-> "idle", read |-> {}]
TurnStates == [pc: {"idle", "checked", "waiting", "done"}, read: SUBSET Turns]

NoRequest == [pc |-> "idle", entity |-> NoSession, seen |-> NoSession, covers |-> {}]
RequestStates ==
  [pc: {"idle", "ending", "endingSelected", "reading", "generating",
        "storing", "storingSelected", "done"},
   entity: Sessions, seen: Sessions, covers: SUBSET Turns]

TypeOK ==
  /\ session \in Sessions
  /\ turns \in SUBSET Turns
  /\ start \in {"idle", "saved", "done", "failed"}
  /\ turn \in [TurnCalls -> TurnStates]
  /\ request \in [ReportCalls -> RequestStates]
  /\ faults \in 0..MaxFaults
  /\ turnsOverlapped \in BOOLEAN
  /\ reportsOverlapped \in BOOLEAN
  /\ lateTurn \in BOOLEAN

Init ==
  /\ session = NoSession
  /\ turns = {}
  /\ start = "idle"
  /\ turn = [c \in TurnCalls |-> NoTurn]
  /\ request = [r \in ReportCalls |-> NoRequest]
  /\ faults = 0
  /\ turnsOverlapped = FALSE
  /\ reportsOverlapped = FALSE
  /\ lateTurn = FALSE

-----------------------------------------------------------------------------
(* start: the session row, then the scripted opening line as turn 0 *)

\* Refused: unknown user, scenario not published, daily cap.
StartRefuse ==
  /\ start = "idle"
  /\ start' = "failed"
  /\ UNCHANGED <<session, turns, turn, request, faults,
                 turnsOverlapped, reportsOverlapped, lateTurn>>

StartSave ==
  /\ start = "idle"
  /\ start' = "saved"
  /\ session' = [NoSession EXCEPT !.status = "active"]
  /\ UNCHANGED <<turns, turn, request, faults,
                 turnsOverlapped, reportsOverlapped, lateTurn>>

\* Only now does the client learn the session's id.
StartSeed ==
  /\ start = "saved"
  /\ start' = "done"
  /\ turns' = {[index |-> 0, role |-> "ai", of |-> "opening"]}
  /\ UNCHANGED <<session, turn, request, faults,
                 turnsOverlapped, reportsOverlapped, lateTurn>>

-----------------------------------------------------------------------------
(* takeTurn *)

TurnDone(c) == turn' = [turn EXCEPT ![c] = [NoTurn EXCEPT !.pc = "done"]]

CheckTurn(c) ==
  /\ start = "done"
  /\ turn[c].pc = "idle"
  /\ IF session.status = "ended"
     THEN TurnDone(c)
     ELSE turn' = [turn EXCEPT ![c].pc = "checked"]
  /\ UNCHANGED <<session, turns, start, request, faults,
                 turnsOverlapped, reportsOverlapped, lateTurn>>

UserTurns(read) == {t \in read : t.role = "user"}

\* Mutant of AtLimit: one turn too many.
AtLimit_OffByOne(read) == Cardinality(UserTurns(read)) > MaxTurns

AtLimit(read) == Cardinality(UserTurns(read)) >= MaxTurns

ReadTurns(c) ==
  /\ turn[c].pc = "checked"
  /\ IF AtLimit(turns)
     THEN TurnDone(c) /\ UNCHANGED turnsOverlapped
     ELSE /\ turn' = [turn EXCEPT ![c] = [pc |-> "waiting", read |-> turns]]
          /\ turnsOverlapped' = (turnsOverlapped \/ \E d \in TurnCalls : turn[d].pc = "waiting")
  /\ UNCHANGED <<session, turns, start, request, faults, reportsOverlapped, lateTurn>>

\* Mutant of StoreTurn: numbered by the exchanges, not by the rows.
StoreTurn_CountsExchanges(c) ==
  /\ turn[c].pc = "waiting"
  /\ LET n == Cardinality(UserTurns(turn[c].read))
     IN turns' = turns \cup {[index |-> n, role |-> "user", of |-> c],
                             [index |-> n + 1, role |-> "ai", of |-> c]}
  /\ lateTurn' = (lateTurn \/ session.status = "ended")
  /\ TurnDone(c)
  /\ UNCHANGED <<session, start, request, faults, turnsOverlapped, reportsOverlapped>>

\* The partner's reply arrived: both rows are inserted in one save, numbered
\* from what the request had read.
StoreTurn(c) ==
  /\ turn[c].pc = "waiting"
  /\ LET n == Cardinality(turn[c].read)
     IN turns' = turns \cup {[index |-> n, role |-> "user", of |-> c],
                             [index |-> n + 1, role |-> "ai", of |-> c]}
  /\ lateTurn' = (lateTurn \/ session.status = "ended")
  /\ TurnDone(c)
  /\ UNCHANGED <<session, start, request, faults, turnsOverlapped, reportsOverlapped>>

\* The partner is unavailable: 503, nothing is stored.
TurnFails(c) ==
  /\ turn[c].pc = "waiting"
  /\ TurnDone(c)
  /\ UNCHANGED <<session, turns, start, request, faults,
                 turnsOverlapped, reportsOverlapped, lateTurn>>

-----------------------------------------------------------------------------
(* end, getReport, generateAndStoreReport *)

RequestDone(r) == request' = [request EXCEPT ![r] = [NoRequest EXCEPT !.pc = "done"]]

\* Mutant of NeedsReport: regenerate on every call.
NeedsReport_Always(entity) == TRUE

NeedsReport(entity) == entity.reportStatus # "ready"

AtWork(r) == request[r].pc \notin {"idle", "done"}

\* Loads the entity the request will go on to write.
LoadFor(r, pc, entity) ==
  /\ request' = [request EXCEPT ![r] = [NoRequest EXCEPT !.pc = pc, !.entity = entity]]
  /\ reportsOverlapped' = (reportsOverlapped \/ \E q \in ReportCalls : AtWork(q))

\* Mutant of End: the end is saved together with the report.
End_SavedWithReport(r) ==
  /\ start = "done"
  /\ request[r].pc = "idle"
  /\ IF session.status = "active" \/ NeedsReport(session)
     THEN LoadFor(r, "reading", [session EXCEPT !.status = "ended"])
     ELSE RequestDone(r) /\ UNCHANGED reportsOverlapped
  /\ UNCHANGED <<session, turns, start, turn, faults, turnsOverlapped, lateTurn>>

End(r) ==
  /\ start = "done"
  /\ request[r].pc = "idle"
  /\ \/ /\ session.status = "active"
        /\ LoadFor(r, "ending", [session EXCEPT !.status = "ended"])
     \/ /\ session.status = "ended" /\ NeedsReport(session)
        /\ LoadFor(r, "reading", session)
     \/ /\ session.status = "ended" /\ ~NeedsReport(session)
        /\ RequestDone(r) /\ UNCHANGED reportsOverlapped
  /\ UNCHANGED <<session, turns, start, turn, faults, turnsOverlapped, lateTurn>>

\* Mutant of GetReport: the check that the session has ended dropped.
GetReport_Unchecked(r) ==
  /\ start = "done"
  /\ request[r].pc = "idle"
  /\ IF NeedsReport(session)
     THEN LoadFor(r, "reading", session)
     ELSE RequestDone(r) /\ UNCHANGED reportsOverlapped
  /\ UNCHANGED <<session, turns, start, turn, faults, turnsOverlapped, lateTurn>>

GetReport(r) ==
  /\ start = "done"
  /\ request[r].pc = "idle"
  /\ IF session.status # "active" /\ NeedsReport(session)
     THEN LoadFor(r, "reading", session)
     ELSE RequestDone(r) /\ UNCHANGED reportsOverlapped
  /\ UNCHANGED <<session, turns, start, turn, faults, turnsOverlapped, lateTurn>>

\* save, first half: the SELECT.
SaveSelect(r) ==
  /\ request[r].pc \in {"ending", "storing"}
  /\ request' = [request EXCEPT ![r].seen = session,
       ![r].pc = IF @ = "ending" THEN "endingSelected" ELSE "storingSelected"]
  /\ UNCHANGED <<session, turns, start, turn, faults,
                 turnsOverlapped, reportsOverlapped, lateTurn>>

\* save, second half: UPDATE the columns in which the entity differs from the
\* row that was selected.
Differing(row, entity, seen) ==
  [col \in DOMAIN row |-> IF entity[col] # seen[col] THEN entity[col] ELSE row[col]]

SaveUpdate(r) ==
  /\ session' = Differing(session, request[r].entity, request[r].seen)
  /\ UNCHANGED <<turns, start, turn, faults,
                 turnsOverlapped, reportsOverlapped, lateTurn>>

EndSaved(r) ==
  /\ request[r].pc = "endingSelected"
  /\ SaveUpdate(r)
  /\ IF NeedsReport(request[r].entity)
     THEN request' = [request EXCEPT ![r].pc = "reading", ![r].seen = NoSession]
     ELSE RequestDone(r)

ReportSaved(r) ==
  /\ request[r].pc = "storingSelected"
  /\ SaveUpdate(r)
  /\ RequestDone(r)

ReadTranscript(r) ==
  /\ request[r].pc = "reading"
  /\ request' = [request EXCEPT ![r].pc = "generating", ![r].covers = turns]
  /\ UNCHANGED <<session, turns, start, turn, faults,
                 turnsOverlapped, reportsOverlapped, lateTurn>>

Generated(r) ==
  /\ request[r].pc = "generating"
  /\ request' = [request EXCEPT ![r].pc = "storing", ![r].covers = {},
       ![r].entity.reportStatus = "ready",
       ![r].entity.report = [by |-> r, covers |-> request[r].covers]]
  /\ UNCHANGED <<session, turns, start, turn, faults,
                 turnsOverlapped, reportsOverlapped, lateTurn>>

\* Mutant of GenerationFails: the error reaches the client and nothing is saved.
GenerationFails_Throws(r) ==
  /\ request[r].pc = "generating"
  /\ RequestDone(r)
  /\ UNCHANGED <<session, turns, start, turn, faults,
                 turnsOverlapped, reportsOverlapped, lateTurn>>

GenerationFails(r) ==
  /\ request[r].pc = "generating"
  /\ request' = [request EXCEPT ![r].pc = "storing", ![r].covers = {},
       ![r].entity.reportStatus = "failed"]
  /\ UNCHANGED <<session, turns, start, turn, faults,
                 turnsOverlapped, reportsOverlapped, lateTurn>>

-----------------------------------------------------------------------------
(* A query fails, or the process dies: the request stops where it is *)

Fault == faults < MaxFaults /\ faults' = faults + 1

StartAborts ==
  /\ Fault
  /\ start = "saved"
  /\ start' = "failed"
  /\ UNCHANGED <<session, turns, turn, request, turnsOverlapped, reportsOverlapped, lateTurn>>

TurnAborts(c) ==
  /\ Fault
  /\ turn[c].pc \in {"checked", "waiting"}
  /\ TurnDone(c)
  /\ UNCHANGED <<session, turns, start, request, turnsOverlapped, reportsOverlapped, lateTurn>>

RequestAborts(r) ==
  /\ Fault
  /\ AtWork(r)
  /\ RequestDone(r)
  /\ UNCHANGED <<session, turns, start, turn, turnsOverlapped, reportsOverlapped, lateTurn>>

TurnStep(c) == ReadTurns(c) \/ StoreTurn(c) \/ TurnFails(c)

RequestStep(r) ==
  \/ SaveSelect(r) \/ EndSaved(r) \/ ReadTranscript(r)
  \/ Generated(r) \/ GenerationFails(r) \/ ReportSaved(r)

Next ==
  \/ StartRefuse \/ StartSave \/ StartSeed \/ StartAborts
  \/ \E c \in TurnCalls : CheckTurn(c) \/ TurnStep(c) \/ TurnAborts(c)
  \/ \E r \in ReportCalls : End(r) \/ GetReport(r) \/ RequestStep(r) \/ RequestAborts(r)

Spec == Init /\ [][Next]_vars

\* A request that has begun goes on: queries return, and the model answers or
\* times out (groq.timeoutMs).  Which requests are made is the client's choice.
Fairness ==
  /\ \A c \in TurnCalls : WF_vars(TurnStep(c))
  /\ \A r \in ReportCalls : WF_vars(RequestStep(r))

FairSpec == Spec /\ Fairness

-----------------------------------------------------------------------------
(* Properties *)

\* Every committed transcript has the AI at the even indexes and the learner
\* at the odd ones (speaking-turn.entity.ts:15), even when requests overlap
\* and two pairs of turns share their indexes.
RolesAlternate == \A t \in turns : t.role = "ai" <=> t.index % 2 = 0

\* Unless two turn requests overlapped, the transcript is numbered without a
\* gap or a duplicate and keeps to maxTurnsPerSession.
TranscriptInOrder ==
  ~turnsOverlapped =>
    /\ {t.index : t \in turns} = 0 .. (Cardinality(turns) - 1)
    /\ Cardinality(UserTurns(turns)) <= MaxTurns

\* However requests overlap, a stored report was made from the whole transcript,
\* unless a turn that was waiting for its reply when the session ended was
\* stored after all.
ReportCoversTranscript ==
  session.report # NoReport /\ ~lateTurn => session.report.covers = turns

\* Unless requests that write it overlapped, a session has a report exactly
\* when its report status says so: "When reportStatus is failed, report is null"
\* (docs/frontend/speaking_practice_session.md:122).
ReportMatchesStatus ==
  ~reportsOverlapped => (session.report # NoReport <=> session.reportStatus = "ready")

\* No stale entity ever reopens a session.
EndedForever == [][session.status = "ended" => session'.status = "ended"]_vars

\* Unless requests that write it overlapped, a stored report is never replaced
\* or lost.
ReportKeptUnlessOverlapping ==
  [][session.reportStatus = "ready" /\ ~reportsOverlapped' => session' = session]_vars

\* However its requests overlap, an ended session ends up with a report or
\* with a recorded failure to be retried, unless a request was cut off.
ReportSettles ==
  session.status = "ended" ~> [](session.reportStatus # "pending" \/ faults > 0)

\* "calling it again returns the stored report"
\* (docs/frontend/speaking_practice_session.md:99-100).
StoredReportKept == [][session.reportStatus = "ready" => session'.reportStatus = "ready"]_vars
=============================================================================
