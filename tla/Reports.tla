------------------------------ MODULE Reports -------------------------------
(***************************************************************************)
(* What learners are shown of their progress: due cards, statistics,       *)
(* streak and heatmap (src/src/progress/progress.service.ts), the board of *)
(* mastered words (leaderboard.service.ts) and the words suggested for     *)
(* practice (practice.service.ts).  None of it writes, but a request reads *)
(* with several queries, and reviews, deletions and approvals come between *)
(* them.  A review is one step here, module Progress has its interleavings.*)
(***************************************************************************)
EXTENDS Integers, Sequences, SequencesExt, FiniteSets, FiniteSetsExt, Selections

CONSTANTS
  Learners,        \* with role user and an active account, onboarded
  Alphabetical,    \* the place of every learner's username in the alphabet
  StudyWords,      \* words of the language the learners study
  Drafts,          \* system words that are not approved at first
  Attending,          \* bound: the learners who answer cards and send requests
  Erasable,        \* bound: the words an admin may delete
  Owner,           \* of each word: the learner who made it, or "system"
  Distance,        \* of each word: from its CEFR level to the learners'
  Outcomes,        \* what a review may make of a row: its status and the delay
  InitialRows,     \* rows the learners may have at first, reviewed once if at all
  Offsets,         \* time zones, as minutes ahead of UTC
  Count,           \* words a practice set is asked for
  BoardSize,       \* limit of the leaderboard
  MaxEvents,       \* bound: rows of the activity log
  ReportMoments    \* clock readings at which something may happen

VARIABLES
  time,            \* wall clock, in minutes
  shelf,           \* the words that exist
  approved,        \* system words that are approved
  progress,        \* user_word_progress: for each learner and word a row, or Unseen
  activity,        \* learning_activity
  optedOut,        \* learners with leaderboard_opt_out
  reader,          \* the request that is reading, and what it has read
  studied          \* history: who has answered a card on which UTC day

reportVars == <<time, shelf, approved, progress, activity, optedOut, reader, studied>>

DayMinutes == 1440
Forever == -1
Unseen == [status |-> "none"]
SeenRows == [status: {"new", "learning", "review", "mastered"}, next: Nat, last: Nat \cup {Forever}]

ASSUME ReportsAssumption ==
  /\ {Count, BoardSize, MaxEvents} \cup ReportMoments \subseteq Nat /\ ReportMoments # {}
  /\ Offsets \subseteq Int /\ IsFiniteSet(Learners) /\ IsFiniteSet(StudyWords) /\ Attending \subseteq Learners
  /\ Alphabetical \in [Learners -> Nat] /\ \A v, w \in Learners : Alphabetical[v] = Alphabetical[w] => v = w
  /\ Outcomes \subseteq [status: {"learning", "review", "mastered"}, delay: Nat]
  /\ InitialRows \subseteq [Learners -> [StudyWords -> SeenRows \cup {Unseen}]]
  /\ \A rows \in InitialRows, v \in Learners, w \in StudyWords : rows[v][w] # Unseen =>
       (rows[v][w].status = "new" <=> rows[v][w].last = Forever) /\ \A t \in ReportMoments : rows[v][w].last <= t

\* The calendar day of an instant, in the time zone offset minutes ahead of UTC.
DayOf(t, offset) == (t + offset) \div DayMinutes
Utc == 0

RowsOf(who) == {w \in StudyWords : progress[who][w] # Unseen}
EventsOf(who) == {i \in DOMAIN activity : activity[i].who = who}

Reading == [pc |-> "idle", who |-> "nobody", at |-> 0, counts |-> <<>>, dueNow |-> 0, today |-> 0,
            streak |-> 0, nextDue |-> Forever, due |-> {}, fresh |-> {}, extra |-> {},
            disturbed |-> FALSE]

ReportsTypeOK ==
  /\ time \in Nat /\ approved \subseteq StudyWords /\ shelf \subseteq StudyWords
  /\ \A who \in Learners, w \in StudyWords :
       progress[who][w] \in SeenRows \cup {Unseen} /\ (progress[who][w] # Unseen => w \in shelf)
  /\ \A i \in DOMAIN activity :
       /\ activity[i].who \in Learners /\ activity[i].word \in shelf \cup {"none"}
       /\ activity[i].at <= time
  /\ reader.pc \in {"idle", "counted", "due", "today", "streak", "answered",
                    "dueRead", "picked", "filled", "suggested"}
  /\ reader.due \cup reader.fresh \cup reader.extra \subseteq StudyWords

ReportsInit ==
  /\ time = Min(ReportMoments)
  /\ shelf = StudyWords
  /\ approved = {w \in StudyWords \ Drafts : Owner[w] = "system"}
  /\ progress \in InitialRows
  /\ activity = SetToSeq({[who |-> p[1], word |-> p[2], at |-> progress[p[1]][p[2]].last,
                           new |-> TRUE] :
       p \in {q \in Learners \X StudyWords : progress[q[1]][q[2]].status \notin {"none", "new"}}})
  /\ studied = {<<activity[i].who, DayOf(activity[i].at, Utc)>> : i \in DOMAIN activity}
  /\ optedOut = {}
  /\ reader = Reading

-----------------------------------------------------------------------------
(* What a report is made of: one query each *)

DueRows(who, at) == {w \in RowsOf(who) : progress[who][w].next <= at}

\* The due list and the picker's query of due words: the most overdue first.
FindDue(who, limit) ==
  Least(limit, DueRows(who, time),
        [w \in StudyWords |-> IF w \in RowsOf(who) THEN progress[who][w].next ELSE 0])

ComputeCounts(who) ==
  [s \in {"new", "learning", "review", "mastered"} |->
     Cardinality({w \in RowsOf(who) : progress[who][w].status = s})]

CountReviewedToday(who) ==
  Cardinality({w \in RowsOf(who) : /\ progress[who][w].last # Forever
                                   /\ DayOf(progress[who][w].last, Utc) = DayOf(time, Utc)})

\* From the latest day with a review, which is today or yesterday, backwards;
\* after a gap no later day meets the cursor.
ComputeStreak(who) ==
  LET dates == Ranked({DayOf(activity[i].at, Utc) : i \in EventsOf(who)}, >)
      today == DayOf(time, Utc)
      count(acc, d) == IF d = acc.cursor THEN [streak |-> acc.streak + 1, cursor |-> d - 1] ELSE acc
  IN IF dates = <<>> \/ dates[1] \notin {today, today - 1} THEN 0
     ELSE FoldLeft(count, [streak |-> 0, cursor |-> dates[1]], dates).streak

\* The first due date strictly after at.
NextDueAt(who, at) ==
  LET coming == {progress[who][w].next : w \in RowsOf(who) \ DueRows(who, at)}
  IN IF coming = {} THEN Forever ELSE Min(coming)

\* Mutant of DefaultRange: the range ends with the server's day.
DefaultRange_Utc(offset) == (DayOf(time, Utc) - 364)..DayOf(time, Utc)

\* The days from one year ago until today, both as the caller's calendar has
\* them; nothing is shown of days without activity.
DefaultRange(offset) == (DayOf(time, offset) - 364)..DayOf(time, offset)

GetActivity(who, offset) ==
  LET day(i) == DayOf(activity[i].at, offset)
      days == {day(i) : i \in EventsOf(who)} \cap DefaultRange(offset)
  IN [d \in days |->
        [reviews |-> Cardinality({i \in EventsOf(who) : day(i) = d}),
         newWords |-> Cardinality({i \in EventsOf(who) : day(i) = d /\ activity[i].new})]]

\* The sum of a function's values.
SumOf(f) == MapThenSumSet(LAMBDA x : f[x], DOMAIN f)

TotalReviews(days) == SumOf([d \in DOMAIN days |-> days[d].reviews])
TotalNewWords(days) == SumOf([d \in DOMAIN days |-> days[d].newWords])

Mastered(who) == Cardinality({w \in RowsOf(who) : progress[who][w].status = "mastered"})

\* Learners who take part and have mastered something, by their number of
\* mastered words and then by username.
RankMasteredAllTime ==
  Ranked({who \in Learners \ optedOut : Mastered(who) > 0},
         LAMBDA u, v : \/ Mastered(u) > Mastered(v)
                       \/ Mastered(u) = Mastered(v) /\ Alphabetical[u] < Alphabetical[v])

Board == SubSeq(RankMasteredAllTime, 1, IF Len(RankMasteredAllTime) < BoardSize THEN Len(RankMasteredAllTime) ELSE BoardSize)

\* The caller's place, 0 for none.
ResolveMe(who) == IF who \in Range(RankMasteredAllTime)
                  THEN CHOOSE i \in DOMAIN RankMasteredAllTime : RankMasteredAllTime[i] = who ELSE 0

-----------------------------------------------------------------------------
(* Words to practise *)

IsPracticeable(who, w) == IF Owner[w] = "system" THEN w \in approved ELSE Owner[w] = who

\* buildSet: the ids the client ticked, those that may be practised.
BuildSet(who, ids) == {w \in ids \cap shelf : IsPracticeable(who, w)}

FindFresh(who, need) ==
  Least(need, {w \in shelf : IsPracticeable(who, w) /\ progress[who][w] = Unseen}, Distance)

\* System words whatever the learner has studied, of the learner's level first.
FindRandomFallback(need, picked) ==
  Least(need, {w \in (shelf \cap approved) \ picked : Owner[w] = "system"},
        [w \in StudyWords |-> IF Distance[w] = 0 THEN 0 ELSE 1])

-----------------------------------------------------------------------------
(* getStats: five queries one after the other *)

Quiet == UNCHANGED <<time, shelf, approved, progress, activity, optedOut, studied>>

StatsCounts(who) ==
  /\ reader.pc = "idle"
  /\ reader' = [Reading EXCEPT !.pc = "counted", !.who = who, !.at = time, !.counts = ComputeCounts(who)]
  /\ Quiet

StatsDueNow ==
  /\ reader.pc = "counted"
  /\ reader' = [reader EXCEPT !.pc = "due", !.dueNow = Cardinality(DueRows(reader.who, reader.at))]
  /\ Quiet

StatsReviewedToday ==
  /\ reader.pc = "due"
  /\ reader' = [reader EXCEPT !.pc = "today", !.today = CountReviewedToday(reader.who)]
  /\ Quiet

StatsStreak ==
  /\ reader.pc = "today"
  /\ reader' = [reader EXCEPT !.pc = "streak", !.streak = ComputeStreak(reader.who)]
  /\ Quiet

StatsNextDue ==
  /\ reader.pc = "streak"
  /\ reader' = [reader EXCEPT !.pc = "answered", !.nextDue = NextDueAt(reader.who, reader.at)]
  /\ Quiet

-----------------------------------------------------------------------------
(* getSuggestions: due words, then fresh ones, then any *)

StillWanted(request) == Count - Cardinality(request.due \cup request.fresh)

SuggestDue(who) ==
  /\ reader.pc = "idle"
  /\ \E due \in FindDue(who, Count) :
       reader' = [Reading EXCEPT !.pc = IF Cardinality(due) = Count THEN "filled" ELSE "dueRead",
                                 !.who = who, !.at = time, !.due = due]
  /\ Quiet

SuggestFresh ==
  /\ reader.pc = "dueRead"
  /\ \E fresh \in FindFresh(reader.who, StillWanted(reader)) :
       LET request == [reader EXCEPT !.fresh = fresh]
       IN reader' = [request EXCEPT !.pc = IF StillWanted(request) = 0 THEN "filled" ELSE "picked"]
  /\ Quiet

SuggestFallback ==
  /\ reader.pc = "picked"
  /\ \E extra \in FindRandomFallback(StillWanted(reader), reader.due \cup reader.fresh) :
       reader' = [reader EXCEPT !.pc = "filled", !.extra = extra]
  /\ Quiet

\* hydrateItems: words that have gone are left out.
SuggestItems ==
  /\ reader.pc = "filled"
  /\ reader' = [reader EXCEPT !.pc = "suggested", !.due = @ \cap shelf,
                               !.fresh = @ \cap shelf, !.extra = @ \cap shelf]
  /\ Quiet

-----------------------------------------------------------------------------
(* What happens meanwhile *)

Disturb(busy) == reader' = [reader EXCEPT !.disturbed = @ \/ (busy /\ reader.pc # "idle")]

Log(who, w, new) ==
  /\ Len(activity) < MaxEvents
  /\ activity' = Append(activity, [who |-> who, word |-> w, at |-> time, new |-> new])
  /\ studied' = studied \cup {<<who, DayOf(time, Utc)>>}

\* submitReview: a graduated card that is not due is practised, not rescheduled.
Practised(row) == row.status \in {"review", "mastered"} /\ row.next > time

AnswerCard(who, w) ==
  /\ w \in RowsOf(who)
  /\ LET row == progress[who][w] IN
     IF Practised(row) THEN Log(who, w, FALSE) /\ UNCHANGED <<progress, reader>>
     ELSE /\ \E outcome \in Outcomes :
               progress' = [progress EXCEPT ![who][w] =
                 [status |-> outcome.status, next |-> time + outcome.delay, last |-> time]]
          /\ Log(who, w, row.last = Forever)
          /\ Disturb(who = reader.who)
  /\ UNCHANGED <<time, shelf, approved, optedOut>>

EnrollCard(who, w) ==
  /\ w \in shelf /\ progress[who][w] = Unseen
  /\ progress' = [progress EXCEPT ![who][w] = [status |-> "new", next |-> time, last |-> Forever]]
  /\ Disturb(who = reader.who)
  /\ UNCHANGED <<time, shelf, approved, activity, optedOut, studied>>

\* The rows go with the word, the log keeps its own with vocabulary_id NULL.
DeleteStudyWord(w) ==
  /\ w \in shelf \cap Erasable /\ shelf' = shelf \ {w}
  /\ progress' = [who \in Learners |-> [progress[who] EXCEPT ![w] = Unseen]]
  /\ activity' = [i \in DOMAIN activity |->
                    IF activity[i].word = w THEN [activity[i] EXCEPT !.word = "none"] ELSE activity[i]]
  /\ Disturb(TRUE)
  /\ UNCHANGED <<time, approved, optedOut, studied>>

ApproveDraft(w) ==
  /\ w \in shelf \ approved /\ Owner[w] = "system"
  /\ approved' = approved \cup {w}
  /\ Disturb(TRUE)
  /\ UNCHANGED <<time, shelf, progress, activity, optedOut, studied>>

ToggleOptOut(who) ==
  /\ optedOut' = IF who \in optedOut THEN optedOut \ {who} ELSE optedOut \cup {who}
  /\ UNCHANGED <<time, shelf, approved, progress, activity, reader, studied>>

\* No request lasts longer than a day (bound).
TimePasses ==
  /\ \E t \in ReportMoments :
       /\ t > time /\ time' = t
       /\ reader.pc # "idle" => t - reader.at <= DayMinutes
  /\ UNCHANGED <<shelf, approved, progress, activity, optedOut, reader, studied>>

\* One request is looked at, and nothing after its answer (bound).
Answered == reader.pc \in {"answered", "suggested"}

ReportsNext ==
  \/ \E who \in Attending : StatsCounts(who) \/ SuggestDue(who)
  \/ StatsDueNow \/ StatsReviewedToday \/ StatsStreak \/ StatsNextDue
  \/ SuggestFresh \/ SuggestFallback \/ SuggestItems
  \/ ~Answered /\ \/ \E who \in Attending, w \in StudyWords : AnswerCard(who, w) \/ EnrollCard(who, w)
                  \/ \E who \in Attending : ToggleOptOut(who)
                  \/ \E w \in StudyWords : DeleteStudyWord(w) \/ ApproveDraft(w)
                  \/ TimePasses

ReportsSpec == ReportsInit /\ [][ReportsNext]_reportVars

-----------------------------------------------------------------------------
(* Properties *)

\* progress.service.ts, computeStreak: "the lit heatmap days and this count
\* agree".  For a caller in UTC the heatmap is lit on the days the learner has
\* answered a card, practised ones and those of deleted words included, and
\* the streak is the run of them that ends today or yesterday.
StreakIsLit ==
  \A who \in Learners :
    LET lit == {answer[2] : answer \in {s \in studied : s[1] = who}}
        run == {d \in lit : d..Max(lit) \subseteq lit}
    IN /\ DOMAIN GetActivity(who, Utc) = lit \cap DefaultRange(Utc)
       /\ ComputeStreak(who) =
            IF lit = {} THEN 0 ELSE IF Max(lit) < DayOf(time, Utc) - 1 THEN 0 ELSE Cardinality(run)

\* progress.service.ts, getActivity: wherever the caller lives, every answer of
\* the last year by her calendar is on exactly one day of the heatmap.
HeatmapComplete ==
  \A who \in Learners, offset \in Offsets :
    LET days == GetActivity(who, offset)
        recent == {i \in EventsOf(who) : DayOf(time, offset) - DayOf(activity[i].at, offset) <= 364}
    IN /\ TotalReviews(days) = Cardinality(recent)
       /\ TotalNewWords(days) = Cardinality({i \in recent : activity[i].new})

\* progress.service.ts, getStats: although each number comes from a query of
\* its own, a learner who has reviewed today has a streak, also when midnight
\* or a deletion comes between, and the next due date is after the moment the
\* due cards were counted for.  When no row has changed meanwhile, there is a
\* next due date exactly if some card is not due.
StatsAgree ==
  reader.pc = "answered" =>
    /\ reader.today > 0 => reader.streak > 0
    /\ reader.nextDue = Forever \/ reader.nextDue > reader.at
    /\ ~reader.disturbed =>
         (reader.nextDue = Forever <=>
            reader.dueNow = SumOf(reader.counts))

\* practice.service.ts, getSuggestions: no word is suggested twice, nor more
\* than were asked for; what is not due is a word buildSet accepts.  When
\* nothing has changed meanwhile, the set is short only when it holds every
\* approved word: "practice is never a dead end".
SuggestionsSound ==
  reader.pc = "suggested" =>
    LET items == reader.due \cup reader.fresh \cup reader.extra IN
    /\ Cardinality(reader.due) + Cardinality(reader.fresh) + Cardinality(reader.extra) <= Count
    /\ Cardinality(items) = Cardinality(reader.due) + Cardinality(reader.fresh) + Cardinality(reader.extra)
    /\ reader.fresh \cup reader.extra \subseteq BuildSet(reader.who, items) \cup (StudyWords \ shelf)
    /\ ~reader.disturbed /\ Cardinality(items) < Count => shelf \cap approved \subseteq items

\* leaderboard.service.ts: "so they can never disagree": the caller's own rank
\* is the place on the board, and a learner with more mastered words comes first.
BoardAgrees ==
  \A who \in Learners :
    LET rank == ResolveMe(who) IN
    /\ rank = 0 <=> who \in optedOut \/ Mastered(who) = 0
    /\ rank \in 1..BoardSize => Board[rank] = who
    /\ \A other \in Learners : rank > 0 /\ ResolveMe(other) > 0 /\ Mastered(other) > Mastered(who) =>
         ResolveMe(other) < rank
=============================================================================
