----------------------------- MODULE WorkReport -----------------------------
(***************************************************************************)
(* The figures projd reports for a goal (metrics/report.rs): work sessions *)
(* clipped to a range of time, and the time in progress and completions    *)
(* folded from the goal's events.  The events grow as GoalHistory lets     *)
(* them; 0 is the unknown time.                                            *)
(***************************************************************************)
EXTENDS Naturals, Sequences, SequencesExt, FiniteSets

CONSTANTS
    MaxTime,    \* bound: instants, in milliseconds
    MaxRows,    \* bound: events of the goal
    Nothing     \* no start, no session: no number

VARIABLES
    rows,       \* the goal's events, by time
    time        \* now

vars == <<rows, time>>

-----------------------------------------------------------------------------
(* Sessions.                                                               *)

Least(a, b) == IF a < b THEN a ELSE b
Greatest(a, b) == IF a > b THEN a ELSE b
Minus(a, b) == IF a > b THEN a - b ELSE 0       \* saturating_sub

\* Slip: the whole duration of a session that reaches into the range.
ClipWhole(s, from, to) ==
    LET start == Greatest(s.started, from)
        end == Least(s.ended, to)
    IN  IF \/ end < start \/ s.started >= to \/ s.ended < from
           \/ end = start /\ s.started # s.ended
        THEN Nothing
        ELSE [started |-> start, ended |-> end, duration |-> s.duration]

(* clip: the part of a session within the range, with its share of the     *)
(* measured duration; a session without extent is kept where it is.        *)
Clip(s, from, to) ==
    LET start == Greatest(s.started, from)
        end == Least(s.ended, to)
        wall == s.ended - s.started
    IN  IF \/ end < start \/ s.started >= to \/ s.ended < from
           \/ end = start /\ s.started # s.ended
        THEN Nothing
        ELSE [started |-> start, ended |-> end,
              duration |-> IF wall > 0 THEN (s.duration * (end - start)) \div wall
                           ELSE s.duration]

Sessions == {s \in [started : 1..MaxTime, ended : 1..MaxTime, duration : 0..MaxTime] :
                s.started <= s.ended}

Part(s, from, to) == LET c == Clip(s, from, to) IN IF c = Nothing THEN 0 ELSE c.duration

-----------------------------------------------------------------------------
(* stats: one pass over the events.                                        *)

Lifecycle == {"created", "observed", "status-changed", "deleted"}

NoStats == [since |-> Nothing, inProgress |-> 0, firstStarted |-> 0,
            completions |-> 0, completed |-> 0]

Count(stats, e, created, from, to) ==
    LET new == IF e.kind = "deleted" THEN "deleted" ELSE e.status
        left == IF new # "in-progress" /\ stats.since # Nothing
                THEN [stats EXCEPT !.since = Nothing,
                        !.inProgress = @ + Minus(Least(e.at, to), Greatest(stats.since, from))]
                ELSE stats
        entered == IF new = "in-progress" /\ stats.since = Nothing
                   THEN [left EXCEPT !.since = e.at,
                            !.firstStarted = IF created > 0 /\ e.kind # "observed" /\ @ = 0
                                             THEN e.at ELSE @]
                   ELSE left
    IN  IF e.kind \notin Lifecycle THEN stats
        ELSE IF new = "completed" /\ e.kind # "observed" /\ e.old # "completed"
        THEN [entered EXCEPT !.completions = @ + 1, !.completed = e.at]
        ELSE entered

Created == IF rows # <<>> /\ Head(rows).kind = "created" THEN Head(rows).at ELSE 0

Stats(from, to) ==
    LET folded == FoldLeft(LAMBDA acc, e : Count(acc, e, Created, from, to), NoStats, rows)
    IN  IF folded.since = Nothing THEN folded
        ELSE [folded EXCEPT !.inProgress = @ + Minus(to, Greatest(folded.since, from))]

-----------------------------------------------------------------------------
Init == rows = <<>> /\ time = 1

StatusNames == {"planned", "in-progress", "completed"}
Alive == rows # <<>> /\ Last(rows).kind # "deleted"
AddRow(kind, old, status) ==
    /\ Len(rows) < MaxRows
    /\ rows' = Append(rows, [at |-> time, kind |-> kind, old |-> old, status |-> status])
    /\ UNCHANGED time

First(kind, status) == rows = <<>> /\ AddRow(kind, "", status)
Change(status) ==
    Alive /\ Last(rows).status # status /\ AddRow("status-changed", Last(rows).status, status)
Select == Alive /\ AddRow("selected", Last(rows).status, Last(rows).status)
Delete == Alive /\ AddRow("deleted", Last(rows).status, Last(rows).status)
Tick == time < MaxTime /\ time' = time + 1 /\ UNCHANGED rows

Next ==
    \/ \E kind \in {"created", "observed"}, s \in StatusNames : First(kind, s)
    \/ \E s \in StatusNames : Change(s)
    \/ Select \/ Delete \/ Tick

Spec == Init /\ [][Next]_vars

-----------------------------------------------------------------------------
(* Every variable has its type.                                            *)
TypeOK ==
    /\ time \in 1..MaxTime /\ Len(rows) <= MaxRows
    /\ \A n \in DOMAIN rows : rows[n].at \in 1..time /\ rows[n].status \in StatusNames

(* For every range that has begun, the reported time in progress is the    *)
(* time during which the goal was in progress by the last event before     *)
(* each instant, so the reports of adjacent ranges add up; and the goal    *)
(* was completed as often as its status became "completed" (stats).        *)
StatusAt(t) ==
    LET past == SelectSeq(rows, LAMBDA e : e.at <= t /\ e.kind \in Lifecycle)
    IN  IF past = <<>> \/ Last(past).kind = "deleted" THEN "none" ELSE Last(past).status

StatsMatchHistory ==
    /\ \A from \in 1..time, to \in 1..time : from <= to =>
        Stats(from, to).inProgress =
            Cardinality({t \in from..(to - 1) : StatusAt(t) = "in-progress"})
    /\ Stats(1, time).completions =
        Cardinality({n \in DOMAIN rows : rows[n].status = "completed"
            /\ rows[n].kind \in {"created", "status-changed"}})

(* The durations of a session in the two halves of a range add up to its   *)
(* duration in the range, but for less than a millisecond each lost to     *)
(* rounding: work is neither counted twice nor dropped at a boundary       *)
(* (clip).  Sessions without extent belong to one half.                    *)
ClipsAddUp ==
    rows = <<>> => \A s \in Sessions, from \in 1..time, mid \in 1..time, to \in 1..time :
        from <= mid /\ mid <= to /\ s.duration <= s.ended - s.started =>
            LET sum == Part(s, from, mid) + Part(s, mid, to)
            IN  sum <= Part(s, from, to) /\ Part(s, from, to) <= sum + 1
=============================================================================
