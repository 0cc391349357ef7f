------------------------------ MODULE AgentMetrics ------------------------------
(***************************************************************************)
(* Steward's metrics of agent sessions (steward/src/agent_metrics/         *)
(* tracker.rs): time by state, sessions, responses and how long the human  *)
(* takes to read them, cycles of work, and tokens by usage reports.  The   *)
(* roster, the focus and the reports arrive in any order.                  *)
(*                                                                         *)
(* What is counted is drained at once (metrics.rs), so counts and gauges   *)
(* here are what Graphite was sent in all.  The axis of workspaces is like *)
(* that of projects and left out, as is the detail by model.               *)
(***************************************************************************)
EXTENDS Integers, Sequences, FiniteSets, SequencesExt, FiniteSetsExt, Functions

CONSTANTS
    Projects, Owners, None,
    Rosters,            \* what the sources say: [sessions : key -> session,
                        \* links : window -> key]
    Focuses,            \* [window, available]
    MaxRetired, MaxPending, MaxSeen,
    MaxTime, MaxEvents  \* bounds: seconds; rosters, focuses and reports

VARIABLES
    now, members, known, initialized, focus, links, retired,
    waiting, seen,              \* usage_pending, usage_seen
    gauges, counts,             \* by series
    over,                       \* steward has ended
    baseline, lived,            \* history: the first roster, seconds of sessions
    attended, truth,            \* history: seconds of attention, and of those the ones
                                \* that responses waited for until they were read
    reports, lost,              \* history: of usage; whether one, or what was counted,
                                \* was forgotten because there were too many
    events

usage == <<waiting, seen, reports, lost>>
vars == <<now, members, known, initialized, focus, links, retired, usage, gauges, counts,
          over, baseline, lived, attended, truth, events>>

Busy == {"thinking", "tool-use", "compacting"}
Cohort(s) == <<s.project, s.subagent>>
Cohorts == Projects \X BOOLEAN
Names == {"busy", "other", "started", "completed", "read", "cancelled", "latency",
          "available", "cycles", "cycling", "tokens"}
Zeros == [p \in Cohorts |-> [n \in Names |-> 0]]
Add(c, s, n, v) == [c EXCEPT ![Cohort(s)][n] = @ + v]

Spend == events < MaxEvents /\ events' = events + 1

-----------------------------------------------------------------------------
(* Members.  What is counted goes into c.                                  *)

CloseState(c, m) ==
    Add(c, m.session, IF m.session.state \in Busy THEN "busy" ELSE "other", now - m.since)
Cancel(c, m) == IF m.unread = None THEN c ELSE Add(c, m.unread.owner, "cancelled", 1)

Finishes(m, s) == m.session.state \in Busy /\ s.state = "idle"
Differs(m, s) == m.session.state # s.state \/ Cohort(m.session) # Cohort(s)

Response(s) == [ready |-> now, owner |-> s, seconds |-> 0, attended |-> attended,
                since |-> IF focus.available THEN now ELSE None]

Continued(m, s) ==
    [session |-> s,
     since |-> IF Differs(m, s) THEN now ELSE m.since,
     busySince |-> CASE m.session.state \notin Busy /\ s.state \in Busy -> now
                     [] s.state \notin Busy -> None
                     [] OTHER -> m.busySince,
     unread |-> CASE Finishes(m, s) /\ ~s.subagent -> Response(s)
                  [] s.state # "idle" -> None
                  [] OTHER -> m.unread]
CountContinued(c, m, s) ==
    LET closed == IF Differs(m, s) THEN CloseState(c, m) ELSE c
        cycled == IF m.busySince = None THEN closed
                  ELSE Add(Add(closed, s, "cycles", 1), s, "cycling", now - m.busySince)
    IN  IF Finishes(m, s) THEN Add(cycled, s, "completed", 1)
        ELSE IF s.state # "idle" THEN Cancel(closed, m) ELSE closed

New(s) == [session |-> s, since |-> now, busySince |-> None, unread |-> None]

Unread(M) == {k \in DOMAIN M : M[k].unread # None}

\* read_responses: what waits in the focused window, unless that is linked to
\* another session.
Read(M, f, L) ==
    {k \in Unread(M) :
        /\ f.available /\ f.window # None /\ M[k].session.window = f.window
        /\ f.window \in DOMAIN L => L[f.window] = k}
Available(r) == r.seconds + IF r.since = None THEN 0 ELSE now - r.since
CountRead(c, r) ==
    Add(Add(Add(c, r.owner, "latency", now - r.ready), r.owner, "available", Available(r)),
        r.owner, "read", 1)

\* refresh_gauges: a series that was named once goes on.
Gauge(M, p) ==
    LET of == {k \in DOMAIN M : Cohort(M[k].session) = p}
    IN  [live |-> Cardinality(of),
         busy |-> Cardinality({k \in of : M[k].session.state \in Busy}),
         waiting |-> Cardinality(of \cap Unread(M))]
Refreshed(M) ==
    [p \in DOMAIN gauges \cup {Cohort(M[k].session) : k \in DOMAIN M} |-> Gauge(M, p)]

\* The end of an update and of a focus.
Settle(M, f, L, c) ==
    LET read == Read(M, f, L)
        left == [k \in DOMAIN M |-> IF k \in read THEN [M[k] EXCEPT !.unread = None] ELSE M[k]]
    IN  /\ members' = left
        /\ counts' = FoldSet(LAMBDA k, d : CountRead(d, M[k].unread), c, read)
        /\ truth' = truth +
                    FoldSet(LAMBDA k, n : n + attended - M[k].unread.attended, 0, read)
        /\ gauges' = Refreshed(left)

-----------------------------------------------------------------------------
(* Usage.  u is [waiting, seen, counts, lost]; the latest retired session  *)
(* of a key stands for it.                                                 *)

Recent(R, k) == SelectSeq(R, LAMBDA r : r.key = k)

Use(u, e, M, R) ==
    LET id == <<e.owner, e.key>>
        living == e.key \in DOMAIN M
        recent == Recent(R, e.key)
        kept == IF Cardinality(DOMAIN u.seen) >= MaxSeen /\ id \notin DOMAIN u.seen
                THEN {i \in DOMAIN u.seen : i[2] \in DOMAIN M \/ Recent(R, i[2]) # <<>>}
                ELSE DOMAIN u.seen
    IN  IF ~living /\ recent = <<>>
        THEN [u EXCEPT !.waiting = Append(IF Len(@) = MaxPending THEN Tail(@) ELSE @, e),
                       !.lost = @ \/ Len(u.waiting) = MaxPending]
        ELSE IF id \in DOMAIN u.seen /\ u.seen[id] >= e.stamp THEN u
        ELSE [u EXCEPT !.lost = @ \/ kept # DOMAIN u.seen,
                       !.seen = [i \in kept \cup {id} |-> IF i = id THEN e.stamp ELSE @[i]],
                       !.counts = Add(@, IF living THEN M[e.key].session
                                         ELSE Last(recent).session, "tokens", 1)]

\* Reports of one sender and session come in order; one may come again.
Report(e, again) ==
    /\ ~over /\ Spend
    /\ IF again THEN e \in reports
       ELSE e.stamp = 1 + Cardinality({r \in reports : r.owner = e.owner /\ r.key = e.key})
    /\ reports' = reports \cup {e}
    /\ LET u == Use([waiting |-> waiting, seen |-> seen, counts |-> counts, lost |-> lost],
                    e, members, retired)
       IN  /\ waiting' = u.waiting /\ seen' = u.seen /\ counts' = u.counts /\ lost' = u.lost
    /\ UNCHANGED <<now, members, known, initialized, focus, links, retired, gauges, over,
                   baseline, lived, attended, truth>>

-----------------------------------------------------------------------------
\* Sessions leave and retire in some order, then the roster is gone through, then the
\* reports that waited are looked at again.
Update(roster) ==
    LET S == roster.sessions
        gone == DOMAIN members \ DOMAIN S
        new == DOMAIN S \ DOMAIN members
        M == [k \in DOMAIN S |-> IF k \in new THEN New(S[k]) ELSE Continued(members[k], S[k])]
        closed == FoldSet(LAMBDA k, c : Cancel(CloseState(c, members[k]), members[k]),
                          counts, gone)
        continued == FoldSet(LAMBDA k, c : CountContinued(c, members[k], S[k]),
                             closed, DOMAIN S \ new)
        counted == IF ~initialized THEN continued
                   ELSE FoldSet(LAMBDA k, c : Add(c, S[k], "started", 1), continued, new \ known)
    IN  /\ ~over /\ Spend
        /\ \E order \in SetToSeqs(gone) :
                LET all == retired \o [i \in DOMAIN order |->
                                [key |-> order[i], session |-> members[order[i]].session]]
                IN  retired' = SubSeq(all, 1 + Len(all) - Min({MaxRetired, Len(all)}), Len(all))
        /\ known' = known \cup DOMAIN S /\ initialized' = TRUE
        /\ links' = roster.links
        /\ baseline' = IF initialized THEN baseline ELSE DOMAIN S
        /\ LET u == FoldLeft(LAMBDA v, e : Use(v, e, M, retired'),
                             [waiting |-> <<>>, seen |-> seen, counts |-> counted, lost |-> lost],
                             waiting)
           IN  /\ waiting' = u.waiting /\ seen' = u.seen /\ lost' = u.lost
               /\ Settle(M, focus, roster.links, u.counts)
        /\ UNCHANGED <<now, focus, over, lived, attended, reports>>

Focus(f) ==
    LET switched(r) == [r EXCEPT !.seconds = Available(r),
                                 !.since = IF f.available THEN now ELSE None]
        M == [k \in DOMAIN members |->
                IF members[k].unread = None \/ f.available = focus.available THEN members[k]
                ELSE [members[k] EXCEPT !.unread = switched(@)]]
    IN  /\ ~over /\ Spend
        /\ focus' = f
        /\ Settle(M, f, links, counts)
        /\ UNCHANGED <<now, known, initialized, links, retired, usage, over, baseline, lived,
                       attended>>

\* Steward ends: the responses that still wait are counted nowhere.
Finish ==
    /\ ~over /\ over' = TRUE
    /\ counts' = FoldSet(LAMBDA k, c : CloseState(c, members[k]), counts, DOMAIN members)
    /\ members' = << >>
    /\ gauges' = Refreshed(<< >>)
    /\ UNCHANGED <<now, known, initialized, focus, links, retired, usage, baseline, lived,
                   attended, truth, events>>

Tick ==
    /\ ~over /\ now < MaxTime /\ now' = now + 1
    /\ lived' = lived + Cardinality(DOMAIN members)
    /\ attended' = attended + IF focus.available THEN 1 ELSE 0
    /\ UNCHANGED <<members, known, initialized, focus, links, retired, usage, gauges, counts,
                   over, baseline, truth, events>>

Init ==
    /\ now = 0 /\ members = << >> /\ known = {} /\ initialized = FALSE
    /\ focus = [window |-> None, available |-> FALSE] /\ links = << >> /\ retired = <<>>
    /\ waiting = <<>> /\ seen = << >> /\ gauges = << >> /\ counts = Zeros
    /\ over = FALSE /\ baseline = {} /\ lived = 0 /\ attended = 0 /\ truth = 0
    /\ reports = {} /\ lost = FALSE /\ events = 0

Stamps == [owner : Owners, key : UNION {DOMAIN r.sessions : r \in Rosters}, stamp : 1..MaxEvents]

Next ==
    \/ \E roster \in Rosters : Update(roster)
    \/ \E f \in Focuses : Focus(f)
    \/ \E e \in Stamps, again \in BOOLEAN : Report(e, again)
    \/ Finish \/ Tick

Spec == Init /\ [][Next]_vars

-----------------------------------------------------------------------------
Total(n) == FoldFunction(LAMBDA p, total : p[n] + total, 0, counts)

(* Each second of each session is in one state of one project, and a cycle *)
(* of work is busy all along.                                              *)
SecondsAddUp ==
    /\ Total("busy") + Total("other")
            + FoldSet(LAMBDA k, n : n + now - members[k].since, 0, DOMAIN members) = lived
    /\ \A p \in Cohorts : counts[p]["cycling"] <= Total("busy")
    /\ Total("cycles") <= Total("completed")

(* Every response of a root session is read or cancelled, once, or waits   *)
(* (steward/README.md), and the attention it has waited for is that of the *)
(* human between the two.                                                  *)
ResponsesAddUp ==
    /\ ~over => LET of(n) == FoldSet(LAMBDA p, total : counts[p][n] + total, 0,
                                     {p \in Cohorts : ~p[2]})
                IN  of("completed") = of("read") + of("cancelled") + Cardinality(Unread(members))
    /\ Total("available") = truth /\ truth <= Total("latency")

(* A session is started once, and not when it was there at first; the      *)
(* gauges say what is, also of a project that nobody is in any more.       *)
SessionsAddUp ==
    /\ Total("started") = Cardinality(known \ baseline)
    /\ \A p \in Cohorts :
            Gauge(members, p) = IF p \in DOMAIN gauges THEN gauges[p]
                                ELSE [live |-> 0, busy |-> 0, waiting |-> 0]

(* Every report of usage is counted once, whatever comes again or before   *)
(* the session does, unless too many were under way; only those of         *)
(* sessions that are not there wait.                                       *)
UsageCountedOnce ==
    /\ LET Counted(e) == LET id == <<e.owner, e.key>>
                         IN  id \in DOMAIN seen /\ seen[id] >= e.stamp
       IN  ~lost => /\ Total("tokens") = Cardinality({e \in reports : Counted(e)})
                    /\ \A e \in reports : Counted(e) \/ e \in Range(waiting)
    /\ \A i \in DOMAIN waiting : waiting[i].key \notin DOMAIN members

TypeOK ==
    /\ DOMAIN members \subseteq known /\ Len(retired) <= MaxRetired
    /\ Len(waiting) <= MaxPending
    /\ \A k \in DOMAIN members : members[k].since <= now
    /\ \A k \in Unread(members) : /\ members[k].session.state = "idle"
                                  /\ ~members[k].session.subagent
=============================================================================
