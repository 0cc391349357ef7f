------------------------------ MODULE DayLedgers ------------------------------
(***************************************************************************)
(* Steward's two ledgers of days, kept in locus: the components of         *)
(* productivity (productivity/tracker.rs) and workdays (workdays.rs), as   *)
(* the loop of metrics.rs drives them.  An event closes the interval that  *)
(* ran until then, split at midnight, and every day it touched is saved    *)
(* before the next event is taken; a save that fails ends steward without  *)
(* its last interval, and a new process goes on from what is saved.        *)
(*                                                                         *)
(* Time is in units of which DayLength make a day; the clock only goes     *)
(* forward.  Graphite is external: it has the last activity of each unit.  *)
(***************************************************************************)
EXTENDS Integers, Sequences, FiniteSets, FiniteSetsExt

CONSTANTS
    Focuses,        \* [idle, locked : BOOLEAN, window, room, project]
    Snapshots,      \* [sessions : sets of [key, state, subagent, window, room, cwd],
                    \*  links : the active session of windows]
    Policies,       \* [rooms, roots : classes, links : goals of sessions,
                    \*  goals : sets of [key, date, open, outcome, project]]
    Targets,
    None,
    DayLength,
    MaxTime,        \* bound: time
    MaxEvents       \* bound: inputs of the loop, ends and failures

VARIABLES
    now,
    summary,        \* the Tracker of productivity: days, dirty, since, and its inputs
    workdays,       \* Workdays: days, previous, targets
    saved,          \* locus: summaries, workdays and the targets
    activity,       \* Graphite: activity by time
    step,           \* of the loop: what is left of the event in hand
    state,          \* of steward: "runs", "ended" as it should, or "failed"
    truth,          \* history: what was observed, by day
    safe,           \* history: until when each ledger is saved
    events

vars == <<now, summary, workdays, saved, activity, step, state, truth, safe, events>>

Empty == << >>
Date(t) == t \div DayLength
Days == 0..Date(MaxTime)

\* What of an interval is in a day: it is split at midnight.
Share(from, to, d) ==
    LET begin == IF from > d * DayLength THEN from ELSE d * DayLength
        end == IF to < (d + 1) * DayLength THEN to ELSE (d + 1) * DayLength
    IN  IF begin < end THEN end - begin ELSE 0
\* Slip: an interval is of the day it began in.
SplitNot(from, to) == IF from < to THEN {Date(from)} ELSE {}
Split(from, to) == {d \in Days : Share(from, to, d) > 0}

At(f, x, default) == IF x \in DOMAIN f THEN f[x] ELSE default
Set(f, x, v) == [y \in DOMAIN f \cup {x} |-> IF y = x THEN v ELSE f[y]]

-----------------------------------------------------------------------------
(* productivity/mod.rs: who may be credited.                               *)

\* The most specific root that contains a path has its class.
ProjectClass(policy, path) ==
    LET over == {r \in DOMAIN policy.roots : path # None /\ \E n \in 0..Len(path) :
                    SubSeq(path, 1, n) = r}
    IN  IF over = {} THEN "unclassified"
        ELSE policy.roots[CHOOSE r \in over : \A o \in over : Len(o) <= Len(r)]

Classify(policy, room, path) ==
    LET classes == {At(policy.rooms, room, "unclassified"), ProjectClass(policy, path)}
    IN  IF "personal" \in classes THEN "personal"
        ELSE IF "work" \in classes THEN "work" ELSE "unclassified"

AgentGoals(policy, session, day) ==
    \E g \in policy.goals :
        /\ g.date = day /\ g.open /\ g.outcome
        /\ \/ g.project # None /\ session.cwd # None
              /\ \E n \in 0..Len(session.cwd) : SubSeq(session.cwd, 1, n) = g.project
           \/ g.key \in At(policy.links, session.key, {})

Eligible(policy, session, day) ==
    /\ ~session.subagent /\ session.state = "busy" /\ session.window # None
    /\ LET class == Classify(policy, session.room, session.cwd)
       IN  class # "personal" /\ (class = "work" \/ AgentGoals(policy, session, day))

\* Tracker::flags: the components that run in these inputs.
FlagsOf(focus, agents, policy, day) ==
    LET class == Classify(policy, focus.room, focus.project)
        away(s) == /\ focus.window # None
                   /\ ~(/\ focus.window = s.window
                        /\ At(agents.links, s.window, s.key) = s.key)
        busy == {s \in agents.sessions : Eligible(policy, s, day)}
        background == {s \in busy : away(s)}
        waiting == {s \in agents.sessions : s.state = "idle" /\ away(s)
                        /\ Eligible(policy, [s EXCEPT !.state = "busy"], day)}
        idle == focus.idle /\ ~focus.locked
        personal == class = "personal" /\ ~focus.locked
        is == [background_idle |-> idle /\ background # {},
               goal_background_idle |-> idle /\ \E s \in background : AgentGoals(policy, s, day),
               personal_active |-> personal /\ ~focus.idle,
               personal_idle |-> personal /\ focus.idle,
               personal_active_with_background_work |->
                    personal /\ ~focus.idle /\ background # {},
               personal_idle_with_background_work |-> personal /\ focus.idle /\ background # {},
               work_while_locked |-> focus.locked /\ busy # {},
               unclassified_active |-> ~focus.locked /\ ~focus.idle /\ class = "unclassified",
               idle_agents_with_idle_human |-> idle /\ waiting # {} /\ background = {}]
    IN  {m \in DOMAIN is : is[m]}

Flags(s, day) ==
    IF s.focus = None \/ s.policy = None THEN {} ELSE FlagsOf(s.focus, s.agents, s.policy, day)

-----------------------------------------------------------------------------
(* The ledgers.                                                            *)

\* Seconds, by component, with some more of the flags'.
Longer(seconds, flags, n) ==
    [m \in DOMAIN seconds \cup flags |-> At(seconds, m, 0) + IF m \in flags THEN n ELSE 0]

\* Tracker::advance: the interval until now is of the inputs before.
Advance(s) ==
    IF s.focus = None \/ s.policy = None \/ s.since = None THEN [s EXCEPT !.since = now]
    ELSE LET touched == Split(s.since, now)
         IN  [s EXCEPT
                !.since = now, !.dirty = @ \cup touched,
                !.days = [d \in DOMAIN @ \cup touched |->
                    IF d \in touched
                    THEN Longer(At(@, d, Empty), Flags(s, d), Share(s.since, now, d))
                    ELSE @[d]]]

\* A day that begins with activity at some time.
Fresh(l, t) == [started |-> t, last |-> t, active |-> 0, unlocked |-> 0,
                checkpoint |-> t, is |-> <<FALSE, FALSE>>, targets |-> l.targets]

\* The interval until t, of what the user did before.
Close(l, t) ==
    IF l.previous = None THEN l.days
    ELSE LET was == l.previous
             touched == Split(was.at, t)
             from(d) == IF was.at > d * DayLength THEN was.at ELSE d * DayLength
             longer(d, n) ==
                LET day == At(l.days, d, Fresh(l, from(d)))
                IN  [day EXCEPT !.active = @ + IF was.active THEN n ELSE 0,
                                !.last = IF was.active THEN from(d) + n ELSE @,
                                !.unlocked = @ + IF was.unlocked THEN n ELSE 0,
                                !.checkpoint = from(d) + n]
         IN  [d \in DOMAIN l.days \cup (IF was.active THEN touched ELSE {}) |->
                IF d \in touched THEN longer(d, Share(was.at, t, d)) ELSE l.days[d]]

\* observe_flags
ObserveFlags(l, t, active, unlocked) ==
    LET days == Close(l, t)
        day == At(days, Date(t), Fresh(l, t))
        open == [day EXCEPT !.last = IF active THEN t ELSE @, !.checkpoint = t,
                            !.is = <<active, unlocked>>]
    IN  [l EXCEPT !.days = IF active \/ Date(t) \in DOMAIN days THEN Set(days, Date(t), open)
                           ELSE days,
                  !.previous = [at |-> t, active |-> active, unlocked |-> unlocked]]

Retarget(l, targets) ==
    [l EXCEPT !.targets = targets,
              !.days = [d \in DOMAIN @ |-> IF d = Date(now) THEN [@[d] EXCEPT !.targets = targets]
                                           ELSE @[d]]]

\* apply_targets
ApplyTargets(l, targets) ==
    Retarget(IF l.previous = None THEN l
             ELSE ObserveFlags(l, now, l.previous.active, l.previous.unlocked), targets)

-----------------------------------------------------------------------------
(* The loop.                                                               *)

Idle == state = "runs" /\ step = <<>>
Spend == events < MaxEvents /\ events' = events + 1
Unheard == <<now, saved, state, truth, safe>>

Publish == [do |-> "publish"]
Observe(active, unlocked) == [do |-> "observe", active |-> active, unlocked |-> unlocked]
Writes(ledger, days) ==
    LET order == CHOOSE f \in [1..Cardinality(days) -> days] :
                    \A i, j \in DOMAIN f : i < j => f[i] < f[j]
    IN  [i \in 1..Cardinality(days) |-> [do |-> "write", ledger |-> ledger, day |-> order[i]]]
        \o <<[do |-> "done", ledger |-> ledger]>>

\* Graphite has the activity before anything is saved.
FocusEvent(f) ==
    /\ Idle /\ Spend
    /\ summary' = [Advance(summary) EXCEPT !.focus = f]
    /\ activity' = Set(activity, now, [active |-> ~f.idle /\ ~f.locked, unlocked |-> ~f.locked])
    /\ step' = <<Publish, Observe(~f.idle /\ ~f.locked, ~f.locked)>>
    /\ UNCHANGED <<workdays, Unheard>>

AgentsEvent(a) ==
    /\ Idle /\ Spend
    /\ summary' = [Advance(summary) EXCEPT !.agents = a]
    /\ step' = <<Publish>>
    /\ UNCHANGED <<workdays, activity, Unheard>>

PolicyEvent(p) ==
    /\ Idle /\ Spend
    /\ summary' = [Advance(summary) EXCEPT !.policy = p]
    /\ step' = <<Publish>>
    /\ UNCHANGED <<workdays, activity, Unheard>>

\* The dashboard saves other targets, and the loop is told.
Prefer(targets) ==
    /\ Spend /\ targets # saved.targets
    /\ saved' = [saved EXCEPT !.targets = targets]
    /\ UNCHANGED <<now, summary, workdays, activity, step, state, truth, safe>>

\* History: activity begins the day that is.
Begun(active) ==
    IF active /\ Date(now) \notin DOMAIN truth.days
    THEN Set(truth.days, Date(now), Fresh(workdays, now)) ELSE truth.days

Changed(l) == {d \in DOMAIN l.days : d \notin DOMAIN workdays.days \/ l.days[d] # workdays.days[d]}

\* The loop is told of other targets (what it is told first it has loaded).
TargetsEvent ==
    /\ Idle /\ workdays.targets # saved.targets
    /\ workdays' = ApplyTargets(workdays, saved.targets)
    /\ step' = Writes("workdays", Changed(workdays'))
    /\ LET days == Begun(workdays.previous # None /\ workdays.previous.active)
       IN  truth' = [truth EXCEPT !.days = [d \in DOMAIN days |->
                IF d = Date(now) THEN [days[d] EXCEPT !.targets = saved.targets] ELSE days[d]]]
    /\ UNCHANGED <<now, summary, saved, activity, state, safe, events>>

\* Steward is asked to end, or a source fails: the intervals are closed, and what
\* follows is nobody's.
Finish ==
    /\ Idle /\ Spend
    /\ summary' = [Advance(summary) EXCEPT !.focus = None]
    /\ step' = <<Publish, Observe(FALSE, FALSE), [do |-> "end"]>>
    /\ UNCHANGED <<workdays, activity, Unheard>>

Doing(do) == state = "runs" /\ step # <<>> /\ Head(step).do = do

\* A day of the productivity is there as soon as its inputs are.
PublishSummary ==
    /\ Doing("publish")
    /\ LET today == Date(summary.since)
           new == IF summary.focus # None /\ summary.policy # None THEN {today} \ DOMAIN summary.days
                  ELSE {}
           s == [summary EXCEPT !.days = [d \in DOMAIN @ \cup new |-> At(@, d, Empty)],
                                !.dirty = @ \cup new]
       IN  summary' = s /\ step' = Writes("summary", s.dirty) \o Tail(step)
    /\ UNCHANGED <<workdays, activity, events, Unheard>>

ObserveWorkday ==
    /\ Doing("observe")
    /\ workdays' = ObserveFlags(workdays, now, Head(step).active, Head(step).unlocked)
    /\ truth' = [truth EXCEPT !.days = Begun(Head(step).active)]
    /\ step' = Writes("workdays", IF workdays.previous = None THEN DOMAIN workdays'.days
                                  ELSE Changed(workdays')) \o Tail(step)
    /\ UNCHANGED <<now, summary, saved, activity, state, safe, events>>

WriteDay ==
    /\ Doing("write")
    /\ LET d == Head(step).day
       IN  IF Head(step).ledger = "summary"
           THEN /\ saved' = [saved EXCEPT !.summary = Set(@, d, summary.days[d])]
                /\ summary' = [summary EXCEPT !.dirty = @ \ {d}]
           ELSE /\ saved' = [saved EXCEPT !.workdays = Set(@, d, workdays.days[d])]
                /\ UNCHANGED summary
    /\ step' = Tail(step)
    /\ UNCHANGED <<now, workdays, activity, state, truth, safe, events>>

\* History: the ledger is saved until its last event.
Written ==
    /\ Doing("done")
    /\ safe' = [safe EXCEPT ![Head(step).ledger] =
                    IF Head(step).ledger = "summary" THEN summary.since
                    ELSE IF workdays.previous = None THEN @ ELSE workdays.previous.at]
    /\ step' = Tail(step)
    /\ UNCHANGED <<now, summary, workdays, saved, activity, state, truth, events>>

End ==
    /\ Doing("end") /\ state' = "ended" /\ step' = <<>>
    /\ UNCHANGED <<now, summary, workdays, saved, activity, truth, safe, events>>

\* A save fails, which is returned at once, or the process is killed.
Fail ==
    /\ state = "runs" /\ Spend /\ state' = "failed" /\ step' = <<>>
    /\ UNCHANGED <<now, summary, workdays, saved, activity, truth, safe>>

-----------------------------------------------------------------------------
\* seed_today: a day without a record has what Graphite knows of it, each state
\* until the next one, and the last one until now.
Seeded(l) ==
    LET known == {t \in DOMAIN activity : Date(t) = Date(now)}
        times == Writes("", known)
        observe(m, i) ==
            LET t == times[i].day
                to == IF i < Cardinality(known) THEN times[i + 1].day ELSE now
                a == activity[t]
            IN  ObserveFlags(ObserveFlags(m, t, a.active, a.unlocked), to, a.active, a.unlocked)
        all[i \in 0..Cardinality(known)] == IF i = 0 THEN l ELSE observe(all[i - 1], i)
    IN  [all[Cardinality(known)] EXCEPT !.previous = None]

Loaded ==
    LET l == [days |-> saved.workdays, previous |-> None, targets |-> saved.targets]
        answers == IF Date(now) \in DOMAIN l.days THEN {l} ELSE {l, Seeded(l)}
    IN  {Retarget(m, saved.targets) : m \in answers}

\* History: what was not saved is lost, and what Graphite has is believed, time
\* that steward did not run included; it is saved with the first observation.
Start ==
    /\ state # "runs" /\ state' = "runs" /\ step' = <<>>
    /\ summary' = [days |-> saved.summary, dirty |-> DOMAIN saved.summary, since |-> None,
                   focus |-> None, agents |-> [sessions |-> {}, links |-> Empty],
                   policy |-> None]
    /\ workdays' \in Loaded
    /\ truth' = [seconds |-> saved.summary, days |-> workdays'.days]
    /\ safe' = [summary |-> now,
                workdays |-> IF DOMAIN workdays'.days = DOMAIN saved.workdays THEN now
                             ELSE Date(now) * DayLength]
    /\ UNCHANGED <<now, saved, activity, events>>

Tick ==
    /\ now < MaxTime /\ now' = now + 1
    /\ LET d == Date(now)
           was == workdays.previous
           day == At(truth.days, d, Fresh(workdays, now))
           longer == [day EXCEPT !.active = @ + IF was.active THEN 1 ELSE 0,
                                 !.last = IF was.active THEN now + 1 ELSE @,
                                 !.unlocked = @ + IF was.unlocked THEN 1 ELSE 0,
                                 !.targets = workdays.targets]
       IN  truth' =
            IF state # "runs" THEN truth
            ELSE [seconds |-> IF Flags(summary, d) = {} THEN truth.seconds
                              ELSE Set(truth.seconds, d,
                                       Longer(At(truth.seconds, d, Empty), Flags(summary, d), 1)),
                  days |-> IF was = None \/ (~was.active /\ d \notin DOMAIN truth.days)
                           THEN truth.days ELSE Set(truth.days, d, longer)]
    /\ UNCHANGED <<summary, workdays, saved, activity, step, state, safe, events>>

Init ==
    /\ now = 0 /\ events = 0 /\ step = <<>> /\ state = "ended"
    /\ summary = [days |-> Empty, dirty |-> {}, since |-> None, focus |-> None,
                  agents |-> [sessions |-> {}, links |-> Empty], policy |-> None]
    /\ workdays = [days |-> Empty, previous |-> None, targets |-> CHOOSE t \in Targets : TRUE]
    /\ saved = [summary |-> Empty, workdays |-> Empty, targets |-> workdays.targets]
    /\ activity = Empty
    /\ truth = [seconds |-> Empty, days |-> Empty]
    /\ safe = [summary |-> 0, workdays |-> 0]

Next ==
    \/ \E f \in Focuses : FocusEvent(f)
    \/ \E a \in Snapshots : AgentsEvent(a)
    \/ \E p \in Policies : PolicyEvent(p)
    \/ \E t \in Targets : Prefer(t)
    \/ TargetsEvent \/ Finish
    \/ PublishSummary \/ ObserveWorkday \/ WriteDay \/ Written \/ End \/ Fail
    \/ Start \/ Tick

Spec == Init /\ [][Next]_vars

-----------------------------------------------------------------------------
Seconds(days, d, m) == At(At(days, d, Empty), m, 0)
Metrics == UNION {DOMAIN truth.seconds[d] : d \in DOMAIN truth.seconds}
Figures(days, d) ==
    LET none == [active |-> 0, unlocked |-> 0]
    IN  [f \in DOMAIN none |-> At(days, d, none)[f]]

(* Every second in which a component ran, by the inputs steward knew then, *)
(* is in that component of its day once, and with the interval that runs   *)
(* still is all there is; a workday has the time since its first activity, *)
(* which may be midnight (steward/README.md: "splits at local midnight").  *)
Observed ==
    state = "runs" =>
        /\ \A d \in Days, m \in Metrics :
            Seconds(Advance(summary).days, d, m) = Seconds(truth.seconds, d, m)
        /\ LET days == Close(workdays, now)
           IN  /\ DOMAIN truth.days = DOMAIN days
               /\ \A d \in DOMAIN days : \A f \in {"started", "active", "unlocked"} :
                    days[d][f] = truth.days[d][f]

(* What is saved never has more than was observed, and misses at most the  *)
(* time since the last event that was saved whole, whenever steward fails; *)
(* an end that does not fail misses nothing.                               *)
Saved ==
    LET misses(have, all, from, d) ==
            have <= all /\ all - have <= (IF state = "ended" THEN 0 ELSE Share(from, now, d))
    IN  \A d \in Days :
        /\ \A m \in Metrics :
            misses(Seconds(saved.summary, d, m), Seconds(truth.seconds, d, m), safe.summary, d)
        /\ \A f \in {"active", "unlocked"} :
            misses(Figures(saved.workdays, d)[f], Figures(truth.days, d)[f], safe.workdays, d)

(* A day that is over keeps the targets it ended with, whatever has been   *)
(* preferred since (steward/README.md: "Historical rows retain the targets *)
(* they used").                                                            *)
TargetsStay ==
    Idle /\ workdays.previous # None =>
            \A d \in DOMAIN saved.workdays : d < Date(now) =>
                saved.workdays[d].targets = truth.days[d].targets

TypeOK ==
    /\ now \in 0..MaxTime /\ events \in 0..MaxEvents
    /\ DOMAIN saved.summary \subseteq Days /\ DOMAIN saved.workdays \subseteq Days
    /\ summary.dirty \subseteq DOMAIN summary.days
    /\ summary.since \in 0..now \cup {None}
    /\ saved.targets \in Targets /\ workdays.targets \in Targets
    /\ state \in {"runs", "ended", "failed"}
    /\ state = "runs" \/ step = <<>>
=============================================================================
