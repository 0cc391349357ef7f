------------------------------ MODULE MCServices ------------------------------
(***************************************************************************)
(* Safety of ten components that share nothing, in one run: projd's goals  *)
(* and their history, its report, steward's focus time, its ledgers of     *)
(* days and its metrics of agents, locus on the bus, and of the shell the  *)
(* sharing hub, the streams that follow a bus service, the box of rows and *)
(* the keyed list.  A behaviour is one of one of them, chosen by "part" at *)
(* the start; the others stay in one of their initial states.  The list's  *)
(* sources start with x apart from the others.                             *)
(***************************************************************************)
EXTENDS GoalHistory, SharedSources, TLC

CONSTANTS
    MaxGoalSteps,   \* bound: projects registered and events of goals, together
    MaxTime, MaxRows, Nothing,
    w, DayLength, MaxClock, MaxInputs,
    Workspaces, None, SlotLength, MaxQueue, MaxSeconds, MaxStates, w1, w2, w3, pr,
    Subjects, RelNames, Targets, Metadata, Keep, Callers, Watched, WatchedOnly, MaxCalls,
    Items, MaxLength, MaxUpdates, x, y, z, k1, k2,
    Values, MaxListed, MaxChanges,
    MaxRetired, MaxPending, MaxSeen, MaxAgentTime, MaxAgentEvents

MCRoots == {<<1>>, <<1, 2>>}
MCProjectOf == (w1 :> pr) @@ (w2 :> pr) @@ (w3 :> None)
Focus(idle, window) == [idle |-> idle, locked |-> ~idle /\ window = None, window |-> window,
                        room |-> "home", project |-> None]
Agent(does) == [key |-> "agent", state |-> does, subagent |-> FALSE, window |-> "other",
                 room |-> "lab", cwd |-> <<1>>]
MCFocuses == {Focus(FALSE, w), Focus(TRUE, w), Focus(FALSE, None)}
MCSnapshots == {[sessions |-> {Agent(s)}, links |-> << >>] : s \in {"busy", "idle"}}
\* The agent's work counts for its project, or for a goal of the first day.
MCPolicies ==
    {[rooms |-> "home" :> "personal", roots |-> <<1>> :> "work", links |-> << >>, goals |-> {}],
     [rooms |-> << >>, roots |-> << >>, links |-> "agent" :> {"goal"},
      goals |-> {[key |-> "goal", date |-> 0, open |-> TRUE, outcome |-> TRUE, project |-> None]}]}
MCKeyOf == (x :> k1) @@ (y :> k1) @@ (z :> k2)

Session(project, does, subagent) ==
    [project |-> project, state |-> does, subagent |-> subagent, window |-> "w"]
\* One session at work, at rest, in its window or not; others that come and go.
MCRosters ==
    {[sessions |-> "a" :> Session("p", does, FALSE), links |-> "w" :> "a"] :
        does \in {"thinking", "idle", "ask"}}
    \cup {[sessions |-> "a" :> Session("p", "idle", FALSE), links |-> "w" :> "b"],
          [sessions |-> "a" :> Session("q", "idle", FALSE)
                        @@ "b" :> Session("p", "thinking", FALSE), links |-> << >>],
          [sessions |-> "b" :> Session("p", "idle", FALSE)
                        @@ "c" :> Session("p", "tool-use", TRUE), links |-> << >>],
          [sessions |-> "c" :> Session("p", "idle", TRUE), links |-> << >>]}
MCAttention ==
    {[window |-> None, available |-> FALSE], [window |-> None, available |-> TRUE],
     [window |-> "w", available |-> TRUE]}

VARIABLES
    part,
    rows, time,
    now, current, intervals, presence, queue, slots, graphite, up, observed, truth, lost,
    clock, summary, workdays, saved, activity, step, running, past, safe, inputs,
    records, emitting, calls, heard, listening, phase, shown,
    boxed, children, wanted, updates,
    value, outer, items, tasks, events, subscriptions, values, order, previous, listed,
    changes, failed, stale,
    second, members, known, initialized, attention, links, retired, pending, stamps, reports,
    dropped, gauges, counts, over, baseline, lived, attended, waited, arrived

report == <<rows, time>>
focus == <<now, current, intervals, presence, queue, slots, graphite, up, observed,
           truth, lost>>
days == <<clock, summary, workdays, saved, activity, step, running, past, safe, inputs>>
locus == <<records, emitting, calls, heard, listening, phase, shown>>
agents == <<second, members, known, initialized, attention, links, retired, pending, stamps,
            reports, dropped, gauges, counts, over, baseline, lived, attended, waited,
            arrived>>
services == <<vars, report, focus, days, locus, agents>>

box == <<boxed, children, wanted, updates>>
list == <<value, outer, items, tasks, events, subscriptions, values, order, previous,
          listed, changes, failed, stale>>
shell == <<hub, bus, box, list>>

all == <<part, services, shell>>

W == INSTANCE WorkReport
F == INSTANCE FocusTime WITH WorkspaceProject <- MCProjectOf, MaxTime <- MaxSeconds
D == INSTANCE DayLedgers
        WITH now <- clock, state <- running, truth <- past, events <- inputs,
             MaxTime <- MaxClock, MaxEvents <- MaxInputs,
             Focuses <- MCFocuses, Snapshots <- MCSnapshots, Policies <- MCPolicies
A == INSTANCE AgentMetrics
        WITH now <- second, focus <- attention, waiting <- pending, seen <- stamps,
             lost <- dropped, truth <- waited, events <- arrived,
             Projects <- {"p", "q"}, Owners <- {"o"}, Rosters <- MCRosters,
             Focuses <- MCAttention, MaxTime <- MaxAgentTime, MaxEvents <- MaxAgentEvents
S == INSTANCE RelationService
C == INSTANCE ComponentList WITH KeyOf <- MCKeyOf, rows <- boxed
K == INSTANCE KeyedList WITH KeyOf <- MCKeyOf, MaxLength <- MaxListed, shown <- listed

MCInit ==
    /\ part \in {"goals", "report", "focus", "days", "agents", "locus", "hub", "bus", "box", "list"}
    /\ Init /\ W!Init /\ F!Init /\ D!Init /\ A!Init /\ S!Init /\ H!Init /\ B!Init /\ C!Init /\ K!Init
    /\ part # "locus" => records = {}
    /\ part # "bus" => kind = "property" /\ service.owner = 0
    /\ value[x] # value[y] /\ value[y] = value[z]

MCNext ==
    \/ part = "goals" /\ Next /\ issued' + Written' <= MaxGoalSteps
                      /\ UNCHANGED <<part, report, focus, days, agents, locus, shell>>
    \/ part = "report" /\ W!Next /\ UNCHANGED <<part, vars, focus, days, agents, locus, shell>>
    \/ part = "focus" /\ F!Next /\ UNCHANGED <<part, vars, report, days, agents, locus, shell>>
    \/ part = "days" /\ D!Next /\ UNCHANGED <<part, vars, report, focus, agents, locus, shell>>
    \/ part = "agents" /\ A!Next /\ UNCHANGED <<part, vars, report, focus, days, locus, shell>>
    \/ part = "locus" /\ S!Next /\ UNCHANGED <<part, vars, report, focus, days, agents, shell>>
    \/ part = "hub" /\ H!Next /\ UNCHANGED <<part, services, bus, box, list>>
    \/ part = "bus" /\ B!Next /\ UNCHANGED <<part, services, hub, box, list>>
    \/ part = "box" /\ C!Next /\ UNCHANGED <<part, services, hub, bus, list>>
    \/ part = "list" /\ K!Next /\ UNCHANGED <<part, services, hub, bus, box>>

MCSpec == MCInit /\ [][MCNext]_all

(* Names are only compared, and w1 and w2 are of one project; ids,         *)
(* subscribers, w1 and w2 have the same values in the cfg.  No liveness is *)
(* checked under this symmetry.                                            *)
Symmetry == Permutations(Ids) \cup Permutations(Values)

-----------------------------------------------------------------------------
(* The components' properties, with their type invariants; HistoryReplays  *)
(* is GoalHistory's own.                                                   *)

(* Goals, projects, selections and identities fit together: GoalHistory.   *)
GoalsConsistent ==
    part = "goals" => TypeOK /\ OneLifePerGoal /\ ActiveGoalFits /\ DetachedFromRemoved

(* The figures of a goal are those of its history; all focus time, and all *)
(* time, responses and usage of agents, is in Graphite once, with the      *)
(* gauges right: WorkReport, FocusTime and AgentMetrics.                   *)
TimesAddUp ==
    /\ part = "report" => W!TypeOK /\ W!StatsMatchHistory /\ W!ClipsAddUp
    /\ part = "focus" => F!TypeOK /\ F!TimeAccounted /\ F!GaugesFollow
    /\ part = "agents" => /\ A!TypeOK /\ A!SecondsAddUp /\ A!ResponsesAddUp
                          /\ A!SessionsAddUp /\ A!UsageCountedOnce

(* The ledgers have what was observed, day by day; what is saved of it     *)
(* misses little when steward fails and nothing when it ends; days that    *)
(* are over keep their targets: DayLedgers.                                *)
DaysLedgered ==
    part = "days" => D!TypeOK /\ D!Observed /\ D!Saved /\ D!TargetsStay

(* The watcher shows the relation as it is: RelationService.               *)
RecordsShown == part = "locus" => S!TypeOK /\ S!RecordsShown

(* Subscribers show the source, through one connection, and a stream at    *)
(* rest shows what the bus service says: ShareReplay and BusFollowers.     *)
StreamsFollow ==
    /\ part = "hub" => H!TypeOK /\ H!SubscribersUpToDate /\ H!NoStrayConnection
    /\ part = "bus" => B!TypeOK /\ B!FollowersUpToDate

(* The box shows the list it was given last, and the consumer's list has   *)
(* the values of the sources, each followed by one task: ComponentList and *)
(* KeyedList.                                                              *)
ListsShown ==
    /\ part = "box" => C!TypeOK /\ C!RowsShown
    /\ part = "list" => K!TypeOK /\ K!ValuesShown /\ K!NoStraySource

(* Rows that can be kept are: ComponentList.                               *)
RowsKept == [][part = "box" => C!KeepsRows]_all
=============================================================================
