------------------------------ MODULE FocusTime ------------------------------
(***************************************************************************)
(* Focus time on its way to Graphite: steward's timers (focus.rs Tracker,  *)
(* driven by the loop of metrics.rs), the bounded queue, and the thread    *)
(* that sums what falls into one storage slot (GraphiteSlots) and sends    *)
(* it.  Graphite keeps one point per series and slot, the last one sent.   *)
(*                                                                         *)
(* Of the dimensions the model has workspace and project; window, app,     *)
(* output, workspace name and the joint timer are kept by the same code in *)
(* the same two ways.  Time is in units of which SlotLength make a slot.   *)
(***************************************************************************)
EXTENDS Naturals, Sequences, FiniteSets, FiniteSetsExt

CONSTANTS
    Workspaces,
    WorkspaceProject, \* the project of each workspace, or None
    None,
    SlotLength,     \* 10 seconds
    MaxQueue,       \* 1024 batches
    MaxTime,        \* bound: time
    MaxStates       \* bound: focus states, restarts

VARIABLES
    now,            \* time
    current,        \* Tracker::current
    intervals,      \* Tracker::intervals, by dimension
    presence,       \* Tracker::presence_initialized
    queue,          \* batches to the thread
    slots,          \* GraphiteSlots
    graphite,       \* points by series and slot
    up,             \* steward runs
    observed,       \* focus states so far
    truth,          \* history: what each counter should add up to
    lost            \* history: a batch, or a slot's sum, is lost for good

tracker == <<current, intervals, presence>>
vars == <<now, tracker, queue, slots, graphite, up, observed, truth, lost>>

Empty == << >>
Default == [locked |-> FALSE, idle |-> FALSE, workspace |-> None]
States == {s \in [locked : BOOLEAN, idle : BOOLEAN, workspace : Workspaces \cup {None}] :
                s.locked => s.workspace = None}
Dimensions == {"workspace", "project", "activity"}
ProjectIn(s) == IF s.workspace = None THEN None ELSE WorkspaceProject[s.workspace]

(* The series of a dimension's time in a state, or None.                   *)
Series(d, s) ==
    LET focus(v) == IF s.locked \/ v = None THEN None
                    ELSE [of |-> d, value |-> v, idle |-> s.idle]
    IN  CASE d = "workspace" -> focus(s.workspace)
          [] d = "project" -> focus(ProjectIn(s))
          [] d = "activity" -> [of |-> d, value |-> IF s.locked THEN "locked" ELSE "focus",
                                idle |-> ~s.locked /\ s.idle]
Switches(d) == [of |-> "switches", value |-> d, idle |-> FALSE]
Gauge(p) == [of |-> "state", value |-> p, idle |-> FALSE]
IsGauge(name) == name.of = "state"
IsTotal(name) == name.of = "activity" => name.value = "locked"

At(f, x) == IF x \in DOMAIN f THEN f[x] ELSE 0
Plus(f, g) == [x \in DOMAIN f \cup DOMAIN g |-> At(f, x) + At(g, x)]
One(x, n) == [y \in {x} |-> n]

Slot(t) == t \div SlotLength

Init ==
    /\ now = 0
    /\ current = Default /\ intervals = Empty /\ presence = FALSE
    /\ queue = <<>> /\ slots = [slot |-> None, totals |-> Empty] /\ graphite = Empty
    /\ up = TRUE /\ observed = 0 /\ truth = Empty /\ lost = FALSE

Counted(s) == {name \in {Series(d, s) : d \in DOMAIN intervals} : name # None /\ IsTotal(name)}

Tick ==
    /\ now < MaxTime /\ now' = now + 1
    /\ truth' = Plus(truth, [name \in Counted(current) |-> 1])
    /\ UNCHANGED <<tracker, queue, slots, graphite, up, observed, lost>>

-----------------------------------------------------------------------------
(* Tracker::observe.                                                       *)

(* The project's timer is ended by a change of workspace as well.          *)
Ended(d, s) ==
    /\ d \in DOMAIN intervals
    /\ \/ intervals[d].name # Series(d, s)
       \/ d = "project" /\ s.workspace # current.workspace

Durations(dims) ==
    LET names == {intervals[d].name : d \in dims}
        passed(name) == now - (CHOOSE i \in {intervals[d] : d \in dims} : i.name = name).started
    IN  [name \in {n \in names : passed(n) > 0 /\ IsTotal(n)} |-> passed(name)]

Known(d, s) == (IF d = "workspace" THEN s.workspace ELSE ProjectIn(s)) # None
Switched(s) ==
    {Switches(d) : d \in {d \in {"workspace", "project"} :
        /\ ~current.locked /\ ~s.locked
        /\ current.workspace # s.workspace
        /\ Known(d, current) /\ Known(d, s)}}

(* observe_focus_states: presence of the project, 2 when idle.             *)
Presence(s, p) == IF s.locked \/ ProjectIn(s) # p THEN 0 ELSE IF s.idle THEN 2 ELSE 1
Gauges(s) ==
    LET seen(x) == IF x.locked THEN None ELSE ProjectIn(x)
        of == {seen(current), seen(s)} \ {None}
    IN  IF seen(current) = seen(s) /\ current.idle = s.idle THEN Empty
        ELSE [name \in {Gauge(p) : p \in of} |-> Presence(s, name.value)]
NoProject(s) ==
    LET none(x) == x.locked \/ ProjectIn(x) = None
    IN  IF presence /\ none(current) = none(s) THEN Empty
        ELSE One(Gauge(None), IF none(s) THEN 1 ELSE 0)

Pending(s, ended) ==
    Plus(Plus(Durations(ended), [name \in Switched(s) |-> 1]), Plus(Gauges(s), NoProject(s)))

(* A full queue drops the batch.                                           *)
Publish(pending) ==
    IF pending = Empty THEN UNCHANGED <<queue, lost>>
    ELSE IF Len(queue) < MaxQueue
    THEN queue' = Append(queue, [at |-> now, points |-> pending]) /\ UNCHANGED lost
    ELSE lost' = TRUE /\ UNCHANGED queue

Observe(s) ==
    /\ up /\ observed < MaxStates /\ observed' = observed + 1
    /\ s # current
    /\ LET ended == {d \in Dimensions : Ended(d, s)}
           running == {d \in Dimensions : Series(d, s) # None}
       IN  /\ Publish(Pending(s, ended))
           /\ intervals' = [d \in running |->
                IF d \in DOMAIN intervals \ ended THEN intervals[d]
                ELSE [name |-> Series(d, s), started |-> now]]
    /\ truth' = Plus(truth, [name \in Switched(s) |-> 1])
    /\ current' = s /\ presence' = TRUE
    /\ UNCHANGED <<now, slots, graphite, up>>

-----------------------------------------------------------------------------
(* The thread.  An event's points are summed with the slot's before they   *)
(* are sent, so a batch that could not be sent is made good by the next    *)
(* one of its series and slot.                                             *)

Summed(batch) ==
    LET before == IF slots.slot = Slot(batch.at) THEN slots.totals ELSE Empty
    IN  [name \in DOMAIN before \cup DOMAIN batch.points |->
            IF IsGauge(name) THEN At(IF name \in DOMAIN batch.points THEN batch.points ELSE before,
                                     name)
            ELSE At(before, name) + At(batch.points, name)]

Push(sent) ==
    /\ queue # <<>>
    /\ LET batch == Head(queue)
           slot == Slot(batch.at)
           totals == Summed(batch)
           keys == {<<name, slot>> : name \in DOMAIN batch.points}
       IN  /\ slots' = [slot |-> slot, totals |-> totals]
           /\ graphite' = IF sent THEN [k \in DOMAIN graphite \cup keys |->
                                          IF k \in keys THEN totals[k[1]] ELSE graphite[k]]
                          ELSE graphite
    /\ queue' = Tail(queue)
    /\ lost' = (lost \/ ~sent)
    /\ UNCHANGED <<now, tracker, up, observed, truth>>

-----------------------------------------------------------------------------
(* The end: finish and the last batch, the queue is sent before the        *)
(* process ends; but a domain that cannot save its state ends run() before *)
(* the batch is published.  A new process has empty sums.                  *)
Finish(saved) ==
    /\ up /\ up' = FALSE
    /\ LET ended == DOMAIN intervals
           locked == [Default EXCEPT !.locked = TRUE]
           pending == Plus(Durations(ended), Plus(Gauges(locked), NoProject(locked)))
       IN  IF saved THEN Publish(pending)
           ELSE lost' = (lost \/ pending # Empty) /\ UNCHANGED queue
    /\ current' = [Default EXCEPT !.locked = TRUE] /\ intervals' = Empty
    /\ UNCHANGED <<now, presence, slots, graphite, observed, truth>>

Restart ==
    /\ ~up /\ queue = <<>>
    /\ observed < MaxStates /\ observed' = observed + 1
    /\ up' = TRUE
    /\ current' = Default /\ intervals' = Empty /\ presence' = FALSE
    /\ slots' = [slot |-> None, totals |-> Empty]
    /\ lost' = (lost \/ \E k \in DOMAIN graphite : k[2] = Slot(now) /\ ~IsGauge(k[1]))
    /\ UNCHANGED <<now, queue, graphite, truth>>

Next ==
    \/ Tick
    \/ \E s \in States : Observe(s)
    \/ \E sent \in BOOLEAN : Push(sent)
    \/ \E saved \in BOOLEAN : Finish(saved)
    \/ Restart

Spec == Init /\ [][Next]_vars

-----------------------------------------------------------------------------
Projects == {WorkspaceProject[w] : w \in Workspaces}

(* Every variable has its type.                                            *)
TypeOK ==
    /\ now \in 0..MaxTime /\ current \in States /\ DOMAIN intervals \subseteq Dimensions
    /\ \A d \in DOMAIN intervals : intervals[d].started \in 0..now
    /\ Len(queue) <= MaxQueue /\ observed \in 0..MaxStates
    /\ presence \in BOOLEAN /\ up \in BOOLEAN /\ lost \in BOOLEAN

(* Every second of focus and of lock, and every switch, is in Graphite, on *)
(* its way there, or in a running timer, once and in the right series: sums *)
(* of one slot do not overwrite each other, a workspace switch inside one  *)
(* project loses nothing (README: "Long intervals are recorded in full"),  *)
(* as long as the queue is not full, Graphite answers, the last batch is   *)
(* published, and no new process meets a slot of the last one.             *)
Stored(name) ==
    FoldSet(LAMBDA k, n : n + graphite[k], 0,
            {k \in DOMAIN graphite : k[1] = name})
Queued(name) ==
    FoldSet(LAMBDA i, n : n + At(queue[i].points, name), 0, DOMAIN queue)
Running(name) ==
    FoldSet(LAMBDA d, n : n + now - intervals[d].started, 0,
            {d \in DOMAIN intervals : intervals[d].name = name})
TimeAccounted ==
    ~lost => \A name \in DOMAIN truth : Stored(name) + Queued(name) + Running(name) = truth[name]

(* The gauges in Graphite follow the focus: the last point of a project    *)
(* says whether it has the focus, idle or not, and that of "no project"    *)
(* whether none has, across locks, switches and restarts of steward.       *)
LastPoint(name) ==
    LET at == {k \in DOMAIN graphite : k[1] = name}
    IN  IF at = {} THEN 0 ELSE graphite[CHOOSE k \in at : \A l \in at : l[2] <= k[2]]
GaugesFollow ==
    queue = <<>> /\ ~lost /\ presence =>
        /\ \A p \in Projects \ {None} : LastPoint(Gauge(p)) = Presence(current, p)
        /\ LastPoint(Gauge(None)) = (IF current.locked \/ ProjectIn(current) = None THEN 1 ELSE 0)
=============================================================================
