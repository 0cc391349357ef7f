----------------------------- MODULE ShareReplay -----------------------------
(***************************************************************************)
(* The shell's shared sources (shell-source support.rs): a hub subscribes  *)
(* once to a source that many widgets show, replays the latest value to    *)
(* late subscribers and reconnects when the source fails.                  *)
(*                                                                         *)
(* The hub's state is behind a mutex that is taken several times in one    *)
(* call; subscribers are threads, and every upstream connection is a task  *)
(* (from_stream_result) that runs beside them.  A connection reads the     *)
(* source when it starts and after each change.  Aborting a task, and      *)
(* dropping its subscription, takes effect where it waits: one that has    *)
(* its value in hand still delivers it.  The hub's version, which counts   *)
(* the broadcasts, is kept as what it tells a replay: whether there has    *)
(* been one since.                                                         *)
(***************************************************************************)
EXTENDS Naturals, FiniteSets

CONSTANTS
    Subscribers,    \* each subscribes once
    MaxRestarts,    \* MAX_UPSTREAM_RESTARTS
    MaxVersion,     \* bound: values of the source
    MaxFaults       \* bound: failures and ends of connections

Empty == 0

VARIABLES
    source,         \* the version the source shows
    faults,         \* failures and ends so far
    latest,         \* hub: the value replayed to late subscribers, or Empty
    observers,      \* hub: subscribers that are registered
    connecting,     \* hub: a thread is creating the connection
    connection,     \* hub: the stored connection, or Empty
    restarts,       \* hub: consecutive failures without a value
    thread,         \* each subscriber's call in hand
    shown,          \* the last value each subscriber was given
    tasks,          \* connections made, in order
    late,           \* history: a connection delivered after a newer one was made
    spent           \* history: a connection was stored that gives no more value

hub == <<latest, observers, connecting, connection, restarts>>
vars == <<source, faults, hub, thread, shown, tasks, late, spent>>

Connections == DOMAIN tasks
NewTask == [at |-> "run", got |-> Empty, read |-> Empty, aborted |-> FALSE, made |-> Empty]
Delivered(c) == tasks[c].at \notin {"value", "next"} /\ tasks[c].read # Empty
Spent(c) ==         \* it has ended, or nobody holds the value it has delivered
    \/ tasks[c].at \in {"ended", "restart", "reconnect", "restore"}
    \/ Delivered(c) /\ latest = Empty
Aborting(c, all) == IF c = Empty THEN all ELSE [all EXCEPT ![c].aborted = TRUE]
Goto(c, at) == [tasks EXCEPT ![c].at = at]
End(c) == [tasks EXCEPT ![c] = [NewTask EXCEPT !.at = "ended"]]
Superseded(c) == \E d \in Connections : d > c

Init ==
    /\ source = 1 /\ faults = 0
    /\ latest = Empty /\ observers = {}
    /\ connecting = FALSE /\ connection = Empty /\ restarts = 0
    /\ thread = [s \in Subscribers |-> [at |-> "new"]]
    /\ shown = [s \in Subscribers |-> Empty]
    /\ tasks = << >> /\ late = FALSE /\ spent = FALSE

Change ==
    /\ source < MaxVersion /\ source' = source + 1
    /\ UNCHANGED <<faults, hub, thread, shown, tasks, late, spent>>

-----------------------------------------------------------------------------
(* A subscriber.  subscribe() locks to register, to replay, and to store   *)
(* the connection; the connection is created between locks.                *)

Advance(s, step) == thread' = [thread EXCEPT ![s] = step]

Subscribe(s) ==
    /\ thread[s].at = "new"
    /\ observers' = observers \cup {s}
    /\ LET connect == connection = Empty /\ ~connecting
       IN  /\ connecting' = (connecting \/ connect)
           /\ Advance(s, IF latest # Empty
                         THEN [at |-> "replay", latest |-> latest, current |-> TRUE,
                               connect |-> connect]
                         ELSE [at |-> IF connect THEN "connect" ELSE "on"])
    /\ UNCHANGED <<source, faults, latest, connection, restarts, shown, tasks,
                   late, spent>>

\* Slip: the version is not compared.
ReplayAlways(s) ==
    /\ thread[s].at = "replay"
    /\ shown' = IF s \in observers THEN [shown EXCEPT ![s] = thread[s].latest] ELSE shown
    /\ Advance(s, [at |-> IF thread[s].connect THEN "connect" ELSE "on"])
    /\ UNCHANGED <<source, faults, hub, tasks, late, spent>>

Replay(s) ==
    /\ thread[s].at = "replay"
    /\ shown' = IF thread[s].current /\ s \in observers
                THEN [shown EXCEPT ![s] = thread[s].latest] ELSE shown
    /\ Advance(s, [at |-> IF thread[s].connect THEN "connect" ELSE "on"])
    /\ UNCHANGED <<source, faults, hub, tasks, late, spent>>

Connect(s) ==
    /\ thread[s].at = "connect"
    /\ tasks' = [c \in 1..(Cardinality(Connections) + 1) |->
                    IF c \in Connections THEN tasks[c] ELSE NewTask]
    /\ Advance(s, [at |-> "store", made |-> Cardinality(Connections) + 1])
    /\ UNCHANGED <<source, faults, hub, shown, late, spent>>

(* The connection that was stored before is dropped.                       *)
Store(c, all) ==
    /\ connecting' = FALSE
    /\ IF observers = {}
       THEN tasks' = Aborting(c, all) /\ UNCHANGED <<connection, spent>>
       ELSE /\ tasks' = Aborting(connection, all)
            /\ connection' = c
            /\ spent' = (spent \/ Spent(c))
    /\ UNCHANGED <<source, faults, latest, observers, restarts, shown, late>>

StoreConnection(s) ==
    /\ thread[s].at = "store"
    /\ Store(thread[s].made, tasks)
    /\ Advance(s, [at |-> "on"])

(* unsubscribe_inner: the last one takes the connection and ends it after  *)
(* the lock is released.                                                   *)
Unsubscribe(s) ==
    /\ thread[s].at = "on"
    /\ observers' = observers \ {s}
    /\ IF observers' = {}
       THEN /\ latest' = Empty /\ connection' = Empty
            /\ Advance(s, [at |-> "disconnect", taken |-> connection])
       ELSE UNCHANGED <<latest, connection>> /\ Advance(s, [at |-> "off"])
    /\ UNCHANGED <<source, faults, connecting, restarts, shown, tasks, late, spent>>

Disconnect(s) ==
    /\ thread[s].at = "disconnect"
    /\ tasks' = Aborting(thread[s].taken, tasks)
    /\ Advance(s, [at |-> "off"])
    /\ UNCHANGED <<source, faults, hub, shown, late, spent>>

-----------------------------------------------------------------------------
(* A connection's task.                                                    *)

Fetch(c) ==
    /\ tasks[c].at = "run" /\ ~tasks[c].aborted
    /\ tasks[c].read # source
    /\ tasks' = [tasks EXCEPT ![c].at = "value", ![c].got = source, ![c].read = source]
    /\ UNCHANGED <<source, faults, hub, thread, shown, late, spent>>

Fault(c, how) ==
    /\ tasks[c].at = "run" /\ ~tasks[c].aborted
    /\ faults < MaxFaults /\ faults' = faults + 1
    /\ tasks' = Goto(c, how)
    /\ UNCHANGED <<source, hub, thread, shown, late, spent>>

(* Every result is preceded by a look whether anybody listens.             *)
Look(c) ==
    /\ tasks[c].at \in {"value", "error"}
    /\ tasks' = IF observers = {} THEN End(c)
                ELSE Goto(c, IF tasks[c].at = "value" THEN "next" ELSE "fail")
    /\ UNCHANGED <<source, faults, hub, thread, shown, late, spent>>

BroadcastNext(c) ==
    /\ tasks[c].at = "next"
    /\ restarts' = 0 /\ latest' = tasks[c].got
    /\ shown' = [s \in Subscribers |-> IF s \in observers THEN tasks[c].got ELSE shown[s]]
    /\ thread' = [s \in Subscribers |->
                    IF thread[s].at = "replay" THEN [thread[s] EXCEPT !.current = FALSE]
                    ELSE thread[s]]
    /\ tasks' = Goto(c, "run")
    /\ late' = (late \/ Superseded(c))
    /\ UNCHANGED <<source, faults, observers, connecting, connection, spent>>

(* reset_connection, and nobody is left.                                   *)
Release(c) ==
    /\ latest' = Empty /\ connecting' = FALSE /\ connection' = Empty
    /\ observers' = {}
    /\ tasks' = Aborting(connection, End(c))
    /\ late' = (late \/ Superseded(c))
    /\ UNCHANGED <<source, faults, restarts, thread, shown, spent>>

BroadcastComplete(c) == tasks[c].at = "end" /\ Release(c)

NoteUpstreamError(c) ==
    /\ tasks[c].at = "fail"
    /\ IF restarts < MaxRestarts
       THEN /\ restarts' = restarts + 1
            /\ connecting' = FALSE /\ connection' = Empty
            /\ tasks' = Aborting(connection, Goto(c, "restart"))
       ELSE tasks' = Goto(c, "terminate") /\ UNCHANGED <<restarts, connecting, connection>>
    /\ late' = (late \/ Superseded(c))
    /\ UNCHANGED <<source, faults, latest, observers, thread, shown, spent>>

TerminateObservers(c) == tasks[c].at = "terminate" /\ Release(c)

(* restart_upstream, in the thread of the connection that failed.          *)
RestartUpstream(c) ==
    /\ tasks[c].at = "restart"
    /\ IF observers = {} \/ connection # Empty
       THEN tasks' = End(c) /\ UNCHANGED connecting
       ELSE tasks' = Goto(c, "reconnect") /\ connecting' = TRUE
    /\ UNCHANGED <<source, faults, latest, observers, connection, restarts,
                   thread, shown, late, spent>>

Reconnect(c) ==
    /\ tasks[c].at = "reconnect"
    /\ LET n == Cardinality(Connections) + 1
       IN  tasks' = [d \in 1..n |-> IF d = n THEN NewTask
                                    ELSE IF d = c THEN [tasks[c] EXCEPT !.at = "restore",
                                                                        !.made = n]
                                    ELSE tasks[d]]
    /\ UNCHANGED <<source, faults, hub, thread, shown, late, spent>>

Restore(c) ==
    /\ tasks[c].at = "restore"
    /\ Store(tasks[c].made, End(c))
    /\ UNCHANGED thread

Task(c) ==
    \/ Fetch(c) \/ Look(c) \/ BroadcastNext(c) \/ BroadcastComplete(c)
    \/ NoteUpstreamError(c) \/ TerminateObservers(c)
    \/ RestartUpstream(c) \/ Reconnect(c) \/ Restore(c)
Thread(s) == Replay(s) \/ Connect(s) \/ StoreConnection(s) \/ Disconnect(s)

Next ==
    \/ Change
    \/ \E s \in Subscribers : Subscribe(s) \/ Unsubscribe(s) \/ Thread(s)
    \/ \E c \in Connections : Task(c) \/ (\E how \in {"error", "end"} : Fault(c, how))

Spec == Init /\ [][Next]_vars

-----------------------------------------------------------------------------
(* Every variable has its type, and the stored connection exists.          *)
TypeOK ==
    /\ source \in 1..MaxVersion /\ latest \in 0..source
    /\ observers \subseteq Subscribers /\ connecting \in BOOLEAN
    /\ connection \in Connections \cup {Empty} /\ restarts \in 0..MaxRestarts
    /\ \A s \in Subscribers : shown[s] \in 0..source
    /\ \A c \in Connections : tasks[c].got \in 0..source /\ tasks[c].aborted \in BOOLEAN

Resting(c) == tasks[c].at = "ended" \/ (tasks[c].at = "run" /\ tasks[c].aborted)
Live(c) == tasks[c].at = "run" /\ ~tasks[c].aborted
Quiet ==
    /\ \A s \in Subscribers : thread[s].at \in {"new", "on", "off"}
    /\ \A c \in Connections : Resting(c) \/ (Live(c) /\ tasks[c].read = source)

(* When every thread and task rests, every subscriber shows the source's   *)
(* value, whenever it came, whatever failed, and however the locks were    *)
(* taken in between; but for a connection that delivered when a newer one  *)
(* had been made, and one that was stored when it had nothing more to give. *)
SubscribersUpToDate ==
    Quiet /\ ~late /\ ~spent => \A s \in observers : shown[s] = source

(* At rest the hub has no connection but the stored one, and none when     *)
(* nobody listens: none is leaked, however subscriptions, failures and     *)
(* ends overlap (restart_upstream: "at most one upstream connection").     *)
NoStrayConnection ==
    Quiet => \A c \in Connections : Live(c) => c = connection /\ observers # {}
=============================================================================
