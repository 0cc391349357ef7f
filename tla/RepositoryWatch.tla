--------------------------- MODULE RepositoryWatch ---------------------------
(***************************************************************************)
(* projd follows the repositories of its checkouts: the loop of watch.rs,  *)
(* which owns the file-system watcher and starts refreshes, the refreshes  *)
(* (refresh_checkout in main.rs), and the calls that register, refresh and *)
(* remove a project.                                                       *)
(*                                                                         *)
(* A repository's branch and status are one version number.  A checkout's  *)
(* row has the version last read, 0 for a row without a status; the bus    *)
(* object shows a version as well.  The mutation mutex is held from the    *)
(* row being written to the loop's answer, and for the commit of a         *)
(* refresh; the mutex of a root for a whole refresh.                       *)
(***************************************************************************)
EXTENDS RepositoryVersions, Sequences

CONSTANT MaxCalls       \* bound: calls of clients

Nobody == 0     \* no task
VARIABLES
    repo,       \* version of each repository
    shown,      \* version shown by the bus object, or None
    requests,   \* the channel to the loop
    holder,     \* the root whose registration holds the mutation mutex, if any
    directories,\* loop: roots whose git directory is watched
    notified,   \* roots with a file-system event on its way to the loop
    running,    \* loop
    dirty,      \* loop
    tasks,      \* refreshes: id -> root, phase, version read
    checkoutLock, \* checkout_mutations: the task that holds each root's mutex
    completed,  \* the channel of refreshes that ended
    calls,      \* calls so far
    owed        \* history: roots whose latest version the loop has a way to know

vars == <<repo, row, shown, requests, holder, directories, notified, running,
          dirty, tasks, checkoutLock, completed, calls, owed>>
loop == <<directories, running, dirty>>

Registered == {r \in Checkouts : row[r] # None}

-----------------------------------------------------------------------------
(* Start of the process: the rows of the last one, shown as they are and   *)
(* watched without a first refresh (main).                                 *)
Init ==
    /\ repo = [r \in Checkouts |-> 1]
    /\ row \in [Checkouts -> {None, 0, 1}]
    /\ shown = row
    /\ \E order \in [1..Cardinality(Registered) -> Registered] :
        /\ \A r \in Registered : \E i \in DOMAIN order : order[i] = r
        /\ requests = [i \in DOMAIN order |->
                        [do |-> "watch", root |-> order[i], initial |-> FALSE]]
    /\ holder = {} /\ directories = {} /\ notified = {} /\ running = {} /\ dirty = {}
    /\ tasks = << >> /\ checkoutLock = [r \in Checkouts |-> Nobody] /\ completed = <<>>
    /\ calls = 0 /\ owed = {}

(* The repository changes; the watcher tells the loop.                     *)
Change(r) ==
    /\ repo[r] < MaxVersion
    /\ repo' = [repo EXCEPT ![r] = @ + 1]
    /\ IF r \in directories
       THEN notified' = notified \cup {r} /\ owed' = owed \cup {r}
       ELSE notified' = notified /\ owed' = owed \ {r}
    /\ UNCHANGED <<row, shown, requests, holder, loop, tasks, checkoutLock, completed, calls>>

-----------------------------------------------------------------------------
(* Calls.  A task is a refresh of one root; the refresh of a client's call *)
(* is no business of the loop.                                             *)

Task(r, client) == [root |-> r, phase |-> "start", read |-> 0, client |-> client]
Free == (1..MaxTasks) \ DOMAIN tasks
Spawned(r, client) ==
    LET new == CHOOSE t \in Free : TRUE
    IN  [t \in DOMAIN tasks \cup {new} |->
            IF t \in DOMAIN tasks THEN tasks[t] ELSE Task(r, client)]

Call == calls < MaxCalls /\ calls' = calls + 1

(* register_project: a new checkout has its first refresh when the loop    *)
(* watches it; a known one gets its branch, and the loop is told again.    *)
Register(r) ==
    /\ Call
    /\ holder = {}
    /\ holder' = {r}
    /\ row' = [row EXCEPT ![r] = IF @ = None THEN 0 ELSE @]
    /\ shown' = [shown EXCEPT ![r] = row'[r]]
    /\ requests' = Append(requests, [do |-> "watch", root |-> r, initial |-> (row[r] = None)])
    /\ UNCHANGED <<repo, loop, notified, tasks, checkoutLock, completed, owed>>

\* Slip: the watch is left.
RemoveProjectOnly(r) ==
    /\ Call
    /\ holder = {}
    /\ row[r] # None
    /\ row' = [row EXCEPT ![r] = None]
    /\ shown' = [shown EXCEPT ![r] = None]
    /\ owed' = owed \ {r}
    /\ UNCHANGED <<repo, requests, holder, loop, notified, tasks, checkoutLock, completed>>

(* remove_project: the row, then the watch, then the object.               *)
RemoveProject(r) ==
    /\ Call
    /\ holder = {}
    /\ row[r] # None
    /\ row' = [row EXCEPT ![r] = None]
    /\ shown' = [shown EXCEPT ![r] = None]
    /\ requests' = Append(requests, [do |-> "unwatch", root |-> r, initial |-> FALSE])
    /\ owed' = owed \ {r}
    /\ UNCHANGED <<repo, holder, loop, notified, tasks, checkoutLock, completed>>

(* refresh: of a known project, after its registration is brought up to    *)
(* date; it does not wait for the loop's refreshes.                        *)
Refresh(r) ==
    /\ Call
    /\ holder = {} /\ Free # {}
    /\ row[r] # None
    /\ tasks' = Spawned(r, TRUE)
    /\ UNCHANGED <<repo, row, shown, requests, holder, loop, notified, checkoutLock,
                   completed, owed>>

-----------------------------------------------------------------------------
(* The loop.                                                               *)

\* Slip: an event during a refresh is left to that refresh.
StartOnce(r) ==
    IF r \in running THEN UNCHANGED <<running, dirty, tasks>>
    ELSE /\ Free # {}
         /\ running' = running \cup {r} /\ tasks' = Spawned(r, FALSE)
         /\ UNCHANGED dirty

Start(r) ==
    IF r \in running
    THEN dirty' = dirty \cup {r} /\ UNCHANGED <<running, tasks>>
    ELSE /\ Free # {}
         /\ running' = running \cup {r} /\ tasks' = Spawned(r, FALSE)
         /\ UNCHANGED dirty

HandleWatch ==
    /\ requests # <<>> /\ Head(requests).do = "watch"
    /\ requests' = Tail(requests)
    /\ LET r == Head(requests).root
       IN  /\ directories' = directories \cup {r}
           /\ holder' = holder \ {r}                 \* ready
           /\ IF Head(requests).initial
              THEN Start(r) /\ owed' = owed \cup {r}
              ELSE UNCHANGED <<running, dirty, tasks, owed>>
    /\ UNCHANGED <<repo, row, shown, notified, checkoutLock, completed, calls>>

HandleUnwatch ==
    /\ requests # <<>> /\ Head(requests).do = "unwatch"
    /\ requests' = Tail(requests)
    /\ LET r == Head(requests).root
       IN  /\ directories' = directories \ {r}
           /\ running' = running \ {r} /\ dirty' = dirty \ {r}
    /\ UNCHANGED <<repo, row, shown, holder, notified, tasks, checkoutLock, completed,
                   calls, owed>>

HandleEvent(r) ==
    /\ r \in notified
    /\ notified' = notified \ {r}
    /\ IF r \in directories THEN Start(r) ELSE UNCHANGED <<running, dirty, tasks>>
    /\ UNCHANGED <<repo, row, shown, requests, holder, directories, checkoutLock,
                   completed, calls, owed>>

HandleCompleted ==
    /\ completed # <<>>
    /\ completed' = Tail(completed)
    /\ LET r == Head(completed)
       IN  IF r \in dirty
           THEN /\ Free # {}
                /\ dirty' = dirty \ {r} /\ running' = running \cup {r}
                /\ tasks' = Spawned(r, FALSE)
           ELSE running' = running \ {r} /\ UNCHANGED <<dirty, tasks>>
    /\ UNCHANGED <<repo, row, shown, requests, holder, directories, notified,
                   checkoutLock, calls, owed>>

-----------------------------------------------------------------------------
(* refresh_checkout.                                                       *)

At(t, phase) == t \in DOMAIN tasks /\ tasks[t].phase = phase
Goto(t, phase) == tasks' = [tasks EXCEPT ![t].phase = phase]
Done(t) ==
    /\ tasks' = [u \in DOMAIN tasks \ {t} |-> tasks[u]]
    /\ completed' = IF tasks[t].client THEN completed ELSE Append(completed, tasks[t].root)

Skip(t) ==
    /\ At(t, "start") /\ row[tasks[t].root] = None
    /\ Done(t)
    /\ UNCHANGED <<repo, row, shown, requests, holder, loop, notified, checkoutLock,
                   calls, owed>>

\* Slip: the checkout's mutex is not waited for.
LockHeedless(t) ==
    /\ At(t, "start") /\ row[tasks[t].root] # None
    /\ checkoutLock' = [checkoutLock EXCEPT ![tasks[t].root] = t]
    /\ Goto(t, "snapshot")
    /\ UNCHANGED <<repo, row, shown, requests, holder, loop, notified, completed, calls, owed>>

Lock(t) ==
    /\ \/ At(t, "start") /\ row[tasks[t].root] # None
       \/ At(t, "lock")
    /\ IF checkoutLock[tasks[t].root] = Nobody
       THEN /\ checkoutLock' = [checkoutLock EXCEPT ![tasks[t].root] = t]
            /\ Goto(t, "snapshot")
       ELSE At(t, "start") /\ Goto(t, "lock") /\ UNCHANGED checkoutLock
    /\ UNCHANGED <<repo, row, shown, requests, holder, loop, notified, completed, calls, owed>>

Snapshot(t) ==
    /\ At(t, "snapshot")
    /\ tasks' = [tasks EXCEPT ![t].phase = "commit", ![t].read = repo[tasks[t].root]]
    /\ UNCHANGED <<repo, row, shown, requests, holder, loop, notified, checkoutLock,
                   completed, calls, owed>>

Commit(t) ==
    /\ At(t, "commit")
    /\ holder = {}
    /\ LET r == tasks[t].root
       IN  /\ IF row[r] = None THEN UNCHANGED <<row, shown>>
              ELSE /\ row' = [row EXCEPT ![r] = tasks[t].read]
                   /\ shown' = [shown EXCEPT ![r] = tasks[t].read]
           /\ checkoutLock' = [checkoutLock EXCEPT ![r] = Nobody]
    /\ Done(t)
    /\ UNCHANGED <<repo, requests, holder, loop, notified, calls, owed>>

Handle == HandleWatch \/ HandleUnwatch \/ HandleCompleted
Work(t) == Skip(t) \/ Lock(t) \/ Snapshot(t) \/ Commit(t)

Next ==
    \/ \E r \in Checkouts :
        Change(r) \/ Register(r) \/ RemoveProject(r) \/ Refresh(r) \/ HandleEvent(r)
    \/ HandleWatch \/ HandleUnwatch \/ HandleCompleted
    \/ \E t \in 1..MaxTasks : Skip(t) \/ Lock(t) \/ Snapshot(t) \/ Commit(t)

Spec == Init /\ [][Next]_vars

(* tokio's select polls its branches in a random order, and its tasks and  *)
(* mutexes starve nobody.                                                  *)
Fairness ==
    /\ WF_vars(Handle)
    /\ \A r \in Checkouts : WF_vars(HandleEvent(r))
    /\ \A t \in 1..MaxTasks : WF_vars(Work(t))
FairSpec == Spec /\ Fairness

-----------------------------------------------------------------------------
(* Every variable has its type.                                            *)
TypeOK ==
    /\ repo \in [Checkouts -> 1..MaxVersion]
    /\ row \in [Checkouts -> None..MaxVersion]
    /\ shown \in [Checkouts -> None..MaxVersion]
    /\ \A i \in DOMAIN requests : requests[i].root \in Checkouts
    /\ holder \subseteq Checkouts
    /\ directories \subseteq Checkouts /\ notified \subseteq Checkouts
    /\ running \subseteq Checkouts /\ dirty \subseteq Checkouts /\ owed \subseteq Checkouts
    /\ DOMAIN tasks \subseteq 1..MaxTasks
    /\ \A t \in DOMAIN tasks : tasks[t].root \in Checkouts
                               /\ tasks[t].phase \in {"start", "lock", "snapshot", "commit"}
    /\ checkoutLock \in [Checkouts -> Nobody..MaxTasks]
    /\ calls \in Nat

(* When the loop has nothing to read, it watches the registered checkouts  *)
(* and no other; a removal leaves no watch behind (watch.rs, projects.rs). *)
WatchesRegistered == requests = <<>> => directories = Registered

(* A checkout that stays registered shows the repository's last version in *)
(* the end, if that version came about while it was watched or before its  *)
(* first refresh (watch.rs, running and dirty).                            *)
StatusCatchesUp ==
    \A r \in Checkouts :
        <>[](row[r] # None /\ r \in owed) =>
            <>[](row[r] = repo[r] /\ shown[r] = repo[r])
=============================================================================
