-------------------------- MODULE WorkspaceLifecycle --------------------------
(***************************************************************************)
(* Steward's workspace lifecycle: the cleanup task that expires and stamps *)
(* the locus records of workspaces (associations/workspace_cleanup.rs),    *)
(* the call that binds a workspace to a project (associations.rs), and     *)
(* what they share: the binding lock, the records and the source.          *)
(*                                                                         *)
(* The source is workspace-dbus as its bus objects show it: inventories    *)
(* published in stages, generations, restarts under a new owner.  It keeps *)
(* the promise of LiveIdentities, one owner at a time.  A pass reads it in *)
(* three requests and edits the records one request at a time; the source  *)
(* and the namer, which takes no lock, move between any two of them.       *)
(*                                                                         *)
(* Signals wait in a set: two equal signals are served by one pass.        *)
(***************************************************************************)
EXTENDS Naturals, FiniteSets

CONSTANTS
    Workspaces,     \* workspace ids
    Targets,        \* projects and names
    Unstamped,      \* the absent owner/generation annotation
    MaxOwner,       \* bound: lives of the workspace-dbus service
    MaxMoves,       \* bound: publications of the source
    MaxWrites,      \* bound: bind calls and names written
    MaxRestarts     \* bound: restarts of steward

VARIABLES
    source,     \* what the source says: owner, generation, connected, ids
    present,    \* the source owns its bus name
    objects,    \* workspace objects registered with the object manager
    staging,    \* where the source's publication is: "no", "register", "unregister"
    spent,      \* ids the source has used in this generation
    records,    \* the locus records whose subject is a workspace
    lock,       \* BIND_LOCK: "free", or who holds it, "cleanup" or "bind"
    step,       \* the holder's next request
    pass,       \* the pass in hand: first root read, snapshot, records to edit
    call,       \* the bind call in hand: workspace, project, which synchronize
    awake,      \* the cleanup task wants a pass
    tracker,    \* the cleanup task's baseline: epoch and known ids
    pending,    \* signals the cleanup task has not looked at
    moves, writes, restarts

vars == <<source, present, objects, staging, spent, records, lock, step, pass, call,
          awake, tracker, pending, moves, writes, restarts>>
bus == <<source, present, objects, staging, spent, moves>>
holder == <<lock, step, pass, call>>
task == <<awake, tracker>>

Epoch(s) == [owner |-> s.owner, generation |-> s.generation]

Epochs == [owner : Nat, generation : Nat]
ASSUME UnstampedAssumption == Unstamped \notin Epochs

\* No owner on the bus: the default snapshot, also the source before its first.
Nothing == [owner |-> 0, generation |-> 0, connected |-> FALSE, ids |-> {}]

NoPass == [before |-> Nothing, snap |-> Nothing, todo |-> {}]
NoCall == [ws |-> {}, target |-> {}, round |-> 0]
NoTracker == [epoch |-> Unstamped, known |-> {}]

-----------------------------------------------------------------------------
(* Records.  made is history: the epoch in which the record was written    *)
(* for its workspace.                                                      *)

At(R, w, r, t) == {x \in R : x.ws = w /\ x.relation = r /\ x.target = t}

\* set: the record of that key is replaced, or a new one added.
SetIn(R, x) ==
    LET old == At(R, x.ws, x.relation, x.target)
    IN  (R \ old) \cup {[x EXCEPT !.made = IF old = {} THEN x.made
                                          ELSE (CHOOSE y \in old : TRUE).made]}

\* Slip: set where set_one was meant.
SetBesides(R, x) == (R \ At(R, x.ws, x.relation, x.target)) \cup {x}

\* set_one: the workspace's other targets for the relation go.
SetOneIn(R, x) ==
    {y \in R : y.ws # x.ws \/ y.relation # x.relation} \cup {x}

\* Slip: objects that go are taken to be announced by the manager's properties.
NoticedArrivals(kind) ==
    IF kind \in {"properties", "added", "owner"} THEN {[from |-> "source"]} ELSE {}

\* source_changed and the owner filter: the manager's properties, workspace
\* objects added or removed, and the owner of the bus name call for a pass.
Noticed(kind) ==
    IF kind \in {"properties", "added", "removed", "owner"}
    THEN {[from |-> "source"]} ELSE {}

\* The signals of the records that changed carry workspace and stamp.
Signals == {[from |-> "locus", ws |-> x.ws, stamp |-> x.stamp] :
                x \in (records \ records') \cup (records' \ records)}

-----------------------------------------------------------------------------
(* The source.                                                             *)

SourceUp ==
    /\ ~present /\ source.owner < MaxOwner
    /\ present' = TRUE
    /\ source' = [Nothing EXCEPT !.owner = source.owner + 1]
    /\ pending' = pending \cup Noticed("owner")
    /\ UNCHANGED <<objects, spent, staging, records, holder, task, moves, writes, restarts>>

SourceDown ==
    /\ present
    /\ present' = FALSE
    /\ source' = [Nothing EXCEPT !.owner = source.owner]
    /\ objects' = {} /\ spent' = {} /\ staging' = "no"
    /\ pending' = pending \cup Noticed("owner")
    /\ UNCHANGED <<records, holder, task,
                   moves, writes, restarts>>

\* New workspaces are registered first.
Stage ==
    /\ present /\ staging = "no" /\ moves < MaxMoves
    /\ \E new \in SUBSET (Workspaces \ (IF source.connected THEN spent ELSE {})) :
        /\ objects' = objects \cup new
        /\ pending' = IF new = {} THEN pending ELSE pending \cup Noticed("added")
    /\ staging' = "register"
    /\ moves' = moves + 1
    /\ UNCHANGED <<source, present, spent, records, holder, task, writes, restarts>>

\* Then the inventory names them, and no longer the departed ones.
Publish ==
    /\ present /\ staging = "register"
    /\ \E L \in SUBSET objects :
        /\ objects \ source.ids \subseteq L
        /\ source' = [source EXCEPT
                        !.ids = L, !.connected = TRUE,
                        !.generation = IF source.connected THEN @ ELSE @ + 1]
        /\ spent' = IF source.connected THEN spent \cup L ELSE L
    /\ staging' = "unregister"
    /\ pending' = pending \cup Noticed("properties")
    /\ UNCHANGED <<present, objects, records, holder, task, moves, writes, restarts>>

\* The compositor is lost: an empty inventory of the next generation.
Reset ==
    /\ present /\ staging = "no" /\ source.connected /\ moves < MaxMoves
    /\ source' = [source EXCEPT !.ids = {}, !.connected = FALSE, !.generation = @ + 1]
    /\ spent' = {}
    /\ staging' = "unregister"
    /\ moves' = moves + 1
    /\ pending' = pending \cup Noticed("properties")
    /\ UNCHANGED <<present, objects, records, holder, task, writes, restarts>>

\* Departed objects are unregistered last.
Retire ==
    /\ present /\ staging = "unregister"
    /\ objects' = source.ids
    /\ staging' = "no"
    /\ pending' = IF objects' = objects THEN pending ELSE pending \cup Noticed("removed")
    /\ UNCHANGED <<source, present, spent, records, holder, task, moves, writes, restarts>>

-----------------------------------------------------------------------------
(* snapshot(): the root's properties, the managed objects, and the root    *)
(* again, all asked of one bus owner.                                      *)

Release ==
    /\ lock' = "free" /\ step' = "idle"
    /\ pass' = NoPass /\ call' = NoCall

\* The snapshot is taken.  A bind fails unless the source is connected.
Take(snap) ==
    IF lock = "bind" /\ ~snap.connected
    THEN Release
    ELSE /\ pass' = [NoPass EXCEPT !.snap = snap]
         /\ step' = "list"
         /\ UNCHANGED <<lock, call>>

\* The reads disagree.  The cleanup task gives up the lock and awaits the
\* signal of the change; a bind reads again while it holds the lock.
Disturbed ==
    IF lock = "cleanup"
    THEN Release
    ELSE /\ step' = "root" /\ pass' = NoPass
         /\ UNCHANGED <<lock, call>>

ReadRoot ==
    /\ step = "root"
    /\ \/ /\ ~present
          /\ Take(Nothing)
       \/ /\ present /\ ~source.connected
          /\ Take(source)
       \/ /\ present /\ source.connected
          /\ pass' = [pass EXCEPT !.before = source]
          /\ step' = "objects"
          /\ UNCHANGED <<lock, call>>
    /\ UNCHANGED <<bus, records, task, pending, writes, restarts>>

SameOwner == present /\ source.owner = pass.before.owner

ReadObjects ==
    /\ step = "objects"
    /\ IF SameOwner /\ objects = pass.before.ids
       THEN step' = "again" /\ UNCHANGED <<lock, pass, call>>
       ELSE Disturbed
    /\ UNCHANGED <<bus, records, task, pending, writes, restarts>>

ReadAgain ==
    /\ step = "again"
    /\ \/ /\ SameOwner /\ source = pass.before
          /\ Take(pass.before)
       \/ /\ ~(SameOwner /\ source = pass.before)
          /\ Disturbed
       \/ /\ ~present           \* lost after the second root read
          /\ Take(Nothing)
    /\ UNCHANGED <<bus, records, task, pending, writes, restarts>>

-----------------------------------------------------------------------------
(* reconcile(): one listing, then one request per record to edit.          *)

\* A bind's synchronize starts from no baseline.
Baseline == IF lock = "cleanup" THEN tracker ELSE NoTracker

\* Reconciler::expired, for one listed record.
LegacyExpired(x, snap) ==
    /\ snap.connected \/ Baseline.epoch # Unstamped
    /\ \/ ~snap.connected
       \/ Baseline.epoch \notin {Unstamped, Epoch(snap)}
       \/ x.ws \notin snap.ids

\* Slip: a stamp is held against the baseline instead of the snapshot.
ExpiredByBaseline(x, snap) ==
    \/ /\ x.stamp = Unstamped
       /\ LegacyExpired(x, snap)
    \/ /\ x.stamp # Unstamped
       /\ snap.connected
       /\ x.ws \notin snap.ids \/ x.stamp # Baseline.epoch
    \/ /\ x.stamp # Unstamped
       /\ ~snap.connected
       /\ Baseline.epoch # Unstamped

Expired(x, snap) ==
    \/ /\ x.stamp = Unstamped
       /\ LegacyExpired(x, snap)
    \/ /\ x.stamp # Unstamped
       /\ snap.connected
       /\ x.ws \notin snap.ids \/ x.stamp # Epoch(snap)
    \/ /\ x.stamp # Unstamped
       /\ ~snap.connected
       /\ Baseline.epoch # Unstamped

Unmarked(x, snap) ==
    /\ ~Expired(x, snap)
    /\ snap.connected /\ x.ws \in snap.ids
    /\ x.stamp # Epoch(snap)

List ==
    /\ step = "list"
    /\ pass' = [pass EXCEPT !.todo =
                    {x \in records : Expired(x, pass.snap) \/ Unmarked(x, pass.snap)}]
    /\ step' = "apply"
    /\ UNCHANGED <<bus, records, lock, call, task, pending, writes, restarts>>

\* A record as it was listed is unset, or set again with the snapshot's stamp.
Apply ==
    /\ step = "apply"
    /\ \E x \in pass.todo :
        /\ records' = IF Expired(x, pass.snap)
                      THEN records \ At(records, x.ws, x.relation, x.target)
                      ELSE SetIn(records, [x EXCEPT !.stamp = Epoch(pass.snap)])
        /\ pass' = [pass EXCEPT !.todo = @ \ {x}]
    /\ pending' = pending \cup Signals
    /\ UNCHANGED <<bus, lock, step, call, task, writes, restarts>>

\* Slip: the baseline advances with the edits still to come.
FinishEarly ==
    /\ lock = "cleanup" /\ step = "apply"
    /\ tracker' = IF pass.snap.connected
                  THEN [epoch |-> Epoch(pass.snap), known |-> pass.snap.ids]
                  ELSE [tracker EXCEPT !.known = {}]
    /\ Release
    /\ UNCHANGED <<bus, records, awake, pending, writes, restarts>>

\* The baseline advances once every edit has been acknowledged.
Finish ==
    /\ lock = "cleanup" /\ step = "apply" /\ pass.todo = {}
    /\ tracker' = IF pass.snap.connected
                  THEN [epoch |-> Epoch(pass.snap), known |-> pass.snap.ids]
                  ELSE [tracker EXCEPT !.known = {}]
    /\ Release
    /\ UNCHANGED <<bus, records, awake, pending, writes, restarts>>

-----------------------------------------------------------------------------
(* The cleanup task: a pass under the lock, then signals until one calls   *)
(* for another.                                                            *)

Lock ==
    /\ awake /\ lock = "free"
    /\ awake' = FALSE
    /\ lock' = "cleanup" /\ step' = "root"
    /\ UNCHANGED <<bus, records, pass, call, tracker, pending, writes, restarts>>

\* relation_record_relevant: a stamp of the baseline needs no pass.
Relevant(m) ==
    \/ m.from = "source"
    \/ ~(/\ tracker.epoch # Unstamped
         /\ m.ws \in tracker.known
         /\ m.stamp = tracker.epoch)

Receive ==
    /\ ~awake /\ lock # "cleanup"
    /\ \E m \in pending :
        /\ pending' = pending \ {m}
        /\ awake' = Relevant(m)
    /\ UNCHANGED <<bus, records, holder, tracker, writes, restarts>>

-----------------------------------------------------------------------------
(* bind_workspace and bind_context: synchronize, register the project,     *)
(* synchronize again, see that the workspace is there, set the record.     *)

Bind(w, t) ==
    /\ lock = "free" /\ writes < MaxWrites
    /\ writes' = writes + 1
    /\ lock' = "bind" /\ step' = "root"
    /\ call' = [ws |-> {w}, target |-> {t}, round |-> 1]
    /\ UNCHANGED <<bus, records, pass, task, pending, restarts>>

\* The first synchronize is followed by RegisterProject and the second.
Synchronized ==
    /\ lock = "bind" /\ step = "apply" /\ pass.todo = {}
    /\ IF call.round = 1
       THEN step' = "root" /\ pass' = NoPass /\ call' = [call EXCEPT !.round = 2]
       ELSE step' = "require" /\ UNCHANGED <<pass, call>>
    /\ UNCHANGED <<bus, records, lock, task, pending, writes, restarts>>

RequireWorkspace ==
    /\ step = "require"
    /\ IF present /\ source.connected /\ call.ws \subseteq source.ids
       THEN step' = "write" /\ UNCHANGED <<lock, pass, call>>
       ELSE Release
    /\ UNCHANGED <<bus, records, task, pending, writes, restarts>>

\* Slip: the binding is left for a later pass to stamp.
BoundUnstamped(w, t) ==
    [ws |-> w, relation |-> "project", target |-> t,
     stamp |-> Unstamped, made |-> Epoch(source)]

\* The record carries the epoch of the last synchronize.
Bound(w, t) ==
    [ws |-> w, relation |-> "project", target |-> t,
     stamp |-> Epoch(pass.snap), made |-> Epoch(source)]

WriteBinding ==
    /\ step = "write"
    /\ \E w \in call.ws, t \in call.target : records' = SetOneIn(records, Bound(w, t))
    /\ pending' = pending \cup Signals
    /\ Release
    /\ UNCHANGED <<bus, task, writes, restarts>>

\* Any request of a bind may fail, and its inventory wait runs out in 5 s.
Abort ==
    /\ lock = "bind"
    /\ Release
    /\ UNCHANGED <<bus, records, task, pending, writes, restarts>>

-----------------------------------------------------------------------------
(* Around them.                                                            *)

\* The namer, or a user's tool, names a workspace it has seen in this generation
\* and that may be gone: no lock and no stamp.
WriteName(w, t) ==
    /\ w \in spent /\ writes < MaxWrites
    /\ writes' = writes + 1
    /\ records' = SetOneIn(records, [ws |-> w, relation |-> "name", target |-> t,
                                     stamp |-> Unstamped, made |-> Epoch(source)])
    /\ pending' = pending \cup Signals
    /\ UNCHANGED <<bus, holder, task, restarts>>

\* An error in the cleanup task ends steward, at any request; so may anything
\* else.  It comes back without a baseline, and starts with a pass.
Restart ==
    /\ restarts < MaxRestarts
    /\ restarts' = restarts + 1
    /\ Release
    /\ awake' = TRUE /\ tracker' = NoTracker
    /\ pending' = {}
    /\ UNCHANGED <<bus, records, writes>>

-----------------------------------------------------------------------------

Init ==
    /\ source = Nothing /\ present = FALSE
    /\ objects = {} /\ staging = "no" /\ spent = {}
    /\ records = {}
    /\ lock = "free" /\ step = "idle" /\ pass = NoPass /\ call = NoCall
    /\ awake = TRUE /\ tracker = NoTracker /\ pending = {}
    /\ moves = 0 /\ writes = 0 /\ restarts = 0

Source == SourceUp \/ SourceDown \/ Stage \/ Publish \/ Reset \/ Retire

Holder ==
    \/ ReadRoot \/ ReadObjects \/ ReadAgain \/ List \/ Apply \/ Finish
    \/ Synchronized \/ RequireWorkspace \/ WriteBinding

Next ==
    \/ Source \/ Holder
    \/ Lock \/ Receive
    \/ Abort \/ Restart
    \/ \E w \in Workspaces, t \in Targets : Bind(w, t) \/ WriteName(w, t)

Spec == Init /\ [][Next]_vars

\* A publication under way ends, requests are answered, the task looks at its
\* signals, and the lock (a FIFO tokio Mutex) does not pass the task by.
FairSpec ==
    /\ Spec
    /\ WF_vars(Publish \/ Retire)
    /\ WF_vars(Holder) /\ WF_vars(Receive) /\ WF_vars(Lock)

-----------------------------------------------------------------------------
(* Properties.                                                             *)

Record ==
    [ws : Workspaces, relation : {"project", "name"}, target : Targets,
     stamp : Epochs \cup {Unstamped}, made : Epochs]

Root == [owner : Nat, generation : Nat, connected : BOOLEAN, ids : SUBSET Workspaces]

\* The source, the records, the lock holder and the baseline have their types
\* (workspace_cleanup.rs Snapshot, Reconciler).
TypeOK ==
    /\ source \in Root /\ present \in BOOLEAN /\ objects \subseteq Workspaces
    /\ staging \in {"no", "register", "unregister"} /\ spent \subseteq Workspaces
    /\ records \subseteq Record
    /\ lock \in {"free", "cleanup", "bind"}
    /\ step \in {"idle", "root", "objects", "again", "list", "apply", "require", "write"}
    /\ pass.before \in Root /\ pass.snap \in Root /\ pass.todo \subseteq Record
    /\ tracker.epoch \in Epochs \cup {Unstamped} /\ tracker.known \subseteq Workspaces
    /\ awake \in BOOLEAN

Current(x) == present /\ x.stamp = Epoch(source) /\ x.ws \in source.ids

\* CONTRACT.md: matching raw ids never authorizes transferring an association.
\* A project binding that counts as current was made in the current epoch,
\* whatever resets, restarts and passes lay between the bind and now.
ProjectsNotInherited ==
    \A x \in records : x.relation = "project" /\ Current(x) => x.made = Epoch(source)

\* The same for every record, names included (steward/README.md: the stamp
\* "distinguishes stale links from a fresh binding to a reused native ID,
\* including after steward restarts").
LinksNotInherited == \A x \in records : Current(x) => x.made = Epoch(source)

\* At most one project per workspace, although passes write back records they
\* listed earlier and binds replace what they find.
SingleProject ==
    \A x, y \in records :
        x.relation = "project" /\ y.relation = "project" /\ x.ws = y.ws => x = y

\* workspace_cleanup.rs synchronize: "background cleanup cannot erase a fresh
\* bind": no pass removes a binding of the current epoch to a live workspace.
SparesFreshBinds ==
    [][step = "apply" => \A x \in records \ records' :
            x.relation = "project" => ~Current(x)]_vars

\* workspace_cleanup.rs reconcile: the baseline advances "only after every
\* acknowledged cleanup": when it does, each binding is of the snapshot's epoch
\* and to one of its workspaces.
BaselineAfterCleanup ==
    [][tracker' # tracker /\ restarts' = restarts /\ tracker'.known # {} =>
        \A x \in records : x.relation = "project" =>
            x.stamp = tracker'.epoch /\ x.ws \in tracker'.known]_vars

\* While the source stays connected and at rest, and the writers rest, the
\* cleanup comes to leave only records of live workspaces, stamped as current:
\* no signal that matters is lost between two passes.
Settles ==
    <>[](present /\ source.connected /\ staging = "no") =>
        <>[](\A x \in records : Current(x))
=============================================================================
