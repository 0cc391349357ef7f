---------------------------- MODULE ProjectBindings ----------------------------
(***************************************************************************)
(* Which project each workspace is bound to: the calls of steward's        *)
(* Associations1 interface, serialized by BIND_LOCK, and steward's main    *)
(* loop, which follows projd's registrations and removals and lists the    *)
(* bindings without the lock (associations.rs, associations/removal.rs).   *)
(*                                                                         *)
(* A project has an identity and a path; removing and registering a path   *)
(* again gives a new identity.  The workspaces live throughout: their end  *)
(* is the subject of WorkspaceLifecycle, and so is synchronize, which      *)
(* leaves the bindings of live workspaces alone.                           *)
(***************************************************************************)
EXTENDS Naturals, Sequences, FiniteSets

CONSTANTS
    Workspaces,     \* workspace ids
    Paths,          \* project directories
    Callers,        \* calls that may be in flight together
    MaxCalls,       \* bound: calls made
    MaxIds,         \* bound: project identities
    MaxRemovals     \* bound: projects removed

Free == "free"
Main == "main"

ASSUME CallersAssumption == Free \notin Callers /\ Main \notin Callers
ASSUME BoundsAssumption == MaxCalls \in Nat /\ MaxIds \in Nat

VARIABLES
    projects,   \* projd: identity and path of each registered project
    lastId,     \* identities given out so far
    records,    \* the workspace-project records
    lock,       \* BIND_LOCK: a caller, the main loop, or free
    calls,      \* per caller: where it is, and what it is doing
    made,       \* calls so far
    events,     \* ProjectRemoved signals the main loop has not taken
    changed,    \* projd's Changed signal awaits a listing
    listed,     \* the last listing that was passed on
    news,       \* listings the main loop has not taken
    main        \* main loop: records to look at, workspaces to clear, listing

vars == <<projects, lastId, records, lock, calls, made, events, changed, listed, news, main>>
projd == <<projects, lastId>>
stream == <<events, changed, listed, news>>

Ops == {"bind", "init", "unassign"}

Quiet == [pc |-> "idle", op |-> "bind", ws |-> {}, path |-> {}, id |-> 0, rows |-> {}]

AtRest == [pc |-> "idle", todo |-> {}, doomed |-> {}, known |-> {}]

Ids == {p.id : p \in projects}

\* late is history: the project was no longer registered when the record was
\* written; by says who wrote it.
Written(w, t, i, who) ==
    [ws |-> w, target |-> t, project |-> i, late |-> i \notin Ids, by |-> who]

BindingsOf(w) == {x \in records : x.ws = w}

\* Slip: set where set_one was meant.
SetBesides(x) == records' = records \cup {x}

\* set_one on locus: the workspace's other bindings go.
SetOne(x) == records' = (records \ BindingsOf(x.ws)) \cup {x}

-----------------------------------------------------------------------------
(* projd (external to steward).                                            *)

\* RegisterProject: a registered path keeps its identity.
Registered(t, i) ==
    \/ /\ [id |-> i, path |-> t] \in projects
       /\ UNCHANGED projd
    \/ /\ \A p \in projects : p.path # t
       /\ i = lastId + 1 /\ i <= MaxIds
       /\ projects' = projects \cup {[id |-> i, path |-> t]}
       /\ lastId' = i

\* A user removes a project: ProjectRemoved, then Changed.
Remove(p) ==
    /\ lastId - Cardinality(projects) < MaxRemovals
    /\ projects' = projects \ {p}
    /\ events' = events \cup {p}
    /\ changed' = TRUE
    /\ UNCHANGED <<lastId, records, lock, calls, made, listed, news, main>>

\* shell_source::proj::projects(): a listing for each Changed, if it differs.
Relist ==
    /\ changed
    /\ changed' = FALSE
    /\ listed' = projects
    /\ news' = IF projects = listed THEN news ELSE Append(news, projects)
    /\ UNCHANGED <<projd, records, lock, calls, made, events, main>>

-----------------------------------------------------------------------------
(* The calls.                                                              *)

Goto(c, pc) == calls' = [calls EXCEPT ![c].pc = pc]

Return(c) ==
    /\ calls' = [calls EXCEPT ![c] = Quiet]
    /\ lock' = IF lock = c THEN Free ELSE lock

Arrive(c, op, w, t) ==
    /\ calls[c].pc = "idle" /\ made < MaxCalls
    /\ made' = made + 1
    /\ calls' = [calls EXCEPT ![c] =
                    [pc |-> "lock", op |-> op, ws |-> {w}, path |-> {t}, id |-> 0, rows |-> {}]]
    /\ UNCHANGED <<projd, records, lock, stream, main>>

\* Slip: the call does not wait for the lock.
AcquireHeedless(c) ==
    /\ calls[c].pc = "lock"
    /\ lock' = c
    /\ Goto(c, CASE calls[c].op = "init" -> "check"
                 [] calls[c].op = "bind" -> "register"
                 [] calls[c].op = "unassign" -> "list")
    /\ UNCHANGED <<projd, records, made, stream, main>>

Acquire(c) ==
    /\ calls[c].pc = "lock" /\ lock = Free
    /\ lock' = c
    /\ Goto(c, CASE calls[c].op = "init" -> "check"
                 [] calls[c].op = "bind" -> "register"
                 [] calls[c].op = "unassign" -> "list")
    /\ UNCHANGED <<projd, records, made, stream, main>>

\* init_workspace_project lists before and after RegisterProject.
Check(c, now, then) ==
    /\ calls[c].pc = now
    /\ \E w \in calls[c].ws :
        IF BindingsOf(w) = {}
        THEN Goto(c, then) /\ UNCHANGED lock
        ELSE Return(c)
    /\ UNCHANGED <<projd, records, made, stream, main>>

Register(c) ==
    /\ calls[c].pc = "register"
    /\ \E t \in calls[c].path, i \in 1..MaxIds :
        /\ Registered(t, i)
        /\ calls' = [calls EXCEPT ![c] =
                        [@ EXCEPT !.id = i,
                                  !.pc = IF calls[c].op = "init"
                                         THEN "recheck" ELSE "write"]]
    /\ changed' = TRUE
    /\ UNCHANGED <<records, lock, made, events, listed, news, main>>

\* bind_context.
Write(c) ==
    /\ calls[c].pc = "write"
    /\ \E w \in calls[c].ws, t \in calls[c].path :
        SetOne(Written(w, t, calls[c].id, "call"))
    /\ Return(c)
    /\ UNCHANGED <<projd, made, stream, main>>

\* unassign_workspace_project: the workspace's bindings are listed, then unset
\* one by one; the main loop may write between the two.
ListBindings(c) ==
    /\ calls[c].pc = "list"
    /\ calls' = [calls EXCEPT ![c] =
                    [@ EXCEPT !.pc = "unset",
                              !.rows = UNION {BindingsOf(w) : w \in calls[c].ws}]]
    /\ UNCHANGED <<projd, records, lock, made, stream, main>>

Unset(c) ==
    /\ calls[c].pc = "unset"
    /\ \/ /\ calls[c].rows = {}
          /\ Return(c)
          /\ UNCHANGED records
       \/ /\ \E x \in calls[c].rows :
            /\ records' = {y \in records : y.ws # x.ws \/ y.target # x.target}
            /\ calls' = [calls EXCEPT ![c] = [@ EXCEPT !.rows = calls[c].rows \ {x}]]
          /\ UNCHANGED lock
    /\ UNCHANGED <<projd, made, stream, main>>

\* Any request of a call may fail; the guard drops the lock.
Fail(c) ==
    /\ calls[c].pc # "idle"
    /\ Return(c)
    /\ UNCHANGED <<projd, records, made, stream, main>>

-----------------------------------------------------------------------------
(* The main loop: one event or listing at a time.                          *)

\* removal::removed: the bindings to the project or to its path are to go.
TakeRemoved ==
    /\ main.pc = "idle"
    /\ \E p \in events :
        /\ events' = events \ {p}
        /\ main' = [AtRest EXCEPT
                        !.pc = "walk",
                        !.doomed = {x.ws : x \in {y \in records :
                                        y.project = p.id \/ y.target = p.path}}]
    /\ UNCHANGED <<projd, records, lock, calls, made, changed, listed, news>>

\* removal::reconcile: one listing of the bindings, held against the projects.
TakeProjects ==
    /\ main.pc = "idle" /\ news # <<>>
    /\ news' = Tail(news)
    /\ main' = [AtRest EXCEPT !.pc = "walk", !.todo = records, !.known = Head(news)]
    /\ UNCHANGED <<projd, records, lock, calls, made, events, changed, listed>>

\* A binding whose path has another identity now is written again with it.
\* One whose project is not listed is to be cleared.
Adopt ==
    /\ main.pc = "walk" /\ main.doomed = {}
    /\ \E x \in main.todo :
        LET linked == {p \in main.known : p.path = x.target}
            moved == {p \in linked : p.id # x.project}
        IN  /\ IF moved = {}
               THEN UNCHANGED records
               ELSE \E p \in moved : SetOne(Written(x.ws, x.target, p.id, "main"))
            /\ main' = [main EXCEPT
                            !.todo = @ \ {x},
                            !.doomed = IF linked = {} /\ x.project \notin
                                                {p.id : p \in main.known}
                                       THEN {x.ws} ELSE {}]
    /\ UNCHANGED <<projd, lock, calls, made, stream>>

\* Slip: a clear is skipped while a call holds the lock.
MainLockTry ==
    /\ main.pc = "walk" /\ main.doomed # {}
    /\ IF lock = Free
       THEN lock' = Main /\ main' = [main EXCEPT !.pc = "unset"]
       ELSE main' = [main EXCEPT !.doomed = {}] /\ UNCHANGED lock
    /\ UNCHANGED <<projd, records, calls, made, stream>>

\* clear(): unassign_workspace_project for the workspace, under the lock.
MainLock ==
    /\ main.pc = "walk" /\ main.doomed # {} /\ lock = Free
    /\ lock' = Main
    /\ main' = [main EXCEPT !.pc = "unset"]
    /\ UNCHANGED <<projd, records, calls, made, stream>>

MainUnset ==
    /\ main.pc = "unset"
    /\ \E w \in main.doomed :
        IF BindingsOf(w) = {}
        THEN /\ lock' = Free
             /\ main' = [main EXCEPT !.pc = "walk", !.doomed = @ \ {w}]
             /\ UNCHANGED records
        ELSE /\ \E x \in BindingsOf(w) : records' = records \ {x}
             /\ UNCHANGED <<lock, main>>
    /\ UNCHANGED <<projd, calls, made, stream>>

Done ==
    /\ main.pc = "walk" /\ main.todo = {} /\ main.doomed = {}
    /\ main' = AtRest
    /\ UNCHANGED <<projd, records, lock, calls, made, stream>>

-----------------------------------------------------------------------------

Init ==
    /\ projects = {} /\ lastId = 0
    /\ records = {}
    /\ lock = Free
    /\ calls = [c \in Callers |-> Quiet] /\ made = 0
    /\ events = {} /\ changed = FALSE /\ listed = {} /\ news = <<>>
    /\ main = AtRest

Work(c) ==
    \/ Check(c, "check", "register") \/ Register(c) \/ Check(c, "recheck", "write")
    \/ Write(c) \/ ListBindings(c) \/ Unset(c)

MainLoop == TakeRemoved \/ TakeProjects \/ Adopt \/ MainUnset \/ Done

Next ==
    \/ \E c \in Callers :
        \/ \E op \in Ops, w \in Workspaces, t \in Paths : Arrive(c, op, w, t)
        \/ Acquire(c) \/ Work(c) \/ Fail(c)
    \/ \E p \in projects : Remove(p)
    \/ Relist \/ MainLoop \/ MainLock

Spec == Init /\ [][Next]_vars

\* Requests are answered or fail, signals are taken, and the FIFO lock is handed
\* to everyone who waits for it.
FairSpec ==
    /\ Spec
    /\ \A c \in Callers : WF_vars(Work(c) \/ Fail(c)) /\ WF_vars(Acquire(c))
    /\ WF_vars(Relist) /\ WF_vars(MainLoop) /\ WF_vars(MainLock)

-----------------------------------------------------------------------------
(* Properties.                                                             *)

Project == [id : 1..MaxIds, path : Paths]

Binding == [ws : Workspaces, target : Paths, project : 1..MaxIds,
            late : BOOLEAN, by : {"call", "main"}]

Call ==
    [pc : {"idle", "lock", "check", "register", "recheck", "write", "list", "unset"},
     op : Ops, ws : SUBSET Workspaces, path : SUBSET Paths, id : 0..MaxIds,
     rows : SUBSET Binding]

\* projd's projects, the bindings, the calls and the main loop have their types
\* (associations.rs, removal.rs).
TypeOK ==
    /\ projects \subseteq Project /\ lastId \in 0..MaxIds
    /\ records \subseteq Binding
    /\ lock \in Callers \cup {Main, Free}
    /\ calls \in [Callers -> Call] /\ made \in Nat
    /\ events \subseteq Project /\ listed \subseteq Project
    /\ changed \in BOOLEAN /\ news \in Seq(SUBSET Project)
    /\ main \in [pc : {"idle", "walk", "unset"}, todo : SUBSET Binding,
                  doomed : SUBSET Workspaces, known : SUBSET Project]

\* A workspace has one project at most, although the main loop writes bindings it
\* listed before others changed them.
SingleProject == \A x, y \in records : x.ws = y.ws => x = y

\* associations.rs init_workspace_project: "a concurrent association during a slow
\* project scan is never silently replaced": not one that a call made.
InitSparesCalls ==
    [][\A c \in Callers :
        calls[c].op = "init" /\ calls[c].pc = "write" /\ calls'[c].pc = "idle" =>
            \A x \in records \ records' : x.by = "main"]_vars

\* Once everything is quiet, a binding that was written while its project was
\* registered refers to a registered project: no removal is missed.
RemovalsReachBindings == <>[](\A x \in records : x.late \/ x.project \in Ids)

\* projd/README.md: "Steward clears desktop associations" of a removed project:
\* once everything is quiet, every binding refers to a registered project.
BindingsResolve == <>[](\A x \in records : x.project \in Ids)

\* What the proofs need besides: who holds the lock, what a call knows once it
\* is past its steps, and that init has seen no binding made by a call.
Exclusive ==
    /\ \A c \in Callers : calls[c].pc \notin {"idle", "lock"} => lock = c
    /\ main.pc = "unset" => lock = Main

Resolved == \A c \in Callers : calls[c].pc \in {"recheck", "write"} => calls[c].id # 0

OneWorkspace == \A c \in Callers : \A v, w \in calls[c].ws : v = w

InitSawNothing ==
    \A c \in Callers :
        calls[c].op = "init" /\ calls[c].pc = "write" =>
            \A x \in records : x.ws \in calls[c].ws => x.by = "main"

IInv == TypeOK /\ SingleProject /\ Exclusive /\ Resolved /\ OneWorkspace /\ InitSawNothing
=============================================================================
