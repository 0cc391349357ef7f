------------------------------ MODULE GoalWork ------------------------------
(***************************************************************************)
(* Work on goals: steward's recorder (goal_work.rs, driven by the loop of  *)
(* metrics.rs) follows the focus and the tracked goals, and begins and     *)
(* ends work sessions at projd (metrics.rs, store/work.rs).  Between them  *)
(* is the stream of tracked goals (shell-source proj/tracking.rs).         *)
(*                                                                         *)
(* A call is one step at projd, which answers at once when it is up; a     *)
(* call to a projd that is down fails.  Both processes may end at any      *)
(* time and start again; projd's rows survive, its clocks do not.          *)
(* Of the goals the model keeps what scope() reads.  All sessions have the *)
(* source "steward.focus".                                                 *)
(***************************************************************************)
EXTENDS Naturals, Sequences, SequencesExt, FiniteSets

CONSTANTS
    Goals,      \* goal instances, all of one project
    Parent,     \* the parent instance of each, or None
    Project,    \* their project
    None,       \* no project, no parent, no scope, no session
    MaxEvents   \* bound: changes of the focus and the goals, ends of a process

ASSUME ParentAssumption ==
    /\ IsFiniteSet(Goals)
    /\ None \notin Goals /\ Parent \in [Goals -> Goals \cup {None}]
    /\ Project # None

VARIABLES
    goal,       \* projd: status of each goal that exists
    selected,   \* projd: the active goal of the project, or None
    sessions,   \* projd: rows of goal_work
    up,         \* projd runs
    clocks,     \* projd: running clocks, by session
    unsent,     \* projd: a call has committed and not yet emitted Changed
    lost,       \* projd: connections whose end the bus has announced
    queued,     \* projd: calls of ended connections that wait for the mutexes
    owner,      \* steward's connection
    focus,      \* focus states on their way to steward's loop
    seen,       \* steward: current_focus
    view,       \* steward: current_goals
    current,    \* steward: Recorder::current
    step,       \* steward: the recorder's call in hand
    refused,    \* history: projd, up, refused the last begin since observing
    tracking,   \* the stream: "listing" or "waiting"
    changed,    \* the stream: a Changed signal waits
    owners,     \* the stream: NameOwnerChanged of projd, in order
    inbox,      \* the stream: lists on their way to steward's loop
    left        \* what is left of the bound

projd == <<goal, selected, sessions, up, clocks, unsent, lost, queued>>
steward == <<owner, focus, seen, view, current, step, refused>>
stream == <<tracking, changed, owners, inbox>>
vars == <<projd, steward, stream, left>>

-----------------------------------------------------------------------------
(* What the recorder wants.                                                *)

Open == {"planned", "in-progress"}
FocusStates ==
    {f \in [project : {Project, None}, locked : BOOLEAN, idle : BOOLEAN] :
        /\ f.locked => f.project = None     \* effective_focus clears it
        /\ f.idle => f.project # None}      \* else idleness changes nothing
NoGoals == [goal |-> << >>, selected |-> None]
Tracked == [goal |-> goal, selected |-> selected]

(* scope: from the selected open goal down through unique children in      *)
(* progress.  A parent is never its own descendant, so the guard against   *)
(* cycles has nothing to stop.                                             *)
InProgress(goals, g) ==
    {c \in DOMAIN goals.goal : Parent[c] = g /\ goals.goal[c] = "in-progress"}

Leaf(goals) ==
    LET below[n \in 0..Cardinality(Goals)] ==
            IF n = 0 THEN goals.selected
            ELSE LET children == InProgress(goals, below[n - 1])
                 IN  IF Cardinality(children) = 1
                     THEN CHOOSE c \in children : TRUE
                     ELSE below[n - 1]
    IN  below[Cardinality(Goals)]

Scope(f, goals) ==
    IF \/ f.locked \/ f.project = None
       \/ goals.selected \notin DOMAIN goals.goal
       \/ goals.goal[goals.selected] \notin Open
    THEN None
    ELSE [goal |-> Leaf(goals), kind |-> IF f.idle THEN "idle" ELSE "active"]

Scopes == [goal : Goals, kind : {"active", "idle"}]

\* No session is told apart from one that is held.
ASSUME NoneAssumption == None \notin [scope : Scopes, id : Nat]

-----------------------------------------------------------------------------
Quiet == [call |-> "none", wanted |-> None]

Init ==
    /\ goal \in UNION {[S -> {"planned", "in-progress"}] : S \in SUBSET Goals}
    /\ \A g \in DOMAIN goal : Parent[g] \in DOMAIN goal \cup {None}
    /\ selected \in DOMAIN goal \cup {None}
    /\ sessions = <<>> /\ up = TRUE /\ clocks = {} /\ unsent = FALSE
    /\ lost = {} /\ queued = {}
    /\ owner = 1 /\ focus = <<>> /\ current = None /\ step = Quiet /\ refused = FALSE
    /\ seen = [project |-> None, locked |-> FALSE, idle |-> FALSE]
    /\ view = NoGoals
    /\ tracking = "listing" /\ changed = FALSE /\ owners = <<>> /\ inbox = <<>>
    /\ left = MaxEvents

Spend == left > 0 /\ left' = left - 1

-----------------------------------------------------------------------------
(* The user: another window, the lock, idleness; edits of goals, which end *)
(* with the Changed signal.                                                *)

Focus(f) ==
    /\ Spend
    /\ f # (IF focus = <<>> THEN seen ELSE Last(focus))
    /\ focus' = Append(focus, f)
    /\ UNCHANGED <<projd, owner, seen, view, current, step, refused, stream>>

Edit ==
    /\ Spend
    /\ up /\ ~unsent
    /\ unsent' = TRUE
    /\ UNCHANGED <<sessions, up, clocks, lost, queued, steward, stream>>

SetStatus(g, status) ==
    /\ Edit
    /\ g \in DOMAIN goal /\ goal[g] # status
    /\ goal' = [goal EXCEPT ![g] = status]
    /\ selected' = IF status \notin Open /\ selected = g THEN None ELSE selected

Select(g) ==
    /\ Edit
    /\ g # selected
    /\ g = None \/ (g \in DOMAIN goal /\ goal[g] \in Open)
    /\ selected' = g
    /\ UNCHANGED goal

Delete(g) ==
    /\ Edit
    /\ g \in DOMAIN goal
    /\ \A c \in DOMAIN goal : Parent[c] # g
    /\ goal' = [x \in DOMAIN goal \ {g} |-> goal[x]]
    /\ selected' = IF selected = g THEN None ELSE selected

EmitChanged ==
    /\ up /\ unsent
    /\ unsent' = FALSE
    /\ changed' = TRUE
    /\ UNCHANGED <<goal, selected, sessions, up, clocks, lost, queued, steward,
                   tracking, owners, inbox, left>>

-----------------------------------------------------------------------------
(* projd's sessions: begin_goal_work, end_goal_work, finish.               *)

OpenOf(o) == {i \in DOMAIN sessions : sessions[i].open /\ sessions[i].owner = o}

Ended(ids, reason) ==
    [i \in DOMAIN sessions |->
        IF i \in ids
        THEN [sessions[i] EXCEPT !.open = FALSE, !.reason = reason,
                                 !.measured = (i \in clocks)]
        ELSE sessions[i]]

Finish(ids, reason) ==
    /\ sessions' = Ended({i \in ids : sessions[i].open}, reason)
    /\ clocks' = clocks \ ids

Continuing(o, scope) == {i \in OpenOf(o) : sessions[i].scope = scope}
CanBegin(scope) == up /\ scope.goal \in DOMAIN goal /\ goal[scope.goal] \in Open

(* The connection's open session is kept when its scope is the same and    *)
(* replaced when not.                                                      *)
Begin(o, scope, late) ==
    IF Continuing(o, scope) # {} THEN UNCHANGED <<sessions, clocks>>
    ELSE /\ sessions' = Append(Ended(OpenOf(o), "scope-replaced"),
                [owner |-> o, scope |-> scope, open |-> TRUE, reason |-> "",
                 measured |-> FALSE, late |-> late])
         /\ clocks' = (clocks \ OpenOf(o)) \cup {Len(sessions) + 1}

Begun(o, scope) ==
    IF Continuing(o, scope) # {} THEN CHOOSE i \in Continuing(o, scope) : TRUE
    ELSE Len(sessions) + 1

-----------------------------------------------------------------------------
(* steward's loop: focus before goals, one recorder call at a time.        *)

Observe(wanted, held) ==
    CASE held # None /\ held.scope = wanted -> Quiet
      [] held # None /\ held.scope # wanted -> [call |-> "end", wanted |-> wanted]
      [] held = None /\ wanted # None -> [call |-> "begin", wanted |-> wanted]
      [] OTHER -> Quiet

TakeFocus ==
    /\ step = Quiet /\ focus # <<>>
    /\ seen' = Head(focus) /\ focus' = Tail(focus)
    /\ step' = Observe(Scope(Head(focus), view), current)
    /\ refused' = FALSE
    /\ UNCHANGED <<projd, owner, view, current, stream, left>>

(* reconcile: the list may come from a restarted projd, so the session in  *)
(* hand is looked up before the scope is compared.                         *)
TakeGoals ==
    /\ step = Quiet /\ focus = <<>> /\ inbox # <<>>
    /\ view' = Head(inbox) /\ inbox' = Tail(inbox) /\ refused' = FALSE
    /\ LET wanted == Scope(seen, Head(inbox))
       IN  step' = IF current # None THEN [call |-> "check", wanted |-> wanted]
                   ELSE Observe(wanted, None)
    /\ UNCHANGED <<projd, owner, focus, seen, current, tracking, changed, owners, left>>

Check ==
    /\ step.call = "check"
    /\ current' = IF up /\ ~sessions[current.id].open THEN None ELSE current
    /\ step' = Observe(step.wanted, current')
    /\ UNCHANGED <<projd, owner, focus, seen, view, refused, stream, left>>

EndCall ==
    /\ step.call = "end"
    /\ IF up THEN Finish({current.id}, "context-changed")
       ELSE UNCHANGED <<sessions, clocks>>
    /\ current' = None
    /\ step' = Observe(step.wanted, None)
    /\ UNCHANGED <<goal, selected, up, unsent, lost, queued, owner, focus, seen,
                   view, refused, stream, left>>

BeginCall ==
    /\ step.call = "begin"
    /\ IF CanBegin(step.wanted)
       THEN /\ Begin(owner, step.wanted, FALSE)
            /\ current' = [scope |-> step.wanted, id |-> Begun(owner, step.wanted)]
       ELSE UNCHANGED <<sessions, clocks, current>>
    /\ step' = Quiet
    /\ refused' = (up /\ ~CanBegin(step.wanted))
    /\ UNCHANGED <<goal, selected, up, unsent, lost, queued, owner, focus, seen,
                   view, stream, left>>

-----------------------------------------------------------------------------
(* The stream of tracked goals; equal lists are not sent twice.            *)

Send(rows) ==
    inbox' = IF rows = (IF inbox = <<>> THEN view ELSE Last(inbox)) THEN inbox
             ELSE Append(inbox, rows)

List ==
    /\ tracking = "listing"
    /\ Send(IF up THEN Tracked ELSE NoGoals)
    /\ tracking' = "waiting"
    /\ UNCHANGED <<projd, steward, changed, owners, left>>

TakeChanged ==
    /\ tracking = "waiting" /\ changed
    /\ changed' = FALSE /\ tracking' = "listing"
    /\ UNCHANGED <<projd, steward, owners, inbox, left>>

\* Slip: projd's return is no reason to list.
TakeOwnerGone ==
    /\ tracking = "waiting" /\ owners # <<>>
    /\ owners' = Tail(owners)
    /\ IF Head(owners) = "new" THEN UNCHANGED inbox ELSE Send(NoGoals)
    /\ UNCHANGED <<projd, steward, tracking, changed, left>>

TakeOwner ==
    /\ tracking = "waiting" /\ owners # <<>>
    /\ owners' = Tail(owners)
    /\ IF Head(owners) = "new" THEN tracking' = "listing" /\ UNCHANGED inbox
       ELSE Send(NoGoals) /\ UNCHANGED tracking
    /\ UNCHANGED <<projd, steward, changed, left>>

-----------------------------------------------------------------------------
(* projd ends, by a signal (close_all) or not, and starts again            *)
(* (interrupt_open_work).                                                  *)

Stop(graceful) ==
    /\ Spend
    /\ up /\ up' = FALSE
    /\ sessions' = IF graceful
                   THEN Ended({i \in DOMAIN sessions : sessions[i].open}, "recorder-stopped")
                   ELSE sessions
    /\ clocks' = {} /\ unsent' = FALSE /\ lost' = {} /\ queued' = {}
    /\ owners' = Append(owners, "gone")
    /\ UNCHANGED <<goal, selected, steward, tracking, changed, inbox>>

\* Slip: sessions that were left open are not interrupted.
StartQuietly ==
    /\ ~up /\ up' = TRUE
    /\ owners' = Append(owners, "new")
    /\ UNCHANGED <<goal, selected, sessions, clocks, unsent, lost, queued, steward,
                   tracking, changed, inbox, left>>

Start ==
    /\ ~up /\ up' = TRUE
    /\ sessions' = Ended({i \in DOMAIN sessions : sessions[i].open},
                         "recorder-restarted-unknown-duration")
    /\ owners' = Append(owners, "new")
    /\ UNCHANGED <<goal, selected, clocks, unsent, lost, queued, steward, tracking,
                   changed, inbox, left>>

(* steward ends and starts again with another connection.  A graceful end  *)
(* closes its session (Recorder::finish); otherwise the begin call that is *)
(* in hand may still be on its way.  The new process lists again.          *)
Die(graceful) ==
    /\ Spend
    /\ graceful => step = Quiet
    /\ IF graceful /\ up /\ current # None THEN Finish({current.id}, "source-stopped")
       ELSE UNCHANGED <<sessions, clocks>>
    /\ queued' \in {queued} \cup
            (IF up /\ step.call = "begin"
             THEN {queued \cup {[owner |-> owner, scope |-> step.wanted]}} ELSE {})
    /\ lost' = IF up THEN lost \cup {owner} ELSE lost
    /\ owner' = owner + 1
    /\ focus' = <<IF focus = <<>> THEN seen ELSE Last(focus)>>
    /\ seen' = [project |-> None, locked |-> FALSE, idle |-> FALSE]
    /\ view' = NoGoals /\ current' = None /\ step' = Quiet /\ refused' = FALSE
    /\ tracking' = "listing" /\ changed' = FALSE /\ owners' = <<>> /\ inbox' = <<>>
    /\ UNCHANGED <<goal, selected, up, unsent>>

(* monitor_owners: the sessions of a connection that has ended.            *)
OwnerLost(o) ==
    /\ up /\ o \in lost
    /\ Finish(OpenOf(o), "source-disconnected")
    /\ lost' = lost \ {o}
    /\ UNCHANGED <<goal, selected, up, unsent, queued, steward, stream, left>>

(* A call that waited for the mutexes while its connection ended.          *)
RunQueued(call) ==
    /\ up /\ call \in queued
    /\ queued' = queued \ {call}
    /\ IF CanBegin(call.scope) THEN Begin(call.owner, call.scope, TRUE)
       ELSE UNCHANGED <<sessions, clocks>>
    /\ UNCHANGED <<goal, selected, up, unsent, lost, steward, stream, left>>

Next ==
    \/ \E f \in FocusStates : Focus(f)
    \/ \E g \in Goals, s \in {"planned", "in-progress", "completed"} : SetStatus(g, s)
    \/ \E g \in Goals \cup {None} : Select(g)
    \/ \E g \in Goals : Delete(g)
    \/ EmitChanged
    \/ TakeFocus \/ TakeGoals \/ Check \/ EndCall \/ BeginCall
    \/ List \/ TakeChanged \/ TakeOwner
    \/ \E graceful \in BOOLEAN : Stop(graceful) \/ Die(graceful)
    \/ Start
    \/ \E o \in lost : OwnerLost(o)
    \/ \E call \in queued : RunQueued(call)

Spec == Init /\ [][Next]_vars

(* Calls are answered or fail, signals arrive, the loop goes on: each of   *)
(* these is a task of its own or the only thing its task does.             *)
Recording == TakeFocus \/ TakeGoals \/ Check \/ EndCall \/ BeginCall
Streaming == List \/ TakeChanged \/ TakeOwner
Serving == EmitChanged \/ (\E o \in lost : OwnerLost(o)) \/ (\E c \in queued : RunQueued(c))

Fairness == WF_vars(Recording) /\ WF_vars(Streaming) /\ WF_vars(Serving)
FairSpec == Spec /\ Fairness

-----------------------------------------------------------------------------
(* Every variable has its type.                                            *)
TypeOK ==
    /\ DOMAIN goal \subseteq Goals /\ selected \in DOMAIN goal \cup {None}
    /\ \A i \in DOMAIN sessions :
        /\ sessions[i].scope \in Scopes /\ sessions[i].owner \in 1..owner
        /\ sessions[i].open \in BOOLEAN /\ sessions[i].measured \in BOOLEAN
    /\ up \in BOOLEAN /\ unsent \in BOOLEAN /\ changed \in BOOLEAN
    /\ clocks \subseteq DOMAIN sessions /\ lost \subseteq 1..(owner - 1)
    /\ seen \in FocusStates
    /\ current = None \/ (current.scope \in Scopes /\ current.id \in DOMAIN sessions)
    /\ step = Quiet \/ (step.call \in {"check", "end", "begin"}
                        /\ step.wanted \in Scopes \cup {None})

(* No time is booked on a session that nobody will end: an open session is *)
(* the one the recorder holds, or its connection is gone and projd knows   *)
(* or will know, or it was begun by a call that came after its connection  *)
(* had ended.  A connection has one open session at most, with a clock.    *)
NoStrayWork ==
    up => \A i \in DOMAIN sessions : sessions[i].open =>
        /\ i \in clocks
        /\ OpenOf(sessions[i].owner) = {i}
        /\ \/ sessions[i].owner = owner /\ current # None /\ current.id = i
              /\ current.scope = sessions[i].scope
           \/ sessions[i].owner \in lost
           \/ sessions[i].late

(* A session has no measured duration exactly when the recorder crashed    *)
(* under it (projd/README.md: "marks surviving open records as             *)
(* interrupted/unknown-duration").                                         *)
UnmeasuredOnlyByCrash ==
    \A i \in DOMAIN sessions : ~sessions[i].open =>
        (sessions[i].measured <=> sessions[i].reason # "recorder-restarted-unknown-duration")

WorkAccounted == TypeOK /\ NoStrayWork /\ UnmeasuredOnlyByCrash

(* When projd stays up and the rest is quiet, the recorded work becomes    *)
(* and stays what the focus and the goals call for, whatever failed or     *)
(* restarted before (Recorder::reconcile, tracking.rs): unless projd, up,  *)
(* refused the last begin, for a goal that was closed just then.  Such a   *)
(* begin is not tried again when the goal is opened again before the list  *)
(* is read: the list is then the one sent last, and is not sent.           *)
Recorded ==
    LET wanted == Scope(IF focus = <<>> THEN seen ELSE Last(focus), Tracked)
    IN  {sessions[i].scope : i \in OpenOf(owner)} =
            (IF wanted = None THEN {} ELSE {wanted})

WorkFollows == <>[](up /\ ~refused) => <>[]Recorded
=============================================================================
