--------------------------- MODULE WorkspaceControl ---------------------------
(***************************************************************************)
(* The optional controls of workspace-dbus (control.rs): commands that are *)
(* native actions of the compositor, each sent once the projection of the  *)
(* caller's generation allows it and waited for in the projection.         *)
(*                                                                         *)
(* Commands hold one lock, so one is in hand at a time.  The projection    *)
(* follows the compositor through "frames"; WorkspaceSource has how.  A    *)
(* command connects to the compositor anew, so it reaches the one that     *)
(* runs now.  Outputs are enabled, and no layer or overview has the focus. *)
(* The compositor is external: an action has one of its "Outcomes", or it  *)
(* is rejected when there is none.                                         *)
(***************************************************************************)
EXTENDS Naturals, Sequences, FiniteSets, FiniteSetsExt, SequencesExt

CONSTANTS
    Outputs, Workspaces, Windows, Layouts,
    None,           \* no window, workspace or output
    Spots,          \* where workspaces are at first: output and position
    MaxCalls,       \* bound: commands
    MaxEvents       \* bound: changes by users, losses, and failing requests

VARIABLES
    native,     \* the compositor's desktop
    shown,      \* the projection: connected, generation, desktop
    frames,     \* what the host has not read yet
    call,       \* the command in hand, or the last one
    late,       \* an action whose answer the command did not wait for
    start,      \* history: the desktop when the command began
    disturbed,  \* history: "during", someone else acted since; "before", or
                \* did before and the projection had not shown it
    met,        \* history: what was asked for and was so since
    calls, events

vars == <<native, shown, frames, call, late, start, disturbed, met, calls, events>>

Gone == [gone |-> TRUE]     \* the end of the compositor's connection

-----------------------------------------------------------------------------
(* A desktop: windows and workspaces by identity, the workspace each       *)
(* output shows, the keyboard's focus and the pointer's output.            *)

Members(d, w) == {x \in DOMAIN d.windows : d.windows[x].home = w}
On(d, o) == {w \in DOMAIN d.spots : d.spots[w].output = o}
OutputOf(d, x) == d.spots[d.windows[x].home].output
Held(d, o) == {x \in DOMAIN d.windows : OutputOf(d, x) = o}

\* An application's focus decides before the pointer does.
FocusedOutput(d) == IF d.focus # None THEN OutputOf(d, d.focus) ELSE d.pointer
FocusedWorkspace(d) == IF d.focus # None THEN d.windows[d.focus].home
                       ELSE d.current[d.pointer]

\* The last of an output's workspaces up to a position.
UpTo(d, o, index) ==
    {w \in On(d, o) : /\ d.spots[w].index <= index
                      /\ \A v \in On(d, o) : d.spots[v].index <= index =>
                                                d.spots[v].index <= d.spots[w].index}

\* Where the focus may go on output o when it shows w.
Refocused(d, o, w) ==
    IF d.focus = None \/ OutputOf(d, d.focus) # o THEN {d.focus}
    ELSE IF Members(d, w) = {} THEN {None} ELSE Members(d, w)

Focus(d, x) ==
    IF x \notin DOMAIN d.windows THEN {}
    ELSE LET o == OutputOf(d, x)
         IN  {[d EXCEPT !.focus = x, !.pointer = o, !.current[o] = d.windows[x].home]}

\* The workspace shown already is left for another, if the user likes that.
Switch(d, o, index) ==
    UNION {LET next == IF d.current[o] = w THEN On(d, o) ELSE {w}
           IN  UNION {{[d EXCEPT !.current[o] = v, !.focus = x] : x \in Refocused(d, o, v)} :
                        v \in next} :
             w \in UpTo(d, o, index)}

\* The focused window goes, and is not followed.
MoveFocused(d, o, index) ==
    IF d.focus = None THEN {}
    ELSE LET x == d.focus
             stay(w) == IF d.current[o] = w THEN {x} ELSE {}
             others == Members(d, d.windows[x].home) \ {x}
         IN  UNION {{[d EXCEPT !.windows[x].home = w, !.focus = y] :
                        y \in stay(w) \cup (IF others = {} THEN {None} ELSE others)} :
                    w \in UpTo(d, o, index)}

Outcomes(d, a) ==
    CASE a.kind = "focus" -> Focus(d, a.window)
      [] a.kind = "switch" -> Switch(d, a.output, a.index)
      [] a.kind = "move" -> MoveFocused(d, a.output, a.index)
      [] a.kind = "toggle" -> IF a.window \notin DOMAIN d.windows THEN {}
                              ELSE {[d EXCEPT !.windows[a.window].floating = ~@]}
      [] a.kind = "layout" -> {[d EXCEPT !.layout[d.current[d.pointer]] = a.layout]}

\* What a wait is for.
Reached(d, goal) ==
    CASE goal.kind = "focus" -> d.focus = goal.window
      [] goal.kind = "output" -> FocusedOutput(d) = goal.output
      [] goal.kind = "current" -> d.current[goal.output] = goal.workspace
      [] goal.kind = "layout" -> goal.workspace \in DOMAIN d.spots
                                 /\ d.layout[goal.workspace] = goal.layout
      [] goal.kind = "home" -> goal.window \in DOMAIN d.windows
                               /\ d.windows[goal.window].home = goal.workspace
      [] goal.kind = "floating" -> goal.window \in DOMAIN d.windows
                                   /\ d.windows[goal.window].floating = goal.floating

-----------------------------------------------------------------------------
(* The compositor and the host.                                            *)

Linked == shown.connected /\ Gone \notin ToSet(frames)

Changed(d) ==
    /\ native' = d
    /\ frames' = IF Linked /\ d # native THEN Append(frames, d) ELSE frames

\* Someone else acts, or a request fails.
Disturb == disturbed' = IF disturbed = "before" THEN "before" ELSE "during"
Event == events < MaxEvents /\ events' = events + 1 /\ Disturb

Users(d) ==
    UNION {Focus(d, x) : x \in Windows}
    \cup UNION {Switch(d, o, d.spots[w].index) : o \in Outputs, w \in DOMAIN d.spots}
    \cup UNION {MoveFocused(d, d.spots[w].output, d.spots[w].index) : w \in DOMAIN d.spots}
    \cup {[d EXCEPT !.pointer = o] : o \in Outputs}

User ==
    /\ Event
    /\ \E d \in Users(native) \ {native} : Changed(d)
    /\ UNCHANGED <<shown, call, late, start, calls>>

Close(x) ==
    /\ x \in DOMAIN native.windows
    /\ \E y \in (Members(native, native.windows[x].home) \ {x}) \cup {None} :
        Changed([native EXCEPT !.windows = [z \in DOMAIN @ \ {x} |-> @[z]],
                               !.focus = IF @ = x THEN y ELSE @])
    /\ Event /\ UNCHANGED <<shown, call, late, start, calls>>

\* An empty workspace goes, and those behind it move up.
Collapse(w) ==
    /\ w \in DOMAIN native.spots /\ Members(native, w) = {}
    /\ \A o \in Outputs : native.current[o] # w
    /\ LET gone == native.spots[w]
           moved(s) == IF s.output = gone.output /\ s.index > gone.index
                       THEN [s EXCEPT !.index = @ - 1] ELSE s
       IN  Changed([native EXCEPT !.spots = [v \in DOMAIN @ \ {w} |-> moved(@[v])]])
    /\ Event /\ UNCHANGED <<shown, call, late, start, calls>>

\* The compositor ends, and another one runs.
Replace(d) ==
    /\ Linked
    /\ native' = d /\ frames' = Append(frames, Gone)
    /\ Event /\ UNCHANGED <<shown, call, late, start, calls>>

\* An action of a command that gave up waiting for the answer.
PerformLate ==
    /\ \E a \in late : late' = late \ {a} /\ \E d \in Outcomes(native, a) : Changed(d)
    /\ Disturb
    /\ UNCHANGED <<shown, call, start, calls, events>>

Publish ==
    /\ frames # <<>>
    /\ frames' = Tail(frames)
    /\ shown' = IF Head(frames) = Gone
                THEN [shown EXCEPT !.connected = FALSE, !.generation = @ + 1]
                ELSE [shown EXCEPT !.desktop = Head(frames)]
    /\ UNCHANGED <<native, call, late, start, disturbed, calls, events>>

Connect ==
    /\ ~shown.connected
    /\ shown' = [connected |-> TRUE, generation |-> shown.generation + 1, desktop |-> native]
    /\ UNCHANGED <<native, frames, call, late, start, disturbed, calls, events>>

-----------------------------------------------------------------------------
(* The commands.                                                           *)

Asks ==
    [kind : {"focus"}, window : Windows]
    \cup [kind : {"select"}, output : Outputs, index : 1..Cardinality(Workspaces)]
    \cup [kind : {"layout"}, workspace : Workspaces, layout : Layouts]
    \cup [kind : {"place"}, window : Windows, workspace : Workspaces, floating : BOOLEAN]

Ended == {"ok", "failed"}
View == shown.desktop
Ask == call.ask

Begin(ask, generation) ==
    /\ call.step \in Ended /\ calls < MaxCalls /\ calls' = calls + 1
    /\ call' = [ask |-> ask, generation |-> generation, step |-> ask.kind,
                target |-> None, before |-> None]
    /\ start' = native
    /\ disturbed' = IF frames = <<>> /\ late = {} /\ shown.connected
                       /\ shown.generation = generation
                    THEN "no" ELSE "before"
    /\ UNCHANGED <<native, shown, frames, late, events>>

Commands == <<native, shown, frames, late, start, disturbed, calls, events>>

\* validate: the projection is of the caller's generation.
Current == shown.connected /\ shown.generation = call.generation
At(step) == call.step = step /\ Current

To(step) ==
    call' = [ask |-> Ask, generation |-> call.generation, step |-> step,
             target |-> call.target, before |-> call.before]
Fail == To("failed")

Stale == call.step \notin Ended /\ ~Current /\ Fail /\ UNCHANGED Commands

\* The action is sent next, and its goal awaited before the step "then".
Await(action, goal, then) ==
    [call EXCEPT !.step = "send"] @@ [action |-> action, goal |-> goal, then |-> then]
Do(action, goal, then) == call' = Await(action, goal, then)

\* The compositor acts and answers, or rejects the action.
Send ==
    /\ call.step = "send"
    /\ IF Outcomes(native, call.action) = {}
       THEN Fail /\ UNCHANGED <<native, frames>>
       ELSE /\ \E d \in Outcomes(native, call.action) : Changed(d)
            /\ call' = [call EXCEPT !.step = "wait"]
    /\ UNCHANGED <<shown, late, start, disturbed, calls, events>>

\* The request fails, or its answer does not come within five seconds: then the
\* action may still be performed.
SendFails ==
    /\ call.step = "send" /\ Event
    /\ late' \in {late, late \cup {call.action}}
    /\ Fail
    /\ UNCHANGED <<native, shown, frames, start, calls>>

Arrive ==
    /\ At("wait") /\ Reached(View, call.goal)
    /\ To(call.then)
    /\ UNCHANGED Commands

\* Five seconds are enough for what is on its way; more is an event.
Timeout ==
    /\ At("wait") /\ ~Reached(View, call.goal)
    /\ \/ frames = <<>> /\ UNCHANGED <<disturbed, events>>
       \/ frames # <<>> /\ Event
    /\ Fail
    /\ UNCHANGED <<native, shown, frames, late, start, calls>>

FocusOn(x, then) ==
    Do([kind |-> "focus", window |-> x], [kind |-> "focus", window |-> x], then)

FocusWindow ==
    /\ At("focus")
    /\ IF Ask.window \in DOMAIN View.windows THEN FocusOn(Ask.window, "ok") ELSE Fail
    /\ UNCHANGED Commands

\* Slip: the workspace is switched to wherever the output is.
SelectedAnyway(o, index) ==
    \E w \in UpTo(View, o, index) :
        call' = [target |-> w, before |-> FocusedOutput(View)] @@
                Await([kind |-> "switch", output |-> o, index |-> View.spots[w].index],
                      [kind |-> "current", output |-> o, workspace |-> w], "refocus")

\* select: the position is the last there is, and a workspace that is shown
\* already is left alone.
Selected(o, index) ==
    \E w \in UpTo(View, o, index) :
        LET noted == [target |-> w, before |-> FocusedOutput(View)]
        IN  call' = noted @@
                IF View.current[o] = w
                THEN [call EXCEPT !.step = "refocus"]
                ELSE Await([kind |-> "switch", output |-> o, index |-> View.spots[w].index],
                           [kind |-> "current", output |-> o, workspace |-> w], "refocus")

SelectWorkspace ==
    /\ At("select")
    /\ IF UpTo(View, Ask.output, Ask.index) = {} THEN Fail ELSE Selected(Ask.output, Ask.index)
    /\ UNCHANGED Commands

\* The output the target was selected on: the caller's, or the workspace's.
Output == IF Ask.kind = "select" THEN Ask.output
          ELSE IF Ask.workspace \in DOMAIN View.spots THEN View.spots[Ask.workspace].output
          ELSE None

\* Global focus follows to another output, when there is a window to have it.
Refocus ==
    /\ At("refocus")
    /\ IF call.before # Output /\ Members(View, call.target) # {}
       THEN \E x \in Members(View, call.target) :
                Do([kind |-> "focus", window |-> x], [kind |-> "output", output |-> Output],
                   "selected")
       ELSE To("selected")
    /\ UNCHANGED Commands

\* A selection ends here; SetLayout sets the layout of what has the focus.
Settled ==
    /\ At("selected")
    /\ IF Ask.kind = "select" THEN To("ok")
       ELSE IF call.target # Ask.workspace \/ FocusedWorkspace(View) # Ask.workspace THEN Fail
       ELSE Do([kind |-> "layout", layout |-> Ask.layout],
               [kind |-> "layout", workspace |-> Ask.workspace, layout |-> Ask.layout], "ok")
    /\ UNCHANGED Commands

\* A window on the workspace, or on its output, brings the pointer there first.
Anchors ==
    LET own == Members(View, Ask.workspace)
    IN  IF own # {} THEN own ELSE Held(View, View.spots[Ask.workspace].output)

SetLayout ==
    /\ At("layout")
    /\ IF Ask.workspace \notin DOMAIN View.spots THEN Fail
       ELSE IF View.layout[Ask.workspace] = Ask.layout THEN To("ok")
       ELSE IF Anchors = {} THEN To("reach")
       ELSE \E x \in Anchors : FocusOn(x, "reach")
    /\ UNCHANGED Commands

\* focus_workspace
Reach ==
    /\ At("reach")
    /\ IF Ask.workspace \notin DOMAIN View.spots THEN Fail
       ELSE LET spot == View.spots[Ask.workspace] IN Selected(spot.output, spot.index)
    /\ UNCHANGED Commands

PlaceWindow ==
    /\ At("place")
    /\ IF Ask.window \notin DOMAIN View.windows THEN Fail
       ELSE IF View.windows[Ask.window].home = Ask.workspace THEN To("float")
       ELSE FocusOn(Ask.window, "move")
    /\ UNCHANGED Commands

\* The window is moved as the focused one, to a position.
Move ==
    /\ At("move")
    /\ IF Ask.workspace \notin DOMAIN View.spots \/ View.focus # Ask.window THEN Fail
       ELSE LET spot == View.spots[Ask.workspace]
            IN  Do([kind |-> "move", output |-> spot.output, index |-> spot.index],
                   [kind |-> "home", window |-> Ask.window, workspace |-> Ask.workspace],
                   "float")
    /\ UNCHANGED Commands

MustToggle(x) == x \in DOMAIN View.windows /\ View.windows[x].floating # Ask.floating

Float ==
    /\ At("float")
    /\ IF MustToggle(Ask.window)
       THEN Do([kind |-> "toggle", window |-> Ask.window],
               [kind |-> "floating", window |-> Ask.window, floating |-> Ask.floating], "ok")
       ELSE To("ok")
    /\ UNCHANGED Commands

-----------------------------------------------------------------------------
\* A desktop at rest: every output shows one of its workspaces, and what has
\* the focus is shown.
Desktops ==
    {[windows |-> W, spots |-> Spots, current |-> C, layout |-> L, focus |-> f, pointer |-> o] :
        W \in [Windows -> [home : Workspaces, floating : {FALSE}]],
        C \in {D \in [Outputs -> Workspaces] : \A o \in Outputs : Spots[D[o]].output = o},
        L \in {[w \in Workspaces |-> l] : l \in Layouts},
        f \in Windows \cup {None}, o \in Outputs}

Coherent(d) == d.focus # None => d.current[OutputOf(d, d.focus)] = d.windows[d.focus].home

Starts == {d \in Desktops : Coherent(d)}

Init ==
    /\ native \in Starts
    /\ shown = [connected |-> TRUE, generation |-> 1, desktop |-> native]
    /\ frames = <<>> /\ late = {} /\ disturbed = "before" /\ met = {}
    /\ call = [ask |-> None, generation |-> 0, step |-> "failed", target |-> None,
               before |-> None]
    /\ start = native
    /\ calls = 0 /\ events = 0

Environment ==
    \/ User \/ \E x \in Windows : Close(x) \/ \E w \in Workspaces : Collapse(w)
    \/ Replace(start) \/ PerformLate \/ Publish \/ Connect

Command ==
    \/ \E ask \in Asks, g \in 1..shown.generation : Begin(ask, g)
    \/ Stale \/ Send \/ SendFails \/ Arrive \/ Timeout
    \/ FocusWindow \/ SelectWorkspace \/ Refocus \/ Settled
    \/ SetLayout \/ Reach \/ PlaceWindow \/ Move \/ Float

\* What a desktop has of what was asked for.
Having(d, c) ==
    LET ask == c.ask
        x == IF ask.kind = "place" /\ ask.window \in DOMAIN d.windows
             THEN {d.windows[ask.window]} ELSE {}
        holds ==
            CASE ask.kind = "focus" -> d.focus = ask.window
              [] ask.kind = "select" -> d.current[ask.output] \in
                    IF c.target = None THEN UpTo(d, ask.output, ask.index) ELSE {c.target}
              [] ask.kind = "layout" -> d.layout[ask.workspace] = ask.layout
              [] ask.kind = "place" -> \E window \in x : window.home = ask.workspace
        floats == \E window \in x : window.floating = ask.floating
    IN  {m \in {"asked", "floating"} : IF m = "asked" THEN holds ELSE floats}

\* History: in the compositor whose generation it is.
Meets ==
    met' = IF calls' = 0 THEN {}
           ELSE (IF calls' = calls THEN met ELSE {}) \cup
                IF Linked' /\ shown'.generation = call'.generation
                THEN Having(native', call') ELSE {}

Next == (Environment \/ Command) /\ Meets

Spec == Init /\ [][Next]_vars

-----------------------------------------------------------------------------
TypeOK ==
    /\ \A d \in {native, View, start} :
        /\ DOMAIN d.windows \subseteq Windows /\ DOMAIN d.spots \subseteq Workspaces
        /\ Coherent(d)
    /\ shown.connected \in BOOLEAN /\ shown.generation \in Nat
    /\ call.target \in Workspaces \cup {None} /\ call.before \in Outputs \cup {None}
    /\ late \subseteq [kind : {"focus", "toggle"}, window : Windows]
        \cup [kind : {"switch", "move"}, output : Outputs, index : 1..Cardinality(Workspaces)]
        \cup [kind : {"layout"}, layout : Layouts]
    /\ disturbed \in {"no", "during", "before"} /\ met \subseteq {"asked", "floating"}

Undisturbed(result) == call.step = result /\ disturbed = "no"

\* What the command was asked for, as the desktop was when it began.
Asked ==
    CASE Ask.kind = "focus" -> native.focus = Ask.window
      [] Ask.kind = "select" -> native.current[Ask.output] \in UpTo(start, Ask.output, Ask.index)
      [] Ask.kind = "layout" -> native.layout[Ask.workspace] = Ask.layout
      [] Ask.kind = "place" -> native.windows[Ask.window] =
                                [home |-> Ask.workspace, floating |-> Ask.floating]

(* A command that no one disturbs changes what it was asked for and moves, *)
(* floats and lays out nothing else, whether it succeeds or not; and it    *)
(* has done so when it says so, though every action it can send works on   *)
(* whatever has the focus or the pointer (CONTRACT.md, Control1).          *)
DoesAsAsked ==
    /\ Undisturbed("ok") => Asked
    /\ disturbed = "no" =>
        /\ \A x \in DOMAIN start.windows : native.windows[x] # start.windows[x] =>
            Ask.kind = "place" /\ Ask.window = x
        /\ \A w \in Workspaces : native.layout[w] # start.layout[w] =>
            Ask.kind = "layout" /\ Ask.workspace = w
        /\ Ask.kind = "select" => \A o \in Outputs \ {Ask.output} :
            native.current[o] = start.current[o]

\* What the contract and the actions allow: the command names what there is, and
\* an empty workspace is given a layout where a window, or no window, has the
\* focus on its output.
Feasible ==
    CASE Ask.kind = "focus" -> Ask.window \in DOMAIN start.windows
      [] Ask.kind = "select" -> UpTo(start, Ask.output, Ask.index) # {}
      [] Ask.kind = "layout" -> Ask.workspace \in DOMAIN start.spots /\
            LET o == start.spots[Ask.workspace].output
            IN  Held(start, o) # {} \/ FocusedOutput(start) = o
      [] Ask.kind = "place" -> Ask.window \in DOMAIN start.windows
                               /\ Ask.workspace \in DOMAIN start.spots

(* No such command fails: every wait of it is for something that comes.    *)
Succeeds == Undisturbed("failed") => ~Feasible

(* And one that succeeds while users, windows and the compositor itself    *)
(* come in between has seen what was asked for done, since it began and by *)
(* the compositor of its generation, though perhaps undone by now; a       *)
(* window that closes need not float any more (CONTRACT.md: "Completion    *)
(* waits for projected state changes").                                    *)
SawItDone ==
    call.step = "ok" /\ disturbed # "before" =>
        /\ "asked" \in met
        /\ Ask.kind = "place" /\ Current /\ Ask.window \in DOMAIN View.windows =>
            "floating" \in met
=============================================================================
