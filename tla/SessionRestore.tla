---------------------------- MODULE SessionRestore ----------------------------
(***************************************************************************)
(* Steward's desktop sessions (src/steward/src/session): the capture that  *)
(* describes the live desktop after every change, the saves a user asks    *)
(* for, and the restore that reopens a description's windows.              *)
(*                                                                         *)
(* Captures, saves and restores take the operation lock one at a time; the *)
(* compositor, its connection, project bindings and the cleanup of expired *)
(* records go on between any two of their requests.  A request is atomic,  *)
(* and so is observe::read, which reads again until what it saw is whole.  *)
(*                                                                         *)
(* There is one output.  A workspace id is its index there, and every      *)
(* window is of one application, "tagged" when its launcher can put the    *)
(* launch's token in the window's application id.                          *)
(***************************************************************************)
EXTENDS Naturals, FiniteSets

CONSTANTS
    Count,          \* workspaces 1..Count are always there
    Named,          \* the ones with a configured name
    Focused,        \* where windows open; users move them
    Projects, None,
    Explicit,       \* names to save under, besides "last"
    Recipes,        \* "none", "tagged", "plain": what is known of the application
    MaxOpened,      \* bound: windows a compositor opens
    MaxEvents,      \* bound: changes by compositor, users and projd
    MaxCalls,       \* bound: saves and restores
    MaxFailures     \* bound: failed writes and launches, and restarts of steward

VARIABLES
    epoch, connected, windows, opened,                      \* workspace-dbus
    projects,                                               \* projd
    bindings, slots, anchors, launches, armed, checkpoints, slotProjects,   \* locus
    store, op, jobs, report, dirty, expired, ids, recipe,   \* steward
    spawned, claimed, deferred,                             \* history
    events, calls, failures

source == <<epoch, connected, windows, opened>>
records == <<bindings, slots, anchors, launches, armed, checkpoints, slotProjects>>
history == <<spawned, claimed, deferred>>
bounds == <<events, calls, failures>>
vars == <<source, projects, records, store, op, jobs, report, dirty, expired, ids, recipe,
          history, bounds>>

Workspaces == 1..Count
Names == {"current", "last", "previous"} \cup Explicit

\* No record: the epoch 0 is no source's.
NoLink == [id |-> 0, epoch |-> 0]
NoBinding == [project |-> None, epoch |-> 0]

Idle == [kind |-> "none"]

\* A description of a workspace; project is history, what it was bound to.
Description == [slot : Nat, key : Nat, ws : Workspaces, named : BOOLEAN,
                windows : SUBSET Nat, project : Projects \cup {None}]

Members(W, w) == {x \in DOMAIN W : W[x].at = w}

\* f, where g does not say otherwise.
With(f, g) == [i \in DOMAIN f \cup DOMAIN g |-> IF i \in DOMAIN g THEN g[i] ELSE f[i]]

\* The n-th new identity goes to the n-th of S.
Fresh(base, S, x) == base + Cardinality({y \in S : y <= x})

Least(S) == CHOOSE x \in S : \A y \in S : x <= y
Greatest(S) == CHOOSE x \in S : \A y \in S : y <= x

-----------------------------------------------------------------------------
(* The store.                                                              *)

\* validate: no identity twice, in any workspace or window.
Valid(session) ==
    /\ \A d, e \in session : d # e => d.slot # e.slot /\ d.windows \cap e.windows = {}
    /\ \A d, e \in session : d.slot \notin e.windows

\* put: "last" is first kept as "previous".
Put(name, session) ==
    [store EXCEPT !["previous"] = IF name = "last" /\ store["last"] \notin {None, session}
                                  THEN store["last"] ELSE @,
                  ![name] = session]

-----------------------------------------------------------------------------
(* The compositor, as workspace-dbus shows it, and its connection.         *)

\* The changes the watch task captures after.
Meaningful == {"windows", "move", "source", "binding"}

Noticed(kind) == dirty' = (dirty \/ kind \in Meaningful)
NoticedIf(kind, changed) == dirty' = (dirty \/ (changed /\ kind \in Meaningful))

Event ==
    /\ events < MaxEvents /\ events' = events + 1
    /\ UNCHANGED <<calls, failures>>

Open ==
    /\ connected /\ opened < MaxOpened /\ Event
    /\ opened' = opened + 1
    /\ windows' = With(windows, [x \in {opened'} |-> [at |-> Focused, token |-> 0]])
    /\ Noticed("windows")
    /\ UNCHANGED <<epoch, connected, projects, records, store, op, jobs, report, expired, ids,
                   recipe, history>>

\* A launched application opens a window: soon, late, or never; one, or more.
Appear(l) ==
    /\ connected /\ opened < MaxOpened
    /\ opened' = opened + 1
    /\ windows' = With(windows, [x \in {opened'} |-> [at |-> Focused, token |-> l.token]])
    /\ Noticed("windows")
    /\ UNCHANGED <<epoch, connected, projects, records, store, op, jobs, report, expired, ids,
                   recipe, history, bounds>>

Close(x) ==
    /\ connected /\ Event
    /\ windows' = [y \in DOMAIN windows \ {x} |-> windows[y]]
    /\ Noticed("windows")
    /\ UNCHANGED <<epoch, connected, opened, projects, records, store, op, jobs, report, expired,
                   ids, recipe, history>>

Move(x, w) ==
    /\ connected /\ windows[x].at # w /\ Event
    /\ windows' = [windows EXCEPT ![x].at = w]
    /\ Noticed("move")
    /\ UNCHANGED <<epoch, connected, opened, projects, records, store, op, jobs, report, expired,
                   ids, recipe, history>>

\* Every loss and every connection begins an epoch: an owner and generation.
Lose ==
    /\ connected /\ Event
    /\ connected' = FALSE /\ epoch' = epoch + 1
    /\ Noticed("source")
    /\ UNCHANGED <<windows, opened, projects, records, store, op, jobs, report, expired, ids,
                   recipe, history>>

\* The same compositor with its windows, or a new one that counts from 1 again.
Connect ==
    /\ ~connected
    /\ connected' = TRUE /\ epoch' = epoch + 1
    /\ \/ UNCHANGED <<windows, opened>>
       \/ windows' = <<>> /\ opened' = 0
    /\ Noticed("source")
    /\ UNCHANGED <<projects, records, store, op, jobs, report, expired, ids, recipe, history, bounds>>

-----------------------------------------------------------------------------
(* Bindings of workspaces to projects, under BIND_LOCK, which the cleanup  *)
(* holds while expired is not empty.                                       *)

Unlocked == expired = {}

\* Records of an earlier epoch go before a bind.
Fit(R, none) == [w \in Workspaces |-> IF R[w].epoch = epoch THEN R[w] ELSE none]

Bound(w, p) == [Fit(bindings, NoBinding) EXCEPT ![w] = [project |-> p, epoch |-> epoch]]

Bind(w, p) ==
    /\ connected /\ Unlocked /\ p \in projects /\ Event
    /\ bindings' = Bound(w, p)
    /\ slots' = Fit(slots, NoLink)
    /\ Noticed("binding")
    /\ UNCHANGED <<source, projects, anchors, launches, armed, checkpoints, slotProjects,
                   store, op, jobs, report, expired, ids, recipe, history>>

Unassign(w) ==
    /\ bindings[w] # NoBinding /\ Unlocked /\ Event
    /\ bindings' = [bindings EXCEPT ![w] = NoBinding]
    /\ Noticed("binding")
    /\ UNCHANGED <<source, projects, slots, anchors, launches, armed, checkpoints,
                   slotProjects, store, op, jobs, report, expired, ids, recipe, history>>

RemoveProject(p) ==
    /\ Event
    /\ projects' = projects \ {p}
    /\ UNCHANGED <<source, records, store, op, jobs, report, dirty, expired, ids, recipe, history>>

\* The associations of a removed project are taken back.
ReconcileProjects ==
    /\ Unlocked
    /\ bindings' = [w \in Workspaces |-> IF bindings[w].project \in projects
                                         THEN bindings[w] ELSE NoBinding]
    /\ slotProjects' = [s \in {t \in DOMAIN slotProjects : slotProjects[t] \in projects}
                            |-> slotProjects[s]]
    /\ NoticedIf("binding", bindings' # bindings)
    /\ UNCHANGED <<source, projects, slots, anchors, launches, armed, checkpoints,
                   store, op, jobs, report, expired, ids, recipe, history, bounds>>

\* The cleanup lists what an earlier epoch left at workspaces, and bindings go.
Expire ==
    /\ Unlocked
    /\ expired' = {[ws |-> w, id |-> slots[w].id] : w \in
                    {v \in Workspaces : slots[v] # NoLink /\ slots[v].epoch # epoch}}
    /\ bindings' = Fit(bindings, NoBinding)
    /\ NoticedIf("binding", bindings' # bindings)
    /\ UNCHANGED <<source, projects, slots, anchors, launches, armed, checkpoints,
                   slotProjects, store, op, jobs, report, ids, recipe, history, bounds>>

\* Then unsets it: by workspace and slot, whatever the record's epoch is by now.
Unset ==
    /\ ~Unlocked
    /\ slots' = [w \in Workspaces |-> IF [ws |-> w, id |-> slots[w].id] \in expired
                                      THEN NoLink ELSE slots[w]]
    /\ expired' = {}
    /\ UNCHANGED <<source, projects, bindings, anchors, launches, armed, checkpoints,
                   slotProjects, store, op, jobs, report, dirty, ids, recipe, history, bounds>>

-----------------------------------------------------------------------------
(* The capture, of the watch task and of Save.                             *)

Begin(name) ==
    /\ op = Idle
    /\ op' = [kind |-> "capture", step |-> "source", name |-> name]

Automatic ==
    /\ dirty /\ Begin("current")
    /\ dirty' = FALSE
    /\ UNCHANGED <<source, projects, records, store, jobs, report, expired, ids, recipe, history,
                   bounds>>

Save(name) ==
    /\ Begin(name)
    /\ calls < MaxCalls /\ calls' = calls + 1
    /\ UNCHANGED <<source, projects, records, store, jobs, report, dirty, expired, ids, recipe,
                   history, events, failures>>

Explicitly == op.name # "current"

\* The capture fails; the watch task waits for the next change.
GiveUp ==
    /\ op' = Idle
    /\ deferred' = (deferred \/ ~Explicitly)
    /\ UNCHANGED <<spawned, claimed>>

At(kind, step) == op.kind = kind /\ op.step = step
Capturing(step) == At("capture", step)
Restoring(step) == At("restore", step)

\* A read fails after five seconds without a connected source, and the capture
\* where it is after ten seconds of changes and slow answers.
Timeout ==
    /\ op.kind = "capture" /\ op.step # "last"
    /\ \/ op.step \in {"source", "again"} /\ ~connected /\ UNCHANGED failures
       \/ failures < MaxFailures /\ failures' = failures + 1
    /\ GiveUp
    /\ UNCHANGED <<source, projects, records, store, jobs, report, dirty, expired, ids, recipe,
                   events, calls>>

ReadSource ==
    /\ Capturing("source") /\ connected
    /\ op' = [kind |-> "capture", step |-> "describe", name |-> op.name,
              epoch |-> epoch, windows |-> windows]
    /\ UNCHANGED <<source, projects, records, store, jobs, report, dirty, expired, ids, recipe,
                   history, bounds>>

\* links::current.
Known(link) == link # NoLink /\ link.epoch = op.epoch

BoundTo(w) ==
    LET b == bindings[w]
    IN  IF b.epoch = op.epoch /\ b.project \in projects THEN b.project ELSE None

\* Automatic edge placeholders are left out.
Described == {w \in Workspaces : BoundTo(w) # None \/ Members(op.windows, w) # {} \/ w \in Named}

\* The description in "current" whose slot the workspace has.
Old(w) == IF store["current"] = None THEN {}
          ELSE {d \in store["current"] : Known(slots[w]) /\ d.slot = slots[w].id}

\* A key is kept as long as its project is the same.
KeptKey(w, p) ==
    {d.key : d \in {e \in Old(w) :
        p = IF e.key \in DOMAIN checkpoints THEN checkpoints[e.key] ELSE None}}

\* History: the windows that were read are there now, and so is their source.
Live == epoch = op.epoch /\ DOMAIN op.windows \subseteq DOMAIN windows

\* Records and projects are listed.  New slots, keys and windows are given
\* identities, and their links written, before the description is.
Describe ==
    /\ Capturing("describe")
    /\ LET E == op.epoch
           newSlots == {w \in Described : ~Known(slots[w])}
           newKeys == {w \in Described : KeptKey(w, BoundTo(w)) = {}}
           shown == {x \in DOMAIN op.windows : op.windows[x].at \in Described}
           newWindows == {x \in shown : ~Known(anchors[x])}
           m == ids + Cardinality(newSlots)
           n == m + Cardinality(newKeys)
           slotOf == [w \in Described |-> IF w \in newSlots THEN Fresh(ids, newSlots, w)
                                          ELSE slots[w].id]
           keyOf == [w \in Described |-> IF w \in newKeys THEN Fresh(m, newKeys, w)
                                         ELSE CHOOSE k \in KeptKey(w, BoundTo(w)) : TRUE]
           anchorOf == [x \in shown |-> IF x \in newWindows THEN Fresh(n, newWindows, x)
                                        ELSE anchors[x].id]
           bound == {w \in Described : BoundTo(w) # None}
           free == {slotOf[w] : w \in Described \ bound}
           set(R, id) == [i \in DOMAIN R |-> IF i \in DOMAIN id
                                             THEN [id |-> id[i], epoch |-> E] ELSE R[i]]
       IN  /\ slots' = set(slots, slotOf)
           /\ anchors' = set(anchors, anchorOf)
           /\ checkpoints' =
                With(checkpoints, [k \in {keyOf[w] : w \in bound} |->
                                    BoundTo(CHOOSE w \in bound : keyOf[w] = k)])
           /\ slotProjects' =
                With([s \in DOMAIN slotProjects \ free |-> slotProjects[s]],
                     [s \in {slotOf[w] : w \in bound} |->
                        BoundTo(CHOOSE w \in bound : slotOf[w] = s)])
           /\ ids' = n + Cardinality(newWindows)
           /\ op' = [kind |-> "capture", step |-> "again", name |-> op.name, epoch |-> E,
                     windows |-> op.windows, bindings |-> bindings,
                     real |-> Live,
                     session |-> {[slot |-> slotOf[w], key |-> keyOf[w], ws |-> w,
                                   named |-> w \in Named,
                                   windows |-> {anchorOf[x] : x \in Members(op.windows, w)},
                                   project |-> BoundTo(w)] : w \in Described}]
    /\ UNCHANGED <<source, projects, bindings, launches, armed, store, jobs, report, dirty, expired,
                   recipe, history, bounds>>

SeenAt(step) == op' = [op EXCEPT !.step = step]

\* Changed: again from the start, which waits for an event there has been.
Again == op' = [kind |-> "capture", step |-> "source", name |-> op.name]

\* Slip: the desktop may change while it is described.
SameSourceAlways == TRUE

SameSource == epoch = op.epoch /\ windows = op.windows

ReadAgain ==
    /\ Capturing("again") /\ connected
    /\ IF SameSource THEN SeenAt("bindings") ELSE Again
    /\ UNCHANGED <<source, projects, records, store, jobs, report, dirty, expired, ids, recipe,
                   history, bounds>>

ReadBindings ==
    /\ Capturing("bindings")
    /\ IF bindings = op.bindings THEN SeenAt("put") ELSE Again
    /\ UNCHANGED <<source, projects, records, store, jobs, report, dirty, expired, ids, recipe,
                   history, bounds>>

\* An automatic capture may replace "last": it is the first, or its epoch was
\* claimed by a save or a complete restore.  Slip: it always may.
ArmedAlways == TRUE

Armed == Explicitly \/ store["last"] = None \/ armed = op.epoch

\* The write is refused, or the disk fails; what was saved stays.
PutFails ==
    /\ Capturing("put") \/ Capturing("last")
    /\ \/ ~Valid(op.session) /\ UNCHANGED failures
       \/ failures < MaxFailures /\ failures' = failures + 1
    /\ GiveUp
    /\ UNCHANGED <<source, projects, records, store, jobs, report, dirty, expired, ids, recipe,
                   events, calls>>

\* No automatic capture of an empty desktop is stored.
WriteSession ==
    /\ Capturing("put") /\ Valid(op.session)
    /\ store' = IF Explicitly \/ op.session # {} THEN Put(op.name, op.session) ELSE store
    /\ claimed' = IF Explicitly \/ store["last"] = None THEN claimed \cup {op.epoch}
                  ELSE claimed
    /\ op' = [op EXCEPT !.step = IF ~Armed THEN "expire"
                                 ELSE IF ~Explicitly /\ op.session # {} THEN "last" ELSE "arm"]
    /\ deferred' = (deferred /\ Explicitly)
    /\ UNCHANGED <<source, projects, records, jobs, report, dirty, expired, ids, recipe, spawned,
                   bounds>>

WriteLast ==
    /\ Capturing("last") /\ Valid(op.session)
    /\ store' = Put("last", op.session)
    /\ op' = [op EXCEPT !.step = "arm"]
    /\ UNCHANGED <<source, projects, records, jobs, report, dirty, expired, ids, recipe, history, bounds>>

\* The epoch is armed.  Links of other epochs and of closed windows go.
ArmAndExpire ==
    /\ Capturing("expire") \/ Capturing("arm")
    /\ slots' = [w \in Workspaces |-> IF Known(slots[w]) THEN slots[w] ELSE NoLink]
    /\ anchors' = [x \in DOMAIN anchors |->
                    IF Known(anchors[x]) /\ x \in DOMAIN op.windows THEN anchors[x] ELSE NoLink]
    /\ armed' = IF op.step = "arm" THEN op.epoch ELSE IF armed = op.epoch THEN armed ELSE 0
    /\ op' = Idle
    /\ UNCHANGED <<source, projects, bindings, launches, checkpoints, slotProjects,
                   store, jobs, report, dirty, expired, ids, recipe, history, bounds>>

-----------------------------------------------------------------------------
(* The restore.  A job waits for the operation lock with the session it    *)
(* was called for.                                                         *)

Restore(name) ==
    /\ store[name] # None
    /\ calls < MaxCalls /\ calls' = calls + 1
    /\ jobs' = jobs \cup {[id |-> calls', session |-> store[name]]}
    /\ UNCHANGED <<source, projects, records, store, op, report, dirty, expired, ids, recipe,
                   history, events, failures>>

Done(state) == report' = state /\ op' = Idle

BeginRestore(job) ==
    /\ op = Idle
    /\ jobs' = jobs \ {job}
    /\ IF connected
       THEN /\ op' = [kind |-> "restore", step |-> "next", session |-> job.session,
                      epoch |-> epoch, projects |-> projects, left |-> job.session,
                      used |-> {}, issue |-> FALSE]
            /\ report' = "running"
       ELSE Done("partial")
    /\ UNCHANGED <<source, projects, records, store, dirty, expired, ids, recipe, history,
                   bounds>>

\* The restore without what it keeps for one workspace.
Rest == [kind |-> "restore", step |-> "next", session |-> op.session, epoch |-> op.epoch,
         projects |-> op.projects, left |-> op.left, used |-> op.used, issue |-> op.issue]

\* The workspace is given up.
Issue == op' = [Rest EXCEPT !.issue = TRUE]

\* The next workspace, by index: its records are listed, its project is looked
\* up by the checkpoint's key, and its slot remembers the project.
NextWorkspace ==
    /\ Restoring("next") /\ op.left # {}
    /\ LET d == CHOOSE e \in op.left : \A f \in op.left : e.ws <= f.ws
           project == IF d.key \in DOMAIN checkpoints THEN checkpoints[d.key] ELSE None
           rest == [Rest EXCEPT !.left = @ \ {d}]
       IN  IF project # None /\ project \notin op.projects
           THEN op' = [rest EXCEPT !.issue = TRUE] /\ UNCHANGED slotProjects
           ELSE /\ slotProjects' = IF project = None THEN slotProjects
                                   ELSE With(slotProjects, [s \in {d.slot} |-> project])
                /\ op' = With(rest, [step |-> "choose", desc |-> d, project |-> project,
                                     listed |-> bindings, linked |-> slots])
    /\ UNCHANGED <<source, projects, bindings, slots, anchors, launches, armed, checkpoints,
                   store, jobs, report, dirty, expired, ids, recipe, history, bounds>>

\* The live workspaces that would do: where the slot is already, the one with
\* the configured name, the last one that is free, empty and unassigned.
Existing == {w \in Workspaces : Known(op.linked[w]) /\ op.linked[w].id = op.desc.slot}
NamedSo == {w \in Named : op.desc.named /\ w = op.desc.ws}
Blank == {w \in Workspaces \ (Named \cup op.used) :
            Members(windows, w) = {} /\ op.listed[w] = NoBinding}

Candidate ==
    IF Existing # {} THEN {Least(Existing)}
    ELSE IF NamedSo # {} THEN NamedSo
    ELSE IF Blank # {} /\ op.desc.windows # {} THEN {Greatest(Blank)}
    ELSE {}

Usable(w) == w \notin op.used /\ op.listed[w].project \in {None, op.project}

\* The slot has one place: what it had before loses slot and project.
ChooseWorkspace ==
    /\ Restoring("choose")
    /\ LET usable == {w \in Candidate : connected /\ epoch = op.epoch /\ Usable(w)}
       IN  \/ usable = {} /\ Issue /\ UNCHANGED <<slots, bindings, dirty>>
           \/ \E w \in usable :
                LET left == {v \in Workspaces \ {w} :
                                Known(slots[v]) /\ slots[v].id = op.desc.slot}
                IN  /\ slots' = [v \in Workspaces |->
                                    IF v = w THEN [id |-> op.desc.slot, epoch |-> op.epoch]
                                    ELSE IF v \in left THEN NoLink ELSE slots[v]]
                    /\ bindings' = [v \in Workspaces |->
                                        IF v \in left THEN NoBinding ELSE bindings[v]]
                    /\ NoticedIf("binding", bindings' # bindings)
                    /\ op' = With(Rest, [step |-> "bind", used |-> op.used \cup {w},
                                         target |-> w, project |-> op.project,
                                         todo |-> op.desc.windows])
    /\ UNCHANGED <<source, projects, anchors, launches, armed, checkpoints, slotProjects,
                   store, jobs, report, expired, ids, recipe, history, bounds>>

\* associations::restore_workspace: the workspace is bound, or unassigned.
BindRestored ==
    /\ Restoring("bind") /\ Unlocked
    /\ IF op.project # None /\ ~connected
       THEN Issue /\ UNCHANGED <<bindings, slots, dirty>>
       ELSE /\ bindings' = IF op.project = None
                           THEN [bindings EXCEPT ![op.target] = NoBinding]
                           ELSE Bound(op.target, op.project)
            /\ slots' = IF op.project = None THEN slots ELSE Fit(slots, NoLink)
            /\ NoticedIf("binding", bindings' # bindings)
            /\ op' = [op EXCEPT !.step = "window"]
    /\ UNCHANGED <<source, projects, anchors, launches, armed, checkpoints, slotProjects,
                   store, jobs, report, expired, ids, recipe, history, bounds>>

\* The window is done with, or given up: that is an issue of the report.
InWorkspace(s) == With(Rest, [step |-> "window", target |-> op.target, project |-> op.project,
                              todo |-> op.todo \ {s}])
NextWindow(s) == op' = InWorkspace(s)
LoseWindow(s) == op' = [InWorkspace(s) EXCEPT !.issue = TRUE]

\* A window is the saved one: its link is written, and no launch is pending.
Remember(s, x) ==
    /\ anchors' = [anchors EXCEPT ![x] = [id |-> s, epoch |-> op.epoch]]
    /\ launches' = {l \in launches : l.saved # s \/ l.epoch # op.epoch}
    /\ spawned' = {IF l.token = windows[x].token THEN [l EXCEPT !.window = x] ELSE l :
                        l \in spawned}

Placing(s, x) == op' = With(op, [step |-> "place", window |-> x, saved |-> s])

\* Slip: a launch that is not resolved is forgotten.
PendingNone(s) == {}

Pending(s) == {l \in launches : l.saved = s /\ l.epoch = epoch}

Of(token) == {x \in DOMAIN windows : windows[x].token = token}

\* A saved window that is there already is placed; so is one whose launch was
\* not resolved before, if its application tells launches apart.
FindWindow(s) ==
    /\ Restoring("window") /\ s \in op.todo
    /\ LET there == {x \in DOMAIN windows : anchors[x] = [id |-> s, epoch |-> epoch]}
           found == {x \in DOMAIN windows : recipe = "tagged" /\
                        \E l \in Pending(s) : windows[x].token = l.token}
       IN  \/ /\ connected /\ there # {}
              /\ Placing(s, Least(there))
              /\ UNCHANGED <<anchors, launches, spawned>>
           \/ /\ connected /\ there = {} /\ recipe # "none" /\ Cardinality(found) = 1
              /\ \E x \in found : Remember(s, x) /\ Placing(s, x)
           \/ /\ \/ ~connected
                 \/ there = {} /\ recipe = "none"
                 \/ there = {} /\ Pending(s) # {} /\ Cardinality(found) # 1
              /\ LoseWindow(s)
              /\ UNCHANGED <<anchors, launches, spawned>>
    /\ UNCHANGED <<source, projects, bindings, slots, armed, checkpoints, slotProjects,
                   store, jobs, report, dirty, expired, ids, recipe, claimed, deferred,
                   bounds>>

\* Any other is launched.  The launch is recorded first, under the epoch the
\* restore began in.
Launch(s) ==
    /\ Restoring("window") /\ s \in op.todo /\ connected /\ recipe # "none"
    /\ Pending(s) = {}
    /\ \A x \in DOMAIN windows : anchors[x] # [id |-> s, epoch |-> epoch]
    /\ ids' = ids + 1
    /\ LET others == {l \in launches : l.saved # s}
       IN  \/ /\ launches' = others \cup
                    {[saved |-> s, token |-> ids', epoch |-> op.epoch]}
              /\ spawned' = spawned \cup
                    {[token |-> ids', saved |-> s, stamp |-> op.epoch, made |-> epoch,
                      window |-> 0]}
              /\ op' = With(op, [step |-> "match", saved |-> s, token |-> ids'])
              /\ UNCHANGED failures
           \/ /\ failures < MaxFailures /\ failures' = failures + 1
              /\ launches' = others
              /\ LoseWindow(s)
              /\ UNCHANGED spawned
    /\ UNCHANGED <<source, projects, bindings, slots, anchors, armed, checkpoints,
                   slotProjects, store, jobs, report, dirty, expired, recipe, claimed,
                   deferred, events, calls>>

\* The launch's window is found among the ones of this epoch; or the source was
\* replaced, there are two, or none within ten seconds.
Match ==
    /\ Restoring("match")
    /\ LET found == Of(op.token)
       IN  IF connected /\ epoch = op.epoch /\ Cardinality(found) = 1
           THEN \E x \in found : Remember(op.saved, x) /\ Placing(op.saved, x)
           ELSE LoseWindow(op.saved) /\ UNCHANGED <<anchors, launches, spawned>>
    /\ UNCHANGED <<source, projects, bindings, slots, armed, checkpoints, slotProjects,
                   store, jobs, report, dirty, expired, ids, recipe, claimed, deferred, bounds>>

\* place_window of the restore's epoch; its own steps may fail.
Place ==
    /\ Restoring("place")
    /\ \/ /\ connected /\ epoch = op.epoch /\ op.window \in DOMAIN windows
          /\ windows' = [windows EXCEPT ![op.window].at = op.target]
          /\ NoticedIf("move", windows' # windows)
          /\ NextWindow(op.saved)
       \/ LoseWindow(op.saved) /\ UNCHANGED <<windows, dirty>>
    /\ UNCHANGED <<epoch, connected, opened, projects, records, store, jobs, report, expired, ids,
                   recipe, history, bounds>>

\* The layout is set, or that fails.
SetLayout ==
    /\ Restoring("window") /\ op.todo = {}
    /\ \/ connected /\ epoch = op.epoch /\ op' = Rest
       \/ Issue
    /\ UNCHANGED <<source, projects, records, store, jobs, report, dirty, expired, ids, recipe,
                   history, bounds>>

\* A restore with no issue claims the epoch it began in.
EndRestore ==
    /\ Restoring("next") /\ op.left = {}
    /\ IF connected /\ epoch = op.epoch /\ ~op.issue
       THEN /\ armed' = epoch /\ claimed' = claimed \cup {epoch}
            /\ Done("completed")
       ELSE Done("partial") /\ UNCHANGED <<armed, claimed>>
    /\ UNCHANGED <<source, projects, bindings, slots, anchors, launches, checkpoints,
                   slotProjects, store, jobs, dirty, expired, ids, recipe, spawned,
                   deferred, bounds>>

\* Steward is started again: jobs and what was in hand are lost.
Restart ==
    /\ failures < MaxFailures /\ failures' = failures + 1
    /\ op' = Idle /\ jobs' = {} /\ report' = "none" /\ expired' = {} /\ dirty' = TRUE
    /\ UNCHANGED <<source, projects, records, store, ids, recipe, history, events, calls>>

-----------------------------------------------------------------------------
\* What may be stored: nothing, or a workspace of one window.
Starts == {{}} \cup {{[slot |-> 1, key |-> 2, ws |-> Count, named |-> Count \in Named,
                      windows |-> {3}, project |-> p]} : p \in Projects}

\* The first desktop there is, or a compositor that has replaced the one whose
\* desktop is stored: locus has its records, except the bindings, which went.
Init ==
    /\ epoch = 2 /\ connected = TRUE /\ windows = <<>> /\ opened = 0
    /\ projects = Projects
    /\ bindings = [w \in Workspaces |-> NoBinding]
    /\ launches = {} /\ armed = 0
    /\ \E session \in Starts :
        LET bound == {d \in session : d.project # None}
            shown == UNION {d.windows : d \in session}
        IN  /\ store = [n \in Names |-> IF n = "last" /\ session # {} THEN session ELSE None]
            /\ checkpoints = [k \in {d.key : d \in bound} |->
                                (CHOOSE d \in bound : d.key = k).project]
            /\ slots = [w \in Workspaces |->
                            IF \E d \in session : d.ws = w
                            THEN [id |-> (CHOOSE d \in session : d.ws = w).slot, epoch |-> 1]
                            ELSE NoLink]
            /\ anchors = [x \in 1..MaxOpened |->
                            IF x \in 1..Cardinality(shown)
                            THEN [id |-> CHOOSE s \in shown : Fresh(0, shown, s) = x, epoch |-> 1]
                            ELSE NoLink]
            /\ ids = Cardinality((UNION {{d.slot, d.key} : d \in session}) \cup shown)
    /\ slotProjects = <<>>
    /\ op = Idle /\ jobs = {} /\ report = "none" /\ dirty = TRUE /\ expired = {}
    /\ recipe \in Recipes
    /\ spawned = {} /\ claimed = {} /\ deferred = FALSE
    /\ events = 0 /\ calls = 0 /\ failures = 0

Desktop ==
    \/ Open \/ \E l \in spawned : Appear(l)
    \/ \E w \in Workspaces : Unassign(w)
    \/ \E x \in DOMAIN windows : Close(x) \/ \E w \in Workspaces : Move(x, w)
    \/ Lose \/ Connect
    \/ \E p \in projects : RemoveProject(p) \/ \E w \in Workspaces : Bind(w, p)
    \/ ReconcileProjects \/ Expire \/ Unset

Capture ==
    \/ Automatic \/ \E n \in Explicit \cup {"last"} : Save(n)
    \/ Timeout \/ ReadSource \/ Describe \/ ReadAgain \/ ReadBindings
    \/ PutFails \/ WriteSession \/ WriteLast \/ ArmAndExpire

Reopen ==
    \/ \E n \in Names : Restore(n)
    \/ \E job \in jobs : BeginRestore(job)
    \/ NextWorkspace \/ ChooseWorkspace \/ BindRestored
    \/ \E s \in 1..ids : FindWindow(s) \/ Launch(s)
    \/ Match \/ Place \/ SetLayout \/ EndRestore

Next == Desktop \/ Capture \/ Reopen \/ Restart

Spec == Init /\ [][Next]_vars

-----------------------------------------------------------------------------
Link == [id : Nat, epoch : Nat]

TypeOK ==
    /\ epoch \in Nat /\ connected \in BOOLEAN /\ opened \in 0..MaxOpened
    /\ DOMAIN windows \subseteq 1..opened
    /\ \A x \in DOMAIN windows : windows[x].at \in Workspaces /\ windows[x].token \in Nat
    /\ projects \subseteq Projects
    /\ bindings \in [Workspaces -> [project : Projects \cup {None}, epoch : Nat]]
    /\ slots \in [Workspaces -> Link] /\ anchors \in [1..MaxOpened -> Link]
    /\ launches \subseteq [saved : Nat, token : Nat, epoch : Nat]
    /\ armed \in 0..epoch
    /\ \A k \in DOMAIN checkpoints : k \in 1..ids /\ checkpoints[k] \in Projects
    /\ \A s \in DOMAIN slotProjects : s \in 1..ids /\ slotProjects[s] \in Projects
    /\ \A n \in Names : store[n] # None => store[n] \subseteq Description
    /\ op.kind \in {"none", "capture", "restore"}
    /\ \A j \in jobs : j.session \subseteq Description
    /\ report \in {"none", "running", "completed", "partial"}
    /\ dirty \in BOOLEAN /\ deferred \in BOOLEAN /\ ids \in Nat
    /\ recipe \in {"none", "tagged", "plain"}

\* A launch whose window may still come, or is there.
Outstanding(l) == l.window # 0 => l.window \in Of(l.token)

\* Two launches of one saved window in this life of the source.
Twice(l, m) == l # m /\ l.saved = m.saved /\ l.made = epoch /\ m.made = epoch

(* No saved window is launched again while an earlier launch of it in this *)
(* life of the source is unresolved or its window open, whatever timed     *)
(* out, failed or restarted between, as long as the source was not         *)
(* replaced while a restore went on (restore.rs: PENDING, LIVE_WINDOW).    *)
NoDuplicateLaunch ==
    \A l, m \in spawned :
        Twice(l, m) /\ l.stamp = l.made /\ m.stamp = m.made =>
            ~(Outstanding(l) /\ Outstanding(m))

(* No two windows, and no two workspaces, of the live epoch are the same   *)
(* saved one, so that every capture is a valid session; and a capture in   *)
(* hand is one.                                                            *)
SavedOnce ==
    /\ \A x, y \in DOMAIN windows :
        x # y /\ anchors[x].epoch = epoch => anchors[x] # anchors[y]
    /\ \A v, w \in Workspaces : v # w /\ slots[v].epoch = epoch => slots[v] # slots[w]
    /\ op.kind = "capture" /\ op.step = "put" => Valid(op.session)

(* A saved workspace keeps the project it had when it was saved: no later  *)
(* assignment, capture or restore changes what its checkpoint key says.    *)
SavesKeepProjects ==
    \A n \in Names : store[n] # None =>
        \A d \in store[n] :
            d.project = IF d.key \in DOMAIN checkpoints THEN checkpoints[d.key] ELSE None

(* A description spans no reset, and no window in it had gone when the     *)
(* links of its windows were written (capture.rs: "Do not commit           *)
(* observations spanning a reset or disappearing objects").  It may mix    *)
(* two desktops when windows and bindings both changed and changed back.   *)
CaptureReal == At("capture", "put") => op.real

ShownProject(w) ==
    IF bindings[w].epoch = epoch /\ bindings[w].project \in projects
    THEN bindings[w].project ELSE None

\* The workspaces that hold something, as they are and as a session describes them.
Shown ==
    {[ws |-> w, project |-> ShownProject(w), windows |-> Cardinality(Members(windows, w))] :
        w \in {v \in Workspaces :
                ShownProject(v) # None \/ Members(windows, v) # {} \/ v \in Named}}
Summary(session) ==
    {[ws |-> d.ws, project |-> d.project, windows |-> Cardinality(d.windows)] : d \in session}

(* At rest "current" is the desktop: the workspaces that hold something,   *)
(* their projects and how many windows each has (watch, capture).          *)
CurrentFollows ==
    /\ op = Idle /\ ~dirty /\ ~deferred /\ connected /\ Shown # {}
    /\ \A w \in Workspaces : bindings[w].project \in projects \cup {None}
    => store["current"] # None /\ Shown = Summary(store["current"])

(* No launch, no saved window and no saved workspace is there twice.       *)
LaunchesOnce == NoDuplicateLaunch /\ SavedOnce

(* What was saved is what was there, and stays so.                         *)
SavesHold == CaptureReal /\ SavesKeepProjects /\ CurrentFollows

(* "last" is replaced by a save of that name, or by an automatic capture   *)
(* of an epoch that a save or a complete restore has claimed, or of the    *)
(* first desktop there was: a new login does not overwrite it.             *)
LastProtected ==
    [][store'["last"] # store["last"] => op.name = "last" \/ op.epoch \in claimed]_vars

(* A completed restore is one: every saved window has its link.            *)
CompletedIsComplete ==
    [][op.kind = "restore" /\ op' = Idle /\ report' = "completed" =>
        \A d \in op.session : \A s \in d.windows :
            \E x \in 1..MaxOpened : anchors[x] = [id |-> s, epoch |-> epoch]]_vars

(* "Failed or ambiguous launches remain recorded for the current source    *)
(* epoch rather than silently spawning another copy on retry" (SESSION.md, *)
(* lines 35-37).  The code records a launch under the epoch its restore    *)
(* began in, and goes on launching when the source has been replaced.      *)
LaunchedOnce ==
    \A l, m \in spawned : Twice(l, m) => ~(Outstanding(l) /\ Outstanding(m))
=============================================================================
