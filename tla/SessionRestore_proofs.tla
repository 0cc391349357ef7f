------------------------ MODULE SessionRestore_proofs ------------------------
(***************************************************************************)
(* The safety of sessions for every number of workspaces, windows, calls,  *)
(* failures and changes: no launch, no saved window and no saved workspace *)
(* is there twice, what was saved is what was there, "last" is replaced    *)
(* only where it may be, and a restore that says it is complete is.        *)
(***************************************************************************)
EXTENDS SessionRestore, FiniteSetTheorems, WellFoundedInduction, TLAPS

\* What the constants are; no name, project or session is the absent one.
Sensible ==
    /\ Count \in Nat /\ MaxOpened \in Nat /\ Focused \in Workspaces
    /\ Recipes \subseteq {"none", "tagged", "plain"}
    /\ None \notin Projects /\ None \notin SUBSET Description

-----------------------------------------------------------------------------
(* The inductive invariant: types.                                         *)

Window == [at : Workspaces, token : Nat]
Bindings == [Workspaces -> [project : Projects \cup {None}, epoch : Nat]]

Types ==
    /\ epoch \in Nat \ {0} /\ connected \in BOOLEAN /\ opened \in 0..MaxOpened
    /\ DOMAIN windows \subseteq 1..opened /\ windows \in [DOMAIN windows -> Window]
    /\ projects \subseteq Projects /\ bindings \in Bindings
    /\ slots \in [Workspaces -> Link] /\ anchors \in [1..MaxOpened -> Link]
    /\ launches \subseteq [saved : Nat, token : Nat, epoch : Nat]
    /\ armed \in 0..epoch /\ ids \in Nat
    /\ DOMAIN checkpoints \subseteq 1..ids /\ checkpoints \in [DOMAIN checkpoints -> Projects]
    /\ DOMAIN slotProjects \subseteq 1..ids /\ slotProjects \in [DOMAIN slotProjects -> Projects]
    /\ store \in [Names -> {None} \cup SUBSET Description]
    /\ \A j \in jobs : j.session \subseteq Description
    /\ report \in {"none", "running", "completed", "partial"}
    /\ dirty \in BOOLEAN /\ deferred \in BOOLEAN
    /\ recipe \in {"none", "tagged", "plain"}
    /\ spawned \subseteq [token : Nat, saved : Nat, stamp : Nat, made : Nat, window : Nat]

Captured == {"again", "bindings", "put", "last", "expire", "arm"}
Inside == {"bind", "window", "match", "place"}

CaptureTypes ==
    op.kind = "capture" =>
        /\ op.step \in {"source", "describe"} \cup Captured
        /\ {"kind", "step", "name"} \subseteq DOMAIN op /\ op.name \in Names
        /\ op.step # "source" =>
            /\ {"epoch", "windows"} \subseteq DOMAIN op
            /\ op.epoch \in 1..epoch /\ DOMAIN op.windows \subseteq 1..MaxOpened
            /\ op.windows \in [DOMAIN op.windows -> Window]
        /\ op.step \in Captured =>
            /\ {"bindings", "real", "session"} \subseteq DOMAIN op
            /\ op.real \in BOOLEAN /\ op.session \subseteq Description

RestoreTypes ==
    op.kind = "restore" =>
        /\ op.step \in {"next", "choose"} \cup Inside
        /\ {"kind", "step", "session", "epoch", "projects", "left", "used", "issue"}
                \subseteq DOMAIN op
        /\ op.epoch \in 1..epoch /\ op.session \subseteq Description
        /\ op.projects \subseteq Projects /\ op.left \subseteq op.session
        /\ op.used \subseteq Workspaces /\ op.issue \in BOOLEAN
        /\ op.step = "choose" =>
            /\ {"desc", "project", "listed", "linked"} \subseteq DOMAIN op
            /\ op.desc \in op.session /\ op.project \in Projects \cup {None}
        /\ op.step \in Inside =>
            /\ {"target", "project", "todo"} \subseteq DOMAIN op
            /\ op.target \in Workspaces /\ op.project \in Projects \cup {None}
        /\ op.step = "match" => {"saved", "token"} \subseteq DOMAIN op /\ op.token \in 1..ids
        /\ op.step = "place" => {"window", "saved"} \subseteq DOMAIN op

OpTypes ==
    /\ op.kind \in {"none", "capture", "restore"} /\ (op.kind = "none" => op = Idle)
    /\ CaptureTypes /\ RestoreTypes

-----------------------------------------------------------------------------
(* Identities.                                                             *)

\* The identities P are of slots, the others of keys, windows and launches.
Sort(session, P) ==
    \A d \in session : d.slot \in P /\ d.windows \subseteq (1..ids) \ P /\ d.key \in 1..ids

Sorted(P) ==
    /\ P \subseteq 1..ids
    /\ \A w \in Workspaces : slots[w] # NoLink => slots[w].id \in P
    /\ \A x \in 1..MaxOpened : anchors[x] # NoLink => anchors[x].id \in (1..ids) \ P
    /\ \A n \in Names : store[n] # None => Sort(store[n], P)
    /\ \A j \in jobs : Sort(j.session, P)
    /\ op.kind = "capture" /\ op.step \in Captured => Sort(op.session, P)
    /\ op.kind = "restore" =>
        /\ Sort(op.session, P)
        /\ op.step \in Inside => op.todo \subseteq (1..ids) \ P
        /\ op.step = "match" => op.saved \in (1..ids) \ P

\* The operation in hand has read the source.
Pinned == op.kind = "restore" \/ (op.kind = "capture" /\ op.step # "source")

\* A slot is at one workspace, a window of this life is one saved window.
Links ==
    /\ \A v, w \in Workspaces : v # w /\ slots[v] # NoLink => slots[v] # slots[w]
    /\ \A x \in 1..MaxOpened :
        anchors[x].epoch <= epoch /\ (anchors[x].epoch = epoch => x <= opened)
    /\ \A x, y \in DOMAIN windows : x # y /\ anchors[x].epoch = epoch => anchors[x] # anchors[y]
    /\ Pinned => \A x \in 1..MaxOpened : anchors[x].epoch <= op.epoch

\* What a capture has read, while its life of the source lasts.
Snapshot ==
    op.kind = "capture" /\ op.step # "source" =>
        /\ op.epoch = epoch =>
            /\ DOMAIN op.windows \subseteq 1..opened
            /\ \A x \in DOMAIN windows : anchors[x].epoch = epoch => x \in DOMAIN op.windows
        /\ op.step = "describe" =>
            \A x, y \in DOMAIN op.windows :
                x # y /\ anchors[x].epoch = op.epoch => anchors[x] # anchors[y]

-----------------------------------------------------------------------------
(* Launches.                                                               *)

Recorded(l) == [saved |-> l.saved, token |-> l.token, epoch |-> l.stamp] \in launches
Anchored(l) ==
    l.window \in DOMAIN windows /\ anchors[l.window] = [id |-> l.saved, epoch |-> epoch]

\* A launch is known by its token, and at most one of a saved window is recorded.
Tokens ==
    /\ \A l \in spawned : l.token \in 1..ids /\ l.stamp <= l.made /\ l.made <= epoch
    /\ \A l, m \in spawned : l.token = m.token => l = m
    /\ \A r \in launches :
        \E l \in spawned : r = [saved |-> l.saved, token |-> l.token, epoch |-> l.stamp]
    /\ \A r, q \in launches : r.saved = q.saved => r = q
    /\ Pinned => \A r \in launches : r.epoch <= op.epoch

\* A launch of this life that may still come is recorded, or it is the saved window.
Launching ==
    /\ \A l \in spawned : l.stamp = epoch =>
        /\ l.window <= opened
        /\ Outstanding(l) => Recorded(l) \/ Anchored(l)
    /\ \A l, m \in spawned :
        l # m /\ l.saved = m.saved /\ l.stamp = epoch /\ m.stamp = epoch =>
            ~(Outstanding(l) /\ Outstanding(m))
    /\ op.kind = "restore" /\ op.step = "match" =>
        /\ [saved |-> op.saved, token |-> op.token, epoch |-> op.epoch] \in launches
        /\ op.epoch = epoch =>
            \A x \in DOMAIN windows : anchors[x] # [id |-> op.saved, epoch |-> epoch]

-----------------------------------------------------------------------------
(* Sessions.                                                               *)

ProjectOf(k) == IF k \in DOMAIN checkpoints THEN checkpoints[k] ELSE None

Keyed(session) ==
    /\ Valid(session) /\ \A d, e \in session : d # e => d.key # e.key
    /\ \A d \in session : d.project = ProjectOf(d.key)

Saves ==
    /\ \A n \in Names : store[n] # None => Keyed(store[n])
    /\ op.kind = "capture" /\ op.step \in Captured => Keyed(op.session)

\* The source was replaced, or a window that was read has gone.
Gone == epoch # op.epoch \/ \E x \in DOMAIN op.windows : x \notin DOMAIN windows

Reals ==
    op.kind = "capture" /\ op.step \in Captured => op.real \/ (op.step = "again" /\ Gone)

Claims ==
    /\ armed = 0 \/ armed \in claimed
    /\ op.kind = "capture" /\ op.step \in {"last", "arm"} => op.epoch \in claimed

\* A session is the desktop there is, if that can be told.
AsIs(session) ==
    /\ connected /\ Shown # {}
    /\ \A w \in Workspaces : bindings[w].project \in projects \cup {None}
    => session # None /\ Shown = Summary(session)

Writing == op.kind = "capture" /\ op.name = "current"
           /\ op.step \in {"source", "describe", "again", "bindings", "put"}

Follows ==
    ~dirty =>
        /\ ~deferred /\ ~Writing => AsIs(store["current"])
        /\ op.kind = "capture" /\ op.step = "describe" =>
                epoch = op.epoch /\ windows = op.windows
        /\ op.kind = "capture" /\ op.step \in {"again", "bindings", "put"} => AsIs(op.session)

IInv ==
    /\ Types /\ OpTypes /\ \E P \in SUBSET (1..ids) : Sorted(P)
    /\ Links /\ Snapshot /\ Tokens /\ Launching
    /\ Saves /\ Reals /\ Claims /\ Follows

-----------------------------------------------------------------------------
(* Bindings and records of workspaces change, or go.                       *)

LEMMA AsIsKept ==
    ASSUME NEW session, AsIs(session), projects' \subseteq projects,
           UNCHANGED <<epoch, connected, windows, bindings>>
    PROVE  AsIs(session)'
<1> SUFFICES ASSUME connected', Shown' # {},
                    \A w \in Workspaces : bindings'[w].project \in projects' \cup {None}
             PROVE  session # None /\ Shown' = Summary(session)
  BY DEF AsIs, Summary
<1>1. \A w \in Workspaces : ShownProject(w)' = ShownProject(w)
  BY DEF ShownProject
<1>2. Shown' = Shown
  BY <1>1 DEF Shown, Members
<1> QED
  BY <1>2 DEF AsIs

\* Nothing that is known of the desktop has changed, or the change was noticed.
LEMMA FollowsKept ==
    ASSUME IInv, UNCHANGED <<op, store, deferred>>,
           \/ dirty'
           \/ projects' \subseteq projects
              /\ UNCHANGED <<dirty, epoch, connected, windows, bindings>>
    PROVE  Follows'
<1>1. CASE dirty'
  BY <1>1 DEF Follows
<1>2. CASE projects' \subseteq projects
           /\ UNCHANGED <<dirty, epoch, connected, windows, bindings>>
  <2> SUFFICES ASSUME ~dirty PROVE Follows'
    BY <1>2 DEF Follows
  <2>1. ~deferred /\ ~Writing => AsIs(store["current"])'
    <3> SUFFICES ASSUME ~deferred, ~Writing PROVE AsIs(store["current"])'
      OBVIOUS
    <3>1. PICK s : s = store["current"]
      OBVIOUS
    <3>2. AsIs(s)
      BY <3>1 DEF IInv, Follows
    <3>3. AsIs(s)'
      BY <1>2, <3>2, AsIsKept
    <3> QED
      BY <3>1, <3>3
  <2>2. op.kind = "capture" /\ op.step \in {"again", "bindings", "put"} => AsIs(op.session)'
    <3> SUFFICES ASSUME op.kind = "capture", op.step \in {"again", "bindings", "put"}
                 PROVE  AsIs(op.session)'
      OBVIOUS
    <3>1. PICK s : s = op.session
      OBVIOUS
    <3>2. AsIs(s)
      BY <3>1 DEF IInv, Follows
    <3>3. AsIs(s)'
      BY <1>2, <3>2, AsIsKept
    <3> QED
      BY <3>1, <3>3
  <2> QED
    BY <1>2, <2>1, <2>2 DEF IInv, Follows, Writing
<1> QED
  BY <1>1, <1>2

LEMMA BindingsHold ==
    ASSUME IInv, projects' \subseteq projects, bindings' \in Bindings,
           slots' \in [Workspaces -> Link],
           \A w \in Workspaces : slots'[w] \in {slots[w], NoLink},
           DOMAIN slotProjects' \subseteq DOMAIN slotProjects,
           slotProjects' \in [DOMAIN slotProjects' -> Projects],
           dirty' \in BOOLEAN, dirty' \/ UNCHANGED <<dirty, bindings>>,
           UNCHANGED <<source, anchors, launches, armed, checkpoints, store, op, jobs, report,
                       ids, recipe, history>>
    PROVE  IInv'
<1> USE DEF source, history
<1>1. Types'
  BY DEF IInv, Types
<1>2. OpTypes'
  BY DEF IInv, OpTypes, CaptureTypes, RestoreTypes
<1>3. PICK P \in SUBSET (1..ids) : Sorted(P)
  BY DEF IInv
<1>4. Sorted(P)'
  BY <1>3 DEF Sorted, Sort
<1>5. Links'
  BY DEF IInv, Links, Pinned
<1>6. Snapshot' /\ Tokens' /\ Saves' /\ Reals' /\ Claims'
  BY DEF IInv, Snapshot, Tokens, Pinned, Saves, Keyed, Valid, ProjectOf, Reals, Gone, Claims
<1>7. Launching'
  BY DEF IInv, Launching, Outstanding, Of, Recorded, Anchored
<1>8. Follows'
  BY FollowsKept
<1> QED
  BY <1>1, <1>2, <1>4, <1>5, <1>6, <1>7, <1>8 DEF IInv

LEMMA NoneOf ==
    /\ NoLink \in Link /\ NoLink.id = 0 /\ NoLink.epoch = 0
    /\ NoBinding \in [project : Projects \cup {None}, epoch : Nat] /\ NoBinding.project = None
    /\ \A k \in Meaningful : \A b \in BOOLEAN :
        /\ Noticed(k) => dirty' = TRUE
        /\ NoticedIf(k, b) => dirty' = (dirty \/ b)
BY DEF NoLink, Link, NoBinding, Noticed, NoticedIf

LEMMA FitTypes ==
    ASSUME Types
    PROVE  /\ Fit(bindings, NoBinding) \in Bindings /\ Fit(slots, NoLink) \in [Workspaces -> Link]
           /\ \A w \in Workspaces : Fit(slots, NoLink)[w] \in {slots[w], NoLink}
BY NoneOf DEF Types, Fit, Bindings

LEMMA BoundTypes ==
    ASSUME Types, NEW w \in Workspaces, NEW p \in Projects
    PROVE  Bound(w, p) \in Bindings
<1>1. [project |-> p, epoch |-> epoch] \in [project : Projects \cup {None}, epoch : Nat]
  BY DEF Types
<1> QED
  BY <1>1, FitTypes DEF Bound, Bindings

LEMMA BindingSteps ==
    ASSUME IInv,
           \/ \E w \in Workspaces : Unassign(w)
           \/ \E p \in projects : RemoveProject(p) \/ \E w \in Workspaces : Bind(w, p)
           \/ ReconcileProjects \/ Expire \/ Unset
    PROVE  IInv'
<1>1. Types
  BY DEF IInv
<1>2. ASSUME NEW w \in Workspaces, Unassign(w) PROVE IInv'
  <2>1. /\ bindings' = [bindings EXCEPT ![w] = NoBinding] /\ dirty' = TRUE
        /\ UNCHANGED <<source, projects, slots, anchors, launches, armed, checkpoints,
                       slotProjects, store, op, jobs, report, expired, ids, recipe, history>>
    BY <1>2, NoneOf DEF Unassign, Meaningful
  <2>2. bindings' \in Bindings
    BY <1>1, <2>1, NoneOf DEF Types, Bindings
  <2> QED
    BY <1>1, <2>1, <2>2, BindingsHold DEF Types
<1>3. ASSUME NEW p \in projects, RemoveProject(p) PROVE IInv'
  BY <1>1, <1>3, BindingsHold DEF RemoveProject, Types, records
<1>4. ASSUME NEW p \in projects, NEW w \in Workspaces, Bind(w, p) PROVE IInv'
  <2>1. /\ bindings' = Bound(w, p) /\ slots' = Fit(slots, NoLink) /\ dirty' = TRUE
        /\ UNCHANGED <<source, projects, anchors, launches, armed, checkpoints, slotProjects,
                       store, op, jobs, report, expired, ids, recipe, history>>
    BY <1>4, NoneOf DEF Bind, Meaningful
  <2>2. bindings' \in Bindings
    BY <1>1, <2>1, BoundTypes DEF Types
  <2> QED
    BY <1>1, <2>1, <2>2, FitTypes, BindingsHold DEF Types
<1>5. CASE ReconcileProjects
  <2>1. /\ bindings' = [w \in Workspaces |-> IF bindings[w].project \in projects
                                             THEN bindings[w] ELSE NoBinding]
        /\ slotProjects' = [s \in {t \in DOMAIN slotProjects : slotProjects[t] \in projects}
                                |-> slotProjects[s]]
        /\ dirty' = (dirty \/ bindings' # bindings)
        /\ UNCHANGED <<source, projects, slots, anchors, launches, armed, checkpoints,
                       store, op, jobs, report, expired, ids, recipe, history>>
    BY <1>5, NoneOf DEF ReconcileProjects, Meaningful
  <2>2. bindings' \in Bindings
    BY <1>1, <2>1, NoneOf DEF Types, Bindings
  <2>3. /\ DOMAIN slotProjects' \subseteq DOMAIN slotProjects
        /\ slotProjects' \in [DOMAIN slotProjects' -> Projects]
    BY <1>1, <2>1 DEF Types
  <2> QED
    BY <1>1, <2>1, <2>2, <2>3, BindingsHold DEF Types
<1>6. CASE Expire
  <2>1. /\ bindings' = Fit(bindings, NoBinding) /\ dirty' = (dirty \/ bindings' # bindings)
        /\ UNCHANGED <<source, projects, slots, anchors, launches, armed, checkpoints,
                       slotProjects, store, op, jobs, report, ids, recipe, history>>
    BY <1>6, NoneOf DEF Expire, Meaningful
  <2> QED
    BY <1>1, <2>1, FitTypes, BindingsHold DEF Types
<1>7. CASE Unset
  <2>1. /\ slots' = [w \in Workspaces |-> IF [ws |-> w, id |-> slots[w].id] \in expired
                                          THEN NoLink ELSE slots[w]]
        /\ UNCHANGED <<source, projects, bindings, anchors, launches, armed, checkpoints,
                       slotProjects, store, op, jobs, report, dirty, ids, recipe, history>>
    BY <1>7 DEF Unset
  <2>2. slots' \in [Workspaces -> Link] /\ \A w \in Workspaces : slots'[w] \in {slots[w], NoLink}
    BY <1>1, <2>1, NoneOf DEF Types
  <2> QED
    BY <1>1, <2>1, <2>2, BindingsHold DEF Types
<1> QED
  BY <1>2, <1>3, <1>4, <1>5, <1>6, <1>7

-----------------------------------------------------------------------------
(* Windows come, go and move, and the source with them.                    *)

LEMMA OpTypesKept ==
    ASSUME OpTypes, UNCHANGED op, epoch \in Nat, epoch' \in Nat, epoch <= epoch',
           ids \in Nat, ids' \in Nat, ids <= ids'
    PROVE  OpTypes'
<1>1. 1..epoch \subseteq 1..epoch' /\ 1..ids \subseteq 1..ids'
  OBVIOUS
<1>2. CaptureTypes'
  BY <1>1 DEF OpTypes, CaptureTypes
<1>3. RestoreTypes'
  BY <1>1 DEF OpTypes, RestoreTypes
<1> QED
  BY <1>2, <1>3 DEF OpTypes

\* A window of this life that was not there has no link and no launch.
LEMMA ArriveHolds ==
    ASSUME IInv, NEW token \in Nat, Sensible, opened < MaxOpened, opened' = opened + 1,
           windows' = With(windows, [x \in {opened'} |-> [at |-> Focused, token |-> token]]),
           dirty' = TRUE,
           UNCHANGED <<epoch, connected, projects, records, store, op, jobs, report, expired,
                       ids, recipe, history>>
    PROVE  IInv'
<1> USE DEF records, history
<1>1. /\ DOMAIN windows' = DOMAIN windows \cup {opened'}
      /\ windows'[opened'] = [at |-> Focused, token |-> token]
      /\ \A x \in DOMAIN windows : x \in 1..opened /\ x # opened' /\ windows'[x] = windows[x]
      /\ opened \in Nat /\ opened' \in Nat
  BY DEF IInv, Types, With
<1>2. DOMAIN windows' \subseteq 1..opened' /\ windows' \in [DOMAIN windows' -> Window]
  <2>1. windows' = [x \in DOMAIN windows' |-> windows'[x]]
    BY DEF With
  <2>2. \A x \in DOMAIN windows' : windows'[x] \in Window /\ x \in 1..opened'
    BY <1>1 DEF IInv, Types, Window, Sensible
  <2> QED
    BY <2>1, <2>2
<1>3. Types'
  <2>1. opened' \in 0..MaxOpened
    BY <1>1 DEF Sensible
  <2> QED
    BY <1>2, <2>1 DEF IInv, Types
<1>4. OpTypes'
  <2>1. OpTypes /\ epoch \in Nat /\ ids \in Nat
    BY DEF IInv, Types
  <2>2. UNCHANGED <<op, epoch, ids>>
    OBVIOUS
  <2>3. epoch' \in Nat /\ epoch <= epoch' /\ ids' \in Nat /\ ids <= ids'
    BY <2>1, <2>2
  <2> QED
    BY <2>1, <2>2, <2>3, OpTypesKept
<1>5. PICK P \in SUBSET (1..ids) : Sorted(P)
  BY DEF IInv
<1>6. Sorted(P)'
  BY <1>5 DEF Sorted, Sort
<1>7. opened' \in 1..MaxOpened /\ anchors[opened'].epoch # epoch
  <2>1. opened' \in 1..MaxOpened
    BY <1>1 DEF Sensible
  <2>2. anchors[opened'].epoch = epoch => opened' <= opened
    BY <2>1 DEF IInv, Links
  <2> QED
    BY <1>1, <2>1, <2>2
<1>8. Links'
  BY <1>1, <1>7 DEF IInv, Links, Pinned, Types
<1>9. Snapshot'
  BY <1>1, <1>7 DEF IInv, Snapshot
<1>10. Tokens' /\ Saves' /\ Claims' /\ Follows'
  BY FollowsKept DEF IInv, Tokens, Pinned, Saves, Keyed, Valid, ProjectOf, Claims
<1>11. Reals'
  <2>1. op.kind = "capture" /\ op.step = "again" /\ Gone => Gone'
    BY <1>1 DEF IInv, Gone, Snapshot, OpTypes, CaptureTypes
  <2> QED
    BY <2>1 DEF IInv, Reals
<1>12. Launching'
  <2>1. ASSUME NEW l \in spawned, l.stamp = epoch
        PROVE  /\ l.window <= opened' /\ (Outstanding(l)' <=> Outstanding(l))
               /\ Anchored(l) => Anchored(l)'
    <3>1. l.window \in Nat /\ l.window <= opened /\ l.window # opened'
      BY <1>1, <2>1 DEF IInv, Launching, Types
    <3> QED
      BY <1>1, <3>1 DEF Outstanding, Of, Anchored
  <2>2. op.kind = "restore" /\ op.step = "match" /\ op.epoch = epoch
            => anchors[opened'] # [id |-> op.saved, epoch |-> epoch]
    BY <1>7
  <2> QED
    BY <1>1, <2>1, <2>2 DEF IInv, Launching, Recorded
<1> QED
  BY <1>3, <1>4, <1>6, <1>8, <1>9, <1>10, <1>11, <1>12 DEF IInv

LEMMA ArriveSteps == ASSUME Sensible, IInv, Open \/ \E l \in spawned : Appear(l) PROVE IInv'
<1>1. CASE Open
  BY <1>1, ArriveHolds, NoneOf DEF Open, Meaningful
<1>2. ASSUME NEW l \in spawned, Appear(l) PROVE IInv'
  <2>1. l.token \in Nat
    BY DEF IInv, Types
  <2>2. dirty' = TRUE
    BY <1>2, NoneOf DEF Appear, Meaningful
  <2> QED
    BY <1>2, <2>1, <2>2, ArriveHolds DEF Appear
<1> QED
  BY <1>1, <1>2

\* Windows close, or move.
LEMMA LeaveHolds ==
    ASSUME IInv, DOMAIN windows' \subseteq DOMAIN windows,
           windows' \in [DOMAIN windows' -> Window],
           \A x \in DOMAIN windows' : windows'[x].token = windows[x].token,
           dirty' = TRUE,
           UNCHANGED <<epoch, connected, opened, projects, records, store, op, jobs, report,
                       expired, ids, recipe, history>>
    PROVE  IInv'
<1> USE DEF records, history
<1>1. Types'
  BY DEF IInv, Types
<1>2. OpTypes'
  BY DEF IInv, OpTypes, CaptureTypes, RestoreTypes
<1>3. PICK P \in SUBSET (1..ids) : Sorted(P)
  BY DEF IInv
<1>4. Sorted(P)'
  BY <1>3 DEF Sorted, Sort
<1>5. Links'
  BY DEF IInv, Links, Pinned
<1>6. Snapshot'
  BY DEF IInv, Snapshot
<1>7. Tokens' /\ Saves' /\ Claims' /\ Follows'
  BY FollowsKept DEF IInv, Tokens, Pinned, Saves, Keyed, Valid, ProjectOf, Claims
<1>8. Reals'
  BY DEF IInv, Reals, Gone
<1>9. Launching'
  <2>1. ASSUME NEW l \in spawned, l.stamp = epoch
        PROVE  /\ Outstanding(l)' => Outstanding(l)
               /\ Outstanding(l)' /\ Anchored(l) => Anchored(l)'
    <3>1. DOMAIN windows \subseteq 1..opened
      BY DEF IInv, Types
    <3> QED
      BY <3>1 DEF Outstanding, Of, Anchored
  <2> QED
    BY <2>1 DEF IInv, Launching, Recorded
<1> QED
  BY <1>1, <1>2, <1>4, <1>5, <1>6, <1>7, <1>8, <1>9 DEF IInv

LEMMA LeaveSteps ==
    ASSUME IInv, \E x \in DOMAIN windows : Close(x) \/ \E w \in Workspaces : Move(x, w)
    PROVE  IInv'
<1>0. windows \in [DOMAIN windows -> Window]
  BY DEF IInv, Types
<1>1. ASSUME NEW x \in DOMAIN windows, Close(x) PROVE IInv'
  <2>1. windows' = [y \in DOMAIN windows \ {x} |-> windows[y]] /\ dirty' = TRUE
    BY <1>1, NoneOf DEF Close, Meaningful
  <2>2. /\ DOMAIN windows' \subseteq DOMAIN windows /\ windows' \in [DOMAIN windows' -> Window]
        /\ \A y \in DOMAIN windows' : windows'[y].token = windows[y].token
    BY <1>0, <2>1
  <2> QED
    BY <1>1, <2>1, <2>2, LeaveHolds DEF Close
<1>2. ASSUME NEW x \in DOMAIN windows, NEW w \in Workspaces, Move(x, w) PROVE IInv'
  <2>1. windows' = [windows EXCEPT ![x].at = w] /\ dirty' = TRUE
    BY <1>2, NoneOf DEF Move, Meaningful
  <2>2. /\ DOMAIN windows' \subseteq DOMAIN windows /\ windows' \in [DOMAIN windows' -> Window]
        /\ \A y \in DOMAIN windows' : windows'[y].token = windows[y].token
    BY <1>0, <2>1 DEF Window
  <2> QED
    BY <1>2, <2>1, <2>2, LeaveHolds DEF Move
<1> QED
  BY <1>1, <1>2

\* In a new life nothing is linked or launched yet.
LEMMA ReplacedSteps == ASSUME Sensible, IInv, Lose \/ Connect PROVE IInv'
<1>1. /\ epoch' = epoch + 1 /\ dirty' = TRUE /\ connected' \in BOOLEAN
      /\ UNCHANGED <<projects, records, store, op, jobs, report, expired, ids, recipe, history>>
  BY NoneOf DEF Lose, Connect, Meaningful
<1>2. UNCHANGED <<windows, opened>> \/ (windows' = <<>> /\ opened' = 0)
  BY DEF Lose, Connect
<1>3. /\ epoch \in Nat /\ epoch' \in Nat /\ epoch <= epoch' /\ epoch' # epoch /\ ids \in Nat
      /\ epoch' # 0
  BY <1>1 DEF IInv, Types
<1>4. Types'
  <2>1. /\ opened' \in 0..MaxOpened /\ DOMAIN windows' \subseteq 1..opened'
        /\ windows' \in [DOMAIN windows' -> Window]
    <3>1. CASE UNCHANGED <<windows, opened>>
      BY <3>1 DEF IInv, Types
    <3>2. CASE windows' = <<>> /\ opened' = 0
      <4>1. DOMAIN windows' = {} /\ windows' \in [{} -> Window]
        BY <3>2
      <4> QED
        BY <3>2, <4>1 DEF Sensible
    <3> QED
      BY <1>2, <3>1, <3>2
  <2>2. armed' \in 0..epoch'
    BY <1>1, <1>3 DEF IInv, Types, records
  <2> QED
    BY <1>1, <1>3, <2>1, <2>2 DEF IInv, Types, records, history
<1>5. OpTypes'
  <2>1. OpTypes /\ UNCHANGED <<op, ids>>
    BY <1>1 DEF IInv
  <2> QED
    BY <1>3, <2>1, OpTypesKept
<1>6. PICK P \in SUBSET (1..ids) : Sorted(P)
  BY DEF IInv
<1>7. Sorted(P)'
  BY <1>1, <1>6 DEF Sorted, Sort, records
<1>8. /\ \A x \in 1..MaxOpened :
            anchors[x].epoch <= epoch' /\ anchors[x].epoch # epoch'
      /\ \A l \in spawned : l.stamp # epoch' /\ l.made <= epoch'
      /\ Pinned => op.epoch # epoch'
      /\ UNCHANGED <<anchors, spawned, op, launches, store, checkpoints, armed, claimed>>
  <2>1. ASSUME NEW x \in 1..MaxOpened
        PROVE  anchors[x].epoch <= epoch' /\ anchors[x].epoch # epoch'
    <3>1. anchors[x].epoch \in Nat /\ anchors[x].epoch <= epoch
      BY DEF IInv, Types, Links, Link
    <3> QED
      BY <1>1, <1>3, <3>1
  <2>2. ASSUME NEW l \in spawned PROVE l.stamp # epoch' /\ l.made <= epoch'
    <3>1. l.stamp \in Nat /\ l.made \in Nat /\ l.stamp <= l.made /\ l.made <= epoch
      BY DEF IInv, Types, Tokens
    <3> QED
      BY <1>1, <1>3, <3>1
  <2>3. Pinned => op.epoch # epoch'
    <3>1. Pinned => op.epoch \in 1..epoch
      BY DEF IInv, Pinned, OpTypes, CaptureTypes, RestoreTypes
    <3> QED
      BY <1>1, <1>3, <3>1
  <2> QED
    BY <1>1, <2>1, <2>2, <2>3 DEF records, history
<1>9. Links'
  <2>1. DOMAIN windows' \subseteq 1..MaxOpened
    BY <1>4 DEF Types, Sensible
  <2> QED
    BY <1>1, <1>8, <2>1 DEF IInv, Links, Pinned, records
<1>10. Snapshot'
  BY <1>8 DEF IInv, Snapshot, Pinned
<1>11. Tokens'
  BY <1>1, <1>8 DEF IInv, Tokens, Pinned
<1>12. Launching'
  BY <1>8 DEF IInv, Launching, Pinned
<1>13. Saves' /\ Claims' /\ Follows'
  BY <1>1, FollowsKept DEF IInv, Saves, Keyed, Valid, ProjectOf, Claims, records, history
<1>14. Reals'
  <2>1. op.kind = "capture" /\ op.step = "again" => Gone'
    BY <1>8 DEF Gone, Pinned
  <2> QED
    BY <1>8, <2>1 DEF IInv, Reals
<1> QED
  BY <1>1, <1>4, <1>5, <1>6, <1>7, <1>9, <1>10, <1>11, <1>12, <1>13, <1>14 DEF IInv

-----------------------------------------------------------------------------
(* Steps of an operation that find what is known as it is.                 *)

\* The operation goes on, ends or begins, with what there was already.
GoesOn ==
    /\ Pinned' => op'.epoch = epoch \/ (Pinned /\ op'.epoch = op.epoch)
    /\ op'.kind = "capture" /\ op'.step \in Captured =>
        op.kind = "capture" /\ op.step \in Captured /\ op'.session = op.session
    /\ op'.kind = "capture" /\ op'.step \in {"last", "arm"} =>
        op.kind = "capture" /\ op.step \in {"last", "arm"} /\ op'.epoch = op.epoch
    /\ op'.kind = "restore" =>
        /\ op'.step # "match"
        /\ \/ op.kind = "restore" /\ op'.session = op.session
           \/ \E j \in jobs : op'.session = j.session
        /\ op'.step \in Inside =>
            /\ op.kind = "restore"
            /\ \/ op.step \in Inside /\ op'.todo \subseteq op.todo
               \/ op'.todo \in {d.windows : d \in op.session}

\* Links of slots go, or the slot of a description gets its one place.
SlotsFit ==
    /\ slots' \in [Workspaces -> Link]
    /\ \A v, w \in Workspaces : v # w /\ slots'[v] # NoLink => slots'[v] # slots'[w]
    /\ \A w \in Workspaces :
        \/ slots'[w] \in {slots[w], NoLink}
        \/ op.kind = "restore" /\ slots'[w].id \in {d.slot : d \in op.session}

\* The windows are the same ones, wherever they are.
SameWindows ==
    /\ UNCHANGED <<epoch, connected, opened>> /\ DOMAIN windows' = DOMAIN windows
    /\ windows' \in [DOMAIN windows' -> Window]
    /\ \A x \in DOMAIN windows : windows'[x].token = windows[x].token

LEMMA SourceSame == ASSUME IInv, UNCHANGED source PROVE SameWindows
BY DEF IInv, Types, source, SameWindows

LEMMA GoesOnHolds ==
    ASSUME IInv, GoesOn, SlotsFit, OpTypes', Snapshot', Reals', Follows', SameWindows,
           jobs' \subseteq jobs, report' \in {"none", "running", "completed", "partial"},
           dirty' \in BOOLEAN, deferred' \in BOOLEAN, bindings' \in Bindings,
           DOMAIN slotProjects' \subseteq 1..ids,
           slotProjects' \in [DOMAIN slotProjects' -> Projects],
           claimed \subseteq claimed', armed' \in 0..epoch, armed' = 0 \/ armed' \in claimed',
           UNCHANGED <<projects, anchors, launches, checkpoints, store, ids, recipe, spawned>>
    PROVE  IInv'
<1> USE DEF SameWindows
<1>1. Types'
  BY DEF IInv, Types, SlotsFit
<1>2. PICK P \in SUBSET (1..ids) : Sorted(P)
  BY DEF IInv
<1>3. Sorted(P)'
  <2>1. \A w \in Workspaces : slots'[w] # NoLink => slots'[w].id \in P
    BY <1>2 DEF SlotsFit, Sorted, Sort
  <2>2. op'.kind = "capture" /\ op'.step \in Captured => Sort(op'.session, P)
    BY <1>2 DEF GoesOn, Sorted
  <2>3. ASSUME op'.kind = "restore"
        PROVE  /\ Sort(op'.session, P)
               /\ op'.step \in Inside => op'.todo \subseteq (1..ids) \ P
    BY <1>2, <2>3 DEF GoesOn, Sorted, Sort
  <2> QED
    BY <1>2, <2>1, <2>2, <2>3 DEF Sorted, Sort, GoesOn
<1>4. Links'
  <2>1. Pinned' => \A x \in 1..MaxOpened : anchors'[x].epoch <= op'.epoch
    BY DEF IInv, Links, GoesOn
  <2> QED
    BY <2>1 DEF IInv, Links, SlotsFit
<1>5. Tokens'
  <2>1. Pinned' => \A r \in launches' : r.epoch <= op'.epoch
    <3>1. \A r \in launches : r.epoch <= epoch
      BY DEF IInv, Tokens, Types
    <3> QED
      BY <3>1 DEF IInv, Tokens, GoesOn
  <2> QED
    BY <2>1 DEF IInv, Tokens
<1>6. Launching'
  BY DEF IInv, Launching, GoesOn, Outstanding, Of, Recorded, Anchored
<1>7. Saves'
  BY DEF IInv, Saves, GoesOn, Keyed, Valid, ProjectOf
<1>8. Claims'
  BY DEF IInv, Claims, GoesOn
<1> QED
  BY <1>1, <1>3, <1>4, <1>5, <1>6, <1>7, <1>8 DEF IInv

LEMMA SlotsSame == ASSUME IInv, UNCHANGED slots PROVE SlotsFit
BY DEF IInv, Types, Links, SlotsFit

\* The records are as they were, and so is what has been claimed.
Quiet ==
    /\ UNCHANGED <<source, projects, records, store, ids, recipe, spawned>>
    /\ claimed' = claimed /\ jobs' \subseteq jobs

LEMMA QuietHolds ==
    ASSUME IInv, GoesOn, Quiet, OpTypes', Snapshot', Reals', Follows',
           report' \in {"none", "running", "completed", "partial"},
           dirty' \in BOOLEAN, deferred' \in BOOLEAN
    PROVE  IInv'
<1>1. SlotsFit
  BY SlotsSame DEF Quiet, records
<1>2. /\ bindings' \in Bindings /\ DOMAIN slotProjects' \subseteq 1..ids
      /\ slotProjects' \in [DOMAIN slotProjects' -> Projects]
      /\ armed' \in 0..epoch /\ (armed' = 0 \/ armed' \in claimed')
  BY DEF IInv, Types, Claims, Quiet, records
<1> QED
  BY <1>1, <1>2, GoesOnHolds, SourceSame DEF Quiet, records

\* An operation ends.
LEMMA IdleHolds ==
    ASSUME IInv, op' = Idle, Quiet, report' \in {"none", "running", "completed", "partial"},
           \/ dirty' = TRUE
           \/ dirty' = dirty /\ (~deferred' => ~deferred /\ ~Writing),
           dirty' \in BOOLEAN, deferred' \in BOOLEAN
    PROVE  IInv'
<1>1. op'.kind = "none"
  BY DEF Idle
<1>2. OpTypes' /\ GoesOn /\ Snapshot' /\ Reals'
  BY <1>1 DEF OpTypes, CaptureTypes, RestoreTypes, GoesOn, Pinned, Snapshot, Reals
<1>3. Follows'
  <2> SUFFICES ASSUME ~dirty', ~deferred' PROVE AsIs(store["current"])'
    BY <1>1 DEF Follows
  <2>1. PICK s : s = store["current"]
    OBVIOUS
  <2>2. AsIs(s)
    BY <2>1 DEF IInv, Follows
  <2>3. AsIs(s)'
    BY <2>2, AsIsKept DEF Quiet, source, records
  <2> QED
    BY <2>1, <2>3 DEF Quiet
<1> QED
  BY <1>2, <1>3, QuietHolds

LEMMA BeginSteps ==
    ASSUME IInv, Automatic \/ \E n \in Explicit \cup {"last"} : Save(n)
    PROVE  IInv'
<1>1. /\ op = Idle /\ Quiet /\ UNCHANGED <<report, deferred>> /\ dirty' \in BOOLEAN
      /\ \E n \in Names : /\ op' = [kind |-> "capture", step |-> "source", name |-> n]
                          /\ n = "current" \/ dirty' = dirty
  BY DEF Automatic, Save, Begin, Quiet, history, records, Names, IInv, Types
<1>2. PICK n \in Names : /\ op' = [kind |-> "capture", step |-> "source", name |-> n]
                         /\ n = "current" \/ dirty' = dirty
  BY <1>1
<1>3. /\ op'.kind = "capture" /\ op'.step = "source" /\ op'.name = n
      /\ {"kind", "step", "name"} \subseteq DOMAIN op'
  BY <1>2
<1>4. OpTypes' /\ GoesOn /\ Snapshot' /\ Reals'
  BY <1>3 DEF OpTypes, CaptureTypes, RestoreTypes, GoesOn, Pinned, Snapshot, Reals, Captured
<1>5. Follows'
  <2> SUFFICES ASSUME ~dirty', ~deferred', n # "current" PROVE AsIs(store["current"])'
    BY <1>3 DEF Follows, Writing
  <2>1. PICK s : s = store["current"]
    OBVIOUS
  <2>2. op.kind = "none"
    BY <1>1 DEF Idle
  <2>3. AsIs(s)
    BY <1>1, <1>2, <2>1, <2>2 DEF IInv, Follows, Writing
  <2>4. AsIs(s)'
    BY <1>1, <2>3, AsIsKept DEF Quiet, source, records
  <2> QED
    BY <1>1, <2>1, <2>4 DEF Quiet
<1> QED
  BY <1>1, <1>4, <1>5, QuietHolds DEF IInv, Types

LEMMA GiveUpSteps == ASSUME IInv, Timeout \/ PutFails PROVE IInv'
<1>1. /\ op.kind = "capture" /\ op' = Idle /\ Quiet /\ UNCHANGED <<dirty, report>>
      /\ deferred' = (deferred \/ ~Explicitly)
  BY DEF Timeout, PutFails, GiveUp, Quiet, Capturing, At
<1>2. ~deferred' => ~deferred /\ ~Writing
  BY <1>1 DEF Explicitly, Writing
<1> QED
  BY <1>1, <1>2, IdleHolds DEF IInv, Types

LEMMA ReadSourceStep == ASSUME Sensible, IInv, ReadSource PROVE IInv'
<1>1. /\ op.kind = "capture" /\ op.step = "source" /\ Quiet
      /\ op' = [kind |-> "capture", step |-> "describe", name |-> op.name,
                epoch |-> epoch, windows |-> windows]
      /\ UNCHANGED <<report, dirty, deferred>>
  BY DEF ReadSource, Quiet, Capturing, At, history
<1>2. /\ op'.kind = "capture" /\ op'.step = "describe" /\ op'.name = op.name
      /\ op'.epoch = epoch /\ op'.windows = windows
      /\ {"kind", "step", "name", "epoch", "windows"} \subseteq DOMAIN op'
  BY <1>1
<1>3. UNCHANGED <<epoch, connected, windows, opened, anchors, bindings, projects, store, ids>>
  BY <1>1 DEF Quiet, source, records
<1>4. OpTypes'
  <2>1. epoch \in 1..epoch
    <3>1. epoch \in Nat \ {0}
      BY DEF IInv, Types
    <3> QED
      BY <3>1
  <2>2. DOMAIN windows \subseteq 1..MaxOpened
    BY DEF IInv, Types, Sensible
  <2> QED
    BY <1>1, <1>2, <1>3, <2>1, <2>2
       DEF OpTypes, CaptureTypes, RestoreTypes, Captured, IInv, Types
<1>5. GoesOn /\ Reals'
  BY <1>2 DEF GoesOn, Reals, Captured
<1>6. Snapshot'
  <2>1. DOMAIN windows \subseteq 1..opened
    BY DEF IInv, Types
  <2> QED
    BY <1>2, <1>3, <2>1 DEF Snapshot, IInv, Links
<1>7. Follows'
  <2> SUFFICES ASSUME ~dirty', ~deferred', ~Writing' PROVE AsIs(store["current"])'
    BY <1>2, <1>3 DEF Follows
  <2>1. ~Writing
    BY <1>1, <1>2 DEF Writing
  <2>2. PICK s : s = store["current"]
    OBVIOUS
  <2>3. AsIs(s)
    BY <1>1, <2>1, <2>2 DEF IInv, Follows
  <2>4. AsIs(s)'
    BY <1>3, <2>3, AsIsKept
  <2> QED
    BY <1>3, <2>2, <2>4
<1> QED
  BY <1>1, <1>4, <1>5, <1>6, <1>7, QuietHolds DEF IInv, Types

\* The description is as it was at the next step, or the capture starts again.
LEMMA AgainSteps == ASSUME IInv, ReadAgain \/ ReadBindings PROVE IInv'
<1>1. /\ op.kind = "capture" /\ op.step \in {"again", "bindings"} /\ Quiet
      /\ UNCHANGED <<report, dirty, deferred>>
      /\ \/ op' = [kind |-> "capture", step |-> "source", name |-> op.name]
         \/ op' = [op EXCEPT !.step = "bindings"] /\ op.step = "again" /\ SameSource
         \/ op' = [op EXCEPT !.step = "put"] /\ op.step = "bindings"
  BY DEF ReadAgain, ReadBindings, Quiet, Capturing, At, history, Again, SeenAt
<1>2. UNCHANGED <<epoch, connected, windows, opened, anchors, bindings, projects, store, ids>>
  BY <1>1 DEF Quiet, source, records
<1>3. CASE op' = [kind |-> "capture", step |-> "source", name |-> op.name]
  <2>1. /\ op'.kind = "capture" /\ op'.step = "source" /\ op'.name = op.name
        /\ {"kind", "step", "name"} \subseteq DOMAIN op'
    BY <1>3
  <2>2. OpTypes' /\ GoesOn /\ Snapshot' /\ Reals'
    BY <1>1, <2>1 DEF IInv, OpTypes, CaptureTypes, RestoreTypes, GoesOn, Pinned, Snapshot,
                      Reals, Captured
  <2>3. Follows'
    <3> SUFFICES ASSUME ~dirty', ~deferred', ~Writing' PROVE AsIs(store["current"])'
      BY <2>1 DEF Follows
    <3>1. ~Writing
      BY <1>1, <2>1 DEF Writing
    <3>2. PICK s : s = store["current"]
      OBVIOUS
    <3>3. AsIs(s)
      BY <1>1, <3>1, <3>2 DEF IInv, Follows
    <3>4. AsIs(s)'
      BY <1>2, <3>3, AsIsKept
    <3> QED
      BY <1>2, <3>2, <3>4
  <2> QED
    BY <1>1, <2>2, <2>3, QuietHolds DEF IInv, Types
<1>4. ASSUME NEW step \in {"bindings", "put"}, op' = [op EXCEPT !.step = step],
             step = "bindings" => SameSource, step = "put" => op.step = "bindings"
      PROVE  IInv'
  <2>1. /\ op'.kind = "capture" /\ op'.step = step /\ op'.name = op.name
        /\ op'.epoch = op.epoch /\ op'.windows = op.windows /\ op'.session = op.session
        /\ op'.real = op.real /\ op'.bindings = op.bindings /\ DOMAIN op' = DOMAIN op
    BY <1>1, <1>4 DEF IInv, OpTypes, CaptureTypes, Captured
  <2>2. OpTypes' /\ GoesOn /\ Snapshot'
    BY <1>1, <1>2, <2>1 DEF IInv, OpTypes, CaptureTypes, RestoreTypes, GoesOn, Pinned,
                            Snapshot, Captured
  <2>3. Reals'
    <3>1. op.real
      BY <1>1, <1>4 DEF IInv, Reals, Gone, SameSource, Captured
    <3> QED
      BY <2>1, <3>1 DEF Reals
  <2>4. Follows'
    <3> SUFFICES ASSUME ~dirty' PROVE Follows'
      BY DEF Follows
    <3>1. Writing' <=> Writing
      BY <1>1, <2>1 DEF Writing
    <3>2. PICK s, t : s = store["current"] /\ t = op.session
      OBVIOUS
    <3>3. AsIs(t) /\ (~deferred /\ ~Writing => AsIs(s))
      BY <1>1, <3>2 DEF IInv, Follows
    <3>4. AsIs(t)' /\ (AsIs(s) => AsIs(s)')
      BY <1>2, <3>3, AsIsKept
    <3> QED
      BY <1>1, <1>2, <2>1, <3>1, <3>2, <3>3, <3>4 DEF Follows
  <2> QED
    BY <1>1, <2>2, <2>3, <2>4, QuietHolds DEF IInv, Types
<1> QED
  BY <1>1, <1>3, <1>4

-----------------------------------------------------------------------------
(* The description is written.                                             *)

LEMMA PutFits ==
    ASSUME Types, NEW name \in Names, NEW session \in SUBSET Description
    PROVE  /\ Put(name, session) \in [Names -> {None} \cup SUBSET Description]
           /\ \A n \in Names : Put(name, session)[n] \in {store[n], store["last"], session}
           /\ Put(name, session)[name] = session
           /\ name # "current" => Put(name, session)["current"] = store["current"]
<1> DEFINE previous == IF name = "last" /\ store["last"] \notin {None, session}
                       THEN store["last"] ELSE store["previous"]
<1>1. store \in [Names -> {None} \cup SUBSET Description]
  BY DEF Types
<1>2. "previous" \in Names /\ "last" \in Names /\ "current" \in Names
  BY DEF Names
<1>3. Put(name, session) = [n \in Names |-> IF n = name THEN session
                                            ELSE IF n = "previous" THEN previous ELSE store[n]]
  BY <1>1, <1>2 DEF Put
<1> QED
  BY <1>1, <1>2, <1>3

LEMMA StoreHolds ==
    ASSUME IInv, NEW name \in Names, NEW step \in {"expire", "last", "arm"},
           op.kind = "capture", op.step \in {"put", "last"}, op' = [op EXCEPT !.step = step],
           store' \in {store, Put(name, op.session)}, Claims', Follows', deferred' \in BOOLEAN,
           UNCHANGED <<source, projects, records, jobs, report, dirty, expired, ids, recipe,
                       spawned>>
    PROVE  IInv'
<1> USE DEF source, records
<1>1. /\ op'.kind = "capture" /\ op'.step = step /\ op'.name = op.name
      /\ op'.epoch = op.epoch /\ op'.windows = op.windows /\ op'.session = op.session
      /\ op'.real = op.real /\ op'.bindings = op.bindings /\ DOMAIN op' = DOMAIN op
      /\ op.session \in SUBSET Description
  BY DEF IInv, OpTypes, CaptureTypes, Captured
<1>2. \A n \in Names : store'[n] \in {store[n], store["last"], op.session}
  BY <1>1, PutFits DEF IInv
<1>3. Types'
  <2>1. Types
    BY DEF IInv
  <2>2. /\ store \in [Names -> {None} \cup SUBSET Description]
        /\ Put(name, op.session) \in [Names -> {None} \cup SUBSET Description]
    BY <1>1, <2>1, PutFits DEF Types
  <2>3. store' \in [Names -> {None} \cup SUBSET Description]
    BY <2>2
  <2> QED
    BY <2>1, <2>3 DEF Types
<1>4. OpTypes' /\ Snapshot' /\ Links' /\ Reals'
  BY <1>1 DEF IInv, OpTypes, CaptureTypes, RestoreTypes, Snapshot, Links, Pinned, Reals, Captured
<1>5. Tokens' /\ Launching'
  BY <1>1 DEF IInv, Tokens, Pinned, Launching, Recorded, Anchored, Outstanding, Of
<1>6. PICK P \in SUBSET (1..ids) : Sorted(P)
  BY DEF IInv
<1>7. "last" \in Names /\ op.step \in Captured
  BY DEF Names, Captured
<1>8. Sorted(P)'
  <2>1. \A n \in Names : store'[n] # None => Sort(store'[n], P)
    BY <1>2, <1>6, <1>7 DEF Sorted
  <2> QED
    BY <1>1, <1>6, <1>7, <2>1 DEF Sorted, Sort
<1>9. Saves'
  <2>1. \A n \in Names : store'[n] # None => Keyed(store'[n])
    BY <1>2, <1>7 DEF IInv, Saves
  <2> QED
    BY <1>1, <1>7, <2>1 DEF IInv, Saves, Keyed, Valid, ProjectOf
<1> QED
  BY <1>3, <1>4, <1>5, <1>8, <1>9 DEF IInv

LEMMA WriteSessionStep == ASSUME IInv, WriteSession PROVE IInv'
<1>1. /\ op.kind = "capture" /\ op.step = "put" /\ op.name \in Names
      /\ op.session \in SUBSET Description /\ op.epoch \in 1..epoch
  BY DEF WriteSession, Capturing, At, IInv, OpTypes, CaptureTypes, Captured
<1>2. PICK step \in {"expire", "last", "arm"} :
            /\ op' = [op EXCEPT !.step = step]
            /\ step # "expire" => Armed
  BY DEF WriteSession
<1>3. /\ op'.kind = "capture" /\ op'.step = step /\ op'.name = op.name /\ op'.epoch = op.epoch
  BY <1>1, <1>2 DEF IInv, OpTypes, CaptureTypes
<1>4. Claims'
  <2>1. Armed => op.epoch \in claimed'
    BY <1>1 DEF WriteSession, Armed, IInv, Claims
  <2> QED
    BY <1>2, <1>3, <2>1 DEF WriteSession, IInv, Claims, records
<1>5. Follows'
  <2> SUFFICES ASSUME ~dirty, ~(deferred /\ Explicitly) PROVE AsIs(store["current"])'
    BY <1>3 DEF Follows, WriteSession
  <2>1. PICK s, t, u : s = store["current"] /\ t = op.session /\ u = store'["current"]
    OBVIOUS
  <2>2. AsIs(t)
    BY <1>1, <2>1 DEF WriteSession, IInv, Follows
  <2>3. \A r : AsIs(r) => AsIs(r)'
    BY AsIsKept DEF WriteSession, source, records
  <2>4. CASE ~Explicitly /\ op.session # {}
    <3>1. u = t
      BY <1>1, <2>1, <2>4, PutFits DEF WriteSession, Explicitly, IInv
    <3> QED
      BY <2>1, <2>2, <2>3, <3>1
  <2>5. CASE ~Explicitly /\ op.session = {}
    <3>1. AsIs(u)
      BY <2>1, <2>2, <2>5 DEF AsIs, Summary
    <3> QED
      BY <2>1, <2>3, <3>1
  <2>6. CASE Explicitly
    <3>1. AsIs(s)
      BY <2>1, <2>6 DEF IInv, Follows, Writing, Explicitly
    <3>2. u = s
      BY <1>1, <2>1, <2>6, PutFits DEF WriteSession, Explicitly, IInv
    <3> QED
      BY <2>1, <2>3, <3>1, <3>2
  <2> QED
    BY <2>4, <2>5, <2>6
<1> QED
  BY <1>1, <1>2, <1>4, <1>5, StoreHolds DEF WriteSession, IInv, Types

LEMMA WriteLastStep == ASSUME IInv, WriteLast PROVE IInv'
<1>1. /\ op.kind = "capture" /\ op.step = "last" /\ op.name \in Names
      /\ op.session \in SUBSET Description /\ "last" \in Names
  BY DEF WriteLast, Capturing, At, IInv, OpTypes, CaptureTypes, Captured, Names
<1>2. op' = [op EXCEPT !.step = "arm"]
  BY DEF WriteLast
<1>3. /\ op'.kind = "capture" /\ op'.step = "arm" /\ op'.name = op.name /\ op'.epoch = op.epoch
  BY <1>1, <1>2 DEF IInv, OpTypes, CaptureTypes
<1>4. Claims'
  BY <1>1, <1>3 DEF WriteLast, IInv, Claims, records, history
<1>5. Follows'
  <2> SUFFICES ASSUME ~dirty, ~deferred PROVE AsIs(store["current"])'
    BY <1>3 DEF Follows, WriteLast, history
  <2>1. PICK s, u : s = store["current"] /\ u = store'["current"]
    OBVIOUS
  <2>2. AsIs(s) /\ u = s
    BY <1>1, <2>1, PutFits DEF WriteLast, IInv, Follows, Writing
  <2>3. AsIs(s)'
    BY <2>2, AsIsKept DEF WriteLast, source, records
  <2> QED
    BY <2>1, <2>2, <2>3
<1> QED
  BY <1>1, <1>2, <1>4, <1>5, StoreHolds DEF WriteLast, history, IInv, Types

\* Links of other lives and of windows that were not read go.
LEMMA ArmAndExpireStep == ASSUME Sensible, IInv, ArmAndExpire PROVE IInv'
<1>1. /\ op.kind = "capture" /\ op.step \in {"expire", "arm"} /\ op' = Idle
      /\ op.epoch \in 1..epoch
      /\ UNCHANGED <<source, projects, bindings, launches, checkpoints, slotProjects,
                     store, jobs, report, dirty, ids, recipe, history>>
  BY DEF ArmAndExpire, Capturing, At, IInv, OpTypes, CaptureTypes, Captured
<1>2. op'.kind = "none"
  BY <1>1 DEF Idle
<1>3. /\ slots' \in [Workspaces -> Link] /\ \A w \in Workspaces : slots'[w] \in {slots[w], NoLink}
      /\ anchors' \in [1..MaxOpened -> Link]
      /\ \A x \in 1..MaxOpened : anchors'[x] \in {anchors[x], NoLink}
      /\ \A x \in 1..MaxOpened :
            anchors[x].epoch = op.epoch /\ x \in DOMAIN op.windows /\ anchors[x] # NoLink
                => anchors'[x] = anchors[x]
  BY NoneOf DEF ArmAndExpire, Known, IInv, Types
<1>4. Types'
  <2>1. armed' \in 0..epoch
    <3>1. op.epoch \in 0..epoch /\ armed \in 0..epoch /\ 0 \in 0..epoch
      BY <1>1 DEF IInv, Types
    <3> QED
      BY <3>1 DEF ArmAndExpire
  <2> QED
    BY <1>1, <1>3, <2>1 DEF IInv, Types, source, history
<1>5. OpTypes' /\ Snapshot' /\ Reals'
  BY <1>1, <1>2 DEF OpTypes, CaptureTypes, RestoreTypes, Snapshot, Reals
<1>6. PICK P \in SUBSET (1..ids) : Sorted(P)
  BY DEF IInv
<1>7. Sorted(P)'
  BY <1>1, <1>2, <1>3, <1>6 DEF Sorted, Sort
<1>8. /\ epoch \in Nat \ {0} /\ NoLink.epoch # epoch /\ NoLink.epoch <= epoch
      /\ DOMAIN windows \subseteq 1..MaxOpened
  <2>1. epoch \in Nat \ {0} /\ opened \in 0..MaxOpened /\ DOMAIN windows \subseteq 1..opened
    BY DEF IInv, Types
  <2> QED
    BY <2>1, NoneOf DEF Sensible
<1>9. Links'
  BY <1>1, <1>2, <1>3, <1>8 DEF IInv, Links, Pinned, source, Types
<1>10. Tokens'
  BY <1>1, <1>2 DEF IInv, Tokens, Pinned, source, history
<1>11. Claims' /\ Saves'
  BY <1>1, <1>2 DEF IInv, Claims, ArmAndExpire, history, Saves, Keyed, Valid, ProjectOf
<1>12. Follows'
  <2> SUFFICES ASSUME ~dirty, ~deferred PROVE AsIs(store["current"])'
    BY <1>1, <1>2 DEF Follows, history
  <2>1. PICK s : s = store["current"]
    OBVIOUS
  <2>2. AsIs(s)
    BY <1>1, <2>1 DEF IInv, Follows, Writing
  <2>3. AsIs(s)'
    BY <1>1, <2>2, AsIsKept DEF source
  <2> QED
    BY <1>1, <2>1, <2>3
<1>13. Launching'
  <2>1. ASSUME NEW l \in spawned, l.stamp = epoch, Anchored(l) PROVE Anchored(l)'
    <3>1. l.window \in DOMAIN windows /\ anchors[l.window] = [id |-> l.saved, epoch |-> epoch]
      BY <2>1 DEF Anchored
    <3>2. l.window \in 1..MaxOpened
      BY <1>8, <3>1
    <3>3. op.epoch = epoch
      <4>1. anchors[l.window].epoch = epoch
        BY <3>1
      <4>2. epoch <= op.epoch /\ op.epoch <= epoch /\ epoch \in Nat
        BY <1>1, <3>2, <4>1, <1>8 DEF IInv, Links, Pinned
      <4> QED
        BY <1>1, <4>2
    <3>4. l.window \in DOMAIN op.windows
      BY <1>1, <3>1, <3>3 DEF IInv, Snapshot
    <3> QED
      BY <1>1, <1>3, <1>8, <3>1, <3>2, <3>3, <3>4 DEF Anchored, source
  <2>2. \A l \in spawned : (Outstanding(l)' <=> Outstanding(l)) /\ (Recorded(l)' <=> Recorded(l))
    BY <1>1 DEF Outstanding, Of, Recorded, source
  <2> QED
    BY <1>1, <1>2, <2>1, <2>2 DEF IInv, Launching, source, history
<1> QED
  BY <1>1, <1>4, <1>5, <1>6, <1>7, <1>9, <1>10, <1>11, <1>12, <1>13 DEF IInv

-----------------------------------------------------------------------------
(* The restore's own steps.                                                *)

LEMMA FollowsRest ==
    ASSUME IInv, op.kind # "capture", op'.kind # "capture", UNCHANGED <<store, deferred>>,
           dirty' \/ UNCHANGED <<dirty, epoch, connected, windows, bindings, projects>>
    PROVE  Follows' /\ Snapshot' /\ Reals'
<1>1. Snapshot' /\ Reals'
  BY DEF Snapshot, Reals
<1>2. Follows'
  <2> SUFFICES ASSUME ~dirty', ~deferred PROVE AsIs(store["current"])'
    BY DEF Follows
  <2>1. PICK s : s = store["current"]
    OBVIOUS
  <2>2. AsIs(s)
    BY <2>1 DEF IInv, Follows, Writing
  <2>3. AsIs(s)'
    BY <2>2, AsIsKept
  <2> QED
    BY <2>1, <2>3
<1> QED
  BY <1>1, <1>2

\* A step of a restore that writes no window's link and records no launch.
LEMMA RestHolds ==
    ASSUME IInv, op.kind # "capture", op'.kind # "capture", GoesOn, SlotsFit, OpTypes',
           jobs' \subseteq jobs, report' \in {"none", "running", "completed", "partial"},
           dirty' \in BOOLEAN, dirty' \/ UNCHANGED <<dirty, bindings>>, bindings' \in Bindings,
           DOMAIN slotProjects' \subseteq 1..ids,
           slotProjects' \in [DOMAIN slotProjects' -> Projects],
           UNCHANGED <<source, projects, anchors, launches, armed, checkpoints, store, ids,
                       recipe, history>>
    PROVE  IInv'
<1>1. /\ claimed \subseteq claimed' /\ armed' \in 0..epoch /\ (armed' = 0 \/ armed' \in claimed')
      /\ deferred' \in BOOLEAN
  BY DEF IInv, Types, Claims, history
<1>2. Follows' /\ Snapshot' /\ Reals'
  BY FollowsRest DEF source, history
<1> QED
  BY <1>1, <1>2, GoesOnHolds, SourceSame DEF history

LEMMA RestoreStep == ASSUME IInv, NEW name \in Names, Restore(name) PROVE IInv'
<1>1. /\ store[name] # None
      /\ \E n \in Nat \cup {calls'} : jobs' = jobs \cup {[id |-> n, session |-> store[name]]}
  BY DEF Restore
<1>2. UNCHANGED <<source, projects, records, store, op, report, dirty, expired, ids, recipe, history>>
  BY DEF Restore
<1>3. \A j \in jobs' : j \in jobs \/ j.session = store[name]
  BY <1>1
<1>4. PICK P \in SUBSET (1..ids) : Sorted(P)
  BY DEF IInv
<1>5. Sorted(P)'
  BY <1>1, <1>2, <1>3, <1>4 DEF Sorted, Sort, records
<1>6. Types'
  <2>1. store[name] \subseteq Description
    BY <1>1 DEF IInv, Types
  <2> QED
    BY <1>2, <1>3, <2>1 DEF IInv, Types, source, records, history
<1>7. OpTypes' /\ Links' /\ Snapshot' /\ Tokens' /\ Launching'
  BY <1>2 DEF IInv, OpTypes, CaptureTypes, RestoreTypes, Links, Pinned, Snapshot, Tokens,
              Launching, Recorded, Anchored, Outstanding, Of, source, records, history
<1>8. Saves' /\ Reals' /\ Claims' /\ Follows'
  BY <1>2, FollowsKept DEF IInv, Saves, Keyed, Valid, ProjectOf, Reals, Gone, Claims, source,
                           records, history
<1> QED
  BY <1>2, <1>4, <1>5, <1>6, <1>7, <1>8 DEF IInv

LEMMA BeginRestoreStep == ASSUME IInv, NEW job \in jobs, BeginRestore(job) PROVE IInv'
<1>1. /\ op.kind = "none" /\ jobs' \subseteq jobs
      /\ UNCHANGED <<source, projects, records, store, dirty, ids, recipe, history>>
  BY DEF BeginRestore, Idle
<1>2. CASE ~connected
  <2>1. Quiet /\ op' = Idle /\ report' = "partial" /\ UNCHANGED <<dirty, deferred>> /\ ~Writing
    BY <1>1, <1>2 DEF BeginRestore, Done, Quiet, history, Writing
  <2>2. dirty' \in BOOLEAN /\ deferred' \in BOOLEAN
    BY <2>1 DEF IInv, Types
  <2> QED
    BY <2>1, <2>2, IdleHolds
<1>3. CASE connected
  <2>1. /\ op'.kind = "restore" /\ op'.step = "next" /\ op'.session = job.session
        /\ op'.epoch = epoch /\ op'.projects = projects /\ op'.left = job.session
        /\ op'.used = {} /\ op'.issue = FALSE /\ report' = "running"
        /\ {"kind", "step", "session", "epoch", "projects", "left", "used", "issue"}
                \subseteq DOMAIN op'
    BY <1>3 DEF BeginRestore
  <2>2. epoch \in 1..epoch
    <3>1. epoch \in Nat \ {0}
      BY DEF IInv, Types
    <3> QED
      BY <3>1
  <2>3. OpTypes'
    BY <1>1, <2>1, <2>2 DEF OpTypes, CaptureTypes, RestoreTypes, Inside, IInv, Types, source
  <2>4. GoesOn
    BY <2>1 DEF GoesOn, Inside
  <2>5. SlotsFit
    BY <1>1, SlotsSame DEF records
  <2> QED
    BY <1>1, <2>1, <2>3, <2>4, <2>5, RestHolds DEF IInv, Types, records
<1> QED
  BY <1>2, <1>3

\* What a restore keeps of itself, whatever the step.
Going ==
    /\ op'.kind = "restore" /\ op'.session = op.session /\ op'.epoch = op.epoch
    /\ op'.projects = op.projects /\ op'.left \subseteq op.left
    /\ op'.used \subseteq Workspaces /\ op'.issue \in BOOLEAN
    /\ {"kind", "step", "session", "epoch", "projects", "left", "used", "issue"}
            \subseteq DOMAIN op'

LEMMA RestGoes ==
    ASSUME OpTypes, op.kind = "restore"
    PROVE  /\ op' = Rest => Going /\ op'.step = "next"
           /\ Issue => Going /\ op'.step = "next"
<1> SUFFICES ASSUME op' = Rest \/ Issue PROVE Going /\ op'.step = "next"
  OBVIOUS
<1>1. /\ op'.kind = "restore" /\ op'.session = op.session /\ op'.epoch = op.epoch
      /\ op'.projects = op.projects /\ op'.left = op.left /\ op'.used = op.used
      /\ op'.issue \in {op.issue, TRUE} /\ op'.step = "next"
      /\ {"kind", "step", "session", "epoch", "projects", "left", "used", "issue"}
            \subseteq DOMAIN op'
  <2>1. CASE op' = Rest
    BY <2>1 DEF Rest
  <2>2. CASE op' = [Rest EXCEPT !.issue = TRUE]
    BY <2>2 DEF Rest
  <2> QED
    BY <2>1, <2>2 DEF Issue
<1> QED
  BY <1>1 DEF OpTypes, RestoreTypes, Going

\* The workspace is done with, or given up.
LEMMA NextHolds ==
    ASSUME IInv, op.kind = "restore", Going, op'.step = "next",
           DOMAIN slotProjects' \subseteq 1..ids,
           slotProjects' \in [DOMAIN slotProjects' -> Projects],
           UNCHANGED <<source, projects, bindings, slots, anchors, launches, armed, checkpoints,
                       store, jobs, report, dirty, ids, recipe, history>>
    PROVE  IInv'
<1>1. OpTypes'
  BY DEF Going, OpTypes, CaptureTypes, RestoreTypes, Inside, IInv, source
<1>2. GoesOn
  BY DEF Going, GoesOn, Pinned, Inside
<1>3. SlotsFit
  BY SlotsSame
<1> QED
  BY <1>1, <1>2, <1>3, RestHolds DEF Going, IInv, Types

LEMMA LayoutSteps == ASSUME IInv, SetLayout PROVE IInv'
<1>1. /\ op.kind = "restore" /\ (op' = Rest \/ Issue)
      /\ UNCHANGED <<source, projects, records, store, jobs, report, dirty, ids, recipe, history>>
  BY DEF SetLayout, Restoring, At
<1>2. Going /\ op'.step = "next"
  BY <1>1, RestGoes DEF IInv
<1>3. /\ DOMAIN slotProjects' \subseteq 1..ids
      /\ slotProjects' \in [DOMAIN slotProjects' -> Projects]
  BY <1>1 DEF IInv, Types, records
<1> QED
  BY <1>1, <1>2, <1>3, NextHolds DEF records

LEMMA EndRestoreStep == ASSUME IInv, EndRestore PROVE IInv'
<1>1. /\ op.kind = "restore" /\ op' = Idle /\ op'.kind = "none"
      /\ report' \in {"none", "running", "completed", "partial"}
      /\ UNCHANGED <<source, projects, bindings, slots, anchors, launches, checkpoints,
                     slotProjects, store, jobs, dirty, ids, recipe, spawned, deferred>>
  BY DEF EndRestore, Restoring, At, Done, Idle
<1>2. OpTypes' /\ GoesOn
  BY <1>1 DEF OpTypes, CaptureTypes, RestoreTypes, GoesOn, Pinned
<1>3. SlotsFit
  BY <1>1, SlotsSame
<1>4. claimed \subseteq claimed' /\ armed' \in 0..epoch /\ (armed' = 0 \/ armed' \in claimed')
  <2>1. epoch \in 0..epoch
    <3>1. epoch \in Nat
      BY DEF IInv, Types
    <3> QED
      BY <3>1
  <2> QED
    BY <2>1 DEF EndRestore, IInv, Types, Claims
<1>5. Follows' /\ Snapshot' /\ Reals'
  BY <1>1, FollowsRest DEF source
<1>6. /\ dirty' \in BOOLEAN /\ deferred' \in BOOLEAN /\ bindings' \in Bindings
      /\ DOMAIN slotProjects' \subseteq 1..ids
      /\ slotProjects' \in [DOMAIN slotProjects' -> Projects]
  BY <1>1 DEF IInv, Types
<1> QED
  BY <1>1, <1>2, <1>3, <1>4, <1>5, <1>6, GoesOnHolds, SourceSame

\* What was in hand is lost, and the desktop is captured again.
LEMMA RestartStep == ASSUME IInv, Restart PROVE IInv'
<1>1. Quiet /\ op' = Idle /\ report' = "none" /\ dirty' = TRUE /\ UNCHANGED deferred
  BY DEF Restart, Quiet, history
<1> QED
  BY <1>1, IdleHolds DEF IInv, Types

LEMMA LeastIn ==
    ASSUME NEW S \in SUBSET Nat, S # {}
    PROVE  Least(S) \in S /\ \A y \in S : Least(S) <= y
<1>1. PICK n \in S : \A m \in S : ~(<<m, n>> \in OpToRel(<, Nat))
  BY NatLessThanWellFounded, WFMin
<1>2. ASSUME NEW m \in S PROVE n <= m
  <2>1. ~(<<m, n>> \in OpToRel(<, Nat))
    BY <1>1, Zenon
  <2>2. m \in Nat /\ n \in Nat
    OBVIOUS
  <2> QED
    BY <2>1, <2>2 DEF OpToRel
<1> QED
  BY <1>2 DEF Least

LEMMA GreatestIn ==
    ASSUME NEW n \in Nat, NEW S \in SUBSET (1..n), S # {}
    PROVE  Greatest(S) \in S
<1> DEFINE T == {n - y : y \in S}
<1>1. T \in SUBSET Nat /\ T # {}
  <2>1. \A y \in S : y \in Nat /\ y <= n
    OBVIOUS
  <2>2. \A y \in S : n - y \in Nat
    BY <2>1
  <2> QED
    BY <2>2
<1>2. PICK m \in T : \A k \in T : m <= k
  <2> HIDE DEF T
  <2> QED
    BY <1>1, LeastIn
<1>3. PICK x \in S : m = n - x
  BY <1>2
<1>4. ASSUME NEW y \in S PROVE x >= y
  <2>1. n - x <= n - y /\ x \in Nat /\ y \in Nat
    BY <1>2, <1>3
  <2> QED
    BY <2>1
<1> QED
  BY <1>4 DEF Greatest

LEMMA NextWorkspaceStep == ASSUME IInv, NextWorkspace PROVE IInv'
<1> DEFINE d == CHOOSE e \in op.left : \A f \in op.left : e.ws <= f.ws
           project == IF d.key \in DOMAIN checkpoints THEN checkpoints[d.key] ELSE None
           rest == [Rest EXCEPT !.left = @ \ {d}]
           found == With(rest, [step |-> "choose", desc |-> d, project |-> project,
                                listed |-> bindings, linked |-> slots])
<1>1. /\ op.kind = "restore" /\ op.left # {} /\ op.left \subseteq op.session
      /\ op.session \subseteq Description
      /\ UNCHANGED <<source, projects, bindings, slots, anchors, launches, armed, checkpoints,
                     store, jobs, report, dirty, ids, recipe, history>>
  BY DEF NextWorkspace, Restoring, At, IInv, OpTypes, RestoreTypes
<1>2. \/ op' = [rest EXCEPT !.issue = TRUE] /\ UNCHANGED slotProjects
      \/ /\ op' = found
         /\ slotProjects' = IF project = None THEN slotProjects
                            ELSE With(slotProjects, [s \in {d.slot} |-> project])
  BY DEF NextWorkspace
<1>3. d \in op.left
  <2> DEFINE T == {e.ws : e \in op.left}
  <2>1. T \in SUBSET Nat /\ T # {}
    BY <1>1 DEF Description, Workspaces
  <2>2. PICK m \in T : \A k \in T : m <= k
    <3> HIDE DEF T
    <3> QED
      BY <2>1, LeastIn
  <2>3. PICK e \in op.left : e.ws = m
    BY <2>2
  <2>4. \A f \in op.left : e.ws <= f.ws
    BY <2>2, <2>3
  <2> QED
    BY <2>4
<1>4. d \in op.session /\ d.slot \in 1..ids /\ project \in Projects \cup {None}
  BY <1>1, <1>3 DEF IInv, Types, Sorted, Sort
<1>5. /\ DOMAIN slotProjects' \subseteq 1..ids
      /\ slotProjects' \in [DOMAIN slotProjects' -> Projects]
  <2> HIDE DEF d, project
  <2>1. slotProjects' \in {slotProjects, With(slotProjects, [s \in {d.slot} |-> project])}
        /\ (project = None => UNCHANGED slotProjects)
    BY <1>2
  <2>2. DOMAIN slotProjects \subseteq 1..ids /\ slotProjects \in [DOMAIN slotProjects -> Projects]
    BY DEF IInv, Types
  <2> QED
    BY <1>4, <2>1, <2>2 DEF With
<1>6. PICK r : r = rest
  OBVIOUS
<1>7. /\ r.kind = "restore" /\ r.session = op.session /\ r.epoch = op.epoch /\ r.step = "next"
      /\ r.projects = op.projects /\ r.left = op.left \ {d} /\ r.used = op.used
      /\ r.issue = op.issue
      /\ DOMAIN r = {"kind", "step", "session", "epoch", "projects", "left", "used", "issue"}
  BY <1>6 DEF Rest
<1> HIDE DEF d, project, rest
<1>8. CASE op' = [rest EXCEPT !.issue = TRUE]
  <2>1. Going /\ op'.step = "next"
    BY <1>1, <1>6, <1>7, <1>8 DEF Going, IInv, OpTypes, RestoreTypes
  <2> QED
    BY <1>1, <1>5, <2>1, NextHolds
<1>9. CASE op' = found
  <2>1. /\ Going /\ op'.step = "choose" /\ op'.desc = d /\ op'.project = project
        /\ op'.left \subseteq op.left
        /\ {"desc", "project", "listed", "linked"} \subseteq DOMAIN op'
    BY <1>1, <1>6, <1>7, <1>9 DEF Going, With, IInv, OpTypes, RestoreTypes
  <2>2. OpTypes'
    BY <1>1, <1>4, <2>1 DEF Going, OpTypes, CaptureTypes, RestoreTypes, Inside, IInv, source
  <2>3. GoesOn
    BY <1>1, <2>1 DEF Going, GoesOn, Pinned, Inside
  <2>4. SlotsFit
    BY <1>1, SlotsSame
  <2> QED
    BY <1>1, <1>5, <2>1, <2>2, <2>3, <2>4, RestHolds DEF Going, IInv, Types
<1> QED
  BY <1>2, <1>8, <1>9

LEMMA CandidateIn ==
    ASSUME Sensible, IInv, op.kind = "restore", op.step = "choose"
    PROVE  Candidate \subseteq Workspaces
<1>1. Existing \in SUBSET (1..Count) /\ Blank \in SUBSET (1..Count) /\ Count \in Nat
  BY DEF Existing, Blank, Workspaces, Sensible
<1>2. Existing \in SUBSET Nat
  BY <1>1
<1>3. Existing # {} => Least(Existing) \in Workspaces
  BY <1>1, <1>2, LeastIn DEF Workspaces
<1>4. Blank # {} => Greatest(Blank) \in Workspaces
  BY <1>1, GreatestIn DEF Workspaces
<1>5. op.desc.ws \in Workspaces
  BY DEF IInv, OpTypes, RestoreTypes, Description
<1> QED
  BY <1>3, <1>4, <1>5 DEF Candidate, NamedSo

LEMMA ChooseWorkspaceStep == ASSUME Sensible, IInv, ChooseWorkspace PROVE IInv'
<1>1. /\ op.kind = "restore" /\ op.step = "choose" /\ op.desc \in op.session
      /\ op.project \in Projects \cup {None} /\ op.session \subseteq Description
      /\ op.used \subseteq Workspaces /\ op.epoch \in 1..epoch
      /\ UNCHANGED <<source, projects, anchors, launches, armed, checkpoints, slotProjects,
                     store, jobs, report, ids, recipe, history>>
  BY DEF ChooseWorkspace, Restoring, At, IInv, OpTypes, RestoreTypes
<1>2. /\ DOMAIN slotProjects' \subseteq 1..ids
      /\ slotProjects' \in [DOMAIN slotProjects' -> Projects]
  BY <1>1 DEF IInv, Types
<1>3. CASE Issue /\ UNCHANGED <<slots, bindings, dirty>>
  <2>1. Going /\ op'.step = "next"
    BY <1>1, <1>3, RestGoes DEF IInv
  <2> QED
    BY <1>1, <1>2, <1>3, <2>1, NextHolds
<1>4. ASSUME NEW w \in Candidate,
             LET left == {v \in Workspaces \ {w} :
                                Known(slots[v]) /\ slots[v].id = op.desc.slot}
             IN  /\ slots' = [v \in Workspaces |->
                                 IF v = w THEN [id |-> op.desc.slot, epoch |-> op.epoch]
                                 ELSE IF v \in left THEN NoLink ELSE slots[v]]
                 /\ bindings' = [v \in Workspaces |->
                                     IF v \in left THEN NoBinding ELSE bindings[v]]
                 /\ NoticedIf("binding", bindings' # bindings)
                 /\ op' = With(Rest, [step |-> "bind", used |-> op.used \cup {w},
                                      target |-> w, project |-> op.project,
                                      todo |-> op.desc.windows])
      PROVE  IInv'
  <2> DEFINE left == {v \in Workspaces \ {w} :
                        Known(slots[v]) /\ slots[v].id = op.desc.slot}
  <2>1. w \in Workspaces
    BY <1>1, CandidateIn
  <2>2. [id |-> op.desc.slot, epoch |-> op.epoch] \in Link /\ op.epoch # 0
    <3>1. op.desc.slot \in Nat /\ epoch \in Nat
      BY <1>1 DEF Description, IInv, Types
    <3> QED
      BY <1>1, <3>1 DEF Link
  <2>3. SlotsFit
    <3>1. slots \in [Workspaces -> Link] /\ bindings \in Bindings
      BY DEF IInv, Types
    <3>2. slots' \in [Workspaces -> Link]
      BY <1>4, <2>2, <3>1, NoneOf
    <3>3. \A v \in Workspaces \ {w} : slots'[v] # slots'[w]
      BY <1>4, <2>1, <2>2, NoneOf DEF Known
    <3>4. \A v \in Workspaces \ {w} : slots'[v] \in {slots[v], NoLink}
      BY <1>4
    <3>5. \A u, v \in Workspaces : u # v /\ slots'[u] # NoLink => slots'[u] # slots'[v]
      BY <3>3, <3>4 DEF IInv, Links
    <3>6. slots'[w].id \in {d.slot : d \in op.session}
      BY <1>1, <1>4, <2>1
    <3> QED
      BY <1>1, <3>2, <3>4, <3>5, <3>6 DEF SlotsFit
  <2>4. bindings' \in Bindings
    BY <1>4, NoneOf DEF Bindings, IInv, Types
  <2>5. dirty' \in BOOLEAN /\ (dirty' \/ UNCHANGED <<dirty, bindings>>)
    BY <1>4 DEF NoticedIf, Meaningful, IInv, Types
  <2>6. /\ Going /\ op'.step = "bind" /\ op'.target = w /\ op'.project = op.project
        /\ op'.todo = op.desc.windows /\ {"target", "project", "todo"} \subseteq DOMAIN op'
    <3>1. PICK r : r = Rest
      OBVIOUS
    <3>2. /\ r.kind = "restore" /\ r.session = op.session /\ r.epoch = op.epoch
          /\ r.projects = op.projects /\ r.left = op.left /\ r.used = op.used
          /\ r.issue = op.issue
          /\ DOMAIN r = {"kind", "step", "session", "epoch", "projects", "left", "used", "issue"}
      BY <3>1 DEF Rest
    <3> QED
      BY <1>1, <1>4, <2>1, <3>1, <3>2 DEF Going, With, IInv, OpTypes, RestoreTypes
  <2>7. OpTypes'
    BY <1>1, <2>1, <2>6 DEF Going, OpTypes, CaptureTypes, RestoreTypes, Inside, IInv, source
  <2>8. GoesOn
    BY <1>1, <2>6 DEF Going, GoesOn, Pinned, Inside
  <2> QED
    BY <1>1, <1>2, <2>3, <2>4, <2>5, <2>6, <2>7, <2>8, RestHolds DEF Going, IInv, Types
<1> QED
  BY <1>3, <1>4 DEF ChooseWorkspace

LEMMA BindRestoredStep == ASSUME IInv, BindRestored PROVE IInv'
<1>1. /\ op.kind = "restore" /\ op.step = "bind"
      /\ UNCHANGED <<source, projects, anchors, launches, armed, checkpoints, slotProjects,
                     store, jobs, report, ids, recipe, history>>
  BY DEF BindRestored, Restoring, At
<1>2. /\ DOMAIN slotProjects' \subseteq 1..ids
      /\ slotProjects' \in [DOMAIN slotProjects' -> Projects]
  BY <1>1 DEF IInv, Types
<1>3. CASE Issue /\ UNCHANGED <<bindings, slots, dirty>>
  <2>1. Going /\ op'.step = "next"
    BY <1>1, <1>3, RestGoes DEF IInv
  <2> QED
    BY <1>1, <1>2, <1>3, <2>1, NextHolds
<1>4. CASE /\ bindings' = IF op.project = None
                          THEN [bindings EXCEPT ![op.target] = NoBinding]
                          ELSE Bound(op.target, op.project)
           /\ slots' = IF op.project = None THEN slots ELSE Fit(slots, NoLink)
           /\ NoticedIf("binding", bindings' # bindings)
           /\ op' = [op EXCEPT !.step = "window"]
  <2>1. op.target \in Workspaces /\ op.project \in Projects \cup {None} /\ Types
    BY <1>1 DEF IInv, OpTypes, RestoreTypes, Inside
  <2>2. bindings' \in Bindings
    <3>1. CASE op.project = None
      BY <1>4, <3>1, NoneOf, <2>1 DEF Bindings, Types
    <3>2. CASE op.project # None
      BY <1>4, <3>2, <2>1, BoundTypes
    <3> QED
      BY <3>1, <3>2
  <2>3. slots' \in [Workspaces -> Link] /\ \A w \in Workspaces : slots'[w] \in {slots[w], NoLink}
    BY <1>4, <2>1, FitTypes DEF Types
  <2>4. SlotsFit
    BY <2>3 DEF SlotsFit, IInv, Links
  <2>5. dirty' \in BOOLEAN /\ (dirty' \/ UNCHANGED <<dirty, bindings>>)
    BY <1>4, <2>1 DEF NoticedIf, Meaningful, Types
  <2>6. /\ op'.kind = "restore" /\ op'.step = "window" /\ op'.session = op.session
        /\ op'.epoch = op.epoch /\ op'.projects = op.projects /\ op'.left = op.left
        /\ op'.used = op.used /\ op'.issue = op.issue /\ op'.target = op.target
        /\ op'.project = op.project /\ op'.todo = op.todo /\ DOMAIN op' = DOMAIN op
    BY <1>1, <1>4 DEF IInv, OpTypes, RestoreTypes, Inside
  <2>7. OpTypes'
    BY <1>1, <2>6 DEF OpTypes, CaptureTypes, RestoreTypes, Inside, IInv, source
  <2>8. GoesOn
    BY <1>1, <2>6 DEF GoesOn, Pinned, Inside
  <2> QED
    BY <1>1, <1>2, <2>2, <2>4, <2>5, <2>6, <2>7, <2>8, RestHolds DEF IInv, Types
<1> QED
  BY <1>3, <1>4 DEF BindRestored

-----------------------------------------------------------------------------
(* Windows of a workspace: found, launched, placed.                        *)

\* A window is done with, or given up; or it has been found, and is placed.
LEMMA InsideGoes ==
    ASSUME OpTypes, op.kind = "restore", op.step \in Inside, NEW s
    PROVE  /\ LoseWindow(s) \/ NextWindow(s) =>
                /\ Going /\ op'.step = "window" /\ op'.target = op.target
                /\ op'.project = op.project /\ op'.todo = op.todo \ {s}
                /\ {"target", "project", "todo"} \subseteq DOMAIN op'
           /\ \A x : Placing(s, x) =>
                /\ Going /\ op'.step = "place" /\ op'.target = op.target
                /\ op'.project = op.project /\ op'.todo = op.todo /\ op'.saved = s
                /\ {"target", "project", "todo", "window", "saved"} \subseteq DOMAIN op'
<1>1. /\ op.used \subseteq Workspaces /\ op.issue \in BOOLEAN
      /\ {"kind", "step", "session", "epoch", "projects", "left", "used", "issue"}
            \subseteq DOMAIN op
      /\ {"target", "project", "todo"} \subseteq DOMAIN op
  BY DEF OpTypes, RestoreTypes
<1>2. ASSUME LoseWindow(s) \/ NextWindow(s)
      PROVE  /\ Going /\ op'.step = "window" /\ op'.target = op.target
             /\ op'.project = op.project /\ op'.todo = op.todo \ {s}
             /\ {"target", "project", "todo"} \subseteq DOMAIN op'
  <2>1. PICK r : r = Rest
    OBVIOUS
  <2>2. /\ r.kind = "restore" /\ r.session = op.session /\ r.epoch = op.epoch
        /\ r.projects = op.projects /\ r.left = op.left /\ r.used = op.used
        /\ r.issue = op.issue
        /\ DOMAIN r = {"kind", "step", "session", "epoch", "projects", "left", "used", "issue"}
    BY <2>1 DEF Rest
  <2>3. PICK q : q = InWorkspace(s)
    OBVIOUS
  <2>4. /\ q.kind = "restore" /\ q.session = op.session /\ q.epoch = op.epoch
        /\ q.projects = op.projects /\ q.left = op.left /\ q.used = op.used
        /\ q.issue = op.issue /\ q.step = "window" /\ q.target = op.target
        /\ q.project = op.project /\ q.todo = op.todo \ {s}
        /\ DOMAIN q = {"kind", "step", "session", "epoch", "projects", "left", "used", "issue",
                       "target", "project", "todo"}
    BY <2>1, <2>2, <2>3 DEF InWorkspace, With
  <2>5. /\ op'.kind = "restore" /\ op'.session = op.session /\ op'.epoch = op.epoch
        /\ op'.projects = op.projects /\ op'.left = op.left /\ op'.used = op.used
        /\ op'.issue \in {op.issue, TRUE} /\ op'.step = "window" /\ op'.target = op.target
        /\ op'.project = op.project /\ op'.todo = op.todo \ {s} /\ DOMAIN op' = DOMAIN q
    <3>1. CASE op' = q
      BY <2>4, <3>1
    <3>2. CASE op' = [q EXCEPT !.issue = TRUE]
      BY <2>4, <3>2
    <3> QED
      BY <1>2, <2>3, <3>1, <3>2 DEF LoseWindow, NextWindow
  <2> QED
    BY <1>1, <2>4, <2>5 DEF Going
<1>3. ASSUME NEW x, Placing(s, x)
      PROVE  /\ Going /\ op'.step = "place" /\ op'.target = op.target
             /\ op'.project = op.project /\ op'.todo = op.todo /\ op'.saved = s
             /\ {"target", "project", "todo", "window", "saved"} \subseteq DOMAIN op'
  BY <1>1, <1>3 DEF Placing, With, Going
<1> QED
  BY <1>2, <1>3

\* The step a window's end leads to is fit.
LEMMA InsideFits ==
    ASSUME IInv, op.kind = "restore", op.step \in Inside, Going,
           op'.step \in {"window", "place"}, op'.target = op.target,
           op'.project = op.project, op'.todo \subseteq op.todo,
           {"target", "project", "todo"} \subseteq DOMAIN op',
           op'.step = "place" => {"window", "saved"} \subseteq DOMAIN op',
           UNCHANGED epoch
    PROVE  OpTypes' /\ GoesOn
<1>1. OpTypes'
  BY DEF Going, OpTypes, CaptureTypes, RestoreTypes, Inside, IInv
<1>2. GoesOn
  BY DEF Going, GoesOn, Pinned, Inside
<1> QED
  BY <1>1, <1>2

\* Nothing but the step changes.
LEMMA InsideHolds ==
    ASSUME IInv, op.kind = "restore", op.step \in Inside, NEW s,
           LoseWindow(s) \/ \E x : Placing(s, x),
           UNCHANGED <<source, projects, records, store, jobs, report, dirty, ids, recipe, history>>
    PROVE  IInv'
<1>1. OpTypes' /\ GoesOn /\ op'.kind = "restore"
  BY InsideGoes, InsideFits DEF IInv, Going, source
<1>2. SlotsFit
  BY SlotsSame DEF records
<1> QED
  BY <1>1, <1>2, RestHolds DEF IInv, Types, records

LEMMA PlaceStep == ASSUME IInv, Place PROVE IInv'
<1>1. /\ op.kind = "restore" /\ op.step = "place" /\ op.step \in Inside
      /\ UNCHANGED <<epoch, connected, opened, projects, records, store, jobs, report, ids,
                     recipe, history>>
  BY DEF Place, Restoring, At, Inside
<1>2. CASE LoseWindow(op.saved) /\ UNCHANGED <<windows, dirty>>
  BY <1>1, <1>2, InsideHolds DEF source
<1>3. CASE /\ op.window \in DOMAIN windows
           /\ windows' = [windows EXCEPT ![op.window].at = op.target]
           /\ NoticedIf("move", windows' # windows)
           /\ NextWindow(op.saved)
  <2>1. op.target \in Workspaces /\ windows \in [DOMAIN windows -> Window] /\ dirty \in BOOLEAN
    BY <1>1 DEF IInv, Types, OpTypes, RestoreTypes
  <2>2. SameWindows
    BY <1>1, <1>3, <2>1 DEF SameWindows, Window
  <2>3. OpTypes' /\ GoesOn /\ op'.kind = "restore"
    BY <1>1, <1>3, InsideGoes, InsideFits DEF IInv, Going
  <2>4. SlotsFit
    BY <1>1, SlotsSame DEF records
  <2>5. dirty' \in BOOLEAN /\ (dirty' \/ UNCHANGED <<dirty, windows>>)
    BY <1>3, <2>1 DEF NoticedIf, Meaningful
  <2>6. Follows' /\ Snapshot' /\ Reals'
    BY <1>1, <2>3, <2>5, FollowsRest DEF records, history
  <2>7. /\ deferred' \in BOOLEAN /\ bindings' \in Bindings /\ DOMAIN slotProjects' \subseteq 1..ids
        /\ slotProjects' \in [DOMAIN slotProjects' -> Projects]
        /\ claimed' = claimed /\ armed' \in 0..epoch /\ (armed' = 0 \/ armed' \in claimed')
        /\ report' \in {"none", "running", "completed", "partial"}
    BY <1>1 DEF IInv, Types, Claims, records, history
  <2> QED
    BY <1>1, <2>2, <2>3, <2>4, <2>5, <2>6, <2>7, GoesOnHolds DEF records, history
<1> QED
  BY <1>2, <1>3 DEF Place

\* A window of a recorded launch is the saved one: its launch is not pending.
LEMMA RememberHolds ==
    ASSUME Sensible, IInv, op.kind = "restore", NEW s, NEW x \in DOMAIN windows,
           \/ op.step = "window" /\ s \in op.todo
           \/ op.step = "match" /\ s = op.saved,
           op.epoch = epoch,
           \A y \in DOMAIN windows : anchors[y] # [id |-> s, epoch |-> epoch],
           [saved |-> s, token |-> windows[x].token, epoch |-> epoch] \in launches,
           Remember(s, x), Placing(s, x),
           UNCHANGED <<source, projects, bindings, slots, armed, checkpoints, slotProjects,
                       store, jobs, report, dirty, ids, recipe, claimed, deferred>>
    PROVE  IInv'
<1> USE DEF source
<1>1. PICK P \in SUBSET (1..ids) : Sorted(P)
  BY DEF IInv
<1>2. s \in (1..ids) \ P /\ op.step \in Inside
  BY <1>1 DEF Sorted, Inside
<1>3. /\ opened \in Nat /\ x \in 1..opened /\ x \in 1..MaxOpened /\ epoch \in Nat \ {0}
      /\ DOMAIN windows \subseteq 1..MaxOpened /\ ids \in Nat /\ anchors \in [1..MaxOpened -> Link]
  <2>1. opened \in 0..MaxOpened /\ DOMAIN windows \subseteq 1..opened
    BY DEF IInv, Types
  <2> QED
    BY <2>1 DEF Sensible, IInv, Types
<1>4. /\ anchors' = [anchors EXCEPT ![x] = [id |-> s, epoch |-> epoch]]
      /\ launches' = {l \in launches : l.saved # s \/ l.epoch # epoch}
      /\ spawned' = {IF l.token = windows[x].token THEN [l EXCEPT !.window = x] ELSE l :
                        l \in spawned}
  BY DEF Remember
<1>5. /\ anchors'[x] = [id |-> s, epoch |-> epoch] /\ [id |-> s, epoch |-> epoch] \in Link
      /\ \A y \in 1..MaxOpened : y # x => anchors'[y] = anchors[y]
      /\ anchors' \in [1..MaxOpened -> Link]
  <2>1. [id |-> s, epoch |-> epoch] \in Link
    BY <1>2, <1>3 DEF Link
  <2> QED
    BY <1>3, <1>4, <2>1
<1>6. /\ Going /\ op'.step = "place" /\ op'.todo = op.todo /\ op'.saved = s
      /\ OpTypes' /\ GoesOn /\ op'.kind = "restore"
  BY <1>2, InsideGoes, InsideFits DEF IInv, Going
<1>7. Snapshot' /\ Reals' /\ Follows'
  BY <1>6, FollowsRest
<1>8. Sorted(P)'
  <2>1. \A y \in 1..MaxOpened : anchors'[y] # NoLink => anchors'[y].id \in (1..ids) \ P
    BY <1>1, <1>2, <1>5 DEF Sorted
  <2> QED
    BY <1>1, <1>2, <1>6, <2>1 DEF Sorted, Sort, Going
<1>9. Links'
  <2>1. ASSUME NEW y \in 1..MaxOpened
        PROVE  /\ anchors'[y].epoch <= epoch /\ anchors'[y].epoch <= op'.epoch
               /\ anchors'[y].epoch = epoch => y <= opened
    <3>1. CASE y = x
      BY <1>3, <1>5, <1>6, <3>1 DEF Going
    <3>2. CASE y # x
      BY <1>5, <1>6, <3>2 DEF IInv, Links, Pinned, Going
    <3> QED
      BY <3>1, <3>2
  <2>2. \A y, z \in DOMAIN windows : y # z /\ anchors'[y].epoch = epoch => anchors'[y] # anchors'[z]
    BY <1>3, <1>5 DEF IInv, Links
  <2> QED
    BY <2>1, <2>2 DEF IInv, Links
\* The launch that was recorded, and what becomes of the others.
<1>10. PICK found \in spawned : found.saved = s /\ found.token = windows[x].token
                                /\ found.stamp = epoch
  BY DEF IInv, Tokens
<1> DEFINE seen(l) == IF l.token = windows[x].token THEN [l EXCEPT !.window = x] ELSE l
<1>11. \A l \in spawned :
        /\ seen(l) \in [token : Nat, saved : Nat, stamp : Nat, made : Nat, window : Nat]
        /\ seen(l).token = l.token /\ seen(l).saved = l.saved
        /\ seen(l).stamp = l.stamp /\ seen(l).made = l.made
        /\ seen(l).window = IF l = found THEN x ELSE l.window
  <2>1. \A l \in spawned : l \in [token : Nat, saved : Nat, stamp : Nat, made : Nat, window : Nat]
    BY DEF IInv, Types
  <2>2. \A l \in spawned : l.token = windows[x].token <=> l = found
    BY <1>10 DEF IInv, Tokens
  <2> QED
    BY <1>3, <2>1, <2>2
<1> HIDE DEF seen
<1>12. spawned' = {seen(l) : l \in spawned}
  BY <1>4 DEF seen
<1>13. Types'
  <2>1. spawned' \subseteq [token : Nat, saved : Nat, stamp : Nat, made : Nat, window : Nat]
    BY <1>11, <1>12
  <2> QED
    BY <1>4, <1>5, <2>1 DEF IInv, Types
<1>14. Tokens'
  <2>1. ASSUME NEW l \in spawned'
        PROVE  l.token \in 1..ids /\ l.stamp <= l.made /\ l.made <= epoch
    BY <1>11, <1>12 DEF IInv, Tokens
  <2>2. ASSUME NEW l \in spawned', NEW m \in spawned', l.token = m.token PROVE l = m
    <3>1. PICK k \in spawned, j \in spawned : l = seen(k) /\ m = seen(j)
      BY <1>12
    <3>2. k = j
      BY <1>11, <2>2, <3>1 DEF IInv, Tokens
    <3> QED
      BY <3>1, <3>2
  <2>3. ASSUME NEW r \in launches'
        PROVE  \E l \in spawned' : r = [saved |-> l.saved, token |-> l.token, epoch |-> l.stamp]
    <3>1. PICK l \in spawned : r = [saved |-> l.saved, token |-> l.token, epoch |-> l.stamp]
      BY <1>4 DEF IInv, Tokens
    <3>2. seen(l) \in spawned'
      BY <1>12
    <3>3. r = [saved |-> seen(l).saved, token |-> seen(l).token, epoch |-> seen(l).stamp]
      BY <1>11, <3>1
    <3> QED
      BY <3>2, <3>3
  <2> QED
    BY <1>4, <1>6, <2>1, <2>2, <2>3 DEF IInv, Tokens, Pinned, Going
<1>15. Launching'
  <2>1. ASSUME NEW l \in spawned, NEW m, m = seen(l), l # found, l.stamp = epoch
        PROVE  /\ Outstanding(m)' <=> Outstanding(l)
               /\ Recorded(l) => Recorded(m)'
               /\ Outstanding(l) /\ Anchored(l) => l.saved # s /\ Anchored(m)'
               /\ l.saved = s => ~Outstanding(l)
    <3>1. Outstanding(m)' <=> Outstanding(l)
      BY <1>11, <2>1 DEF Outstanding, Of
    <3>2. Recorded(l) => l.saved # s
      BY <1>10, <2>1 DEF Recorded, IInv, Tokens
    <3>3. Recorded(l) => Recorded(m)'
      BY <1>4, <1>11, <2>1, <3>2 DEF Recorded
    <3>4. Outstanding(l) /\ Anchored(l) => l.saved # s /\ l.window # x
      <4> SUFFICES ASSUME Outstanding(l), Anchored(l) PROVE l.saved # s /\ l.window # x
        OBVIOUS
      <4>1. l.window \in DOMAIN windows /\ l.window # 0
        BY DEF Anchored, IInv, Types
      <4>2. windows[l.window].token = l.token
        BY <4>1 DEF Outstanding, Of
      <4>3. l.window # x
        BY <1>10, <2>1, <4>2 DEF IInv, Tokens
      <4> QED
        BY <4>3 DEF Anchored
    <3>5. Outstanding(l) /\ Anchored(l) => Anchored(m)'
      <4> SUFFICES ASSUME Outstanding(l), Anchored(l) PROVE Anchored(m)'
        OBVIOUS
      <4>1. l.window \in 1..MaxOpened /\ l.window # x
        BY <1>3, <3>4 DEF Anchored
      <4>2. anchors'[l.window] = [id |-> l.saved, epoch |-> epoch]
        BY <1>5, <4>1 DEF Anchored
      <4> QED
        BY <1>11, <2>1, <4>2 DEF Anchored
    <3> QED
      BY <2>1, <3>1, <3>2, <3>3, <3>4, <3>5 DEF IInv, Launching
  <2>2. ASSUME NEW m, m = seen(found) PROVE Anchored(m)' /\ m.window = x
    BY <1>5, <1>10, <1>11, <2>2 DEF Anchored
  <2>3. ASSUME NEW l \in spawned', l.stamp = epoch
        PROVE  l.window <= opened /\ (Outstanding(l)' => Recorded(l)' \/ Anchored(l)')
    <3>1. PICK k \in spawned : l = seen(k)
      BY <1>12
    <3>2. CASE k = found
      BY <1>3, <2>2, <3>1, <3>2
    <3>3. CASE k # found
      <4>1. k.stamp = epoch /\ seen(k).window = k.window
        BY <1>11, <2>3, <3>1, <3>3
      <4>2. k.window <= opened /\ (Outstanding(k) => Recorded(k) \/ Anchored(k))
        BY <4>1 DEF IInv, Launching
      <4>3. /\ Outstanding(l)' <=> Outstanding(k)
            /\ Recorded(k) => Recorded(l)'
            /\ Outstanding(k) /\ Anchored(k) => Anchored(l)'
        BY <2>1, <3>1, <3>3, <4>1
      <4> QED
        BY <3>1, <4>1, <4>2, <4>3
    <3> QED
      BY <3>2, <3>3
  <2>4. ASSUME NEW l \in spawned', NEW m \in spawned', l # m, l.saved = m.saved,
               l.stamp = epoch, m.stamp = epoch
        PROVE  ~(Outstanding(l)' /\ Outstanding(m)')
    <3>1. PICK k \in spawned, j \in spawned : l = seen(k) /\ m = seen(j)
      BY <1>12
    <3>2. k # j /\ k.saved = j.saved /\ k.stamp = epoch /\ j.stamp = epoch
      BY <1>11, <2>4, <3>1
    <3>3. CASE k = found
      <4>1. ~Outstanding(j) /\ j # found
        BY <1>10, <2>1, <3>2, <3>3
      <4>2. ~Outstanding(m)'
        BY <2>1, <3>1, <3>2, <4>1
      <4> QED
        BY <3>1, <4>2
    <3>4. CASE j = found
      <4>1. ~Outstanding(k) /\ k # found
        BY <1>10, <2>1, <3>2, <3>4
      <4>2. ~Outstanding(l)'
        BY <2>1, <3>1, <3>2, <4>1
      <4> QED
        BY <3>1, <4>2
    <3>5. CASE k # found /\ j # found
      <4>1. ~(Outstanding(k) /\ Outstanding(j))
        BY <3>2 DEF IInv, Launching
      <4>2. (Outstanding(l)' <=> Outstanding(k)) /\ (Outstanding(m)' <=> Outstanding(j))
        BY <2>1, <3>1, <3>2, <3>5
      <4> QED
        BY <3>1, <4>1, <4>2
    <3> QED
      BY <3>3, <3>4, <3>5
  <2> QED
    BY <1>6, <2>3, <2>4 DEF Launching
<1>16. Saves' /\ Claims'
  BY <1>6 DEF IInv, Saves, Keyed, Valid, ProjectOf, Claims
<1> QED
  BY <1>1, <1>6, <1>7, <1>8, <1>9, <1>13, <1>14, <1>15, <1>16 DEF IInv

LEMMA FindWindowStep == ASSUME Sensible, IInv, NEW s, FindWindow(s) PROVE IInv'
<1>1. /\ op.kind = "restore" /\ op.step = "window" /\ op.step \in Inside /\ s \in op.todo
      /\ UNCHANGED <<source, projects, bindings, slots, armed, checkpoints, slotProjects,
                     store, jobs, report, dirty, ids, recipe, claimed, deferred>>
  BY DEF FindWindow, Restoring, At, Inside
<1>2. CASE /\ LoseWindow(s) \/ \E x : Placing(s, x)
           /\ UNCHANGED <<anchors, launches, spawned>>
  BY <1>1, <1>2, InsideHolds DEF records, history
<1>3. ASSUME NEW x \in DOMAIN windows, NEW l \in Pending(s),
             {y \in DOMAIN windows : anchors[y] = [id |-> s, epoch |-> epoch]} = {},
             windows[x].token = l.token, Remember(s, x), Placing(s, x)
      PROVE  IInv'
  <2>1. l \in launches /\ l = [saved |-> s, token |-> windows[x].token, epoch |-> epoch]
    BY <1>3 DEF Pending, IInv, Types
  <2>2. op.epoch = epoch
    <3>1. epoch <= op.epoch /\ op.epoch \in 1..epoch /\ epoch \in Nat
      BY <1>1, <2>1 DEF IInv, Types, Tokens, Pinned, OpTypes, RestoreTypes
    <3> QED
      BY <3>1
  <2> QED
    BY <1>1, <1>3, <2>1, <2>2, RememberHolds
<1> QED
  BY <1>2, <1>3 DEF FindWindow

LEMMA MatchStep == ASSUME Sensible, IInv, Match PROVE IInv'
<1>1. /\ op.kind = "restore" /\ op.step = "match" /\ op.step \in Inside
      /\ UNCHANGED <<source, projects, bindings, slots, armed, checkpoints, slotProjects,
                     store, jobs, report, dirty, ids, recipe, claimed, deferred>>
  BY DEF Match, Restoring, At, Inside
<1>2. CASE LoseWindow(op.saved) /\ UNCHANGED <<anchors, launches, spawned>>
  BY <1>1, <1>2, InsideHolds DEF records, history
<1>3. ASSUME NEW x \in Of(op.token), epoch = op.epoch, Remember(op.saved, x), Placing(op.saved, x)
      PROVE  IInv'
  <2>1. x \in DOMAIN windows /\ windows[x].token = op.token
    BY DEF Of
  <2>2. /\ [saved |-> op.saved, token |-> windows[x].token, epoch |-> epoch] \in launches
        /\ \A y \in DOMAIN windows : anchors[y] # [id |-> op.saved, epoch |-> epoch]
    BY <1>1, <1>3, <2>1 DEF IInv, Launching
  <2> QED
    BY <1>1, <1>3, <2>1, <2>2, RememberHolds
<1> QED
  BY <1>2, <1>3 DEF Match

\* What was recorded of the window before is of another life: it may go.
LEMMA LaunchStep == ASSUME IInv, NEW s, Launch(s) PROVE IInv'
<1> USE DEF source
<1>1. /\ op.kind = "restore" /\ op.step = "window" /\ op.step \in Inside /\ s \in op.todo
      /\ Pending(s) = {} /\ ids' = ids + 1
      /\ \A x \in DOMAIN windows : anchors[x] # [id |-> s, epoch |-> epoch]
      /\ UNCHANGED <<source, projects, bindings, slots, anchors, armed, checkpoints,
                     slotProjects, store, jobs, report, dirty, recipe, claimed, deferred>>
  BY DEF Launch, Restoring, At, Inside
<1> DEFINE others == {l \in launches : l.saved # s}
           record == [saved |-> s, token |-> ids', epoch |-> op.epoch]
           launch == [token |-> ids', saved |-> s, stamp |-> op.epoch, made |-> epoch, window |-> 0]
           started == /\ launches' = others \cup {record}
                      /\ spawned' = spawned \cup {launch}
                      /\ op' = With(op, [step |-> "match", saved |-> s, token |-> ids'])
           failed == /\ launches' = others /\ UNCHANGED spawned
                     /\ LoseWindow(s)
<1>2. started \/ failed
  BY DEF Launch
<1>3. /\ ids \in Nat /\ ids' \in Nat /\ 1..ids \subseteq 1..ids' /\ ids' \in 1..ids'
      /\ ids' \notin 1..ids /\ epoch \in Nat \ {0} /\ op.epoch \in Nat /\ op.epoch <= epoch
  <2>1. ids \in Nat /\ epoch \in Nat \ {0} /\ op.epoch \in 1..epoch
    BY <1>1 DEF IInv, Types, OpTypes, RestoreTypes
  <2> QED
    BY <1>1, <2>1
<1>4. PICK P \in SUBSET (1..ids) : Sorted(P)
  BY DEF IInv
<1>5. s \in (1..ids) \ P /\ P \in SUBSET (1..ids')
  BY <1>1, <1>3, <1>4 DEF Sorted
<1>6. /\ Going /\ op'.target = op.target /\ op'.project = op.project /\ op'.todo \subseteq op.todo
      /\ {"target", "project", "todo"} \subseteq DOMAIN op'
      /\ \/ failed /\ op'.step = "window"
         \/ started /\ op'.step = "match" /\ op'.saved = s /\ op'.token = ids'
            /\ {"saved", "token"} \subseteq DOMAIN op'
  <2>1. CASE failed
    <3>1. /\ Going /\ op'.step = "window" /\ op'.target = op.target /\ op'.project = op.project
          /\ op'.todo = op.todo \ {s} /\ {"target", "project", "todo"} \subseteq DOMAIN op'
      BY <1>1, <2>1, InsideGoes DEF IInv
    <3> QED
      BY <2>1, <3>1
  <2>2. CASE started
    <3>1. /\ op.used \subseteq Workspaces /\ op.issue \in BOOLEAN
          /\ {"kind", "step", "session", "epoch", "projects", "left", "used", "issue"}
                \subseteq DOMAIN op
          /\ {"target", "project", "todo"} \subseteq DOMAIN op
      BY <1>1 DEF IInv, OpTypes, RestoreTypes
    <3>2. op' = With(op, [step |-> "match", saved |-> s, token |-> ids'])
      BY <2>2
    <3>3. /\ op'.kind = "restore" /\ op'.session = op.session /\ op'.epoch = op.epoch
          /\ op'.projects = op.projects /\ op'.left = op.left /\ op'.used = op.used
          /\ op'.issue = op.issue /\ op'.target = op.target /\ op'.project = op.project
          /\ op'.todo = op.todo /\ op'.step = "match" /\ op'.saved = s /\ op'.token = ids'
          /\ DOMAIN op \subseteq DOMAIN op' /\ {"saved", "token"} \subseteq DOMAIN op'
      BY <1>1, <3>1, <3>2 DEF With
    <3> HIDE DEF started
    <3> QED
      BY <2>2, <3>1, <3>3 DEF Going
  <2> QED
    BY <1>2, <2>1, <2>2
<1>7. OpTypes'
  <2>1. op'.step = "match" => op'.token \in 1..ids' /\ {"saved", "token"} \subseteq DOMAIN op'
    BY <1>2, <1>3, <1>6
  <2> QED
    BY <1>1, <1>6, <2>1 DEF Going, OpTypes, CaptureTypes, RestoreTypes, Inside, IInv
<1>8. Snapshot' /\ Reals' /\ Follows'
  BY <1>1, <1>6, FollowsRest DEF Going
<1>9. Sorted(P)'
  <2> DEFINE fit(session) == \A d \in session : d.slot \in P /\ d.windows \subseteq (1..ids') \ P
                                                /\ d.key \in 1..ids'
  <2>1. \A session : Sort(session, P) => fit(session)
    BY <1>3 DEF Sort
  <2> HIDE DEF fit
  <2>2. op'.step = "match" => op'.saved = s
    BY <1>2, <1>6
  <2>3. /\ P \subseteq 1..ids'
        /\ \A w \in Workspaces : slots'[w] # NoLink => slots'[w].id \in P
        /\ \A x \in 1..MaxOpened : anchors'[x] # NoLink => anchors'[x].id \in (1..ids') \ P
    BY <1>1, <1>3, <1>4 DEF Sorted
  <2>4. /\ \A n \in Names : store'[n] # None => fit(store'[n])
        /\ \A j \in jobs' : fit(j.session)
    BY <1>1, <1>4, <2>1 DEF Sorted
  <2>5. fit(op'.session) /\ op'.todo \subseteq (1..ids') \ P /\ s \in (1..ids') \ P
    BY <1>1, <1>3, <1>4, <1>5, <1>6, <2>1 DEF Sorted, Going
  <2> QED
    BY <1>6, <2>2, <2>3, <2>4, <2>5 DEF Sorted, Sort, Going, fit
<1>10. Types'
  <2>1. record \in [saved : Nat, token : Nat, epoch : Nat]
        /\ launch \in [token : Nat, saved : Nat, stamp : Nat, made : Nat, window : Nat]
    BY <1>3, <1>5
  <2>2. /\ launches' \subseteq [saved : Nat, token : Nat, epoch : Nat]
        /\ spawned' \subseteq [token : Nat, saved : Nat, stamp : Nat, made : Nat, window : Nat]
    BY <1>2, <2>1 DEF IInv, Types
  <2>3. DOMAIN checkpoints \subseteq 1..ids' /\ DOMAIN slotProjects \subseteq 1..ids'
    BY <1>3 DEF IInv, Types
  <2> QED
    BY <1>1, <1>3, <2>2, <2>3 DEF IInv, Types
<1>11. Links' /\ Saves' /\ Claims'
  BY <1>1, <1>6 DEF IInv, Links, Pinned, Going, Saves, Keyed, Valid, ProjectOf, Claims
<1>12. Tokens'
  <2>1. /\ \A l \in spawned' : l \in spawned \/ l = launch
        /\ \A r \in launches' :
               (r \in launches /\ r.saved # s) \/ (r = record /\ launch \in spawned')
        /\ spawned \subseteq spawned'
    BY <1>2
  <2>2. \A l \in spawned : l.token \in 1..ids /\ l.token # ids'
    BY <1>3 DEF IInv, Tokens
  <2>3. \A l \in spawned' : l.token \in 1..ids' /\ l.stamp <= l.made /\ l.made <= epoch
    BY <1>3, <2>1, <2>2 DEF IInv, Tokens
  <2>4. \A l, m \in spawned' : l.token = m.token => l = m
    BY <2>1, <2>2 DEF IInv, Tokens
  <2>5. \A r \in launches' :
            \E l \in spawned' : r = [saved |-> l.saved, token |-> l.token, epoch |-> l.stamp]
    <3>1. record = [saved |-> launch.saved, token |-> launch.token, epoch |-> launch.stamp]
      OBVIOUS
    <3> QED
      BY <2>1, <3>1 DEF IInv, Tokens
  <2>6. \A r, q \in launches' : r.saved = q.saved => r = q
    BY <2>1 DEF IInv, Tokens
  <2>7. \A r \in launches' : r.epoch <= op'.epoch
    BY <1>1, <1>3, <1>6, <2>1 DEF IInv, Tokens, Pinned, Going
  <2> QED
    BY <1>1, <2>3, <2>4, <2>5, <2>6, <2>7 DEF Tokens
<1>13. Launching'
  <2>1. ASSUME NEW l \in spawned, l.stamp = epoch
        PROVE  /\ Outstanding(l)' <=> Outstanding(l)
               /\ Recorded(l) => l.saved # s /\ Recorded(l)'
               /\ Anchored(l) => l.saved # s /\ Anchored(l)'
               /\ l.saved = s => ~Outstanding(l)
    <3>1. Outstanding(l)' <=> Outstanding(l)
      BY <1>1 DEF Outstanding, Of
    <3>2. Recorded(l) => l.saved # s
      BY <1>1, <2>1 DEF Recorded, Pending
    <3>3. Recorded(l) => Recorded(l)'
      BY <1>2, <3>2 DEF Recorded
    <3>4. Anchored(l) => l.saved # s /\ Anchored(l)'
      BY <1>1 DEF Anchored
    <3> QED
      BY <2>1, <3>1, <3>2, <3>3, <3>4 DEF IInv, Launching
  <2>2. CASE failed /\ op'.step = "window"
    <3>1. spawned' = spawned /\ op'.step = "window"
      BY <2>2
    <3> QED
      BY <1>1, <2>1, <3>1 DEF IInv, Launching
  <2>3. CASE started
    <3>1. PICK n : n = launch
      OBVIOUS
    <3>2. /\ spawned' = spawned \cup {n} /\ n.saved = s /\ n.stamp = op.epoch /\ n.window = 0
          /\ [saved |-> n.saved, token |-> n.token, epoch |-> n.stamp] \in launches'
      BY <2>3, <3>1
    <3>3. Recorded(n)'
      BY <3>2 DEF Recorded
    <3>4. 0 <= opened
      BY DEF IInv, Types
    <3>5. \A l \in spawned' : l.stamp = epoch =>
            l.window <= opened /\ (Outstanding(l)' => Recorded(l)' \/ Anchored(l)')
      BY <2>1, <3>2, <3>3, <3>4 DEF IInv, Launching
    <3>6. ASSUME NEW l \in spawned', NEW m \in spawned', l # m, l.saved = m.saved,
                 l.stamp = epoch, m.stamp = epoch
          PROVE  ~(Outstanding(l)' /\ Outstanding(m)')
      BY <2>1, <3>2, <3>6 DEF IInv, Launching
    <3>7. [saved |-> op'.saved, token |-> op'.token, epoch |-> op'.epoch] \in launches'
      BY <1>6, <2>3 DEF Going
    <3> QED
      BY <1>1, <1>6, <2>3, <3>5, <3>6, <3>7 DEF Launching, Going
  <2> QED
    BY <1>6, <2>2, <2>3
<1> QED
  BY <1>5, <1>7, <1>8, <1>9, <1>10, <1>11, <1>12, <1>13 DEF IInv

-----------------------------------------------------------------------------
(* The description: what it gives identities to, and which.                *)

NewSlots == {w \in Described : ~Known(slots[w])}
NewKeys == {w \in Described : KeptKey(w, BoundTo(w)) = {}}
Seen == {x \in DOMAIN op.windows : op.windows[x].at \in Described}
NewWindows == {x \in Seen : ~Known(anchors[x])}
AfterSlots == ids + Cardinality(NewSlots)
AfterKeys == AfterSlots + Cardinality(NewKeys)
AfterAll == AfterKeys + Cardinality(NewWindows)

SlotOf == [w \in Described |-> IF w \in NewSlots THEN Fresh(ids, NewSlots, w) ELSE slots[w].id]
KeyOf == [w \in Described |-> IF w \in NewKeys THEN Fresh(AfterSlots, NewKeys, w)
                              ELSE CHOOSE k \in KeptKey(w, BoundTo(w)) : TRUE]
AnchorOf == [x \in Seen |-> IF x \in NewWindows THEN Fresh(AfterKeys, NewWindows, x)
                            ELSE anchors[x].id]

\* New identities are above the base, at most as many as there are, and differ.
LEMMA FreshIs ==
    ASSUME NEW n \in Nat, NEW S \in SUBSET (1..n), NEW base \in Nat
    PROVE  /\ Cardinality(S) \in Nat
           /\ \A x \in S : Fresh(base, S, x) \in (base + 1)..(base + Cardinality(S))
           /\ \A x, y \in S : x # y => Fresh(base, S, x) # Fresh(base, S, y)
<1> DEFINE upto(x) == {y \in S : y <= x}
<1>1. IsFiniteSet(S) /\ Cardinality(S) \in Nat
  <2>1. IsFiniteSet(1..n)
    BY FS_Interval
  <2> QED
    BY <2>1, FS_Subset, FS_CardinalityType
<1>2. \A x \in S : /\ IsFiniteSet(upto(x)) /\ Cardinality(upto(x)) \in Nat
                   /\ Cardinality(upto(x)) <= Cardinality(S) /\ Cardinality(upto(x)) # 0
  <2> SUFFICES ASSUME NEW x \in S
               PROVE  /\ IsFiniteSet(upto(x)) /\ Cardinality(upto(x)) \in Nat
                      /\ Cardinality(upto(x)) <= Cardinality(S) /\ Cardinality(upto(x)) # 0
    OBVIOUS
  <2>1. upto(x) \in SUBSET S /\ x \in upto(x)
    OBVIOUS
  <2> HIDE DEF upto
  <2> QED
    BY <1>1, <2>1, FS_Subset, FS_CardinalityType, FS_EmptySet
<1>3. ASSUME NEW x \in S, NEW y \in S, x < y
      PROVE  Cardinality(upto(x)) # Cardinality(upto(y))
  <2>1. x \in Nat /\ y \in Nat /\ \A z \in S : z \in Nat
    OBVIOUS
  <2>2. (\A z \in S : z <= x => z <= y) /\ y <= y /\ ~(y <= x)
    BY <1>3, <2>1
  <2>3. upto(x) \in SUBSET upto(y) /\ y \in upto(y) /\ y \notin upto(x)
    BY <2>2
  <2> HIDE DEF upto
  <2> QED
    BY <1>2, <2>3, FS_Subset
<1>4. \A x \in S : Fresh(base, S, x) = base + Cardinality(upto(x))
  BY DEF Fresh
<1>5. \A x, y \in S : x # y => x < y \/ y < x
  OBVIOUS
<1> HIDE DEF upto
<1> QED
  BY <1>1, <1>2, <1>3, <1>4, <1>5

\* What a function that tells its arguments apart makes of a set has its size.
LEMMA SameSize ==
    ASSUME NEW S, IsFiniteSet(S), NEW f, \A x, y \in S : x # y => f[x] # f[y]
    PROVE  Cardinality({f[x] : x \in S}) = Cardinality(S)
<1>1. [x \in S |-> f[x]] \in Bijection(S, {f[x] : x \in S})
  BY DEF Bijection, Injection, Surjection, IsInjective
<1> QED
  BY <1>1, FS_Bijection DEF ExistsBijection

Describing == op.kind = "capture" /\ op.step = "describe"

LEMMA DescribedIn ==
    ASSUME Sensible, IInv, Describing
    PROVE  /\ Described \in SUBSET (1..Count) /\ Count \in Nat /\ Described \subseteq Workspaces
           /\ Seen \in SUBSET (1..MaxOpened) /\ MaxOpened \in Nat
           /\ NewSlots \in SUBSET (1..Count) /\ NewKeys \in SUBSET (1..Count)
           /\ NewWindows \in SUBSET (1..MaxOpened)
           /\ ids \in Nat /\ epoch \in Nat /\ op.epoch \in 1..epoch
           /\ AfterSlots \in Nat /\ AfterKeys \in Nat /\ AfterAll \in Nat
           /\ ids <= AfterSlots /\ AfterSlots <= AfterKeys /\ AfterKeys <= AfterAll
<1>1. /\ Described \in SUBSET (1..Count) /\ Count \in Nat /\ Described \subseteq Workspaces
      /\ Seen \in SUBSET (1..MaxOpened) /\ MaxOpened \in Nat
      /\ ids \in Nat /\ epoch \in Nat /\ op.epoch \in 1..epoch
  BY DEF Sensible, IInv, Types, OpTypes, CaptureTypes, Describing, Described, Workspaces, Seen
<1>2. /\ NewSlots \in SUBSET (1..Count) /\ NewKeys \in SUBSET (1..Count)
      /\ NewWindows \in SUBSET (1..MaxOpened)
  BY <1>1 DEF NewSlots, NewKeys, NewWindows
<1>3. /\ Cardinality(NewSlots) \in Nat /\ Cardinality(NewKeys) \in Nat
      /\ Cardinality(NewWindows) \in Nat
  BY <1>1, <1>2, FreshIs
<1>4. /\ AfterSlots \in Nat /\ AfterKeys \in Nat /\ AfterAll \in Nat
      /\ ids <= AfterSlots /\ AfterSlots <= AfterKeys /\ AfterKeys <= AfterAll
  BY <1>1, <1>3 DEF AfterSlots, AfterKeys, AfterAll
<1> QED
  BY <1>1, <1>2, <1>4

LEMMA SlotsGiven ==
    ASSUME Sensible, IInv, Describing, NEW P, Sorted(P)
    PROVE  /\ \A w \in Described :
                IF Known(slots[w]) THEN SlotOf[w] = slots[w].id /\ SlotOf[w] \in P
                ELSE SlotOf[w] \in (ids + 1)..AfterSlots
           /\ \A v, w \in Described : v # w => SlotOf[v] # SlotOf[w]
<1>1. ASSUME NEW w \in Described
      PROVE  IF Known(slots[w]) THEN SlotOf[w] = slots[w].id /\ SlotOf[w] \in P
             ELSE SlotOf[w] = Fresh(ids, NewSlots, w) /\ SlotOf[w] \in (ids + 1)..AfterSlots
  <2>1. CASE Known(slots[w])
    BY <2>1, DescribedIn DEF SlotOf, NewSlots, Known, Sorted
  <2>2. CASE ~Known(slots[w])
    <3>1. w \in NewSlots
      BY <2>2 DEF NewSlots
    <3>2. Fresh(ids, NewSlots, w) \in (ids + 1)..AfterSlots
      BY <3>1, DescribedIn, FreshIs DEF AfterSlots
    <3> QED
      BY <2>2, <3>1, <3>2 DEF SlotOf
  <2> QED
    BY <2>1, <2>2
<1>2. ASSUME NEW v \in Described, NEW w \in Described, v # w PROVE SlotOf[v] # SlotOf[w]
  <2>1. v \in Workspaces /\ w \in Workspaces /\ ids \in Nat /\ P \subseteq 1..ids
    BY DescribedIn DEF Sorted
  <2>2. CASE Known(slots[v]) /\ Known(slots[w])
    <3>1. slots[v] \in Link /\ slots[w] \in Link /\ slots[v] # slots[w]
      BY <1>2, <2>1, <2>2 DEF IInv, Types, Links, Known
    <3>2. slots[v].id # slots[w].id
      BY <2>2, <3>1 DEF Known, Link
    <3> QED
      BY <1>1, <2>2, <3>2
  <2>3. CASE ~Known(slots[v]) /\ ~Known(slots[w])
    <3>1. v \in NewSlots /\ w \in NewSlots
      BY <2>3 DEF NewSlots
    <3>2. Fresh(ids, NewSlots, v) # Fresh(ids, NewSlots, w)
      BY <1>2, <3>1, DescribedIn, FreshIs
    <3> QED
      BY <1>1, <2>3, <3>2
  <2>4. \A i \in P : \A j \in (ids + 1)..AfterSlots : i # j
    BY <2>1, DescribedIn
  <2>5. CASE Known(slots[v]) /\ ~Known(slots[w])
    <3>1. SlotOf[v] \in P /\ SlotOf[w] \in (ids + 1)..AfterSlots
      BY <1>1, <2>5
    <3> QED
      BY <2>4, <3>1
  <2>6. CASE ~Known(slots[v]) /\ Known(slots[w])
    <3>1. SlotOf[w] \in P /\ SlotOf[v] \in (ids + 1)..AfterSlots
      BY <1>1, <2>6
    <3> QED
      BY <2>4, <3>1
  <2> QED
    BY <2>2, <2>3, <2>5, <2>6
<1> QED
  BY <1>1, <1>2

LEMMA AnchorsGiven ==
    ASSUME Sensible, IInv, Describing, NEW P, Sorted(P)
    PROVE  /\ \A x \in Seen :
                IF Known(anchors[x])
                THEN AnchorOf[x] = anchors[x].id /\ AnchorOf[x] \in (1..ids) \ P
                ELSE AnchorOf[x] \in (AfterKeys + 1)..AfterAll
           /\ \A x, y \in Seen : x # y => AnchorOf[x] # AnchorOf[y]
<1>1. ASSUME NEW x \in Seen
      PROVE  IF Known(anchors[x]) THEN AnchorOf[x] = anchors[x].id /\ AnchorOf[x] \in (1..ids) \ P
             ELSE AnchorOf[x] = Fresh(AfterKeys, NewWindows, x)
                  /\ AnchorOf[x] \in (AfterKeys + 1)..AfterAll
  <2>1. CASE Known(anchors[x])
    BY <2>1, DescribedIn DEF AnchorOf, NewWindows, Known, Sorted
  <2>2. CASE ~Known(anchors[x])
    <3>1. x \in NewWindows
      BY <2>2 DEF NewWindows
    <3>2. Fresh(AfterKeys, NewWindows, x) \in (AfterKeys + 1)..AfterAll
      BY <3>1, DescribedIn, FreshIs DEF AfterAll
    <3> QED
      BY <2>2, <3>1, <3>2 DEF AnchorOf
  <2> QED
    BY <2>1, <2>2
<1>2. ASSUME NEW x \in Seen, NEW y \in Seen, x # y PROVE AnchorOf[x] # AnchorOf[y]
  <2>1. x \in 1..MaxOpened /\ y \in 1..MaxOpened /\ ids \in Nat
        /\ x \in DOMAIN op.windows /\ y \in DOMAIN op.windows
    BY DescribedIn DEF Seen
  <2>2. CASE Known(anchors[x]) /\ Known(anchors[y])
    <3>1. anchors[x] \in Link /\ anchors[y] \in Link
      BY <2>1 DEF IInv, Types
    <3>2. anchors[x] # anchors[y]
      BY <1>2, <2>1, <2>2 DEF IInv, Snapshot, Known, Describing
    <3>3. anchors[x].id # anchors[y].id
      BY <2>2, <3>1, <3>2 DEF Known, Link
    <3> QED
      BY <1>1, <2>2, <3>3
  <2>3. CASE ~Known(anchors[x]) /\ ~Known(anchors[y])
    <3>1. x \in NewWindows /\ y \in NewWindows
      BY <2>3 DEF NewWindows
    <3>2. Fresh(AfterKeys, NewWindows, x) # Fresh(AfterKeys, NewWindows, y)
      BY <1>2, <3>1, DescribedIn, FreshIs
    <3> QED
      BY <1>1, <2>3, <3>2
  <2>4. \A i \in (1..ids) \ P : \A j \in (AfterKeys + 1)..AfterAll : i # j
    BY <2>1, DescribedIn
  <2>5. CASE Known(anchors[x]) /\ ~Known(anchors[y])
    <3>1. AnchorOf[x] \in (1..ids) \ P /\ AnchorOf[y] \in (AfterKeys + 1)..AfterAll
      BY <1>1, <2>5
    <3> QED
      BY <2>4, <3>1
  <2>6. CASE ~Known(anchors[x]) /\ Known(anchors[y])
    <3>1. AnchorOf[y] \in (1..ids) \ P /\ AnchorOf[x] \in (AfterKeys + 1)..AfterAll
      BY <1>1, <2>6
    <3> QED
      BY <2>4, <3>1
  <2> QED
    BY <2>2, <2>3, <2>5, <2>6
<1> QED
  BY <1>1, <1>2

\* A kept key is of the description that the workspace's slot has in "current".
LEMMA KeysGiven ==
    ASSUME Sensible, IInv, Describing, NEW P, Sorted(P)
    PROVE  /\ \A w \in Described :
                \/ KeyOf[w] \in 1..ids /\ ProjectOf(KeyOf[w]) = BoundTo(w)
                \/ KeyOf[w] \in (AfterSlots + 1)..AfterKeys
           /\ \A v, w \in Described : v # w => KeyOf[v] # KeyOf[w]
<1>1. ASSUME NEW w \in Described, w \notin NewKeys
      PROVE  /\ KeyOf[w] \in 1..ids /\ ProjectOf(KeyOf[w]) = BoundTo(w)
             /\ store["current"] # None /\ Known(slots[w])
             /\ \E d \in store["current"] : d.slot = slots[w].id /\ d.key = KeyOf[w]
  <2>1. KeyOf[w] \in KeptKey(w, BoundTo(w))
    BY <1>1 DEF KeyOf, NewKeys
  <2>2. PICK d \in Old(w) :
            KeyOf[w] = d.key /\ BoundTo(w) = ProjectOf(d.key)
    BY <2>1 DEF KeptKey, ProjectOf
  <2>3. store["current"] # None /\ d \in store["current"] /\ d.slot = slots[w].id /\ Known(slots[w])
    BY <2>2 DEF Old
  <2>4. d.key \in 1..ids
    BY <2>3 DEF Sorted, Sort, Names
  <2> QED
    BY <2>2, <2>3, <2>4
<1>2. ASSUME NEW w \in NewKeys
      PROVE  KeyOf[w] = Fresh(AfterSlots, NewKeys, w) /\ KeyOf[w] \in (AfterSlots + 1)..AfterKeys
  <2>1. Fresh(AfterSlots, NewKeys, w) \in (AfterSlots + 1)..AfterKeys
    BY DescribedIn, FreshIs DEF AfterKeys
  <2>2. w \in Described
    BY DEF NewKeys
  <2> QED
    BY <2>1, <2>2 DEF KeyOf
<1>3. ASSUME NEW v \in Described, NEW w \in Described, v # w PROVE KeyOf[v] # KeyOf[w]
  <2>1. CASE v \notin NewKeys /\ w \notin NewKeys
    <3>1. PICK d \in store["current"] : d.slot = slots[v].id /\ d.key = KeyOf[v]
      BY <1>1, <2>1
    <3>2. PICK e \in store["current"] : e.slot = slots[w].id /\ e.key = KeyOf[w]
      BY <1>1, <2>1
    <3>3. SlotOf[v] = slots[v].id /\ SlotOf[w] = slots[w].id /\ SlotOf[v] # SlotOf[w]
      BY <1>1, <1>3, <2>1, SlotsGiven
    <3>4. d # e /\ store["current"] # None
      BY <1>1, <2>1, <3>1, <3>2, <3>3
    <3> QED
      BY <3>1, <3>2, <3>4 DEF IInv, Saves, Keyed, Names
  <2>2. CASE v \in NewKeys /\ w \in NewKeys
    <3>1. Fresh(AfterSlots, NewKeys, v) # Fresh(AfterSlots, NewKeys, w)
      BY <1>3, <2>2, DescribedIn, FreshIs
    <3> QED
      BY <1>2, <2>2, <3>1
  <2>3. \A i \in 1..ids : \A j \in (AfterSlots + 1)..AfterKeys : i # j
    BY DescribedIn
  <2>4. CASE v \in NewKeys /\ w \notin NewKeys
    BY <1>1, <1>2, <2>3, <2>4
  <2>5. CASE v \notin NewKeys /\ w \in NewKeys
    BY <1>1, <1>2, <2>3, <2>5
  <2> QED
    BY <2>1, <2>2, <2>4, <2>5
<1> QED
  BY <1>1, <1>2, <1>3

BoundOnes == {w \in Described : BoundTo(w) # None}
Session == {[slot |-> SlotOf[w], key |-> KeyOf[w], ws |-> w, named |-> w \in Named,
             windows |-> {AnchorOf[x] : x \in Members(op.windows, w)},
             project |-> BoundTo(w)] : w \in Described}

\* What a description writes, in these terms.
LEMMA DescribeIs ==
    ASSUME Describe
    PROVE  /\ Describing /\ ids' = AfterAll
           /\ slots' = [w \in DOMAIN slots |->
                            IF w \in DOMAIN SlotOf THEN [id |-> SlotOf[w], epoch |-> op.epoch]
                            ELSE slots[w]]
           /\ anchors' = [x \in DOMAIN anchors |->
                            IF x \in DOMAIN AnchorOf
                            THEN [id |-> AnchorOf[x], epoch |-> op.epoch] ELSE anchors[x]]
           /\ checkpoints' =
                With(checkpoints, [k \in {KeyOf[w] : w \in BoundOnes} |->
                                    BoundTo(CHOOSE w \in BoundOnes : KeyOf[w] = k)])
           /\ slotProjects' =
                With([s \in DOMAIN slotProjects \ {SlotOf[w] : w \in Described \ BoundOnes} |->
                        slotProjects[s]],
                     [s \in {SlotOf[w] : w \in BoundOnes} |->
                        BoundTo(CHOOSE w \in BoundOnes : SlotOf[w] = s)])
           /\ op' = [kind |-> "capture", step |-> "again", name |-> op.name, epoch |-> op.epoch,
                     windows |-> op.windows, bindings |-> bindings, real |-> Live,
                     session |-> Session]
           /\ UNCHANGED <<source, projects, bindings, launches, armed, store, jobs, report, dirty,
                          expired, recipe, history>>
BY DEF Describe, Describing, Capturing, At, NewSlots, NewKeys, Seen, NewWindows, AfterSlots,
       AfterKeys, AfterAll, SlotOf, KeyOf, AnchorOf, BoundOnes, Session

\* The identities that are of slots, the new ones among them.
AllSlots(P) == P \cup ((ids + 1)..AfterSlots)

LEMMA AllGiven ==
    ASSUME Sensible, IInv, Describing, NEW P, Sorted(P)
    PROVE  /\ AllSlots(P) \subseteq 1..AfterAll /\ 1..ids \subseteq 1..AfterAll
           /\ (1..ids) \ P \subseteq (1..AfterAll) \ AllSlots(P)
           /\ \A w \in Described : SlotOf[w] \in AllSlots(P) /\ KeyOf[w] \in 1..AfterAll
           /\ \A x \in Seen : AnchorOf[x] \in (1..AfterAll) \ AllSlots(P)
<1>1. /\ ids \in Nat /\ AfterSlots \in Nat /\ AfterKeys \in Nat /\ AfterAll \in Nat
      /\ ids <= AfterSlots /\ AfterSlots <= AfterKeys /\ AfterKeys <= AfterAll /\ P \subseteq 1..ids
  BY DescribedIn DEF Sorted
<1>2. /\ 1..ids \subseteq 1..AfterAll /\ (ids + 1)..AfterSlots \subseteq 1..AfterAll
      /\ (AfterSlots + 1)..AfterKeys \subseteq 1..AfterAll
      /\ (AfterKeys + 1)..AfterAll \subseteq 1..AfterAll
      /\ \A i \in 1..ids : i \notin (ids + 1)..AfterSlots
      /\ \A i \in (AfterKeys + 1)..AfterAll : i \notin (ids + 1)..AfterSlots /\ i \notin 1..ids
  BY <1>1
<1>3. /\ AllSlots(P) \subseteq 1..AfterAll /\ (1..ids) \ P \subseteq (1..AfterAll) \ AllSlots(P)
      /\ (AfterKeys + 1)..AfterAll \subseteq (1..AfterAll) \ AllSlots(P)
  BY <1>1, <1>2 DEF AllSlots
<1>4. \A w \in Described : SlotOf[w] \in AllSlots(P)
  BY SlotsGiven DEF AllSlots
<1>5. \A w \in Described : KeyOf[w] \in 1..AfterAll
  BY <1>2, KeysGiven
<1>6. \A x \in Seen : AnchorOf[x] \in (1..AfterAll) \ AllSlots(P)
  BY <1>2, <1>3, AnchorsGiven
<1> QED
  BY <1>2, <1>3, <1>4, <1>5, <1>6

\* The description that is read makes of a workspace.
Describes(d, w) ==
    /\ d.slot = SlotOf[w] /\ d.key = KeyOf[w] /\ d.ws = w /\ d.project = BoundTo(w)
    /\ d.windows = {AnchorOf[x] : x \in Members(op.windows, w)}

LEMMA SessionIs ==
    ASSUME Sensible, IInv, Describing, NEW P, Sorted(P)
    PROVE  /\ Session \subseteq Description
           /\ \A d \in Session : \E w \in Described : Describes(d, w)
           /\ \A d \in Session : d.slot \in AllSlots(P) /\ d.key \in 1..AfterAll
                                 /\ d.windows \subseteq (1..AfterAll) \ AllSlots(P)
           /\ Valid(Session) /\ \A d, e \in Session : d # e => d.key # e.key
<1>1. /\ \A w \in Described : Members(op.windows, w) \subseteq Seen
      /\ \A v, w \in Described : v # w =>
            Members(op.windows, v) \cap Members(op.windows, w) = {}
  BY DEF Members, Seen
<1>2. \A d \in Session : \E w \in Described : Describes(d, w)
  BY DEF Session, Describes
<1>3. \A d \in Session : d.slot \in AllSlots(P) /\ d.key \in 1..AfterAll
                         /\ d.windows \subseteq (1..AfterAll) \ AllSlots(P)
  BY <1>1, <1>2, AllGiven DEF Describes
<1>4. Session \subseteq Description
  <2> SUFFICES ASSUME NEW w \in Described
               PROVE  [slot |-> SlotOf[w], key |-> KeyOf[w], ws |-> w, named |-> w \in Named,
                       windows |-> {AnchorOf[x] : x \in Members(op.windows, w)},
                       project |-> BoundTo(w)] \in Description
    BY DEF Session
  <2>1. SlotOf[w] \in 1..AfterAll /\ KeyOf[w] \in 1..AfterAll
        /\ {AnchorOf[x] : x \in Members(op.windows, w)} \subseteq 1..AfterAll
    BY <1>1, AllGiven
  <2>2. 1..AfterAll \subseteq Nat /\ w \in Workspaces
    BY DescribedIn
  <2>3. BoundTo(w) \in Projects \cup {None}
    BY DEF BoundTo, IInv, Types
  <2>4. SlotOf[w] \in Nat /\ KeyOf[w] \in Nat
        /\ {AnchorOf[x] : x \in Members(op.windows, w)} \in SUBSET Nat
    BY <2>1, <2>2
  <2> QED
    BY <2>2, <2>3, <2>4 DEF Description
<1>5. ASSUME NEW d \in Session, NEW e \in Session, d # e
      PROVE  d.slot # e.slot /\ d.windows \cap e.windows = {} /\ d.key # e.key
  <2>1. PICK v \in Described : d = [slot |-> SlotOf[v], key |-> KeyOf[v], ws |-> v,
                       named |-> v \in Named,
                       windows |-> {AnchorOf[x] : x \in Members(op.windows, v)},
                       project |-> BoundTo(v)]
    BY DEF Session
  <2>2. PICK w \in Described : e = [slot |-> SlotOf[w], key |-> KeyOf[w], ws |-> w,
                       named |-> w \in Named,
                       windows |-> {AnchorOf[x] : x \in Members(op.windows, w)},
                       project |-> BoundTo(w)]
    BY DEF Session
  <2>3. v # w
    BY <1>5, <2>1, <2>2
  <2>4. \A x \in Members(op.windows, v) :
            \A y \in Members(op.windows, w) : AnchorOf[x] # AnchorOf[y]
    BY <1>1, <2>3, AnchorsGiven
  <2>5. SlotOf[v] # SlotOf[w] /\ KeyOf[v] # KeyOf[w]
    BY <2>3, SlotsGiven, KeysGiven
  <2> QED
    BY <2>1, <2>2, <2>4, <2>5
<1>6. \A d, e \in Session : d.slot \notin e.windows
  BY <1>3
<1> QED
  BY <1>2, <1>3, <1>4, <1>5, <1>6 DEF Valid

\* Checkpoints that there were say what they said; the session's say what it is.
LEMMA KeysKept ==
    ASSUME Sensible, IInv, Describe
    PROVE  /\ DOMAIN checkpoints' \subseteq 1..ids'
           /\ checkpoints' \in [DOMAIN checkpoints' -> Projects]
           /\ \A k \in 1..ids : ProjectOf(k)' = ProjectOf(k)
           /\ \A w \in Described : \A k : k = KeyOf[w] => ProjectOf(k)' = BoundTo(w)
<1> DEFINE of(k) == BoundTo(CHOOSE w \in BoundOnes : KeyOf[w] = k)
<1>1. PICK P \in SUBSET (1..ids) : Sorted(P)
  BY DEF IInv
<1>2. Describing /\ ids' = AfterAll
      /\ checkpoints' = With(checkpoints, [k \in {KeyOf[w] : w \in BoundOnes} |-> of(k)])
  BY DescribeIs
<1>3. ASSUME NEW w \in BoundOnes
      PROVE  /\ w \in Described /\ BoundTo(w) \in Projects /\ BoundTo(w) # None
             /\ of(KeyOf[w]) = BoundTo(w)
  <2>1. w \in Described /\ BoundTo(w) # None /\ BoundOnes \subseteq Described
    BY DEF BoundOnes
  <2>2. BoundTo(w) \in Projects
    BY <2>1 DEF BoundTo, IInv, Types
  <2>3. \A v \in BoundOnes : KeyOf[v] = KeyOf[w] => v = w
    BY <1>1, <1>2, <2>1, KeysGiven
  <2> QED
    BY <2>1, <2>2, <2>3
<1> HIDE DEF of
<1>4. /\ DOMAIN checkpoints' = DOMAIN checkpoints \cup {KeyOf[w] : w \in BoundOnes}
      /\ \A w \in BoundOnes : checkpoints'[KeyOf[w]] = BoundTo(w)
      /\ \A k \in DOMAIN checkpoints :
            k \notin {KeyOf[w] : w \in BoundOnes} => checkpoints'[k] = checkpoints[k]
      /\ checkpoints' = [k \in DOMAIN checkpoints' |-> checkpoints'[k]]
  BY <1>2, <1>3 DEF With
<1>5. DOMAIN checkpoints \subseteq 1..ids /\ checkpoints \in [DOMAIN checkpoints -> Projects]
  BY DEF IInv, Types
<1>6. DOMAIN checkpoints' \subseteq 1..ids'
  BY <1>1, <1>2, <1>3, <1>4, <1>5, AllGiven
<1>7. checkpoints' \in [DOMAIN checkpoints' -> Projects]
  <2>1. \A k \in DOMAIN checkpoints' : checkpoints'[k] \in Projects
    BY <1>3, <1>4, <1>5
  <2> QED
    BY <1>4, <2>1
<1>8. ASSUME NEW k \in 1..ids PROVE ProjectOf(k)' = ProjectOf(k)
  <2>1. CASE k \in {KeyOf[w] : w \in BoundOnes}
    <3>1. PICK w \in BoundOnes : k = KeyOf[w]
      BY <2>1
    <3>2. k \notin (AfterSlots + 1)..AfterKeys
      BY <1>2, DescribedIn
    <3>3. ProjectOf(k) = BoundTo(w)
      BY <1>1, <1>2, <1>3, <3>1, <3>2, KeysGiven
    <3> QED
      BY <1>4, <3>1, <3>3 DEF ProjectOf
  <2>2. CASE k \notin {KeyOf[w] : w \in BoundOnes}
    BY <1>4, <2>2 DEF ProjectOf
  <2> QED
    BY <2>1, <2>2
<1>9. ASSUME NEW w \in Described, NEW k, k = KeyOf[w] PROVE ProjectOf(k)' = BoundTo(w)
  <2>1. CASE BoundTo(w) # None
    <3>1. w \in BoundOnes
      BY <2>1 DEF BoundOnes
    <3> QED
      BY <1>4, <1>9, <3>1 DEF ProjectOf
  <2>2. CASE BoundTo(w) = None
    <3>1. k \notin {KeyOf[v] : v \in BoundOnes}
      BY <1>1, <1>2, <1>3, <1>9, <2>2, KeysGiven
    <3>2. k \notin DOMAIN checkpoints
      <4>1. CASE k \in (AfterSlots + 1)..AfterKeys
        <5>1. k \notin 1..ids
          BY <1>2, <4>1, DescribedIn
        <5> QED
          BY <1>5, <5>1
      <4>2. CASE ProjectOf(k) = BoundTo(w)
        BY <1>5, <2>2, <4>2 DEF ProjectOf, Sensible
      <4> QED
        BY <1>1, <1>2, <1>9, <4>1, <4>2, KeysGiven
    <3> QED
      BY <1>4, <2>2, <3>1, <3>2 DEF ProjectOf
  <2> QED
    BY <2>1, <2>2
<1> QED
  BY <1>6, <1>7, <1>8, <1>9

LEMMA SlotProjectsKept ==
    ASSUME Sensible, IInv, Describe
    PROVE  /\ DOMAIN slotProjects' \subseteq 1..ids'
           /\ slotProjects' \in [DOMAIN slotProjects' -> Projects]
<1> DEFINE of(s) == BoundTo(CHOOSE w \in BoundOnes : SlotOf[w] = s)
           kept == [s \in DOMAIN slotProjects \ {SlotOf[w] : w \in Described \ BoundOnes} |->
                        slotProjects[s]]
<1>1. PICK P \in SUBSET (1..ids) : Sorted(P)
  BY DEF IInv
<1>2. Describing /\ ids' = AfterAll
      /\ slotProjects' = With(kept, [s \in {SlotOf[w] : w \in BoundOnes} |-> of(s)])
  BY DescribeIs
<1>3. ASSUME NEW w \in BoundOnes
      PROVE  w \in Described /\ SlotOf[w] \in 1..ids' /\ of(SlotOf[w]) \in Projects
  <2>1. w \in Described /\ BoundOnes \subseteq Described
    BY DEF BoundOnes
  <2>2. \A v \in BoundOnes : BoundTo(v) \in Projects
    BY DEF BoundOnes, BoundTo, IInv, Types
  <2>3. SlotOf[w] \in AllSlots(P) /\ AllSlots(P) \subseteq 1..ids'
    BY <1>1, <1>2, <2>1, AllGiven
  <2>4. (CHOOSE v \in BoundOnes : SlotOf[v] = SlotOf[w]) \in BoundOnes
    OBVIOUS
  <2> QED
    BY <2>1, <2>2, <2>3, <2>4
<1>4. DOMAIN slotProjects \subseteq 1..ids' /\ slotProjects \in [DOMAIN slotProjects -> Projects]
  BY <1>1, <1>2, AllGiven DEF IInv, Types
<1>5. DOMAIN kept \subseteq 1..ids' /\ \A s \in DOMAIN kept : kept[s] \in Projects
  BY <1>4
<1> HIDE DEF of, kept
<1>6. /\ DOMAIN slotProjects' = DOMAIN kept \cup {SlotOf[w] : w \in BoundOnes}
      /\ \A s \in DOMAIN slotProjects' : slotProjects'[s] \in Projects
      /\ slotProjects' = [s \in DOMAIN slotProjects' |-> slotProjects'[s]]
  BY <1>2, <1>3, <1>5 DEF With
<1> QED
  BY <1>3, <1>5, <1>6

\* The links of slots and windows after the description, and whose they are.
LEMMA LinksKept ==
    ASSUME Sensible, IInv, Describe, NEW P, Sorted(P)
    PROVE  /\ slots' \in [Workspaces -> Link] /\ anchors' \in [1..MaxOpened -> Link]
           /\ \A w \in Workspaces : slots'[w] # NoLink => slots'[w].id \in AllSlots(P)
           /\ \A x \in 1..MaxOpened :
                anchors'[x] # NoLink => anchors'[x].id \in (1..AfterAll) \ AllSlots(P)
           /\ \A v, w \in Workspaces : v # w /\ slots'[v] # NoLink => slots'[v] # slots'[w]
           /\ \A x \in 1..MaxOpened :
                /\ anchors'[x].epoch <= op.epoch
                /\ anchors'[x].epoch = epoch => x <= opened
                /\ Known(anchors[x]) => anchors'[x] = anchors[x]
           /\ \A x, y \in DOMAIN windows : x # y /\ anchors'[x].epoch = epoch
                                            => anchors'[x] # anchors'[y]
           /\ \A x \in DOMAIN windows :
                op.epoch = epoch /\ anchors'[x].epoch = epoch => x \in DOMAIN op.windows
<1> DEFINE E == op.epoch
<1>1. /\ Describing /\ Types
      /\ slots' = [w \in Workspaces |-> IF w \in Described THEN [id |-> SlotOf[w], epoch |-> E]
                                        ELSE slots[w]]
      /\ anchors' = [x \in 1..MaxOpened |-> IF x \in Seen THEN [id |-> AnchorOf[x], epoch |-> E]
                                            ELSE anchors[x]]
  BY DescribeIs DEF SlotOf, AnchorOf, IInv, Types
<1>2. /\ Described \subseteq Workspaces /\ Seen \in SUBSET (1..MaxOpened) /\ epoch \in Nat
      /\ E \in Nat /\ E <= epoch /\ E # 0 /\ 1..AfterAll \subseteq Nat /\ MaxOpened \in Nat
      /\ P \subseteq 1..ids /\ ids \in Nat
  <2>1. E \in 1..epoch /\ epoch \in Nat
    BY <1>1, DescribedIn
  <2> QED
    BY <1>1, <2>1, DescribedIn DEF Sorted
<1>3. /\ \A w \in Described : SlotOf[w] \in AllSlots(P) /\ SlotOf[w] \in Nat
                              /\ [id |-> SlotOf[w], epoch |-> E] \in Link
      /\ \A x \in Seen : AnchorOf[x] \in (1..AfterAll) \ AllSlots(P)
                         /\ [id |-> AnchorOf[x], epoch |-> E] \in Link
  <2>1. /\ \A w \in Described : SlotOf[w] \in AllSlots(P) /\ SlotOf[w] \in 1..AfterAll
        /\ \A x \in Seen :
               AnchorOf[x] \in (1..AfterAll) \ AllSlots(P) /\ AnchorOf[x] \in 1..AfterAll
    BY <1>1, AllGiven
  <2> QED
    BY <1>2, <2>1 DEF Link
<1>4. slots' \in [Workspaces -> Link] /\ anchors' \in [1..MaxOpened -> Link]
  BY <1>1, <1>3 DEF Types
<1>5. /\ \A w \in Workspaces : slots'[w] # NoLink => slots'[w].id \in AllSlots(P)
      /\ \A x \in 1..MaxOpened :
            anchors'[x] # NoLink => anchors'[x].id \in (1..AfterAll) \ AllSlots(P)
  <2>1. P \subseteq AllSlots(P) /\ (1..ids) \ P \subseteq (1..AfterAll) \ AllSlots(P)
    BY <1>1, AllGiven DEF AllSlots
  <2> QED
    BY <1>1, <1>3, <2>1 DEF Sorted
<1>6. \A x \in 1..MaxOpened : Known(anchors[x]) => anchors'[x] = anchors[x]
  <2> SUFFICES ASSUME NEW x \in 1..MaxOpened, Known(anchors[x]), x \in Seen
               PROVE  anchors'[x] = anchors[x]
    BY <1>1
  <2>1. AnchorOf[x] = anchors[x].id /\ anchors[x] \in Link /\ anchors[x].epoch = E
    BY <1>1, AnchorsGiven DEF Known, Types
  <2> QED
    BY <1>1, <2>1 DEF Link
<1>7. \A x \in 1..MaxOpened :
        anchors'[x].epoch <= E /\ (anchors'[x].epoch = epoch => x <= opened)
  <2> SUFFICES ASSUME NEW x \in 1..MaxOpened
               PROVE  anchors'[x].epoch <= E /\ (anchors'[x].epoch = epoch => x <= opened)
    OBVIOUS
  <2>1. CASE x \in Seen
    <3>1. anchors'[x].epoch = E /\ x \in DOMAIN op.windows
      BY <1>1, <2>1 DEF Seen
    <3>2. E = epoch => x \in 1..opened
      BY <1>1, <3>1 DEF IInv, Snapshot, Describing
    <3> QED
      BY <1>2, <3>1, <3>2 DEF Types
  <2>2. CASE x \notin Seen
    BY <1>1, <2>2 DEF IInv, Links, Pinned, Describing
  <2> QED
    BY <2>1, <2>2
<1>8. ASSUME NEW v \in Workspaces, NEW w \in Workspaces, v # w, slots'[v] # NoLink
      PROVE  slots'[v] # slots'[w]
  <2>1. CASE v \in Described /\ w \in Described
    <3>1. SlotOf[v] # SlotOf[w]
      BY <1>1, <1>8, <2>1, SlotsGiven
    <3> QED
      BY <1>1, <2>1, <3>1
  <2>2. ASSUME NEW u \in Described, NEW t \in Workspaces, t \notin Described, t # u
        PROVE  slots'[u] # slots'[t]
    <3> SUFFICES ASSUME slots[t] = [id |-> SlotOf[u], epoch |-> E] PROVE FALSE
      BY <1>1, <1>2, <2>2
    <3>1. Known(slots[t]) /\ SlotOf[u] \in P
      BY <1>2, NoneOf DEF Known, Sorted
    <3>2. Known(slots[u]) /\ slots[u].id = SlotOf[u]
      <4>1. SlotOf[u] \notin (ids + 1)..AfterSlots
        BY <1>2, <3>1
      <4> QED
        BY <1>1, <4>1, SlotsGiven
    <3>3. slots[u] \in Link /\ slots[u].epoch = E /\ slots[u] # NoLink
      BY <1>1, <1>2, <3>2 DEF Types, Known
    <3>4. slots[u] = slots[t]
      BY <3>2, <3>3 DEF Link
    <3> QED
      BY <1>2, <2>2, <3>3, <3>4 DEF IInv, Links
  <2>3. CASE v \notin Described /\ w \notin Described
    BY <1>1, <1>8, <2>3 DEF IInv, Links
  <2> QED
    BY <1>8, <2>1, <2>2, <2>3
<1>9. \A x \in DOMAIN windows :
        x \in 1..MaxOpened /\ (E = epoch /\ anchors'[x].epoch = epoch => x \in DOMAIN op.windows)
  <2>1. DOMAIN windows \subseteq 1..MaxOpened
    <3>1. opened \in 0..MaxOpened /\ DOMAIN windows \subseteq 1..opened
      BY <1>1 DEF Types
    <3> QED
      BY <1>2, <3>1
  <2> QED
    BY <1>1, <2>1 DEF Seen, IInv, Snapshot, Describing
<1>10. ASSUME NEW x \in DOMAIN windows, NEW y \in DOMAIN windows, x # y, anchors'[x].epoch = epoch
       PROVE  anchors'[x] # anchors'[y]
  <2>1. CASE x \in Seen /\ y \in Seen
    <3>1. AnchorOf[x] # AnchorOf[y]
      BY <1>1, <1>10, <2>1, AnchorsGiven
    <3> QED
      BY <1>1, <1>2, <2>1, <3>1
  <2>2. ASSUME NEW u \in Seen, u \in DOMAIN windows, NEW t \in DOMAIN windows, t \notin Seen,
               t # u, E = epoch
        PROVE  anchors'[u] # anchors'[t]
    <3> SUFFICES ASSUME anchors[t] = [id |-> AnchorOf[u], epoch |-> E] PROVE FALSE
      BY <1>1, <1>2, <1>9, <2>2
    <3>1. Known(anchors[t]) /\ AnchorOf[u] \in 1..ids /\ t \in DOMAIN op.windows
      BY <1>1, <1>2, <1>9, <2>2, NoneOf DEF Known, Sorted
    <3>2. Known(anchors[u]) /\ anchors[u].id = AnchorOf[u]
      <4>1. AnchorOf[u] \notin (AfterKeys + 1)..AfterAll
        BY <1>1, <1>2, <3>1, DescribedIn
      <4> QED
        BY <1>1, <4>1, AnchorsGiven
    <3>3. anchors[u] \in Link /\ anchors[u].epoch = E /\ u \in DOMAIN op.windows
      BY <1>1, <1>2, <3>2 DEF Types, Known, Seen
    <3>4. anchors[u] = anchors[t]
      BY <3>2, <3>3 DEF Link
    <3> QED
      BY <1>1, <2>2, <3>1, <3>3, <3>4 DEF IInv, Snapshot, Describing
  <2>3. CASE x \notin Seen /\ y \notin Seen
    BY <1>1, <1>9, <1>10, <2>3 DEF IInv, Links
  <2>4. CASE x \in Seen /\ y \notin Seen
    <3>1. E = epoch
      BY <1>1, <1>2, <1>10, <2>4
    <3> QED
      BY <1>10, <2>2, <2>4, <3>1
  <2>5. CASE x \notin Seen /\ y \in Seen
    <3> SUFFICES ASSUME anchors'[x] = anchors'[y] PROVE FALSE
      OBVIOUS
    <3>1. anchors'[y] = [id |-> AnchorOf[y], epoch |-> E]
      BY <1>1, <1>2, <2>5
    <3>2. E = epoch
      BY <1>10, <3>1
    <3> QED
      BY <1>10, <2>2, <2>5, <3>2
  <2> QED
    BY <2>1, <2>3, <2>4, <2>5
<1> QED
  BY <1>4, <1>5, <1>6, <1>7, <1>8, <1>9, <1>10

\* The description is the desktop there is, if nothing has changed since it was read.
LEMMA DescribesShown ==
    ASSUME Sensible, IInv, Describing, NEW P, Sorted(P), epoch = op.epoch, windows = op.windows
    PROVE  AsIs(Session)
<1>1. \A w \in Workspaces : BoundTo(w) = ShownProject(w)
  BY DEF BoundTo, ShownProject
<1>2. Described = {v \in Workspaces :
                    ShownProject(v) # None \/ Members(windows, v) # {} \/ v \in Named}
  BY <1>1 DEF Described
<1>3. ASSUME NEW w \in Described
      PROVE  Cardinality({AnchorOf[x] : x \in Members(op.windows, w)})
                = Cardinality(Members(windows, w))
  <2> DEFINE S == Members(op.windows, w)
  <2>1. S \in SUBSET Seen /\ S = Members(windows, w)
    BY DEF Members, Seen
  <2>2. IsFiniteSet(S)
    <3>1. IsFiniteSet(1..MaxOpened) /\ S \in SUBSET (1..MaxOpened)
      BY <2>1, DescribedIn, FS_Interval
    <3> HIDE DEF S
    <3> QED
      BY <3>1, FS_Subset
  <2>3. \A x, y \in S : x # y => AnchorOf[x] # AnchorOf[y]
    BY <2>1, AnchorsGiven
  <2> HIDE DEF S
  <2>4. Cardinality({AnchorOf[x] : x \in S}) = Cardinality(S)
    BY <2>2, <2>3, SameSize
  <2> QED
    BY <2>1, <2>4 DEF S
<1>4. Summary(Session) = Shown
  <2> DEFINE shown(w) == [ws |-> w, project |-> ShownProject(w),
                          windows |-> Cardinality(Members(windows, w))]
             said(d) == [ws |-> d.ws, project |-> d.project, windows |-> Cardinality(d.windows)]
  <2>1. \A d \in Session : \E w \in Described : Describes(d, w)
    BY SessionIs
  <2>2. ASSUME NEW w \in Described PROVE \E d \in Session : Describes(d, w)
    <3>1. PICK d : d = [slot |-> SlotOf[w], key |-> KeyOf[w], ws |-> w, named |-> w \in Named,
                        windows |-> {AnchorOf[x] : x \in Members(op.windows, w)},
                        project |-> BoundTo(w)]
      OBVIOUS
    <3>2. d \in Session
      BY <3>1 DEF Session
    <3>3. Describes(d, w)
      BY <3>1 DEF Describes
    <3> QED
      BY <3>2, <3>3
  <2>3. ASSUME NEW w \in Described, NEW d \in Session, Describes(d, w) PROVE said(d) = shown(w)
    BY <1>1, <1>2, <1>3, <2>3 DEF Describes
  <2>4. Summary(Session) = {said(d) : d \in Session} /\ Shown = {shown(w) : w \in Described}
    BY <1>2 DEF Summary, Shown
  <2> HIDE DEF shown, said
  <2> QED
    BY <2>1, <2>2, <2>3, <2>4
<1>5. Session # None
  <2>1. Session \in SUBSET Description
    BY SessionIs
  <2> QED
    BY <2>1 DEF Sensible
<1> QED
  BY <1>4, <1>5 DEF AsIs

LEMMA DescribeStep == ASSUME Sensible, IInv, Describe PROVE IInv'
<1> USE DEF source, history
<1>1. PICK P \in SUBSET (1..ids) : Sorted(P)
  BY DEF IInv
<1>2. /\ Describing /\ ids' = AfterAll
      /\ UNCHANGED <<source, projects, bindings, launches, armed, store, jobs, report, dirty,
                     expired, recipe, history>>
  BY DescribeIs
<1>3. PICK S : S = Session
  OBVIOUS
<1>4. /\ op'.kind = "capture" /\ op'.step = "again" /\ op'.name = op.name
      /\ op'.epoch = op.epoch /\ op'.windows = op.windows /\ op'.real = Live /\ op'.session = S
      /\ {"kind", "step", "name", "epoch", "windows", "bindings", "real", "session"}
            \subseteq DOMAIN op'
  BY <1>3, DescribeIs
<1>5. /\ S \subseteq Description /\ Valid(S) /\ \A d, e \in S : d # e => d.key # e.key
      /\ \A d \in S : d.slot \in AllSlots(P) /\ d.key \in 1..AfterAll
                      /\ d.windows \subseteq (1..AfterAll) \ AllSlots(P)
      /\ \A d \in S : \E w \in Described : Describes(d, w)
  BY <1>1, <1>2, <1>3, SessionIs
<1>6. PICK Q : Q = AllSlots(P)
  OBVIOUS
<1>7. /\ ids \in Nat /\ ids' \in Nat /\ ids <= ids' /\ 1..ids \subseteq 1..ids'
      /\ P \subseteq Q /\ (1..ids) \ P \subseteq (1..ids') \ Q /\ Q \in SUBSET (1..ids')
  BY <1>1, <1>2, <1>6, DescribedIn, AllGiven DEF AllSlots
<1>8. Types'
  <2>1. slots' \in [Workspaces -> Link] /\ anchors' \in [1..MaxOpened -> Link]
    BY <1>1, LinksKept
  <2>2. /\ DOMAIN checkpoints' \subseteq 1..ids'
        /\ checkpoints' \in [DOMAIN checkpoints' -> Projects]
        /\ DOMAIN slotProjects' \subseteq 1..ids'
        /\ slotProjects' \in [DOMAIN slotProjects' -> Projects]
    BY KeysKept, SlotProjectsKept
  <2> QED
    BY <1>2, <1>7, <2>1, <2>2 DEF IInv, Types
<1>9. OpTypes'
  BY <1>2, <1>4, <1>5 DEF OpTypes, CaptureTypes, RestoreTypes, Captured, Describing, Live, IInv,
     Types
<1>10. Sorted(Q)'
  <2> DEFINE fit(session) == \A d \in session : d.slot \in Q /\ d.windows \subseteq (1..ids') \ Q
                                                /\ d.key \in 1..ids'
  <2>1. \A session : Sort(session, P) => fit(session)
    BY <1>7 DEF Sort
  <2>2. fit(S)
    BY <1>2, <1>5, <1>6
  <2> HIDE DEF fit
  <2>3. /\ \A n \in Names : store'[n] # None => fit(store'[n])
        /\ \A j \in jobs' : fit(j.session)
    BY <1>1, <1>2, <2>1 DEF Sorted
  <2>4. /\ \A w \in Workspaces : slots'[w] # NoLink => slots'[w].id \in Q
        /\ \A x \in 1..MaxOpened : anchors'[x] # NoLink => anchors'[x].id \in (1..ids') \ Q
    BY <1>1, <1>2, <1>6, LinksKept
  <2> QED
    BY <1>4, <1>7, <2>2, <2>3, <2>4 DEF Sorted, Sort, fit
<1>11. Links'
  <2>1. \A x \in 1..MaxOpened : anchors'[x].epoch <= epoch
    <3>1. \A x \in 1..MaxOpened : anchors'[x].epoch <= op.epoch /\ anchors'[x] \in Link
      BY <1>1, LinksKept
    <3>2. op.epoch \in Nat /\ op.epoch <= epoch /\ epoch \in Nat
      <4>1. op.epoch \in 1..epoch /\ epoch \in Nat
        BY <1>2, DescribedIn
      <4> QED
        BY <4>1
    <3> QED
      BY <3>1, <3>2 DEF Link
  <2> QED
    BY <1>1, <1>2, <1>4, <2>1, LinksKept DEF Links, Pinned
<1>12. Snapshot'
  BY <1>1, <1>2, <1>4, LinksKept DEF Snapshot, IInv, Describing
<1>13. Tokens'
  BY <1>2, <1>4, <1>7 DEF IInv, Tokens, Pinned, Describing
<1>14. Launching'
  <2>1. ASSUME NEW l \in spawned, Anchored(l) PROVE Anchored(l)'
    <3>1. l.window \in DOMAIN windows /\ anchors[l.window] = [id |-> l.saved, epoch |-> epoch]
      BY <2>1 DEF Anchored
    <3>2. l.window \in 1..MaxOpened /\ epoch \in Nat \ {0}
      <4>1. opened \in 0..MaxOpened /\ DOMAIN windows \subseteq 1..opened
        BY DEF IInv, Types
      <4> QED
        BY <3>1, <4>1 DEF Sensible, IInv, Types
    <3>3. op.epoch = epoch
      <4>1. epoch <= op.epoch /\ op.epoch \in 1..epoch
        BY <1>2, <3>1, <3>2, DescribedIn DEF IInv, Links, Pinned, Describing
      <4> QED
        BY <3>2, <4>1
    <3>4. Known(anchors[l.window])
      BY <3>1, <3>2, <3>3, NoneOf DEF Known
    <3> QED
      BY <1>1, <1>2, <3>1, <3>2, <3>4, LinksKept DEF Anchored
  <2>2. \A l \in spawned : (Outstanding(l)' <=> Outstanding(l)) /\ (Recorded(l)' <=> Recorded(l))
    BY <1>2 DEF Outstanding, Of, Recorded
  <2> QED
    BY <1>2, <1>4, <2>1, <2>2 DEF IInv, Launching
<1>15. Saves'
  <2>1. ASSUME NEW session, Keyed(session), Sort(session, P) PROVE Keyed(session)'
    BY <2>1, KeysKept DEF Keyed, Sort, Valid
  <2>2. ASSUME NEW n \in Names, store'[n] # None PROVE Keyed(store[n])'
    <3>1. PICK s : s = store[n]
      OBVIOUS
    <3>2. Keyed(s) /\ Sort(s, P)
      BY <1>1, <1>2, <2>2, <3>1 DEF IInv, Saves, Sorted
    <3>3. Keyed(s)'
      BY <2>1, <3>2
    <3> QED
      BY <1>2, <3>1, <3>3
  <2>3. Keyed(S)'
    <3>1. ASSUME NEW d \in S PROVE d.project = ProjectOf(d.key)'
      <4>1. PICK w \in Described : d.key = KeyOf[w] /\ d.project = BoundTo(w)
        BY <1>5 DEF Describes
      <4> QED
        BY <4>1, KeysKept
    <3> QED
      BY <1>5, <3>1 DEF Keyed, Valid
  <2> QED
    BY <1>4, <2>2, <2>3 DEF Saves
<1>16. Reals' /\ Claims'
  BY <1>2, <1>4 DEF Reals, Gone, Live, Claims, IInv
<1>17. Follows'
  <2> SUFFICES ASSUME ~dirty PROVE Follows'
    BY <1>2 DEF Follows
  <2>1. epoch = op.epoch /\ windows = op.windows
    BY <1>2 DEF IInv, Follows, Describing
  <2>2. AsIs(S)
    BY <1>1, <1>2, <1>3, <2>1, DescribesShown
  <2>3. AsIs(S)'
    BY <1>2, <2>2, AsIsKept
  <2>4. ~deferred /\ ~Writing' => AsIs(store["current"])'
    <3> SUFFICES ASSUME ~deferred, ~Writing' PROVE AsIs(store["current"])'
      OBVIOUS
    <3>1. ~Writing
      BY <1>2, <1>4 DEF Writing, Describing
    <3>2. PICK s : s = store["current"]
      OBVIOUS
    <3>3. AsIs(s)
      BY <3>1, <3>2 DEF IInv, Follows
    <3>4. AsIs(s)'
      BY <1>2, <3>3, AsIsKept
    <3> QED
      BY <1>2, <3>2, <3>4
  <2> QED
    BY <1>2, <1>4, <2>3, <2>4 DEF Follows
<1> QED
  BY <1>7, <1>8, <1>9, <1>10, <1>11, <1>12, <1>13, <1>14, <1>15, <1>16, <1>17 DEF IInv

-----------------------------------------------------------------------------
(* The initial states, and every step.                                     *)

LEMMA InitHolds == ASSUME Sensible, Init PROVE IInv
<1>1. /\ epoch = 2 /\ connected = TRUE /\ windows = <<>> /\ opened = 0 /\ projects = Projects
      /\ bindings = [w \in Workspaces |-> NoBinding] /\ launches = {} /\ armed = 0
      /\ slotProjects = <<>> /\ op = Idle /\ op.kind = "none" /\ jobs = {} /\ report = "none"
      /\ dirty = TRUE /\ recipe \in Recipes /\ spawned = {} /\ claimed = {} /\ deferred = FALSE
  BY DEF Init, Idle
<1>2. /\ DOMAIN windows = {} /\ DOMAIN slotProjects = {}
      /\ windows \in [DOMAIN windows -> Window]
      /\ slotProjects \in [DOMAIN slotProjects -> Projects]
  BY <1>1
<1>3. PICK session \in Starts :
        LET bound == {d \in session : d.project # None}
            shown == UNION {d.windows : d \in session}
        IN  /\ store = [n \in Names |-> IF n = "last" /\ session # {} THEN session ELSE None]
            /\ checkpoints = [k \in {d.key : d \in bound} |->
                                (CHOOSE d \in bound : d.key = k).project]
            /\ slots = [w \in Workspaces |->
                            IF \E d \in session : d.ws = w
                            THEN [id |-> (CHOOSE d \in session : d.ws = w).slot, epoch |-> 1]
                            ELSE NoLink]
            /\ anchors = [x \in 1..MaxOpened |->
                            IF x \in 1..Cardinality(shown)
                            THEN [id |-> CHOOSE s \in shown : Fresh(0, shown, s) = x, epoch |-> 1]
                            ELSE NoLink]
            /\ ids = Cardinality((UNION {{d.slot, d.key} : d \in session}) \cup shown)
  BY DEF Init
\* What is stored and linked, in each case: the identities P are of slots.
<1>4. \E P \in SUBSET (1..ids) :
        /\ ids \in Nat /\ DOMAIN checkpoints \subseteq 1..ids
        /\ checkpoints \in [DOMAIN checkpoints -> Projects]
        /\ slots \in [Workspaces -> Link] /\ anchors \in [1..MaxOpened -> Link]
        /\ \A w \in Workspaces : slots[w] # NoLink => w = Count /\ slots[w].id \in P
        /\ \A x \in 1..MaxOpened : anchors[x].epoch \in {0, 1}
                /\ (anchors[x] # NoLink => anchors[x].id \in (1..ids) \ P)
        /\ store \in [Names -> {None} \cup SUBSET Description]
        /\ \A n \in Names : store[n] # None => Sort(store[n], P) /\ Keyed(store[n])
  <2>1. CASE session = {}
    <3>1. /\ store = [n \in Names |-> None] /\ slots = [w \in Workspaces |-> NoLink]
          /\ DOMAIN checkpoints = {} /\ checkpoints = [k \in {} |-> None]
      BY <1>3, <2>1
    <3>2. UNION {d.windows : d \in session} = {}
          /\ UNION {{d.slot, d.key} : d \in session} = {}
      BY <2>1
    <3>3. ids = 0 /\ anchors = [x \in 1..MaxOpened |-> NoLink]
      <4>1. Cardinality({}) = 0
        BY FS_EmptySet
      <4>2. ids = 0
        BY <1>3, <3>2, <4>1
      <4>3. \A x \in 1..MaxOpened : x \notin 1..0
        OBVIOUS
      <4> QED
        BY <1>3, <3>2, <4>1, <4>2, <4>3
    <3>4. {} \in SUBSET (1..ids)
      OBVIOUS
    <3>5. /\ checkpoints \in [DOMAIN checkpoints -> Projects] /\ slots \in [Workspaces -> Link]
          /\ anchors \in [1..MaxOpened -> Link]
          /\ \A x \in 1..MaxOpened : anchors[x] = NoLink /\ anchors[x].epoch = 0
          /\ \A w \in Workspaces : slots[w] = NoLink
      BY <3>1, <3>3, NoneOf
    <3> QED
      BY <3>1, <3>3, <3>4, <3>5
  <2>2. CASE session # {}
    <3>1. PICK p \in Projects : session = {[slot |-> 1, key |-> 2, ws |-> Count,
                                            named |-> Count \in Named, windows |-> {3},
                                            project |-> p]}
      BY <1>3, <2>2 DEF Starts
    <3>2. PICK d : d = [slot |-> 1, key |-> 2, ws |-> Count, named |-> Count \in Named,
                        windows |-> {3}, project |-> p]
      OBVIOUS
    <3>3. /\ session = {d} /\ d.slot = 1 /\ d.key = 2 /\ d.ws = Count /\ d.windows = {3}
          /\ d.project = p /\ p # None /\ Count \in Workspaces /\ d \in Description
      <4>1. Count \in Nat /\ Count \in 1..Count
        BY DEF Sensible, Workspaces
      <4> QED
        BY <3>1, <3>2, <4>1 DEF Sensible, Workspaces, Description
    <3>4. UNION {e.windows : e \in session} = {3}
          /\ (UNION {{e.slot, e.key} : e \in session}) \cup {3} = 1..3
          /\ {e \in session : e.project # None} = {d}
      <4>1. {e.windows : e \in session} = {{3}} /\ {{e.slot, e.key} : e \in session} = {{1, 2}}
        BY <3>3
      <4>2. {1, 2} \cup {3} = 1..3
        OBVIOUS
      <4>3. {e \in session : e.project # None} = {d}
        BY <3>3
      <4>4. {3} = UNION {e.windows : e \in session} /\ UNION {{1, 2}} = {1, 2}
        BY <4>1
      <4>5. UNION {{e.slot, e.key} : e \in session} = {1, 2}
        BY <4>1, <4>4
      <4>6. PICK U, V : U = UNION {e.windows : e \in session}
                        /\ V = UNION {{e.slot, e.key} : e \in session}
        OBVIOUS
      <4>7. U = {3} /\ V \cup {3} = 1..3
        BY <4>2, <4>4, <4>5, <4>6
      <4> QED
        BY <4>3, <4>6, <4>7
    <3>5. Cardinality({3}) = 1 /\ Cardinality(1..3) = 3 /\ Fresh(0, {3}, 3) = 1
      <4>1. Cardinality({3}) = 1
        BY FS_Singleton
      <4>2. {y \in {3} : y <= 3} = {3}
        OBVIOUS
      <4>3. Cardinality(1..3) = 3
        <5>1. PICK a, b \in Int : a = 1 /\ b = 3
          OBVIOUS
        <5>2. Cardinality(a..b) = IF a > b THEN 0 ELSE b - a + 1
          BY FS_Interval
        <5>3. (IF a > b THEN 0 ELSE b - a + 1) = 3
          BY <5>1
        <5> QED
          BY <5>1, <5>2, <5>3
      <4> QED
        BY <4>1, <4>2, <4>3 DEF Fresh
    <3>6. ids = 3
      BY <1>3, <3>4, <3>5
    <3>7. /\ DOMAIN checkpoints = {2} /\ checkpoints[2] = p
          /\ checkpoints \in [DOMAIN checkpoints -> Projects]
      BY <1>3, <3>3, <3>4
    <3>8. slots = [w \in Workspaces |-> IF w = Count THEN [id |-> 1, epoch |-> 1] ELSE NoLink]
      BY <1>3, <3>3
    <3>9. anchors = [x \in 1..MaxOpened |-> IF x = 1 THEN [id |-> 3, epoch |-> 1] ELSE NoLink]
      <4>1. (CHOOSE s \in {3} : Fresh(0, {3}, s) = 1) = 3
        BY <3>5
      <4>2. \A x \in 1..MaxOpened : x \in 1..1 <=> x = 1
        OBVIOUS
      <4> QED
        BY <1>3, <3>4, <3>5, <4>1, <4>2
    <3>10. store = [n \in Names |-> IF n = "last" THEN {d} ELSE None]
      BY <1>3, <2>2, <3>3
    <3>11. [id |-> 1, epoch |-> 1] \in Link /\ [id |-> 3, epoch |-> 1] \in Link
      BY DEF Link
    <3>12. /\ slots \in [Workspaces -> Link] /\ anchors \in [1..MaxOpened -> Link]
           /\ \A w \in Workspaces : slots[w] # NoLink => w = Count /\ slots[w].id = 1
           /\ \A x \in 1..MaxOpened : anchors[x].epoch \in {0, 1}
                /\ (anchors[x] # NoLink => anchors[x].id = 3)
      BY <3>8, <3>9, <3>11, NoneOf
    <3>13. {1} \in SUBSET (1..ids) /\ 2 \in 1..ids /\ 3 \in (1..ids) \ {1}
      BY <3>6
    <3>14. Sort({d}, {1}) /\ Keyed({d})
      BY <3>3, <3>7, <3>13 DEF Sort, Keyed, Valid, ProjectOf
    <3>15. store \in [Names -> {None} \cup SUBSET Description]
           /\ \A n \in Names : store[n] # None => store[n] = {d}
      BY <3>3, <3>10
    <3>16. PICK P : P = {1}
      OBVIOUS
    <3>17. /\ P \in SUBSET (1..ids) /\ DOMAIN checkpoints \subseteq 1..ids /\ ids \in Nat
           /\ \A w \in Workspaces : slots[w] # NoLink => w = Count /\ slots[w].id \in P
           /\ \A x \in 1..MaxOpened : anchors[x] # NoLink => anchors[x].id \in (1..ids) \ P
           /\ \A n \in Names : store[n] # None => Sort(store[n], P) /\ Keyed(store[n])
      <4>1. P \in SUBSET (1..ids) /\ DOMAIN checkpoints \subseteq 1..ids /\ ids \in Nat
        BY <3>6, <3>7, <3>13, <3>16
      <4>2. /\ \A w \in Workspaces : slots[w] # NoLink => w = Count /\ slots[w].id \in P
            /\ \A x \in 1..MaxOpened : anchors[x] # NoLink => anchors[x].id \in (1..ids) \ P
        <5>1. 1 \in P /\ 3 \in (1..ids) \ P
          BY <3>13, <3>16
        <5>2. \A w \in Workspaces : slots[w] # NoLink => w = Count /\ slots[w].id \in P
          BY <3>12, <5>1
        <5>3. \A x \in 1..MaxOpened : anchors[x] # NoLink => anchors[x].id = 3
          BY <3>12
        <5>4. ASSUME NEW x \in 1..MaxOpened, anchors[x] # NoLink
              PROVE  anchors[x].id \in (1..ids) \ P
          BY <5>1, <5>3, <5>4
        <5> QED
          BY <5>2, <5>4
      <4>3. Sort({d}, P) /\ Keyed({d})
        BY <3>14, <3>16
      <4>4. \A n \in Names : store[n] # None => Sort(store[n], P) /\ Keyed(store[n])
        BY <3>15, <4>3
      <4> QED
        BY <4>1, <4>2, <4>4
    <3>18. \A x \in 1..MaxOpened : anchors[x].epoch \in {0, 1}
                /\ (anchors[x] # NoLink => anchors[x].id \in (1..ids) \ P)
      <4> SUFFICES ASSUME NEW x \in 1..MaxOpened
                   PROVE  anchors[x].epoch \in {0, 1}
                            /\ (anchors[x] # NoLink => anchors[x].id \in (1..ids) \ P)
        OBVIOUS
      <4>1. anchors[x].epoch \in {0, 1}
        BY <3>12
      <4>2. anchors[x] # NoLink => anchors[x].id \in (1..ids) \ P
        BY <3>17
      <4> QED
        BY <4>1, <4>2
    <3>19. \A w \in Workspaces : slots[w] # NoLink => w = Count /\ slots[w].id \in P
      BY <3>17
    <3>20. /\ P \in SUBSET (1..ids) /\ DOMAIN checkpoints \subseteq 1..ids /\ ids \in Nat
           /\ \A n \in Names : store[n] # None => Sort(store[n], P) /\ Keyed(store[n])
      BY <3>17
    <3> HIDE DEF Sort, Keyed
    <3> QED
      BY <3>7, <3>12, <3>15, <3>18, <3>19, <3>20
  <2> QED
    BY <2>1, <2>2
<1>5. PICK P \in SUBSET (1..ids) :
        /\ ids \in Nat /\ DOMAIN checkpoints \subseteq 1..ids
        /\ checkpoints \in [DOMAIN checkpoints -> Projects]
        /\ slots \in [Workspaces -> Link] /\ anchors \in [1..MaxOpened -> Link]
        /\ \A w \in Workspaces : slots[w] # NoLink => w = Count /\ slots[w].id \in P
        /\ \A x \in 1..MaxOpened : anchors[x].epoch \in {0, 1}
                /\ (anchors[x] # NoLink => anchors[x].id \in (1..ids) \ P)
        /\ store \in [Names -> {None} \cup SUBSET Description]
        /\ \A n \in Names : store[n] # None => Sort(store[n], P) /\ Keyed(store[n])
  BY <1>4
<1>6. Types
  <2>1. bindings \in Bindings
    BY <1>1, NoneOf DEF Bindings
  <2>2. opened \in 0..MaxOpened /\ armed \in 0..epoch
    BY <1>1 DEF Sensible
  <2>3. /\ epoch \in Nat \ {0} /\ connected \in BOOLEAN /\ DOMAIN windows \subseteq 1..opened
        /\ projects \subseteq Projects /\ DOMAIN slotProjects \subseteq 1..ids
        /\ dirty \in BOOLEAN /\ deferred \in BOOLEAN
        /\ recipe \in {"none", "tagged", "plain"}
    <3>1. epoch \in Nat \ {0} /\ connected \in BOOLEAN /\ dirty \in BOOLEAN /\ deferred \in BOOLEAN
      <4>1. epoch \in Nat \ {0}
        BY <1>1
      <4>2. connected = TRUE /\ dirty = TRUE /\ deferred = FALSE
        BY <1>1
      <4> QED
        BY <4>1, <4>2, Zenon
    <3>2. projects \subseteq Projects /\ recipe \in {"none", "tagged", "plain"}
      BY <1>1 DEF Sensible
    <3>3. DOMAIN windows \subseteq 1..opened /\ DOMAIN slotProjects \subseteq 1..ids
      BY <1>1
    <3> QED
      BY <3>1, <3>2, <3>3
  <2> QED
    BY <1>1, <1>2, <1>5, <2>1, <2>2, <2>3 DEF Types
<1>7. OpTypes /\ Snapshot /\ Reals /\ Follows
  BY <1>1 DEF OpTypes, CaptureTypes, RestoreTypes, Snapshot, Reals, Follows
<1>8. Sorted(P)
  BY <1>1, <1>5 DEF Sorted
<1>9. Links
  <2>1. \A v, w \in Workspaces : v # w /\ slots[v] # NoLink => slots[v] # slots[w]
    BY <1>5
  <2>2. \A x \in 1..MaxOpened : anchors[x].epoch <= epoch /\ anchors[x].epoch # epoch
    BY <1>1, <1>5
  <2> QED
    BY <1>1, <1>2, <2>1, <2>2 DEF Links, Pinned
<1>10. Tokens /\ Launching /\ Claims
  BY <1>1 DEF Tokens, Launching, Claims, Pinned
<1>11. Saves
  BY <1>1, <1>5 DEF Saves
<1> QED
  BY <1>6, <1>7, <1>8, <1>9, <1>10, <1>11 DEF IInv

LEMMA DesktopSteps == ASSUME Sensible, IInv, Desktop PROVE IInv'
BY BindingSteps, ArriveSteps, LeaveSteps, ReplacedSteps DEF Desktop

LEMMA CaptureSteps == ASSUME Sensible, IInv, Capture PROVE IInv'
BY BeginSteps, GiveUpSteps, ReadSourceStep, DescribeStep, AgainSteps, WriteSessionStep,
   WriteLastStep, ArmAndExpireStep DEF Capture

LEMMA ReopenSteps == ASSUME Sensible, IInv, Reopen PROVE IInv'
BY RestoreStep, BeginRestoreStep, NextWorkspaceStep, ChooseWorkspaceStep, BindRestoredStep,
   FindWindowStep, LaunchStep, MatchStep, PlaceStep, LayoutSteps, EndRestoreStep DEF Reopen

LEMMA StepHolds == ASSUME Sensible, IInv, [Next]_vars PROVE IInv'
<1>1. CASE UNCHANGED vars
  BY <1>1, BindingsHold DEF IInv, Types, vars, source, records, history
<1> QED
  BY <1>1, DesktopSteps, CaptureSteps, ReopenSteps, RestartStep DEF Next

-----------------------------------------------------------------------------
(* What the sessions promise.                                              *)

\* What steward holds of captures, saves and restores (session/*.rs) stands through every
\* change of the desktop, lost source, failed write and restart: identities are of one sort,
\* a link is of one window, an unresolved launch is recorded, a save is keyed by checkpoints.
THEOREM SessionInvariant == ASSUME Sensible PROVE Spec => []IInv
<1>1. Init => IInv
  BY InitHolds
<1>2. IInv /\ [Next]_vars => IInv'
  BY StepHolds
<1> QED
  BY <1>1, <1>2, PTL DEF Spec

LEMMA InvariantLaunches == ASSUME IInv PROVE LaunchesOnce
<1>1. NoDuplicateLaunch
  BY DEF IInv, Launching, NoDuplicateLaunch, Twice
<1>2. \A x, y \in DOMAIN windows : x # y /\ anchors[x].epoch = epoch => anchors[x] # anchors[y]
  BY DEF IInv, Links
<1>3. \A v, w \in Workspaces : v # w /\ slots[v].epoch = epoch => slots[v] # slots[w]
  <2>1. NoLink.epoch # epoch
    BY NoneOf DEF IInv, Types
  <2> QED
    BY <2>1 DEF IInv, Links
<1>4. op.kind = "capture" /\ op.step = "put" => Valid(op.session)
  BY DEF IInv, Saves, Keyed, Captured
<1> QED
  BY <1>1, <1>2, <1>3, <1>4 DEF LaunchesOnce, SavedOnce

LEMMA InvariantSaves == ASSUME IInv PROVE SavesHold
<1>1. CaptureReal
  BY DEF IInv, Reals, Captured, CaptureReal, At
<1>2. SavesKeepProjects
  BY DEF IInv, Saves, Keyed, ProjectOf, SavesKeepProjects
<1>3. CurrentFollows
  BY DEF IInv, Follows, AsIs, Writing, Idle, CurrentFollows
<1> QED
  BY <1>1, <1>2, <1>3 DEF SavesHold

\* No saved window is launched again while a launch of it may still answer (restore.rs,
\* PENDING and LIVE_WINDOW), and no two windows or workspaces are the same saved one, however
\* captures, restores, failures and restarts follow each other.
THEOREM NothingTwice == ASSUME Sensible PROVE Spec => []LaunchesOnce
<1>1. IInv => LaunchesOnce
  BY InvariantLaunches
<1> QED
  BY <1>1, SessionInvariant, PTL

\* A description that is written spans no reset and no window gone (capture.rs), a save keeps
\* the projects it was made with, and at rest "current" is the desktop there is (watch.rs).
THEOREM SavesStand == ASSUME Sensible PROVE Spec => []SavesHold
<1>1. IInv => SavesHold
  BY InvariantSaves
<1> QED
  BY <1>1, SessionInvariant, PTL

LEMMA LastHolds == ASSUME IInv, [Next]_vars, store'["last"] # store["last"]
                   PROVE  op.name = "last" \/ op.epoch \in claimed
<1>1. store' # store
  OBVIOUS
<1>2. WriteSession \/ WriteLast
  <2>1. ~Desktop /\ ~Reopen /\ ~Restart
    BY <1>1 DEF Desktop, Open, Appear, Close, Move, Lose, Connect, Bind, Unassign, RemoveProject,
                ReconcileProjects, Expire, Unset, Reopen, Restore, BeginRestore, NextWorkspace,
                ChooseWorkspace, BindRestored, FindWindow, Launch, Match, Place, SetLayout,
                EndRestore, Restart
  <2>2. Capture
    BY <1>1, <2>1 DEF Next, vars
  <2> QED
    BY <1>1, <2>2 DEF Capture, Automatic, Save, Timeout, ReadSource, Describe, ReadAgain,
                      ReadBindings, PutFails, ArmAndExpire
<1>3. CASE WriteSession
  <2>1. /\ "last" \in Names /\ "previous" # "last" /\ op.name # "last"
           => Put(op.name, op.session)["last"] = store["last"]
        /\ store' \in {store, Put(op.name, op.session)}
    BY <1>3 DEF WriteSession, Put, Names, IInv, Types
  <2> QED
    BY <2>1 DEF Names
<1>4. CASE WriteLast
  BY <1>4 DEF WriteLast, Capturing, At, IInv, Claims
<1> QED
  BY <1>2, <1>3, <1>4

\* A new login does not overwrite "last" (capture.rs, the armed epoch): it is replaced by a save
\* of that name, or by an automatic capture of an epoch that a save, a complete restore or the
\* first capture there was has claimed.
THEOREM LastStands == ASSUME Sensible PROVE Spec => LastProtected
<1>1. IInv /\ [Next]_vars => [store'["last"] # store["last"] =>
                                op.name = "last" \/ op.epoch \in claimed]_vars
  BY LastHolds
<1> QED
  BY <1>1, SessionInvariant, PTL DEF Spec, LastProtected

(* Every variable of the sessions has its type.                            *)
THEOREM SessionTypes == ASSUME Sensible PROVE Spec => []TypeOK
<1>1. IInv => TypeOK
  <2> SUFFICES ASSUME IInv PROVE TypeOK
    OBVIOUS
  <2> USE DEF IInv, Types
  <2>1. \A x \in DOMAIN windows : windows[x].at \in Workspaces /\ windows[x].token \in Nat
    BY DEF Window
  <2>2. /\ \A k \in DOMAIN checkpoints : k \in 1..ids /\ checkpoints[k] \in Projects
        /\ \A k \in DOMAIN slotProjects : k \in 1..ids /\ slotProjects[k] \in Projects
    OBVIOUS
  <2>3. \A n \in Names : store[n] # None => store[n] \subseteq Description
    OBVIOUS
  <2>4. /\ bindings \in [Workspaces -> [project : Projects \cup {None}, epoch : Nat]]
        /\ op.kind \in {"none", "capture", "restore"}
    BY DEF Bindings, OpTypes
  <2> QED
    BY <2>1, <2>2, <2>3, <2>4 DEF TypeOK
<1> QED
  BY <1>1, SessionInvariant, PTL

-----------------------------------------------------------------------------
(* A completed restore is one.                                             *)

WindowsOf(session) == UNION {d.windows : d \in session}
There(s) == \E x \in 1..MaxOpened : anchors[x] = [id |-> s, epoch |-> epoch]

\* The sessions that are stored, waited for or in hand.
Held ==
    {store[n] : n \in {m \in Names : store[m] # None}} \cup {j.session : j \in jobs}
    \cup {session \in {op.session} :
            op.kind = "restore" \/ (op.kind = "capture" /\ op.step \in Captured)}

\* No window of this life has the identity that a recorded launch was for, and a window of the
\* launch that has one was given it after the launch; so were the windows of a session that
\* has both.
Unanchored(r) ==
    \A x \in DOMAIN windows : anchors[x].epoch = epoch =>
        anchors[x].id # r.saved /\ (windows[x].token = r.token => r.token < anchors[x].id)
Unread(r) ==
    op.kind = "capture" /\ op.step = "describe" =>
        \A x \in DOMAIN op.windows : anchors[x] # [id |-> r.saved, epoch |-> epoch]
Apart(r) ==
    \A T \in Held : r.saved \in WindowsOf(T) => \A s \in WindowsOf(T) : s < r.token

Ordered ==
    \A r \in launches : r.epoch = epoch =>
        r.saved \in 1..ids /\ Unanchored(r) /\ Unread(r) /\ Apart(r)

\* What is asked for is of the session, and what is placed has its link.
Asked ==
    op.kind = "restore" =>
        /\ op.step \in Inside => op.todo \subseteq WindowsOf(op.session)
        /\ op.step = "match" => op.saved \in WindowsOf(op.session)
        /\ op.step = "place" /\ op.epoch = epoch => There(op.saved)

\* Without an issue, what is not yet to do has its link.
SoFar ==
    op.kind = "restore" /\ op.epoch = epoch /\ ~op.issue =>
        \A d \in op.session : \A s \in d.windows :
            \/ There(s) \/ d \in op.left
            \/ op.step = "choose" /\ d = op.desc
            \/ op.step \in Inside /\ s \in op.todo

RestoreInv == Ordered /\ Asked /\ SoFar

LEMMA LaunchFacts ==
    ASSUME IInv, NEW r \in launches
    PROVE  /\ r.token \in 1..ids /\ r.epoch \in Nat /\ r.epoch <= epoch /\ epoch \in Nat \ {0}
           /\ ids \in Nat /\ (Pinned => r.epoch <= op.epoch)
           /\ (op.kind = "restore" => op.epoch \in 1..epoch)
           /\ (op.kind = "capture" /\ op.step # "source" => op.epoch \in 1..epoch)
<1>1. PICK l \in spawned : r = [saved |-> l.saved, token |-> l.token, epoch |-> l.stamp]
  BY DEF IInv, Tokens
<1>2. /\ l.token \in 1..ids /\ l.stamp \in Nat /\ l.made \in Nat /\ l.stamp <= l.made
      /\ l.made <= epoch
  BY DEF IInv, Tokens, Types
<1>3. epoch \in Nat \ {0} /\ ids \in Nat /\ (Pinned => r.epoch <= op.epoch)
  BY DEF IInv, Types, Tokens
<1> QED
  BY <1>1, <1>2, <1>3 DEF IInv, OpTypes, CaptureTypes, RestoreTypes

\* No launch is new, no window of this life has a new link, no session is new.
LEMMA OrderedKept ==
    ASSUME IInv, Ordered, UNCHANGED epoch, launches' \subseteq launches, ids' = ids,
           \A x \in DOMAIN windows' : anchors'[x].epoch = epoch =>
                x \in DOMAIN windows /\ anchors'[x] = anchors[x]
                /\ windows'[x].token = windows[x].token,
           op'.kind = "capture" /\ op'.step = "describe" =>
                \/ UNCHANGED <<op, anchors>>
                \/ \A x \in DOMAIN op'.windows : x \in DOMAIN windows /\ anchors'[x] = anchors[x],
           Held' \subseteq Held
    PROVE  Ordered'
<1> SUFFICES ASSUME NEW r \in launches, r.epoch = epoch
             PROVE  r.saved \in 1..ids /\ Unanchored(r)' /\ Unread(r)' /\ Apart(r)'
  BY DEF Ordered
<1>1. r.saved \in 1..ids /\ Unanchored(r) /\ Unread(r) /\ Apart(r)
  BY DEF Ordered
<1>2. Unanchored(r)'
  BY <1>1 DEF Unanchored
<1>3. Unread(r)'
  <2> SUFFICES ASSUME op'.kind = "capture", op'.step = "describe", NEW x \in DOMAIN op'.windows
               PROVE  anchors'[x] # [id |-> r.saved, epoch |-> epoch]
    BY DEF Unread
  <2>1. CASE UNCHANGED <<op, anchors>>
    BY <1>1, <2>1 DEF Unread
  <2>2. CASE x \in DOMAIN windows /\ anchors'[x] = anchors[x]
    BY <1>1, <2>2 DEF Unanchored
  <2> QED
    BY <2>1, <2>2
<1>4. Apart(r)'
  BY <1>1 DEF Apart, WindowsOf
<1> QED
  BY <1>1, <1>2, <1>3, <1>4

LEMMA OrderedEpoch ==
    ASSUME IInv, epoch' = epoch + 1, UNCHANGED launches
    PROVE  Ordered'
BY LaunchFacts DEF Ordered

LEMMA HeldSame == ASSUME UNCHANGED <<store, jobs, op>> PROVE Held' = Held
BY DEF Held

\* The desktop goes on.
LEMMA DesktopAside ==
    ASSUME Sensible, IInv, RestoreInv, Desktop
    PROVE  RestoreInv'
<1>0. epoch \in Nat /\ opened \in Nat /\ DOMAIN windows \subseteq 1..opened
      /\ anchors \in [1..MaxOpened -> Link]
      /\ (op.kind = "restore" => op.epoch \in 1..epoch)
  BY DEF IInv, Types, OpTypes, RestoreTypes
<1>1. UNCHANGED <<anchors, launches, store, jobs, op, ids>>
  BY DEF Desktop, Open, Appear, Unassign, Close, Move, Lose, Connect, RemoveProject, Bind,
         ReconcileProjects, Expire, Unset, records
<1>2. CASE epoch' = epoch + 1
  <2>1. Ordered'
    BY <1>1, <1>2, OrderedEpoch
  <2>2. op.kind = "restore" => op.epoch # epoch'
    BY <1>0, <1>2
  <2> QED
    BY <1>1, <2>1, <2>2 DEF RestoreInv, Asked, SoFar
<1>3. ASSUME UNCHANGED epoch,
             \A x \in DOMAIN windows' :
                \/ x \in DOMAIN windows /\ windows'[x].token = windows[x].token
                \/ x = opened + 1 /\ opened < MaxOpened
      PROVE  RestoreInv'
  <2>1. ASSUME NEW x \in DOMAIN windows', anchors[x].epoch = epoch
        PROVE  x \in DOMAIN windows /\ windows'[x].token = windows[x].token
    <3>1. CASE x = opened + 1 /\ opened < MaxOpened
      <4>1. x \in 1..MaxOpened /\ ~(x <= opened)
        <5>1. MaxOpened \in Int
          BY DEF Sensible
        <5> QED
          BY <1>0, <3>1, <5>1
      <4> QED
        BY <2>1, <4>1 DEF IInv, Links
    <3> QED
      BY <1>3, <3>1
  <2>2. Ordered'
    BY <1>1, <1>3, <2>1, HeldSame, OrderedKept DEF RestoreInv
  <2> QED
    BY <1>1, <1>3, <2>2 DEF RestoreInv, Asked, SoFar, There
<1>4. ASSUME UNCHANGED <<epoch, windows>> PROVE RestoreInv'
  BY <1>3, <1>4
<1>5. \/ epoch' = epoch + 1 \/ UNCHANGED <<epoch, windows>>
      \/ /\ UNCHANGED epoch
         /\ \A x \in DOMAIN windows' :
                \/ x \in DOMAIN windows /\ windows'[x].token = windows[x].token
                \/ x = opened + 1 /\ opened < MaxOpened
  <2>1. CASE Open
    BY <2>1 DEF Open, With
  <2>2. ASSUME NEW l \in spawned, Appear(l)
        PROVE  /\ UNCHANGED epoch
               /\ \A x \in DOMAIN windows' :
                    \/ x \in DOMAIN windows /\ windows'[x].token = windows[x].token
                    \/ x = opened + 1 /\ opened < MaxOpened
    BY <2>2 DEF Appear, With
  <2>3. ASSUME NEW x \in DOMAIN windows, Close(x)
        PROVE  /\ UNCHANGED epoch
               /\ \A y \in DOMAIN windows' :
                    y \in DOMAIN windows /\ windows'[y].token = windows[y].token
    BY <2>3 DEF Close
  <2>4. ASSUME NEW x \in DOMAIN windows, NEW w \in Workspaces, Move(x, w)
        PROVE  /\ UNCHANGED epoch
               /\ \A y \in DOMAIN windows' :
                    y \in DOMAIN windows /\ windows'[y].token = windows[y].token
    <3>1. windows \in [DOMAIN windows -> Window]
      BY DEF IInv, Types
    <3> QED
      BY <2>4, <3>1 DEF Move, Window
  <2>5. CASE Lose \/ Connect
    BY <2>5 DEF Lose, Connect
  <2>6. ASSUME \/ \E w \in Workspaces : Unassign(w)
               \/ \E p \in projects : RemoveProject(p) \/ \E w \in Workspaces : Bind(w, p)
               \/ ReconcileProjects \/ Expire \/ Unset
        PROVE  UNCHANGED <<epoch, windows>>
    BY <2>6 DEF Unassign, RemoveProject, Bind, ReconcileProjects, Expire, Unset, source
  <2> QED
    BY <2>1, <2>2, <2>3, <2>4, <2>5, <2>6 DEF Desktop
<1> QED
  BY <1>2, <1>3, <1>4, <1>5

\* No restore is in hand then.
LEMMA OthersAside ==
    ASSUME IInv, RestoreInv, op'.kind # "restore",
           ~(op'.kind = "capture" /\ op'.step = "describe"),
           UNCHANGED <<epoch, windows, launches, ids>>,
           \A x \in DOMAIN windows : anchors'[x] \in {anchors[x], NoLink},
           Held' \subseteq Held
    PROVE  RestoreInv'
<1>1. NoLink.epoch # epoch
  BY NoneOf DEF IInv, Types
<1>2. Ordered'
  BY <1>1, OrderedKept DEF RestoreInv
<1> QED
  BY <1>2 DEF RestoreInv, Asked, SoFar

LEMMA CaptureAside ==
    ASSUME Sensible, IInv, RestoreInv, Capture, ~Describe
    PROVE  RestoreInv'
<1>1. ASSUME Automatic \/ \E n \in Explicit \cup {"last"} : Save(n) PROVE RestoreInv'
  <2>1. /\ op.kind = "none" /\ op'.kind = "capture" /\ op'.step = "source"
        /\ UNCHANGED <<source, records, store, jobs, ids>>
    BY <1>1 DEF Automatic, Save, Begin, Idle
  <2>2. Held' \subseteq Held
    BY <2>1 DEF Held, Captured
  <2> QED
    BY <2>1, <2>2, OthersAside DEF source, records
<1>2. CASE Timeout \/ PutFails
  <2>1. /\ op' = Idle /\ op'.kind = "none" /\ UNCHANGED <<source, records, store, jobs, ids>>
    BY <1>2 DEF Timeout, PutFails, GiveUp, Idle
  <2>2. Held' \subseteq Held
    BY <2>1 DEF Held
  <2> QED
    BY <2>1, <2>2, OthersAside DEF source, records
<1>3. CASE ReadSource
  <2>1. /\ op.kind = "capture" /\ op'.kind = "capture" /\ op'.step = "describe"
        /\ op'.windows = windows /\ UNCHANGED <<source, records, store, jobs, ids>>
    BY <1>3 DEF ReadSource, Capturing, At
  <2>2. Held' \subseteq Held
    BY <2>1 DEF Held, Captured
  <2>3. Ordered'
    BY <2>1, <2>2, OrderedKept DEF RestoreInv, source, records
  <2> QED
    BY <2>1, <2>3 DEF RestoreInv, Asked, SoFar
<1>4. CASE ReadAgain \/ ReadBindings
  <2>1. /\ op.kind = "capture" /\ op.step \in Captured
        /\ op'.kind = "capture" /\ op'.step \in {"source", "bindings", "put"}
        /\ op'.step # "source" => op'.session = op.session
        /\ UNCHANGED <<source, records, store, jobs, ids>>
    <3>1. /\ op.kind = "capture" /\ op.step \in Captured
          /\ (Again \/ SeenAt("bindings") \/ SeenAt("put"))
          /\ UNCHANGED <<source, records, store, jobs, ids>>
      BY <1>4 DEF ReadAgain, ReadBindings, Capturing, At, Captured
    <3>2. {"kind", "step", "session"} \subseteq DOMAIN op
      BY <3>1 DEF IInv, OpTypes, CaptureTypes
    <3> QED
      BY <3>1, <3>2 DEF Again, SeenAt
  <2>2. Held' \subseteq Held
    BY <2>1 DEF Held, Captured
  <2> QED
    BY <2>1, <2>2, OthersAside DEF source, records
<1>5. CASE WriteSession \/ WriteLast
  <2>1. /\ op.kind = "capture" /\ op.step \in {"put", "last"} /\ op.step \in Captured
        /\ \E s : op' = [op EXCEPT !.step = s] /\ s \in {"expire", "last", "arm"}
        /\ UNCHANGED <<source, records, jobs, ids>>
    BY <1>5 DEF WriteSession, WriteLast, Capturing, At, Captured
  <2>2. op'.kind = "capture" /\ op'.step \in {"expire", "last", "arm"} /\ op'.session = op.session
    <3>1. {"kind", "step", "session"} \subseteq DOMAIN op
      BY <2>1 DEF IInv, OpTypes, CaptureTypes
    <3> QED
      BY <2>1, <3>1
  <2>3. \A n \in Names : store'[n] \in {store[m] : m \in Names} \cup {op.session}
    <3>1. store \in [Names -> {None} \cup SUBSET Description] /\ "last" \in Names
      BY DEF IInv, Types, Names
    <3>2. \E name : store' \in {store, Put(name, op.session)}
      BY <1>5 DEF WriteSession, WriteLast
    <3>3. \A name : \A n \in Names :
            Put(name, op.session)[n] \in {store[m] : m \in Names} \cup {op.session}
      BY <3>1 DEF Put
    <3> QED
      BY <3>2, <3>3
  <2>4. op.session \in Held
    BY <2>1 DEF Held
  <2>5. Held' \subseteq Held
    BY <2>1, <2>2, <2>3, <2>4 DEF Held
  <2> QED
    BY <2>1, <2>2, <2>5, OthersAside DEF source, records
<1>6. CASE ArmAndExpire
  <2>1. /\ op'.kind = "none" /\ UNCHANGED <<source, launches, store, jobs, ids>>
        /\ \A x \in DOMAIN anchors : anchors'[x] \in {anchors[x], NoLink}
    BY <1>6 DEF ArmAndExpire, Idle
  <2>2. Held' \subseteq Held
    BY <2>1 DEF Held
  <2>3. DOMAIN windows \subseteq DOMAIN anchors
    <3>1. /\ DOMAIN windows \subseteq 1..opened /\ opened \in 0..MaxOpened
          /\ DOMAIN anchors = 1..MaxOpened
      BY DEF IInv, Types
    <3> QED
      BY <3>1 DEF Sensible
  <2> QED
    BY <2>1, <2>2, <2>3, OthersAside DEF source
<1> QED
  BY <1>1, <1>2, <1>3, <1>4, <1>5, <1>6 DEF Capture

LEMMA EndsAside ==
    ASSUME IInv, RestoreInv,
           \/ EndRestore \/ Restart
           \/ (\E n \in Names : Restore(n)) \/ (\E job \in jobs : BeginRestore(job))
    PROVE  RestoreInv'
<1>1. CASE EndRestore \/ Restart
  <2>1. /\ op'.kind = "none" /\ UNCHANGED <<source, anchors, launches, store, ids>>
        /\ jobs' \subseteq jobs
    BY <1>1 DEF EndRestore, Restart, Done, Idle, records
  <2>2. Held' \subseteq Held
    BY <2>1 DEF Held
  <2> QED
    BY <2>1, <2>2, OthersAside DEF source
<1>2. ASSUME NEW n \in Names, Restore(n) PROVE RestoreInv'
  <2>1. /\ store[n] # None /\ UNCHANGED <<source, records, store, op, ids>>
        /\ \A j \in jobs' : j \in jobs \/ j.session = store[n]
    BY <1>2 DEF Restore
  <2>2. Held' \subseteq Held
    BY <2>1 DEF Held
  <2>3. Ordered'
    BY <2>1, <2>2, OrderedKept DEF RestoreInv, source, records
  <2> QED
    BY <2>1, <2>3 DEF RestoreInv, Asked, SoFar, There, source, records
<1>3. ASSUME NEW job \in jobs, BeginRestore(job) PROVE RestoreInv'
  <2>1. /\ op.kind = "none" /\ jobs' \subseteq jobs /\ UNCHANGED <<source, records, store, ids>>
        /\ \/ op'.kind = "none"
           \/ /\ op'.kind = "restore" /\ op'.step = "next" /\ op'.session = job.session
              /\ op'.left = job.session
    BY <1>3 DEF BeginRestore, Idle, Done
  <2>2. Held' \subseteq Held
    BY <2>1 DEF Held
  <2>3. Ordered'
    BY <2>1, <2>2, OrderedKept DEF RestoreInv, source, records
  <2> QED
    BY <2>1, <2>3 DEF RestoreInv, Asked, SoFar, Inside
<1> QED
  BY <1>1, <1>2, <1>3

\* What is read gets identities above all there are, or has kept its own.
LEMMA DescribeAside ==
    ASSUME Sensible, IInv, RestoreInv, Describe
    PROVE  RestoreInv'
<1>1. PICK P \in SUBSET (1..ids) : Sorted(P)
  BY DEF IInv
<1>2. /\ Describing /\ ids' = AfterAll /\ UNCHANGED <<epoch, windows, launches, store, jobs>>
      /\ anchors' = [x \in DOMAIN anchors |->
                        IF x \in Seen THEN [id |-> AnchorOf[x], epoch |-> op.epoch] ELSE anchors[x]]
      /\ op'.kind = "capture" /\ op'.step = "again" /\ op'.session = Session
  BY DescribeIs DEF source, AnchorOf
<1>3. /\ ids \in Nat /\ AfterKeys \in Nat /\ AfterAll \in Nat /\ ids <= AfterKeys /\ ids <= AfterAll
      /\ Seen \in SUBSET (1..MaxOpened) /\ epoch \in Nat /\ op.epoch \in 1..epoch
      /\ MaxOpened \in Nat
  BY <1>2, DescribedIn
<1>4. anchors \in [1..MaxOpened -> Link] /\ DOMAIN windows \subseteq 1..MaxOpened
  <2>1. opened \in 0..MaxOpened /\ DOMAIN windows \subseteq 1..opened
    BY DEF IInv, Types
  <2> QED
    BY <1>3, <2>1 DEF IInv, Types
<1>5. \A x \in Seen : \/ Known(anchors[x]) /\ AnchorOf[x] = anchors[x].id
                      \/ AnchorOf[x] \in (AfterKeys + 1)..AfterAll
  BY <1>1, <1>2, AnchorsGiven
<1>6. Held' \subseteq Held \cup {Session}
  BY <1>2 DEF Held, Captured
<1>7. ASSUME NEW r \in launches, r.epoch = epoch
      PROVE  r.saved \in 1..ids' /\ Unanchored(r)' /\ Unread(r)' /\ Apart(r)'
  <2>1. /\ r.saved \in 1..ids /\ Unanchored(r) /\ Unread(r) /\ Apart(r)
    BY <1>7 DEF RestoreInv, Ordered
  <2>2. r.token \in 1..ids /\ op.epoch = epoch
    <3>1. r.token \in 1..ids /\ r.epoch <= op.epoch /\ epoch \in Nat /\ op.epoch \in 1..epoch
      BY <1>2, <1>3, LaunchFacts DEF Pinned, Describing
    <3> QED
      BY <1>7, <3>1
  <2>3. r.saved \in 1..ids'
    BY <1>2, <1>3, <2>1
  <2>4. Unanchored(r)'
    <3> SUFFICES ASSUME NEW x \in DOMAIN windows, anchors'[x].epoch = epoch
                 PROVE  /\ anchors'[x].id # r.saved
                        /\ windows[x].token = r.token => r.token < anchors'[x].id
      BY <1>2 DEF Unanchored
    <3>1. CASE anchors'[x] = anchors[x]
      BY <2>1, <3>1 DEF Unanchored
    <3>2. CASE anchors'[x] # anchors[x]
      <4>1. x \in Seen /\ anchors'[x] = [id |-> AnchorOf[x], epoch |-> epoch]
        BY <1>2, <1>4, <2>2, <3>2
      <4>2. ~(Known(anchors[x]) /\ AnchorOf[x] = anchors[x].id)
        BY <1>4, <2>2, <3>2, <4>1 DEF Known, Link
      <4>3. AnchorOf[x] \in (AfterKeys + 1)..AfterAll
        BY <1>5, <4>1, <4>2
      <4> QED
        BY <1>3, <2>1, <2>2, <4>1, <4>3
    <3> QED
      BY <3>1, <3>2
  <2>5. Unread(r)'
    BY <1>2 DEF Unread
  <2>6. r.saved \notin WindowsOf(Session)
    <3> SUFFICES ASSUME NEW d \in Session, r.saved \in d.windows PROVE FALSE
      BY DEF WindowsOf
    <3>1. PICK w \in Described : d.windows = {AnchorOf[x] : x \in Members(op.windows, w)}
      BY <1>1, <1>2, SessionIs DEF Describes
    <3>2. PICK x \in Members(op.windows, w) : r.saved = AnchorOf[x]
      BY <3>1
    <3>3. x \in Seen /\ x \in DOMAIN op.windows
      BY DEF Members, Seen
    <3>4. CASE Known(anchors[x]) /\ AnchorOf[x] = anchors[x].id
      <4>1. anchors[x] = [id |-> r.saved, epoch |-> epoch]
        BY <1>3, <1>4, <2>2, <3>2, <3>3, <3>4 DEF Known, Link
      <4> QED
        BY <1>2, <2>1, <3>3, <4>1 DEF Unread, Describing
    <3>5. CASE AnchorOf[x] \in (AfterKeys + 1)..AfterAll
      BY <1>3, <2>1, <3>2, <3>5
    <3> QED
      BY <1>5, <3>3, <3>4, <3>5
  <2>7. Apart(r)'
    BY <1>6, <2>1, <2>6 DEF Apart, WindowsOf
  <2> QED
    BY <2>3, <2>4, <2>5, <2>7
<1> QED
  BY <1>2, <1>7 DEF RestoreInv, Ordered, Asked, SoFar

-----------------------------------------------------------------------------
(* The restore goes on.                                                    *)

\* What is not yet done with stays so, whatever the step keeps of the restore.
LEMMA InsideKeeps ==
    ASSUME OpTypes, op.kind = "restore", op.step \in Inside, NEW s
    PROVE  /\ NextWindow(s) => op'.left = op.left /\ op'.issue = op.issue
           /\ LoseWindow(s) => op'.issue = TRUE
           /\ \A x : Placing(s, x) => op'.left = op.left /\ op'.issue = op.issue
<1>1. /\ {"kind", "step", "session", "epoch", "projects", "left", "used", "issue"}
            \subseteq DOMAIN op
  BY DEF OpTypes, RestoreTypes
<1>2. PICK r : r = Rest
  OBVIOUS
<1>3. /\ r.left = op.left /\ r.issue = op.issue
      /\ DOMAIN r = {"kind", "step", "session", "epoch", "projects", "left", "used", "issue"}
  BY <1>2 DEF Rest
<1>4. PICK q : q = InWorkspace(s)
  OBVIOUS
<1>5. q.left = op.left /\ q.issue = op.issue /\ "issue" \in DOMAIN q
  BY <1>2, <1>3, <1>4 DEF InWorkspace, With
<1>6. NextWindow(s) => op'.left = op.left /\ op'.issue = op.issue
  BY <1>4, <1>5 DEF NextWindow
<1>7. LoseWindow(s) => op'.issue = TRUE
  BY <1>4, <1>5 DEF LoseWindow
<1>8. \A x : Placing(s, x) => op'.left = op.left /\ op'.issue = op.issue
  BY <1>1 DEF Placing, With
<1> QED
  BY <1>6, <1>7, <1>8

\* Nothing that is recorded changes.
LEMMA GoingOrdered ==
    ASSUME IInv, RestoreInv, op.kind = "restore", Going,
           UNCHANGED <<epoch, anchors, launches, store, jobs, ids>>,
           DOMAIN windows' \subseteq DOMAIN windows,
           \A x \in DOMAIN windows' : windows'[x].token = windows[x].token
    PROVE  Ordered'
<1>1. Held' \subseteq Held
  BY DEF Held, Going
<1> QED
  BY <1>1, OrderedKept DEF RestoreInv, Going

LEMMA WorkspaceAside ==
    ASSUME IInv, RestoreInv, NextWorkspace \/ ChooseWorkspace \/ BindRestored \/ SetLayout
    PROVE  RestoreInv'
<1>1. /\ op.kind = "restore" /\ UNCHANGED <<source, anchors, launches, store, jobs, ids>>
  BY DEF NextWorkspace, ChooseWorkspace, BindRestored, SetLayout, Restoring, At, records
<1>2. ASSUME op' = Rest \/ Issue
      PROVE  Going /\ op'.step = "next"
  BY <1>1, <1>2, RestGoes DEF IInv
<1>3. ASSUME Going PROVE Ordered'
  BY <1>1, <1>3, GoingOrdered DEF source
<1>4. ASSUME Issue PROVE RestoreInv'
  <2>1. op'.issue = TRUE
    BY <1>4 DEF Issue, Rest
  <2>2. Going /\ op'.step = "next"
    BY <1>2, <1>4
  <2> QED
    BY <1>3, <2>1, <2>2 DEF RestoreInv, Asked, SoFar, Inside
<1>5. ASSUME SetLayout, op' = Rest PROVE RestoreInv'
  <2>1. op'.issue = op.issue /\ op'.left = op.left
    BY <1>5 DEF Rest
  <2>2. Going /\ op'.step = "next"
    BY <1>2, <1>5
  <2>3. op.step = "window" /\ op.todo = {}
    BY <1>5 DEF SetLayout, Restoring, At
  <2> QED
    BY <1>1, <1>3, <2>1, <2>2, <2>3 DEF RestoreInv, Asked, SoFar, Inside, Going, There, source
<1>6. CASE SetLayout
  BY <1>4, <1>5, <1>6 DEF SetLayout
<1>7. CASE NextWorkspace
  <2> DEFINE d == CHOOSE e \in op.left : \A f \in op.left : e.ws <= f.ws
             project == IF d.key \in DOMAIN checkpoints THEN checkpoints[d.key] ELSE None
             rest == [Rest EXCEPT !.left = @ \ {d}]
             found == With(rest, [step |-> "choose", desc |-> d, project |-> project,
                                  listed |-> bindings, linked |-> slots])
  <2>1. op.step = "next" /\ (op' = [rest EXCEPT !.issue = TRUE] \/ op' = found)
    BY <1>7 DEF NextWorkspace, Restoring, At
  <2>2. PICK e : e = d
    OBVIOUS
  <2>3. PICK r : r = rest
    OBVIOUS
  <2>4. /\ r.kind = "restore" /\ r.session = op.session /\ r.epoch = op.epoch
        /\ r.projects = op.projects /\ r.left = op.left \ {e} /\ r.used = op.used
        /\ r.issue = op.issue
        /\ DOMAIN r = {"kind", "step", "session", "epoch", "projects", "left", "used", "issue"}
    BY <2>2, <2>3 DEF Rest
  <2>5. \/ op' = [r EXCEPT !.issue = TRUE]
        \/ op' = With(r, [step |-> "choose", desc |-> e, project |-> project,
                          listed |-> bindings, linked |-> slots])
    BY <2>1, <2>2, <2>3
  <2>6. /\ op'.kind = "restore" /\ op'.session = op.session /\ op'.epoch = op.epoch
        /\ op'.left = op.left \ {e}
        /\ \/ op'.issue = TRUE /\ op'.step = r.step
           \/ op'.issue = op.issue /\ op'.step = "choose" /\ op'.desc = e
    <3>1. CASE op' = [r EXCEPT !.issue = TRUE]
      BY <2>4, <3>1
    <3>2. CASE op' = With(r, [step |-> "choose", desc |-> e, project |-> project,
                              listed |-> bindings, linked |-> slots])
      BY <2>4, <3>2 DEF With
    <3> QED
      BY <2>5, <3>1, <3>2
  <2>7. r.step = "next"
    BY <2>3 DEF Rest
  <2> HIDE DEF d, project, rest, found
  <2>8. Held' \subseteq Held
    BY <1>1, <2>6 DEF Held
  <2>9. Ordered'
    BY <1>1, <2>6, <2>8, OrderedKept DEF RestoreInv, source
  <2>10. Asked' /\ SoFar'
    BY <1>1, <2>1, <2>6, <2>7 DEF RestoreInv, Asked, SoFar, Inside, There, source
  <2> QED
    BY <2>9, <2>10 DEF RestoreInv
<1>8. CASE ChooseWorkspace
  <2>1. op.step = "choose" /\ op.desc \in op.session
    BY <1>8 DEF ChooseWorkspace, Restoring, At, IInv, OpTypes, RestoreTypes
  <2>2. Issue \/ \E w : op' = With(Rest, [step |-> "bind", used |-> op.used \cup {w},
                                          target |-> w, project |-> op.project,
                                          todo |-> op.desc.windows])
    BY <1>8 DEF ChooseWorkspace
  <2>3. ASSUME NEW w, op' = With(Rest, [step |-> "bind", used |-> op.used \cup {w},
                                        target |-> w, project |-> op.project,
                                        todo |-> op.desc.windows])
        PROVE  RestoreInv'
    <3>1. /\ op'.kind = "restore" /\ op'.session = op.session /\ op'.epoch = op.epoch
          /\ op'.left = op.left /\ op'.issue = op.issue /\ op'.step = "bind"
          /\ op'.todo = op.desc.windows
      BY <2>3 DEF With, Rest
    <3>2. Held' \subseteq Held
      BY <1>1, <3>1 DEF Held
    <3>3. Ordered'
      BY <1>1, <3>1, <3>2, OrderedKept DEF RestoreInv, source
    <3>4. Asked' /\ SoFar'
      BY <1>1, <2>1, <3>1 DEF RestoreInv, Asked, SoFar, Inside, There, WindowsOf, source
    <3> QED
      BY <3>3, <3>4 DEF RestoreInv
  <2> QED
    BY <1>4, <2>2, <2>3
<1>9. CASE BindRestored
  <2>1. op.step = "bind" /\ (Issue \/ op' = [op EXCEPT !.step = "window"])
    BY <1>9 DEF BindRestored, Restoring, At
  <2>2. ASSUME op' = [op EXCEPT !.step = "window"] PROVE RestoreInv'
    <3>1. "step" \in DOMAIN op
      BY <1>1 DEF IInv, OpTypes, RestoreTypes
    <3>2. /\ op'.kind = "restore" /\ op'.session = op.session /\ op'.epoch = op.epoch
          /\ op'.left = op.left /\ op'.issue = op.issue /\ op'.step = "window"
          /\ op'.todo = op.todo
      BY <1>1, <2>2, <3>1
    <3>3. Held' \subseteq Held
      BY <1>1, <3>2 DEF Held
    <3>4. Ordered'
      BY <1>1, <3>2, <3>3, OrderedKept DEF RestoreInv, source
    <3>5. Asked' /\ SoFar'
      BY <1>1, <2>1, <3>2 DEF RestoreInv, Asked, SoFar, Inside, There, source
    <3> QED
      BY <3>4, <3>5 DEF RestoreInv
  <2> QED
    BY <1>4, <2>1, <2>2
<1> QED
  BY <1>6, <1>7, <1>8, <1>9

\* A window is given up, with an issue, or placed after it got its link.
LEMMA LostAside ==
    ASSUME IInv, RestoreInv, op.kind = "restore", op.step \in Inside, NEW s, LoseWindow(s),
           UNCHANGED <<epoch, windows, anchors, launches, store, jobs, ids>>
    PROVE  RestoreInv'
<1>1. /\ Going /\ op'.step = "window" /\ op'.todo = op.todo \ {s} /\ op'.issue = TRUE
  BY InsideGoes, InsideKeeps DEF IInv
<1>2. Ordered'
  BY <1>1, GoingOrdered
<1> QED
  BY <1>1, <1>2 DEF RestoreInv, Asked, SoFar, Going

LEMMA PlaceAside == ASSUME IInv, RestoreInv, Place PROVE RestoreInv'
<1>1. /\ op.kind = "restore" /\ op.step = "place" /\ op.step \in Inside
      /\ UNCHANGED <<epoch, anchors, launches, store, jobs, ids>>
  BY DEF Place, Restoring, At, Inside, records
<1>2. CASE LoseWindow(op.saved) /\ UNCHANGED windows
  BY <1>1, <1>2, LostAside
<1>3. CASE /\ epoch = op.epoch /\ op.window \in DOMAIN windows
           /\ windows' = [windows EXCEPT ![op.window].at = op.target]
           /\ NextWindow(op.saved)
  <2>1. PICK s : s = op.saved
    OBVIOUS
  <2>2. NextWindow(s)
    BY <1>3, <2>1
  <2>3. /\ Going /\ op'.step = "window" /\ op'.todo = op.todo \ {s} /\ op'.issue = op.issue
        /\ op'.left = op.left
    BY <1>1, <2>2, InsideGoes, InsideKeeps DEF IInv
  <2>4. /\ DOMAIN windows' = DOMAIN windows
        /\ \A x \in DOMAIN windows : windows'[x].token = windows[x].token
    <3>1. windows \in [DOMAIN windows -> Window]
      BY DEF IInv, Types
    <3> QED
      BY <1>3, <3>1 DEF Window
  <2>5. Ordered'
    BY <1>1, <2>3, <2>4, GoingOrdered
  <2>6. There(s)
    BY <1>1, <1>3, <2>1 DEF RestoreInv, Asked
  <2> QED
    BY <1>1, <2>3, <2>5, <2>6 DEF RestoreInv, Asked, SoFar, Going, Inside, There
<1> QED
  BY <1>2, <1>3 DEF Place

\* The window of a recorded launch gets the saved window's link.  A link it had was of a window
\* that its own capture named after the launch: none of this session.
LEMMA RememberAside ==
    ASSUME Sensible, IInv, RestoreInv, op.kind = "restore", op.step \in Inside, op.epoch = epoch,
           NEW s \in WindowsOf(op.session), NEW x \in DOMAIN windows,
           [saved |-> s, token |-> windows[x].token, epoch |-> epoch] \in launches,
           Remember(s, x), Placing(s, x), UNCHANGED <<epoch, windows, store, jobs, ids>>
    PROVE  RestoreInv'
<1> DEFINE own == [saved |-> s, token |-> windows[x].token, epoch |-> epoch]
<1>1. /\ own \in launches /\ own.saved = s /\ own.token = windows[x].token /\ own.epoch = epoch
  OBVIOUS
<1>2. /\ own.token \in 1..ids /\ ids \in Nat /\ Unanchored(own) /\ Apart(own)
  BY <1>1, LaunchFacts DEF RestoreInv, Ordered
<1>3. /\ anchors' = [anchors EXCEPT ![x] = [id |-> s, epoch |-> epoch]]
      /\ launches' = {l \in launches : l.saved # s \/ l.epoch # epoch}
  BY DEF Remember
<1>4. /\ x \in 1..MaxOpened /\ anchors \in [1..MaxOpened -> Link]
      /\ DOMAIN windows \subseteq 1..MaxOpened
  <2>1. opened \in 0..MaxOpened /\ DOMAIN windows \subseteq 1..opened
    BY DEF IInv, Types
  <2> QED
    BY <2>1 DEF Sensible, IInv, Types
<1>5. /\ anchors'[x] = [id |-> s, epoch |-> epoch]
      /\ \A y \in 1..MaxOpened : y # x => anchors'[y] = anchors[y]
  BY <1>3, <1>4
<1>6. /\ Going /\ op'.step = "place" /\ op'.todo = op.todo /\ op'.saved = s
      /\ op'.left = op.left /\ op'.issue = op.issue
  BY InsideGoes, InsideKeeps DEF IInv
<1>7. Held' = Held /\ op.session \in Held
  BY <1>6 DEF Held, Going
<1>8. ASSUME NEW t \in WindowsOf(op.session), There(t) PROVE There(t)'
  <2>1. PICK y \in 1..MaxOpened : anchors[y] = [id |-> t, epoch |-> epoch]
    BY <1>8 DEF There
  <2>2. y # x
    <3> SUFFICES ASSUME y = x PROVE FALSE
      OBVIOUS
    <3>1. own.token < t
      BY <1>1, <1>2, <2>1 DEF Unanchored
    <3>2. t < own.token
      BY <1>1, <1>2, <1>7 DEF Apart
    <3>3. t \in Nat
      BY <1>4, <2>1 DEF Link
    <3> QED
      BY <1>2, <3>1, <3>2, <3>3
  <2> QED
    BY <1>5, <2>1, <2>2 DEF There
<1>9. There(s)'
  BY <1>4, <1>5 DEF There
<1>10. ASSUME NEW r \in launches', r.epoch = epoch
       PROVE  r.saved \in 1..ids' /\ Unanchored(r)' /\ Unread(r)' /\ Apart(r)'
  <2>1. r \in launches /\ r.saved # s
    BY <1>3, <1>10
  <2>2. r.saved \in 1..ids /\ Unanchored(r) /\ Apart(r)
    BY <1>10, <2>1 DEF RestoreInv, Ordered
  <2>3. r.token # windows[x].token
    <3>1. PICK l \in spawned : r = [saved |-> l.saved, token |-> l.token, epoch |-> l.stamp]
      BY <2>1 DEF IInv, Tokens
    <3>2. PICK m \in spawned : own = [saved |-> m.saved, token |-> m.token, epoch |-> m.stamp]
      BY <1>1 DEF IInv, Tokens
    <3>3. l.token = m.token => l = m
      BY DEF IInv, Tokens
    <3>4. m.token = windows[x].token /\ m.saved = s
      BY <1>1, <3>2
    <3> HIDE DEF own
    <3> QED
      BY <2>1, <3>1, <3>3, <3>4
  <2>4. Unanchored(r)'
    <3> SUFFICES ASSUME NEW y \in DOMAIN windows, anchors'[y].epoch = epoch
                 PROVE  /\ anchors'[y].id # r.saved
                        /\ windows[y].token = r.token => r.token < anchors'[y].id
      BY DEF Unanchored
    <3>1. CASE y = x
      BY <1>5, <2>1, <2>3, <3>1
    <3>2. CASE y # x
      BY <1>4, <1>5, <2>2, <3>2 DEF Unanchored
    <3> QED
      BY <3>1, <3>2
  <2>5. Unread(r)' /\ Apart(r)'
    BY <1>6, <1>7, <2>2 DEF Unread, Apart, Going, WindowsOf
  <2> QED
    BY <2>2, <2>4, <2>5
<1>11. Ordered'
  BY <1>10 DEF Ordered
<1> HIDE DEF own
<1>12. Asked'
  BY <1>6, <1>9 DEF RestoreInv, Asked, Going, WindowsOf
<1>13. SoFar'
  <2> SUFFICES ASSUME ~op.issue, NEW d \in op.session, NEW t \in d.windows
               PROVE  \/ There(t)' \/ d \in op.left
                      \/ op'.step = "choose" /\ d = op'.desc
                      \/ op'.step \in Inside /\ t \in op'.todo
    BY <1>6 DEF SoFar, Going
  <2>1. t \in WindowsOf(op.session)
    BY DEF WindowsOf
  <2>2. \/ There(t) \/ d \in op.left \/ t \in op.todo
    BY DEF RestoreInv, SoFar, Inside
  <2> QED
    BY <1>6, <1>8, <2>1, <2>2 DEF Inside
<1> QED
  BY <1>11, <1>12, <1>13 DEF RestoreInv

LEMMA FindWindowAside == ASSUME Sensible, IInv, RestoreInv, NEW s, FindWindow(s) PROVE RestoreInv'
<1>1. /\ op.kind = "restore" /\ op.step = "window" /\ op.step \in Inside /\ s \in op.todo
      /\ UNCHANGED <<source, store, jobs, ids>>
  BY DEF FindWindow, Restoring, At, Inside
<1>2. s \in WindowsOf(op.session)
  BY <1>1 DEF RestoreInv, Asked
<1>3. CASE LoseWindow(s) /\ UNCHANGED <<anchors, launches>>
  BY <1>1, <1>3, LostAside DEF source
<1>4. ASSUME NEW x, Placing(s, x), UNCHANGED <<anchors, launches>>,
             NEW y \in DOMAIN windows, anchors[y] = [id |-> s, epoch |-> epoch]
      PROVE  RestoreInv'
  <2>1. /\ Going /\ op'.step = "place" /\ op'.todo = op.todo /\ op'.saved = s
        /\ op'.left = op.left /\ op'.issue = op.issue
    BY <1>1, <1>4, InsideGoes, InsideKeeps DEF IInv
  <2>2. Ordered'
    BY <1>1, <1>4, <2>1, GoingOrdered DEF source
  <2>3. There(s)
    <3>1. opened \in 0..MaxOpened /\ DOMAIN windows \subseteq 1..opened /\ MaxOpened \in Nat
      BY DEF IInv, Types, Sensible
    <3>2. y \in 1..MaxOpened
      BY <3>1
    <3> QED
      BY <1>4, <3>2 DEF There
  <2> QED
    BY <1>1, <1>4, <2>1, <2>2, <2>3 DEF RestoreInv, Asked, SoFar, Going, Inside, There, source
<1>5. ASSUME NEW x \in DOMAIN windows, NEW l \in Pending(s), windows[x].token = l.token,
             Remember(s, x), Placing(s, x)
      PROVE  RestoreInv'
  <2>1. l \in launches /\ l = [saved |-> s, token |-> windows[x].token, epoch |-> epoch]
    BY <1>5 DEF Pending, IInv, Types
  <2>2. op.epoch = epoch
    <3>1. epoch <= op.epoch /\ op.epoch \in 1..epoch /\ epoch \in Nat
      BY <1>1, <2>1, LaunchFacts DEF Pinned
    <3> QED
      BY <3>1
  <2> QED
    BY <1>1, <1>2, <1>5, <2>1, <2>2, RememberAside DEF source
<1> QED
  BY <1>3, <1>4, <1>5 DEF FindWindow

LEMMA MatchAside == ASSUME Sensible, IInv, RestoreInv, Match PROVE RestoreInv'
<1>1. /\ op.kind = "restore" /\ op.step = "match" /\ op.step \in Inside
      /\ UNCHANGED <<source, store, jobs, ids>>
  BY DEF Match, Restoring, At, Inside
<1>2. CASE LoseWindow(op.saved) /\ UNCHANGED <<anchors, launches>>
  BY <1>1, <1>2, LostAside DEF source
<1>3. ASSUME NEW x \in Of(op.token), epoch = op.epoch, Remember(op.saved, x), Placing(op.saved, x)
      PROVE  RestoreInv'
  <2>1. PICK s : s = op.saved
    OBVIOUS
  <2>2. x \in DOMAIN windows /\ windows[x].token = op.token
    BY DEF Of
  <2>3. [saved |-> s, token |-> windows[x].token, epoch |-> epoch] \in launches
    BY <1>1, <1>3, <2>1, <2>2 DEF IInv, Launching
  <2>4. s \in WindowsOf(op.session)
    BY <1>1, <2>1 DEF RestoreInv, Asked
  <2>5. Remember(s, x) /\ Placing(s, x)
    BY <1>3, <2>1
  <2> QED
    BY <1>1, <1>3, <2>2, <2>3, <2>4, <2>5, RememberAside DEF source
<1> QED
  BY <1>2, <1>3 DEF Match

-----------------------------------------------------------------------------
\* A window's token, if it has one, was given to a launch.
Issued == \A x \in DOMAIN windows : windows[x].token <= ids

LEMMA IssuedHolds ==
    ASSUME Sensible, IInv, Issued, [Next]_vars
    PROVE  Issued'
<1>1. /\ ids \in Nat /\ windows \in [DOMAIN windows -> Window]
      /\ \A x \in DOMAIN windows : windows[x].token \in Nat
  BY DEF IInv, Types, Window
<1>2. ASSUME UNCHANGED windows, ids' \in Nat, ids <= ids' PROVE Issued'
  BY <1>1, <1>2 DEF Issued
<1>3. ASSUME UNCHANGED <<windows, ids>> PROVE Issued'
  BY <1>3 DEF Issued
<1>4. ASSUME UNCHANGED ids,
             \A x \in DOMAIN windows' :
                \/ x \in DOMAIN windows /\ windows'[x].token = windows[x].token
                \/ windows'[x].token = 0
                \/ \E l \in spawned : windows'[x].token = l.token
      PROVE  Issued'
  <2>1. \A l \in spawned : l.token <= ids
    <3>1. \A l \in spawned : l.token \in 1..ids
      BY DEF IInv, Tokens
    <3> QED
      BY <1>1, <3>1
  <2> QED
    BY <1>1, <1>4, <2>1 DEF Issued
<1>5. CASE Desktop
  <2>1. CASE Open
    BY <1>4, <2>1 DEF Open, With
  <2>2. ASSUME NEW l \in spawned, Appear(l) PROVE Issued'
    BY <1>4, <2>2 DEF Appear, With
  <2>3. ASSUME NEW x \in DOMAIN windows, Close(x) PROVE Issued'
    BY <1>4, <2>3 DEF Close
  <2>4. ASSUME NEW x \in DOMAIN windows, NEW w \in Workspaces, Move(x, w) PROVE Issued'
    BY <1>1, <1>4, <2>4 DEF Move, Window
  <2>5. CASE Lose \/ Connect
    BY <1>4, <2>5 DEF Lose, Connect
  <2>6. ASSUME \/ \E w \in Workspaces : Unassign(w)
               \/ \E p \in projects : RemoveProject(p) \/ \E w \in Workspaces : Bind(w, p)
               \/ ReconcileProjects \/ Expire \/ Unset
        PROVE  UNCHANGED <<ids, windows>>
    BY <2>6 DEF Unassign, RemoveProject, Bind, ReconcileProjects, Expire, Unset, source
  <2> QED
    BY <1>3, <1>5, <2>1, <2>2, <2>3, <2>4, <2>5, <2>6 DEF Desktop
<1>6. CASE Capture
  <2>1. CASE Describe
    <3>1. ids' = AfterAll /\ Describing /\ UNCHANGED windows
      BY <2>1, DescribeIs DEF source
    <3>2. AfterAll \in Nat /\ ids <= AfterAll
      BY <3>1, DescribedIn
    <3> QED
      BY <1>2, <3>1, <3>2
  <2>2. ASSUME ~Describe PROVE UNCHANGED <<windows, ids>>
    BY <1>6, <2>2 DEF Capture, Automatic, Save, Timeout, ReadSource, ReadAgain, ReadBindings,
                      PutFails, WriteSession, WriteLast, ArmAndExpire, source
  <2> QED
    BY <1>3, <2>1, <2>2
<1>7. CASE Reopen
  <2>1. CASE Place
    <3>1. /\ UNCHANGED ids
          /\ UNCHANGED windows \/ windows' = [windows EXCEPT ![op.window].at = op.target]
      BY <2>1 DEF Place
    <3>2. \A x \in DOMAIN windows' : x \in DOMAIN windows /\ windows'[x].token = windows[x].token
      BY <1>1, <3>1 DEF Window
    <3> QED
      BY <1>4, <3>1, <3>2
  <2>2. ASSUME NEW s, Launch(s) PROVE Issued'
    BY <1>1, <1>2, <2>2 DEF Launch, source
  <2>3. ASSUME ~Place, \A s \in 1..ids : ~Launch(s) PROVE UNCHANGED <<windows, ids>>
    BY <1>7, <2>3 DEF Reopen, Restore, BeginRestore, NextWorkspace, ChooseWorkspace, BindRestored,
                      FindWindow, Match, SetLayout, EndRestore, source
  <2> QED
    BY <1>3, <2>1, <2>2, <2>3
<1>8. CASE Restart \/ UNCHANGED vars
  BY <1>3, <1>8 DEF Restart, vars, source
<1> QED
  BY <1>5, <1>6, <1>7, <1>8 DEF Next

\* A launch has the newest identity: no window is from it, and no session names a later one.
LEMMA LaunchAside ==
    ASSUME Sensible, IInv, RestoreInv, Issued, NEW s, Launch(s)
    PROVE  RestoreInv'
<1>1. /\ op.kind = "restore" /\ op.step = "window" /\ op.step \in Inside /\ s \in op.todo
      /\ ids' = ids + 1 /\ UNCHANGED <<source, anchors, store, jobs>>
      /\ \A x \in DOMAIN windows : anchors[x] # [id |-> s, epoch |-> epoch]
  BY DEF Launch, Restoring, At, Inside
<1> DEFINE others == {l \in launches : l.saved # s}
           record == [saved |-> s, token |-> ids', epoch |-> op.epoch]
<1>2. \/ LoseWindow(s) /\ launches' = others
      \/ /\ op' = With(op, [step |-> "match", saved |-> s, token |-> ids'])
         /\ launches' = others \cup {record}
  BY DEF Launch
<1>3. PICK P \in SUBSET (1..ids) : Sorted(P)
  BY DEF IInv
<1>4. s \in 1..ids /\ s \in WindowsOf(op.session) /\ ids \in Nat
  BY <1>1, <1>3 DEF Sorted, RestoreInv, Asked, IInv, Types
<1>5. /\ anchors \in [1..MaxOpened -> Link] /\ DOMAIN windows \subseteq 1..MaxOpened
      /\ windows \in [DOMAIN windows -> Window]
  <2>1. opened \in 0..MaxOpened /\ DOMAIN windows \subseteq 1..opened
    BY DEF IInv, Types
  <2> QED
    BY <2>1 DEF Sensible, IInv, Types
<1>6. /\ op'.kind = "restore" /\ op'.session = op.session /\ op'.epoch = op.epoch
      /\ \/ op'.step = "window" /\ op'.todo = op.todo \ {s} /\ op'.issue = TRUE
         \/ /\ op'.step = "match" /\ op'.todo = op.todo /\ op'.saved = s
            /\ op'.left = op.left /\ op'.issue = op.issue
  <2>1. CASE LoseWindow(s)
    BY <1>1, <2>1, InsideGoes, InsideKeeps DEF IInv, Going
  <2>2. CASE op' = With(op, [step |-> "match", saved |-> s, token |-> ids'])
    <3>1. /\ {"kind", "step", "session", "epoch", "projects", "left", "used", "issue"}
                \subseteq DOMAIN op
          /\ {"target", "project", "todo"} \subseteq DOMAIN op
      BY <1>1 DEF IInv, OpTypes, RestoreTypes
    <3> QED
      BY <1>1, <2>2, <3>1 DEF With
  <2> QED
    BY <1>2, <2>1, <2>2
<1>7. Held' = Held
  BY <1>1, <1>6 DEF Held
<1>8. \A T \in Held : \A t \in WindowsOf(T) : t \in 1..ids
  BY <1>3 DEF Held, Sorted, Sort, WindowsOf
<1>9. ASSUME NEW r \in launches', r.epoch = epoch
      PROVE  r.saved \in 1..ids' /\ Unanchored(r)' /\ Unread(r)' /\ Apart(r)'
  <2>1. CASE r \in launches
    <3>1. r.saved \in 1..ids /\ Unanchored(r) /\ Apart(r)
      BY <1>9, <2>1 DEF RestoreInv, Ordered
    <3>2. r.saved \in 1..ids'
      BY <1>1, <1>4, <3>1
    <3> QED
      BY <1>1, <1>6, <1>7, <3>1, <3>2 DEF Unanchored, Unread, Apart, WindowsOf, source
  <2>2. CASE r = record
    <3>1. r.saved = s /\ r.token = ids + 1 /\ r.epoch = op.epoch
      BY <1>1, <2>2
    <3> HIDE DEF record
    <3>2. r.saved \in 1..ids'
      BY <1>1, <1>4, <3>1
    <3>3. Unanchored(r)'
      <4> SUFFICES ASSUME NEW x \in DOMAIN windows, anchors[x].epoch = epoch
                   PROVE  /\ anchors[x].id # r.saved
                          /\ windows[x].token = r.token => r.token < anchors[x].id
        BY <1>1 DEF Unanchored, source
      <4>1. anchors[x].id # s
        BY <1>1, <1>5 DEF Link
      <4>2. windows[x].token # r.token
        BY <1>4, <1>5, <3>1 DEF Issued, Window
      <4> QED
        BY <3>1, <4>1, <4>2
    <3>4. Unread(r)'
      BY <1>6 DEF Unread
    <3>5. Apart(r)'
      <4> SUFFICES ASSUME NEW T \in Held, NEW t \in WindowsOf(T) PROVE t < r.token
        BY <1>7 DEF Apart, WindowsOf
      <4> QED
        BY <1>4, <1>8, <3>1
    <3> QED
      BY <3>2, <3>3, <3>4, <3>5
  <2> QED
    BY <1>2, <2>1, <2>2
<1>10. Ordered'
  BY <1>1, <1>9 DEF Ordered, source
<1> HIDE DEF others, record
<1>11. Asked' /\ SoFar'
  BY <1>1, <1>4, <1>6 DEF RestoreInv, Asked, SoFar, Inside, There, WindowsOf, source
<1> QED
  BY <1>10, <1>11 DEF RestoreInv

-----------------------------------------------------------------------------
RestoreHolds == IInv /\ RestoreInv /\ Issued

LEMMA RestoreStarts == ASSUME Sensible, Init PROVE RestoreHolds
<1>1. IInv
  BY InitHolds
<1>2. launches = {} /\ op.kind = "none" /\ windows = <<>>
  BY DEF Init, Idle
<1> QED
  BY <1>1, <1>2 DEF RestoreHolds, RestoreInv, Ordered, Asked, SoFar, Issued

LEMMA RestoreSteps == ASSUME Sensible, RestoreHolds, [Next]_vars PROVE RestoreHolds'
<1>1. IInv /\ RestoreInv /\ Issued
  BY DEF RestoreHolds
<1>2. IInv' /\ Issued'
  BY <1>1, StepHolds, IssuedHolds
<1>3. ASSUME Desktop PROVE RestoreInv'
  BY <1>1, <1>3, DesktopAside
<1>4. ASSUME Capture PROVE RestoreInv'
  BY <1>1, <1>4, DescribeAside, CaptureAside
<1>5. ASSUME Reopen PROVE RestoreInv'
  BY <1>1, <1>5, EndsAside, WorkspaceAside, FindWindowAside, LaunchAside, MatchAside, PlaceAside
     DEF Reopen
<1>6. ASSUME Restart PROVE RestoreInv'
  BY <1>1, <1>6, EndsAside
<1>7. ASSUME UNCHANGED vars PROVE RestoreInv'
  <2>1. Held' = Held
    BY <1>7, HeldSame DEF vars
  <2>2. Ordered'
    BY <1>1, <1>7, <2>1, OrderedKept DEF RestoreInv, vars, source, records
  <2> QED
    BY <1>1, <1>7, <2>2 DEF RestoreInv, Asked, SoFar, There, vars, source, records
<1> QED
  BY <1>2, <1>3, <1>4, <1>5, <1>6, <1>7 DEF Next, RestoreHolds

\* Only the end of a restore says that it is complete.
LEMMA CompletedHolds ==
    ASSUME RestoreHolds, [Next]_vars, op.kind = "restore", op' = Idle, report' = "completed",
           NEW d \in op.session, NEW s \in d.windows
    PROVE  There(s)
<1>1. op'.kind = "none" /\ op'.kind # op.kind
  BY DEF Idle
<1>2. ~Desktop
  BY <1>1 DEF Desktop, Open, Appear, Unassign, Close, Move, Lose, Connect, RemoveProject, Bind,
              ReconcileProjects, Expire, Unset
<1>3. ~Capture
  BY DEF Capture, Automatic, Save, Begin, Timeout, ReadSource, Describe, ReadAgain, ReadBindings,
         PutFails, WriteSession, WriteLast, ArmAndExpire, Capturing, At, Idle
<1>4. ~Restart /\ ~UNCHANGED vars
  BY <1>1 DEF Restart, vars
<1>5. ASSUME Reopen PROVE EndRestore
  <2>1. OpTypes
    BY DEF RestoreHolds, IInv
  <2>2. ~(\E n \in Names : Restore(n)) /\ ~(\E job \in jobs : BeginRestore(job))
    BY <1>1 DEF Restore, BeginRestore, Idle
  <2>3. ASSUME Going PROVE FALSE
    BY <1>1, <2>3 DEF Going
  <2>4. ~SetLayout
    BY <2>1, <2>3, RestGoes DEF SetLayout
  <2>5. ~Place /\ ~Match /\ \A t \in 1..ids : ~FindWindow(t)
    BY <2>1, <2>3, InsideGoes DEF Place, Match, FindWindow, Restoring, At, Inside
  <2>6. ASSUME NEW t, Launch(t) PROVE FALSE
    <3>1. op.step \in Inside /\ "kind" \in DOMAIN op
      BY <2>1, <2>6 DEF Launch, Restoring, At, Inside, OpTypes, RestoreTypes
    <3>2. CASE LoseWindow(t)
      BY <2>1, <2>3, <3>1, <3>2, InsideGoes
    <3>3. CASE op' = With(op, [step |-> "match", saved |-> t, token |-> ids'])
      BY <1>1, <3>1, <3>3 DEF With
    <3> QED
      BY <2>6, <3>2, <3>3 DEF Launch
  <2>7. ~NextWorkspace
    <3> DEFINE e == CHOOSE f \in op.left : \A g \in op.left : f.ws <= g.ws
               project == IF e.key \in DOMAIN checkpoints THEN checkpoints[e.key] ELSE None
               rest == [Rest EXCEPT !.left = @ \ {e}]
    <3> SUFFICES ASSUME NextWorkspace PROVE FALSE
      OBVIOUS
    <3>1. PICK r : r = rest
      OBVIOUS
    <3>2. r.kind = "restore" /\ "kind" \in DOMAIN r
      BY <3>1 DEF Rest
    <3>3. \/ op' = [r EXCEPT !.issue = TRUE]
          \/ op' = With(r, [step |-> "choose", desc |-> e, project |-> project,
                            listed |-> bindings, linked |-> slots])
      BY <3>1 DEF NextWorkspace
    <3> HIDE DEF e, project, rest
    <3>4. op'.kind = "restore"
      BY <3>2, <3>3 DEF With
    <3> QED
      BY <1>1, <3>4
  <2>8. ~ChooseWorkspace
    <3>1. ASSUME NEW w, op' = With(Rest, [step |-> "bind", used |-> op.used \cup {w},
                                        target |-> w, project |-> op.project,
                                        todo |-> op.desc.windows])
          PROVE  FALSE
      <4>1. op'.kind = "restore"
        BY <3>1 DEF With, Rest
      <4> QED
        BY <1>1, <4>1
    <3> QED
      BY <2>1, <2>3, <3>1, RestGoes DEF ChooseWorkspace
  <2>9. ~BindRestored
    <3>1. ASSUME op' = [op EXCEPT !.step = "window"] PROVE FALSE
      <4>1. op'.kind = op.kind
        BY <2>1, <3>1 DEF OpTypes, RestoreTypes
      <4> QED
        BY <1>1, <4>1
    <3> QED
      BY <2>1, <2>3, <3>1, RestGoes DEF BindRestored
  <2> QED
    BY <1>5, <2>2, <2>4, <2>5, <2>6, <2>7, <2>8, <2>9 DEF Reopen
<1>6. EndRestore
  BY <1>2, <1>3, <1>4, <1>5 DEF Next
<1>7. op.step = "next" /\ op.left = {} /\ op.epoch = epoch /\ ~op.issue
  BY <1>6 DEF EndRestore, Restoring, At, Done
<1> QED
  BY <1>7 DEF RestoreHolds, RestoreInv, SoFar, Inside

(* A restore that says it is complete has given every saved window a link  *)
(* of the live epoch: none was skipped, lost its link to another window on *)
(* the way, or was counted on a source that has been replaced              *)
(* (restore.rs: State::Completed).                                         *)
THEOREM CompletedAreComplete == ASSUME Sensible PROVE Spec => CompletedIsComplete
<1>1. Init => RestoreHolds
  BY RestoreStarts
<1>2. RestoreHolds /\ [Next]_vars => RestoreHolds'
  BY RestoreSteps
<1>3. RestoreHolds /\ [Next]_vars =>
        [op.kind = "restore" /\ op' = Idle /\ report' = "completed" =>
            \A d \in op.session : \A s \in d.windows :
                \E x \in 1..MaxOpened : anchors[x] = [id |-> s, epoch |-> epoch]]_vars
  BY CompletedHolds DEF There
<1> QED
  BY <1>1, <1>2, <1>3, PTL DEF Spec, CompletedIsComplete
=============================================================================
