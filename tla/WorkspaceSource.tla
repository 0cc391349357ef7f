--------------------------- MODULE WorkspaceSource ---------------------------
(***************************************************************************)
(* The workspace-dbus host: one compositor connection at a time, the       *)
(* reducer that turns Umbriel's full-family frames into a projection       *)
(* (backend/umbriel/state.rs), and the staged publication of a projection  *)
(* as bus objects (service.rs).                                            *)
(*                                                                         *)
(* Of a projection the model keeps the workspaces, the windows' homes, the *)
(* focused workspace and the most-recently-used order.  The compositor is  *)
(* external: it changes in one step and sends a snapshot of each family    *)
(* that changed, in any order.  Each life of a native workspace id has an  *)
(* incarnation number of its own, which the frames do not carry as such:   *)
(* it is history, read by the properties alone.                            *)
(***************************************************************************)
EXTENDS Naturals, Sequences, SequencesExt, FiniteSets, FiniteSetsExt

CONSTANTS
    Native,         \* the compositor's workspace ids
    PublicIds,      \* workspace ids on the bus: native ids and id#n aliases
    Windows,        \* window ids, the same on both sides
    None,           \* no workspace
    MaxChanges,     \* bound: compositor changes
    MaxQueue,       \* bound: frames waiting in the socket
    MaxGeneration   \* bound: generations

ASSUME IdsAssumption == Native \subseteq PublicIds /\ None \notin PublicIds
ASSUME NativeFinite == IsFiniteSet(Native)

VARIABLES
    comp,       \* the compositor: incarnation of each live workspace, home of
                \* each mapped window, focused workspace
    changes,    \* compositor changes so far, also the next incarnation
    stream,     \* frames sent and not yet read
    session,    \* a connection is open; its generation
    families,   \* the last frame of each family on this connection
    counted,    \* some frame of this connection carried window counts
    ids,        \* workspace_ids: public id of each native id present
    used,       \* used_workspace_ids
    state,      \* the projection readers of the bus see
    registered, \* bus objects at the object server
    publishing, \* where publish() is: "no", "register", "unregister"
    target,     \* the projection publish() is on its way to
    meant       \* history: what each public id of this generation denoted

vars == <<comp, changes, stream, session, families, counted, ids, used,
          state, registered, publishing, target, meant>>
compositor == <<comp, changes>>
reducer == <<families, counted, ids, used>>
bus == <<state, registered, publishing, target, meant>>

-----------------------------------------------------------------------------
(* Compositor states and frames.                                           *)

Partial(S, T) == UNION {[D -> T] : D \in SUBSET S}

Count(home, n) == Cardinality({w \in DOMAIN home : home[w] = n})

WorkspacesFrame(c) ==
    [family |-> "workspaces", live |-> c.live, focus |-> c.focus,
     count |-> [n \in DOMAIN c.live |-> Count(c.home, n)]]

WindowsFrame(c) == [family |-> "windows", home |-> c.home]

\* Outputs, layers and overview: only their arrival matters here.
OtherFrames == [family |-> "others"]

NoFrames == [workspaces |-> {}, windows |-> {}, others |-> {}]

-----------------------------------------------------------------------------
(* Projections.                                                            *)

EmptyProjection(g) ==
    [connected |-> FALSE, generation |-> g, workspaces |-> {}, listed |-> {},
     windows |-> {}, home |-> <<>>, focus |-> None, mru |-> <<>>]

Objects(p) == p.workspaces \cup p.windows

\* Slip: only the counts are compared.
ConsistentCounts(ws, win) == \A n \in DOMAIN ws.live : Count(win.home, n) = ws.count[n]

\* coherence::consistent: every window's workspace is there, and every
\* workspace has as many windows as it says.
Consistent(ws, win) ==
    /\ \A w \in DOMAIN win.home : win.home[w] \in DOMAIN ws.live \cup {None}
    /\ \A n \in DOMAIN ws.live : Count(win.home, n) = ws.count[n]

\* project() and normalize(): a reference to an absent workspace is dropped.
Project(ws, win, map, g) ==
    LET public(n) == IF n \in DOMAIN ws.live THEN map[n] ELSE None
        pubs == {map[n] : n \in DOMAIN ws.live}
    IN  [connected |-> TRUE, generation |-> g,
         workspaces |-> pubs, listed |-> pubs,
         windows |-> DOMAIN win.home,
         home |-> [w \in DOMAIN win.home |-> public(win.home[w])],
         focus |-> public(ws.focus), mru |-> <<>>]

Before(seq, a, b) == \E i, j \in DOMAIN seq : i < j /\ seq[i] = a /\ seq[j] = b

\* update_workspace_mru: the focused one in front, then survivors in their order,
\* newcomers at the end (in id order: any order here).
Mrus(previous, p) ==
    {mru \in SetToSeqs(p.workspaces) :
        /\ p.focus # None => Head(mru) = p.focus
        /\ \A i, j \in DOMAIN mru :
            i < j /\ mru[i] # p.focus /\ mru[j] \in Range(previous)
            => Before(previous, mru[i], mru[j])}

\* Slip: the new homes are staged with the new objects.
StagedHomes(before, next) ==
    [before EXCEPT
        !.workspaces = @ \cup next.workspaces,
        !.windows = @ \cup next.windows,
        !.home = [w \in before.windows \cup next.windows |->
                    IF w \in next.windows THEN next.home[w] ELSE before.home[w]],
        !.mru = next.mru]

\* stage_additions: what is already public stays, what is new gets no
\* references; publish() then puts the new most-recently-used order in.
Staged(before, next) ==
    [before EXCEPT
        !.workspaces = @ \cup next.workspaces,
        !.windows = @ \cup next.windows,
        !.home = [w \in before.windows \cup next.windows |->
                    IF w \in before.windows THEN before.home[w] ELSE None],
        !.mru = next.mru]

-----------------------------------------------------------------------------

Init ==
    /\ \E L \in SUBSET Native :
        comp = [live |-> [n \in L |-> 0], home |-> <<>>, focus |-> None]
    /\ changes = 0
    /\ stream = <<>>
    /\ session = [open |-> FALSE, generation |-> 0]
    /\ families = NoFrames /\ counted = FALSE
    /\ ids = <<>> /\ used = {}
    /\ state = EmptyProjection(0)
    /\ target = EmptyProjection(0)
    /\ registered = {} /\ publishing = "no"
    /\ meant = {}

-----------------------------------------------------------------------------
(* The compositor (external).                                              *)

\* Workspaces appear and disappear, windows map, unmap and move, focus moves.
\* A native id never ends one life and starts another within one change.
Change ==
    /\ changes < MaxChanges
    /\ Len(stream) <= MaxQueue - 2
    /\ \E L \in SUBSET Native :
       \E home \in Partial(Windows, L \cup {None}), focus \in L \cup {None} :
        LET c == [live |-> [n \in L |-> IF n \in DOMAIN comp.live THEN comp.live[n]
                                        ELSE changes + 1],
                  home |-> home, focus |-> focus]
            ws == IF WorkspacesFrame(c) = WorkspacesFrame(comp) THEN <<>>
                  ELSE <<WorkspacesFrame(c)>>
            win == IF home = comp.home THEN <<>> ELSE <<WindowsFrame(c)>>
        IN  /\ c # comp
            /\ comp' = c
            /\ stream' \in IF session.open THEN {stream \o ws \o win, stream \o win \o ws}
                           ELSE {<<>>}
    /\ changes' = changes + 1
    /\ UNCHANGED <<session, reducer, bus>>

-----------------------------------------------------------------------------
(* The host's loop.                                                        *)

\* A connection is opened; the compositor answers with every family.
Connect ==
    /\ ~session.open /\ publishing = "no"
    /\ state.generation < MaxGeneration
    /\ session' = [open |-> TRUE, generation |-> state.generation + 1]
    /\ families' = NoFrames /\ counted' = FALSE
    /\ ids' = <<>> /\ used' = {}
    /\ \E order \in SetToSeqs({WorkspacesFrame(comp), WindowsFrame(comp), OtherFrames}) :
        stream' = order
    /\ UNCHANGED <<compositor, bus>>

\* Slip: only the public ids in use are avoided.
AssignsFree(live, map) ==
    LET kept == DOMAIN ids \cap live
        new == live \ DOMAIN ids
    IN  /\ \A n \in kept : map[n] = ids[n]
        /\ \A n \in new :
            /\ map[n] \notin {ids[m] : m \in kept}
            /\ map[n] # n => n \in {map[m] : m \in live \ {n}}
            /\ \A m \in new \ {n} : map[m] # map[n]

\* Each native id present keeps its public id; a newcomer takes its own id if
\* that was not used on this connection, an unused alias otherwise.
Assigns(live, map) ==
    LET kept == DOMAIN ids \cap live
        new == live \ DOMAIN ids
    IN  /\ \A n \in kept : map[n] = ids[n]
        /\ \A n \in new :
            /\ map[n] \notin used
            /\ map[n] # n => n \in used \cup {map[m] : m \in new \ {n}}
            /\ \A m \in new \ {n} : map[m] # map[n]

Reduce(frame) ==
    \/ /\ frame.family = "workspaces"
       /\ families' = [families EXCEPT !.workspaces = {frame}]
       /\ counted' = (counted \/ DOMAIN frame.live # {})
       /\ \E map \in [DOMAIN frame.live -> PublicIds] :
            /\ Assigns(DOMAIN frame.live, map)
            /\ ids' = map
            /\ used' = used \cup Range(map)
    \/ /\ frame.family = "windows"
       /\ families' = [families EXCEPT !.windows = {frame}]
       /\ UNCHANGED <<counted, ids, used>>
    \/ /\ frame.family = "others"
       /\ families' = [families EXCEPT !.others = {frame}]
       /\ UNCHANGED <<counted, ids, used>>

\* Slip: nothing is published while the inventory is the same.
PublishInventory(next) ==
    \E mru \in Mrus(state.mru, next) :
        LET full == [next EXCEPT !.mru = mru]
        IN  IF full.generation = state.generation /\ Objects(full) = Objects(state)
            THEN UNCHANGED bus
            ELSE /\ target' = full
                 /\ state' = Staged(state, full)
                 /\ publishing' = "register"
                 /\ UNCHANGED <<registered, meant>>

\* publish(): nothing if nothing changed; otherwise the staged projection is
\* visible first, and registration starts.
Publish(next) ==
    \E mru \in Mrus(state.mru, next) :
        LET full == [next EXCEPT !.mru = mru]
        IN  IF full = state
            THEN UNCHANGED bus
            ELSE /\ target' = full
                 /\ state' = Staged(state, full)
                 /\ publishing' = "register"
                 /\ UNCHANGED <<registered, meant>>

\* One frame is read and applied; the projection is published if every family
\* has been seen and they agree.
Read ==
    /\ session.open /\ publishing = "no" /\ stream # <<>>
    /\ stream' = Tail(stream)
    /\ Reduce(Head(stream))
    /\ LET complete == \A f \in DOMAIN families : families'[f] # {}
       IN  IF complete
           THEN \E ws \in families'.workspaces, win \in families'.windows :
                    IF counted' /\ ~Consistent(ws, win)
                    THEN UNCHANGED bus
                    ELSE Publish(Project(ws, win, ids', session.generation))
           ELSE UNCHANGED bus
    /\ UNCHANGED <<compositor, session>>

\* Slip: the empty projection keeps the generation.
DisconnectQuietly ==
    /\ session.open /\ publishing = "no"
    /\ session' = [session EXCEPT !.open = FALSE]
    /\ stream' = <<>>
    /\ IF state.connected
       THEN Publish(EmptyProjection(state.generation))
       ELSE UNCHANGED bus
    /\ UNCHANGED <<compositor, reducer>>

\* The connection ends: transport loss, or a frame the host rejects.  A
\* connected projection is replaced by an empty one of the next generation.
Disconnect ==
    /\ session.open /\ publishing = "no"
    /\ session' = [session EXCEPT !.open = FALSE]
    /\ stream' = <<>>
    /\ IF state.connected
       THEN Publish(EmptyProjection(state.generation + 1))
       ELSE UNCHANGED bus
    /\ UNCHANGED <<compositor, reducer>>

\* publish(): one missing object is registered, workspaces before windows.
Register ==
    /\ publishing = "register"
    /\ \E o \in Objects(target) \ registered :
        /\ o \in Windows => target.workspaces \subseteq registered
        /\ registered' = registered \cup {o}
    /\ UNCHANGED <<compositor, stream, session, reducer, state, publishing, target, meant>>

\* The life of a native workspace that a public id of the target stands for.
Denoted(p) ==
    LET ws == CHOOSE f \in families.workspaces : TRUE
    IN  {<<p, n, ws.live[n]>> : n \in {m \in DOMAIN ws.live : ids[m] = p}}

\* publish(): every object is there, the projection itself becomes visible.
Commit ==
    /\ publishing = "register"
    /\ Objects(target) \subseteq registered
    /\ state' = target
    /\ publishing' = "unregister"
    /\ meant' = (IF target.generation = state.generation THEN meant ELSE {})
                \cup UNION {Denoted(p) : p \in target.workspaces}
    /\ UNCHANGED <<compositor, stream, session, reducer, registered, target>>

\* publish(): one departed object is unregistered, windows before workspaces.
Unregister ==
    /\ publishing = "unregister"
    /\ \E o \in registered \ Objects(target) :
        /\ o \notin Windows => (registered \ Objects(target)) \cap Windows = {}
        /\ registered' = registered \ {o}
    /\ UNCHANGED <<compositor, stream, session, reducer, state, publishing, target, meant>>

Published ==
    /\ publishing = "unregister"
    /\ registered = Objects(target)
    /\ publishing' = "no"
    /\ UNCHANGED <<compositor, stream, session, reducer, state, registered, target, meant>>

-----------------------------------------------------------------------------

Host == Connect \/ Read \/ Register \/ Commit \/ Unregister \/ Published

Next == Change \/ Disconnect \/ Host

Spec == Init /\ [][Next]_vars

\* The host's task runs on, and what is in the socket is read.
FairSpec == Spec /\ WF_vars(Host)

-----------------------------------------------------------------------------
(* Properties.                                                             *)

Projections ==
    [connected : BOOLEAN, generation : Nat,
     workspaces : SUBSET PublicIds, listed : SUBSET PublicIds,
     windows : SUBSET Windows, home : Partial(Windows, PublicIds \cup {None}),
     focus : PublicIds \cup {None}, mru : Seq(PublicIds)]

\* The projections, the reducer's maps and the bus objects have their types
\* (model.rs Projection, umbriel/state.rs State).
TypeOK ==
    /\ state \in Projections /\ target \in Projections
    /\ ids \in Partial(Native, PublicIds) /\ used \subseteq PublicIds
    /\ counted \in BOOLEAN
    /\ session \in [open : BOOLEAN, generation : Nat]
    /\ registered \subseteq PublicIds \cup Windows
    /\ publishing \in {"no", "register", "unregister"}
    /\ meant \subseteq PublicIds \X Native \X Nat

\* CONTRACT.md: references must resolve to registered objects.  At every step of
\* a publication, what the inventory lists and what a home or the focus points
\* at is at the object server.  Once it has ended, no object outlives its
\* workspace or window, or is missing, whatever the order of arrivals and
\* departures was, and the most-recently-used order has exactly the live
\* workspaces, the focused first.
ReferencesRegistered ==
    /\ TypeOK
    /\ state.listed \cup state.windows \subseteq Objects(state)
    /\ state.listed \subseteq registered
    /\ \A w \in DOMAIN state.home : state.home[w] \in registered \cup {None}
    /\ state.focus \in registered \cup {None}
    /\ publishing = "no" =>
        /\ registered = Objects(state)
        /\ state.listed = state.workspaces
        /\ Range(state.mru) = state.listed
        /\ Len(state.mru) = Cardinality(state.listed)
        /\ state.focus # None => Head(state.mru) = state.focus

\* A public id of the current generation has denoted one life of one native
\* workspace, and that life had no other public id, although the compositor
\* restarts its ids (CONTRACT.md, umbriel/state.rs used_workspace_ids).
OneLifePerIdentity ==
    \A x, y \in meant : x[1] = y[1] <=> <<x[2], x[3]>> = <<y[2], y[3]>>

\* Once window counts have been seen, a window the compositor puts on a workspace
\* is never shown without one: the projection waits for the families to agree
\* (state/coherence.rs).
NoPartialTopology ==
    [][publishing = "register" /\ publishing' = "unregister" /\ state'.connected /\ counted =>
        \A win \in families.windows : \A w \in DOMAIN win.home :
            win.home[w] # None => state'.home[w] # None]_vars

\* CONTRACT.md: "References must resolve to registered objects. Register added
\* targets before publishing references." for Manager.WorkspaceMru.
MruRegistered == Range(state.mru) \subseteq registered

\* The bus keeps the promise about identities (LiveIdentities).
Identities == INSTANCE LiveIdentities WITH
    generation <- state.generation,
    connected <- state.connected,
    live <- state.listed,
    spent <- {x[1] : x \in meant}

KeepsIdentities == Identities!Spec

\* The bus shows what the compositor is.
Shown ==
    /\ publishing = "no" /\ state.connected
    /\ DOMAIN ids = DOMAIN comp.live
    /\ state.listed = Range(ids)
    /\ DOMAIN state.home = DOMAIN comp.home
    /\ \A w \in DOMAIN comp.home :
        state.home[w] = IF comp.home[w] = None THEN None ELSE ids[comp.home[w]]
    /\ state.focus = IF comp.focus = None THEN None ELSE ids[comp.focus]

\* If the connection lasts and the compositor comes to rest, the bus comes to
\* show it: no frame order leaves the projection behind for ever.
Converges == <>[]session.open => <>[]Shown
=============================================================================
