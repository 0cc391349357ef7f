---------------------------- MODULE LiveIdentities ----------------------------
(***************************************************************************)
(* What workspace-dbus promises the consumers of its bus objects about     *)
(* workspace identity (workspace-dbus/CONTRACT.md): identities are scoped  *)
(* by Generation, a removed identity does not come back within one, and    *)
(* losing the compositor empties the inventory under a new Generation.     *)
(***************************************************************************)
EXTENDS Naturals

CONSTANT PublicIds      \* workspace identities seen on the bus

VARIABLES
    generation,     \* Manager.Generation
    connected,      \* Manager.Connected
    live,           \* the identities in Manager.Workspaces
    spent           \* every identity that was live in this generation

vars == <<generation, connected, live, spent>>

Init ==
    /\ generation = 0 /\ ~connected
    /\ live = {} /\ spent = {}

\* A compositor connection brings its inventory under a new generation.
Appear ==
    /\ ~connected /\ connected'
    /\ generation' > generation
    /\ live' \in SUBSET PublicIds
    /\ spent' = live'

\* Workspaces come, with identities new to the generation, and go.
Update ==
    /\ connected /\ connected'
    /\ UNCHANGED generation
    /\ live' \in SUBSET PublicIds
    /\ (live' \ live) \cap spent = {}
    /\ spent' = spent \cup live'

\* The compositor connection is lost.
Vanish ==
    /\ connected /\ ~connected'
    /\ generation' > generation
    /\ live' = {} /\ spent' = {}

Next == Appear \/ Update \/ Vanish

Spec == Init /\ [][Next]_vars
=============================================================================
