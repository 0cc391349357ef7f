------------------------------- MODULE MCDurable -------------------------------
(***************************************************************************)
(* Safety of two components that share nothing, in one run: locus's store  *)
(* and steward's sessions, which both outlive their process.  A behaviour  *)
(* is one of one of them, chosen by "part" at the start; the other stays   *)
(* in one of its initial states.                                           *)
(***************************************************************************)
EXTENDS RelationStore, TLC

CONSTANTS
    Count, Named, Focused, Projects, None, Explicit, Recipes, MaxOpened,
    MaxEvents, MaxCalls, MaxFailures,
    MaxTogether     \* bound: events, calls and failures of the sessions, together

VARIABLES
    part,
    epoch, connected, windows, opened, projects,
    bindings, slots, anchors, launches, armed, checkpoints, slotProjects,
    store, op, jobs, report, dirty, expired, ids, recipe,
    spawned, claimed, deferred, events, calls, failures

sessions == <<epoch, connected, windows, opened, projects,
              bindings, slots, anchors, launches, armed, checkpoints, slotProjects,
              store, op, jobs, report, dirty, expired, ids, recipe,
              spawned, claimed, deferred, events, calls, failures>>
all == <<part, vars, sessions>>

Sessions == INSTANCE SessionRestore

MCInit ==
    /\ part \in {"store", "sessions"}
    /\ Init /\ Sessions!Init
    /\ part = "sessions" => disk = {}
    /\ part = "store" => store["last"] = None /\ recipe = "tagged"

MCNext ==
    \/ part = "store" /\ Next /\ UNCHANGED <<part, sessions>>
    \/ part = "sessions" /\ Sessions!Next /\ events' + calls' + failures' <= MaxTogether
                         /\ UNCHANGED <<part, vars>>

MCSpec == MCInit /\ [][MCNext]_all

(* Subjects, targets and metadata maps are only compared for equality; no  *)
(* liveness is checked under this symmetry.                                *)
Symmetry ==
    Permutations(Subjects) \cup Permutations(Targets) \cup Permutations(Metadata)

-----------------------------------------------------------------------------
(* The properties of the store have their own names in RelationStore.      *)

(* No saved window twice, no workspace twice, no launch twice:             *)
(* SessionRestore.                                                         *)
LaunchesOnce == Sessions!TypeOK /\ Sessions!LaunchesOnce

(* What was saved is what was there, and stays so; "current" is the        *)
(* desktop at rest: SessionRestore.                                        *)
SavesHold == Sessions!SavesHold

(* "last" is replaced by a claimed epoch only, and a restore that says it  *)
(* is complete is: SessionRestore.                                         *)
RestoresHonest == Sessions!LastProtected /\ Sessions!CompletedIsComplete
=============================================================================
