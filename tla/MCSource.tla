------------------------------- MODULE MCSource -------------------------------
(***************************************************************************)
(* Two components of workspace-dbus in one run: the host that publishes    *)
(* the compositor's workspaces, and the control commands.  A behaviour is  *)
(* one of one of them, chosen by "part" at the start; the other stays in   *)
(* one of its initial states.                                              *)
(***************************************************************************)
EXTENDS WorkspaceSource, TLC

CONSTANTS Outputs, o1, o2, v1, v2, v3, d1, d2, Layouts, MaxCalls, MaxEvents

VARIABLES
    part,
    native, shown, frames, call, late, start, disturbed, met, calls, events

control == <<native, shown, frames, call, late, start, disturbed, met, calls, events>>
all == <<part, vars, control>>

\* Two workspaces on the first output, one on the second.
MCSpots ==
    (v1 :> [output |-> o1, index |-> 1]) @@ (v2 :> [output |-> o1, index |-> 2])
    @@ (v3 :> [output |-> o2, index |-> 1])

C == INSTANCE WorkspaceControl
        WITH Workspaces <- {v1, v2, v3}, Spots <- MCSpots, Windows <- {d1, d2}

\* The desktop has the same layout everywhere and the focus on a window at first;
\* the two windows differ in nothing else.
Starts ==
    {d \in C!Starts : d.focus = d1 /\ \A v \in {v1, v2, v3} : d.layout[v] = "scrolling"}

MCInit ==
    /\ part \in {"host", "control"}
    /\ Init /\ (part # "host" => DOMAIN comp.live = {})
    /\ native \in IF part = "control" THEN Starts ELSE {CHOOSE d \in Starts : TRUE}
    /\ C!Init

InHost(A) == part = "host" /\ A /\ UNCHANGED <<part, control>>
InControl(A) == part = "control" /\ A /\ UNCHANGED <<part, vars>>

MCNext == InHost(Next) \/ InControl(C!Next)

MCFairSpec == MCInit /\ [][MCNext]_all /\ WF_all(InHost(Host))

-----------------------------------------------------------------------------
(* The properties of the host have their own names in WorkspaceSource.     *)

(* A command does what it was asked to, or failed: WorkspaceControl.       *)
CommandsDoAsAsked ==
    part = "control" => C!TypeOK /\ C!DoesAsAsked /\ C!Succeeds /\ C!SawItDone
=============================================================================
