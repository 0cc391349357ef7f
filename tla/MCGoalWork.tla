------------------------------ MODULE MCGoalWork ------------------------------
(***************************************************************************)
(* Two components that share nothing, in one run with their liveness: the  *)
(* recorder of work on goals, for a task and its subtask, and the request  *)
(* socket of the shell.  A behaviour is one of one of them, chosen by      *)
(* "part" at the start; the other stays in its initial state.              *)
(***************************************************************************)
EXTENDS GoalWork, TLC

CONSTANTS g, h, Lives, c1, c2, c3, Workers, QueueSize

VARIABLES
    part,
    file, process, accepting, backlog, queue, inboxes, worker,
    client, responded, wake, handled, overlapped

requests == <<file, process, accepting, backlog, queue, inboxes, worker,
              client, responded, wake, handled, overlapped>>
all == <<part, vars, requests>>

MCParent == (g :> None) @@ (h :> g)

R == INSTANCE RequestServer WITH Clients <- {c1, c2, c3}, inbox <- inboxes

MCInit == part \in {"work", "requests"} /\ Init /\ R!Init

InWork(A) == part = "work" /\ A /\ UNCHANGED <<part, requests>>
InRequests(A) == part = "requests" /\ A /\ UNCHANGED <<part, vars>>

\* Lives and clients are all alike: they come in one order.
InOrder ==
    /\ \A p, q \in Lives : p < q /\ process[q] # "new" => process[p] # "new"
    /\ client[c2] # "idle" => client[c1] # "idle"
    /\ client[c3] # "idle" => client[c2] # "idle"

MCNext == InWork(Next) \/ InRequests(R!Next /\ InOrder')

(* The fairness of each component's FairSpec.                              *)
MCFairness ==
    /\ WF_all(InWork(Recording)) /\ WF_all(InWork(Streaming)) /\ WF_all(InWork(Serving))
    /\ WF_all(InRequests(R!Advance))

MCFairSpec == MCInit /\ [][MCNext]_all /\ MCFairness

-----------------------------------------------------------------------------
(* The recorder's properties have their own names in GoalWork.             *)

(* Requests are handled once at most, by the process that clients reach;   *)
(* in the end every client is answered, and every drop over:               *)
(* RequestServer.                                                          *)
RequestsServed == [](part = "requests" => R!TypeOK) /\ R!RequestsServed
=============================================================================
