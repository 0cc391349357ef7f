-------------------------------- MODULE MCLive --------------------------------
(***************************************************************************)
(* Liveness of three components that share nothing, in one run: the        *)
(* project bindings, the workspace lifecycle and the repository watch.  A  *)
(* behaviour is one of one of them, chosen by "part" at the start; the     *)
(* other two stay in one of their initial states.                          *)
(***************************************************************************)
EXTENDS ProjectBindings, RepositoryVersions

CONSTANTS Targets, Unstamped, MaxOwner, MaxMoves, MaxWrites, MaxRestarts,
          MaxRequests

VARIABLES
    part,
    source, present, objects, staging, spent, links, holder, step, pass, call,
    awake, tracker, pending, moves, writes, restarts,
    repo, shown, requests, registering, directories, notified, running, dirty,
    tasks, checkoutLock, completed, asked, owed

lifecycle == <<source, present, objects, staging, spent, links, holder, step, pass, call,
               awake, tracker, pending, moves, writes, restarts>>
repository == <<repo, row, shown, requests, registering, directories, notified, running,
                dirty, tasks, checkoutLock, completed, asked, owed>>
all == <<part, vars, lifecycle, repository>>

L == INSTANCE WorkspaceLifecycle WITH records <- links, lock <- holder
R == INSTANCE RepositoryWatch
        WITH holder <- registering, calls <- asked, MaxCalls <- MaxRequests

MCInit ==
    /\ part \in {"bindings", "lifecycle", "repository"}
    /\ Init /\ L!Init /\ R!Init
    /\ part # "repository" => R!Registered = {}

InBindings(A) == part = "bindings" /\ A /\ UNCHANGED <<part, lifecycle, repository>>
InLifecycle(A) == part = "lifecycle" /\ A /\ UNCHANGED <<part, vars, repository>>
InRepository(A) == part = "repository" /\ A /\ UNCHANGED <<part, vars, lifecycle>>

MCNext == InBindings(Next) \/ InLifecycle(L!Next) \/ InRepository(R!Next)

(* The fairness of each component's FairSpec.                              *)
MCFairness ==
    /\ \A c \in Callers : WF_all(InBindings(Work(c) \/ Fail(c))) /\ WF_all(InBindings(Acquire(c)))
    /\ WF_all(InBindings(Relist)) /\ WF_all(InBindings(MainLoop)) /\ WF_all(InBindings(MainLock))
    /\ WF_all(InLifecycle(L!Publish \/ L!Retire))
    /\ WF_all(InLifecycle(L!Holder)) /\ WF_all(InLifecycle(L!Receive))
    /\ WF_all(InLifecycle(L!Lock))
    /\ WF_all(InRepository(R!Handle))
    /\ \A r \in Checkouts : WF_all(InRepository(R!HandleEvent(r)))
    /\ \A t \in 1..MaxTasks : WF_all(InRepository(R!Work(t)))

MCSpec == MCInit /\ [][MCNext]_all
MCFairSpec == MCSpec /\ MCFairness

-----------------------------------------------------------------------------
(* The components' properties; ProjectBindings' and NeverOlder, of          *)
(* RepositoryVersions, have their own names.                               *)

(* Records of workspaces come to rest: WorkspaceLifecycle.                 *)
Settles == L!Settles

(* The loop watches the registered checkouts: RepositoryWatch; the types   *)
(* of the bindings, where an init resolves its project, come with it.      *)
WatchesRegistered == TypeOK /\ R!TypeOK /\ R!WatchesRegistered

(* Every checkout shows its repository in the end: RepositoryWatch.        *)
StatusCatchesUp == R!StatusCatchesUp
=============================================================================
