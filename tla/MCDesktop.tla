------------------------------- MODULE MCDesktop -------------------------------
(***************************************************************************)
(* Safety of four components that share nothing here, in one run: the      *)
(* workspace lifecycle, the namer, the launcher and the notifications.  A  *)
(* behaviour is one of one of them, chosen by "part" at the start; the     *)
(* others stay in one of their initial states.                             *)
(* Targets may be permuted; no liveness is checked under this symmetry.    *)
(***************************************************************************)
EXTENDS WorkspaceLifecycle, TLC

CONSTANTS None, Named, Projects, MaxChanges,
          Params, Texts, Blank, Found, KeptOpen, MaxKeys,
          Width, Kinds, Rules, MaxQueued, MaxRequests

VARIABLES
    part,
    desktop, read, known, queue, hand, state, expired, changes,
    params, text, mode, preselect, changing, searched, jobs, asked, messages, results,
    selected, visible, revealed, grabbed, held, transition, timers, cache, keys, choices,
    failed, others, broken, pressed,
    next, arrived, locked, session, watching, generation, popups, center, opened,
    running, updates, hasItems, skipped, owed, asks

naming == <<desktop, read, known, queue, hand, state, expired, changes>>
launcher == <<params, text, mode, preselect, changing, searched, jobs, asked, messages,
              results, selected, visible, revealed, grabbed, held, transition, timers,
              cache, keys, choices, failed, others, broken, pressed>>
notifications == <<next, arrived, locked, session, watching, generation, popups, center,
                   opened, running, updates, hasItems, skipped, owed, asks>>
all == <<part, vars, naming, launcher, notifications>>

\* Results by parameters and text; "open" stays open when one is chosen.
MCFound ==
    ("apps" :> ("" :> 1 @@ "a" :> 2)) @@ ("open" :> ("" :> 2 @@ "a" :> 1))
\* Noise is kept while the session is locked only, what is urgent always.
MCRules ==
    <<[keep |-> FALSE, kinds |-> {"noise"}, locked |-> {FALSE}],
      [keep |-> TRUE, kinds |-> {"noise"}, locked |-> {TRUE}],
      [keep |-> TRUE, kinds |-> {"urgent"}, locked |-> BOOLEAN]>>

N == INSTANCE WorkspaceNaming
        WITH Workspaces <- Named, Texts <- Targets, MaxEvents <- MaxChanges,
             events <- changes

L == INSTANCE Launcher
        WITH MaxEvents <- MaxKeys, generation <- searched, inbox <- messages,
             events <- pressed
A == INSTANCE NotificationCenter
        WITH MaxUpdates <- MaxQueued, MaxEvents <- MaxRequests, inbox <- arrived,
             shown <- opened, timers <- running, events <- asks

MCInit ==
    /\ part \in {"lifecycle", "naming", "launcher", "notifications"}
    /\ Init /\ N!Init /\ L!Init /\ A!Init
    /\ part # "launcher" => params = (CHOOSE q \in Params : TRUE) /\ mode = "search" /\ ~preselect
    /\ part # "notifications" => ~session
    /\ part # "naming" => desktop.focused = None /\ \A w \in Named : desktop.names[w] = None
                          /\ desktop.links[w] = None
                          /\ \A p \in Projects : desktop.catalog[p] = None

MCNext ==
    \/ part = "lifecycle" /\ Next /\ UNCHANGED <<part, naming, launcher, notifications>>
    \/ part = "naming" /\ N!Next /\ UNCHANGED <<part, vars, launcher, notifications>>
    \/ part = "launcher" /\ L!Next /\ UNCHANGED <<part, vars, naming, notifications>>
    \/ part = "notifications" /\ A!Next /\ UNCHANGED <<part, vars, naming, launcher>>

MCSpec == MCInit /\ [][MCNext]_all

Symmetry == Permutations(Targets)

-----------------------------------------------------------------------------
(* The components' properties; the lifecycle's have their own names.       *)

(* The focused workspace's name is the one shown: WorkspaceNaming.         *)
NamesFollow == N!NamesFollow

(* The list is what was searched for, the window follows, and what is      *)
(* chosen is executed: Launcher.                                           *)
LauncherServes ==
    part = "launcher" => /\ L!TypeOK /\ L!ListFollows /\ L!WindowFollows
                         /\ L!ChosenIsExecuted

(* What is to be kept is, popups go in the end, HasItems and the lock are  *)
(* followed: NotificationCenter.                                           *)
NotificationsKept ==
    part = "notifications" => /\ A!TypeOK /\ A!KeptStays /\ A!PopupsGo
                              /\ A!HasItemsFollows /\ A!LockFollows
=============================================================================
