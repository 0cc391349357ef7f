----------------------------- MODULE GoalHistory -----------------------------
(***************************************************************************)
(* projd's goals: the rows of the records table, the active goal of each   *)
(* project, and the history kept beside them (store/history.rs), under the *)
(* calls of the manager (main.rs, goals.rs, projects.rs).                  *)
(*                                                                         *)
(* A goal's key is its date and its bare id; a directory is the sequence   *)
(* of its components.  Titles, notes, labels, icons and times are left     *)
(* out: an edit of them is a "updated" event.  A project's root is the     *)
(* directory it was registered with.  The mutation mutex is held for a     *)
(* whole call, but a call is several transactions, and the process may end *)
(* between two of them: "hand" is the call in hand.                        *)
(***************************************************************************)
EXTENDS Naturals, Sequences, SequencesExt, FiniteSets, FiniteSetsExt

CONSTANTS
    Ids,            \* the bare ids users give to goals
    Dates,          \* the dates they give, NoDate among them or not
    Roots,          \* directories that are registered
    Statuses,       \* a subset of the five statuses
    MaxProjects,    \* bound: identities given to projects
    MaxEvents       \* bound: rows of goal_events

NoDate == ""
Keys == Dates \X Ids
NoGoal == <<>>              \* the empty key
Nowhere == <<>>             \* the empty path
NoProject == 0              \* the empty project id
NoStatus == ""              \* what a goal that is created had before

ASSUME KeysAssumption ==
    /\ Nowhere \notin Roots /\ \A root \in Roots : Len(root) \in Nat
    /\ MaxProjects \in Nat
    /\ Statuses \subseteq {"planned", "in-progress", "completed", "deferred", "cancelled"}

VARIABLES
    goals,      \* rows of kind 'goal': a partial function of row ids (keys)
    projects,   \* registered projects: root of each project id
    issued,     \* project ids given so far
    active,     \* rows of kind 'active-goal': a key for each project id
    identities, \* goal_instances in the order they were made, with their
                \* rows of goal_events
    hand,       \* the call in hand between two transactions
    interrupted \* history: goals whose call the end of the process cut short

vars == <<goals, projects, issued, active, identities, hand, interrupted>>

-----------------------------------------------------------------------------
(* Records and queries.                                                    *)

Paths == Roots \cup {Nowhere}
ProjectIds == 1..MaxProjects
Goal == [key: Keys, path: Paths, project: 0..MaxProjects,
         parent: Keys \cup {NoGoal}, status: Statuses]

IsOpen(goal) == goal.status \in {"planned", "in-progress"}

Stored == {goals[r] : r \in DOMAIN goals}
Has(key) == \E g \in Stored : g.key = key
GoalAt(key) == CHOOSE g \in Stored : g.key = key
ChildrenOf(key) == {g \in Stored : g.parent = key}

(* The project with the longest root that holds the path.                  *)
ProjectOf(path) ==
    LET holding == {p \in DOMAIN projects :
                        path # Nowhere /\ IsPrefix(projects[p], path)}
    IN  IF holding = {} THEN NoProject
        ELSE CHOOSE p \in holding :
                \A q \in holding : Len(projects[q]) <= Len(projects[p])

Instances(ids, key) == {i \in DOMAIN ids : ids[i].key = key /\ ids[i].live}
Instance(ids, key) == CHOOSE i \in Instances(ids, key) : TRUE

-----------------------------------------------------------------------------
(* One row of history: the live identity of the goal, made when there is   *)
(* none, gets an event, and an end when the goal is deleted.               *)

NewIdentity(ids, goal) ==
    [key |-> goal.key, live |-> TRUE, log |-> <<>>,
     ancestors |-> IF goal.parent = NoGoal THEN <<>>
                   ELSE LET p == Instance(ids, goal.parent)
                        IN  Append(ids[p].ancestors, p)]

Record(ids, goal, kind, old) ==
    LET fresh == Instances(ids, goal.key) = {}
        all == IF fresh THEN Append(ids, NewIdentity(ids, goal)) ELSE ids
        i == IF fresh THEN Len(all) ELSE Instance(ids, goal.key)
        event == [kind |-> kind, old |-> old, status |-> goal.status]
    IN  [all EXCEPT ![i].live = (kind # "deleted"),
                    ![i].log = Append(@, event)]

Written == FoldSeq(LAMBDA identity, n : n + Len(identity.log), 0, identities)
Room(n) == Written + n <= MaxEvents

(* save_goal: nothing is written for a goal that is as it was.             *)
SaveGoal(goal, create, edited) ==
    LET old == GoalAt(goal.key)
        kind == IF create THEN "created"
                ELSE IF old.status # goal.status THEN "status-changed"
                ELSE "updated"
    IN  IF ~create /\ old = goal /\ ~edited
        THEN UNCHANGED <<goals, identities>>
        ELSE /\ goals' = [k \in DOMAIN goals \cup {goal.key} |->
                            IF k = goal.key THEN goal ELSE goals[k]]
             /\ identities' = Record(identities, goal, kind,
                                     IF create THEN NoStatus ELSE old.status)

(* select_goal: the selection that ends and the one that begins.           *)
Unselect(ids, p) ==
    IF Has(active[p])
    THEN Record(ids, GoalAt(active[p]), "unselected", GoalAt(active[p]).status)
    ELSE ids

\* Slip: the selection that ends has no event.
SelectGoalOnly(p, key) ==
    IF active[p] = key THEN UNCHANGED <<active, identities>>
    ELSE /\ active' = [active EXCEPT ![p] = key]
         /\ identities' =
                IF Has(key)
                THEN Record(identities, GoalAt(key), "selected", GoalAt(key).status)
                ELSE identities

SelectGoal(p, key) ==
    LET ended == Unselect(identities, p)
    IN  IF active[p] = key THEN UNCHANGED <<active, identities>>
        ELSE /\ active' = [active EXCEPT ![p] = key]
             /\ identities' =
                    IF Has(key)
                    THEN Record(ended, GoalAt(key), "selected", GoalAt(key).status)
                    ELSE ended

-----------------------------------------------------------------------------
Idle == [then |-> "nothing"]

Init ==
    /\ goals = << >> /\ projects = << >> /\ issued = 0
    /\ active = [p \in ProjectIds |-> NoGoal]
    /\ identities = <<>>
    /\ hand = Idle /\ interrupted = {}

Aside == UNCHANGED <<issued, interrupted>>

(* register_project of a directory that is not registered: a fresh id.     *)
Register(root) ==
    /\ hand = Idle
    /\ issued < MaxProjects
    /\ \A p \in DOMAIN projects : projects[p] # root
    /\ issued' = issued + 1
    /\ projects' = [p \in DOMAIN projects \cup {issued'} |->
                        IF p = issued' THEN root ELSE projects[p]]
    /\ UNCHANGED <<goals, active, identities, hand, interrupted>>

(* remove_project, one transaction.  A goal that refers to the project is  *)
(* written back without it under its bare id, where the row may be missing *)
(* or, for a dated goal, another goal's; "last" is the goal whose row      *)
(* comes last in the order of ids.                                         *)
RefersTo(goal, p) ==
    goal.project = p \/ (goal.path # Nowhere /\ goal.path = projects[p])

RowOf(goal) == <<NoDate, goal.key[2]>>

Detached(goal) == [goal EXCEPT !.path = Nowhere, !.project = NoProject]

RemoveProject(p) ==
    /\ hand = Idle
    /\ p \in DOMAIN projects
    /\ Room(1)
    /\ identities' = Unselect(identities, p)
    /\ LET written(r) == {g \in Stored : RefersTo(g, p) /\ RowOf(g) = r}
       IN  \E last \in Dates :
            goals' = [r \in DOMAIN goals |->
                CASE written(r) = {} -> goals[r]
                  [] \E g \in written(r) : g.key[1] = last ->
                        Detached(CHOOSE g \in written(r) : g.key[1] = last)
                  [] OTHER -> Detached(CHOOSE g \in written(r) : TRUE)]
    /\ projects' = [q \in DOMAIN projects \ {p} |-> projects[q]]
    /\ active' = [active EXCEPT ![p] = NoGoal]
    /\ UNCHANGED hand /\ Aside

(* create_goal: a subtask belongs to its parent's project.  A goal that is *)
(* created closed is then cleared like any other.                          *)
Create(key, path, parent, status) ==
    LET goal == [key |-> key, path |-> path, project |-> ProjectOf(path),
                 parent |-> parent, status |-> status]
    IN  /\ hand = Idle
        /\ Room(1)
        /\ ~Has(key)
        /\ \/ parent = NoGoal
           \/ /\ Has(parent)
              /\ GoalAt(parent).path = path
              /\ GoalAt(parent).project = goal.project
        /\ SaveGoal(goal, TRUE, FALSE)
        /\ hand' = IF IsOpen(goal) THEN Idle ELSE [then |-> "finish", goal |-> goal]
        /\ UNCHANGED <<projects, active>> /\ Aside

\* Slip: a goal that is closed stays selected.
UpdateForgetful(key, status) ==
    /\ hand = Idle
    /\ Room(1)
    /\ Has(key)
    /\ SaveGoal([GoalAt(key) EXCEPT !.status = status], FALSE, FALSE)
    /\ UNCHANGED <<projects, active, hand>> /\ Aside

(* set_goal_status, and update_goal within the directory: the selection of *)
(* a goal that is closed is cleared in further transactions.               *)
Update(key, status) ==
    LET goal == [GoalAt(key) EXCEPT !.status = status]
    IN  /\ hand = Idle
        /\ Room(1)
        /\ Has(key)
        /\ SaveGoal(goal, FALSE, FALSE)
        /\ hand' = IF IsOpen(goal) THEN Idle ELSE [then |-> "finish", goal |-> goal]
        /\ UNCHANGED <<projects, active>> /\ Aside

(* edit_goal: title and description; the selection is left alone.          *)
Edit(key) ==
    /\ hand = Idle
    /\ Room(1)
    /\ Has(key)
    /\ SaveGoal(GoalAt(key), FALSE, TRUE)
    /\ UNCHANGED <<projects, active, hand>> /\ Aside

(* update_goal to another directory: not within a hierarchy; the selection *)
(* is cleared before the goal is saved.                                    *)
Move(key, path) ==
    /\ hand = Idle
    /\ Has(key)
    /\ GoalAt(key).path # path
    /\ GoalAt(key).parent = NoGoal /\ ChildrenOf(key) = {}
    /\ hand' = [then |-> "save",
                goal |-> [GoalAt(key) EXCEPT !.path = path,
                                             !.project = ProjectOf(path)]]
    /\ UNCHANGED <<goals, projects, active, identities>> /\ Aside

(* set_active_goal: an open task of the project, or none.                  *)
SetActive(p, key) ==
    /\ hand = Idle
    /\ Room(2)
    /\ p \in DOMAIN projects
    /\ \/ key = NoGoal
       \/ Has(key) /\ GoalAt(key).project = p /\ IsOpen(GoalAt(key))
    /\ SelectGoal(p, key)
    /\ UNCHANGED <<goals, projects, hand>> /\ Aside

Delete(key) ==
    /\ hand = Idle
    /\ Has(key) /\ ChildrenOf(key) = {}
    /\ hand' = [then |-> "delete", goal |-> GoalAt(key)]
    /\ UNCHANGED <<goals, projects, active, identities>> /\ Aside

(* clear_active: one transaction for each project that has it selected.    *)
ClearActive ==
    /\ hand # Idle
    /\ Room(1)
    /\ \E p \in DOMAIN projects :
        active[p] = hand.goal.key /\ SelectGoal(p, NoGoal)
    /\ UNCHANGED <<goals, projects, hand>> /\ Aside

Cleared == hand # Idle /\ \A p \in DOMAIN projects : active[p] # hand.goal.key

FinishCall ==
    /\ Cleared /\ hand.then = "finish"
    /\ hand' = Idle
    /\ interrupted' = interrupted \ {hand.goal.key}
    /\ UNCHANGED <<goals, projects, issued, active, identities>>

FinishMove ==
    /\ Cleared /\ hand.then = "save"
    /\ Room(1)
    /\ SaveGoal(hand.goal, FALSE, FALSE)
    /\ hand' = Idle
    /\ UNCHANGED <<projects, active>> /\ Aside

(* delete_goal_record: what is still selected ends before the identity.    *)
FinishDelete ==
    /\ Cleared /\ hand.then = "delete"
    /\ LET key == hand.goal.key
           selecting == {p \in ProjectIds : active[p] = key}
           ended == FoldSet(LAMBDA p, ids : Unselect(ids, p), identities, selecting)
       IN  /\ Room(1 + Cardinality(selecting))
           /\ identities' = Record(ended, hand.goal, "deleted", hand.goal.status)
           /\ active' = [p \in ProjectIds |-> IF active[p] = key THEN NoGoal ELSE active[p]]
           /\ goals' = [r \in DOMAIN goals \ {key} |-> goals[r]]
           /\ interrupted' = interrupted \ {key}
    /\ hand' = Idle
    /\ UNCHANGED <<projects, issued>>

(* The process ends and starts again: goals without a project are given    *)
(* the one of their directory, without an event, and goals without a live  *)
(* identity are observed (there are none: every goal was saved with one).  *)
Restart ==
    /\ interrupted' = IF hand = Idle THEN interrupted
                      ELSE interrupted \cup {hand.goal.key}
    /\ hand' = Idle
    /\ goals' = [r \in DOMAIN goals |->
                    IF goals[r].project # NoProject THEN goals[r]
                    ELSE [goals[r] EXCEPT !.project = ProjectOf(goals[r].path)]]
    /\ UNCHANGED <<projects, issued, active, identities>>

Next ==
    \/ \E root \in Roots : Register(root)
    \/ \E p \in ProjectIds : RemoveProject(p)
    \/ \E k \in Keys, path \in Paths, parent \in Keys \cup {NoGoal}, s \in Statuses :
            Create(k, path, parent, s)
    \/ \E k \in Keys, s \in Statuses : Update(k, s)
    \/ \E k \in Keys : Edit(k) \/ Delete(k)
    \/ \E k \in Keys, path \in Paths : Move(k, path)
    \/ \E p \in ProjectIds, k \in Keys \cup {NoGoal} : SetActive(p, k)
    \/ ClearActive \/ FinishCall \/ FinishMove \/ FinishDelete
    \/ Restart

Spec == Init /\ [][Next]_vars

-----------------------------------------------------------------------------
(* Every variable has its type.                                            *)
TypeOK ==
    /\ DOMAIN goals \subseteq Keys /\ \A r \in DOMAIN goals : goals[r] \in Goal
    /\ issued \in 0..MaxProjects
    /\ DOMAIN projects \subseteq 1..issued /\ \A p \in DOMAIN projects : projects[p] \in Roots
    /\ active \in [ProjectIds -> Keys \cup {NoGoal}]
    /\ \A i \in DOMAIN identities :
        /\ identities[i].key \in Keys /\ identities[i].live \in BOOLEAN
        /\ \A j \in DOMAIN identities[i].ancestors : identities[i].ancestors[j] \in 1..(i - 1)
    /\ \A i \in DOMAIN identities : \A n \in DOMAIN identities[i].log :
        identities[i].log[n].status \in Statuses
    /\ hand = Idle \/ (hand.then \in {"finish", "save", "delete"} /\ hand.goal \in Goal)
    /\ interrupted \subseteq Keys

(* A stored goal has one live identity and a live identity one goal; its   *)
(* ancestors are those of the parent's live identity and that identity, so *)
(* work recorded under a subtask rolls up to the tasks above it now and    *)
(* never to a task of the same name that was deleted (store/history.rs).   *)
OneLifePerGoal ==
    /\ \A g \in Stored : Cardinality(Instances(identities, g.key)) = 1
    /\ \A i \in DOMAIN identities : identities[i].live => Has(identities[i].key)
    /\ \A g \in Stored :
        identities[Instance(identities, g.key)].ancestors =
            IF g.parent = NoGoal THEN <<>>
            ELSE Append(identities[Instance(identities, g.parent)].ancestors,
                        Instance(identities, g.parent))

\* The last selection that began has not ended.
EndsSelected(log) ==
    \E n \in DOMAIN log :
        /\ log[n].kind = "selected"
        /\ \A m \in (n + 1)..Len(log) : log[m].kind # "unselected"

(* Replaying the events of a goal's identity gives the goal's status and   *)
(* whether it is selected, whatever call the process ended in: each event  *)
(* is written in the transaction of the change (store/history.rs).         *)
HistoryReplays ==
    \A g \in Stored :
        LET log == identities[Instance(identities, g.key)].log
        IN  /\ log # <<>> /\ Last(log).status = g.status
            /\ EndsSelected(log) <=> (\E p \in ProjectIds : active[p] = g.key)
            /\ \A n \in DOMAIN log :
                log[n].kind = "status-changed" => n > 1 /\ log[n].old = log[n - 1].status

(* Between calls, the active goal of a project is an open task, of that    *)
(* project or of none since its references were removed with another       *)
(* project; only a call that the end of the process cut short leaves it    *)
(* closed (set_active_goal, clear_active).                                 *)
ActiveGoalFits ==
    hand = Idle => \A p \in ProjectIds :
        active[p] = NoGoal \/
            /\ p \in DOMAIN projects
            /\ Has(active[p])
            /\ GoalAt(active[p]).project \in {p, NoProject}
            /\ IsOpen(GoalAt(active[p])) \/ active[p] \in interrupted

(* No goal refers to a project that was removed, and subtasks stay in the  *)
(* project of their parent whatever is removed or registered around them   *)
(* (store.rs remove_project, goals.rs write_goal).                         *)
DetachedFromRemoved ==
    \A g \in Stored :
        /\ g.project # NoProject => g.project \in DOMAIN projects
        /\ g.parent # NoGoal =>
            /\ Has(g.parent)
            /\ g.project = GoalAt(g.parent).project /\ g.path = GoalAt(g.parent).path
=============================================================================
