------------------------ MODULE GoalsAndStreams_proofs ------------------------
(***************************************************************************)
(* projd's goals agree with their history, for any ids, directories and    *)
(* statuses and any number of projects and events.  A goal's references    *)
(* are removed with a project under its bare id (RowOf): where dated and   *)
(* bare goals are mixed that overwrites other goals' rows, so the theorems *)
(* are about users who do not mix them (OneKind); the commands of today    *)
(* give no dates.                                                          *)
(*                                                                         *)
(* What the shell follows the system with, for every number of             *)
(* subscribers, faults and changes: a hub serves its subscribers through   *)
(* one connection, and a stream that follows a bus service shows what the  *)
(* service says (SharedSources).                                           *)
(***************************************************************************)
EXTENDS GoalHistory, SharedSources, TLAPS, FiniteSetTheorems, SequenceTheorems,
        NaturalsInduction, WellFoundedInduction

OneKind == NoDate \in Dates => Dates = {NoDate}

-----------------------------------------------------------------------------
(* The inductive invariant.                                                *)

Kinds == {"created", "status-changed", "updated", "selected", "unselected", "deleted"}
Event == [kind : Kinds, old : Statuses \cup {NoStatus}, status : Statuses]
Identity == [key : Keys, live : BOOLEAN, log : Seq(Event), ancestors : Seq(Nat)]

Types ==
    /\ DOMAIN goals \subseteq Keys /\ \A r \in DOMAIN goals : goals[r] \in Goal
    /\ issued \in 0..MaxProjects
    /\ DOMAIN projects \subseteq 1..issued /\ \A p \in DOMAIN projects : projects[p] \in Roots
    /\ active \in [ProjectIds -> Keys \cup {NoGoal}]
    /\ interrupted \subseteq Keys
    /\ hand = Idle \/ (hand.then \in {"finish", "save", "delete"} /\ hand.goal \in Goal)

\* A row has the goal of its key.
Keyed == \A r \in DOMAIN goals : goals[r].key = r

SelectedIn(act, key) == \E p \in ProjectIds : act[p] = key

Chained(log) ==
    \A n \in DOMAIN log :
        log[n].kind = "status-changed" => n > 1 /\ log[n].old = log[n - 1].status

LogFits(log, status) == log # <<>> /\ log[Len(log)].status = status /\ Chained(log)

\* The live identities are those of the stored goals, and their logs and
\* ancestors are as the goals gs and the selections act have them.
Lives(ids) ==
    \A i, j \in DOMAIN ids : ids[i].live /\ ids[j].live /\ ids[i].key = ids[j].key => i = j
Owned(ids, gs) == \A i \in DOMAIN ids : ids[i].live => ids[i].key \in DOMAIN gs
Covered(ids, gs) == \A k \in DOMAIN gs : \E i \in DOMAIN ids : ids[i].live /\ ids[i].key = k
Logged(ids, gs, act) ==
    \A i \in DOMAIN ids : ids[i].live =>
        /\ LogFits(ids[i].log, gs[ids[i].key].status)
        /\ EndsSelected(ids[i].log) <=> SelectedIn(act, ids[i].key)
Descends(ids, i, parent) ==
    IF parent = NoGoal THEN ids[i].ancestors = <<>>
    ELSE \E j \in DOMAIN ids : /\ ids[j].live /\ ids[j].key = parent
                               /\ ids[i].ancestors = Append(ids[j].ancestors, j)
Rolled(ids, gs) ==
    \A i \in DOMAIN ids : ids[i].live => Descends(ids, i, gs[ids[i].key].parent)
Older(ids) ==
    \A i \in DOMAIN ids : \A j \in DOMAIN ids[i].ancestors : ids[i].ancestors[j] \in 1..(i - 1)

Fits(ids, gs, act) ==
    /\ ids \in Seq(Identity) /\ Older(ids)
    /\ Lives(ids) /\ Owned(ids, gs) /\ Covered(ids, gs)
    /\ Logged(ids, gs, act) /\ Rolled(ids, gs)

\* An active goal is of the project, or of none and nowhere: no restart gives
\* it to another project.  No goal is active in two projects.
ActiveAt(p) ==
    /\ p \in DOMAIN projects /\ active[p] \in DOMAIN goals
    /\ \A q \in ProjectIds : active[q] = active[p] => q = p
    /\ \/ goals[active[p]].project = p
       \/ goals[active[p]].project = NoProject /\ goals[active[p]].path = Nowhere
    /\ \/ IsOpen(goals[active[p]])
       \/ active[p] \in interrupted
       \/ hand # Idle /\ hand.then = "finish" /\ hand.goal.key = active[p]

Actives == \A p \in ProjectIds : active[p] # NoGoal => ActiveAt(p)

\* The call in hand has the goal as it is stored, up to what it will save.
HandFits ==
    hand # Idle =>
        /\ hand.goal.key \in DOMAIN goals
        /\ hand.goal.status = goals[hand.goal.key].status
        /\ hand.goal.parent = goals[hand.goal.key].parent
        /\ hand.then = "finish" => hand.goal = goals[hand.goal.key]
        /\ hand.then # "finish" => \A r \in DOMAIN goals : goals[r].parent # hand.goal.key
        /\ hand.then = "save" => /\ hand.goal.parent = NoGoal
                                 /\ hand.goal.project \in DOMAIN projects \cup {NoProject}

\* A subtask is where its parent is, in a project that is registered.
Placed ==
    /\ \A r \in DOMAIN goals : goals[r].parent # NoGoal =>
        /\ goals[r].parent \in DOMAIN goals
        /\ goals[r].project = goals[goals[r].parent].project
        /\ goals[r].path = goals[goals[r].parent].path
    /\ Dates = {NoDate} =>
        \A r \in DOMAIN goals : goals[r].project \in DOMAIN projects \cup {NoProject}

IInv == /\ Types /\ Keyed /\ Fits(identities, goals, active)
        /\ Actives /\ HandFits /\ Placed

-----------------------------------------------------------------------------
(* Stored goals.                                                           *)

LEMMA NoGoalNoKey == NoGoal \notin Keys
<1> SUFFICES ASSUME NEW d \in Dates, NEW i \in Ids, <<>> = <<d, i>> PROVE FALSE
  BY DEF NoGoal, Keys
<1>1. Len(<<d, i>>) = 2
  OBVIOUS
<1> QED
  BY <1>1

LEMMA GoalFacts ==
    ASSUME Types, Keyed
    PROVE  /\ \A k : Has(k) <=> k \in DOMAIN goals
           /\ \A k \in DOMAIN goals : GoalAt(k) = goals[k]
           /\ ~Has(NoGoal)
           /\ \A k : ChildrenOf(k) = {} <=> \A r \in DOMAIN goals : goals[r].parent # k
<1>1. \A k : Has(k) <=> k \in DOMAIN goals
  BY DEF Keyed, Has, Stored
<1>2. ASSUME NEW k \in DOMAIN goals PROVE GoalAt(k) = goals[k]
  <2>1. goals[k] \in Stored /\ goals[k].key = k
    BY DEF Keyed, Stored
  <2>2. \A g \in Stored : g.key = k => g = goals[k]
    BY DEF Keyed, Stored
  <2> QED
    BY <2>1, <2>2 DEF GoalAt
<1>3. ~Has(NoGoal)
  BY <1>1, NoGoalNoKey DEF Types
<1>4. \A k : ChildrenOf(k) = {} <=> \A r \in DOMAIN goals : goals[r].parent # k
  BY DEF ChildrenOf, Stored
<1> QED
  BY <1>1, <1>2, <1>3, <1>4


-----------------------------------------------------------------------------
(* Logs.                                                                   *)

\* An event that tells what changes keeps a log in order.
LEMMA LogGrows ==
    ASSUME NEW log \in Seq(Event), NEW status, LogFits(log, status), NEW row \in Event,
           row.kind = "status-changed" => row.old = status
    PROVE  /\ Append(log, row) \in Seq(Event) /\ LogFits(Append(log, row), row.status)
           /\ row.kind = "selected" => EndsSelected(Append(log, row))
           /\ row.kind = "unselected" => ~EndsSelected(Append(log, row))
           /\ row.kind \notin {"selected", "unselected"} =>
                (EndsSelected(Append(log, row)) <=> EndsSelected(log))
<1> DEFINE new == Append(log, row)
<1>1. PICK n \in Nat : n = Len(log)
  BY LenProperties
<1>2. /\ new \in Seq(Event) /\ Len(new) = n + 1 /\ DOMAIN new = 1..(n + 1)
      /\ DOMAIN log = 1..n /\ new[n + 1] = row
      /\ \A i \in 1..n : new[i] = log[i]
  BY <1>1, AppendProperties, LenProperties
<1> HIDE DEF new
<1>3. n >= 1
  BY <1>1, EmptySeq DEF LogFits
<1>4. LogFits(new, row.status)
  <2>1. new # <<>>
    BY <1>2, <1>3
  <2>2. Chained(new)
    <3> SUFFICES ASSUME NEW m \in 1..(n + 1), new[m].kind = "status-changed"
                 PROVE  m > 1 /\ new[m].old = new[m - 1].status
      BY <1>2 DEF Chained
    <3>1. CASE m = n + 1
      <4>1. m - 1 = n /\ new[m - 1] = log[n]
        BY <1>2, <1>3, <3>1
      <4> QED
        BY <1>1, <1>2, <1>3, <3>1, <4>1 DEF LogFits
    <3>2. CASE m # n + 1
      <4>1. m \in DOMAIN log /\ new[m] = log[m]
        BY <1>2, <3>2
      <4>2. m > 1 /\ log[m].old = log[m - 1].status
        BY <4>1 DEF LogFits, Chained
      <4>3. m - 1 \in 1..n
        BY <1>2, <4>1, <4>2
      <4>4. new[m - 1] = log[m - 1]
        BY <1>2, <4>3
      <4> QED
        BY <4>1, <4>2, <4>4
    <3> QED
      BY <3>1, <3>2
  <2> QED
    BY <1>2, <2>1, <2>2 DEF LogFits
<1>5. row.kind = "selected" => EndsSelected(new)
  <2>1. (n + 1) + 1..Len(new) = {}
    BY <1>2
  <2> QED
    BY <1>2, <2>1 DEF EndsSelected
<1>6. row.kind = "unselected" => ~EndsSelected(new)
  <2> SUFFICES ASSUME row.kind = "unselected", NEW m \in 1..(n + 1), new[m].kind = "selected",
                      \A j \in (m + 1)..(n + 1) : new[j].kind # "unselected"
               PROVE  FALSE
    BY <1>2 DEF EndsSelected
  <2>1. m # n + 1
    BY <1>2
  <2>2. n + 1 \in (m + 1)..(n + 1)
    BY <2>1
  <2> QED
    BY <1>2, <2>2
<1>7. ASSUME row.kind \notin {"selected", "unselected"}
      PROVE  EndsSelected(new) <=> EndsSelected(log)
  <2>1. ASSUME NEW m \in 1..(n + 1), new[m].kind = "selected",
               \A j \in (m + 1)..(n + 1) : new[j].kind # "unselected"
        PROVE  EndsSelected(log)
    <3>1. m \in 1..n
      BY <1>2, <1>7, <2>1
    <3>2. \A j \in (m + 1)..n : log[j].kind # "unselected"
      BY <1>2, <2>1, <3>1
    <3>3. m \in DOMAIN log /\ log[m].kind = "selected"
      BY <1>2, <2>1, <3>1
    <3> QED
      BY <1>1, <3>2, <3>3 DEF EndsSelected
  <2>2. ASSUME NEW m \in 1..n, log[m].kind = "selected",
               \A j \in (m + 1)..n : log[j].kind # "unselected"
        PROVE  EndsSelected(new)
    <3>1. \A j \in (m + 1)..(n + 1) : new[j].kind # "unselected"
      BY <1>2, <1>7, <2>2
    <3>2. m \in DOMAIN new /\ new[m].kind = "selected"
      BY <1>2, <2>2
    <3> QED
      BY <1>2, <3>1, <3>2 DEF EndsSelected
  <2> QED
    BY <1>1, <1>2, <2>1, <2>2 DEF EndsSelected
<1> QED
  BY <1>2, <1>4, <1>5, <1>6, <1>7 DEF new

-----------------------------------------------------------------------------
(* Rows of history.                                                        *)

Row(what, old, status) == [kind |-> what, old |-> old, status |-> status]

LEMMA RowFacts ==
    ASSUME NEW what \in Kinds, NEW old \in Statuses \cup {NoStatus}, NEW status \in Statuses
    PROVE  /\ Row(what, old, status) \in Event
           /\ Row(what, old, status).kind = what /\ Row(what, old, status).old = old
           /\ Row(what, old, status).status = status
BY DEF Row, Event

\* A goal that has a live identity: that one gets the event.
LEMMA RecordFacts ==
    ASSUME NEW ids \in Seq(Identity), Lives(ids), Older(ids), NEW goal \in Goal,
           NEW what \in Kinds, NEW old \in Statuses \cup {NoStatus},
           NEW i \in DOMAIN ids, ids[i].live, ids[i].key = goal.key
    PROVE  /\ Record(ids, goal, what, old) \in Seq(Identity)
           /\ DOMAIN Record(ids, goal, what, old) = DOMAIN ids
           /\ \A j \in DOMAIN ids : j # i => Record(ids, goal, what, old)[j] = ids[j]
           /\ Record(ids, goal, what, old)[i].key = ids[i].key
           /\ what # "deleted" <=> Record(ids, goal, what, old)[i].live
           /\ Record(ids, goal, what, old)[i].ancestors = ids[i].ancestors
           /\ Record(ids, goal, what, old)[i].log
                = Append(ids[i].log, Row(what, old, goal.status))
           /\ Older(Record(ids, goal, what, old))
<1>1. Instances(ids, goal.key) = {i}
  BY DEF Instances, Lives
<1>2. Instance(ids, goal.key) = i /\ Instances(ids, goal.key) # {}
  BY <1>1 DEF Instance
<1> DEFINE row == Row(what, old, goal.status)
           new == [ids EXCEPT ![i].live = (what # "deleted"), ![i].log = Append(@, row)]
<1>3. Record(ids, goal, what, old) = new
  BY <1>2 DEF Record, Row
<1>4. row \in Event
  BY RowFacts DEF Goal
<1> HIDE DEF row
<1>5. /\ ids[i] \in Identity /\ Append(ids[i].log, row) \in Seq(Event)
  <2>1. ids[i] \in Identity
    BY ElementOfSeq
  <2> QED
    BY <1>4, <2>1, AppendProperties DEF Identity
<1>6. /\ DOMAIN new = DOMAIN ids
      /\ \A j \in DOMAIN ids : j # i => new[j] = ids[j]
      /\ new[i].key = ids[i].key /\ new[i].ancestors = ids[i].ancestors
      /\ new[i].live = (what # "deleted") /\ new[i].log = Append(ids[i].log, row)
      /\ new[i] \in Identity
  BY <1>5 DEF Identity
<1>7. new \in Seq(Identity)
  <2>1. new = [j \in DOMAIN ids |-> new[j]]
    OBVIOUS
  <2> HIDE DEF new
  <2>2. PICK n \in Nat : DOMAIN ids = 1..n
    BY LenProperties
  <2>3. \A j \in 1..n : new[j] \in Identity
    BY <1>6, <2>2, ElementOfSeq
  <2> QED
    BY <1>6, <2>1, <2>2, <2>3, SeqDef
<1> HIDE DEF new
<1>8. Older(new)
  BY <1>6 DEF Older
<1> QED
  BY <1>3, <1>6, <1>7, <1>8 DEF row

LEMMA EventAdded ==
    ASSUME NEW x \in Identity, NEW log \in Seq(Event)
    PROVE  /\ [x EXCEPT !.live = TRUE, !.log = log] \in Identity
           /\ [x EXCEPT !.live = TRUE, !.log = log].key = x.key
           /\ [x EXCEPT !.live = TRUE, !.log = log].ancestors = x.ancestors
           /\ [x EXCEPT !.live = TRUE, !.log = log].live = TRUE
           /\ [x EXCEPT !.live = TRUE, !.log = log].log = log
BY DEF Identity

\* A live identity of the goal is added, with that event.
Grown(rec, ids, n, goal, row) ==
    /\ DOMAIN ids = 1..n
    /\ rec \in Seq(Identity) /\ DOMAIN rec = 1..(n + 1)
    /\ \A j \in 1..n : rec[j] = ids[j]
    /\ rec[n + 1].key = goal.key /\ rec[n + 1].live
    /\ rec[n + 1].log = <<row>>
    /\ Descends(rec, n + 1, goal.parent)
    /\ Older(rec)

\* A goal that has none: a live identity is made, after those of the goals
\* above it.
LEMMA FreshFacts ==
    ASSUME NEW ids \in Seq(Identity), Lives(ids), Older(ids), NEW goal \in Goal,
           NEW what \in Kinds \ {"deleted"}, NEW old \in Statuses \cup {NoStatus},
           \A j \in DOMAIN ids : ids[j].live => ids[j].key # goal.key,
           goal.parent = NoGoal
            \/ \E j \in DOMAIN ids : ids[j].live /\ ids[j].key = goal.parent,
           NEW rec, rec = Record(ids, goal, what, old),
           NEW row, row = Row(what, old, goal.status)
    PROVE  \E n \in Nat : Grown(rec, ids, n, goal, row)
<1>1. Instances(ids, goal.key) = {}
  BY DEF Instances
<1> DEFINE first == NewIdentity(ids, goal)
           all == Append(ids, first)
           new == [all EXCEPT ![Len(all)].live = (what # "deleted"),
                              ![Len(all)].log = Append(@, row)]
<1>2. Record(ids, goal, what, old) = new
  BY <1>1 DEF Record, Row
<1>3. row \in Event
  BY RowFacts DEF Goal
<1>4. PICK n \in Nat : n = Len(ids)
  BY LenProperties
<1>5. /\ first.key = goal.key /\ first.live = TRUE /\ first.log = <<>>
      /\ first \in Identity
      /\ \A j \in DOMAIN first.ancestors : first.ancestors[j] \in 1..n
      /\ IF goal.parent = NoGoal THEN first.ancestors = <<>>
         ELSE \E j \in DOMAIN ids : /\ ids[j].live /\ ids[j].key = goal.parent
                                    /\ first.ancestors = Append(ids[j].ancestors, j)
  <2>1. CASE goal.parent = NoGoal
    <3>1. first = [key |-> goal.key, live |-> TRUE, log |-> <<>>, ancestors |-> <<>>]
      BY <2>1 DEF NewIdentity
    <3>2. <<>> \in Seq(Event) /\ <<>> \in Seq(Nat) /\ DOMAIN <<>> = {}
      BY EmptySeq
    <3> QED
      BY <2>1, <3>1, <3>2 DEF Identity, Goal
  <2>2. CASE goal.parent # NoGoal
    <3>1. PICK p \in DOMAIN ids : ids[p].live /\ ids[p].key = goal.parent
      BY <2>2
    <3>2. Instances(ids, goal.parent) = {p}
      BY <3>1 DEF Instances, Lives
    <3>3. Instance(ids, goal.parent) = p
      BY <3>2 DEF Instance
    <3>4. first = [key |-> goal.key, live |-> TRUE, log |-> <<>>,
                   ancestors |-> Append(ids[p].ancestors, p)]
      BY <2>2, <3>3 DEF NewIdentity
    <3>5. p \in 1..n /\ p \in Nat /\ ids[p].ancestors \in Seq(Nat)
      <4>1. ids[p] \in Identity /\ p \in 1..n
        BY <1>4, ElementOfSeq, LenProperties
      <4> QED
        BY <4>1 DEF Identity
    <3>6. PICK above : above = ids[p].ancestors
      OBVIOUS
    <3>7. PICK m \in Nat : m = Len(above)
      BY <3>5, <3>6, LenProperties
    <3>8. /\ Append(above, p) \in Seq(Nat) /\ DOMAIN Append(above, p) = 1..(m + 1)
          /\ DOMAIN above = 1..m
          /\ Append(above, p)[m + 1] = p
          /\ \A j \in 1..m : Append(above, p)[j] = above[j]
      BY <3>5, <3>6, <3>7, AppendProperties, LenProperties
    <3>9. \A j \in 1..m : above[j] \in 1..(p - 1)
      BY <3>1, <3>6, <3>8 DEF Older
    <3>10. \A j \in 1..(m + 1) : Append(above, p)[j] \in 1..n
      <4> SUFFICES ASSUME NEW j \in 1..(m + 1) PROVE Append(above, p)[j] \in 1..n
        OBVIOUS
      <4>1. CASE j = m + 1
        BY <3>5, <3>8, <4>1
      <4>2. CASE j # m + 1
        <5>1. j \in 1..m
          BY <3>7, <4>2
        <5>2. PICK a \in 1..(p - 1) : a = Append(above, p)[j]
          BY <3>8, <3>9, <5>1
        <5>3. a \in 1..n
          BY <3>5
        <5> QED
          BY <5>2, <5>3
      <4> QED
        BY <4>1, <4>2
    <3>11. <<>> \in Seq(Event)
      BY EmptySeq
    <3>12. first.ancestors = Append(above, p) /\ first \in Identity
      BY <3>4, <3>6, <3>8, <3>11 DEF Identity, Goal
    <3>13. \A j \in DOMAIN first.ancestors : first.ancestors[j] \in 1..n
      BY <3>8, <3>10, <3>12
    <3>14. \E j \in DOMAIN ids : /\ ids[j].live /\ ids[j].key = goal.parent
                                 /\ first.ancestors = Append(ids[j].ancestors, j)
      BY <3>1, <3>4
    <3>15. first.key = goal.key /\ first.live = TRUE /\ first.log = <<>>
      BY <3>4
    <3> QED
      BY <2>2, <3>12, <3>13, <3>14, <3>15
  <2> QED
    BY <2>1, <2>2
<1> HIDE DEF first
<1>6. /\ all \in Seq(Identity) /\ Len(all) = n + 1 /\ DOMAIN all = 1..(n + 1)
      /\ DOMAIN ids = 1..n /\ all[n + 1] = first /\ \A j \in 1..n : all[j] = ids[j]
  BY <1>4, <1>5, AppendProperties, LenProperties
<1> HIDE DEF all
<1>7. Append(first.log, row) = <<row>> /\ <<row>> \in Seq(Event)
  BY <1>3, <1>5
<1>8. new = [all EXCEPT ![n + 1].live = TRUE, ![n + 1].log = Append(@, row)]
  BY <1>6
<1>9. /\ DOMAIN new = 1..(n + 1)
      /\ \A j \in 1..n : new[j] = ids[j]
      /\ new[n + 1].key = goal.key /\ new[n + 1].ancestors = first.ancestors
      /\ new[n + 1].live = TRUE /\ new[n + 1].log = <<row>>
      /\ new[n + 1] \in Identity
  <2>1. n + 1 \in 1..(n + 1) /\ \A j \in 1..n : j \in 1..(n + 1) /\ j # n + 1
    OBVIOUS
  <2>2. DOMAIN new = 1..(n + 1) /\ \A j \in 1..n : new[j] = all[j]
    BY <1>6, <1>8, <2>1
  <2>3. new[n + 1] = [first EXCEPT !.live = TRUE, !.log = Append(@, row)]
    BY <1>6, <1>8, <2>1
  <2>4. PICK one : one = <<row>>
    OBVIOUS
  <2>5. new[n + 1] = [first EXCEPT !.live = TRUE, !.log = one]
    BY <1>7, <2>3, <2>4
  <2>6. /\ new[n + 1].key = goal.key /\ new[n + 1].ancestors = first.ancestors
        /\ new[n + 1].live = TRUE /\ new[n + 1].log = one /\ new[n + 1] \in Identity
    <3>1. first \in Identity /\ first.key = goal.key /\ one \in Seq(Event)
      BY <1>5, <1>7, <2>4
    <3> HIDE DEF new
    <3>2. PICK last : last = new[n + 1]
      OBVIOUS
    <3>3. last = [first EXCEPT !.live = TRUE, !.log = one]
      BY <2>5, <3>2
    <3>4. /\ last \in Identity /\ last.key = first.key /\ last.ancestors = first.ancestors
          /\ last.live = TRUE /\ last.log = one
      BY <3>1, <3>3, EventAdded
    <3> QED
      BY <3>1, <3>2, <3>4
  <2> QED
    BY <1>6, <2>2, <2>4, <2>6
<1> HIDE DEF new
<1>10. new \in Seq(Identity)
  <2>1. new = [j \in 1..(n + 1) |-> new[j]]
    BY <1>6, <1>9 DEF new
  <2>2. \A j \in 1..n : new[j] \in Identity
    BY <1>6, <1>9, ElementOfSeq
  <2>3. \A j \in 1..(n + 1) : j \in 1..n \/ j = n + 1
    OBVIOUS
  <2>4. \A j \in 1..(n + 1) : new[j] \in Identity
    BY <1>9, <2>2, <2>3
  <2> QED
    BY <2>1, <2>4, SeqDef
<1>11. Descends(new, n + 1, goal.parent)
  <2>1. \A j \in DOMAIN ids : j \in DOMAIN new /\ new[j] = ids[j]
    BY <1>6, <1>9
  <2> QED
    BY <1>5, <1>9, <2>1 DEF Descends
<1>12. Older(new)
  <2> SUFFICES ASSUME NEW i \in 1..(n + 1), NEW j \in DOMAIN new[i].ancestors
               PROVE  new[i].ancestors[j] \in 1..(i - 1)
    BY <1>9 DEF Older
  <2>1. CASE i = n + 1
    BY <1>5, <1>9, <2>1
  <2>2. CASE i # n + 1
    BY <1>6, <1>9, <2>2 DEF Older
  <2> QED
    BY <2>1, <2>2
<1> QED
  BY <1>2, <1>6, <1>9, <1>10, <1>11, <1>12 DEF Grown

-----------------------------------------------------------------------------
(* Transactions: the goals, the selections and the history change alike.   *)

\* An event of a goal that stays.
LEMMA RecordFits ==
    ASSUME NEW ids, NEW gs, NEW act, Fits(ids, gs, act),
           NEW goal \in Goal, goal.key \in DOMAIN gs, goal.parent = gs[goal.key].parent,
           NEW what \in Kinds \ {"deleted"}, NEW old \in Statuses \cup {NoStatus},
           what = "status-changed" => old = gs[goal.key].status,
           NEW gs2, DOMAIN gs2 = DOMAIN gs, gs2[goal.key] = goal,
           \A k \in DOMAIN gs : k # goal.key => gs2[k] = gs[k],
           NEW act2, \A k \in DOMAIN gs :
                k # goal.key => (SelectedIn(act, k) <=> SelectedIn(act2, k)),
           what = "selected" => SelectedIn(act2, goal.key),
           what = "unselected" => ~SelectedIn(act2, goal.key),
           what \notin {"selected", "unselected"} =>
                (SelectedIn(act, goal.key) <=> SelectedIn(act2, goal.key))
    PROVE  Fits(Record(ids, goal, what, old), gs2, act2)
<1>1. /\ ids \in Seq(Identity) /\ Older(ids) /\ Lives(ids)
      /\ \A i \in DOMAIN ids : ids[i].live => ids[i].key \in DOMAIN gs
      /\ \A k \in DOMAIN gs : \E i \in DOMAIN ids : ids[i].live /\ ids[i].key = k
  BY DEF Fits, Owned, Covered
<1>2. PICK i \in DOMAIN ids : ids[i].live /\ ids[i].key = goal.key
  BY <1>1
<1>3. PICK row : row = Row(what, old, goal.status)
  OBVIOUS
<1>4. row \in Event /\ row.kind = what /\ row.old = old /\ row.status = goal.status
  BY <1>3, RowFacts DEF Goal
<1>5. PICK new : new = Record(ids, goal, what, old)
  OBVIOUS
<1>6. /\ new \in Seq(Identity) /\ DOMAIN new = DOMAIN ids
      /\ \A j \in DOMAIN ids : j # i => new[j] = ids[j]
      /\ new[i].key = goal.key /\ new[i].ancestors = ids[i].ancestors
      /\ new[i].log = Append(ids[i].log, row) /\ Older(new)
  BY <1>1, <1>2, <1>3, <1>5, RecordFacts
<1>7. new[i].live
  BY <1>1, <1>2, <1>5, RecordFacts
<1>8. \A j \in DOMAIN ids : /\ new[j].live <=> ids[j].live
                            /\ new[j].key = ids[j].key
                            /\ new[j].ancestors = ids[j].ancestors
  BY <1>2, <1>6, <1>7
<1>9. Lives(new) /\ Owned(new, gs2) /\ Covered(new, gs2)
  <2>1. DOMAIN new = DOMAIN ids
    BY <1>6
  <2>2. Lives(new)
    BY <1>1, <1>8, <2>1 DEF Lives
  <2>3. Owned(new, gs2)
    BY <1>1, <1>8, <2>1 DEF Owned
  <2>4. Covered(new, gs2)
    BY <1>1, <1>8, <2>1 DEF Covered
  <2> QED
    BY <2>2, <2>3, <2>4
<1>10. \A k \in DOMAIN gs : gs2[k].parent = gs[k].parent
  OBVIOUS
<1>11. Rolled(new, gs2)
  <2> SUFFICES ASSUME NEW j \in DOMAIN new, new[j].live
               PROVE  Descends(new, j, gs2[new[j].key].parent)
    BY DEF Rolled
  <2>1. j \in DOMAIN ids /\ ids[j].live /\ ids[j].key \in DOMAIN gs
    BY <1>1, <1>6, <1>8
  <2>2. Descends(ids, j, gs[ids[j].key].parent)
    BY <2>1 DEF Fits, Rolled
  <2>3. gs2[new[j].key].parent = gs[ids[j].key].parent
    BY <1>8, <1>10, <2>1
  <2>4. PICK parent : parent = gs[ids[j].key].parent
    OBVIOUS
  <2>5. Descends(ids, j, parent) => Descends(new, j, parent)
    BY <1>6, <1>8, <2>1 DEF Descends
  <2> QED
    BY <2>2, <2>3, <2>4, <2>5
<1>12. Logged(new, gs2, act2)
  <2> SUFFICES ASSUME NEW j \in DOMAIN new, new[j].live
               PROVE  /\ LogFits(new[j].log, gs2[new[j].key].status)
                      /\ EndsSelected(new[j].log) <=> SelectedIn(act2, new[j].key)
    BY DEF Logged
  <2>1. j \in DOMAIN ids /\ ids[j].live /\ ids[j].key \in DOMAIN gs
    BY <1>1, <1>6, <1>8
  <2>2. /\ LogFits(ids[j].log, gs[ids[j].key].status)
        /\ EndsSelected(ids[j].log) <=> SelectedIn(act, ids[j].key)
    BY <2>1 DEF Fits, Logged
  <2>3. CASE j = i
    <3>1. PICK log \in Seq(Event) : log = ids[i].log
      <4>1. ids[i] \in Identity
        BY <1>1, ElementOfSeq
      <4> QED
        BY <4>1 DEF Identity
    <3>2. PICK status : status = gs[goal.key].status
      OBVIOUS
    <3>3. LogFits(log, status) /\ (EndsSelected(log) <=> SelectedIn(act, goal.key))
      BY <1>2, <2>2, <2>3, <3>1, <3>2
    <3>4. row.kind = "status-changed" => row.old = status
      BY <1>4, <3>2
    <3>5. /\ LogFits(Append(log, row), row.status)
          /\ what = "selected" => EndsSelected(Append(log, row))
          /\ what = "unselected" => ~EndsSelected(Append(log, row))
          /\ what \notin {"selected", "unselected"} =>
                (EndsSelected(Append(log, row)) <=> EndsSelected(log))
      BY <1>4, <3>3, <3>4, LogGrows
    <3>6. EndsSelected(Append(log, row)) <=> SelectedIn(act2, goal.key)
      BY <3>3, <3>5
    <3>7. new[j].log = Append(log, row) /\ new[j].key = goal.key
      BY <1>6, <2>3, <3>1
    <3> QED
      BY <1>4, <3>5, <3>6, <3>7
  <2>4. CASE j # i
    <3>1. new[j] = ids[j] /\ ids[j].key # goal.key
      BY <1>1, <1>2, <1>6, <2>1, <2>4 DEF Lives
    <3>2. gs2[ids[j].key] = gs[ids[j].key]
      BY <2>1, <3>1
    <3>3. SelectedIn(act, ids[j].key) <=> SelectedIn(act2, ids[j].key)
      BY <2>1, <3>1
    <3> QED
      BY <2>2, <3>1, <3>2, <3>3
  <2> QED
    BY <2>3, <2>4
<1> QED
  BY <1>5, <1>6, <1>9, <1>11, <1>12 DEF Fits

\* The goals change in what no history has.
LEMMA SameFits ==
    ASSUME NEW ids, NEW gs, NEW act, Fits(ids, gs, act),
           NEW gs2, DOMAIN gs2 = DOMAIN gs,
           \A k \in DOMAIN gs : gs2[k].status = gs[k].status /\ gs2[k].parent = gs[k].parent
    PROVE  Fits(ids, gs2, act)
<1>1. \A i \in DOMAIN ids : ids[i].live => ids[i].key \in DOMAIN gs
  BY DEF Fits, Owned
<1>2. Rolled(ids, gs2)
  <2> SUFFICES ASSUME NEW i \in DOMAIN ids, ids[i].live
               PROVE  Descends(ids, i, gs2[ids[i].key].parent)
    BY DEF Rolled
  <2>1. gs2[ids[i].key].parent = gs[ids[i].key].parent
    BY <1>1
  <2> QED
    BY <2>1 DEF Fits, Rolled
<1>3. Logged(ids, gs2, act)
  <2> SUFFICES ASSUME NEW i \in DOMAIN ids, ids[i].live
               PROVE  /\ LogFits(ids[i].log, gs2[ids[i].key].status)
                      /\ EndsSelected(ids[i].log) <=> SelectedIn(act, ids[i].key)
    BY DEF Logged
  <2>1. gs2[ids[i].key].status = gs[ids[i].key].status
    BY <1>1
  <2> QED
    BY <2>1 DEF Fits, Logged
<1>4. Owned(ids, gs2) /\ Covered(ids, gs2)
  BY DEF Fits, Owned, Covered
<1> QED
  BY <1>2, <1>3, <1>4 DEF Fits

\* A goal is created.
LEMMA CreateFits ==
    ASSUME NEW ids, NEW gs, NEW act, Fits(ids, gs, act),
           NEW goal \in Goal, goal.key \notin DOMAIN gs, ~SelectedIn(act, goal.key),
           goal.parent = NoGoal \/ goal.parent \in DOMAIN gs,
           NEW gs2, DOMAIN gs2 = DOMAIN gs \cup {goal.key}, gs2[goal.key] = goal,
           \A k \in DOMAIN gs : gs2[k] = gs[k]
    PROVE  Fits(Record(ids, goal, "created", NoStatus), gs2, act)
<1>1. /\ ids \in Seq(Identity) /\ Older(ids) /\ Lives(ids)
      /\ \A i \in DOMAIN ids : ids[i].live => ids[i].key \in DOMAIN gs
      /\ \A k \in DOMAIN gs : \E i \in DOMAIN ids : ids[i].live /\ ids[i].key = k
  BY DEF Fits, Owned, Covered
<1>2. PICK row : row = Row("created", NoStatus, goal.status)
  OBVIOUS
<1>3. "created" \in Kinds \ {"deleted"}
  BY DEF Kinds
<1>4. row \in Event /\ row.kind = "created" /\ row.status = goal.status
  BY <1>2, <1>3, RowFacts DEF Goal
<1>5. PICK new : new = Record(ids, goal, "created", NoStatus)
  OBVIOUS
<1>6. PICK n \in Nat :
           /\ DOMAIN ids = 1..n
           /\ new \in Seq(Identity) /\ DOMAIN new = 1..(n + 1)
           /\ \A j \in 1..n : new[j] = ids[j]
           /\ new[n + 1].key = goal.key /\ new[n + 1].live
           /\ new[n + 1].log = <<row>>
           /\ Descends(new, n + 1, goal.parent)
           /\ Older(new)
  <2>1. \A j \in DOMAIN ids : ids[j].live => ids[j].key # goal.key
    BY <1>1
  <2>2. \/ goal.parent = NoGoal
        \/ \E j \in DOMAIN ids : ids[j].live /\ ids[j].key = goal.parent
    BY <1>1
  <2>3. PICK what \in Kinds \ {"deleted"} : what = "created"
    BY <1>3
  <2>4. PICK old \in Statuses \cup {NoStatus} : old = NoStatus
    OBVIOUS
  <2>5. new = Record(ids, goal, what, old) /\ row = Row(what, old, goal.status)
    BY <1>2, <1>5, <2>3, <2>4
  <2>6. /\ ids \in Seq(Identity) /\ Older(ids) /\ Lives(ids)
    BY <1>1
  <2>7. \E n \in Nat : Grown(new, ids, n, goal, row)
    BY <2>1, <2>2, <2>5, <2>6, FreshFacts
  <2> QED
    BY <2>7 DEF Grown
<1>7. \A j \in 1..(n + 1) : j \in 1..n \/ j = n + 1
  OBVIOUS
<1>8. \A j \in 1..n : j \in 1..(n + 1)
  OBVIOUS
<1>9. n + 1 \in 1..(n + 1)
  OBVIOUS
<1>10. Lives(new)
  <2>1. \A j \in 1..n : new[j].live => new[j].key # goal.key
    BY <1>1, <1>6
  <2>2. \A j, m \in 1..n : new[j].live /\ new[m].live /\ new[j].key = new[m].key => j = m
    BY <1>1, <1>6 DEF Lives
  <2> QED
    BY <1>6, <1>7, <2>1, <2>2 DEF Lives
<1>11. Owned(new, gs2)
  BY <1>1, <1>6, <1>7 DEF Owned
<1>12. Covered(new, gs2)
  <2> SUFFICES ASSUME NEW k \in DOMAIN gs2
               PROVE  \E i \in DOMAIN new : new[i].live /\ new[i].key = k
    BY DEF Covered
  <2>1. CASE k = goal.key
    BY <1>6, <1>9, <2>1
  <2>2. CASE k \in DOMAIN gs
    BY <1>1, <1>6, <1>8, <2>2
  <2> QED
    BY <2>1, <2>2
<1>13. Rolled(new, gs2)
  <2> SUFFICES ASSUME NEW j \in 1..(n + 1), new[j].live
               PROVE  Descends(new, j, gs2[new[j].key].parent)
    BY <1>6 DEF Rolled
  <2>1. CASE j = n + 1
    BY <1>6, <2>1
  <2>2. CASE j \in 1..n
    <3>1. ids[j].live /\ new[j] = ids[j] /\ ids[j].key \in DOMAIN gs
      BY <1>1, <1>6, <2>2
    <3>2. Descends(ids, j, gs[ids[j].key].parent)
      BY <1>6, <2>2, <3>1 DEF Fits, Rolled
    <3>3. PICK parent : parent = gs[ids[j].key].parent
      OBVIOUS
    <3>4. \A m \in DOMAIN ids : m \in DOMAIN new /\ new[m] = ids[m]
      BY <1>6, <1>8
    <3>5. Descends(ids, j, parent) => Descends(new, j, parent)
      BY <3>1, <3>4 DEF Descends
    <3>6. gs2[new[j].key].parent = parent
      BY <3>1, <3>3
    <3> QED
      BY <3>2, <3>3, <3>5, <3>6
  <2> QED
    BY <1>7, <2>1, <2>2
<1>14. Logged(new, gs2, act)
  <2> SUFFICES ASSUME NEW j \in 1..(n + 1), new[j].live
               PROVE  /\ LogFits(new[j].log, gs2[new[j].key].status)
                      /\ EndsSelected(new[j].log) <=> SelectedIn(act, new[j].key)
    BY <1>6 DEF Logged
  <2>1. CASE j = n + 1
    <3>1. PICK log : log = <<row>>
      OBVIOUS
    <3>2. /\ log # <<>> /\ Len(log) = 1 /\ DOMAIN log = {1}
          /\ log[1].kind = "created" /\ log[1].status = goal.status
      BY <1>4, <3>1
    <3>3. LogFits(log, goal.status) /\ ~EndsSelected(log)
      BY <3>2 DEF LogFits, Chained, EndsSelected
    <3>4. new[j].log = log /\ new[j].key = goal.key
      BY <1>6, <2>1, <3>1
    <3> QED
      BY <3>3, <3>4
  <2>2. CASE j \in 1..n
    <3>1. ids[j].live /\ new[j] = ids[j] /\ ids[j].key \in DOMAIN gs
      BY <1>1, <1>6, <2>2
    <3> QED
      BY <1>6, <2>2, <3>1 DEF Fits, Logged
  <2> QED
    BY <1>7, <2>1, <2>2
<1> QED
  BY <1>5, <1>6, <1>10, <1>11, <1>12, <1>13, <1>14 DEF Fits

\* A goal without subtasks is deleted.
LEMMA DeleteFits ==
    ASSUME NEW ids, NEW gs, NEW act, Fits(ids, gs, act),
           NEW goal \in Goal, goal.key \in DOMAIN gs,
           \A k \in DOMAIN gs : gs[k].parent # goal.key, goal.key # NoGoal,
           NEW gs2, DOMAIN gs2 = DOMAIN gs \ {goal.key},
           \A k \in DOMAIN gs2 : gs2[k] = gs[k],
           NEW act2, \A k \in DOMAIN gs2 : SelectedIn(act, k) <=> SelectedIn(act2, k)
    PROVE  Fits(Record(ids, goal, "deleted", goal.status), gs2, act2)
<1>1. /\ ids \in Seq(Identity) /\ Older(ids) /\ Lives(ids)
      /\ \A i \in DOMAIN ids : ids[i].live => ids[i].key \in DOMAIN gs
      /\ \A k \in DOMAIN gs : \E i \in DOMAIN ids : ids[i].live /\ ids[i].key = k
  BY DEF Fits, Owned, Covered
<1>2. PICK i \in DOMAIN ids : ids[i].live /\ ids[i].key = goal.key
  BY <1>1
<1>3. PICK new : new = Record(ids, goal, "deleted", goal.status)
  OBVIOUS
<1>4. "deleted" \in Kinds /\ goal.status \in Statuses \cup {NoStatus}
  BY DEF Kinds, Goal
<1>5. /\ new \in Seq(Identity) /\ DOMAIN new = DOMAIN ids
      /\ \A j \in DOMAIN ids : j # i => new[j] = ids[j]
      /\ new[i].key = goal.key /\ Older(new)
  BY <1>1, <1>2, <1>3, <1>4, RecordFacts
<1>6. ~new[i].live
  BY <1>1, <1>2, <1>3, <1>4, RecordFacts
<1>7. \A j \in DOMAIN ids : new[j].live =>
        /\ j # i /\ new[j] = ids[j] /\ ids[j].live /\ ids[j].key \in DOMAIN gs2
  BY <1>1, <1>2, <1>5, <1>6 DEF Lives
<1>8. Lives(new) /\ Owned(new, gs2)
  BY <1>1, <1>5, <1>7 DEF Lives, Owned
<1>9. Covered(new, gs2)
  <2> SUFFICES ASSUME NEW k \in DOMAIN gs2
               PROVE  \E j \in DOMAIN new : new[j].live /\ new[j].key = k
    BY DEF Covered
  <2>1. PICK j \in DOMAIN ids : ids[j].live /\ ids[j].key = k
    BY <1>1
  <2> QED
    BY <1>2, <1>5, <2>1
<1>10. Rolled(new, gs2)
  <2> SUFFICES ASSUME NEW j \in DOMAIN new, new[j].live
               PROVE  Descends(new, j, gs2[new[j].key].parent)
    BY DEF Rolled
  <2>1. /\ j \in DOMAIN ids /\ new[j] = ids[j] /\ ids[j].live
        /\ ids[j].key \in DOMAIN gs2
    BY <1>5, <1>7
  <2>2. Descends(ids, j, gs[ids[j].key].parent)
    BY <2>1 DEF Fits, Rolled
  <2>3. PICK parent : parent = gs[ids[j].key].parent
    OBVIOUS
  <2>4. parent # goal.key /\ gs2[ids[j].key].parent = parent
    BY <2>1, <2>3
  <2>5. Descends(ids, j, parent) => Descends(new, j, parent)
    BY <1>2, <1>5, <2>1, <2>4 DEF Descends
  <2> QED
    BY <2>1, <2>2, <2>3, <2>4, <2>5
<1>11. Logged(new, gs2, act2)
  BY <1>5, <1>7 DEF Fits, Logged
<1> QED
  BY <1>3, <1>5, <1>8, <1>9, <1>10, <1>11 DEF Fits

-----------------------------------------------------------------------------
(* The transactions of the calls.                                          *)

LEMMA UnselectFits ==
    ASSUME IInv, NEW p \in ProjectIds
    PROVE  Fits(Unselect(identities, p), goals, [active EXCEPT ![p] = NoGoal])
<1>1. Types /\ Keyed /\ Fits(identities, goals, active)
  BY DEF IInv
<1>2. PICK key : key = active[p]
  OBVIOUS
<1>3. PICK act : act = [active EXCEPT ![p] = NoGoal]
  OBVIOUS
<1>4. act[p] = NoGoal /\ \A q \in ProjectIds : q # p => act[q] = active[q]
  BY <1>1, <1>3 DEF Types
<1>5. \A k : k # NoGoal /\ k # key => (SelectedIn(active, k) <=> SelectedIn(act, k))
  BY <1>2, <1>4 DEF SelectedIn
<1>6. \A k \in DOMAIN goals : k # NoGoal
  BY <1>1, NoGoalNoKey DEF Types
<1>7. CASE key \in DOMAIN goals
  <2>1. PICK goal : goal = goals[key]
    OBVIOUS
  <2>2. goal \in Goal /\ goal.key = key
    BY <1>1, <1>7, <2>1 DEF Types, Keyed
  <2>3. Unselect(identities, p) = Record(identities, goal, "unselected", goal.status)
    BY <1>1, <1>2, <1>7, <2>1, GoalFacts DEF Unselect
  <2>4. ~SelectedIn(act, key)
    <3>1. key # NoGoal
      BY <1>6, <1>7
    <3>2. \A q \in ProjectIds : active[q] = key => q = p
      BY <1>2, <3>1 DEF IInv, Actives, ActiveAt
    <3> QED
      BY <1>4, <3>1, <3>2 DEF SelectedIn
  <2>5. PICK what \in Kinds \ {"deleted"} : what = "unselected"
    BY DEF Kinds
  <2>6. goal.status \in Statuses \cup {NoStatus}
    BY <2>2 DEF Goal
  <2>7. \A k \in DOMAIN goals : k # key => (SelectedIn(active, k) <=> SelectedIn(act, k))
    BY <1>5, <1>6
  <2>8. Fits(Record(identities, goal, what, goal.status), goals, act)
    BY <1>1, <1>7, <2>1, <2>2, <2>4, <2>5, <2>6, <2>7, RecordFits
  <2> QED
    BY <1>3, <2>3, <2>5, <2>8
<1>8. CASE key \notin DOMAIN goals
  <2>1. Unselect(identities, p) = identities
    BY <1>1, <1>2, <1>8, GoalFacts DEF Unselect
  <2>2. \A k \in DOMAIN goals : SelectedIn(active, k) <=> SelectedIn(act, k)
    BY <1>5, <1>6, <1>8
  <2>3. Logged(identities, goals, act)
    BY <1>1, <2>2 DEF Fits, Logged, Owned
  <2> QED
    BY <1>1, <1>3, <2>1, <2>3 DEF Fits
<1> QED
  BY <1>7, <1>8

LEMMA SelectFits ==
    ASSUME IInv, NEW p \in ProjectIds, NEW key \in Keys \cup {NoGoal}, SelectGoal(p, key),
           key # NoGoal => /\ key \in DOMAIN goals
                           /\ \A q \in ProjectIds : active[q] = key => q = p
    PROVE  /\ Fits(identities', goals, active') /\ active' \in [ProjectIds -> Keys \cup {NoGoal}]
           /\ active'[p] = key /\ \A q \in ProjectIds : q # p => active'[q] = active[q]
<1>1. Types /\ Keyed /\ Fits(identities, goals, active)
  BY DEF IInv
<1>2. CASE active[p] = key
  BY <1>1, <1>2 DEF SelectGoal, Types
<1>3. CASE active[p] # key
  <2>1. PICK ended : ended = Unselect(identities, p)
    OBVIOUS
  <2>2. PICK act : act = [active EXCEPT ![p] = NoGoal]
    OBVIOUS
  <2>3. Fits(ended, goals, act)
    BY <2>1, <2>2, UnselectFits
  <2>4. active' = [active EXCEPT ![p] = key]
    BY <1>3 DEF SelectGoal
  <2>5. /\ active' \in [ProjectIds -> Keys \cup {NoGoal}]
        /\ active'[p] = key /\ \A q \in ProjectIds : q # p => active'[q] = active[q]
    BY <1>1, <2>4 DEF Types
  <2>6. CASE key = NoGoal
    <3>1. identities' = ended /\ active' = act
      BY <1>1, <1>3, <2>1, <2>2, <2>4, <2>6, GoalFacts DEF SelectGoal
    <3> QED
      BY <2>3, <2>5, <3>1
  <2>7. CASE key # NoGoal
    <3>1. PICK goal : goal = goals[key]
      OBVIOUS
    <3>2. goal \in Goal /\ goal.key = key /\ key \in DOMAIN goals
      BY <1>1, <2>7, <3>1 DEF Types, Keyed
    <3>3. identities' = Record(ended, goal, "selected", goal.status)
      BY <1>1, <1>3, <2>1, <3>1, <3>2, GoalFacts DEF SelectGoal
    <3>4. PICK act2 : act2 = active'
      OBVIOUS
    <3>5. act \in [ProjectIds -> Keys \cup {NoGoal}] /\ act[p] = NoGoal
          /\ \A q \in ProjectIds : q # p => act[q] = active[q]
      BY <1>1, <2>2 DEF Types
    <3>6. act2[p] = key /\ \A q \in ProjectIds : q # p => act2[q] = active[q]
      BY <2>5, <3>4
    <3>7. \A k \in DOMAIN goals : k # NoGoal
      BY <1>1, NoGoalNoKey DEF Types
    <3>8. \A k \in DOMAIN goals : k # key => (SelectedIn(act, k) <=> SelectedIn(act2, k))
      BY <3>5, <3>6, <3>7 DEF SelectedIn
    <3>9. SelectedIn(act2, key)
      BY <3>6 DEF SelectedIn
    <3>10. PICK what \in Kinds \ {"deleted"} : what = "selected"
      BY DEF Kinds
    <3>11. goal.status \in Statuses \cup {NoStatus}
      BY <3>2 DEF Goal
    <3>12. Fits(Record(ended, goal, what, goal.status), goals, act2)
      BY <2>3, <3>1, <3>2, <3>8, <3>9, <3>10, <3>11, RecordFits
    <3> QED
      BY <2>5, <3>3, <3>4, <3>10, <3>12
  <2> QED
    BY <2>6, <2>7
<1> QED
  BY <1>2, <1>3

\* A stored goal is saved.
LEMMA SaveFits ==
    ASSUME IInv, NEW goal \in Goal, goal.key \in DOMAIN goals,
           goal.parent = goals[goal.key].parent,
           SaveGoal(goal, FALSE, FALSE) \/ SaveGoal(goal, FALSE, TRUE)
    PROVE  /\ Fits(identities', goals', active)
           /\ DOMAIN goals' = DOMAIN goals /\ goals'[goal.key] = goal
           /\ \A k \in DOMAIN goals : k # goal.key => goals'[k] = goals[k]
<1>1. Types /\ Keyed /\ Fits(identities, goals, active)
  BY DEF IInv
<1>2. PICK old : old = goals[goal.key]
  OBVIOUS
<1>3. GoalAt(goal.key) = old /\ old \in Goal
  BY <1>1, <1>2, GoalFacts DEF Types
<1>4. CASE UNCHANGED <<goals, identities>> /\ old = goal
  BY <1>1, <1>2, <1>4
<1>5. CASE /\ goals' = [k \in DOMAIN goals \cup {goal.key} |->
                            IF k = goal.key THEN goal ELSE goals[k]]
           /\ \/ /\ old.status # goal.status
                 /\ identities' = Record(identities, goal, "status-changed", old.status)
              \/ identities' = Record(identities, goal, "updated", old.status)
  <2>1. PICK gs : gs = goals'
    OBVIOUS
  <2>2. /\ DOMAIN gs = DOMAIN goals /\ gs[goal.key] = goal
        /\ \A k \in DOMAIN goals : k # goal.key => gs[k] = goals[k]
    BY <1>5, <2>1
  <2>3. PICK what \in Kinds \ {"deleted"} :
            /\ what \in {"status-changed", "updated"}
            /\ identities' = Record(identities, goal, what, old.status)
    <3>1. "status-changed" \in Kinds \ {"deleted"} /\ "updated" \in Kinds \ {"deleted"}
      BY DEF Kinds
    <3> QED
      BY <1>5, <3>1
  <2>4. PICK status \in Statuses \cup {NoStatus} : status = old.status
    BY <1>3 DEF Goal
  <2>5. Fits(Record(identities, goal, what, status), gs, active)
    BY <1>1, <1>2, <2>2, <2>3, <2>4, RecordFits
  <2> QED
    BY <2>1, <2>2, <2>3, <2>4, <2>5
<1>6. CASE SaveGoal(goal, FALSE, FALSE)
  <2>1. CASE old = goal
    BY <1>3, <1>4, <1>6, <2>1 DEF SaveGoal
  <2>2. CASE old # goal
    BY <1>3, <1>5, <1>6, <2>2 DEF SaveGoal
  <2> QED
    BY <2>1, <2>2
<1>7. CASE SaveGoal(goal, FALSE, TRUE)
  BY <1>3, <1>5, <1>7 DEF SaveGoal
<1> QED
  BY <1>6, <1>7

LEMMA LeastNat ==
    ASSUME NEW T \in SUBSET Nat, T # {}
    PROVE  \E m \in T : \A n \in T : m <= n
<1>1. PICK m \in T : \A n \in T : ~(<<n, m>> \in OpToRel(<, Nat))
  BY NatLessThanWellFounded, WFMin
<1>2. ASSUME NEW n \in T PROVE m <= n
  <2>1. ~(<<n, m>> \in OpToRel(<, Nat))
    BY <1>1, Zenon
  <2>2. n \in Nat /\ m \in Nat
    OBVIOUS
  <2>3. n < m => <<n, m>> \in OpToRel(<, Nat)
    BY <2>2, Zenon DEF OpToRel
  <2>4. ~(n < m)
    BY <2>1, <2>3, Zenon
  <2> QED
    BY <2>2, <2>4
<1> QED
  BY <1>2

\* A finite set has a member of the greatest measure.
LEMMA GreatestExists ==
    ASSUME NEW S, IsFiniteSet(S), S # {}, NEW f, \A x \in S : f[x] \in Nat
    PROVE  \E x \in S : \A y \in S : f[y] <= f[x]
<1> DEFINE Has1(T) == \E x \in T : \A y \in T : f[y] <= f[x]
           Sizes == {n \in Nat : \E T \in SUBSET S : T # {} /\ Cardinality(T) = n /\ ~Has1(T)}
<1> SUFFICES ASSUME ~Has1(S) PROVE FALSE
  OBVIOUS
<1> HIDE DEF Has1
<1>1. Cardinality(S) \in Sizes
  <2>1. Cardinality(S) \in Nat
    BY FS_CardinalityType
  <2> QED
    BY <2>1
<1>2. PICK n \in Sizes : \A m \in Sizes : n <= m
  <2>1. Sizes \in SUBSET Nat /\ Sizes # {}
    BY <1>1
  <2> HIDE DEF Sizes
  <2> QED
    BY <2>1, LeastNat
<1>3. PICK T \in SUBSET S : T # {} /\ Cardinality(T) = n /\ ~Has1(T)
  BY <1>2
<1>4. PICK x : x \in T
  BY <1>3
<1>5. IsFiniteSet(T)
  BY FS_Subset
<1>6. PICK U : U = T \ {x}
  OBVIOUS
<1>7. IsFiniteSet(U) /\ Cardinality(U) = n - 1 /\ U \in SUBSET S
  BY <1>3, <1>4, <1>5, <1>6, FS_RemoveElement
<1>8. n - 1 \in Nat /\ n \in Nat
  BY <1>2, <1>7, FS_CardinalityType
<1>9. CASE U = {}
  <2>1. T = {x} /\ f[x] \in Nat
    BY <1>3, <1>4, <1>6, <1>9
  <2> QED
    BY <1>3, <2>1 DEF Has1
<1>10. CASE U # {}
  <2>1. n - 1 \notin Sizes
    BY <1>2, <1>8
  <2>2. Has1(U)
    BY <1>7, <1>8, <1>10, <2>1
  <2>3. PICK y \in U : \A z \in U : f[z] <= f[y]
    BY <2>2 DEF Has1
  <2>4. PICK a \in Nat : a = f[x]
    BY <1>4
  <2>5. PICK b \in Nat : b = f[y]
    BY <1>7
  <2>6. CASE a <= b
    <3>1. \A z \in T : f[z] <= f[y]
      BY <1>6, <2>3, <2>4, <2>5, <2>6
    <3> QED
      BY <1>3, <1>6, <3>1 DEF Has1
  <2>7. CASE b <= a
    <3>1. ASSUME NEW z \in T PROVE f[z] <= f[x]
      <4>1. CASE z = x
        BY <2>4, <4>1
      <4>2. CASE z # x
        <5>1. PICK c \in Nat : c = f[z]
          OBVIOUS
        <5>2. c <= b
          BY <1>6, <2>3, <2>5, <4>2, <5>1
        <5> QED
          BY <2>4, <2>7, <5>1, <5>2
      <4> QED
        BY <4>1, <4>2
    <3> QED
      BY <1>3, <1>4, <3>1 DEF Has1
  <2> QED
    BY <2>6, <2>7
<1> QED
  BY <1>9, <1>10

\* The project of a directory is one that is registered, or none.
LEMMA ProjectOfFacts ==
    ASSUME Types
    PROVE  /\ \A path \in Paths : ProjectOf(path) \in DOMAIN projects \cup {NoProject}
           /\ ProjectOf(Nowhere) = NoProject
<1>1. ProjectOf(Nowhere) = NoProject
  BY DEF ProjectOf
<1>2. ASSUME NEW path \in Paths PROVE ProjectOf(path) \in DOMAIN projects \cup {NoProject}
  <2> DEFINE holding == {p \in DOMAIN projects : path # Nowhere /\ IsPrefix(projects[p], path)}
             longest(p) == \A q \in holding : Len(projects[q]) <= Len(projects[p])
  <2>1. ProjectOf(path) = IF holding = {} THEN NoProject
                          ELSE CHOOSE p \in holding : longest(p)
    BY DEF ProjectOf
  <2>2. holding # {} => \E p \in holding : longest(p)
    <3>1. \A p \in holding : Len(projects[p]) \in Nat
      BY KeysAssumption DEF Types
    <3>2. IsFiniteSet(holding)
      <4>1. IsFiniteSet(1..MaxProjects)
        BY KeysAssumption, FS_Interval
      <4>2. holding \subseteq 1..MaxProjects
        BY KeysAssumption DEF Types
      <4> QED
        BY <4>1, <4>2, FS_Subset
    <3> HIDE DEF holding
    <3> DEFINE f == [p \in holding |-> Len(projects[p])]
    <3>3. \A p \in holding : f[p] = Len(projects[p])
      OBVIOUS
    <3> HIDE DEF f
    <3>4. \A p \in holding : f[p] \in Nat
      BY <3>1, <3>3
    <3>5. holding # {} => \E p \in holding : \A q \in holding : f[q] <= f[p]
      BY <3>2, <3>4, GreatestExists
    <3> QED
      BY <3>3, <3>5
  <2>3. holding # {} => (CHOOSE p \in holding : longest(p)) \in holding
    BY <2>2
  <2>4. holding \subseteq DOMAIN projects
    OBVIOUS
  <2> QED
    BY <2>1, <2>3, <2>4
<1> QED
  BY <1>1, <1>2

-----------------------------------------------------------------------------
(* The calls.                                                              *)

LEMMA RegisterStep ==
    ASSUME IInv, NEW root \in Roots, Register(root)
    PROVE  IInv'
<1>1. /\ hand = Idle /\ issued < MaxProjects /\ issued' = issued + 1
      /\ projects' = [p \in DOMAIN projects \cup {issued'} |->
                        IF p = issued' THEN root ELSE projects[p]]
      /\ UNCHANGED <<goals, active, identities, hand, interrupted>>
  BY DEF Register
<1>2. DOMAIN projects \subseteq DOMAIN projects'
  BY <1>1
<1>3. Types'
  BY <1>1, KeysAssumption DEF IInv, Types
<1>4. Keyed' /\ Fits(identities, goals, active)'
  BY <1>1 DEF IInv, Keyed
<1>5. Actives'
  BY <1>1, <1>2 DEF IInv, Actives, ActiveAt, IsOpen
<1>6. HandFits'
  BY <1>1 DEF HandFits, Idle
<1>7. Placed'
  BY <1>1, <1>2 DEF IInv, Placed
<1> QED
  BY <1>3, <1>4, <1>5, <1>6, <1>7 DEF IInv

\* What the references to a project become with it.
LEMMA RemovedFacts ==
    ASSUME OneKind, IInv, NEW p \in ProjectIds, RemoveProject(p)
    PROVE  /\ DOMAIN goals' = DOMAIN goals
           /\ \A r \in DOMAIN goals : goals'[r] =
                IF Dates = {NoDate} /\ RefersTo(goals[r], p) THEN Detached(goals[r])
                ELSE goals[r]
<1> DEFINE written(r) == {g \in Stored : RefersTo(g, p) /\ RowOf(g) = r}
<1>1. PICK last \in Dates :
        goals' = [r \in DOMAIN goals |->
                CASE written(r) = {} -> goals[r]
                  [] \E g \in written(r) : g.key[1] = last ->
                        Detached(CHOOSE g \in written(r) : g.key[1] = last)
                  [] OTHER -> Detached(CHOOSE g \in written(r) : TRUE)]
  BY DEF RemoveProject
<1>2. Types /\ Keyed
  BY DEF IInv
<1>3. \A g \in Stored : g.key \in Keys /\ g = goals[g.key] /\ g.key \in DOMAIN goals
  BY <1>2 DEF Stored, Types, Keyed
<1>4. CASE Dates = {NoDate}
  <2> SUFFICES ASSUME NEW r \in DOMAIN goals
               PROVE  goals'[r] = IF RefersTo(goals[r], p) THEN Detached(goals[r])
                                  ELSE goals[r]
    BY <1>1, <1>4
  <2>1. \A k \in Keys : k = <<NoDate, k[2]>> /\ k[1] = NoDate
    BY <1>4 DEF Keys
  <2>2. \A g \in Stored : RowOf(g) = g.key
    BY <1>3, <2>1 DEF RowOf
  <2>3. goals[r] \in Stored /\ goals[r].key = r
    BY <1>2 DEF Stored, Keyed
  <2>4. written(r) = {g \in {goals[r]} : RefersTo(g, p)}
    BY <1>3, <2>2, <2>3
  <2>5. last = NoDate /\ \A g \in Stored : g.key[1] = last
    BY <1>3, <1>4, <2>1
  <2>6. CASE RefersTo(goals[r], p)
    <3>1. written(r) = {goals[r]}
      BY <2>4, <2>6
    <3> HIDE DEF written
    <3>2. goals[r].key[1] = last
      BY <2>3, <2>5
    <3>3. goals'[r] = Detached(CHOOSE g \in written(r) : g.key[1] = last)
      BY <1>1, <3>1, <3>2
    <3>4. (CHOOSE g \in written(r) : g.key[1] = last) = goals[r]
      BY <3>1, <3>2
    <3> QED
      BY <2>6, <3>3, <3>4
  <2>7. CASE ~RefersTo(goals[r], p)
    <3>1. written(r) = {}
      BY <2>4, <2>7
    <3> HIDE DEF written
    <3> QED
      BY <1>1, <2>7, <3>1
  <2> QED
    BY <2>6, <2>7
<1>5. CASE NoDate \notin Dates
  <2>1. \A r \in DOMAIN goals : written(r) = {}
    BY <1>2, <1>5 DEF RowOf, Types, Keys
  <2> HIDE DEF written
  <2>2. \A r \in DOMAIN goals : goals'[r] = goals[r]
    BY <1>1, <2>1
  <2> QED
    BY <1>1, <1>5, <2>2
<1> QED
  BY <1>4, <1>5 DEF OneKind

LEMMA RemoveProjectStep ==
    ASSUME OneKind, IInv, NEW p \in ProjectIds, RemoveProject(p)
    PROVE  IInv'
<1>1. /\ hand = Idle /\ p \in DOMAIN projects
      /\ identities' = Unselect(identities, p)
      /\ projects' = [q \in DOMAIN projects \ {p} |-> projects[q]]
      /\ active' = [active EXCEPT ![p] = NoGoal]
      /\ UNCHANGED <<hand, issued, interrupted>>
  BY DEF RemoveProject, Aside
<1>2. Types /\ Keyed /\ Placed
  BY DEF IInv
<1>3. /\ DOMAIN goals' = DOMAIN goals
      /\ \A r \in DOMAIN goals : goals'[r] =
            IF Dates = {NoDate} /\ RefersTo(goals[r], p) THEN Detached(goals[r])
            ELSE goals[r]
  BY RemovedFacts
<1>4. \A r \in DOMAIN goals :
        /\ Detached(goals[r]) \in Goal /\ Detached(goals[r]).key = goals[r].key
        /\ Detached(goals[r]).status = goals[r].status
        /\ Detached(goals[r]).parent = goals[r].parent
        /\ Detached(goals[r]).path = Nowhere /\ Detached(goals[r]).project = NoProject
  <2>1. 0 \in 0..MaxProjects
    BY KeysAssumption
  <2> QED
    BY <1>2, <2>1 DEF Detached, Goal, Types, NoProject, Paths
<1>5. \A r \in DOMAIN goals :
        /\ goals'[r] \in Goal /\ goals'[r].key = goals[r].key
        /\ goals'[r].status = goals[r].status
        /\ goals'[r].parent = goals[r].parent
        /\ \/ goals'[r] = goals[r]
           \/ goals'[r].path = Nowhere /\ goals'[r].project = NoProject
  BY <1>2, <1>3, <1>4 DEF Types
<1>6. /\ active' \in [ProjectIds -> Keys \cup {NoGoal}] /\ active'[p] = NoGoal
      /\ \A q \in ProjectIds : q # p => active'[q] = active[q]
  BY <1>1, <1>2 DEF Types
<1>7. Types'
  BY <1>1, <1>2, <1>3, <1>5, <1>6 DEF Types
<1>8. Keyed'
  BY <1>2, <1>3, <1>5 DEF Keyed
<1>9. Fits(identities, goals, active)'
  <2>1. PICK ids : ids = identities'
    OBVIOUS
  <2>2. PICK act : act = active'
    OBVIOUS
  <2>3. PICK gs : gs = goals'
    OBVIOUS
  <2>4. Fits(ids, goals, act)
    BY <1>1, <2>1, <2>2, UnselectFits
  <2>5. Fits(ids, gs, act)
    BY <1>3, <1>5, <2>3, <2>4, SameFits
  <2> QED
    BY <2>1, <2>2, <2>3, <2>5
<1>10. Actives'
  <2> SUFFICES ASSUME NEW q \in ProjectIds, active'[q] # NoGoal PROVE ActiveAt(q)'
    BY DEF Actives
  <2>1. q # p /\ active'[q] = active[q]
    BY <1>6
  <2>2. PICK k : k = active[q]
    OBVIOUS
  <2>3. /\ q \in DOMAIN projects /\ k \in DOMAIN goals
        /\ \A o \in ProjectIds : active[o] = k => o = q
        /\ \/ goals[k].project = q
           \/ goals[k].project = NoProject /\ goals[k].path = Nowhere
        /\ IsOpen(goals[k]) \/ k \in interrupted
    BY <1>1, <2>1, <2>2 DEF IInv, Actives, ActiveAt
  <2>4. \A o \in ProjectIds : active'[o] = k => o = q
    BY <1>6, <2>1, <2>2, <2>3
  <2>5. IsOpen(goals'[k]) \/ k \in interrupted
    BY <1>5, <2>3 DEF IsOpen
  <2>6. \/ goals'[k].project = q
        \/ goals'[k].project = NoProject /\ goals'[k].path = Nowhere
    BY <1>5, <2>3
  <2> QED
    BY <1>1, <1>3, <2>1, <2>2, <2>3, <2>4, <2>5, <2>6 DEF ActiveAt, IsOpen
<1>11. HandFits'
  BY <1>1 DEF HandFits, Idle
<1>12. Placed'
  <2>1. ASSUME NEW r \in DOMAIN goals, goals[r].parent # NoGoal
        PROVE  /\ goals[r].parent \in DOMAIN goals'
               /\ goals'[r].project = goals'[goals[r].parent].project
               /\ goals'[r].path = goals'[goals[r].parent].path
    <3>1. PICK k : k = goals[r].parent
      OBVIOUS
    <3>2. k \in DOMAIN goals /\ goals[r].project = goals[k].project
          /\ goals[r].path = goals[k].path
      BY <1>2, <2>1, <3>1 DEF Placed
    <3>3. RefersTo(goals[r], p) <=> RefersTo(goals[k], p)
      BY <3>2 DEF RefersTo
    <3>4. CASE Dates = {NoDate} /\ RefersTo(goals[r], p)
      <4>1. goals'[r] = Detached(goals[r]) /\ goals'[k] = Detached(goals[k])
        BY <1>3, <3>2, <3>3, <3>4
      <4> QED
        BY <1>3, <1>4, <3>1, <3>2, <4>1
    <3>5. CASE ~(Dates = {NoDate} /\ RefersTo(goals[r], p))
      <4>1. goals'[r] = goals[r] /\ goals'[k] = goals[k]
        BY <1>3, <3>2, <3>3, <3>5
      <4> QED
        BY <1>3, <3>1, <3>2, <4>1
    <3> QED
      BY <3>4, <3>5
  <2>2. ASSUME Dates = {NoDate}, NEW r \in DOMAIN goals
        PROVE  goals'[r].project \in DOMAIN projects' \cup {NoProject}
    <3>1. CASE RefersTo(goals[r], p)
      BY <1>3, <1>4, <2>2, <3>1
    <3>2. CASE ~RefersTo(goals[r], p)
      <4>1. goals'[r] = goals[r] /\ goals[r].project # p
        BY <1>3, <2>2, <3>2 DEF RefersTo
      <4>2. goals[r].project \in DOMAIN projects \cup {NoProject}
        BY <1>2, <2>2 DEF Placed
      <4> QED
        BY <1>1, <4>1, <4>2
    <3> QED
      BY <3>1, <3>2
  <2>3. \A r \in DOMAIN goals : goals'[r].parent = goals[r].parent
    BY <1>5
  <2> QED
    BY <1>3, <2>1, <2>2, <2>3 DEF Placed
<1> QED
  BY <1>7, <1>8, <1>9, <1>10, <1>11, <1>12 DEF IInv

LEMMA CreateStep ==
    ASSUME IInv, NEW key \in Keys, NEW path \in Paths, NEW parent \in Keys \cup {NoGoal},
           NEW status \in Statuses, Create(key, path, parent, status)
    PROVE  IInv'
<1>1. Types /\ Keyed /\ Placed /\ Fits(identities, goals, active)
  BY DEF IInv
<1>2. PICK goal : goal = [key |-> key, path |-> path, project |-> ProjectOf(path),
                          parent |-> parent, status |-> status]
  OBVIOUS
<1>3. /\ hand = Idle /\ key \notin DOMAIN goals
      /\ \/ parent = NoGoal
         \/ /\ parent \in DOMAIN goals
            /\ goals[parent].path = path /\ goals[parent].project = goal.project
      /\ SaveGoal(goal, TRUE, FALSE)
      /\ hand' = IF IsOpen(goal) THEN Idle ELSE [then |-> "finish", goal |-> goal]
      /\ UNCHANGED <<projects, active, issued, interrupted>>
  <2>1. /\ hand = Idle /\ ~Has(key)
        /\ \/ parent = NoGoal
           \/ /\ Has(parent) /\ GoalAt(parent).path = path
              /\ GoalAt(parent).project = goal.project
        /\ SaveGoal(goal, TRUE, FALSE)
        /\ hand' = IF IsOpen(goal) THEN Idle ELSE [then |-> "finish", goal |-> goal]
        /\ UNCHANGED <<projects, active, issued, interrupted>>
    BY <1>2 DEF Create, Aside
  <2>2. \A k : Has(k) <=> k \in DOMAIN goals
    BY <1>1, GoalFacts
  <2>3. parent \in DOMAIN goals => GoalAt(parent) = goals[parent]
    BY <1>1, GoalFacts
  <2> QED
    BY <2>1, <2>2, <2>3
<1>4. /\ goal \in Goal /\ goal.key = key /\ goal.parent = parent /\ goal.path = path
      /\ goal.project \in DOMAIN projects \cup {NoProject}
  <2>1. ProjectOf(path) \in DOMAIN projects \cup {NoProject}
    BY <1>1, ProjectOfFacts
  <2>2. DOMAIN projects \cup {NoProject} \subseteq 0..MaxProjects
    BY <1>1, KeysAssumption DEF Types, NoProject
  <2> QED
    BY <1>2, <2>1, <2>2 DEF Goal
<1>5. /\ goals' = [k \in DOMAIN goals \cup {key} |-> IF k = key THEN goal ELSE goals[k]]
      /\ identities' = Record(identities, goal, "created", NoStatus)
  BY <1>3, <1>4 DEF SaveGoal
<1>6. /\ DOMAIN goals' = DOMAIN goals \cup {key} /\ goals'[key] = goal
      /\ \A k \in DOMAIN goals : k # key /\ goals'[k] = goals[k]
  BY <1>3, <1>5
<1>7. ~SelectedIn(active, key)
  <2>1. key # NoGoal
    BY NoGoalNoKey
  <2> QED
    BY <1>3, <2>1 DEF IInv, Actives, ActiveAt, SelectedIn
<1>8. Types'
  BY <1>1, <1>3, <1>4, <1>6 DEF Types
<1>9. Keyed'
  BY <1>1, <1>4, <1>6 DEF Keyed
<1>10. Fits(identities, goals, active)'
  <2>1. PICK gs : gs = goals'
    OBVIOUS
  <2>2. DOMAIN gs = DOMAIN goals \cup {goal.key} /\ gs[goal.key] = goal
        /\ \A k \in DOMAIN goals : gs[k] = goals[k]
    BY <1>4, <1>6, <2>1
  <2>3. /\ goal.key \notin DOMAIN goals /\ ~SelectedIn(active, goal.key)
        /\ goal.parent = NoGoal \/ goal.parent \in DOMAIN goals
    BY <1>3, <1>4, <1>7
  <2>4. Fits(Record(identities, goal, "created", NoStatus), gs, active)
    BY <1>1, <1>4, <2>2, <2>3, CreateFits
  <2> QED
    BY <1>3, <1>5, <2>1, <2>4
<1>11. Actives'
  BY <1>3, <1>6 DEF IInv, Actives, ActiveAt, IsOpen
<1>12. HandFits'
  <2>1. CASE IsOpen(goal)
    BY <1>3, <2>1 DEF HandFits, Idle
  <2>2. CASE ~IsOpen(goal)
    <3>1. hand'.then = "finish" /\ hand'.goal = goal
      BY <1>3, <2>2
    <3> QED
      BY <1>4, <1>6, <3>1 DEF HandFits
  <2> QED
    BY <2>1, <2>2
<1>13. Placed'
  <2>1. \A r \in DOMAIN goals' : r = key \/ (r \in DOMAIN goals /\ goals'[r] = goals[r])
    BY <1>6
  <2>2. \A r \in DOMAIN goals : r \in DOMAIN goals'
    BY <1>6
  <2>3. ASSUME NEW r \in DOMAIN goals', goals'[r].parent # NoGoal
        PROVE  /\ goals'[r].parent \in DOMAIN goals'
               /\ goals'[r].project = goals'[goals'[r].parent].project
               /\ goals'[r].path = goals'[goals'[r].parent].path
    <3>1. CASE r = key
      BY <1>3, <1>4, <1>6, <2>3, <3>1
    <3>2. CASE r \in DOMAIN goals /\ goals'[r] = goals[r]
      BY <1>1, <1>6, <2>3, <3>2 DEF Placed
    <3> QED
      BY <2>1, <3>1, <3>2
  <2>4. ASSUME Dates = {NoDate}, NEW r \in DOMAIN goals'
        PROVE  goals'[r].project \in DOMAIN projects' \cup {NoProject}
    BY <1>1, <1>3, <1>4, <1>6, <2>1, <2>4 DEF Placed
  <2> QED
    BY <2>3, <2>4 DEF Placed
<1> QED
  BY <1>8, <1>9, <1>10, <1>11, <1>12, <1>13 DEF IInv

LEMMA UpdateStep ==
    ASSUME IInv, NEW key \in Keys, NEW status \in Statuses, Update(key, status)
    PROVE  IInv'
<1>1. Types /\ Keyed /\ Placed /\ Fits(identities, goals, active)
  BY DEF IInv
<1>2. PICK goal : goal = [GoalAt(key) EXCEPT !.status = status]
  OBVIOUS
<1>3. /\ hand = Idle /\ Has(key) /\ SaveGoal(goal, FALSE, FALSE)
      /\ hand' = IF IsOpen(goal) THEN Idle ELSE [then |-> "finish", goal |-> goal]
      /\ UNCHANGED <<projects, active, issued, interrupted>>
  BY <1>2 DEF Update, Aside
<1>4. key \in DOMAIN goals /\ GoalAt(key) = goals[key]
  BY <1>1, <1>3, GoalFacts
<1>5. goals[key] \in Goal /\ goals[key].key = key
  BY <1>1, <1>4 DEF Types, Keyed
<1>6. /\ goal \in Goal /\ goal.key = key /\ goal.parent = goals[key].parent
      /\ goal.path = goals[key].path /\ goal.project = goals[key].project
  BY <1>2, <1>4, <1>5 DEF Goal
<1>7. /\ Fits(identities', goals', active)
      /\ DOMAIN goals' = DOMAIN goals /\ goals'[key] = goal
      /\ \A k \in DOMAIN goals : k # key => goals'[k] = goals[k]
  BY <1>3, <1>4, <1>6, SaveFits
<1>8. Types'
  BY <1>1, <1>3, <1>6, <1>7 DEF Types
<1>9. Keyed'
  BY <1>1, <1>6, <1>7 DEF Keyed
<1>10. Fits(identities, goals, active)'
  BY <1>3, <1>7
<1>11. Actives'
  <2> SUFFICES ASSUME NEW q \in ProjectIds, active'[q] # NoGoal PROVE ActiveAt(q)'
    BY DEF Actives
  <2>1. ActiveAt(q) /\ active'[q] = active[q] /\ hand = Idle
    BY <1>3 DEF IInv, Actives
  <2>2. CASE active[q] # key
    BY <1>3, <1>7, <2>1, <2>2 DEF ActiveAt, IsOpen
  <2>3. CASE active[q] = key
    <3>1. \/ goal.project = q
          \/ goal.project = NoProject /\ goal.path = Nowhere
      BY <1>6, <2>1, <2>3 DEF ActiveAt
    <3>2. \/ IsOpen(goal)
          \/ hand' # Idle /\ hand'.then = "finish" /\ hand'.goal.key = key
      <4>1. CASE ~IsOpen(goal)
        <5>1. hand'.then = "finish" /\ hand'.goal = goal
          BY <1>3, <4>1
        <5> QED
          BY <1>6, <5>1 DEF Idle
      <4> QED
        BY <4>1
    <3>3. /\ q \in DOMAIN projects' /\ key \in DOMAIN goals'
          /\ \A o \in ProjectIds : active'[o] = key => o = q
      BY <1>3, <1>4, <1>7, <2>1, <2>3 DEF ActiveAt
    <3> QED
      BY <1>7, <2>1, <2>3, <3>1, <3>2, <3>3 DEF ActiveAt, IsOpen
  <2> QED
    BY <2>2, <2>3
<1>12. HandFits'
  <2>1. CASE IsOpen(goal)
    BY <1>3, <2>1 DEF HandFits, Idle
  <2>2. CASE ~IsOpen(goal)
    <3>1. hand'.then = "finish" /\ hand'.goal = goal
      BY <1>3, <2>2
    <3> QED
      BY <1>4, <1>6, <1>7, <3>1 DEF HandFits
  <2> QED
    BY <2>1, <2>2
<1>13. Placed'
  <2>1. \A r \in DOMAIN goals : /\ goals'[r].parent = goals[r].parent
                                /\ goals'[r].project = goals[r].project
                                /\ goals'[r].path = goals[r].path
    BY <1>6, <1>7
  <2> QED
    BY <1>1, <1>3, <1>7, <2>1 DEF Placed
<1> QED
  BY <1>8, <1>9, <1>10, <1>11, <1>12, <1>13 DEF IInv

LEMMA EditStep ==
    ASSUME IInv, NEW key \in Keys, Edit(key)
    PROVE  IInv'
<1>1. Types /\ Keyed /\ Placed /\ Fits(identities, goals, active)
  BY DEF IInv
<1>2. /\ hand = Idle /\ Has(key) /\ SaveGoal(GoalAt(key), FALSE, TRUE)
      /\ UNCHANGED <<projects, active, hand, issued, interrupted>>
  BY DEF Edit, Aside
<1>3. key \in DOMAIN goals /\ GoalAt(key) = goals[key]
  BY <1>1, <1>2, GoalFacts
<1>4. PICK goal : goal = goals[key]
  OBVIOUS
<1>5. goal \in Goal /\ goal.key = key
  BY <1>1, <1>3, <1>4 DEF Types, Keyed
<1>6. /\ Fits(identities', goals', active)
      /\ DOMAIN goals' = DOMAIN goals /\ goals'[key] = goal
      /\ \A k \in DOMAIN goals : k # key => goals'[k] = goals[k]
  BY <1>2, <1>3, <1>4, <1>5, SaveFits
<1>7. \A k \in DOMAIN goals : goals'[k] = goals[k]
  BY <1>4, <1>6
<1>8. Types' /\ Keyed'
  BY <1>1, <1>2, <1>6, <1>7 DEF Types, Keyed
<1>9. Fits(identities, goals, active)'
  BY <1>2, <1>6
<1>10. Actives'
  BY <1>2, <1>6, <1>7 DEF IInv, Actives, ActiveAt, IsOpen
<1>11. HandFits'
  BY <1>2 DEF HandFits, Idle
<1>12. Placed'
  BY <1>1, <1>2, <1>6, <1>7 DEF Placed
<1> QED
  BY <1>8, <1>9, <1>10, <1>11, <1>12 DEF IInv

LEMMA MoveStep ==
    ASSUME IInv, NEW key \in Keys, NEW path \in Paths, Move(key, path)
    PROVE  IInv'
<1>1. Types /\ Keyed /\ Placed /\ Fits(identities, goals, active)
  BY DEF IInv
<1>2. PICK goal : goal = [GoalAt(key) EXCEPT !.path = path, !.project = ProjectOf(path)]
  OBVIOUS
<1>3. /\ hand = Idle /\ Has(key) /\ GoalAt(key).parent = NoGoal /\ ChildrenOf(key) = {}
      /\ hand' = [then |-> "save", goal |-> goal]
      /\ UNCHANGED <<goals, projects, active, identities, issued, interrupted>>
  BY <1>2 DEF Move, Aside
<1>4. /\ key \in DOMAIN goals /\ GoalAt(key) = goals[key]
      /\ \A r \in DOMAIN goals : goals[r].parent # key
  BY <1>1, <1>3, GoalFacts
<1>5. goals[key] \in Goal /\ goals[key].key = key
  BY <1>1, <1>4 DEF Types, Keyed
<1>6. PICK p \in DOMAIN projects \cup {NoProject} : p = ProjectOf(path)
  BY <1>1, ProjectOfFacts
<1>7. p \in 0..MaxProjects
  BY <1>1, KeysAssumption DEF Types, NoProject
<1>8. /\ goal \in Goal /\ goal.key = key /\ goal.parent = goals[key].parent
      /\ goal.status = goals[key].status /\ goal.project = p
  BY <1>2, <1>4, <1>5, <1>6, <1>7 DEF Goal
<1>9. hand'.then = "save" /\ hand'.goal = goal
  BY <1>3
<1>10. Types'
  BY <1>1, <1>3, <1>8, <1>9 DEF Types
<1>11. HandFits'
  BY <1>3, <1>4, <1>8, <1>9 DEF HandFits
<1>12. Actives'
  BY <1>3 DEF IInv, Actives, ActiveAt, IsOpen
<1>13. Keyed' /\ Fits(identities, goals, active)' /\ Placed'
  BY <1>1, <1>3 DEF Keyed, Placed
<1> QED
  BY <1>10, <1>11, <1>12, <1>13 DEF IInv

LEMMA SetActiveStep ==
    ASSUME IInv, NEW p \in ProjectIds, NEW key \in Keys \cup {NoGoal}, SetActive(p, key)
    PROVE  IInv'
<1>1. Types /\ Keyed /\ Placed /\ Fits(identities, goals, active)
  BY DEF IInv
<1>2. /\ hand = Idle /\ p \in DOMAIN projects
      /\ \/ key = NoGoal
         \/ Has(key) /\ GoalAt(key).project = p /\ IsOpen(GoalAt(key))
      /\ SelectGoal(p, key)
      /\ UNCHANGED <<goals, projects, hand, issued, interrupted>>
  BY DEF SetActive, Aside
<1>3. key # NoGoal => /\ key \in DOMAIN goals
                      /\ goals[key].project = p /\ IsOpen(goals[key])
  BY <1>1, <1>2, GoalFacts
<1>4. ASSUME key # NoGoal, NEW q \in ProjectIds, active[q] = key PROVE q = p
  <2>1. ActiveAt(q)
    BY <1>4 DEF IInv, Actives
  <2>2. p # NoProject
    BY DEF ProjectIds, NoProject
  <2> QED
    BY <1>3, <1>4, <2>1, <2>2 DEF ActiveAt
<1>5. /\ Fits(identities', goals, active') /\ active' \in [ProjectIds -> Keys \cup {NoGoal}]
      /\ active'[p] = key /\ \A q \in ProjectIds : q # p => active'[q] = active[q]
  BY <1>2, <1>3, <1>4, SelectFits
<1>6. Types' /\ Keyed' /\ Placed'
  BY <1>1, <1>2, <1>5 DEF Types, Keyed, Placed
<1>7. Fits(identities, goals, active)'
  BY <1>2, <1>5
<1>8. HandFits'
  BY <1>2 DEF HandFits
<1>9. Actives'
  <2> SUFFICES ASSUME NEW q \in ProjectIds, active'[q] # NoGoal PROVE ActiveAt(q)'
    BY DEF Actives
  <2>1. CASE q = p
    BY <1>2, <1>3, <1>4, <1>5, <2>1 DEF ActiveAt, IsOpen
  <2>2. CASE q # p
    <3>1. active'[q] = active[q] /\ ActiveAt(q)
      BY <1>5, <2>2 DEF IInv, Actives
    <3>2. \A o \in ProjectIds : active'[o] = active[q] => o = q
      BY <1>4, <1>5, <2>2, <3>1 DEF ActiveAt
    <3> QED
      BY <1>2, <3>1, <3>2 DEF ActiveAt, IsOpen
  <2> QED
    BY <2>1, <2>2
<1> QED
  BY <1>6, <1>7, <1>8, <1>9 DEF IInv

LEMMA DeleteStep ==
    ASSUME IInv, NEW key \in Keys, Delete(key)
    PROVE  IInv'
<1>1. Types /\ Keyed /\ Placed /\ Fits(identities, goals, active)
  BY DEF IInv
<1>2. /\ hand = Idle /\ Has(key) /\ ChildrenOf(key) = {}
      /\ hand' = [then |-> "delete", goal |-> GoalAt(key)]
      /\ UNCHANGED <<goals, projects, active, identities, issued, interrupted>>
  BY DEF Delete, Aside
<1>3. /\ key \in DOMAIN goals /\ GoalAt(key) = goals[key]
      /\ \A r \in DOMAIN goals : goals[r].parent # key
  BY <1>1, <1>2, GoalFacts
<1>4. goals[key] \in Goal /\ goals[key].key = key
  BY <1>1, <1>3 DEF Types, Keyed
<1>5. hand'.then = "delete" /\ hand'.goal = goals[key]
  BY <1>2, <1>3
<1>6. Types'
  BY <1>1, <1>2, <1>4, <1>5 DEF Types
<1>7. HandFits'
  BY <1>2, <1>3, <1>4, <1>5 DEF HandFits
<1>8. Actives'
  BY <1>2 DEF IInv, Actives, ActiveAt, IsOpen
<1>9. Keyed' /\ Fits(identities, goals, active)' /\ Placed'
  BY <1>1, <1>2 DEF Keyed, Placed
<1> QED
  BY <1>6, <1>7, <1>8, <1>9 DEF IInv

LEMMA ClearActiveStep ==
    ASSUME IInv, ClearActive
    PROVE  IInv'
<1>1. Types /\ Keyed /\ Placed /\ Fits(identities, goals, active) /\ HandFits
  BY DEF IInv
<1>2. /\ hand # Idle
      /\ UNCHANGED <<goals, projects, hand, issued, interrupted>>
  BY DEF ClearActive, Aside
<1>3. PICK p \in DOMAIN projects : active[p] = hand.goal.key /\ SelectGoal(p, NoGoal)
  BY DEF ClearActive
<1>4. p \in ProjectIds
  BY <1>1, KeysAssumption DEF Types, ProjectIds
<1>5. /\ Fits(identities', goals, active') /\ active' \in [ProjectIds -> Keys \cup {NoGoal}]
      /\ active'[p] = NoGoal /\ \A q \in ProjectIds : q # p => active'[q] = active[q]
  BY <1>3, <1>4, SelectFits
<1>6. Types' /\ Keyed' /\ Placed'
  BY <1>1, <1>2, <1>5 DEF Types, Keyed, Placed
<1>7. Fits(identities, goals, active)'
  BY <1>2, <1>5
<1>8. HandFits'
  BY <1>1, <1>2 DEF HandFits
<1>9. Actives'
  <2> SUFFICES ASSUME NEW q \in ProjectIds, active'[q] # NoGoal PROVE ActiveAt(q)'
    BY DEF Actives
  <2>1. q # p /\ active'[q] = active[q] /\ ActiveAt(q)
    BY <1>5 DEF IInv, Actives
  <2>2. \A o \in ProjectIds : active'[o] = active[q] => o = q
    BY <1>5, <2>1 DEF ActiveAt
  <2> QED
    BY <1>2, <2>1, <2>2 DEF ActiveAt, IsOpen
<1> QED
  BY <1>6, <1>7, <1>8, <1>9 DEF IInv

\* When the selection is cleared, no project has the goal of the call.
LEMMA ClearedFacts ==
    ASSUME IInv, Cleared
    PROVE  /\ hand.then # "nothing" /\ hand.goal \in Goal
           /\ hand.goal.key \in Keys /\ hand.goal.key # NoGoal
           /\ \A p \in ProjectIds : active[p] # hand.goal.key
<1>1. hand # Idle /\ \A p \in DOMAIN projects : active[p] # hand.goal.key
  BY DEF Cleared
<1>2. hand.then \in {"finish", "save", "delete"} /\ hand.goal \in Goal
  BY <1>1 DEF IInv, Types
<1>3. hand.goal.key \in Keys /\ hand.goal.key # NoGoal
  BY <1>2, NoGoalNoKey DEF Goal
<1>4. \A p \in ProjectIds : active[p] # NoGoal => p \in DOMAIN projects
  BY DEF IInv, Actives, ActiveAt
<1> QED
  BY <1>1, <1>2, <1>3, <1>4

LEMMA FinishCallStep ==
    ASSUME IInv, FinishCall
    PROVE  IInv'
<1>1. Types /\ Keyed /\ Placed /\ Fits(identities, goals, active)
  BY DEF IInv
<1>2. /\ hand' = Idle /\ interrupted' = interrupted \ {hand.goal.key}
      /\ UNCHANGED <<goals, projects, issued, active, identities>>
      /\ Cleared
  BY DEF FinishCall
<1>3. Types' /\ Keyed' /\ Placed' /\ Fits(identities, goals, active)'
  BY <1>1, <1>2 DEF Types, Keyed, Placed
<1>4. HandFits'
  BY <1>2 DEF HandFits
<1>5. Actives'
  BY <1>2, ClearedFacts DEF IInv, Actives, ActiveAt, IsOpen
<1> QED
  BY <1>3, <1>4, <1>5 DEF IInv

LEMMA FinishMoveStep ==
    ASSUME IInv, FinishMove
    PROVE  IInv'
<1>1. Types /\ Keyed /\ Placed /\ Fits(identities, goals, active) /\ HandFits
  BY DEF IInv
<1>2. PICK goal : goal = hand.goal
  OBVIOUS
<1>3. /\ Cleared /\ hand.then = "save" /\ SaveGoal(goal, FALSE, FALSE)
      /\ hand' = Idle /\ UNCHANGED <<projects, active, issued, interrupted>>
  BY <1>2 DEF FinishMove, Aside
<1>4. hand # Idle
  BY <1>3 DEF Cleared
<1>5. /\ goal \in Goal /\ goal.key \in DOMAIN goals
      /\ goal.parent = goals[goal.key].parent /\ goal.parent = NoGoal
      /\ goal.project \in DOMAIN projects \cup {NoProject}
      /\ \A r \in DOMAIN goals : goals[r].parent # goal.key
  BY <1>1, <1>2, <1>3, <1>4, ClearedFacts DEF HandFits
<1>6. /\ Fits(identities', goals', active)
      /\ DOMAIN goals' = DOMAIN goals /\ goals'[goal.key] = goal
      /\ \A k \in DOMAIN goals : k # goal.key => goals'[k] = goals[k]
  BY <1>3, <1>5, SaveFits
<1>7. Types' /\ Keyed'
  BY <1>1, <1>3, <1>5, <1>6 DEF Types, Keyed
<1>8. Fits(identities, goals, active)'
  BY <1>3, <1>6
<1>9. HandFits'
  BY <1>3 DEF HandFits
<1>10. Actives'
  <2> SUFFICES ASSUME NEW q \in ProjectIds, active'[q] # NoGoal PROVE ActiveAt(q)'
    BY DEF Actives
  <2>1. active'[q] = active[q] /\ ActiveAt(q) /\ active[q] # goal.key
    BY <1>2, <1>3, ClearedFacts DEF IInv, Actives
  <2>2. hand.then # "finish"
    BY <1>3
  <2> QED
    BY <1>3, <1>6, <2>1, <2>2 DEF ActiveAt, IsOpen
<1>11. Placed'
  <2>1. \A r \in DOMAIN goals : goals'[r].parent = goals[r].parent
    BY <1>5, <1>6
  <2>2. ASSUME NEW r \in DOMAIN goals, goals[r].parent # NoGoal
        PROVE  /\ goals[r].parent \in DOMAIN goals
               /\ goals'[r].project = goals'[goals[r].parent].project
               /\ goals'[r].path = goals'[goals[r].parent].path
    BY <1>1, <1>5, <1>6, <2>2 DEF Placed
  <2>3. ASSUME Dates = {NoDate}, NEW r \in DOMAIN goals
        PROVE  goals'[r].project \in DOMAIN projects \cup {NoProject}
    BY <1>1, <1>5, <1>6, <2>3 DEF Placed
  <2> QED
    BY <1>3, <1>6, <2>1, <2>2, <2>3 DEF Placed
<1> QED
  BY <1>7, <1>8, <1>9, <1>10, <1>11 DEF IInv

\* Nothing is folded over no selection.
LEMMA NothingEnds ==
    ASSUME NEW ids
    PROVE  FoldSet(LAMBDA p, some : Unselect(some, p), ids, {}) = ids
<1> DEFINE F(f) == f = [s \in SUBSET {} |->
                IF s = {} THEN ids
                ELSE LET x == CHOOSE x \in s : TRUE
                     IN  Unselect(f[s \ {x}], x)]
<1>1. FoldSet(LAMBDA p, some : Unselect(some, p), ids, {}) = (CHOOSE f : F(f))[{}]
  BY DEF FoldSet, MapThenFoldSet
<1>2. \E f : F(f)
  <2>1. PICK f : f = [s \in SUBSET {} |-> ids]
    OBVIOUS
  <2>2. \A s \in SUBSET {} : s = {}
    OBVIOUS
  <2>3. F(f)
    BY <2>1, <2>2
  <2> QED
    BY <2>3
<1>3. F(CHOOSE f : F(f))
  BY <1>2
<1> QED
  BY <1>1, <1>3

LEMMA FinishDeleteStep ==
    ASSUME IInv, FinishDelete
    PROVE  IInv'
<1>1. Types /\ Keyed /\ Placed /\ Fits(identities, goals, active) /\ HandFits
  BY DEF IInv
<1>2. PICK goal : goal = hand.goal
  OBVIOUS
<1> DEFINE selecting == {p \in ProjectIds : active[p] = goal.key}
<1>3. Cleared /\ hand.then = "delete" /\ hand # Idle
  BY DEF FinishDelete, Cleared
<1>4. /\ goal \in Goal /\ goal.key \in DOMAIN goals /\ goal.key # NoGoal
      /\ \A r \in DOMAIN goals : goals[r].parent # goal.key
      /\ \A p \in ProjectIds : active[p] # goal.key
  BY <1>1, <1>2, <1>3, ClearedFacts DEF HandFits
<1>5. selecting = {}
  BY <1>4
<1>6. /\ identities' = Record(FoldSet(LAMBDA p, ids : Unselect(ids, p), identities, selecting),
                              goal, "deleted", goal.status)
      /\ active' = [p \in ProjectIds |-> IF active[p] = goal.key THEN NoGoal ELSE active[p]]
      /\ goals' = [r \in DOMAIN goals \ {goal.key} |-> goals[r]]
      /\ interrupted' = interrupted \ {goal.key}
      /\ hand' = Idle /\ UNCHANGED <<projects, issued>>
  BY <1>2 DEF FinishDelete
<1> HIDE DEF selecting
<1>7. identities' = Record(identities, goal, "deleted", goal.status)
  BY <1>5, <1>6, NothingEnds
<1>8. active' = active
  <2>1. active = [p \in ProjectIds |-> active[p]]
    BY <1>1 DEF Types
  <2> QED
    BY <1>4, <1>6, <2>1
<1>9. /\ DOMAIN goals' = DOMAIN goals \ {goal.key}
      /\ \A r \in DOMAIN goals' : goals'[r] = goals[r]
  BY <1>6
<1>10. Types' /\ Keyed'
  BY <1>1, <1>6, <1>8, <1>9 DEF Types, Keyed
<1>11. Fits(identities, goals, active)'
  <2>1. PICK gs : gs = goals'
    OBVIOUS
  <2>2. DOMAIN gs = DOMAIN goals \ {goal.key} /\ \A k \in DOMAIN gs : gs[k] = goals[k]
    BY <1>9, <2>1
  <2>3. Fits(Record(identities, goal, "deleted", goal.status), gs, active)
    BY <1>1, <1>4, <2>2, DeleteFits
  <2> QED
    BY <1>7, <1>8, <2>1, <2>3
<1>12. HandFits'
  BY <1>6 DEF HandFits
<1>13. Actives'
  <2> SUFFICES ASSUME NEW q \in ProjectIds, active'[q] # NoGoal PROVE ActiveAt(q)'
    BY DEF Actives
  <2>1. ActiveAt(q) /\ active[q] # goal.key
    BY <1>4, <1>8 DEF IInv, Actives
  <2>2. active[q] \in DOMAIN goals' /\ goals'[active[q]] = goals[active[q]]
    BY <1>9, <2>1 DEF ActiveAt
  <2>3. hand.then # "finish"
    BY <1>3
  <2> QED
    BY <1>6, <1>8, <2>1, <2>2, <2>3 DEF ActiveAt, IsOpen
<1>14. Placed'
  BY <1>1, <1>4, <1>6, <1>9 DEF Placed
<1> QED
  BY <1>10, <1>11, <1>12, <1>13, <1>14 DEF IInv

LEMMA RestartStep ==
    ASSUME IInv, Restart
    PROVE  IInv'
<1>1. Types /\ Keyed /\ Placed /\ Fits(identities, goals, active) /\ HandFits
  BY DEF IInv
<1>2. /\ interrupted' = IF hand = Idle THEN interrupted
                        ELSE interrupted \cup {hand.goal.key}
      /\ hand' = Idle
      /\ goals' = [r \in DOMAIN goals |->
                    IF goals[r].project # NoProject THEN goals[r]
                    ELSE [goals[r] EXCEPT !.project = ProjectOf(goals[r].path)]]
      /\ UNCHANGED <<projects, issued, active, identities>>
  BY DEF Restart
<1>3. interrupted \subseteq interrupted' /\ (hand # Idle => hand.goal.key \in interrupted')
  BY <1>2
<1>4. interrupted' \subseteq Keys
  BY <1>1, <1>2 DEF Types, Goal
<1>5. DOMAIN goals' = DOMAIN goals
  BY <1>2
<1>6. ASSUME NEW r \in DOMAIN goals
      PROVE  /\ goals'[r] \in Goal /\ goals'[r].key = goals[r].key
             /\ goals'[r].status = goals[r].status /\ goals'[r].parent = goals[r].parent
             /\ goals'[r].path = goals[r].path
             /\ goals'[r].project = IF goals[r].project # NoProject THEN goals[r].project
                                    ELSE ProjectOf(goals[r].path)
  <2>1. PICK goal \in Goal : goal = goals[r]
    BY <1>1 DEF Types
  <2>2. PICK p \in DOMAIN projects \cup {NoProject} : p = ProjectOf(goal.path)
    <3>1. goal.path \in Paths
      BY DEF Goal
    <3> QED
      BY <1>1, <3>1, ProjectOfFacts
  <2>3. p \in 0..MaxProjects
    BY <1>1, KeysAssumption DEF Types, NoProject
  <2>4. goals'[r] = IF goal.project # NoProject THEN goal ELSE [goal EXCEPT !.project = p]
    BY <1>2, <2>1, <2>2
  <2> QED
    BY <2>1, <2>2, <2>3, <2>4 DEF Goal
<1>7. Types' /\ Keyed'
  BY <1>1, <1>2, <1>4, <1>5, <1>6 DEF Types, Keyed
<1>8. Fits(identities, goals, active)'
  <2>1. PICK gs : gs = goals'
    OBVIOUS
  <2>2. /\ DOMAIN gs = DOMAIN goals
        /\ \A k \in DOMAIN goals : gs[k].status = goals[k].status /\ gs[k].parent = goals[k].parent
    BY <1>5, <1>6, <2>1
  <2>3. Fits(identities, gs, active)
    BY <1>1, <2>2, SameFits
  <2> QED
    BY <1>2, <2>1, <2>3
<1>9. HandFits'
  BY <1>2 DEF HandFits
<1>10. Actives'
  <2> SUFFICES ASSUME NEW q \in ProjectIds, active'[q] # NoGoal PROVE ActiveAt(q)'
    BY DEF Actives
  <2>1. ActiveAt(q) /\ active'[q] = active[q]
    BY <1>2 DEF IInv, Actives
  <2>2. PICK k \in DOMAIN goals : k = active[q]
    BY <2>1 DEF ActiveAt
  <2>3. \/ goals'[k].project = q
        \/ goals'[k].project = NoProject /\ goals'[k].path = Nowhere
    <3>1. q # NoProject
      BY DEF ProjectIds, NoProject
    <3>2. CASE goals[k].project = q
      BY <1>6, <3>1, <3>2
    <3>3. CASE goals[k].project = NoProject /\ goals[k].path = Nowhere
      BY <1>1, <1>6, <3>3, ProjectOfFacts
    <3> QED
      BY <2>1, <2>2, <3>2, <3>3 DEF ActiveAt
  <2>4. IsOpen(goals'[k]) \/ k \in interrupted'
    BY <1>3, <1>6, <2>1, <2>2 DEF ActiveAt, IsOpen
  <2> QED
    BY <1>2, <1>5, <2>1, <2>2, <2>3, <2>4 DEF ActiveAt, IsOpen
<1>11. Placed'
  <2>1. ASSUME NEW r \in DOMAIN goals, goals[r].parent # NoGoal
        PROVE  /\ goals[r].parent \in DOMAIN goals
               /\ goals'[r].project = goals'[goals[r].parent].project
               /\ goals'[r].path = goals'[goals[r].parent].path
    <3>1. PICK k : k = goals[r].parent
      OBVIOUS
    <3>2. k \in DOMAIN goals /\ goals[r].project = goals[k].project
          /\ goals[r].path = goals[k].path
      BY <1>1, <2>1, <3>1 DEF Placed
    <3> QED
      BY <1>6, <3>1, <3>2
  <2>2. ASSUME Dates = {NoDate}, NEW r \in DOMAIN goals
        PROVE  goals'[r].project \in DOMAIN projects \cup {NoProject}
    <3>1. goals[r].path \in Paths
      BY <1>1 DEF Types, Goal
    <3>2. ProjectOf(goals[r].path) \in DOMAIN projects \cup {NoProject}
      BY <1>1, <3>1, ProjectOfFacts
    <3>3. goals[r].project \in DOMAIN projects \cup {NoProject}
      BY <1>1, <2>2 DEF Placed
    <3> QED
      BY <1>6, <3>2, <3>3
  <2>3. \A r \in DOMAIN goals : goals'[r].parent = goals[r].parent
    BY <1>6
  <2> QED
    BY <1>2, <1>5, <2>1, <2>2, <2>3 DEF Placed
<1> QED
  BY <1>7, <1>8, <1>9, <1>10, <1>11 DEF IInv

-----------------------------------------------------------------------------
LEMMA InitHolds == Init => IInv
<1> SUFFICES ASSUME Init PROVE IInv
  OBVIOUS
<1>1. /\ DOMAIN goals = {} /\ DOMAIN projects = {} /\ issued = 0
      /\ active = [p \in ProjectIds |-> NoGoal]
      /\ identities = <<>> /\ hand = Idle /\ interrupted = {}
  BY DEF Init
<1>2. Types
  BY <1>1, KeysAssumption DEF Types
<1>3. DOMAIN identities = {} /\ identities \in Seq(Identity)
  BY <1>1, EmptySeq
<1>4. Fits(identities, goals, active)
  BY <1>1, <1>3 DEF Fits, Older, Lives, Owned, Covered, Logged, Rolled
<1>5. Actives
  BY <1>1 DEF Actives
<1> QED
  BY <1>1, <1>2, <1>4, <1>5 DEF IInv, Keyed, HandFits, Placed

LEMMA NextHolds == OneKind /\ IInv /\ [Next]_vars => IInv'
<1> SUFFICES ASSUME OneKind, IInv, [Next]_vars PROVE IInv'
  OBVIOUS
<1>1. CASE UNCHANGED vars
  <2>1. Types' /\ Keyed' /\ Placed' /\ Actives' /\ HandFits'
    BY <1>1 DEF vars, IInv, Types, Keyed, Placed, Actives, ActiveAt, HandFits, IsOpen
  <2>2. Fits(identities, goals, active)'
    BY <1>1 DEF vars, IInv
  <2> QED
    BY <2>1, <2>2 DEF IInv
<1>2. ASSUME NEW root \in Roots, Register(root) PROVE IInv'
  BY <1>2, RegisterStep
<1>3. ASSUME NEW p \in ProjectIds, RemoveProject(p) PROVE IInv'
  BY <1>3, RemoveProjectStep
<1>4. ASSUME NEW k \in Keys, NEW path \in Paths, NEW parent \in Keys \cup {NoGoal},
             NEW s \in Statuses, Create(k, path, parent, s)
      PROVE  IInv'
  BY <1>4, CreateStep
<1>5. ASSUME NEW k \in Keys, NEW s \in Statuses, Update(k, s) PROVE IInv'
  BY <1>5, UpdateStep
<1>6. ASSUME NEW k \in Keys, Edit(k) \/ Delete(k) PROVE IInv'
  BY <1>6, EditStep, DeleteStep
<1>7. ASSUME NEW k \in Keys, NEW path \in Paths, Move(k, path) PROVE IInv'
  BY <1>7, MoveStep
<1>8. ASSUME NEW p \in ProjectIds, NEW k \in Keys \cup {NoGoal}, SetActive(p, k) PROVE IInv'
  BY <1>8, SetActiveStep
<1>9. CASE ClearActive
  BY <1>9, ClearActiveStep
<1>10. CASE FinishCall
  BY <1>10, FinishCallStep
<1>11. CASE FinishMove
  BY <1>11, FinishMoveStep
<1>12. CASE FinishDelete
  BY <1>12, FinishDeleteStep
<1>13. CASE Restart
  BY <1>13, RestartStep
<1> QED
  BY <1>1, <1>2, <1>3, <1>4, <1>5, <1>6, <1>7, <1>8, <1>9, <1>10, <1>11, <1>12, <1>13
  DEF Next

(* The states that are reached satisfy the inductive invariant             *)
(* (store/history.rs, goals.rs, projects.rs).                              *)
THEOREM GoalsInvariant == ASSUME OneKind PROVE Spec => []IInv
<1>1. Init => IInv
  BY InitHolds
<1>2. IInv /\ [Next]_vars => IInv'
  BY NextHolds
<1> QED
  BY <1>1, <1>2, PTL DEF Spec

-----------------------------------------------------------------------------
(* What the invariant says of stored goals.                                *)

LEMMA StoredFacts ==
    ASSUME IInv, NEW g \in Stored
    PROVE  /\ g.key \in DOMAIN goals /\ g = goals[g.key] /\ g \in Goal
           /\ \E i \in DOMAIN identities :
                /\ Instances(identities, g.key) = {i} /\ Instance(identities, g.key) = i
                /\ identities[i].live /\ identities[i].key = g.key
<1>1. g.key \in DOMAIN goals /\ g = goals[g.key] /\ g \in Goal
  BY DEF IInv, Stored, Types, Keyed
<1>2. PICK i \in DOMAIN identities : identities[i].live /\ identities[i].key = g.key
  BY <1>1 DEF IInv, Fits, Covered
<1>3. Instances(identities, g.key) = {i}
  BY <1>2 DEF IInv, Fits, Lives, Instances
<1>4. Instance(identities, g.key) = i
  BY <1>3 DEF Instance
<1> QED
  BY <1>1, <1>2, <1>3, <1>4

LEMMA InvReplays == IInv => HistoryReplays
<1> SUFFICES ASSUME IInv, NEW g \in Stored,
                    NEW log, log = identities[Instance(identities, g.key)].log
             PROVE  /\ log # <<>> /\ Last(log).status = g.status
                    /\ EndsSelected(log) <=> (\E p \in ProjectIds : active[p] = g.key)
                    /\ \A n \in DOMAIN log :
                        log[n].kind = "status-changed"
                            => n > 1 /\ log[n].old = log[n - 1].status
  BY DEF HistoryReplays
<1>1. PICK i \in DOMAIN identities :
        /\ identities[i].live /\ identities[i].key = g.key /\ log = identities[i].log
  BY StoredFacts
<1>2. /\ LogFits(log, goals[g.key].status)
      /\ EndsSelected(log) <=> SelectedIn(active, g.key)
  BY <1>1 DEF IInv, Fits, Logged
<1>3. goals[g.key] = g
  BY StoredFacts
<1> QED
  BY <1>2, <1>3 DEF LogFits, Chained, SelectedIn, Last

LEMMA InvOneLife == IInv => OneLifePerGoal
<1> SUFFICES ASSUME IInv PROVE OneLifePerGoal
  OBVIOUS
<1>1. ASSUME NEW g \in Stored PROVE Cardinality(Instances(identities, g.key)) = 1
  <2>1. PICK i : Instances(identities, g.key) = {i}
    BY StoredFacts
  <2>2. Cardinality({i}) = 1
    BY FS_Singleton
  <2> QED
    BY <2>1, <2>2
<1>2. \A i \in DOMAIN identities : identities[i].live => Has(identities[i].key)
  BY GoalFacts DEF IInv, Fits, Owned
<1>3. ASSUME NEW g \in Stored
      PROVE  identities[Instance(identities, g.key)].ancestors =
                IF g.parent = NoGoal THEN <<>>
                ELSE Append(identities[Instance(identities, g.parent)].ancestors,
                            Instance(identities, g.parent))
  <2>1. PICK i \in DOMAIN identities :
          /\ Instance(identities, g.key) = i
          /\ identities[i].live /\ identities[i].key = g.key
    BY StoredFacts
  <2>2. goals[g.key] = g
    BY StoredFacts
  <2>3. Descends(identities, i, g.parent)
    BY <2>1, <2>2 DEF IInv, Fits, Rolled
  <2>4. CASE g.parent = NoGoal
    BY <2>1, <2>3, <2>4 DEF Descends
  <2>5. CASE g.parent # NoGoal
    <3>1. PICK j \in DOMAIN identities :
            /\ identities[j].live /\ identities[j].key = g.parent
            /\ identities[i].ancestors = Append(identities[j].ancestors, j)
      BY <2>3, <2>5 DEF Descends
    <3>2. Instances(identities, g.parent) = {j}
      BY <3>1 DEF IInv, Fits, Lives, Instances
    <3>3. Instance(identities, g.parent) = j
      BY <3>2 DEF Instance
    <3> QED
      BY <2>1, <2>5, <3>1, <3>3
  <2> QED
    BY <2>4, <2>5
<1> QED
  BY <1>1, <1>2, <1>3 DEF OneLifePerGoal

LEMMA InvActiveFits == IInv => ActiveGoalFits
<1> SUFFICES ASSUME IInv, hand = Idle, NEW p \in ProjectIds, active[p] # NoGoal
             PROVE  /\ p \in DOMAIN projects
                    /\ Has(active[p])
                    /\ GoalAt(active[p]).project \in {p, NoProject}
                    /\ IsOpen(GoalAt(active[p])) \/ active[p] \in interrupted
  BY DEF ActiveGoalFits
<1>1. ActiveAt(p)
  BY DEF IInv, Actives
<1>2. Has(active[p]) /\ GoalAt(active[p]) = goals[active[p]]
  BY <1>1, GoalFacts DEF IInv, ActiveAt
<1> QED
  BY <1>1, <1>2 DEF ActiveAt

LEMMA InvDetached == Dates = {NoDate} /\ IInv => DetachedFromRemoved
<1> SUFFICES ASSUME Dates = {NoDate}, IInv, NEW g \in Stored
             PROVE  /\ g.project # NoProject => g.project \in DOMAIN projects
                    /\ g.parent # NoGoal =>
                        /\ Has(g.parent)
                        /\ g.project = GoalAt(g.parent).project
                        /\ g.path = GoalAt(g.parent).path
  BY DEF DetachedFromRemoved
<1>1. g.key \in DOMAIN goals /\ g = goals[g.key]
  BY StoredFacts
<1>2. g.parent # NoGoal => g.parent \in DOMAIN goals /\ Has(g.parent)
                           /\ GoalAt(g.parent) = goals[g.parent]
  BY <1>1, GoalFacts DEF IInv, Placed
<1> QED
  BY <1>1, <1>2 DEF IInv, Placed

LEMMA InvTypes == IInv => TypeOK
<1> SUFFICES ASSUME IInv PROVE TypeOK
  OBVIOUS
<1>1. \A i \in DOMAIN identities :
        /\ identities[i].key \in Keys /\ identities[i].live \in BOOLEAN
        /\ identities[i].log \in Seq(Event)
  <2>1. identities \in Seq(Identity)
    BY DEF IInv, Fits
  <2>2. \A i \in DOMAIN identities : identities[i] \in Identity
    BY <2>1, ElementOfSeq, LenProperties
  <2> QED
    BY <2>2 DEF Identity
<1>2. ASSUME NEW i \in DOMAIN identities, NEW n \in DOMAIN identities[i].log
      PROVE  identities[i].log[n].status \in Statuses
  <2>1. PICK log \in Seq(Event) : log = identities[i].log
    BY <1>1
  <2>2. log[n] \in Event
    BY <1>2, <2>1, ElementOfSeq, LenProperties
  <2> QED
    BY <2>1, <2>2 DEF Event
<1>3. \A i \in DOMAIN identities : \A j \in DOMAIN identities[i].ancestors :
        identities[i].ancestors[j] \in 1..(i - 1)
  BY DEF IInv, Fits, Older
<1> QED
  BY <1>1, <1>2, <1>3 DEF IInv, Types, TypeOK

(* The events of a goal's identity, replayed, give its status and whether  *)
(* it is selected, in every state: between the transactions of a call and  *)
(* after the process ended there too (store/history.rs).                   *)
THEOREM HistoryAgrees == ASSUME OneKind PROVE Spec => []HistoryReplays
BY GoalsInvariant, InvReplays, PTL

(* A goal and a live identity are of each other, and an identity descends  *)
(* from the live ones of the goals above it (store/history.rs).            *)
THEOREM GoalsHaveOneLife == ASSUME OneKind PROVE Spec => []OneLifePerGoal
BY GoalsInvariant, InvOneLife, PTL

(* Between calls the active goal of a project is an open one of it, or of  *)
(* none, unless a call on it was cut short (goals.rs, main.rs).            *)
THEOREM ActiveGoalsFit == ASSUME OneKind PROVE Spec => []ActiveGoalFits
BY GoalsInvariant, InvActiveFits, PTL

(* Goals without dates are detached from a project that is removed, with   *)
(* their subtasks (store.rs remove_project).                               *)
THEOREM RemovedAreDetached == ASSUME Dates = {NoDate} PROVE Spec => []DetachedFromRemoved
<1>1. OneKind
  BY DEF OneKind
<1>2. Spec => []IInv
  BY <1>1, GoalsInvariant
<1>3. IInv => DetachedFromRemoved
  BY InvDetached
<1> QED
  BY <1>2, <1>3, PTL

(* Every variable of the goals has its type.                               *)
THEOREM GoalTypes == ASSUME OneKind PROVE Spec => []TypeOK
BY GoalsInvariant, InvTypes, PTL

-----------------------------------------------------------------------------
(* The hub that shares a source, for every number of subscribers, failures *)
(* and values of the source (ShareReplay).                                 *)

\* There is a first value, and a bound of the restarts.
HubBounds ==
    /\ MaxVersion \in Nat \ {0}
    /\ MaxRestarts \in Nat

Stages == {"run", "value", "next", "error", "end", "fail", "restart", "terminate", "reconnect",
           "restore", "ended"}
Conn == [at : Stages, got : Nat, read : Nat, aborted : BOOLEAN, made : Nat]
ThreadCall == [at : {"new", "connect", "on", "off"}]
              \cup [at : {"replay"}, latest : Nat, current : BOOLEAN, connect : BOOLEAN]
              \cup [at : {"store"}, made : Nat]
              \cup [at : {"disconnect"}, taken : Nat]

ConnectionTypes == \E n \in Nat : connections \in [1..n -> Conn]

HubTypes ==
    /\ source \in 1..MaxVersion /\ latest \in 0..source
    /\ observers \subseteq Subscribers /\ connecting \in BOOLEAN
    /\ connection \in H!Connections \cup {H!Empty} /\ restarts \in 0..MaxRestarts
    /\ thread \in [Subscribers -> ThreadCall]
    /\ given \in [Subscribers -> 0..source]
    /\ ConnectionTypes
    /\ \A c \in H!Connections :
           connections[c].got \in 0..source /\ connections[c].read \in 0..source
    /\ late \in BOOLEAN /\ spent \in BOOLEAN

\* Who will store, or end, a connection that is not stored.
Making(s, c) == thread[s].at = "store" /\ thread[s].made = c
Remaking(d, c) == connections[d].at = "restore" /\ connections[d].made = c
Taking(s, c) == thread[s].at = "disconnect" /\ thread[s].taken = c

\* Each connection has one of them at most.
OwnedOnce ==
    /\ \A s \in Subscribers, c \in H!Connections : Making(s, c) =>
        /\ c # connection
        /\ \A t \in Subscribers : (Making(t, c) => t = s) /\ ~Taking(t, c)
        /\ \A d \in H!Connections : ~Remaking(d, c)
    /\ \A d \in H!Connections, c \in H!Connections : Remaking(d, c) =>
        /\ c # connection /\ c # d
        /\ \A t \in Subscribers : ~Taking(t, c)
        /\ \A e \in H!Connections : Remaking(e, c) => e = d
    /\ \A s \in Subscribers, c \in H!Connections : Taking(s, c) => c # connection
    /\ \A s \in Subscribers : thread[s].at = "store" => thread[s].made \in H!Connections
    /\ \A d \in H!Connections :
           connections[d].at = "restore" => connections[d].made \in H!Connections
    /\ \A s \in Subscribers : thread[s].at = "disconnect" =>
            thread[s].taken \in H!Connections \cup {H!Empty}

\* What nobody ended is not lost.
Unended(c) == connections[c].at \in {"run", "value", "next"} /\ ~connections[c].aborted
Held ==
    \A c \in H!Connections : Unended(c) =>
        \/ c = connection
        \/ \E s \in Subscribers : Making(s, c) \/ Taking(s, c)
        \/ \E d \in H!Connections : Remaking(d, c)

Listened == connection # H!Empty => observers # {}

\* Observers have a connection, or will have one.
Maker(s) == thread[s].at \in {"connect", "store"} \/ (thread[s].at = "replay" /\ thread[s].connect)
Remaker(c) == connections[c].at \in {"reconnect", "restore"}
Served ==
    /\ connecting => (\E s \in Subscribers : Maker(s)) \/ (\E c \in H!Connections : Remaker(c))
    /\ observers # {} /\ connection = H!Empty =>
        \/ \E s \in Subscribers : Maker(s)
        \/ \E c \in H!Connections : Remaker(c) \/ connections[c].at = "restart"

\* The stored connection has not been ended, and has more to give.
Useful ==
    connection # H!Empty /\ ~spent =>
        /\ ~connections[connection].aborted
        /\ connections[connection].at \notin {"ended", "restart", "reconnect", "restore"}
        /\ H!Delivered(connection) => latest # H!Empty
\* One that is not stored has not been ended.
Fresh ==
    /\ \A s \in Subscribers, c \in H!Connections : Making(s, c) => ~connections[c].aborted
    /\ \A d \in H!Connections, c \in H!Connections : Remaking(d, c) => ~connections[c].aborted

\* Without a late delivery, what is delivered is at least as new as what was.
InOrder ==
    /\ \A c \in H!Connections : connections[c].at \in {"value", "next"} =>
            connections[c].got = connections[c].read /\ connections[c].got # H!Empty
    /\ ~late => \A c, d \in H!Connections :
            c < d /\ H!Delivered(c) /\ connections[d].read # H!Empty =>
                connections[c].read <= connections[d].read
    /\ ~late /\ latest # H!Empty => \A c \in H!Connections :
           H!Delivered(c) => connections[c].read <= latest

\* An observer shows the latest, or is about to.
Replaying(s) == thread[s].at = "replay" /\ thread[s].current
ToldLatest ==
    /\ \A s \in Subscribers : thread[s].at = "replay" => thread[s].latest \in 0..source
    /\ latest # H!Empty => \A s \in Subscribers : Replaying(s) => thread[s].latest = latest
    /\ latest # H!Empty => \A s \in observers : given[s] = latest \/ Replaying(s)

HubInv ==
    HubTypes /\ OwnedOnce /\ Held /\ Listened /\ Served /\ Useful /\ Fresh /\ InOrder /\ ToldLatest

-----------------------------------------------------------------------------
(* What the steps do to the connections.                                   *)

\* The instance counts connections as its own standard modules do.
LEMMA SameCardinality == \A R : H!Cardinality(R) = Cardinality(R)
<1>1. \A R : H!IsFiniteSet(R) <=> IsFiniteSet(R)
  BY DEF H!IsFiniteSet, IsFiniteSet
<1> QED
  BY <1>1 DEF H!Cardinality, Cardinality

LEMMA ConnectionNumbers == ASSUME HubTypes PROVE \E n \in Nat : /\ connections \in [1..n -> Conn]
                                                                /\ H!Connections = 1..n
                                                                /\ Cardinality(H!Connections) = n
<1>1. PICK n \in Nat : connections \in [1..n -> Conn]
  BY DEF HubTypes, ConnectionTypes
<1>2. H!Connections = 1..n
  BY <1>1 DEF H!Connections
<1>3. Cardinality(1..n) = n
  BY FS_Interval
<1> QED
  BY <1>1, <1>2, <1>3

\* The same connections, but for one that goes on to another stage.
Moved(c, a) ==
    /\ ConnectionTypes' /\ H!Connections' = H!Connections
    /\ \A d \in H!Connections \ {c} : connections'[d] = connections[d]
    /\ connections'[c].at = a /\ connections'[c].aborted = connections[c].aborted
    /\ connections'[c].made = connections[c].made
    /\ connections'[c].read = connections[c].read /\ connections'[c].got = connections[c].got

LEMMA GotoMoves ==
    ASSUME HubTypes, NEW c \in H!Connections, NEW a \in Stages, connections' = H!Goto(c, a)
    PROVE  Moved(c, a)
<1>1. PICK n \in Nat : connections \in [1..n -> Conn] /\ H!Connections = 1..n
  BY ConnectionNumbers
<1>2. connections' = [connections EXCEPT ![c].at = a]
  BY DEF H!Goto
<1>3. connections' \in [1..n -> Conn]
  BY <1>1, <1>2 DEF Conn
<1>4. H!Connections' = H!Connections /\ ConnectionTypes'
  BY <1>1, <1>3 DEF H!Connections, ConnectionTypes
<1>5. connections[c] \in Conn
  BY <1>1
<1> QED
  BY <1>1, <1>2, <1>4, <1>5 DEF Moved, Conn

\* And the one that is dropped, if any, is ended.
Dropping(every, c) ==
    /\ \E n \in Nat : connections' \in [1..n -> Conn] /\ DOMAIN every = 1..n
    /\ \A d \in DOMAIN every : /\ connections'[d].at = every[d].at
                               /\ connections'[d].made = every[d].made
                               /\ connections'[d].read = every[d].read
                               /\ connections'[d].got = every[d].got
                               /\ d # c => connections'[d].aborted = every[d].aborted
                               /\ d = c => connections'[d].aborted

LEMMA AbortDrops ==
    ASSUME NEW n \in Nat, NEW every \in [1..n -> Conn], NEW c \in (1..n) \cup {H!Empty},
           connections' = H!Aborting(c, every)
    PROVE  Dropping(every, c)
<1>1. CASE c = H!Empty
  <2>1. connections' = every /\ \A d \in 1..n : d # c
    BY <1>1 DEF H!Aborting, H!Empty
  <2> QED
    BY <2>1 DEF Dropping
<1>2. CASE c # H!Empty
  <2>1. connections' = [every EXCEPT ![c].aborted = TRUE] /\ c \in 1..n
    BY <1>2 DEF H!Aborting
  <2>2. every[c] \in Conn
    BY <2>1
  <2>3. connections' \in [1..n -> Conn]
    BY <2>1, <2>2 DEF Conn
  <2>4. \A d \in 1..n : d # c => connections'[d] = every[d]
    BY <2>1
  <2>5. connections'[c] = [every[c] EXCEPT !.aborted = TRUE]
    BY <2>1
  <2>6. /\ connections'[c].at = every[c].at /\ connections'[c].made = every[c].made
        /\ connections'[c].aborted
        /\ connections'[c].read = every[c].read /\ connections'[c].got = every[c].got
    BY <2>2, <2>5 DEF Conn
  <2> QED
    BY <2>3, <2>4, <2>6 DEF Dropping
<1> QED
  BY <1>1, <1>2

NewIs == /\ H!NewTask \in Conn /\ H!NewTask.at = "run" /\ H!NewTask.read = H!Empty
         /\ H!NewTask.got = H!Empty /\ ~H!NewTask.aborted

LEMMA NewTaskIs == NewIs
BY DEF NewIs, H!NewTask, Conn, Stages, H!Empty

LEMMA EndIs ==
    ASSUME HubTypes, NEW n \in Nat, connections \in [1..n -> Conn], NEW c \in 1..n
    PROVE  /\ H!End(c) \in [1..n -> Conn]
           /\ \A d \in (1..n) \ {c} : H!End(c)[d] = connections[d]
           /\ H!End(c)[c].at = "ended" /\ H!End(c)[c].read = H!Empty /\ H!End(c)[c].got = H!Empty
           /\ ~H!End(c)[c].aborted
<1> DEFINE e == [H!NewTask EXCEPT !.at = "ended"]
<1>1. e \in Conn /\ e.at = "ended" /\ e.read = H!Empty /\ e.got = H!Empty /\ ~e.aborted
  <2>1. PICK t \in Conn : /\ t = H!NewTask /\ t.read = H!Empty /\ t.got = H!Empty /\ ~t.aborted
    BY NewTaskIs DEF NewIs
  <2>2. e = [t EXCEPT !.at = "ended"]
    BY <2>1
  <2> HIDE DEF e
  <2> QED
    BY <2>1, <2>2 DEF Conn, Stages
<1>2. H!End(c) = [connections EXCEPT ![c] = e]
  BY DEF H!End
<1> HIDE DEF e
<1> QED
  BY <1>1, <1>2

\* One more connection, of the next number.
OneMore(n) ==
    /\ ConnectionTypes' /\ H!Connections = 1..n /\ H!Connections' = 1..(n + 1)
    /\ \A d \in 1..n : /\ connections'[d].read = connections[d].read
                       /\ connections'[d].got = connections[d].got
                       /\ connections'[d].aborted = connections[d].aborted
    /\ connections'[n + 1] = H!NewTask

LEMMA ConnectGrows ==
    ASSUME HubTypes, NEW s \in Subscribers, H!Connect(s)
    PROVE  \E n \in Nat : /\ OneMore(n) /\ \A d \in 1..n : connections'[d] = connections[d]
                          /\ thread' = [thread EXCEPT ![s] = [at |-> "store", made |-> n + 1]]
<1>1. PICK n \in Nat : /\ connections \in [1..n -> Conn] /\ H!Connections = 1..n
                       /\ Cardinality(H!Connections) = n
  BY ConnectionNumbers
<1>2. connections' = [c \in 1..(n + 1) |-> IF c \in H!Connections THEN connections[c] ELSE H!NewTask]
  BY <1>1, SameCardinality DEF H!Connect
<1>3. connections' \in [1..(n + 1) -> Conn]
  BY <1>1, <1>2, NewTaskIs DEF NewIs
<1>4. thread' = [thread EXCEPT ![s] = [at |-> "store", made |-> n + 1]]
  BY <1>1, SameCardinality DEF H!Connect, H!Advance
<1>5. \A d \in 1..n : d \in 1..(n + 1)
  OBVIOUS
<1>6. n + 1 \in 1..(n + 1) /\ n + 1 \notin 1..n
  OBVIOUS
<1>7. ConnectionTypes' /\ H!Connections' = 1..(n + 1)
  BY <1>3 DEF ConnectionTypes, H!Connections
<1>8. \A d \in 1..n : connections'[d] = connections[d]
  BY <1>1, <1>2, <1>5
<1>9. connections'[n + 1] = H!NewTask
  BY <1>1, <1>2, <1>6
<1> QED
  BY <1>1, <1>4, <1>7, <1>8, <1>9 DEF OneMore

LEMMA ReconnectGrows ==
    ASSUME HubTypes, NEW c \in H!Connections, H!Reconnect(c)
    PROVE  \E n \in Nat : /\ OneMore(n) /\ \A d \in (1..n) \ {c} : connections'[d] = connections[d]
                          /\ connections'[c].at = "restore" /\ connections'[c].made = n + 1
<1>1. PICK n \in Nat : /\ connections \in [1..n -> Conn] /\ H!Connections = 1..n
                       /\ Cardinality(H!Connections) = n
  BY ConnectionNumbers
<1> DEFINE r == [connections[c] EXCEPT !.at = "restore", !.made = n + 1]
<1>2. connections' = [d \in 1..(n + 1) |-> IF d = n + 1 THEN H!NewTask
                                           ELSE IF d = c THEN r ELSE connections[d]]
  BY <1>1, SameCardinality DEF H!Reconnect
<1>3. /\ r \in Conn /\ r.at = "restore" /\ r.made = n + 1
      /\ r.read = connections[c].read /\ r.got = connections[c].got
      /\ r.aborted = connections[c].aborted
  <2>1. PICK t \in Conn : t = connections[c]
    BY <1>1
  <2>2. PICK u : u = [t EXCEPT !.at = "restore"]
    OBVIOUS
  <2>3. /\ u \in Conn /\ u.at = "restore"
        /\ u.read = t.read /\ u.got = t.got /\ u.aborted = t.aborted
    BY <2>2 DEF Conn, Stages
  <2>4. r = [u EXCEPT !.made = n + 1]
    BY <2>1, <2>2, Zenon
  <2> HIDE DEF r
  <2> QED
    BY <2>1, <2>3, <2>4 DEF Conn
<1> HIDE DEF r
<1>4. connections' \in [1..(n + 1) -> Conn]
  BY <1>1, <1>2, <1>3, NewTaskIs DEF NewIs
<1>5. \A d \in 1..n : d \in 1..(n + 1) /\ d # n + 1
  OBVIOUS
<1>6. n + 1 \in 1..(n + 1)
  OBVIOUS
<1>7. ConnectionTypes' /\ H!Connections' = 1..(n + 1)
  BY <1>4 DEF ConnectionTypes, H!Connections
<1>8. \A d \in 1..n : connections'[d] = IF d = c THEN r ELSE connections[d]
  BY <1>2, <1>5
<1>9. connections'[n + 1] = H!NewTask
  BY <1>2, <1>6
<1>10. \A d \in 1..n : /\ connections'[d].read = connections[d].read
                       /\ connections'[d].got = connections[d].got
                       /\ connections'[d].aborted = connections[d].aborted
  BY <1>3, <1>8
<1> QED
  BY <1>1, <1>3, <1>7, <1>8, <1>9, <1>10 DEF OneMore

-----------------------------------------------------------------------------
(* The subscribers.                                                        *)

LEMMA Advanced ==
    ASSUME HubTypes, NEW s \in Subscribers, NEW stage \in ThreadCall, H!Advance(s, stage)
    PROVE  /\ thread' \in [Subscribers -> ThreadCall] /\ thread'[s] = stage
           /\ \A t \in Subscribers : t # s => thread'[t] = thread[t]
BY DEF HubTypes, H!Advance

LEMMA HubChangeHolds == ASSUME HubBounds, HubInv, H!Change PROVE HubInv'
<1>1. source' = source + 1 /\ source < MaxVersion
      /\ UNCHANGED <<H!hub, thread, given, connections, late, spent>>
  BY DEF H!Change
<1> USE DEF H!hub
<1>2. HubTypes'
  <2>1. \A k \in 0..source : k \in 0..source'
    BY <1>1 DEF HubInv, HubTypes
  <2>2. source' \in 1..MaxVersion /\ latest' \in 0..source'
    BY <1>1, <2>1 DEF HubBounds, HubInv, HubTypes
  <2>3. given' \in [Subscribers -> 0..source']
    BY <1>1, <2>1 DEF HubInv, HubTypes
  <2>4. ConnectionTypes' /\ H!Connections' = H!Connections
    BY <1>1 DEF HubInv, HubTypes, ConnectionTypes, H!Connections
  <2>5. \A c \in H!Connections' :
            connections'[c].got \in 0..source' /\ connections'[c].read \in 0..source'
    BY <1>1, <2>1, <2>4 DEF HubInv, HubTypes
  <2> QED
    BY <1>1, <2>2, <2>3, <2>4, <2>5 DEF HubInv, HubTypes
<1>3. H!Connections' = H!Connections
  BY <1>1 DEF H!Connections
<1>4. OwnedOnce'
  BY <1>1, <1>3 DEF HubInv, OwnedOnce, Making, Remaking, Taking
<1>5. Held'
  BY <1>1, <1>3 DEF HubInv, Held, Unended, Making, Remaking, Taking
<1>6. Listened' /\ Served'
  BY <1>1, <1>3 DEF HubInv, Listened, Served, Maker, Remaker
<1>7. Useful' /\ Fresh'
  BY <1>1, <1>3 DEF HubInv, Useful, Fresh, H!Delivered, Making, Remaking
<1>8. InOrder'
  BY <1>1, <1>3 DEF HubInv, InOrder, H!Delivered
<1>9. ToldLatest'
  <2>1. \A k \in 0..source : k \in 0..source'
    BY <1>1 DEF HubInv, HubTypes
  <2> QED
    BY <1>1, <2>1 DEF HubInv, ToldLatest, Replaying
<1> QED
  BY <1>2, <1>4, <1>5, <1>6, <1>7, <1>8, <1>9 DEF HubInv

LEMMA HubSubscribeHolds == ASSUME HubInv, NEW s \in Subscribers, H!Subscribe(s) PROVE HubInv'
<1> DEFINE connect == connection = H!Empty /\ ~connecting
           stage == IF latest # H!Empty
                    THEN [at |-> "replay", latest |-> latest, current |-> TRUE,
                          connect |-> connect]
                    ELSE [at |-> IF connect THEN "connect" ELSE "on"]
<1>1. /\ thread[s].at = "new" /\ observers' = observers \cup {s}
      /\ UNCHANGED <<source, latest, connection, restarts, given, connections, late, spent>>
  BY DEF H!Subscribe
<1>2. connecting' = (connecting \/ connect) /\ H!Advance(s, stage)
  BY Zenon DEF H!Subscribe
<1>3. connect \in BOOLEAN
  OBVIOUS
<1> HIDE DEF connect
<1>4. stage \in ThreadCall
  BY <1>3 DEF ThreadCall, HubInv, HubTypes
<1>5. /\ stage.at \in {"replay", "connect", "on"}
      /\ latest # H!Empty => stage.at = "replay" /\ stage.current /\ stage.latest = latest
                             /\ (connect => stage.connect)
      /\ latest = H!Empty => (connect => stage.at = "connect")
  OBVIOUS
<1> HIDE DEF stage
<1>6. /\ thread' \in [Subscribers -> ThreadCall] /\ thread'[s] = stage
      /\ \A t \in Subscribers : t # s => thread'[t] = thread[t]
  BY <1>2, <1>4, Advanced DEF HubInv
<1>7. H!Connections' = H!Connections
  BY <1>1 DEF H!Connections
<1>8. HubTypes'
  <2>1. connecting' \in BOOLEAN
    BY <1>2, <1>3 DEF HubInv, HubTypes
  <2>2. ConnectionTypes'
    BY <1>1 DEF HubInv, HubTypes, ConnectionTypes
  <2> QED
    BY <1>1, <1>6, <1>7, <2>1, <2>2 DEF HubInv, HubTypes
<1>9. OwnedOnce'
  BY <1>1, <1>5, <1>6, <1>7 DEF HubInv, OwnedOnce, Making, Remaking, Taking
<1>10. Held'
  <2>1. \A t \in Subscribers, c \in H!Connections :
            (Making(t, c) => Making(t, c)') /\ (Taking(t, c) => Taking(t, c)')
    BY <1>1, <1>6 DEF Making, Taking
  <2> QED
    BY <1>1, <1>7, <2>1 DEF HubInv, Held, Unended, Remaking
<1>11. Listened'
  BY <1>1 DEF HubInv, Listened
<1>12. Served'
  <2>1. \A t \in Subscribers : Maker(t) => Maker(t)'
    BY <1>1, <1>6 DEF Maker
  <2>2. connect => Maker(s)'
    BY <1>5, <1>6 DEF Maker
  <2>3. \A c \in H!Connections : Remaker(c) <=> Remaker(c)'
    BY <1>1 DEF Remaker
  <2>4. connecting' => connecting \/ connect
    BY <1>2
  <2>5. connecting' => (\E t \in Subscribers : Maker(t)') \/ (\E c \in H!Connections : Remaker(c)')
    BY <2>1, <2>2, <2>3, <2>4 DEF HubInv, Served
  <2>6. connection = H!Empty => connecting'
    BY <1>2 DEF connect
  <2> QED
    BY <1>1, <1>7, <2>5, <2>6 DEF Served
<1>13. Useful'
  BY <1>1 DEF HubInv, Useful, H!Delivered
<1>14. Fresh'
  BY <1>1, <1>5, <1>6, <1>7 DEF HubInv, Fresh, Making, Remaking
<1>15. InOrder'
  BY <1>1, <1>7 DEF HubInv, InOrder, H!Delivered
<1>16. ToldLatest'
  <2>1. \A t \in Subscribers : t # s => (Replaying(t)' <=> Replaying(t))
    BY <1>6 DEF Replaying
  <2>2. latest # H!Empty => Replaying(s)' /\ thread'[s].latest = latest
    BY <1>5, <1>6 DEF Replaying
  <2>3. latest = H!Empty => thread'[s].at # "replay"
    <3>1. latest = H!Empty => stage.at # "replay"
      BY DEF stage
    <3> QED
      BY <1>6, <3>1
  <2>4. \A t \in Subscribers : thread'[t].at = "replay" => thread'[t].latest \in 0..source
    BY <1>6, <2>2, <2>3 DEF HubInv, HubTypes, ToldLatest
  <2>5. \A t \in observers' : t = s \/ t \in observers
    BY <1>1
  <2> QED
    BY <1>1, <1>6, <2>1, <2>2, <2>4, <2>5 DEF HubInv, HubTypes, ToldLatest
<1> QED
  BY <1>8, <1>9, <1>10, <1>11, <1>12, <1>13, <1>14, <1>15, <1>16 DEF HubInv

LEMMA HubReplayHolds == ASSUME HubInv, NEW s \in Subscribers, H!Replay(s) PROVE HubInv'
<1> DEFINE stage == [at |-> IF thread[s].connect THEN "connect" ELSE "on"]
<1>1. /\ thread[s].at = "replay"
      /\ given' = IF thread[s].current /\ s \in observers
                  THEN [given EXCEPT ![s] = thread[s].latest] ELSE given
      /\ UNCHANGED <<source, H!hub, connections, late, spent>> /\ H!Advance(s, stage)
  BY DEF H!Replay
<1>2. thread[s] \in ThreadCall /\ thread[s].connect \in BOOLEAN /\ thread[s].current \in BOOLEAN
  BY <1>1 DEF HubInv, HubTypes, ThreadCall
<1>3. /\ stage \in ThreadCall /\ stage.at \in {"connect", "on"}
      /\ thread[s].connect => stage.at = "connect"
  BY <1>2 DEF ThreadCall
<1> HIDE DEF stage
<1> USE DEF H!hub
<1>4. /\ thread' \in [Subscribers -> ThreadCall] /\ thread'[s] = stage
      /\ \A t \in Subscribers : t # s => thread'[t] = thread[t]
  BY <1>1, <1>3, Advanced DEF HubInv
<1>5. H!Connections' = H!Connections
  BY <1>1 DEF H!Connections
<1>6. HubTypes'
  <2>1. ConnectionTypes'
    BY <1>1 DEF HubInv, HubTypes, ConnectionTypes
  <2>2. thread[s].latest \in 0..source
    BY <1>1 DEF HubInv, ToldLatest
  <2>3. given' \in [Subscribers -> 0..source]
    BY <1>1, <2>2 DEF HubInv, HubTypes
  <2> QED
    BY <1>1, <1>4, <1>5, <2>1, <2>3 DEF HubInv, HubTypes
<1>7. OwnedOnce'
  BY <1>1, <1>3, <1>4, <1>5 DEF HubInv, OwnedOnce, Making, Remaking, Taking
<1>8. Held'
  <2>1. \A t \in Subscribers, c \in H!Connections :
            (Making(t, c) => Making(t, c)') /\ (Taking(t, c) => Taking(t, c)')
    BY <1>1, <1>4 DEF Making, Taking
  <2> QED
    BY <1>1, <1>5, <2>1 DEF HubInv, Held, Unended, Remaking
<1>9. Listened'
  BY <1>1 DEF HubInv, Listened
<1>10. Served'
  <2>1. \A t \in Subscribers : Maker(t) => Maker(t)'
    BY <1>1, <1>3, <1>4 DEF Maker
  <2>2. \A c \in H!Connections : Remaker(c) <=> Remaker(c)'
    BY <1>1 DEF Remaker
  <2> QED
    BY <1>1, <1>5, <2>1, <2>2 DEF HubInv, Served
<1>11. Useful' /\ Fresh'
  BY <1>1, <1>3, <1>4, <1>5 DEF HubInv, Useful, H!Delivered, Fresh, Making, Remaking
<1>12. InOrder'
  BY <1>1, <1>5 DEF HubInv, InOrder, H!Delivered
<1>13. ToldLatest'
  <2>1. \A t \in Subscribers : t # s => (Replaying(t) <=> Replaying(t)') /\ given'[t] = given[t]
    BY <1>1, <1>4 DEF Replaying, HubInv, HubTypes
  <2>2. ~Replaying(s)'
    BY <1>3, <1>4 DEF Replaying
  <2>3. latest # H!Empty /\ s \in observers => given'[s] = latest
    BY <1>1 DEF HubInv, HubTypes, ToldLatest, Replaying
  <2> QED
    BY <1>1, <1>3, <1>4, <2>1, <2>2, <2>3 DEF HubInv, HubTypes, ToldLatest
<1> QED
  BY <1>6, <1>7, <1>8, <1>9, <1>10, <1>11, <1>12, <1>13 DEF HubInv

LEMMA HubConnectHolds == ASSUME HubInv, NEW s \in Subscribers, H!Connect(s) PROVE HubInv'
<1>1. PICK n \in Nat : /\ OneMore(n) /\ \A d \in 1..n : connections'[d] = connections[d]
                       /\ thread' = [thread EXCEPT ![s] = [at |-> "store", made |-> n + 1]]
  BY ConnectGrows DEF HubInv
<1>2. thread[s].at = "connect" /\ UNCHANGED <<source, H!hub, given, late, spent>>
  BY DEF H!Connect
<1> USE DEF H!hub
<1>3. /\ thread' \in [Subscribers -> ThreadCall]
      /\ thread'[s].at = "store" /\ thread'[s].made = n + 1
      /\ \A t \in Subscribers : t # s => thread'[t] = thread[t]
  <2>1. [at |-> "store", made |-> n + 1] \in ThreadCall
    BY DEF ThreadCall
  <2> QED
    BY <1>1, <2>1 DEF HubInv, HubTypes
<1>4. /\ H!Connections = 1..n /\ H!Connections' = 1..(n + 1) /\ ConnectionTypes'
      /\ connections'[n + 1].at = "run" /\ connections'[n + 1].read = H!Empty
      /\ connections'[n + 1].got = H!Empty /\ ~connections'[n + 1].aborted
  BY <1>1, NewTaskIs DEF OneMore, NewIs
<1>5. /\ \A d \in H!Connections :
             d \in H!Connections' /\ d # n + 1 /\ connections'[d] = connections[d]
      /\ \A d \in H!Connections' : d \in H!Connections \/ d = n + 1
      /\ n + 1 \in H!Connections' /\ n + 1 # H!Empty /\ n + 1 \notin H!Connections
      /\ connection # n + 1
  BY <1>1, <1>4 DEF H!Empty, HubInv, HubTypes
<1>6. HubTypes'
  <2>1. \A c \in H!Connections' :
            connections'[c].got \in 0..source /\ connections'[c].read \in 0..source
    BY <1>4, <1>5 DEF HubInv, HubTypes, H!Empty
  <2> QED
    BY <1>2, <1>3, <1>4, <1>5, <2>1 DEF HubInv, HubTypes
<1>7. OwnedOnce'
  <2>1. \A t \in Subscribers, c \in H!Connections :
            (Making(t, c)' <=> Making(t, c)) /\ (Taking(t, c)' <=> Taking(t, c))
    BY <1>2, <1>3, <1>5 DEF Making, Taking
  <2>2. \A t \in Subscribers : (Making(t, n + 1)' <=> t = s) /\ ~Taking(t, n + 1)'
    BY <1>2, <1>3, <1>5 DEF Making, Taking, HubInv, OwnedOnce
  <2>3. \A d \in H!Connections, c \in H!Connections' :
            Remaking(d, c)' <=> c \in H!Connections /\ Remaking(d, c)
    BY <1>5 DEF Remaking, HubInv, OwnedOnce
  <2>4. \A c \in H!Connections' : ~Remaking(n + 1, c)'
    BY <1>4 DEF Remaking
  <2>5. \A t \in Subscribers : thread'[t].at = "store" => thread'[t].made \in H!Connections'
    BY <1>3, <1>5 DEF HubInv, OwnedOnce
  <2>6. \A d \in H!Connections' :
            connections'[d].at = "restore" => connections'[d].made \in H!Connections'
    BY <1>4, <1>5 DEF HubInv, OwnedOnce
  <2>7. \A t \in Subscribers : thread'[t].at = "disconnect" =>
            thread'[t].taken \in H!Connections' \cup {H!Empty}
    BY <1>3, <1>5 DEF HubInv, OwnedOnce
  <2>8. ASSUME NEW t \in Subscribers, NEW c \in H!Connections', Making(t, c)'
        PROVE  /\ c # connection /\ \A d \in H!Connections' : ~Remaking(d, c)'
               /\ \A u \in Subscribers : (Making(u, c)' => u = t) /\ ~Taking(u, c)'
    BY <1>5, <2>1, <2>2, <2>3, <2>4, <2>8 DEF HubInv, OwnedOnce
  <2>9. ASSUME NEW d \in H!Connections', NEW c \in H!Connections', Remaking(d, c)'
        PROVE  /\ c # connection /\ c # d /\ \A t \in Subscribers : ~Taking(t, c)'
               /\ \A e \in H!Connections' : Remaking(e, c)' => e = d
    BY <1>5, <2>1, <2>3, <2>4, <2>9 DEF HubInv, OwnedOnce
  <2>10. \A t \in Subscribers, c \in H!Connections' : Taking(t, c)' => c # connection
    BY <1>5, <2>1, <2>2 DEF HubInv, OwnedOnce
  <2> QED
    BY <1>2, <2>5, <2>6, <2>7, <2>8, <2>9, <2>10 DEF OwnedOnce
<1>8. Held'
  <2>1. \A t \in Subscribers, c \in H!Connections :
            (Making(t, c)' <=> Making(t, c)) /\ (Taking(t, c)' <=> Taking(t, c))
    BY <1>2, <1>3, <1>5 DEF Making, Taking
  <2>2. Making(s, n + 1)'
    BY <1>3 DEF Making
  <2>3. \A d, c \in H!Connections : Remaking(d, c)' <=> Remaking(d, c)
    BY <1>5 DEF Remaking
  <2>4. \A c \in H!Connections : Unended(c)' <=> Unended(c)
    BY <1>5 DEF Unended
  <2> QED
    BY <1>2, <1>5, <2>1, <2>2, <2>3, <2>4 DEF HubInv, Held
<1>9. Listened'
  BY <1>2 DEF HubInv, Listened
<1>10. Served'
  BY <1>2, <1>3 DEF HubInv, Served, Maker
<1>11. Useful'
  BY <1>2, <1>5 DEF HubInv, HubTypes, Useful, H!Delivered
<1>12. Fresh'
  <2>1. \A c \in H!Connections' : (\E t \in Subscribers : Making(t, c)') =>
            c = n + 1 \/ (\E t \in Subscribers : Making(t, c))
    BY <1>3 DEF Making
  <2>2. \A c \in H!Connections' : (\E d \in H!Connections' : Remaking(d, c)') =>
            \E d \in H!Connections : Remaking(d, c)
    BY <1>4, <1>5 DEF Remaking
  <2>3. \A d \in H!Connections : \A c \in H!Connections' : Remaking(d, c) => c \in H!Connections
    BY DEF Remaking, HubInv, OwnedOnce
  <2> QED
    BY <1>4, <1>5, <2>1, <2>2, <2>3 DEF HubInv, Fresh
<1>13. InOrder'
  <2>1. \A c \in H!Connections : H!Delivered(c)' <=> H!Delivered(c)
    BY <1>5 DEF H!Delivered
  <2>2. ~H!Delivered(n + 1)' /\ connections'[n + 1].read = H!Empty /\ connections'[n + 1].at = "run"
    BY <1>4 DEF H!Delivered
  <2> QED
    BY <1>2, <1>5, <2>1, <2>2 DEF HubInv, InOrder
<1>14. ToldLatest'
  BY <1>2, <1>3 DEF HubInv, HubTypes, ToldLatest, Replaying
<1> QED
  BY <1>6, <1>7, <1>8, <1>9, <1>10, <1>11, <1>12, <1>13, <1>14 DEF HubInv

\* Both ways to store a connection, of whoever made it.
LEMMA HubStoreHolds ==
    ASSUME HubInv, NEW n \in Nat, H!Connections = 1..n, NEW every \in [1..n -> Conn],
           NEW c \in H!Connections, H!Store(c, every), thread' \in [Subscribers -> ThreadCall],
           \A d \in H!Connections :
              \/ every[d] = connections[d]
              \/ /\ every[d].at = "ended" /\ every[d].read = H!Empty /\ every[d].got = H!Empty
                 /\ ~every[d].aborted /\ Remaking(d, c),
           \A t \in Subscribers :
              thread'[t] = thread[t] \/ (Making(t, c) /\ thread'[t].at = "on"),
           \/ \E t \in Subscribers : Making(t, c) /\ thread'[t].at = "on"
           \/ \E d \in H!Connections : Remaking(d, c) /\ every[d].at = "ended"
    PROVE  HubInv'
<1> DEFINE old == IF observers = {} THEN c ELSE connection
<1>1. /\ connecting' = FALSE /\ connections' = H!Aborting(old, every)
      /\ connection' = IF observers = {} THEN connection ELSE c
      /\ spent' = (IF observers = {} THEN spent ELSE spent \/ H!Spent(c))
      /\ UNCHANGED <<source, latest, observers, restarts, given, late>>
  BY DEF H!Store
<1>2. old \in (1..n) \cup {H!Empty} /\ connection \in (1..n) \cup {H!Empty}
  BY DEF HubInv, HubTypes
<1>3. Dropping(every, old)
  BY <1>1, <1>2, AbortDrops
<1>4. /\ ConnectionTypes' /\ H!Connections' = H!Connections
      /\ \A d \in H!Connections :
            /\ connections'[d].at = every[d].at /\ connections'[d].made = every[d].made
            /\ connections'[d].read = every[d].read /\ connections'[d].got = every[d].got
            /\ d # old => connections'[d].aborted = every[d].aborted
            /\ d = old => connections'[d].aborted
  BY <1>3 DEF Dropping, ConnectionTypes, H!Connections
<1>5. observers = {} => connection = H!Empty
  BY DEF HubInv, Listened
<1>6. c # H!Empty /\ c # connection /\ \A d \in H!Connections : d # H!Empty
  <2>1. c # connection
    BY DEF HubInv, OwnedOnce
  <2> QED
    BY <2>1 DEF H!Empty
<1>7. connection' = IF observers = {} THEN H!Empty ELSE c
  BY <1>1, <1>5
<1> HIDE DEF old
<1>8. \A t \in Subscribers, d \in H!Connections :
          /\ Making(t, d)' <=> Making(t, d) /\ d # c
          /\ Taking(t, d)' <=> Taking(t, d)
  <2>1. ASSUME NEW t \in Subscribers, NEW d \in H!Connections
        PROVE  (Making(t, d)' <=> Making(t, d) /\ d # c) /\ (Taking(t, d)' <=> Taking(t, d))
    <3>1. CASE thread'[t] = thread[t] /\ ~Making(t, c)
      BY <3>1 DEF Making, Taking
    <3>2. CASE Making(t, c) /\ thread'[t].at = "on"
      BY <3>2 DEF Making, Taking
    <3>3. CASE Making(t, c) /\ thread'[t].at # "on"
      <4>1. \A u \in Subscribers : Making(u, c) => u = t
        BY <3>3 DEF HubInv, OwnedOnce
      <4>2. \A e \in H!Connections : ~Remaking(e, c)
        BY <3>3 DEF HubInv, OwnedOnce
      <4> QED
        BY <3>3, <4>1, <4>2
    <3> QED
      BY <3>1, <3>2, <3>3
  <2> QED
    BY <2>1
<1>9. \A e, d \in H!Connections : Remaking(e, d)' <=> Remaking(e, d) /\ d # c
  <2>1. ASSUME NEW e \in H!Connections, NEW d \in H!Connections
        PROVE  Remaking(e, d)' <=> Remaking(e, d) /\ d # c
    <3>1. CASE every[e] = connections[e] /\ ~Remaking(e, c)
      BY <1>4, <3>1 DEF Remaking
    <3>2. CASE every[e].at = "ended" /\ Remaking(e, c)
      BY <1>4, <3>2 DEF Remaking
    <3>3. CASE Remaking(e, c) /\ every[e].at # "ended"
      <4>1. \A u \in H!Connections : Remaking(u, c) => u = e
        BY <3>3 DEF HubInv, OwnedOnce
      <4>2. \A u \in Subscribers : ~Making(u, c)
        BY <3>3 DEF HubInv, OwnedOnce
      <4> QED
        BY <3>3, <4>1, <4>2
    <3> QED
      BY <3>1, <3>2, <3>3
  <2> QED
    BY <2>1
<1>10. HubTypes'
  <2>1. \A d \in H!Connections' :
            connections'[d].got \in 0..source' /\ connections'[d].read \in 0..source'
    <3>1. 0 \in 0..source /\ \A d \in H!Connections : connections[d].got \in 0..source
                                                    /\ connections[d].read \in 0..source
      BY DEF HubInv, HubTypes
    <3>2. \A d \in H!Connections : /\ every[d].got \in {connections[d].got, 0}
                                  /\ every[d].read \in {connections[d].read, 0}
      BY DEF H!Empty
    <3>3. \A d \in H!Connections : every[d].got \in 0..source /\ every[d].read \in 0..source
      BY <3>1, <3>2
    <3> QED
      BY <1>1, <1>4, <3>3
  <2>2. spent' \in BOOLEAN
    <3>1. CASE observers = {}
      BY <1>1, <3>1 DEF HubInv, HubTypes
    <3>2. CASE observers # {}
      <4>1. PICK yes \in BOOLEAN : yes = (spent \/ H!Spent(c))
        OBVIOUS
      <4>2. spent' = (spent \/ H!Spent(c))
        BY <1>1, <3>2
      <4> QED
        BY <4>1, <4>2, Zenon
    <3> QED
      BY <3>1, <3>2
  <2>3. connection' \in H!Connections' \cup {H!Empty}
    BY <1>4, <1>7
  <2> QED
    BY <1>1, <1>4, <2>1, <2>2, <2>3 DEF HubInv, HubTypes
<1>11. OwnedOnce'
  <2>1. \A t \in Subscribers : thread'[t].at = "store" => thread'[t].made \in H!Connections
    BY DEF HubInv, OwnedOnce
  <2>2. \A t \in Subscribers : thread'[t].at = "disconnect" =>
            thread'[t].taken \in H!Connections \cup {H!Empty}
    BY DEF HubInv, OwnedOnce
  <2>3. \A d \in H!Connections :
            connections'[d].at = "restore" => connections'[d].made \in H!Connections
    BY <1>4 DEF HubInv, OwnedOnce
  <2>4. \A t \in Subscribers : ~Taking(t, c)
    BY DEF HubInv, OwnedOnce
  <2>5. ASSUME NEW t \in Subscribers, NEW d \in H!Connections, Making(t, d)'
        PROVE  /\ d # connection' /\ \A e \in H!Connections : ~Remaking(e, d)'
               /\ \A u \in Subscribers : (Making(u, d)' => u = t) /\ ~Taking(u, d)'
    BY <1>6, <1>7, <1>8, <1>9, <2>5 DEF HubInv, OwnedOnce
  <2>6. ASSUME NEW e \in H!Connections, NEW d \in H!Connections, Remaking(e, d)'
        PROVE  /\ d # connection' /\ d # e /\ \A t \in Subscribers : ~Taking(t, d)'
               /\ \A u \in H!Connections : Remaking(u, d)' => u = e
    BY <1>6, <1>7, <1>8, <1>9, <2>6 DEF HubInv, OwnedOnce
  <2>7. \A t \in Subscribers, d \in H!Connections : Taking(t, d)' => d # connection'
    BY <1>6, <1>7, <1>8, <2>4
  <2> QED
    BY <1>4, <2>1, <2>2, <2>3, <2>5, <2>6, <2>7 DEF OwnedOnce
<1>12. Held'
  <2>1. ASSUME NEW d \in H!Connections, Unended(d)', d # c
        PROVE  Unended(d) /\ d # connection
    <3>1. every[d] = connections[d] /\ d # old
      BY <1>4, <2>1 DEF Unended
    <3>2. d # connection
      BY <1>5, <1>6, <3>1 DEF old
    <3> QED
      BY <1>4, <2>1, <3>1, <3>2 DEF Unended
  <2>2. Unended(c)' => c = connection'
    BY <1>4, <1>7 DEF Unended, old
  <2> QED
    BY <1>4, <1>8, <1>9, <2>1, <2>2 DEF HubInv, Held
<1>13. Listened' /\ Served'
  BY <1>1, <1>6, <1>7 DEF Listened, Served
<1>14. ~Remaking(c, c) /\ every[c] = connections[c] /\ ~connections[c].aborted
  BY DEF HubInv, OwnedOnce, Fresh
<1>15. Useful'
  <2>1. ASSUME connection' # H!Empty, ~spent' PROVE connection' = c /\ c # old /\ ~H!Spent(c)
    BY <1>1, <1>6, <1>7, <2>1 DEF old
  <2>2. c # old => connections'[c].aborted = every[c].aborted /\ connections'[c].at = every[c].at
                   /\ connections'[c].read = every[c].read
    BY <1>4
  <2> QED
    BY <1>1, <1>14, <2>1, <2>2 DEF Useful, H!Spent, H!Delivered
<1>16. Fresh'
  <2>1. ASSUME NEW d \in H!Connections,
               \/ \E t \in Subscribers : Making(t, d)'
               \/ \E e \in H!Connections : Remaking(e, d)'
        PROVE  ~connections'[d].aborted
    <3>1. /\ \/ \E t \in Subscribers : Making(t, d)
             \/ \E e \in H!Connections : Remaking(e, d)
          /\ d # c
      BY <1>8, <1>9, <2>1
    <3>2. d # old
      BY <3>1 DEF HubInv, OwnedOnce, old
    <3>3. ~connections[d].aborted
      BY <3>1 DEF HubInv, Fresh
    <3> QED
      BY <1>4, <3>2, <3>3
  <2> QED
    BY <1>4, <2>1 DEF Fresh
<1>17. InOrder'
  <2>1. \A d \in H!Connections :
            connections'[d].read = connections[d].read \/ connections'[d].read = H!Empty
    BY <1>4
  <2>2. \A d \in H!Connections :
            H!Delivered(d)' => H!Delivered(d) /\ connections'[d].read = connections[d].read
    BY <1>4 DEF H!Delivered
  <2>3. \A d \in H!Connections : connections'[d].at \in {"value", "next"} =>
            connections'[d].got = connections'[d].read /\ connections'[d].got # H!Empty
    BY <1>4 DEF HubInv, InOrder
  <2> QED
    BY <1>1, <1>4, <2>1, <2>2, <2>3 DEF HubInv, InOrder
<1>18. ToldLatest'
  <2>1. \A t \in Subscribers : /\ Replaying(t)' <=> Replaying(t)
                               /\ thread'[t].at = "replay" => thread'[t] = thread[t]
    BY DEF Replaying, Making
  <2>2. \A t \in Subscribers : Replaying(t)' => thread'[t] = thread[t]
    BY <2>1 DEF Replaying
  <2>3. \A t \in Subscribers : thread'[t].at = "replay" => thread'[t].latest \in 0..source
    BY <2>1 DEF HubInv, ToldLatest
  <2> QED
    BY <1>1, <2>1, <2>2, <2>3 DEF HubInv, HubTypes, ToldLatest
<1> QED
  BY <1>10, <1>11, <1>12, <1>13, <1>15, <1>16, <1>17, <1>18 DEF HubInv

LEMMA HubStoreConnectionHolds ==
    ASSUME HubInv, NEW s \in Subscribers, H!StoreConnection(s) PROVE HubInv'
<1>1. PICK n \in Nat : connections \in [1..n -> Conn] /\ H!Connections = 1..n
  BY ConnectionNumbers DEF HubInv
<1>2. thread[s].at = "store" /\ H!Advance(s, [at |-> "on"]) /\ H!Store(thread[s].made, connections)
  BY DEF H!StoreConnection
<1>3. [at |-> "on"] \in ThreadCall
  BY DEF ThreadCall
<1>4. /\ thread' \in [Subscribers -> ThreadCall] /\ thread'[s].at = "on"
      /\ \A t \in Subscribers : t # s => thread'[t] = thread[t]
  BY <1>2, <1>3, Advanced DEF HubInv
<1>5. PICK c \in H!Connections : c = thread[s].made
  BY <1>2 DEF HubInv, OwnedOnce
<1>6. Making(s, c) /\ H!Store(c, connections)
  BY <1>2, <1>5 DEF Making
<1> QED
  BY <1>1, <1>4, <1>6, HubStoreHolds

LEMMA HubRestoreHolds == ASSUME HubInv, NEW d \in H!Connections, H!Restore(d) PROVE HubInv'
<1>1. PICK n \in Nat : connections \in [1..n -> Conn] /\ H!Connections = 1..n
  BY ConnectionNumbers DEF HubInv
<1>2. connections[d].at = "restore" /\ H!Store(connections[d].made, H!End(d)) /\ thread' = thread
  BY DEF H!Restore
<1>3. PICK c \in H!Connections : c = connections[d].made
  BY <1>2 DEF HubInv, OwnedOnce
<1>4. Remaking(d, c) /\ H!Store(c, H!End(d)) /\ thread' \in [Subscribers -> ThreadCall]
  BY <1>2, <1>3 DEF Remaking, HubInv, HubTypes
<1>5. /\ H!End(d) \in [1..n -> Conn]
      /\ \A e \in (1..n) \ {d} : H!End(d)[e] = connections[e]
      /\ H!End(d)[d].at = "ended" /\ H!End(d)[d].read = H!Empty /\ H!End(d)[d].got = H!Empty
      /\ ~H!End(d)[d].aborted
  BY <1>1, EndIs DEF HubInv
<1>6. \A e \in H!Connections :
         \/ H!End(d)[e] = connections[e]
         \/ /\ H!End(d)[e].at = "ended" /\ H!End(d)[e].read = H!Empty
            /\ H!End(d)[e].got = H!Empty /\ ~H!End(d)[e].aborted /\ Remaking(e, c)
  BY <1>1, <1>4, <1>5
<1>7. \A t \in Subscribers : thread'[t] = thread[t]
  BY <1>2
<1>8. \E e \in H!Connections : Remaking(e, c) /\ H!End(d)[e].at = "ended"
  BY <1>4, <1>5
<1>9. H!Store(c, H!End(d))
  BY <1>2, <1>3
<1> QED
  BY <1>1, <1>4, <1>5, <1>6, <1>7, <1>8, <1>9, HubStoreHolds

LEMMA HubUnsubscribeHolds == ASSUME HubInv, NEW s \in Subscribers, H!Unsubscribe(s) PROVE HubInv'
<1>1. /\ thread[s].at = "on" /\ observers' = observers \ {s}
      /\ UNCHANGED <<source, faults, connecting, restarts, given, connections, late, spent>>
  BY DEF H!Unsubscribe
<1>2. \/ /\ observers' = {} /\ latest' = H!Empty /\ connection' = H!Empty
         /\ H!Advance(s, [at |-> "disconnect", taken |-> connection])
      \/ /\ observers' # {} /\ UNCHANGED <<latest, connection>>
         /\ H!Advance(s, [at |-> "off"])
  BY DEF H!Unsubscribe
<1>3. /\ thread' \in [Subscribers -> ThreadCall]
      /\ \A t \in Subscribers : t # s => thread'[t] = thread[t]
      /\ \/ /\ observers' = {} /\ latest' = H!Empty /\ connection' = H!Empty
            /\ thread'[s].at = "disconnect" /\ thread'[s].taken = connection
         \/ /\ observers' # {} /\ UNCHANGED <<latest, connection>>
            /\ thread'[s].at = "off"
  <2>1. [at |-> "off"] \in ThreadCall
    BY DEF ThreadCall
  <2>2. PICK stage : stage = [at |-> "disconnect", taken |-> connection]
    OBVIOUS
  <2>3. stage \in ThreadCall /\ stage.at = "disconnect" /\ stage.taken = connection
    <3>1. connection \in Nat
      BY ConnectionNumbers DEF HubInv, HubTypes, H!Empty
    <3> QED
      BY <2>2, <3>1 DEF ThreadCall
  <2>4. CASE observers' # {}
    BY <1>2, <2>1, <2>4, Advanced DEF HubInv
  <2>5. CASE observers' = {}
    <3>1. H!Advance(s, stage) /\ latest' = H!Empty /\ connection' = H!Empty
      BY <1>2, <2>2, <2>5
    <3> QED
      BY <2>3, <2>5, <3>1, Advanced DEF HubInv
  <2> QED
    BY <2>4, <2>5
<1>4. H!Connections' = H!Connections /\ ConnectionTypes'
  BY <1>1 DEF H!Connections, HubInv, HubTypes, ConnectionTypes
<1>5. \A c \in H!Connections : c # H!Empty
  BY ConnectionNumbers DEF HubInv, H!Empty
<1>6. HubTypes'
  <2>1. latest' \in 0..source
    BY <1>3 DEF HubInv, HubTypes, H!Empty
  <2> QED
    BY <1>1, <1>3, <1>4, <2>1 DEF HubInv, HubTypes
<1>7. \A t \in Subscribers, c \in H!Connections :
          /\ Making(t, c)' <=> Making(t, c)
          /\ Taking(t, c)' <=> Taking(t, c) \/ (t = s /\ observers' = {} /\ c = connection)
  BY <1>1, <1>3, <1>5 DEF Making, Taking
<1>8. \A d, c \in H!Connections : Remaking(d, c)' <=> Remaking(d, c)
  BY <1>1 DEF Remaking
<1>9. OwnedOnce'
  <2>1. \A t \in Subscribers : thread'[t].at = "store" => thread'[t].made \in H!Connections
    BY <1>3 DEF HubInv, OwnedOnce
  <2>2. \A t \in Subscribers : thread'[t].at = "disconnect" =>
            thread'[t].taken \in H!Connections \cup {H!Empty}
    BY <1>3 DEF HubInv, OwnedOnce, HubTypes
  <2>3. \A d \in H!Connections :
            connections'[d].at = "restore" => connections'[d].made \in H!Connections
    BY <1>1 DEF HubInv, OwnedOnce
  <2>4. connection' = connection \/ connection' = H!Empty
    BY <1>3
  <2>5. ASSUME NEW t \in Subscribers, NEW d \in H!Connections, Making(t, d)'
        PROVE  /\ d # connection' /\ \A e \in H!Connections : ~Remaking(e, d)'
               /\ \A u \in Subscribers : (Making(u, d)' => u = t) /\ ~Taking(u, d)'
    BY <1>5, <1>7, <1>8, <2>4, <2>5 DEF HubInv, OwnedOnce
  <2>6. ASSUME NEW e \in H!Connections, NEW d \in H!Connections, Remaking(e, d)'
        PROVE  /\ d # connection' /\ d # e /\ \A t \in Subscribers : ~Taking(t, d)'
               /\ \A u \in H!Connections : Remaking(u, d)' => u = e
    BY <1>5, <1>7, <1>8, <2>4, <2>6 DEF HubInv, OwnedOnce
  <2>7. \A t \in Subscribers, d \in H!Connections : Taking(t, d)' => d # connection'
    BY <1>3, <1>5, <1>7 DEF HubInv, OwnedOnce
  <2> QED
    BY <1>4, <2>1, <2>2, <2>3, <2>5, <2>6, <2>7 DEF OwnedOnce
<1>10. Held'
  <2>1. \A c \in H!Connections : Unended(c)' <=> Unended(c)
    BY <1>1 DEF Unended
  <2>2. \A c \in H!Connections : c = connection => c = connection' \/ Taking(s, c)'
    BY <1>3, <1>7
  <2> QED
    BY <1>4, <1>7, <1>8, <2>1, <2>2 DEF HubInv, Held
<1>11. Listened'
  BY <1>3 DEF HubInv, Listened
<1>12. Served'
  <2>1. \A t \in Subscribers : Maker(t) => Maker(t)'
    BY <1>1, <1>3 DEF Maker
  <2>2. \A c \in H!Connections : Remaker(c)' <=> Remaker(c)
    BY <1>1 DEF Remaker
  <2> QED
    BY <1>1, <1>3, <1>4, <2>1, <2>2 DEF HubInv, Served
<1>13. Useful'
  BY <1>1, <1>3 DEF HubInv, Useful, H!Delivered
<1>14. Fresh'
  BY <1>1, <1>4, <1>7, <1>8 DEF HubInv, Fresh
<1>15. InOrder'
  BY <1>1, <1>3, <1>4 DEF HubInv, InOrder, H!Delivered
<1>16. ToldLatest'
  <2>1. \A t \in Subscribers : Replaying(t)' <=> Replaying(t)
    BY <1>1, <1>3 DEF Replaying
  <2>2. \A t \in Subscribers : thread'[t].at = "replay" => thread'[t] = thread[t]
    BY <1>3
  <2>3. ~Replaying(s)
    BY <1>1 DEF Replaying
  <2> QED
    BY <1>1, <1>3, <2>1, <2>2, <2>3 DEF HubInv, HubTypes, ToldLatest
<1> QED
  BY <1>6, <1>9, <1>10, <1>11, <1>12, <1>13, <1>14, <1>15, <1>16 DEF HubInv

LEMMA HubDisconnectHolds == ASSUME HubInv, NEW s \in Subscribers, H!Disconnect(s) PROVE HubInv'
<1>1. /\ thread[s].at = "disconnect" /\ connections' = H!Aborting(thread[s].taken, connections)
      /\ H!Advance(s, [at |-> "off"]) /\ UNCHANGED <<source, faults, H!hub, given, late, spent>>
  BY DEF H!Disconnect
<1> USE DEF H!hub
<1>2. PICK n \in Nat : connections \in [1..n -> Conn] /\ H!Connections = 1..n
  BY ConnectionNumbers DEF HubInv
<1>3. PICK old \in H!Connections \cup {H!Empty} : old = thread[s].taken
  BY <1>1 DEF HubInv, OwnedOnce
<1>4. Dropping(connections, old)
  BY <1>1, <1>2, <1>3, AbortDrops
<1>5. /\ ConnectionTypes' /\ H!Connections' = H!Connections
      /\ \A d \in H!Connections :
            /\ connections'[d].at = connections[d].at /\ connections'[d].made = connections[d].made
            /\ connections'[d].read = connections[d].read
            /\ connections'[d].got = connections[d].got
            /\ d # old => connections'[d].aborted = connections[d].aborted
            /\ d = old => connections'[d].aborted
  BY <1>2, <1>4 DEF Dropping, ConnectionTypes, H!Connections
<1>6. [at |-> "off"] \in ThreadCall
  BY DEF ThreadCall
<1>7. /\ thread' \in [Subscribers -> ThreadCall] /\ thread'[s].at = "off"
      /\ \A t \in Subscribers : t # s => thread'[t] = thread[t]
  BY <1>1, <1>6, Advanced DEF HubInv
<1>8. HubTypes'
  BY <1>1, <1>5, <1>7 DEF HubInv, HubTypes
<1>9. \A t \in Subscribers, c \in H!Connections :
          /\ Making(t, c)' <=> Making(t, c)
          /\ Taking(t, c)' <=> Taking(t, c) /\ t # s
  BY <1>1, <1>7 DEF Making, Taking
<1>10. \A d, c \in H!Connections : Remaking(d, c)' <=> Remaking(d, c)
  BY <1>5 DEF Remaking
<1>11. \A c \in H!Connections : Taking(s, c) <=> c = old
  BY <1>1, <1>3 DEF Taking
<1>12. OwnedOnce'
  <2>1. \A t \in Subscribers : thread'[t].at = "store" => thread'[t].made \in H!Connections
    BY <1>7 DEF HubInv, OwnedOnce
  <2>2. \A t \in Subscribers : thread'[t].at = "disconnect" =>
            thread'[t].taken \in H!Connections \cup {H!Empty}
    BY <1>7 DEF HubInv, OwnedOnce, HubTypes
  <2>3. \A d \in H!Connections :
            connections'[d].at = "restore" => connections'[d].made \in H!Connections
    BY <1>5 DEF HubInv, OwnedOnce
  <2>4. ASSUME NEW t \in Subscribers, NEW d \in H!Connections, Making(t, d)'
        PROVE  /\ d # connection' /\ \A e \in H!Connections : ~Remaking(e, d)'
               /\ \A u \in Subscribers : (Making(u, d)' => u = t) /\ ~Taking(u, d)'
    BY <1>1, <1>9, <1>10, <2>4 DEF HubInv, OwnedOnce
  <2>5. ASSUME NEW e \in H!Connections, NEW d \in H!Connections, Remaking(e, d)'
        PROVE  /\ d # connection' /\ d # e /\ \A t \in Subscribers : ~Taking(t, d)'
               /\ \A u \in H!Connections : Remaking(u, d)' => u = e
    BY <1>1, <1>9, <1>10, <2>5 DEF HubInv, OwnedOnce
  <2>6. \A t \in Subscribers, d \in H!Connections : Taking(t, d)' => d # connection'
    BY <1>1, <1>9 DEF HubInv, OwnedOnce
  <2> QED
    BY <1>5, <2>1, <2>2, <2>3, <2>4, <2>5, <2>6 DEF OwnedOnce
<1>13. Held'
  <2>1. \A c \in H!Connections : Unended(c)' => Unended(c) /\ c # old
    BY <1>5 DEF Unended
  <2>2. \A c \in H!Connections : c # old => ~Taking(s, c)
    BY <1>11
  <2> QED
    BY <1>1, <1>5, <1>9, <1>10, <2>1, <2>2 DEF HubInv, Held
<1>14. Listened'
  BY <1>1 DEF HubInv, Listened
<1>15. Served'
  <2>1. \A t \in Subscribers : Maker(t)' <=> Maker(t)
    BY <1>1, <1>7 DEF Maker
  <2>2. \A c \in H!Connections : /\ Remaker(c)' <=> Remaker(c)
                                 /\ connections'[c].at = connections[c].at
    BY <1>5 DEF Remaker
  <2> QED
    BY <1>1, <1>5, <2>1, <2>2 DEF HubInv, Served
<1>16. Useful'
  <2>1. connection # H!Empty => connection \in H!Connections /\ connection # old
    BY <1>11 DEF HubInv, HubTypes, OwnedOnce
  <2> QED
    BY <1>1, <1>5, <2>1 DEF HubInv, Useful, H!Delivered
<1>17. Fresh'
  <2>1. \A t \in Subscribers, c \in H!Connections : Making(t, c) => c # old
    BY <1>11 DEF HubInv, OwnedOnce
  <2>2. \A d, c \in H!Connections : Remaking(d, c) => c # old
    BY <1>11 DEF HubInv, OwnedOnce
  <2> QED
    BY <1>5, <1>9, <1>10, <2>1, <2>2 DEF HubInv, Fresh
<1>18. InOrder'
  BY <1>1, <1>5 DEF HubInv, InOrder, H!Delivered
<1>19. ToldLatest'
  <2>1. \A t \in Subscribers : Replaying(t)' <=> Replaying(t)
    BY <1>1, <1>7 DEF Replaying
  <2>2. \A t \in Subscribers : thread'[t].at = "replay" => thread'[t] = thread[t]
    BY <1>7
  <2>3. ~Replaying(s)
    BY <1>1 DEF Replaying
  <2> QED
    BY <1>1, <1>7, <2>1, <2>2, <2>3 DEF HubInv, HubTypes, ToldLatest
<1> QED
  BY <1>8, <1>12, <1>13, <1>14, <1>15, <1>16, <1>17, <1>18, <1>19 DEF HubInv

-----------------------------------------------------------------------------
(* The connections.                                                        *)

\* Nobody's connection changes hands when no task takes one up or lays it down.
Handed == /\ \A t \in Subscribers, c \in H!Connections :
                /\ Making(t, c)' <=> Making(t, c)
                /\ Taking(t, c)' <=> Taking(t, c)
          /\ \A d, c \in H!Connections : Remaking(d, c)' <=> Remaking(d, c)

LEMMA HubOwnedStays ==
    ASSUME HubInv, H!Connections' = H!Connections, Handed,
           \A t \in Subscribers : /\ thread'[t].at = thread[t].at
                                  /\ thread[t].at # "replay" => thread'[t] = thread[t],
           \A d \in H!Connections :
              \/ connections'[d].at # "restore"
              \/ /\ connections'[d].at = connections[d].at
                 /\ connections'[d].made = connections[d].made,
           connection' \in {connection, H!Empty}
    PROVE  OwnedOnce'
<1>1. \A c \in H!Connections : c # H!Empty
  BY ConnectionNumbers DEF HubInv, H!Empty
<1>2. \A t \in Subscribers : thread'[t].at = "store" => thread'[t].made \in H!Connections
  BY DEF HubInv, OwnedOnce
<1>3. \A t \in Subscribers : thread'[t].at = "disconnect" =>
          thread'[t].taken \in H!Connections \cup {H!Empty}
  BY DEF HubInv, OwnedOnce
<1>4. \A d \in H!Connections :
          connections'[d].at = "restore" => connections'[d].made \in H!Connections
  BY DEF HubInv, OwnedOnce
<1>5. ASSUME NEW t \in Subscribers, NEW d \in H!Connections, Making(t, d)'
      PROVE  /\ d # connection' /\ \A e \in H!Connections : ~Remaking(e, d)'
             /\ \A u \in Subscribers : (Making(u, d)' => u = t) /\ ~Taking(u, d)'
  BY <1>1, <1>5 DEF HubInv, OwnedOnce, Handed
<1>6. ASSUME NEW e \in H!Connections, NEW d \in H!Connections, Remaking(e, d)'
      PROVE  /\ d # connection' /\ d # e /\ \A t \in Subscribers : ~Taking(t, d)'
             /\ \A u \in H!Connections : Remaking(u, d)' => u = e
  BY <1>1, <1>6 DEF HubInv, OwnedOnce, Handed
<1>7. \A t \in Subscribers, d \in H!Connections : Taking(t, d)' => d # connection'
  BY <1>1 DEF HubInv, OwnedOnce, Handed
<1> QED
  BY <1>2, <1>3, <1>4, <1>5, <1>6, <1>7 DEF OwnedOnce

\* A task that goes on, and does nothing else.
LEMMA HubMoveHolds ==
    ASSUME HubInv, NEW c \in H!Connections, NEW a \in Stages, Moved(c, a),
           <<connections[c].at, a>> \in {<<"value", "next">>, <<"error", "fail">>,
                <<"run", "error">>, <<"run", "end">>, <<"fail", "terminate">>},
           UNCHANGED <<source, H!hub, thread, given, spent>>, late' = TRUE \/ late' = late
    PROVE  HubInv'
<1> USE DEF H!hub
<1>1. /\ ConnectionTypes' /\ H!Connections' = H!Connections
      /\ \A d \in H!Connections : d # c => connections'[d] = connections[d]
      /\ \A d \in H!Connections : /\ connections'[d].read = connections[d].read
                                  /\ connections'[d].got = connections[d].got
                                  /\ connections'[d].aborted = connections[d].aborted
                                  /\ connections'[d].made = connections[d].made
      /\ connections'[c].at = a
  BY DEF Moved
<1>2. /\ connections[c].at \in {"value", "error", "run", "fail"}
      /\ a \in {"next", "fail", "error", "end", "terminate"}
      /\ a = "next" <=> connections[c].at = "value"
  OBVIOUS
<1>3. HubTypes'
  BY <1>1 DEF HubInv, HubTypes
<1>4. Handed
  BY <1>1, <1>2 DEF Handed, Making, Taking, Remaking
<1>5. OwnedOnce'
  BY <1>1, <1>2, <1>4, HubOwnedStays
<1>6. Held'
  <2>1. \A d \in H!Connections : Unended(d)' => Unended(d)
    BY <1>1, <1>2 DEF Unended
  <2> QED
    BY <1>1, <1>4, <2>1 DEF HubInv, Held, Handed
<1>7. Listened'
  BY DEF HubInv, Listened
<1>8. Served'
  <2>1. \A t \in Subscribers : Maker(t)' <=> Maker(t)
    BY DEF Maker
  <2>2. \A d \in H!Connections : /\ Remaker(d)' <=> Remaker(d)
                                 /\ connections'[d].at = "restart" <=> connections[d].at = "restart"
    BY <1>1, <1>2 DEF Remaker
  <2> QED
    BY <1>1, <2>1, <2>2 DEF HubInv, Served
<1>9. \A d \in H!Connections : H!Delivered(d)' <=> H!Delivered(d)
  BY <1>1, <1>2 DEF H!Delivered
<1>10. Useful'
  <2>1. \A d \in H!Connections :
            connections'[d].at \in {"ended", "restart", "reconnect", "restore"} =>
            connections'[d].at = connections[d].at
    BY <1>1, <1>2
  <2> QED
    BY <1>1, <1>9, <2>1 DEF HubInv, HubTypes, Useful
<1>11. Fresh'
  BY <1>1, <1>4 DEF HubInv, Fresh, Handed
<1>12. InOrder'
  <2>1. \A d \in H!Connections : connections'[d].at \in {"value", "next"} =>
            connections[d].at \in {"value", "next"}
    BY <1>1, <1>2
  <2> QED
    BY <1>1, <1>9, <2>1 DEF HubInv, InOrder
<1>13. ToldLatest'
  BY DEF HubInv, ToldLatest, Replaying
<1> QED
  BY <1>3, <1>5, <1>6, <1>7, <1>8, <1>10, <1>11, <1>12, <1>13 DEF HubInv

\* A task that ends, and does nothing else.
LEMMA HubEndHolds ==
    ASSUME HubInv, NEW c \in H!Connections, connections' = H!End(c),
           connections[c].at \in {"value", "error", "restart"},
           observers = {} \/ connections[c].at = "restart",
           connections[c].at = "restart" => observers = {} \/ connection # H!Empty,
           UNCHANGED <<source, H!hub, thread, given, late, spent>>
    PROVE  HubInv'
<1> USE DEF H!hub
<1>1. PICK n \in Nat : connections \in [1..n -> Conn] /\ H!Connections = 1..n
  BY ConnectionNumbers DEF HubInv
<1>2. /\ connections' \in [1..n -> Conn]
      /\ \A e \in (1..n) \ {c} : connections'[e] = connections[e]
      /\ connections'[c].at = "ended" /\ connections'[c].read = H!Empty
      /\ connections'[c].got = H!Empty
      /\ ~connections'[c].aborted
  BY <1>1, EndIs DEF HubInv
<1>3. /\ ConnectionTypes' /\ H!Connections' = H!Connections
      /\ \A d \in H!Connections : d # c => connections'[d] = connections[d]
  BY <1>1, <1>2 DEF ConnectionTypes, H!Connections
<1>4. HubTypes'
  BY <1>2, <1>3 DEF HubInv, HubTypes, H!Empty
<1>5. Handed
  BY <1>2, <1>3 DEF Handed, Making, Taking, Remaking
<1>6. OwnedOnce'
  BY <1>2, <1>3, <1>5, HubOwnedStays
<1>7. Held'
  <2>1. \A d \in H!Connections : Unended(d)' => Unended(d)
    BY <1>2, <1>3 DEF Unended
  <2> QED
    BY <1>3, <1>5, <2>1 DEF HubInv, Held, Handed
<1>8. Listened'
  BY DEF HubInv, Listened
<1>9. Served'
  <2>1. \A t \in Subscribers : Maker(t)' <=> Maker(t)
    BY DEF Maker
  <2>2. \A d \in H!Connections : Remaker(d)' <=> Remaker(d)
    BY <1>2, <1>3 DEF Remaker
  <2>3. observers = {} \/ connection # H!Empty
    OBVIOUS
  <2> QED
    BY <1>3, <2>1, <2>2, <2>3 DEF HubInv, Served
<1>10. Useful'
  <2>1. connection # H!Empty /\ ~spent => connection # c
    BY DEF HubInv, Useful, Listened
  <2> QED
    BY <1>3, <2>1 DEF HubInv, HubTypes, Useful, H!Delivered
<1>11. Fresh'
  <2>1. \A d \in H!Connections : connections'[d].aborted => connections[d].aborted
    BY <1>2, <1>3
  <2> QED
    BY <1>3, <1>5, <2>1 DEF HubInv, Fresh, Handed
<1>12. InOrder'
  <2>1. \A d \in H!Connections : H!Delivered(d)' => d # c
    BY <1>2 DEF H!Delivered
  <2>2. \A d \in H!Connections : d # c => (H!Delivered(d)' <=> H!Delivered(d))
    BY <1>3 DEF H!Delivered
  <2>3. \A d \in H!Connections : connections'[d].read # H!Empty => d # c
    BY <1>2
  <2>4. \A d \in H!Connections : connections'[d].at \in {"value", "next"} => d # c
    BY <1>2
  <2> QED
    BY <1>3, <2>1, <2>2, <2>3, <2>4 DEF HubInv, InOrder
<1>13. ToldLatest'
  BY DEF HubInv, ToldLatest, Replaying
<1> QED
  BY <1>4, <1>6, <1>7, <1>8, <1>9, <1>10, <1>11, <1>12, <1>13 DEF HubInv

LEMMA HubFaultHolds ==
    ASSUME HubInv, NEW c \in H!Connections, NEW how \in {"error", "end"}, H!Fault(c, how)
    PROVE  HubInv'
<1>1. /\ connections[c].at = "run" /\ connections' = H!Goto(c, how)
      /\ UNCHANGED <<source, H!hub, thread, given, late, spent>>
  BY DEF H!Fault
<1>2. how \in Stages
  BY DEF Stages
<1>3. Moved(c, how)
  BY <1>1, <1>2, GotoMoves DEF HubInv
<1> QED
  BY <1>1, <1>2, <1>3, HubMoveHolds

LEMMA HubLookHolds == ASSUME HubInv, NEW c \in H!Connections, H!Look(c) PROVE HubInv'
<1>1. /\ connections[c].at \in {"value", "error"}
      /\ UNCHANGED <<source, H!hub, thread, given, late, spent>>
  BY DEF H!Look
<1>2. CASE observers = {}
  <2>1. connections' = H!End(c)
    BY <1>2 DEF H!Look
  <2> QED
    BY <1>1, <1>2, <2>1, HubEndHolds
<1>3. CASE observers # {}
  <2>1. PICK a \in Stages : /\ a = IF connections[c].at = "value" THEN "next" ELSE "fail"
                            /\ connections' = H!Goto(c, a)
    BY <1>3 DEF H!Look, Stages
  <2>2. Moved(c, a)
    BY <2>1, GotoMoves DEF HubInv
  <2> QED
    BY <1>1, <2>1, <2>2, HubMoveHolds
<1> QED
  BY <1>2, <1>3

LEMMA HubFetchHolds == ASSUME HubInv, NEW c \in H!Connections, H!Fetch(c) PROVE HubInv'
<1>1. /\ connections[c].at = "run" /\ ~connections[c].aborted
      /\ UNCHANGED <<source, faults, H!hub, thread, given, late, spent>>
  BY DEF H!Fetch
<1> USE DEF H!hub
<1>2. PICK n \in Nat : connections \in [1..n -> Conn] /\ H!Connections = 1..n
  BY ConnectionNumbers DEF HubInv
<1>3. PICK mid : mid = [connections EXCEPT ![c].at = "value"]
  OBVIOUS
<1>4. PICK mine : mine = [mid EXCEPT ![c].got = source]
  OBVIOUS
<1>5. connections' = [mine EXCEPT ![c].read = source]
  BY <1>3, <1>4, Zenon DEF H!Fetch
<1>6. source \in Nat /\ source # H!Empty
  BY DEF HubInv, HubTypes, H!Empty
<1>7. mid \in [1..n -> Conn] /\ mid[c].at = "value" /\ mid[c].made = connections[c].made
      /\ mid[c].aborted = connections[c].aborted /\ \A d \in 1..n : d # c => mid[d] = connections[d]
  BY <1>2, <1>3 DEF Conn, Stages
<1>8. /\ mine \in [1..n -> Conn] /\ mine[c].at = "value" /\ mine[c].made = connections[c].made
      /\ mine[c].aborted = connections[c].aborted /\ mine[c].got = source
      /\ \A d \in 1..n : d # c => mine[d] = connections[d]
  BY <1>2, <1>4, <1>6, <1>7 DEF Conn
<1>9. /\ connections' \in [1..n -> Conn] /\ connections'[c].at = "value"
      /\ connections'[c].made = connections[c].made
      /\ connections'[c].aborted = connections[c].aborted /\ connections'[c].got = source
      /\ connections'[c].read = source
      /\ \A d \in 1..n : d # c => connections'[d] = connections[d]
  BY <1>2, <1>5, <1>6, <1>8 DEF Conn
<1>10. /\ ConnectionTypes' /\ H!Connections' = H!Connections
       /\ \A d \in H!Connections : d # c => connections'[d] = connections[d]
  BY <1>2, <1>9 DEF ConnectionTypes, H!Connections
<1>11. HubTypes'
  BY <1>1, <1>6, <1>9, <1>10 DEF HubInv, HubTypes
<1>12. Handed
  BY <1>1, <1>9, <1>10 DEF Handed, Making, Taking, Remaking
<1>13. OwnedOnce'
  BY <1>1, <1>9, <1>10, <1>12, HubOwnedStays
<1>14. Held'
  <2>1. \A d \in H!Connections : Unended(d)' => Unended(d)
    BY <1>1, <1>9, <1>10 DEF Unended
  <2> QED
    BY <1>1, <1>10, <1>12, <2>1 DEF HubInv, Held, Handed
<1>15. Listened'
  BY <1>1 DEF HubInv, Listened
<1>16. Served'
  <2>1. \A t \in Subscribers : Maker(t)' <=> Maker(t)
    BY <1>1 DEF Maker
  <2>2. \A d \in H!Connections : /\ Remaker(d)' <=> Remaker(d)
                                 /\ connections'[d].at = "restart" <=> connections[d].at = "restart"
    BY <1>1, <1>9, <1>10 DEF Remaker
  <2> QED
    BY <1>1, <1>10, <2>1, <2>2 DEF HubInv, Served
<1>17. \A d \in H!Connections : /\ H!Delivered(d)' => d # c
                               /\ d # c => (H!Delivered(d)' <=> H!Delivered(d))
  BY <1>9, <1>10 DEF H!Delivered
<1>18. Useful'
  <2>1. connection = c => connections'[connection].at = "value" /\ ~connections'[connection].aborted
    BY <1>1, <1>9
  <2>2. connection # H!Empty /\ connection # c =>
            connection \in H!Connections /\ connections'[connection] = connections[connection]
    BY <1>10 DEF HubInv, HubTypes
  <2> QED
    BY <1>1, <1>17, <2>1, <2>2 DEF HubInv, HubTypes, Useful, H!Delivered
<1>19. Fresh'
  <2>1. \A d \in H!Connections : connections'[d].aborted = connections[d].aborted
    BY <1>9, <1>10
  <2> QED
    BY <1>10, <1>12, <2>1 DEF HubInv, Fresh, Handed
<1>20. InOrder'
  <2>1. \A d \in H!Connections : connections[d].read <= source
    BY DEF HubInv, HubTypes
  <2>2. \A d \in H!Connections : connections'[d].at \in {"value", "next"} =>
            connections'[d].got = connections'[d].read /\ connections'[d].got # H!Empty
    BY <1>6, <1>9, <1>10 DEF HubInv, InOrder
  <2>3. ASSUME ~late, NEW d \in H!Connections, NEW e \in H!Connections, d < e, H!Delivered(d)',
               connections'[e].read # H!Empty
        PROVE  connections'[d].read <= connections'[e].read
    <3>1. d # c /\ H!Delivered(d) /\ connections'[d].read = connections[d].read
      BY <1>9, <1>10, <2>3 DEF H!Delivered
    <3>2. CASE e = c
      BY <1>9, <2>1, <3>1, <3>2
    <3>3. CASE e # c
      BY <1>10, <2>3, <3>1, <3>3 DEF HubInv, InOrder
    <3> QED
      BY <3>2, <3>3
  <2>4. ~late /\ latest # H!Empty => \A d \in H!Connections :
            H!Delivered(d)' => connections'[d].read <= latest
    BY <1>9, <1>10 DEF HubInv, InOrder, H!Delivered
  <2> QED
    BY <1>1, <1>10, <2>2, <2>3, <2>4 DEF InOrder
<1>21. ToldLatest'
  BY <1>1 DEF HubInv, ToldLatest, Replaying
<1> QED
  BY <1>11, <1>13, <1>14, <1>15, <1>16, <1>18, <1>19, <1>20, <1>21 DEF HubInv

LEMMA HubBroadcastHolds ==
    ASSUME HubBounds, HubInv, NEW c \in H!Connections, H!BroadcastNext(c) PROVE HubInv'
<1>1. /\ connections[c].at = "next" /\ restarts' = 0 /\ latest' = connections[c].got
      /\ given' = [s \in Subscribers |-> IF s \in observers THEN connections[c].got ELSE given[s]]
      /\ thread' = [s \in Subscribers |->
                        IF thread[s].at = "replay" THEN [thread[s] EXCEPT !.current = FALSE]
                        ELSE thread[s]]
      /\ connections' = H!Goto(c, "run")
      /\ UNCHANGED <<source, observers, connecting, connection, spent>>
  BY DEF H!BroadcastNext
<1>2. late' \in BOOLEAN /\ (~late' => ~late /\ \A d \in H!Connections : ~(d > c))
  <2>1. PICK yes \in BOOLEAN : yes = (late \/ H!Superseded(c))
    OBVIOUS
  <2>2. late' = (late \/ H!Superseded(c))
    BY DEF H!BroadcastNext
  <2>3. late' = yes
    BY <2>1, <2>2, Zenon
  <2> QED
    BY <2>1, <2>3 DEF H!Superseded
<1>3. Moved(c, "run")
  BY <1>1, GotoMoves DEF HubInv, Stages
<1>4. /\ ConnectionTypes' /\ H!Connections' = H!Connections
      /\ \A d \in H!Connections : d # c => connections'[d] = connections[d]
      /\ \A d \in H!Connections : /\ connections'[d].read = connections[d].read
                                  /\ connections'[d].got = connections[d].got
                                  /\ connections'[d].aborted = connections[d].aborted
                                  /\ connections'[d].made = connections[d].made
      /\ connections'[c].at = "run"
  BY <1>3 DEF Moved
<1>5. /\ connections[c].got = connections[c].read /\ connections[c].got # H!Empty
      /\ connections[c].got \in 0..source
  BY <1>1 DEF HubInv, InOrder, HubTypes
<1>6. /\ thread' \in [Subscribers -> ThreadCall]
      /\ \A t \in Subscribers :
            /\ thread'[t].at = thread[t].at
            /\ thread[t].at # "replay" => thread'[t] = thread[t]
            /\ thread[t].at = "replay" => /\ ~thread'[t].current
                                         /\ thread'[t].latest = thread[t].latest
                                         /\ thread'[t].connect = thread[t].connect
  <2>1. \A t \in Subscribers :
            thread'[t] = IF thread[t].at = "replay" THEN [thread[t] EXCEPT !.current = FALSE]
                         ELSE thread[t]
    BY <1>1
  <2>2. ASSUME NEW t \in Subscribers
        PROVE  /\ thread'[t] \in ThreadCall /\ thread'[t].at = thread[t].at
               /\ thread[t].at # "replay" => thread'[t] = thread[t]
               /\ thread[t].at = "replay" => /\ ~thread'[t].current
                                            /\ thread'[t].latest = thread[t].latest
                                            /\ thread'[t].connect = thread[t].connect
    <3>1. thread[t] \in ThreadCall
      BY DEF HubInv, HubTypes
    <3>2. CASE thread[t].at = "replay"
      <4>1. thread[t] \in [at : {"replay"}, latest : Nat, current : BOOLEAN, connect : BOOLEAN]
        BY <3>1, <3>2 DEF ThreadCall
      <4>2. thread'[t] = [thread[t] EXCEPT !.current = FALSE]
        BY <2>1, <3>2
      <4>3. /\ thread'[t] \in [at : {"replay"}, latest : Nat, current : BOOLEAN,
                               connect : BOOLEAN]
            /\ ~thread'[t].current /\ thread'[t].latest = thread[t].latest
            /\ thread'[t].connect = thread[t].connect /\ thread'[t].at = "replay"
        BY <4>1, <4>2
      <4> QED
        BY <3>2, <4>3 DEF ThreadCall
    <3>3. CASE thread[t].at # "replay"
      BY <2>1, <3>1, <3>3
    <3> QED
      BY <3>2, <3>3
  <2>3. DOMAIN thread' = Subscribers /\ thread' = [t \in Subscribers |-> thread'[t]]
    BY <1>1
  <2> QED
    BY <2>2, <2>3
<1>7. HubTypes'
  <2>1. given' \in [Subscribers -> 0..source]
    BY <1>1, <1>5 DEF HubInv, HubTypes
  <2>2. restarts' \in 0..MaxRestarts
    BY <1>1 DEF HubBounds
  <2>3. late' \in BOOLEAN /\ latest' \in 0..source
    BY <1>1, <1>2, <1>5
  <2> QED
    BY <1>1, <1>4, <1>6, <2>1, <2>2, <2>3 DEF HubInv, HubTypes
<1>8. Handed
  BY <1>1, <1>4, <1>6 DEF Handed, Making, Taking, Remaking
<1>9. OwnedOnce'
  BY <1>1, <1>4, <1>6, <1>8, HubOwnedStays
<1>10. Held'
  <2>1. \A d \in H!Connections : Unended(d)' => Unended(d)
    BY <1>1, <1>4 DEF Unended
  <2> QED
    BY <1>1, <1>4, <1>8, <2>1 DEF HubInv, Held, Handed
<1>11. Listened'
  BY <1>1 DEF HubInv, Listened
<1>12. Served'
  <2>1. \A t \in Subscribers : Maker(t)' <=> Maker(t)
    BY <1>6 DEF Maker
  <2>2. \A d \in H!Connections : /\ Remaker(d)' <=> Remaker(d)
                                 /\ connections'[d].at = "restart" <=> connections[d].at = "restart"
    BY <1>1, <1>4 DEF Remaker
  <2> QED
    BY <1>1, <1>4, <2>1, <2>2 DEF HubInv, Served
<1>13. latest' # H!Empty
  BY <1>1, <1>5
<1>14. Useful'
  BY <1>1, <1>4, <1>13 DEF HubInv, HubTypes, Useful
<1>15. Fresh'
  BY <1>4, <1>8 DEF HubInv, Fresh, Handed
<1>16. InOrder'
  <2>1. \A d \in H!Connections : H!Delivered(d)' => d = c \/ H!Delivered(d)
    BY <1>4 DEF H!Delivered
  <2>2. \A d \in H!Connections : connections'[d].at \in {"value", "next"} =>
            connections'[d].got = connections'[d].read /\ connections'[d].got # H!Empty
    BY <1>4 DEF HubInv, InOrder
  <2>3. \A d \in H!Connections : d \in Nat /\ connections[d].read \in Nat
    BY ConnectionNumbers DEF HubInv, Conn
  <2>4. ASSUME ~late', NEW d \in H!Connections, NEW e \in H!Connections, d < e, H!Delivered(d)',
               connections'[e].read # H!Empty
        PROVE  connections'[d].read <= connections'[e].read
    <3>1. d # c
      BY <1>2, <2>3, <2>4
    <3>2. H!Delivered(d)
      BY <1>4, <2>4, <3>1 DEF H!Delivered
    <3> QED
      BY <1>2, <1>4, <2>4, <3>2 DEF HubInv, InOrder
  <2>5. ASSUME ~late', NEW d \in H!Connections, H!Delivered(d)'
        PROVE  connections'[d].read <= latest'
    <3>1. CASE d = c
      BY <1>1, <1>4, <1>5, <2>3, <3>1
    <3>2. CASE d # c
      <4>1. d < c
        BY <1>2, <2>3, <2>5, <3>2
      <4>2. H!Delivered(d)
        BY <1>4, <2>5, <3>2 DEF H!Delivered
      <4> QED
        BY <1>1, <1>2, <1>4, <1>5, <2>5, <4>1, <4>2 DEF HubInv, InOrder
    <3> QED
      BY <3>1, <3>2
  <2> QED
    BY <1>4, <2>2, <2>4, <2>5 DEF InOrder
<1>17. ToldLatest'
  <2>1. \A t \in Subscribers : ~Replaying(t)'
    BY <1>6 DEF Replaying
  <2>2. \A t \in observers : given'[t] = latest'
    BY <1>1 DEF HubInv, HubTypes
  <2>3. \A t \in Subscribers : thread'[t].at = "replay" => thread'[t].latest \in 0..source
    BY <1>6 DEF HubInv, ToldLatest
  <2> QED
    BY <1>1, <2>1, <2>2, <2>3 DEF ToldLatest
<1> QED
  BY <1>7, <1>9, <1>10, <1>11, <1>12, <1>14, <1>15, <1>16, <1>17 DEF HubInv

\* The connection is dropped, of a task that ends or restarts.
LEMMA HubDropHolds ==
    ASSUME HubInv, NEW c \in H!Connections, NEW n \in Nat, H!Connections = 1..n,
           NEW every \in [1..n -> Conn], connections' = H!Aborting(connection, every),
           connections[c].at \in {"end", "fail", "terminate"},
           \A d \in H!Connections : d # c => every[d] = connections[d],
           \/ /\ every[c].at = "ended" /\ every[c].read = H!Empty /\ every[c].got = H!Empty
              /\ ~every[c].aborted /\ observers' = {} /\ latest' = H!Empty
           \/ /\ connections[c].at = "fail" /\ every[c].at = "restart"
              /\ every[c].aborted = connections[c].aborted
              /\ every[c].read = connections[c].read /\ every[c].got = connections[c].got
              /\ UNCHANGED <<latest, observers>>,
           connecting' = FALSE, connection' = H!Empty, restarts' \in 0..MaxRestarts,
           late' = (late \/ H!Superseded(c)), UNCHANGED <<source, thread, given, spent>>
    PROVE  HubInv'
<1>1. connection \in (1..n) \cup {H!Empty} /\ \A d \in H!Connections : d # H!Empty
  BY DEF HubInv, HubTypes, H!Empty
<1>2. Dropping(every, connection)
  BY <1>1, AbortDrops
<1>3. /\ ConnectionTypes' /\ H!Connections' = H!Connections
      /\ \A d \in H!Connections :
            /\ connections'[d].at = every[d].at /\ connections'[d].made = every[d].made
            /\ connections'[d].read = every[d].read /\ connections'[d].got = every[d].got
            /\ d # connection => connections'[d].aborted = every[d].aborted
            /\ d = connection => connections'[d].aborted
  BY <1>2 DEF Dropping, ConnectionTypes, H!Connections
<1>4. late' \in BOOLEAN /\ (~late' => ~late)
  <2>1. PICK yes \in BOOLEAN : yes = (late \/ H!Superseded(c))
    OBVIOUS
  <2>2. late' = yes
    BY <2>1, Zenon
  <2> QED
    BY <2>1, <2>2
<1>5. HubTypes'
  <2>1. \A d \in H!Connections' :
            connections'[d].got \in 0..source' /\ connections'[d].read \in 0..source'
    <3>1. 0 \in 0..source /\ \A d \in H!Connections : connections[d].got \in 0..source
                                                    /\ connections[d].read \in 0..source
      BY DEF HubInv, HubTypes
    <3>2. \A d \in H!Connections :
              every[d].got \in {connections[d].got, 0} /\ every[d].read \in {connections[d].read, 0}
      <4>1. every[c].got \in {connections[c].got, 0} /\ every[c].read \in {connections[c].read, 0}
        BY DEF H!Empty
      <4> QED
        BY <4>1
    <3>3. \A d \in H!Connections : every[d].got \in 0..source /\ every[d].read \in 0..source
      BY <3>1, <3>2
    <3> QED
      BY <1>3, <3>3
  <2>2. latest' \in 0..source' /\ observers' \subseteq Subscribers
    BY DEF HubInv, HubTypes, H!Empty
  <2>3. connecting' \in BOOLEAN /\ connection' \in H!Connections' \cup {H!Empty}
    OBVIOUS
  <2> QED
    BY <1>3, <1>4, <2>1, <2>2, <2>3 DEF HubInv, HubTypes
<1>6. Handed
  BY <1>3 DEF Handed, Making, Taking, Remaking
<1>7. OwnedOnce'
  BY <1>3, <1>6, HubOwnedStays
<1>8. Held'
  <2>1. \A d \in H!Connections : Unended(d)' => Unended(d) /\ d # connection
    BY <1>3 DEF Unended
  <2> QED
    BY <1>3, <1>6, <2>1 DEF HubInv, Held, Handed
<1>9. Listened' /\ Useful'
  BY DEF Listened, Useful
<1>10. Served'
  <2>1. observers' # {} => connections'[c].at = "restart"
    BY <1>3
  <2> QED
    BY <1>3, <2>1 DEF Served
<1>11. Fresh'
  <2>1. ASSUME NEW d \in H!Connections,
               \/ \E t \in Subscribers : Making(t, d)
               \/ \E e \in H!Connections : Remaking(e, d)
        PROVE  ~connections'[d].aborted
    <3>1. d # connection /\ ~connections[d].aborted
      BY <2>1 DEF HubInv, OwnedOnce, Fresh
    <3>2. d = c \/ every[d] = connections[d]
      OBVIOUS
    <3> QED
      BY <1>3, <3>1, <3>2
  <2> QED
    BY <1>3, <1>6, <2>1 DEF Fresh, Handed
<1>12. InOrder'
  <2>1. \A d \in H!Connections : H!Delivered(d)' =>
            H!Delivered(d) /\ connections'[d].read = connections[d].read
    BY <1>3 DEF H!Delivered
  <2>2. \A d \in H!Connections :
            connections'[d].read # H!Empty => connections'[d].read = connections[d].read
    BY <1>3
  <2>3. \A d \in H!Connections : connections'[d].at \in {"value", "next"} =>
            connections'[d].got = connections'[d].read /\ connections'[d].got # H!Empty
    BY <1>3 DEF HubInv, InOrder
  <2>4. latest' # H!Empty => latest' = latest
    OBVIOUS
  <2> QED
    BY <1>3, <1>4, <2>1, <2>2, <2>3, <2>4 DEF HubInv, InOrder
<1>13. ToldLatest'
  <2>1. latest' # H!Empty => latest' = latest /\ observers' = observers
    OBVIOUS
  <2> QED
    BY <2>1 DEF HubInv, ToldLatest, Replaying
<1> QED
  BY <1>5, <1>7, <1>8, <1>9, <1>10, <1>11, <1>12, <1>13 DEF HubInv

LEMMA HubReleaseHolds ==
    ASSUME HubInv, NEW c \in H!Connections, connections[c].at \in {"end", "terminate"}, H!Release(c)
    PROVE  HubInv'
<1>1. PICK n \in Nat : connections \in [1..n -> Conn] /\ H!Connections = 1..n
  BY ConnectionNumbers DEF HubInv
<1>2. /\ H!End(c) \in [1..n -> Conn]
      /\ \A e \in (1..n) \ {c} : H!End(c)[e] = connections[e]
      /\ H!End(c)[c].at = "ended" /\ H!End(c)[c].read = H!Empty /\ H!End(c)[c].got = H!Empty
      /\ ~H!End(c)[c].aborted
  BY <1>1, EndIs DEF HubInv
<1>3. /\ latest' = H!Empty /\ connecting' = FALSE /\ connection' = H!Empty /\ observers' = {}
      /\ connections' = H!Aborting(connection, H!End(c)) /\ late' = (late \/ H!Superseded(c))
      /\ UNCHANGED <<source, thread, given, spent>>
  BY DEF H!Release
<1>4. restarts' \in 0..MaxRestarts
  BY DEF H!Release, HubInv, HubTypes
<1> QED
  BY <1>1, <1>2, <1>3, <1>4, HubDropHolds

LEMMA HubErrorHolds ==
    ASSUME HubBounds, HubInv, NEW c \in H!Connections, H!NoteUpstreamError(c) PROVE HubInv'
<1>1. connections[c].at = "fail" /\ late' = (late \/ H!Superseded(c))
      /\ UNCHANGED <<source, faults, latest, observers, thread, given, spent>>
  BY DEF H!NoteUpstreamError
<1>2. CASE restarts < MaxRestarts
  <2>1. /\ restarts' = restarts + 1 /\ connecting' = FALSE /\ connection' = H!Empty
        /\ connections' = H!Aborting(connection, H!Goto(c, "restart"))
    BY <1>2 DEF H!NoteUpstreamError
  <2>2. PICK n \in Nat : connections \in [1..n -> Conn] /\ H!Connections = 1..n
    BY ConnectionNumbers DEF HubInv
  <2>3. PICK every : every = H!Goto(c, "restart")
    OBVIOUS
  <2>4. /\ every \in [1..n -> Conn] /\ every[c].at = "restart"
        /\ every[c].aborted = connections[c].aborted
        /\ every[c].read = connections[c].read /\ every[c].got = connections[c].got
        /\ \A d \in H!Connections : d # c => every[d] = connections[d]
    BY <2>2, <2>3 DEF H!Goto, Conn, Stages
  <2>5. restarts' \in 0..MaxRestarts
    BY <1>2, <2>1 DEF HubBounds, HubInv, HubTypes
  <2> QED
    BY <1>1, <2>1, <2>2, <2>3, <2>4, <2>5, HubDropHolds
<1>3. CASE ~(restarts < MaxRestarts)
  <2>1. connections' = H!Goto(c, "terminate") /\ UNCHANGED <<restarts, connecting, connection>>
    BY <1>3 DEF H!NoteUpstreamError
  <2>2. Moved(c, "terminate") /\ "terminate" \in Stages
    BY <2>1, GotoMoves DEF HubInv, Stages
  <2>3. late' = TRUE \/ late' = late
    BY <1>1 DEF HubInv, HubTypes
  <2> QED
    BY <1>1, <2>1, <2>2, <2>3, HubMoveHolds DEF H!hub
<1> QED
  BY <1>2, <1>3

LEMMA HubRestartHolds == ASSUME HubInv, NEW c \in H!Connections, H!RestartUpstream(c) PROVE HubInv'
<1>1. /\ connections[c].at = "restart"
      /\ UNCHANGED <<source, latest, observers, connection, restarts, thread, given, late, spent>>
  BY DEF H!RestartUpstream
<1>2. CASE observers = {} \/ connection # H!Empty
  <2>1. connections' = H!End(c) /\ connecting' = connecting
    BY <1>2 DEF H!RestartUpstream
  <2> QED
    BY <1>1, <1>2, <2>1, HubEndHolds DEF H!hub
<1>3. CASE observers # {} /\ connection = H!Empty
  <2>1. connections' = H!Goto(c, "reconnect") /\ connecting' = TRUE
    BY <1>3 DEF H!RestartUpstream
  <2>2. Moved(c, "reconnect")
    BY <2>1, GotoMoves DEF HubInv, Stages
  <2>3. /\ ConnectionTypes' /\ H!Connections' = H!Connections
        /\ \A d \in H!Connections : d # c => connections'[d] = connections[d]
        /\ \A d \in H!Connections :
              /\ connections'[d].read = connections[d].read
              /\ connections'[d].got = connections[d].got
              /\ connections'[d].aborted = connections[d].aborted
              /\ connections'[d].made = connections[d].made
        /\ connections'[c].at = "reconnect"
    BY <2>2 DEF Moved
  <2>4. HubTypes'
    BY <1>1, <2>1, <2>3 DEF HubInv, HubTypes
  <2>5. Handed
    BY <1>1, <2>3 DEF Handed, Making, Taking, Remaking
  <2>6. OwnedOnce'
    BY <1>1, <2>3, <2>5, HubOwnedStays
  <2>7. Held'
    <3>1. \A d \in H!Connections : Unended(d)' => Unended(d)
      BY <1>1, <2>3 DEF Unended
    <3> QED
      BY <1>1, <2>3, <2>5, <3>1 DEF HubInv, Held, Handed
  <2>8. Listened' /\ Useful'
    BY <1>1, <1>3 DEF Listened, Useful
  <2>9. Served'
    <3>1. Remaker(c)'
      BY <2>3 DEF Remaker
    <3> QED
      BY <2>3, <3>1 DEF Served
  <2>10. Fresh'
    BY <2>3, <2>5 DEF HubInv, Fresh, Handed
  <2>11. InOrder'
    BY <1>1, <2>3 DEF HubInv, InOrder, H!Delivered
  <2>12. ToldLatest'
    BY <1>1 DEF HubInv, ToldLatest, Replaying
  <2> QED
    BY <2>4, <2>6, <2>7, <2>8, <2>9, <2>10, <2>11, <2>12 DEF HubInv
<1> QED
  BY <1>2, <1>3

LEMMA HubReconnectHolds == ASSUME HubInv, NEW c \in H!Connections, H!Reconnect(c) PROVE HubInv'
<1>1. PICK n \in Nat : /\ OneMore(n) /\ \A d \in (1..n) \ {c} : connections'[d] = connections[d]
                       /\ connections'[c].at = "restore" /\ connections'[c].made = n + 1
  BY ReconnectGrows DEF HubInv
<1>2. /\ connections[c].at = "reconnect"
      /\ UNCHANGED <<source, faults, H!hub, thread, given, late, spent>>
  BY DEF H!Reconnect
<1> USE DEF H!hub
<1>3. /\ H!Connections = 1..n /\ H!Connections' = 1..(n + 1) /\ ConnectionTypes'
      /\ connections'[n + 1].at = "run" /\ connections'[n + 1].read = H!Empty
      /\ connections'[n + 1].got = H!Empty /\ ~connections'[n + 1].aborted
      /\ \A d \in H!Connections : /\ connections'[d].read = connections[d].read
                                  /\ connections'[d].got = connections[d].got
                                  /\ connections'[d].aborted = connections[d].aborted
  BY <1>1, NewTaskIs DEF OneMore, NewIs
<1>4. /\ \A d \in H!Connections : /\ d \in H!Connections' /\ d # n + 1
                                  /\ d # c => connections'[d] = connections[d]
      /\ \A d \in H!Connections' : d \in H!Connections \/ d = n + 1
      /\ n + 1 \in H!Connections' /\ n + 1 # H!Empty /\ n + 1 \notin H!Connections
      /\ connection # n + 1
  BY <1>1, <1>3 DEF H!Empty, HubInv, HubTypes
<1>5. HubTypes'
  <2>1. \A d \in H!Connections' :
            connections'[d].got \in 0..source /\ connections'[d].read \in 0..source
    BY <1>3, <1>4 DEF HubInv, HubTypes, H!Empty
  <2> QED
    BY <1>2, <1>3, <1>4, <2>1 DEF HubInv, HubTypes
<1>6. \A t \in Subscribers, d \in H!Connections' :
          /\ Making(t, d)' <=> d \in H!Connections /\ Making(t, d)
          /\ Taking(t, d)' <=> d \in H!Connections /\ Taking(t, d)
  <2>1. \A t \in Subscribers : ~Making(t, n + 1) /\ ~Taking(t, n + 1)
    BY <1>4 DEF Making, Taking, HubInv, OwnedOnce
  <2>2. \A t \in Subscribers, d \in H!Connections' :
            (Making(t, d)' <=> Making(t, d)) /\ (Taking(t, d)' <=> Taking(t, d))
    BY <1>2 DEF Making, Taking
  <2> QED
    BY <1>4, <2>1, <2>2
<1>7. \A e \in H!Connections', d \in H!Connections' :
          Remaking(e, d)' <=> (e = c /\ d = n + 1)
                              \/ (e \in H!Connections /\ d \in H!Connections /\ Remaking(e, d))
  <2>1. \A d \in H!Connections' : ~Remaking(n + 1, d)'
    BY <1>3 DEF Remaking
  <2>2. \A d \in H!Connections' : (Remaking(c, d)' <=> d = n + 1) /\ ~Remaking(c, d)
    BY <1>1, <1>2 DEF Remaking
  <2>3. \A e \in H!Connections, d \in H!Connections' : e # c => (Remaking(e, d)' <=> Remaking(e, d))
    BY <1>4 DEF Remaking
  <2>4. \A e \in H!Connections : ~Remaking(e, n + 1)
    BY <1>4 DEF Remaking, HubInv, OwnedOnce
  <2> QED
    BY <1>4, <2>1, <2>2, <2>3, <2>4
<1>8. OwnedOnce'
  <2>1. \A t \in Subscribers : thread'[t].at = "store" => thread'[t].made \in H!Connections'
    BY <1>2, <1>4 DEF HubInv, OwnedOnce
  <2>2. \A d \in H!Connections' :
            connections'[d].at = "restore" => connections'[d].made \in H!Connections'
    BY <1>1, <1>3, <1>4 DEF HubInv, OwnedOnce
  <2>3. \A t \in Subscribers : thread'[t].at = "disconnect" =>
            thread'[t].taken \in H!Connections' \cup {H!Empty}
    BY <1>2, <1>4 DEF HubInv, OwnedOnce
  <2>4. ASSUME NEW t \in Subscribers, NEW d \in H!Connections', Making(t, d)'
        PROVE  /\ d # connection' /\ \A e \in H!Connections' : ~Remaking(e, d)'
               /\ \A u \in Subscribers : (Making(u, d)' => u = t) /\ ~Taking(u, d)'
    BY <1>2, <1>4, <1>6, <1>7, <2>4 DEF HubInv, OwnedOnce
  <2>5. ASSUME NEW e \in H!Connections', NEW d \in H!Connections', Remaking(e, d)'
        PROVE  /\ d # connection' /\ d # e /\ \A t \in Subscribers : ~Taking(t, d)'
               /\ \A u \in H!Connections' : Remaking(u, d)' => u = e
    BY <1>2, <1>4, <1>6, <1>7, <2>5 DEF HubInv, OwnedOnce
  <2>6. \A t \in Subscribers, d \in H!Connections' : Taking(t, d)' => d # connection'
    BY <1>2, <1>6 DEF HubInv, OwnedOnce
  <2> QED
    BY <2>1, <2>2, <2>3, <2>4, <2>5, <2>6 DEF OwnedOnce
<1>9. Held'
  <2>1. \A d \in H!Connections : Unended(d)' => Unended(d)
    BY <1>1, <1>3, <1>4 DEF Unended
  <2>2. Remaking(c, n + 1)' /\ c \in H!Connections'
    BY <1>4, <1>7
  <2>3. ASSUME NEW d \in H!Connections', Unended(d)'
        PROVE  \/ d = connection
               \/ \E t \in Subscribers : Making(t, d)' \/ Taking(t, d)'
               \/ \E e \in H!Connections' : Remaking(e, d)'
    <3>1. CASE d = n + 1
      BY <2>2, <3>1
    <3>2. CASE d \in H!Connections
      <4>1. Unended(d)
        BY <2>1, <2>3, <3>2
      <4> QED
        BY <1>4, <1>6, <1>7, <3>2, <4>1 DEF HubInv, Held
    <3> QED
      BY <1>4, <3>1, <3>2
  <2> QED
    BY <1>2, <2>3 DEF Held
<1>10. Listened'
  BY <1>2 DEF HubInv, Listened
<1>11. Served'
  <2>1. Remaker(c)' /\ c \in H!Connections'
    BY <1>1, <1>4 DEF Remaker
  <2> QED
    BY <2>1 DEF Served
<1>12. Useful'
  <2>1. connection # H!Empty /\ ~spent => connection \in H!Connections /\ connection # c
    BY <1>2 DEF HubInv, HubTypes, Useful
  <2> QED
    BY <1>2, <1>4, <2>1 DEF HubInv, Useful, H!Delivered
<1>13. Fresh'
  <2>1. \A t \in Subscribers, d \in H!Connections' : Making(t, d)' => ~connections'[d].aborted
    BY <1>3, <1>6 DEF HubInv, Fresh
  <2>2. \A e \in H!Connections', d \in H!Connections' : Remaking(e, d)' => ~connections'[d].aborted
    BY <1>3, <1>7 DEF HubInv, Fresh
  <2> QED
    BY <2>1, <2>2 DEF Fresh
<1>14. InOrder'
  <2>1. \A d \in H!Connections : H!Delivered(d)' <=> H!Delivered(d)
    BY <1>1, <1>2, <1>3, <1>4 DEF H!Delivered
  <2>2. ~H!Delivered(n + 1)' /\ connections'[n + 1].read = H!Empty /\ connections'[n + 1].at = "run"
    BY <1>3 DEF H!Delivered
  <2>3. \A d \in H!Connections :
            connections'[d].at \in {"value", "next"} => connections[d].at = connections'[d].at
    BY <1>1, <1>4
  <2> QED
    BY <1>2, <1>3, <1>4, <2>1, <2>2, <2>3 DEF HubInv, InOrder
<1>15. ToldLatest'
  BY <1>2 DEF HubInv, ToldLatest, Replaying
<1> QED
  BY <1>5, <1>8, <1>9, <1>10, <1>11, <1>12, <1>13, <1>14, <1>15 DEF HubInv

LEMMA HubInvStarts == ASSUME HubBounds, H!Init PROVE HubInv
<1>1. connections = << >> /\ H!Connections = {}
  BY DEF H!Init, H!Connections
<1>2. << >> \in [1..0 -> Conn]
  OBVIOUS
<1>3. HubTypes
  <2>1. ConnectionTypes
    BY <1>1, <1>2 DEF ConnectionTypes
  <2>2. thread \in [Subscribers -> ThreadCall]
    BY DEF H!Init, ThreadCall
  <2>3. /\ given \in [Subscribers -> 0..source] /\ source \in 1..MaxVersion
        /\ restarts \in 0..MaxRestarts
    BY DEF H!Init, HubBounds, H!Empty
  <2>4. /\ connecting \in BOOLEAN /\ late \in BOOLEAN /\ spent \in BOOLEAN
        /\ observers \subseteq Subscribers
    BY DEF H!Init
  <2>5. latest \in 0..source
    BY <2>3 DEF H!Init, H!Empty
  <2> QED
    BY <1>1, <2>1, <2>2, <2>3, <2>4, <2>5 DEF H!Init, HubTypes
<1>4. OwnedOnce /\ Held /\ Listened /\ Served /\ Useful /\ Fresh /\ InOrder /\ ToldLatest
  BY <1>1 DEF H!Init, OwnedOnce, Held, Listened, Served, Useful, Fresh, InOrder, ToldLatest,
     Replaying,
              Making, Taking
<1> QED
  BY <1>3, <1>4 DEF HubInv

LEMMA HubInvStutters == ASSUME HubInv, UNCHANGED H!vars PROVE HubInv'
<1> USE DEF H!vars, H!hub
<1>1. H!Connections' = H!Connections
  BY DEF H!Connections
<1>2. HubTypes'
  BY <1>1 DEF HubInv, HubTypes, ConnectionTypes
<1>3. OwnedOnce' /\ Fresh'
  BY <1>1 DEF HubInv, OwnedOnce, Fresh, Making, Remaking, Taking
<1>4. Held'
  BY <1>1 DEF HubInv, Held, Unended, Making, Remaking, Taking
<1>5. Listened' /\ Served'
  BY <1>1 DEF HubInv, Listened, Served, Maker, Remaker
<1>6. Useful' /\ InOrder' /\ ToldLatest'
  BY <1>1 DEF HubInv, Useful, InOrder, ToldLatest, H!Delivered, Replaying
<1> QED
  BY <1>2, <1>3, <1>4, <1>5, <1>6 DEF HubInv

LEMMA HubInvHolds == ASSUME HubBounds, HubInv, [H!Next]_(H!vars) PROVE HubInv'
<1>1. CASE H!Change
  BY <1>1, HubChangeHolds
<1>2. ASSUME NEW s \in Subscribers, H!Subscribe(s) \/ H!Unsubscribe(s) \/ H!Thread(s) PROVE HubInv'
  BY <1>2, HubSubscribeHolds, HubUnsubscribeHolds, HubReplayHolds, HubConnectHolds,
     HubStoreConnectionHolds,
     HubDisconnectHolds DEF H!Thread
<1>3. ASSUME NEW c \in H!Connections, H!Task(c) PROVE HubInv'
  <2>1. CASE H!BroadcastComplete(c) \/ H!TerminateObservers(c)
    BY <2>1, HubReleaseHolds DEF H!BroadcastComplete, H!TerminateObservers
  <2> QED
    BY <1>3, <2>1, HubFetchHolds, HubLookHolds, HubBroadcastHolds, HubErrorHolds, HubRestartHolds,
       HubReconnectHolds, HubRestoreHolds DEF H!Task
<1>4. ASSUME NEW c \in H!Connections, NEW how \in {"error", "end"}, H!Fault(c, how) PROVE HubInv'
  BY <1>4, HubFaultHolds
<1> QED
  BY <1>1, <1>2, <1>3, <1>4, HubInvStutters DEF H!Next

(* A hub's connections are never lost, nor two of them kept: each that     *)
(* nobody ended is stored, or in the hands of one thread or task; whoever  *)
(* observes has one or will have one, and is shown, or about to be shown,  *)
(* the value that is replayed (support.rs).                                *)
THEOREM HubInvariant == ASSUME HubBounds PROVE H!Spec => []HubInv
<1>1. H!Init => HubInv
  BY HubInvStarts
<1>2. HubInv /\ [H!Next]_(H!vars) => HubInv'
  BY HubInvHolds
<1> QED
  BY <1>1, <1>2, PTL DEF H!Spec

LEMMA HubServes == ASSUME HubInv PROVE H!TypeOK /\ H!SubscribersUpToDate /\ H!NoStrayConnection
<1>1. \A c \in H!Connections : connections[c] \in Conn /\ c # H!Empty
  BY ConnectionNumbers DEF HubInv, H!Empty
<1>2. H!TypeOK
  BY <1>1 DEF HubInv, HubTypes, H!TypeOK, Conn
<1>3. ASSUME H!Quiet PROVE \A s \in Subscribers, c \in H!Connections :
                                ~Making(s, c) /\ ~Taking(s, c) /\ ~Remaking(c, c)
  BY <1>3 DEF H!Quiet, Making, Taking, Remaking, H!Resting, H!Live
<1>4. H!NoStrayConnection
  <2>1. ASSUME H!Quiet, NEW c \in H!Connections, H!Live(c) PROVE c = connection /\ observers # {}
    <3>1. Unended(c)
      BY <2>1 DEF H!Live, Unended
    <3>2. \A d \in H!Connections : ~Remaking(d, c)
      BY <2>1 DEF H!Quiet, Remaking, H!Resting, H!Live
    <3>3. c = connection
      BY <1>3, <2>1, <3>1, <3>2 DEF HubInv, Held
    <3> QED
      BY <1>1, <3>3 DEF HubInv, Listened
  <2> QED
    BY <2>1 DEF H!NoStrayConnection
<1>5. H!SubscribersUpToDate
  <2>1. ASSUME H!Quiet, ~late, ~spent, NEW s \in observers PROVE given[s] = source
    <3>1. \A t \in Subscribers : ~Maker(t) /\ ~Replaying(t)
      BY <2>1 DEF H!Quiet, Maker, Replaying
    <3>2. \A c \in H!Connections : ~Remaker(c) /\ connections[c].at # "restart"
      BY <2>1 DEF H!Quiet, Remaker, H!Resting, H!Live
    <3>3. connection \in H!Connections
      BY <2>1, <3>1, <3>2 DEF HubInv, HubTypes, Served
    <3>4. ~H!Resting(connection)
      BY <1>1, <2>1, <3>3 DEF HubInv, Useful, H!Resting
    <3>5. connections[connection].at = "run" /\ connections[connection].read = source
      BY <2>1, <3>3, <3>4 DEF H!Quiet, H!Live
    <3>6. source \in Nat /\ source # H!Empty /\ latest \in 0..source
      BY DEF HubInv, HubTypes, H!Empty
    <3>7. H!Delivered(connection)
      BY <3>5, <3>6 DEF H!Delivered
    <3>8. latest # H!Empty /\ source <= latest
      BY <1>1, <2>1, <3>3, <3>5, <3>7 DEF HubInv, Useful, InOrder
    <3> QED
      BY <2>1, <3>1, <3>6, <3>8 DEF HubInv, HubTypes, ToldLatest
  <2> QED
    BY <2>1 DEF H!SubscribersUpToDate
<1> QED
  BY <1>2, <1>4, <1>5

(* When nothing is under way, subscribers show the source, unless an older *)
(* connection delivered late or one was stored that gives no more value,   *)
(* and a connection that lives is the stored one of a hub that is observed *)
(* (support.rs).                                                           *)
THEOREM SubscribersServed ==
    ASSUME HubBounds PROVE H!Spec => [](H!TypeOK /\ H!SubscribersUpToDate /\ H!NoStrayConnection)
BY HubInvariant, HubServes, PTL

-----------------------------------------------------------------------------
(* The streams that follow a bus service, for every set of its objects and *)
(* every number of its changes (BusFollowers).                             *)

\* The first state of the service is a change, and garbled signals are counted.
BusBounds ==
    /\ MaxServiceChanges \in Nat \ {0}
    /\ MaxGarbled \in Nat

PropertySignal == [says : {"invalidated"}] \cup [says : {"changed"}, value : Nat]
ObjectSignal == [says : {"garbled"}] \cup [says : {"added", "removed"}, path : Objects]
Signal == IF kind = "objects" THEN ObjectSignal ELSE PropertySignal
StreamPhases == {"off", "connect", "read", "reread", "subscribe", "watch", "failed",
                 "check", "listen", "recheck", "park"}

OwnerWatch == [phase : {"off", "subscribe", "query", "watch"}, events : Seq(Nat), seen : Nat]
ServiceTypes ==
    /\ kind \in B!Kinds /\ progress \in 1..MaxServiceChanges /\ garbled \in 0..MaxGarbled
    /\ service \in [owner : Nat, value : Nat, paths : SUBSET Objects]
    /\ service.owner <= progress /\ service.value <= progress
    /\ missed \in BOOLEAN
StreamTypes ==
    /\ at \in StreamPhases /\ on \in BOOLEAN /\ signals \in Seq(Signal)
    /\ held \subseteq Objects /\ returned \in BOOLEAN
OwnerTypes ==
    /\ watch \in OwnerWatch
    /\ watch.seen <= progress
    /\ \A i \in 1..Len(watch.events) : watch.events[i] <= progress

\* The owner given last is the service's, or a later one waits.
Owning ==
    /\ kind = "owned" <=> watch.phase # "off"
    /\ watch.phase \in {"off", "subscribe"} => watch.events = <<>>
    /\ watch.phase \in {"subscribe", "query"} => at = "off"
    /\ at = "off" => kind = "owned" /\ state = B!Unknown
    /\ watch.phase = "watch" => (at = "off" <=> watch.seen = B!Absent)
    /\ watch.events # <<>> => watch.events[Len(watch.events)] = service.owner
    /\ watch.phase = "watch" /\ watch.events = <<>> => watch.seen = service.owner

\* Where a stream is subscribed.
Connected ==
    /\ at \in {"off", "connect"} => ~on
    /\ at = "watch" => on
    /\ kind # "objects" /\ at \notin {"off", "connect"} => on
    /\ ~on => signals = <<>>
    /\ at = "subscribe" => kind = "objects"

Parked == at = "park" => returned \/ ~B!Reachable

Knows == ~missed /\ B!Reachable

\* The last signal that waits says the value; without one it is shown.
Valued ==
    kind # "objects" /\ Knows =>
        /\ signals # <<>> => \/ signals[Len(signals)].says = "invalidated"
                             \/ /\ signals[Len(signals)].says = "changed"
                                /\ signals[Len(signals)].value = service.value
        /\ at = "watch" /\ signals = <<>> => state = B!Shows(service.value)

\* The last signal of a path says whether it is there; of a path without one
\* the list says it, unless the list is to be read again.
About(signal, p) == signal.says # "garbled" /\ signal.path = p
Later(i, p) == \E j \in 1..Len(signals) :
    i < j /\ (signals[j].says = "garbled" \/ About(signals[j], p))
Keeping == at \in {"watch", "subscribe"}
Spoken(p) == \E i \in 1..Len(signals) : About(signals[i], p)
Readable == \A i \in 1..Len(signals) : signals[i].says # "garbled"
Says ==
    \A i \in 1..Len(signals), p \in Objects :
        About(signals[i], p) /\ ~Later(i, p) => (signals[i].says = "added" <=> p \in service.paths)
HeldAsSaid == Keeping /\ Readable =>
                 \A p \in Objects : Spoken(p) \/ (p \in held <=> p \in service.paths)
Listed ==
    kind = "objects" =>
        /\ Knows => Says /\ HeldAsSaid
        /\ Keeping => state = B!Shows(held)

FollowerInv == /\ ServiceTypes /\ StreamTypes /\ OwnerTypes
               /\ Owning /\ Connected /\ Parked /\ Valued /\ Listed

-----------------------------------------------------------------------------
LEMMA Appending ==
    ASSUME NEW E, NEW q \in Seq(E), NEW e \in E, NEW r, r = Append(q, e)
    PROVE  /\ r \in Seq(E) /\ Len(r) = Len(q) + 1 /\ r # <<>> /\ r[Len(r)] = e
           /\ \A i \in 1..Len(q) : r[i] = q[i]
BY AppendProperties

LEMMA Tailing ==
    ASSUME NEW E, NEW q \in Seq(E), q # <<>>
    PROVE  /\ Tail(q) \in Seq(E) /\ Len(Tail(q)) = Len(q) - 1 /\ Head(q) = q[1] /\ Head(q) \in E
           /\ \A i \in 1..Len(Tail(q)) : Tail(q)[i] = q[i + 1]
           /\ Tail(q) # <<>> => Tail(q)[Len(Tail(q))] = q[Len(q)]
           /\ Tail(q) = <<>> => Len(q) = 1
<1>1. /\ Tail(q) \in Seq(E) /\ Len(Tail(q)) = Len(q) - 1 /\ Head(q) = q[1] /\ Head(q) \in E
      /\ \A i \in 1..Len(Tail(q)) : Tail(q)[i] = q[i + 1]
  BY HeadTailProperties
<1>2. PICK t \in Seq(E) : t = Tail(q)
  BY <1>1
<1>3. t # <<>> => Len(t) \in 1..Len(t)
  BY EmptySeq, LenProperties
<1>4. Len(q) \in Nat /\ Len(t) \in Nat
  OBVIOUS
<1>5. t # <<>> => t[Len(t)] = q[Len(q)]
  BY <1>1, <1>2, <1>3, <1>4
<1>6. t = <<>> => Len(q) = 1
  <2>1. Len(<<>>) = 0
    OBVIOUS
  <2>2. Len(t) = Len(q) - 1
    BY <1>1, <1>2
  <2> QED
    BY <1>4, <2>1, <2>2
<1> QED
  BY <1>1, <1>2, <1>5, <1>6

\* What a step does to the history.
LEMMA Missing ==
    ASSUME NEW P, missed' = (missed \/ P) PROVE missed' \in BOOLEAN /\ (~missed' => ~missed /\ ~P)
<1>1. PICK yes \in BOOLEAN : yes = (missed \/ P)
  OBVIOUS
<1>2. missed' = yes
  BY <1>1, Zenon
<1> QED
  BY <1>1, <1>2

-----------------------------------------------------------------------------
(* The service.                                                            *)

LEMMA SignalledIs ==
    ASSUME StreamTypes, Connected, NEW signal \in Signal, B!Signalled(signal), kind' = kind
    PROVE  /\ signals' \in Seq(Signal')
           /\ \/ on /\ B!Reachable /\ signals' = Append(signals, signal)
              \/ ~(on /\ B!Reachable) /\ signals' = signals
<1>1. Signal' = Signal
  BY DEF Signal
<1> QED
  BY <1>1, Appending DEF B!Signalled, StreamTypes

LEMMA FollowerSetPropertyHolds ==
    ASSUME BusBounds, FollowerInv, NEW invalidates \in BOOLEAN, B!SetProperty(invalidates)
    PROVE  FollowerInv'
<1>1. PICK signal : signal = IF invalidates THEN [says |-> "invalidated"]
                              ELSE [says |-> "changed", value |-> progress + 1]
  OBVIOUS
<1>2. /\ progress < MaxServiceChanges /\ progress' = progress + 1 /\ kind # "objects"
      /\ service.owner # B!Absent /\ service' = [service EXCEPT !.value = progress + 1]
      /\ UNCHANGED <<kind, garbled, at, on, held, state, returned, watch>>
      /\ missed' = (missed \/ (kind = "seeded" /\ ~on))
  BY DEF B!SetProperty, B!Spend
<1>3. B!Signalled(signal)
  BY <1>1 DEF B!SetProperty
<1>4. missed' \in BOOLEAN /\ (~missed' => ~missed /\ ~(kind = "seeded" /\ ~on))
  BY <1>2, Missing
<1>5. progress \in Nat
  BY DEF FollowerInv, ServiceTypes
<1>6. signal \in PropertySignal /\ (signal.says = "invalidated"
                                     \/ (signal.says = "changed" /\ signal.value = progress'))
  BY <1>1, <1>2, <1>5 DEF PropertySignal
<1>7. signal \in Signal
  BY <1>2, <1>6 DEF Signal
<1>8. /\ signals' \in Seq(Signal')
      /\ \/ on /\ B!Reachable /\ signals' = Append(signals, signal)
         \/ ~(on /\ B!Reachable) /\ signals' = signals
  BY <1>2, <1>3, <1>7, SignalledIs DEF FollowerInv
<1>9. /\ service' \in [owner : Nat, value : Nat, paths : SUBSET Objects]
      /\ service'.owner = service.owner /\ service'.value = progress'
  BY <1>2, <1>5 DEF FollowerInv, ServiceTypes
<1>10. B!Reachable' <=> B!Reachable
  BY <1>2, <1>9 DEF B!Reachable, B!Dest
<1>11. ServiceTypes'
  BY <1>2, <1>4, <1>5, <1>9 DEF BusBounds, FollowerInv, ServiceTypes
<1>12. StreamTypes' /\ OwnerTypes'
  BY <1>2, <1>5, <1>8 DEF FollowerInv, StreamTypes, OwnerTypes, OwnerWatch, StreamPhases
<1>13. Owning'
  BY <1>2, <1>9 DEF FollowerInv, Owning
<1>14. Connected'
  BY <1>2, <1>8 DEF FollowerInv, Connected
<1>15. Parked'
  BY <1>2, <1>10 DEF FollowerInv, Parked
<1>16. Valued'
  <2>1. ASSUME Knows' PROVE Knows /\ (on => signals' = Append(signals, signal))
                             /\ (~on => at # "watch" /\ signals' = <<>>)
    BY <1>2, <1>4, <1>8, <1>10, <2>1 DEF Knows, FollowerInv, Connected
  <2>2. signals' = Append(signals, signal) => signals' # <<>> /\ signals'[Len(signals')] = signal
    BY <1>7, Appending DEF FollowerInv, StreamTypes
  <2>3. ASSUME Knows' PROVE /\ at # "watch" \/ signals' # <<>>
                            /\ signals' = <<>> \/ signals'[Len(signals')] = signal
    BY <2>1, <2>2, <2>3 DEF FollowerInv, Connected, StreamTypes
  <2> QED
    BY <1>2, <1>6, <1>9, <2>3 DEF Valued
<1>17. Listed'
  BY <1>2 DEF Listed
<1> QED
  BY <1>11, <1>12, <1>13, <1>14, <1>15, <1>16, <1>17 DEF FollowerInv

LEMMA FollowerSetPathsHolds ==
    ASSUME BusBounds, FollowerInv, NEW p \in Objects, NEW garble \in BOOLEAN, B!SetPaths(p, garble)
    PROVE  FollowerInv'
<1>1. PICK signal : signal = IF garble THEN [says |-> "garbled"]
                             ELSE [says |-> IF p \in service.paths THEN "removed" ELSE "added",
                                   path |-> p]
  OBVIOUS
<1>2. /\ progress < MaxServiceChanges /\ progress' = progress + 1 /\ kind = "objects"
      /\ garbled' = garbled + (IF garble THEN 1 ELSE 0) /\ garbled' <= MaxGarbled
      /\ service.owner # B!Absent
      /\ service' = [service EXCEPT !.paths = IF p \in @ THEN @ \ {p} ELSE @ \cup {p}]
      /\ UNCHANGED <<kind, at, on, held, state, returned, watch>>
      /\ missed' = (missed \/ (at = "subscribe" /\ ~on))
  BY DEF B!SetPaths, B!Spend
<1>3. B!Signalled(signal)
  BY <1>1 DEF B!SetPaths
<1>4. missed' \in BOOLEAN /\ (~missed' => ~missed /\ ~(at = "subscribe" /\ ~on))
  BY <1>2, Missing
<1>5. progress \in Nat
  BY DEF FollowerInv, ServiceTypes
<1>6. /\ signal \in ObjectSignal
      /\ signal.says = "garbled" \/ (signal.path = p /\ signal.says \in {"added", "removed"}
                                     /\ (signal.says = "added" <=> p \notin service.paths))
  BY <1>1 DEF ObjectSignal
<1>7. signal \in Signal
  BY <1>2, <1>6 DEF Signal
<1>8. /\ signals' \in Seq(Signal')
      /\ \/ on /\ B!Reachable /\ signals' = Append(signals, signal)
         \/ ~(on /\ B!Reachable) /\ signals' = signals
  BY <1>2, <1>3, <1>7, SignalledIs DEF FollowerInv
<1>9. /\ service' \in [owner : Nat, value : Nat, paths : SUBSET Objects]
      /\ service'.owner = service.owner /\ service'.value = service.value
      /\ p \in service'.paths <=> p \notin service.paths
      /\ \A r \in Objects \ {p} : r \in service'.paths <=> r \in service.paths
  BY <1>2 DEF FollowerInv, ServiceTypes
<1>10. B!Reachable /\ B!Reachable'
  BY <1>2, <1>9 DEF B!Reachable, B!Dest
<1>11. ServiceTypes'
  BY <1>2, <1>4, <1>5, <1>9 DEF BusBounds, FollowerInv, ServiceTypes
<1>12. StreamTypes' /\ OwnerTypes'
  BY <1>2, <1>5, <1>8 DEF FollowerInv, StreamTypes, OwnerTypes, OwnerWatch, StreamPhases
<1>13. Owning'
  BY <1>2, <1>9 DEF FollowerInv, Owning
<1>14. Connected'
  BY <1>2, <1>8 DEF FollowerInv, Connected
<1>15. Parked'
  BY <1>2, <1>10 DEF FollowerInv, Parked
<1>16. Valued'
  BY <1>2 DEF Valued
<1>17. Listed'
  <2>1. Keeping' => state' = B!Shows(held')
    BY <1>2 DEF FollowerInv, Listed, Keeping, B!Shows
  <2>2. ASSUME Knows' PROVE Says' /\ HeldAsSaid'
    <3>1. Knows
      BY <1>4, <1>10, <2>2 DEF Knows
    <3>2. Says /\ HeldAsSaid
      BY <1>2, <3>1 DEF FollowerInv, Listed
    <3>3. CASE ~on
      <4>1. signals' = <<>> /\ signals = <<>> /\ ~Keeping
        BY <1>2, <1>4, <1>8, <2>2, <3>3 DEF FollowerInv, Connected, Keeping, Knows
      <4> QED
        BY <1>2, <4>1 DEF Says, HeldAsSaid, Keeping
    <3>4. CASE on
      <4>1. signals' = Append(signals, signal)
        BY <1>8, <1>10, <3>4
      <4>2. /\ Len(signals') = Len(signals) + 1 /\ signals'[Len(signals')] = signal
            /\ Len(signals) \in Nat /\ \A i \in 1..Len(signals) : signals'[i] = signals[i]
        BY <1>7, <4>1, Appending DEF FollowerInv, StreamTypes
      <4>3. Says'
        <5>1. ASSUME NEW i \in 1..Len(signals'), NEW r \in Objects, About(signals'[i], r),
                     ~(\E j \in 1..Len(signals') :
                           i < j /\ (signals'[j].says = "garbled" \/ About(signals'[j], r)))
              PROVE  signals'[i].says = "added" <=> r \in service'.paths
          <6>1. CASE i = Len(signals')
            BY <1>6, <1>9, <4>2, <5>1, <6>1 DEF About
          <6>2. CASE i # Len(signals')
            <7>1. i \in 1..Len(signals) /\ i < Len(signals') /\ Len(signals') \in 1..Len(signals')
              BY <4>2, <6>2
            <7>2. signal.says # "garbled" /\ ~About(signal, r)
              BY <4>2, <5>1, <7>1
            <7>3. r # p
              BY <1>6, <7>2 DEF About
            <7>4. About(signals[i], r) /\ ~Later(i, r)
              BY <4>2, <5>1, <7>1 DEF Later
            <7> QED
              BY <1>9, <3>2, <4>2, <7>1, <7>3, <7>4 DEF Says
          <6> QED
            BY <6>1, <6>2
        <5> QED
          BY <5>1 DEF Says, Later
      <4>4. HeldAsSaid'
        <5>1. ASSUME Keeping', Readable', NEW r \in Objects
              PROVE  Spoken(r)' \/ (r \in held <=> r \in service'.paths)
          <6>1. Readable /\ signal.says # "garbled" /\ Len(signals') \in 1..Len(signals')
            BY <4>2, <5>1 DEF Readable
          <6>2. Keeping
            BY <1>2, <5>1 DEF Keeping
          <6>3. CASE r = p
            BY <1>6, <4>2, <6>1, <6>3 DEF Spoken, About
          <6>4. CASE r # p
            <7>1. Spoken(r) => Spoken(r)'
              BY <4>2 DEF Spoken
            <7> QED
              BY <1>9, <3>2, <6>1, <6>2, <6>4, <7>1 DEF HeldAsSaid
          <6> QED
            BY <6>3, <6>4
        <5> QED
          BY <1>2, <5>1 DEF HeldAsSaid
      <4> QED
        BY <4>3, <4>4
    <3> QED
      BY <3>3, <3>4 DEF FollowerInv, StreamTypes
  <2> QED
    BY <2>1, <2>2 DEF Listed
<1> QED
  BY <1>11, <1>12, <1>13, <1>14, <1>15, <1>16, <1>17 DEF FollowerInv

\* Another owner, and the watch of it.
LEMMA OwnerIs ==
    ASSUME BusBounds, FollowerInv, NEW n \in Nat, B!OwnerChanges(n), service'.owner = n,
           n <= progress',
           progress' \in Nat, progress <= progress', UNCHANGED <<kind, at, state>>
    PROVE  OwnerTypes' /\ Owning' /\ watch'.seen = watch.seen
<1>1. progress \in Nat
  BY DEF FollowerInv, ServiceTypes
<1>2. CASE watch.phase \in {"query", "watch"}
  <2>1. watch' = [watch EXCEPT !.events = Append(watch.events, n)]
    BY <1>2 DEF B!OwnerChanges
  <2>2. PICK owners \in Seq(Nat) : owners = Append(watch.events, n)
    BY AppendProperties DEF FollowerInv, OwnerTypes, OwnerWatch
  <2>3. watch.events \in Seq(Nat) /\ Len(watch.events) \in Nat
    BY DEF FollowerInv, OwnerTypes, OwnerWatch
  <2>4. /\ Len(owners) = Len(watch.events) + 1 /\ owners # <<>> /\ owners[Len(owners)] = n
        /\ \A i \in 1..Len(watch.events) : owners[i] = watch.events[i]
    BY <2>2, <2>3, Appending
  <2>5. /\ watch'.phase = watch.phase /\ watch'.events = owners /\ watch'.seen = watch.seen
        /\ watch' \in OwnerWatch
    BY <2>1, <2>2 DEF FollowerInv, OwnerTypes, OwnerWatch
  <2>6. \A i \in 1..Len(owners) : owners[i] <= progress'
    <3>1. ASSUME NEW i \in 1..Len(owners) PROVE owners[i] <= progress'
      <4>1. CASE i = Len(owners)
        BY <2>4, <4>1
      <4>2. CASE i # Len(owners)
        <5>1. i \in 1..Len(watch.events)
          BY <2>3, <2>4, <4>2
        <5>2. watch.events[i] <= progress /\ watch.events[i] \in Nat
          BY <2>3, <5>1 DEF FollowerInv, OwnerTypes, OwnerWatch
        <5> QED
          BY <1>1, <2>4, <5>1, <5>2
      <4> QED
        BY <4>1, <4>2
    <3> QED
      BY <3>1
  <2>7. watch'.seen <= progress'
    BY <1>1, <2>5 DEF FollowerInv, OwnerTypes, OwnerWatch
  <2> QED
    BY <1>2, <2>4, <2>5, <2>6, <2>7 DEF FollowerInv, OwnerTypes, OwnerWatch, Owning
<1>3. CASE watch.phase \notin {"query", "watch"}
  <2>1. watch' = watch /\ watch.phase \in {"off", "subscribe"}
    BY <1>3 DEF B!OwnerChanges, FollowerInv, OwnerTypes, OwnerWatch
  <2>2. watch.events = <<>>
    BY <2>1 DEF FollowerInv, Owning
  <2> QED
    BY <1>1, <2>1, <2>2 DEF FollowerInv, OwnerTypes, OwnerWatch, Owning
<1> QED
  BY <1>2, <1>3

LEMMA FollowerVanishHolds == ASSUME BusBounds, FollowerInv, B!Vanish PROVE FollowerInv'
<1>1. /\ progress < MaxServiceChanges /\ progress' = progress + 1 /\ B!OwnerChanges(B!Absent)
      /\ service' = [owner |-> B!Absent, value |-> 0, paths |-> {}]
      /\ UNCHANGED <<kind, garbled, B!stream, missed>>
  BY DEF B!Vanish, B!Spend
<1> USE DEF B!stream
<1>2. progress \in Nat
  BY DEF FollowerInv, ServiceTypes
<1>3. /\ service'.owner = B!Absent /\ service'.value = 0
      /\ service' \in [owner : Nat, value : Nat, paths : SUBSET Objects]
  BY <1>1 DEF B!Absent
<1>4. ServiceTypes'
  BY <1>1, <1>2, <1>3 DEF BusBounds, FollowerInv, ServiceTypes, B!Absent
<1>5. StreamTypes' /\ Connected'
  BY <1>1 DEF FollowerInv, StreamTypes, Connected, Signal
<1>6. OwnerTypes' /\ Owning'
  BY <1>1, <1>2, <1>3, OwnerIs DEF B!Absent
<1>7. ~B!Reachable'
  BY <1>3 DEF B!Reachable
<1>8. Parked' /\ Valued'
  BY <1>7 DEF Parked, Valued, Knows
<1>9. Listed'
  BY <1>1, <1>7 DEF FollowerInv, Listed, Knows, Keeping, B!Shows
<1> QED
  BY <1>4, <1>5, <1>6, <1>8, <1>9 DEF FollowerInv

LEMMA FollowerAppearHolds == ASSUME BusBounds, FollowerInv, B!Appear PROVE FollowerInv'
<1>1. /\ progress < MaxServiceChanges /\ progress' = progress + 1 /\ B!OwnerChanges(progress + 1)
      /\ service.owner = B!Absent /\ service' \in B!Contents(progress + 1)
      /\ returned' = (returned \/ (at \in {"recheck", "park"} /\ kind # "owned"))
      /\ missed' = (missed \/ kind # "owned")
      /\ UNCHANGED <<kind, garbled, at, on, signals, held, state>>
  BY DEF B!Appear, B!Spend
<1>2. progress \in Nat
  BY DEF FollowerInv, ServiceTypes
<1>3. /\ service'.owner = progress + 1 /\ service'.value = progress + 1
      /\ service' \in [owner : Nat, value : Nat, paths : SUBSET Objects]
  BY <1>1, <1>2 DEF B!Contents
<1>4. missed' \in BOOLEAN /\ (~missed' => kind = "owned")
  BY <1>1, Missing
<1>5. /\ returned' \in BOOLEAN
      /\ at = "park" /\ kind # "owned" => returned'
  <2>1. PICK yes \in BOOLEAN : yes = (returned \/ (at \in {"recheck", "park"} /\ kind # "owned"))
    OBVIOUS
  <2>2. returned' = yes
    BY <1>1, <2>1, Zenon
  <2> QED
    BY <2>1, <2>2
<1>6. ServiceTypes'
  BY <1>1, <1>2, <1>3, <1>4 DEF BusBounds, FollowerInv, ServiceTypes
<1>7. StreamTypes' /\ Connected'
  BY <1>1, <1>5 DEF FollowerInv, StreamTypes, Connected, Signal
<1>8. OwnerTypes' /\ Owning' /\ watch'.seen = watch.seen
  BY <1>1, <1>2, <1>3, OwnerIs
<1>9. kind = "owned" => ~B!Reachable'
  <2>1. watch.seen \in Nat /\ watch.seen <= progress
    BY DEF FollowerInv, OwnerTypes, OwnerWatch
  <2> QED
    BY <1>1, <1>2, <1>3, <1>8, <2>1 DEF B!Reachable, B!Dest
<1>10. Parked' /\ Valued'
  BY <1>1, <1>4, <1>5, <1>9 DEF Parked, Valued, Knows
<1>11. Listed'
  BY <1>1, <1>4, <1>9 DEF FollowerInv, Listed, Knows, Keeping, B!Shows
<1> QED
  BY <1>6, <1>7, <1>8, <1>10, <1>11 DEF FollowerInv

-----------------------------------------------------------------------------
(* The stream.                                                             *)

LEMMA Unmoving ==
    ASSUME FollowerInv, B!Unmoved, missed' \in BOOLEAN
    PROVE  /\ ServiceTypes' /\ OwnerTypes' /\ Signal' = Signal /\ (B!Reachable' <=> B!Reachable)
           /\ UNCHANGED <<kind, service, watch>>
BY DEF FollowerInv, B!Unmoved, ServiceTypes, OwnerTypes, OwnerWatch, Signal, B!Reachable, B!Dest

\* The watch allows a stream that is on its way every step.
LEMMA FollowerOwningStays ==
    ASSUME FollowerInv, B!Unmoved, at # "off", at' # "off" PROVE Owning'
BY DEF FollowerInv, B!Unmoved, Owning

LEMMA FollowerRestartHolds ==
    ASSUME FollowerInv, B!Unmoved, at # "off", B!Restart,
           UNCHANGED <<held, state, returned, missed>>
    PROVE  FollowerInv'
<1>1. at' = "connect" /\ on' = FALSE /\ signals' = <<>>
  BY DEF B!Restart, B!Enter
<1>2. missed' \in BOOLEAN
  BY DEF FollowerInv, ServiceTypes
<1>3. ServiceTypes' /\ OwnerTypes' /\ Owning'
  BY <1>1, <1>2, Unmoving, FollowerOwningStays
<1>4. StreamTypes' /\ Connected' /\ Parked'
  <2>1. signals' \in Seq(Signal')
    BY <1>1, EmptySeq
  <2> QED
    BY <1>1, <2>1 DEF FollowerInv, StreamTypes, Connected, Parked, StreamPhases
<1>5. Valued' /\ Listed'
  BY <1>1 DEF Valued, Listed, Keeping, Says, HeldAsSaid
<1> QED
  BY <1>3, <1>4, <1>5 DEF FollowerInv

\* A stream that goes on, and reads or applies nothing.
LEMMA FollowerEnterHolds ==
    ASSUME FollowerInv, B!Unmoved,
           at \in {"failed", "check", "listen", "recheck"},
           at' \in {"failed", "listen", "recheck", "park"},
           at' = "park" => ~B!Reachable,
           returned' \in BOOLEAN, UNCHANGED <<on, signals, held, state, missed>>
    PROVE  FollowerInv'
<1>1. missed' \in BOOLEAN
  BY DEF FollowerInv, ServiceTypes
<1>2. ServiceTypes' /\ OwnerTypes' /\ Owning' /\ Signal' = Signal /\ (B!Reachable' <=> B!Reachable)
      /\ UNCHANGED <<kind, service, watch>>
  BY <1>1, Unmoving, FollowerOwningStays
<1>3. StreamTypes' /\ Connected' /\ Parked'
  BY <1>2 DEF FollowerInv, StreamTypes, Connected, Parked, StreamPhases
<1>4. Valued'
  BY <1>2 DEF FollowerInv, Valued, Knows
<1>5. Listed'
  BY <1>2 DEF FollowerInv, Listed, Knows, Says, HeldAsSaid, Keeping, Later
<1> QED
  BY <1>2, <1>3, <1>4, <1>5 DEF FollowerInv

LEMMA FollowerConnectHolds == ASSUME FollowerInv, B!Connect PROVE FollowerInv'
<1>1. at = "connect" /\ UNCHANGED <<signals, held, returned>> /\ B!Unmoved
  BY DEF B!Connect
<1>2. ~on /\ signals = <<>>
  BY <1>1 DEF FollowerInv, Connected
<1>3. CASE kind = "objects"
  <2>1. at' = "read" /\ UNCHANGED <<on, state, missed>>
    BY <1>3 DEF B!Connect, B!Enter
  <2>2. ServiceTypes' /\ OwnerTypes' /\ Owning' /\ Signal' = Signal
        /\ UNCHANGED <<kind, service, watch>>
    BY <1>1, <2>1, Unmoving, FollowerOwningStays DEF FollowerInv, ServiceTypes
  <2>3. StreamTypes' /\ Connected' /\ Parked'
    BY <1>1, <1>2, <1>3, <2>1, <2>2 DEF FollowerInv, StreamTypes, Connected, Parked, StreamPhases
  <2>4. Valued' /\ Listed'
    BY <1>1, <1>2, <1>3, <2>1, <2>2 DEF Valued, Listed, Keeping, Says, HeldAsSaid
  <2> QED
    BY <2>2, <2>3, <2>4 DEF FollowerInv
<1>4. CASE kind # "objects"
  <2>1. /\ on' = TRUE
        /\ \/ at' = "watch" /\ B!Emit(1) /\ missed' = (missed \/ service.value # 1)
           \/ at' = "read" /\ UNCHANGED <<state, missed>>
    BY <1>4 DEF B!Connect, B!Enter
  <2>2. /\ missed' \in BOOLEAN
        /\ at' = "watch" /\ ~missed' => state' = B!Shows(service.value)
        /\ at' \in {"watch", "read"}
    <3>1. CASE at' = "read" /\ UNCHANGED <<state, missed>>
      BY <3>1 DEF FollowerInv, ServiceTypes
    <3>2. CASE at' = "watch" /\ B!Emit(1) /\ missed' = (missed \/ service.value # 1)
      <4>1. missed' \in BOOLEAN /\ (~missed' => ~missed /\ ~(service.value # 1))
        BY <3>2, Missing
      <4> QED
        BY <3>2, <4>1 DEF B!Emit
    <3> QED
      BY <2>1, <3>1, <3>2
  <2>3. ServiceTypes' /\ OwnerTypes' /\ Owning' /\ Signal' = Signal
        /\ UNCHANGED <<kind, service, watch>>
    BY <1>1, <2>2, Unmoving, FollowerOwningStays
  <2>4. StreamTypes' /\ Connected' /\ Parked'
    BY <1>1, <1>2, <1>4, <2>1, <2>2, <2>3 DEF FollowerInv, StreamTypes, Connected, Parked,
       StreamPhases
  <2>5. Valued'
    BY <1>1, <1>2, <2>2, <2>3 DEF Valued, Knows, B!Shows
  <2>6. Listed'
    BY <1>4, <2>3 DEF Listed
  <2> QED
    BY <2>3, <2>4, <2>5, <2>6 DEF FollowerInv
<1> QED
  BY <1>3, <1>4

LEMMA FollowerReadHolds == ASSUME FollowerInv, B!Read PROVE FollowerInv'
<1>1. at \in {"read", "reread"} /\ UNCHANGED <<on, signals, returned>> /\ B!Unmoved
  BY DEF B!Read
<1>2. CASE B!Reachable
  <2>1. /\ B!Emit(B!Truth) /\ missed' = (missed /\ signals # <<>>)
        /\ \/ kind = "objects" /\ at' = "subscribe" /\ held' = service.paths
           \/ kind # "objects" /\ at' = "watch" /\ held' = held
    BY <1>2 DEF B!Read, B!Enter
  <2>2. missed' \in BOOLEAN /\ (~missed' => ~missed \/ signals = <<>>)
    <3>1. PICK yes \in BOOLEAN : yes = (missed /\ signals # <<>>)
      OBVIOUS
    <3>2. missed' = yes
      BY <2>1, <3>1, Zenon
    <3> QED
      BY <3>1, <3>2
  <2>3. /\ ServiceTypes' /\ OwnerTypes' /\ Signal' = Signal /\ (B!Reachable' <=> B!Reachable)
        /\ UNCHANGED <<kind, service, watch>>
    BY <1>1, <2>2, Unmoving
  <2>4. Owning'
    BY <1>1, <2>1, FollowerOwningStays
  <2>5. StreamTypes' /\ Connected' /\ Parked'
    BY <1>1, <2>1, <2>3 DEF FollowerInv, ServiceTypes, StreamTypes, Connected, Parked, StreamPhases
  <2>6. Valued'
    <3>1. kind # "objects" => state' = B!Shows(service.value)
      BY <2>1 DEF B!Emit, B!Truth
    <3> QED
      BY <1>1, <2>2, <2>3, <3>1 DEF FollowerInv, Valued, Knows, B!Shows
  <2>7. Listed'
    <3>1. ASSUME kind = "objects" PROVE state' = B!Shows(held') /\ held' = service.paths
      BY <2>1, <3>1 DEF B!Emit, B!Truth
    <3>2. ASSUME kind = "objects", Knows' PROVE Says' /\ HeldAsSaid'
      <4>1. HeldAsSaid'
        BY <2>3, <3>1, <3>2 DEF HeldAsSaid
      <4>2. CASE signals = <<>>
        <5>1. Len(signals') = 0
          BY <1>1, <4>2
        <5> QED
          BY <4>1, <5>1 DEF Says
      <4>3. CASE ~missed
        <5>1. Says
          BY <1>2, <3>2, <4>3 DEF FollowerInv, Listed, Knows
        <5> QED
          BY <1>1, <2>3, <4>1, <5>1 DEF Says, Later, About
      <4> QED
        BY <2>2, <3>2, <4>1, <4>2, <4>3 DEF Knows
    <3> QED
      BY <2>3, <3>1, <3>2 DEF Listed, B!Shows
  <2> QED
    BY <2>3, <2>4, <2>5, <2>6, <2>7 DEF FollowerInv
<1>3. CASE ~B!Reachable
  <2>1. at' \in {"check", "failed"} /\ UNCHANGED <<state, held, missed>>
    BY <1>3 DEF B!Read, B!Enter
  <2>2. /\ ServiceTypes' /\ OwnerTypes' /\ Owning' /\ Signal' = Signal /\ ~B!Reachable'
        /\ UNCHANGED <<kind, service, watch>>
    BY <1>1, <1>3, <2>1, Unmoving, FollowerOwningStays DEF FollowerInv, ServiceTypes
  <2>3. StreamTypes' /\ Connected' /\ Parked'
    BY <1>1, <2>1, <2>2 DEF FollowerInv, StreamTypes, Connected, Parked, StreamPhases
  <2>4. Valued' /\ Listed'
    BY <2>1, <2>2 DEF Valued, Listed, Knows, Keeping
  <2> QED
    BY <2>2, <2>3, <2>4 DEF FollowerInv
<1> QED
  BY <1>2, <1>3

LEMMA FollowerSubscribeHolds == ASSUME FollowerInv, B!Subscribe PROVE FollowerInv'
<1>1. /\ at = "subscribe" /\ on' = TRUE /\ at' = "watch" /\ B!Unmoved
      /\ UNCHANGED <<signals, held, state, returned, missed>>
  BY DEF B!Subscribe, B!Enter
<1>2. /\ ServiceTypes' /\ OwnerTypes' /\ Owning' /\ Signal' = Signal /\ (B!Reachable' <=> B!Reachable)
      /\ UNCHANGED <<kind, service, watch>>
  BY <1>1, Unmoving, FollowerOwningStays DEF FollowerInv, ServiceTypes
<1>3. StreamTypes' /\ Connected' /\ Parked'
  BY <1>1, <1>2 DEF FollowerInv, StreamTypes, Connected, Parked, StreamPhases
<1>4. kind = "objects"
  BY <1>1 DEF FollowerInv, Connected
<1>5. Valued'
  BY <1>2, <1>4 DEF Valued
<1>6. Listed'
  BY <1>1, <1>2, <1>4 DEF FollowerInv, Listed, Knows, Says, Later, HeldAsSaid, Keeping, Spoken,
     Readable, B!Shows
<1> QED
  BY <1>2, <1>3, <1>5, <1>6 DEF FollowerInv

LEMMA FollowerApplyHolds == ASSUME FollowerInv, B!Apply PROVE FollowerInv'
<1>1. /\ at = "watch" /\ signals # <<>> /\ signals' = Tail(signals)
      /\ UNCHANGED <<on, returned, missed>> /\ B!Unmoved
  BY DEF B!Apply
<1>2. PICK signal \in Signal : signal = Head(signals)
  BY <1>1, Tailing DEF FollowerInv, StreamTypes
<1>3. \/ signal.says = "changed" /\ B!Emit(signal.value) /\ UNCHANGED <<at, held>>
      \/ signal.says = "invalidated" /\ B!Enter("reread") /\ UNCHANGED <<state, held>>
      \/ signal.says = "garbled" /\ B!Enter("read") /\ UNCHANGED <<state, held>>
      \/ /\ signal.says \notin {"changed", "invalidated", "garbled"}
         /\ held' = B!Deltas(signal) /\ B!Emit(held') /\ UNCHANGED at
  BY <1>2 DEF B!Apply
<1>4. /\ ServiceTypes' /\ OwnerTypes' /\ Signal' = Signal /\ (B!Reachable' <=> B!Reachable)
      /\ UNCHANGED <<kind, service, watch>>
  BY <1>1, Unmoving DEF FollowerInv, ServiceTypes
<1>5. /\ signals' \in Seq(Signal) /\ Len(signals') = Len(signals) - 1 /\ signal = signals[1]
      /\ \A i \in 1..Len(signals') : signals'[i] = signals[i + 1]
      /\ signals' # <<>> => signals'[Len(signals')] = signals[Len(signals)]
      /\ signals' = <<>> => Len(signals) = 1
      /\ Len(signals) \in Nat /\ Len(signals') \in Nat
  BY <1>1, <1>2, Tailing DEF FollowerInv, StreamTypes
<1>6. at' \in {"watch", "reread", "read"}
  BY <1>1, <1>3 DEF B!Enter
<1>7. Owning'
  BY <1>1, <1>6, FollowerOwningStays
<1>8. on
  BY <1>1 DEF FollowerInv, Connected
<1>9. held' \subseteq Objects
  <2>1. CASE signal.says \in {"changed", "invalidated", "garbled"}
    BY <1>3, <2>1 DEF FollowerInv, StreamTypes
  <2>2. CASE signal.says \notin {"changed", "invalidated", "garbled"}
    <3>1. signal \in ObjectSignal /\ signal.path \in Objects
      BY <1>2, <2>2 DEF Signal, ObjectSignal, PropertySignal
    <3> QED
      BY <1>3, <2>2, <3>1 DEF B!Deltas, FollowerInv, StreamTypes
  <2> QED
    BY <2>1, <2>2
<1>10. StreamTypes' /\ Connected' /\ Parked'
  BY <1>1, <1>4, <1>5, <1>6, <1>8, <1>9 DEF FollowerInv, StreamTypes, Connected, Parked,
     StreamPhases
<1>11. Valued'
  <2>1. ASSUME kind # "objects", Knows
        PROVE  /\ signals' # <<>> => \/ signals'[Len(signals')].says = "invalidated"
                                     \/ /\ signals'[Len(signals')].says = "changed"
                                        /\ signals'[Len(signals')].value = service.value
               /\ at' = "watch" /\ signals' = <<>> => state' = B!Shows(service.value)
    <3>1. \/ signals[Len(signals)].says = "invalidated"
          \/ signals[Len(signals)].says = "changed" /\ signals[Len(signals)].value = service.value
      BY <1>1, <2>1 DEF FollowerInv, Valued
    <3>2. ASSUME at' = "watch", signals' = <<>> PROVE state' = B!Shows(service.value)
      <4>1. signal = signals[Len(signals)]
        BY <1>5, <3>2
      <4>2. signal.says = "changed" /\ signal.value = service.value
        BY <1>3, <3>1, <3>2, <4>1 DEF B!Enter
      <4> QED
        BY <1>3, <4>2 DEF B!Emit
    <3> QED
      BY <1>5, <3>1, <3>2
  <2> QED
    BY <1>1, <1>4, <2>1 DEF Valued, Knows, B!Shows
<1>12. Listed'
  <2>1. ASSUME kind = "objects" PROVE signal \in ObjectSignal
    BY <1>2, <2>1 DEF Signal
  <2>2. ASSUME kind = "objects", Keeping' PROVE state' = B!Shows(held')
    <3>1. state = B!Shows(held)
      BY <1>1, <2>2 DEF FollowerInv, Listed, Keeping
    <3> QED
      BY <1>3, <2>1, <2>2, <3>1 DEF B!Emit, ObjectSignal, B!Enter, Keeping, B!Shows
  <2>3. ASSUME kind = "objects", Knows PROVE Says' /\ HeldAsSaid'
    <3>1. Says /\ HeldAsSaid /\ Keeping
      BY <1>1, <2>3 DEF FollowerInv, Listed, Keeping
    <3>2. Says'
      <4>1. ASSUME NEW i \in 1..Len(signals'), NEW r \in Objects, About(signals'[i], r),
                   ~(\E j \in 1..Len(signals') :
                         i < j /\ (signals'[j].says = "garbled" \/ About(signals'[j], r)))
            PROVE  signals'[i].says = "added" <=> r \in service.paths
        <5>1. i + 1 \in 1..Len(signals) /\ signals'[i] = signals[i + 1]
          BY <1>5
        <5>2. ~Later(i + 1, r)
          <6>1. ASSUME NEW j \in 1..Len(signals), i + 1 < j,
                       signals[j].says = "garbled" \/ About(signals[j], r)
                PROVE  FALSE
            <7>1. j - 1 \in 1..Len(signals') /\ i < j - 1 /\ signals'[j - 1] = signals[j]
              BY <1>5, <6>1
            <7> QED
              BY <4>1, <6>1, <7>1
          <6> QED
            BY <6>1 DEF Later
        <5> QED
          BY <3>1, <4>1, <5>1, <5>2 DEF Says
      <4> QED
        BY <1>4, <4>1 DEF Says, Later
    <3>3. HeldAsSaid'
      <4>1. ASSUME Keeping', Readable', NEW r \in Objects, ~Spoken(r)'
            PROVE  r \in held' <=> r \in service.paths
        <5>1. signal.says # "garbled"
          BY <1>3, <4>1 DEF Keeping, B!Enter
        <5>2. \A j \in 1..Len(signals) :
                  j = 1 \/ (j - 1 \in 1..Len(signals') /\ signals'[j - 1] = signals[j])
          BY <1>5
        <5>3. Readable
          BY <1>5, <4>1, <5>1, <5>2 DEF Readable
        <5>4. /\ signal.path \in Objects /\ signal.says \in {"added", "removed"}
              /\ held' = B!Deltas(signal)
          BY <1>3, <2>1, <2>3, <5>1 DEF ObjectSignal
        <5>5. \A j \in 1..Len(signals) :
                  j # 1 => ~About(signals[j], r) /\ signals[j].says # "garbled"
          BY <4>1, <5>2, <5>3 DEF Spoken, Readable
        <5>6. CASE signal.path = r
          <6>1. 1 \in 1..Len(signals) /\ About(signals[1], r) /\ ~Later(1, r)
            BY <1>1, <1>5, <5>1, <5>5, <5>6 DEF About, Later
          <6>2. signal.says = "added" <=> r \in service.paths
            BY <1>5, <3>1, <6>1 DEF Says
          <6> QED
            BY <5>4, <5>6, <6>2 DEF B!Deltas
        <5>7. CASE signal.path # r
          <6>1. ~Spoken(r)
            BY <1>5, <5>5, <5>7 DEF Spoken, About
          <6>2. r \in held <=> r \in service.paths
            BY <3>1, <5>3, <6>1 DEF HeldAsSaid
          <6> QED
            BY <5>4, <5>7, <6>2 DEF B!Deltas
        <5> QED
          BY <5>6, <5>7
      <4> QED
        BY <1>4, <4>1 DEF HeldAsSaid
    <3> QED
      BY <3>2, <3>3
  <2> QED
    BY <1>1, <1>4, <2>2, <2>3 DEF Listed, Knows, B!Shows
<1> QED
  BY <1>4, <1>7, <1>10, <1>11, <1>12 DEF FollowerInv

LEMMA FollowerFailHolds == ASSUME FollowerInv, B!Fail PROVE FollowerInv'
BY FollowerRestartHolds DEF B!Fail

LEMMA FollowerCheckHolds == ASSUME FollowerInv, B!CheckOwner PROVE FollowerInv'
<1>1. returned' \in BOOLEAN
  BY DEF B!CheckOwner, FollowerInv, StreamTypes
<1> QED
  BY <1>1, FollowerEnterHolds DEF B!CheckOwner, B!Enter

LEMMA FollowerListenHolds == ASSUME FollowerInv, B!Listen PROVE FollowerInv'
BY FollowerEnterHolds DEF B!Listen, B!Enter

LEMMA FollowerRecheckHolds == ASSUME FollowerInv, B!Recheck PROVE FollowerInv'
<1>1. CASE B!Reachable
  BY <1>1, FollowerRestartHolds DEF B!Recheck
<1>2. CASE ~B!Reachable
  <2>1. returned' \in BOOLEAN
    BY DEF B!Recheck, FollowerInv, StreamTypes
  <2> QED
    BY <1>2, <2>1, FollowerEnterHolds DEF B!Recheck, B!Enter
<1> QED
  BY <1>1, <1>2

LEMMA FollowerReturnHolds == ASSUME FollowerInv, B!Return PROVE FollowerInv'
BY FollowerRestartHolds DEF B!Return

-----------------------------------------------------------------------------
(* service_owner.                                                          *)

\* What the switch to an owner leaves: the same stream, or a new one.
LEMMA FollowerSwitchHolds ==
    ASSUME FollowerInv, NEW n \in Nat, n <= progress, watch.phase \in {"query", "watch"},
           B!Switch(n),
           watch'.phase = "watch", watch'.seen = n,
           watch' \in OwnerWatch,
           \A i \in 1..Len(watch'.events) : watch'.events[i] <= progress,
           watch'.events # <<>> => watch'.events[Len(watch'.events)] = service.owner,
           watch'.events = <<>> => n = service.owner,
           UNCHANGED <<kind, service, progress, garbled, missed>>
    PROVE  FollowerInv'
<1>1. ServiceTypes'
  BY DEF FollowerInv, ServiceTypes
<1>2. OwnerTypes'
  BY DEF OwnerTypes, OwnerWatch
<1>3. kind = "owned"
  BY DEF FollowerInv, Owning
<1>4. Listed'
  BY <1>3 DEF Listed
<1>5. CASE n = watch.seen /\ watch.phase = "watch"
  <2>1. UNCHANGED <<at, on, signals, held, state, returned>>
    BY <1>5 DEF B!Switch, B!stream
  <2>2. StreamTypes' /\ Connected'
    BY <2>1 DEF FollowerInv, StreamTypes, Connected, Signal
  <2>3. Owning'
    BY <1>3, <1>5, <2>1 DEF FollowerInv, Owning
  <2>4. B!Reachable' <=> B!Reachable
    BY <1>5 DEF B!Reachable, B!Dest
  <2>5. Parked' /\ Valued'
    BY <2>1, <2>4 DEF FollowerInv, Parked, Valued, Knows, B!Shows
  <2> QED
    BY <1>1, <1>2, <1>4, <2>2, <2>3, <2>5 DEF FollowerInv
<1>6. CASE ~(n = watch.seen /\ watch.phase = "watch")
  <2>1. /\ on' = FALSE /\ signals' = <<>> /\ held' = {} /\ returned' = FALSE
        /\ \/ n = B!Absent /\ at' = "off" /\ state' = B!Unknown
           \/ n # B!Absent /\ at' = "connect"
    BY <1>6 DEF B!Switch, B!Enter
  <2>2. signals' \in Seq(Signal')
    BY <2>1, EmptySeq
  <2>3. StreamTypes' /\ Connected' /\ Parked'
    BY <2>1, <2>2 DEF StreamTypes, Connected, Parked, StreamPhases
  <2>4. Owning'
    BY <1>3, <2>1 DEF Owning, B!Unknown
  <2>5. Valued'
    BY <2>1 DEF Valued
  <2> QED
    BY <1>1, <1>2, <1>4, <2>3, <2>4, <2>5 DEF FollowerInv
<1> QED
  BY <1>5, <1>6

LEMMA FollowerWatchOwnerHolds == ASSUME FollowerInv, B!WatchOwner PROVE FollowerInv'
<1>1. /\ watch.phase = "subscribe" /\ watch' = [watch EXCEPT !.phase = "query"]
      /\ UNCHANGED <<kind, service, progress, garbled, B!stream, missed>>
  BY DEF B!WatchOwner
<1> USE DEF B!stream
<1>2. /\ watch' \in OwnerWatch
      /\ watch'.phase = "query" /\ watch'.events = watch.events /\ watch'.seen = watch.seen
  BY <1>1 DEF FollowerInv, OwnerTypes, OwnerWatch
<1>3. ServiceTypes' /\ OwnerTypes'
  BY <1>1, <1>2 DEF FollowerInv, ServiceTypes, OwnerTypes, OwnerWatch
<1>4. StreamTypes' /\ Connected'
  BY <1>1 DEF FollowerInv, StreamTypes, Connected, Signal
<1>5. Owning'
  BY <1>1, <1>2 DEF FollowerInv, Owning
<1>6. kind = "owned" /\ at = "off"
  BY <1>1 DEF FollowerInv, Owning
<1>7. B!Reachable' <=> B!Reachable
  BY <1>1, <1>2 DEF B!Reachable, B!Dest
<1>8. Parked' /\ Valued' /\ Listed'
  BY <1>1, <1>6, <1>7 DEF FollowerInv, Parked, Valued, Listed, Knows
<1> QED
  BY <1>3, <1>4, <1>5, <1>8 DEF FollowerInv

LEMMA FollowerQueryOwnerHolds == ASSUME FollowerInv, B!QueryOwner PROVE FollowerInv'
<1>1. /\ watch.phase = "query" /\ B!Switch(service.owner)
      /\ watch' = [watch EXCEPT !.phase = "watch", !.seen = service.owner]
      /\ UNCHANGED <<kind, service, progress, garbled, missed>>
  BY DEF B!QueryOwner
<1>2. service.owner \in Nat /\ service.owner <= progress
  BY DEF FollowerInv, ServiceTypes
<1>3. PICK mid : mid = [watch EXCEPT !.phase = "watch"]
  OBVIOUS
<1>4. watch' = [mid EXCEPT !.seen = service.owner]
  BY <1>1, <1>3, Zenon
<1>5. /\ mid \in OwnerWatch
      /\ mid.phase = "watch" /\ mid.events = watch.events
  BY <1>3 DEF FollowerInv, OwnerTypes, OwnerWatch
<1>6. /\ watch' \in OwnerWatch
      /\ watch'.phase = "watch" /\ watch'.events = watch.events /\ watch'.seen = service.owner
  BY <1>2, <1>4, <1>5 DEF OwnerWatch
<1>7. /\ \A i \in 1..Len(watch.events) : watch.events[i] <= progress
      /\ watch.events # <<>> => watch.events[Len(watch.events)] = service.owner
  BY DEF FollowerInv, OwnerTypes, OwnerWatch, Owning
<1> QED
  BY <1>1, <1>2, <1>6, <1>7, FollowerSwitchHolds

LEMMA FollowerNextOwnerHolds == ASSUME FollowerInv, B!NextOwner PROVE FollowerInv'
<1>1. /\ watch.phase = "watch" /\ watch.events # <<>> /\ B!Switch(Head(watch.events))
      /\ watch' = [watch EXCEPT !.events = Tail(@), !.seen = Head(watch.events)]
      /\ UNCHANGED <<kind, service, progress, garbled, missed>>
  BY DEF B!NextOwner
<1>2. watch.events \in Seq(Nat) /\ Len(watch.events) \in Nat
  BY DEF FollowerInv, OwnerTypes, OwnerWatch
<1>3. PICK n \in Nat, rest \in Seq(Nat) : n = Head(watch.events) /\ rest = Tail(watch.events)
  BY <1>1, <1>2, Tailing
<1>4. /\ Len(rest) = Len(watch.events) - 1 /\ n = watch.events[1] /\ Len(rest) \in Nat
      /\ \A i \in 1..Len(rest) : rest[i] = watch.events[i + 1]
      /\ rest # <<>> => rest[Len(rest)] = watch.events[Len(watch.events)]
      /\ rest = <<>> => Len(watch.events) = 1
  BY <1>1, <1>2, <1>3, Tailing
<1>5. PICK mid : mid = [watch EXCEPT !.events = rest]
  OBVIOUS
<1>6. watch' = [mid EXCEPT !.seen = n]
  BY <1>1, <1>3, <1>5, Zenon
<1>7. /\ mid \in OwnerWatch
      /\ mid.phase = "watch" /\ mid.events = rest
  BY <1>1, <1>5 DEF FollowerInv, OwnerTypes, OwnerWatch
<1>8. /\ watch' \in OwnerWatch
      /\ watch'.phase = "watch" /\ watch'.events = rest /\ watch'.seen = n
  BY <1>6, <1>7 DEF OwnerWatch
<1>9. 1 \in 1..Len(watch.events) /\ \A i \in 1..Len(rest) : i + 1 \in 1..Len(watch.events)
  <2>1. Len(watch.events) # 0
    BY <1>1, <1>2, EmptySeq
  <2> QED
    BY <1>2, <1>4, <2>1
<1>10. n <= progress /\ \A i \in 1..Len(rest) : rest[i] <= progress
  BY <1>4, <1>9 DEF FollowerInv, OwnerTypes, OwnerWatch
<1>11. watch.events[Len(watch.events)] = service.owner
  BY <1>1 DEF FollowerInv, Owning
<1>12. /\ rest # <<>> => rest[Len(rest)] = service.owner
       /\ rest = <<>> => n = service.owner
  BY <1>4, <1>11
<1>13. B!Switch(n)
  BY <1>1, <1>3
<1> QED
  BY <1>1, <1>8, <1>10, <1>12, <1>13, FollowerSwitchHolds

-----------------------------------------------------------------------------
LEMMA FollowerInvStarts == ASSUME BusBounds, B!Init PROVE FollowerInv
<1>1. /\ kind \in B!Kinds /\ progress = 1 /\ garbled = 0 /\ on = FALSE /\ signals = <<>>
      /\ held = {} /\ returned = FALSE /\ state = B!Unknown /\ missed = FALSE
      /\ at = IF kind = "owned" THEN "off" ELSE "connect"
      /\ watch = [phase |-> IF kind = "owned" THEN "subscribe" ELSE "off",
                  events |-> <<>>, seen |-> B!Absent]
  BY DEF B!Init
<1>2. /\ service \in [owner : Nat, value : Nat, paths : SUBSET Objects]
      /\ service.owner <= 1 /\ service.value <= 1
  BY DEF B!Init, B!Contents, B!Absent
<1>3. ServiceTypes
  <2>1. progress = 1 /\ garbled = 0 /\ missed = FALSE
    BY <1>1, Zenon
  <2>2. progress \in 1..MaxServiceChanges /\ garbled \in 0..MaxGarbled
    BY <2>1 DEF BusBounds
  <2> QED
    BY <1>1, <1>2, <2>1, <2>2 DEF ServiceTypes
<1>4. StreamTypes
  <2>1. signals \in Seq(Signal)
    BY <1>1, EmptySeq
  <2> QED
    BY <1>1, <2>1 DEF StreamTypes, StreamPhases
<1>5. PICK e \in Seq(Nat) : e = <<>>
  BY EmptySeq
<1>6. /\ watch \in OwnerWatch
      /\ watch.events = e /\ watch.seen = 0
      /\ watch.phase = IF kind = "owned" THEN "subscribe" ELSE "off"
  <2>1. watch = [phase |-> IF kind = "owned" THEN "subscribe" ELSE "off", events |-> e, seen |-> 0]
    BY <1>1, <1>5 DEF B!Absent
  <2> QED
    BY <2>1 DEF OwnerWatch
<1>7. Len(e) = 0
  BY <1>5
<1>8. OwnerTypes
  BY <1>1, <1>6, <1>7 DEF OwnerTypes, OwnerWatch
<1>9. Owning
  BY <1>1, <1>5, <1>6 DEF Owning
<1>10. Connected /\ Parked /\ Valued
  BY <1>1 DEF Connected, Parked, Valued
<1>11. Listed
  BY <1>1, <1>5, <1>7 DEF Listed, Says, HeldAsSaid, Keeping
<1> QED
  BY <1>3, <1>4, <1>8, <1>9, <1>10, <1>11 DEF FollowerInv

LEMMA FollowerInvStutters == ASSUME FollowerInv, UNCHANGED B!vars PROVE FollowerInv'
<1> USE DEF B!vars, B!stream
<1>1. ServiceTypes' /\ StreamTypes' /\ OwnerTypes' /\ Owning' /\ Connected'
  BY DEF FollowerInv, ServiceTypes, StreamTypes, OwnerTypes, OwnerWatch, Owning, Connected, Signal
<1>2. Parked' /\ Valued'
  BY DEF FollowerInv, Parked, Valued, Knows, B!Reachable, B!Dest, B!Shows
<1>3. Listed'
  BY DEF FollowerInv, Listed, Knows, B!Reachable, B!Dest, B!Shows, Says, Later, HeldAsSaid,
     Keeping, Spoken, Readable
<1> QED
  BY <1>1, <1>2, <1>3 DEF FollowerInv

LEMMA FollowerInvHolds == ASSUME BusBounds, FollowerInv, [B!Next]_(B!vars) PROVE FollowerInv'
<1>1. ASSUME NEW invalidates \in BOOLEAN, B!SetProperty(invalidates) PROVE FollowerInv'
  BY <1>1, FollowerSetPropertyHolds
<1>2. ASSUME NEW p \in Objects, NEW garble \in BOOLEAN, B!SetPaths(p, garble) PROVE FollowerInv'
  BY <1>2, FollowerSetPathsHolds
<1>3. CASE B!Vanish \/ B!Appear
  BY <1>3, FollowerVanishHolds, FollowerAppearHolds
<1>4. CASE B!Connect \/ B!Read \/ B!Subscribe \/ B!Apply \/ B!Fail
  BY <1>4, FollowerConnectHolds, FollowerReadHolds, FollowerSubscribeHolds, FollowerApplyHolds,
     FollowerFailHolds
<1>5. CASE B!CheckOwner \/ B!Listen \/ B!Recheck \/ B!Return
  BY <1>5, FollowerCheckHolds, FollowerListenHolds, FollowerRecheckHolds, FollowerReturnHolds
<1>6. CASE B!WatchOwner \/ B!QueryOwner \/ B!NextOwner
  BY <1>6, FollowerWatchOwnerHolds, FollowerQueryOwnerHolds, FollowerNextOwnerHolds
<1> QED
  BY <1>1, <1>2, <1>3, <1>4, <1>5, <1>6, FollowerInvStutters DEF B!Next

(* What a stream shows, with the signals it has not read, is what the      *)
(* service says, of a value or of every path, as long as the stream could  *)
(* learn of every change; an owned stream is made for the service's owner, *)
(* or hears of a later one (dbus.rs).                                      *)
THEOREM FollowerInvariant == ASSUME BusBounds PROVE B!Spec => []FollowerInv
<1>1. B!Init => FollowerInv
  BY FollowerInvStarts
<1>2. FollowerInv /\ [B!Next]_(B!vars) => FollowerInv'
  BY FollowerInvHolds
<1> QED
  BY <1>1, <1>2, PTL DEF B!Spec

LEMMA FollowerServes == ASSUME FollowerInv PROVE B!TypeOK /\ B!FollowersUpToDate
<1>1. B!TypeOK
  BY DEF FollowerInv, ServiceTypes, StreamTypes, OwnerTypes, OwnerWatch, B!TypeOK, StreamPhases
<1>2. ASSUME B!AtRest, kind = "owned" PROVE watch.seen = service.owner /\ watch.phase = "watch"
  BY <1>2 DEF B!AtRest, FollowerInv, Owning
<1>3. ASSUME B!AtRest PROVE ~(at = "park" /\ B!Reachable)
  BY <1>3 DEF B!AtRest, FollowerInv, Parked
<1>4. ASSUME B!AtRest, service.owner # B!Absent PROVE missed \/ state = B!Shows(B!Truth)
  <2>1. B!Reachable
    BY <1>2, <1>4 DEF B!Reachable, B!Dest
  <2>2. at # "off"
    BY <1>2, <1>4 DEF FollowerInv, Owning
  <2>3. at = "watch" /\ signals = <<>>
    BY <1>3, <1>4, <2>1, <2>2 DEF B!AtRest
  <2>4. CASE ~missed
    <3>1. Knows
      BY <2>1, <2>4 DEF Knows
    <3>2. CASE kind # "objects"
      BY <2>3, <3>1, <3>2 DEF FollowerInv, Valued, B!Truth
    <3>3. CASE kind = "objects"
      <4>1. Len(signals) = 0
        BY <2>3
      <4>2. Keeping /\ Readable /\ \A p \in Objects : ~Spoken(p)
        BY <2>3, <4>1 DEF Keeping, Readable, Spoken
      <4>3. state = B!Shows(held) /\ \A p \in Objects : p \in held <=> p \in service.paths
        BY <3>1, <3>3, <4>2 DEF FollowerInv, Listed, HeldAsSaid
      <4>4. held = service.paths
        BY <4>3 DEF FollowerInv, StreamTypes, ServiceTypes
      <4> QED
        BY <3>3, <4>3, <4>4 DEF B!Truth
    <3> QED
      BY <3>2, <3>3
  <2> QED
    BY <2>4
<1>5. ASSUME B!AtRest, service.owner = B!Absent, kind = "owned" PROVE state = B!Unknown
  BY <1>2, <1>5 DEF FollowerInv, Owning
<1>6. B!FollowersUpToDate
  BY <1>3, <1>4, <1>5 DEF B!FollowersUpToDate
<1> QED
  BY <1>1, <1>6

(* A stream that can take no step shows what the service says, unless it   *)
(* had no way to learn of a change; an owned stream always does, also that *)
(* nobody owns the service; and none waits for a service that is there     *)
(* (dbus.rs).                                                              *)
THEOREM FollowersServed ==
    ASSUME BusBounds PROVE B!Spec => [](B!TypeOK /\ B!FollowersUpToDate)
BY FollowerInvariant, FollowerServes, PTL
=============================================================================
