----------------------- MODULE WorkspaceLifecycle_proofs -----------------------
(***************************************************************************)
(* The safety of WorkspaceLifecycle for every set of workspaces, projects  *)
(* and names, and every number of lives, moves, writes and restarts; and   *)
(* of the namer, WorkspaceNaming, which names the same workspaces.  Then   *)
(* the two other components of the run that checks them, the launcher and  *)
(* the notifications, and what the four proofs say of that run.            *)
(***************************************************************************)
EXTENDS MCDesktop, SequenceTheorems, NaturalsInduction, WellFoundedInduction, TLAPS

Pass == [before : Root, snap : Root, todo : SUBSET Record]
Call == [ws : SUBSET Workspaces, target : SUBSET Targets, round : Nat]
Steps == {"idle", "root", "objects", "again", "list", "apply", "require", "write"}

Types ==
    /\ source \in Root /\ present \in BOOLEAN /\ objects \in SUBSET Workspaces
    /\ staging \in {"no", "register", "unregister"} /\ spent \in SUBSET Workspaces
    /\ records \in SUBSET Record
    /\ lock \in {"free", "cleanup", "bind"} /\ step \in Steps
    /\ pass \in Pass /\ call \in Call
    /\ tracker \in [epoch : Epochs \cup {Unstamped}, known : SUBSET Workspaces]
    /\ awake \in BOOLEAN /\ restarts \in Nat

-----------------------------------------------------------------------------
(* Types.                                                                  *)

LEMMA NothingIsRoot == Nothing \in Root /\ ~Nothing.connected
BY DEF Nothing, Root

\* A source that has just come, or is gone.
Vacant(s) == ~s.connected /\ s.ids = {} /\ s.generation = 0

LEMMA NothingIsBlank ==
    ASSUME NEW n \in Nat
    PROVE  /\ [Nothing EXCEPT !.owner = n] \in Root /\ Vacant([Nothing EXCEPT !.owner = n])
           /\ [Nothing EXCEPT !.owner = n].owner = n
BY DEF Nothing, Root, Vacant

LEMMA RootChanged ==
    ASSUME NEW s \in Root, NEW S \in SUBSET Workspaces, NEW on \in BOOLEAN, NEW g \in Nat
    PROVE  [s EXCEPT !.ids = S, !.connected = on, !.generation = g] \in Root
BY DEF Root

LEMMA EpochIsEpoch == \A s \in Root : Epoch(s) \in Epochs
BY DEF Root, Epochs, Epoch

LEMMA ReleaseTypes ==
    ASSUME Release
    PROVE  lock' \in {"free", "cleanup", "bind"} /\ step' \in Steps /\ pass' \in Pass
           /\ call' \in Call
BY NothingIsRoot DEF Release, NoPass, NoCall, Pass, Call, Steps

LEMMA TakeTypes ==
    ASSUME Types, NEW s \in Root, Take(s)
    PROVE  lock' \in {"free", "cleanup", "bind"} /\ step' \in Steps /\ pass' \in Pass
           /\ call' \in Call
<1>1. CASE Release
  BY <1>1, ReleaseTypes
<1>2. CASE ~Release
  BY <1>2, NothingIsRoot DEF Take, NoPass, Types, Pass, Steps
<1> QED
  BY <1>1, <1>2

LEMMA DisturbedTypes ==
    ASSUME Types, Disturbed
    PROVE  lock' \in {"free", "cleanup", "bind"} /\ step' \in Steps /\ pass' \in Pass
           /\ call' \in Call
<1>1. CASE Release
  BY <1>1, ReleaseTypes
<1>2. CASE ~Release
  BY <1>2, NothingIsRoot DEF Disturbed, NoPass, Types, Pass, Steps
<1> QED
  BY <1>1, <1>2

LEMMA SetInTypes ==
    ASSUME NEW R \in SUBSET Record, NEW x \in Record
    PROVE  SetIn(R, x) \in SUBSET Record
<1> DEFINE old == At(R, x.ws, x.relation, x.target)
           made == IF old = {} THEN x.made ELSE (CHOOSE y \in old : TRUE).made
<1>1. old \subseteq R
  BY DEF At
<1>2. made \in Epochs
  <2>1. CASE old = {}
    BY <2>1 DEF Record
  <2>2. CASE old # {}
    <3>1. (CHOOSE y \in old : TRUE) \in Record
      BY <1>1, <2>2
    <3> QED
      BY <2>2, <3>1 DEF Record
  <2> QED
    BY <2>1, <2>2
<1>3. SetIn(R, x) = (R \ old) \cup {[x EXCEPT !.made = made]}
  BY DEF SetIn
<1> HIDE DEF old, made
<1>4. [x EXCEPT !.made = made] \in Record
  BY <1>2 DEF Record
<1> QED
  BY <1>3, <1>4

LEMMA InitTypes == Init => Types
<1> SUFFICES ASSUME Init PROVE Types
  OBVIOUS
<1>1. pass \in Pass /\ source \in Root
  BY NothingIsRoot DEF Init, NoPass, Pass
<1>2. call \in Call
  BY DEF Init, NoCall, Call
<1>3. tracker \in [epoch : Epochs \cup {Unstamped}, known : SUBSET Workspaces]
  BY DEF Init, NoTracker
<1> QED
  BY <1>1, <1>2, <1>3 DEF Init, Types, Steps

\* The source moves: what steward holds stays.
LEMMA SourceTypes == Types /\ Source => Types' /\ UNCHANGED <<records, holder, task, restarts>>
<1> SUFFICES ASSUME Types, Source PROVE Types' /\ UNCHANGED <<records, holder, task, restarts>>
  OBVIOUS
<1>1. UNCHANGED <<records, holder, task, restarts>>
  BY DEF Source, SourceUp, SourceDown, Stage, Publish, Reset, Retire
<1>2. /\ source' \in Root /\ present' \in BOOLEAN /\ objects' \in SUBSET Workspaces
      /\ staging' \in {"no", "register", "unregister"} /\ spent' \in SUBSET Workspaces
  <2>1. CASE SourceUp
    <3>1. source.owner + 1 \in Nat
      BY DEF Types, Root
    <3>2. [Nothing EXCEPT !.owner = source.owner + 1] \in Root
      BY <3>1, NothingIsBlank
    <3> QED
      BY <2>1, <3>2 DEF SourceUp, Types
  <2>2. CASE SourceDown
    <3>1. source.owner \in Nat
      BY DEF Types, Root
    <3>2. [Nothing EXCEPT !.owner = source.owner] \in Root
      BY <3>1, NothingIsBlank
    <3> QED
      BY <2>2, <3>2 DEF SourceDown, Types
  <2>3. CASE Stage
    BY <2>3 DEF Stage, Types
  <2>4. CASE Publish
    <3>1. PICK S \in SUBSET objects :
            /\ source' = [source EXCEPT
                            !.ids = S, !.connected = TRUE,
                            !.generation = IF source.connected THEN @ ELSE @ + 1]
            /\ spent' = IF source.connected THEN spent \cup S ELSE S
      BY <2>4 DEF Publish
    <3>2. S \in SUBSET Workspaces
      BY DEF Types
    <3>3. (IF source.connected THEN source.generation ELSE source.generation + 1) \in Nat
      BY DEF Types, Root
    <3>4. source' \in Root
      BY <3>1, <3>2, <3>3, RootChanged DEF Types
    <3> QED
      BY <2>4, <3>1, <3>2, <3>4 DEF Publish, Types
  <2>5. CASE Reset
    <3>1. source.generation + 1 \in Nat
      BY DEF Types, Root
    <3>2. source' \in Root
      BY <2>5, <3>1, RootChanged DEF Reset, Types
    <3> QED
      BY <2>5, <3>2 DEF Reset, Types
  <2>6. CASE Retire
    BY <2>6 DEF Retire, Types, Root
  <2> QED
    BY <2>1, <2>2, <2>3, <2>4, <2>5, <2>6 DEF Source
<1> QED
  BY <1>1, <1>2 DEF Types, holder, task

\* Steward's steps leave the source alone.
LEMMA StewardTypes ==
    ASSUME Types, Next \/ UNCHANGED vars, ~Source
    PROVE  Types' /\ UNCHANGED <<source, present, objects, staging, spent>>
<1>1. CASE ReadRoot
  <2>1. /\ lock' \in {"free", "cleanup", "bind"} /\ step' \in Steps
        /\ pass' \in Pass /\ call' \in Call
    <3>1. CASE Take(Nothing)
      BY <3>1, NothingIsRoot, TakeTypes
    <3>2. CASE Take(source)
      BY <3>2, TakeTypes DEF Types
    <3>3. CASE pass' = [pass EXCEPT !.before = source] /\ step' = "objects"
               /\ UNCHANGED <<lock, call>>
      BY <3>3 DEF Types, Pass, Steps
    <3> QED
      BY <1>1, <3>1, <3>2, <3>3 DEF ReadRoot
  <2> QED
    BY <1>1, <2>1 DEF ReadRoot, bus, task, Types
<1>2. CASE ReadObjects
  <2>1. /\ lock' \in {"free", "cleanup", "bind"} /\ step' \in Steps
        /\ pass' \in Pass /\ call' \in Call
    <3>1. CASE Disturbed
      BY <3>1, DisturbedTypes
    <3>2. CASE step' = "again" /\ UNCHANGED <<lock, pass, call>>
      BY <3>2 DEF Types, Steps
    <3> QED
      BY <1>2, <3>1, <3>2 DEF ReadObjects
  <2> QED
    BY <1>2, <2>1 DEF ReadObjects, bus, task, Types
<1>3. CASE ReadAgain
  <2>1. /\ lock' \in {"free", "cleanup", "bind"} /\ step' \in Steps
        /\ pass' \in Pass /\ call' \in Call
    <3>1. CASE Disturbed
      BY <3>1, DisturbedTypes
    <3>2. CASE Take(Nothing)
      BY <3>2, NothingIsRoot, TakeTypes
    <3>3. CASE Take(pass.before)
      BY <3>3, TakeTypes DEF Types, Pass
    <3> QED
      BY <1>3, <3>1, <3>2, <3>3 DEF ReadAgain
  <2> QED
    BY <1>3, <2>1 DEF ReadAgain, bus, task, Types
<1>4. CASE List
  BY <1>4 DEF List, bus, task, Types, Pass, Steps
<1>5. CASE Apply
  <2>1. PICK x \in pass.todo :
          /\ records' = IF Expired(x, pass.snap)
                        THEN records \ At(records, x.ws, x.relation, x.target)
                        ELSE SetIn(records, [x EXCEPT !.stamp = Epoch(pass.snap)])
          /\ pass' = [pass EXCEPT !.todo = @ \ {x}]
    BY <1>5 DEF Apply
  <2>2. x \in Record /\ pass.snap \in Root
    BY DEF Types, Pass
  <2>3. [x EXCEPT !.stamp = Epoch(pass.snap)] \in Record
    BY <2>2, EpochIsEpoch DEF Record
  <2>4. records' \in SUBSET Record
    BY <2>1, <2>3, SetInTypes DEF Types
  <2>5. pass' \in Pass
    BY <2>1 DEF Types, Pass
  <2> QED
    BY <1>5, <2>4, <2>5 DEF Apply, bus, task, Types
<1>6. CASE Finish
  <2>1. tracker' \in [epoch : Epochs \cup {Unstamped}, known : SUBSET Workspaces]
    <3>1. pass.snap \in Root
      BY DEF Types, Pass
    <3> QED
      BY <1>6, <3>1, EpochIsEpoch DEF Finish, Types, Root
  <2> QED
    BY <1>6, <2>1, ReleaseTypes DEF Finish, bus, Types
<1>7. CASE Synchronized
  BY <1>7, NothingIsRoot DEF Synchronized, bus, task, Types, Pass, Call, Steps, NoPass
<1>8. CASE RequireWorkspace
  BY <1>8, ReleaseTypes DEF RequireWorkspace, bus, task, Types, Steps
<1>9. CASE WriteBinding
  <2>1. PICK w \in call.ws, t \in call.target : records' = SetOneIn(records, Bound(w, t))
    BY <1>9 DEF WriteBinding
  <2>2. w \in Workspaces /\ t \in Targets /\ pass.snap \in Root
    BY DEF Types, Call, Pass
  <2>3. Bound(w, t) \in Record
    BY <2>2, EpochIsEpoch DEF Bound, Record, Types
  <2>4. records' \in SUBSET Record
    BY <2>1, <2>3 DEF SetOneIn, Types
  <2> QED
    BY <1>9, <2>4, ReleaseTypes DEF WriteBinding, bus, task, Types
<1>10. CASE Lock
  BY <1>10 DEF Lock, bus, Types, Steps
<1>11. CASE Receive
  BY <1>11 DEF Receive, Relevant, bus, holder, Types
<1>12. CASE Abort
  BY <1>12, ReleaseTypes DEF Abort, bus, task, Types
<1>13. CASE Restart
  BY <1>13, ReleaseTypes DEF Restart, bus, NoTracker, Types
<1>14. ASSUME NEW w \in Workspaces, NEW t \in Targets, Bind(w, t)
       PROVE  Types' /\ UNCHANGED <<source, present, objects, staging, spent>>
  BY <1>14 DEF Bind, bus, task, Types, Call, Steps
<1>15. ASSUME NEW w \in Workspaces, NEW t \in Targets, WriteName(w, t)
       PROVE  Types' /\ UNCHANGED <<source, present, objects, staging, spent>>
  <2>1. records' \in SUBSET Record
    BY <1>15, EpochIsEpoch DEF WriteName, SetOneIn, Record, Types
  <2> QED
    BY <1>15, <2>1 DEF WriteName, bus, holder, task, Types
<1>16. CASE UNCHANGED vars
  BY <1>16 DEF vars, Types
<1> QED
  BY <1>1, <1>2, <1>3, <1>4, <1>5, <1>6, <1>7, <1>8, <1>9, <1>10, <1>11, <1>12, <1>13,
     <1>14, <1>15, <1>16 DEF Next, Holder

-----------------------------------------------------------------------------
(* The inductive invariant.                                                *)

\* The source has been at this epoch, as a connected one, or is past it.
Reached(e) ==
    \/ e.owner < source.owner
    \/ /\ e.owner = source.owner
       /\ present => \/ e.generation < source.generation
                     \/ e.generation = source.generation /\ source.connected

\* What is listed is registered, and was listed in this generation.
Listed ==
    /\ source.ids \subseteq objects
    /\ source.connected => present /\ source.ids \subseteq spent
    /\ ~source.connected => source.ids = {}

\* Stamps of bindings are epochs that were; the current one is the stamp only
\* of bindings that were made in it, to workspaces that were there.
Stamped ==
    \A x \in records : x.relation = "project" =>
        /\ x.stamp \in Epochs /\ Reached(x.stamp)
        /\ source.connected /\ x.stamp = Epoch(source) =>
            x.made = Epoch(source) /\ x.ws \in spent

\* What the holder of the lock has read.
Hand ==
    /\ step \in {"objects", "again"} => pass.before.connected
    /\ pass.before.connected => Reached(Epoch(pass.before))
    /\ pass.snap.connected => Reached(Epoch(pass.snap))
    /\ step \in {"require", "write"} => pass.snap.connected /\ lock = "bind"
    /\ lock = "bind" /\ step \in {"list", "apply"} => pass.snap.connected
    /\ step = "write" /\ source.connected /\ Epoch(pass.snap) = Epoch(source) =>
        call.ws \subseteq spent

\* A binding of the current epoch was made before the snapshot, which is of
\* that epoch and lists its workspace, unless that is gone.
Seen ==
    \A x \in records :
        x.relation = "project" /\ source.connected /\ x.stamp = Epoch(source) =>
            /\ step = "again" /\ Epoch(pass.before) = Epoch(source) =>
                x.ws \in pass.before.ids \/ x.ws \notin objects
            /\ step \in {"list", "apply"} =>
                /\ pass.snap.connected /\ Epoch(pass.snap) = Epoch(source)
                /\ x.ws \in pass.snap.ids \/ x.ws \notin objects

\* The edits to come are of bindings as they are now, and all that are needed.
Todo ==
    step = "apply" =>
        /\ \A x \in pass.todo :
            /\ Expired(x, pass.snap) \/ Unmarked(x, pass.snap)
            /\ x.relation = "project" => x \in records
        /\ pass.snap.connected =>
            \A x \in records : x.relation = "project" =>
                x \in pass.todo \/ (x.stamp = Epoch(pass.snap) /\ x.ws \in pass.snap.ids)

Held == Listed /\ Stamped /\ Hand /\ Seen /\ Todo
IInv == Types /\ SingleProject /\ Held

LEMMA InitHolds == Init => IInv
<1> SUFFICES ASSUME Init PROVE IInv
  OBVIOUS
<1>1. records = {} /\ source.ids = {} /\ ~source.connected /\ step = "idle"
      /\ ~pass.before.connected /\ ~pass.snap.connected
  BY NothingIsRoot DEF Init, NoPass, Nothing
<1> QED
  BY <1>1, InitTypes DEF IInv, Held, Listed, Stamped, Hand, Seen, Todo, SingleProject

-----------------------------------------------------------------------------
(* The source moves.                                                       *)

\* Epochs go on, and none that has been comes back; neither does a workspace
\* of a generation.
LEMMA SourceMoves ==
    ASSUME Types, Listed, Source
    PROVE  /\ Listed'
           /\ \A e \in Epochs : Reached(e) =>
                /\ Reached(e)'
                /\ source'.connected /\ e = Epoch(source') =>
                    /\ source.connected /\ e = Epoch(source) /\ spent \subseteq spent'
                    /\ \A w \in spent : w \notin objects => w \notin objects'
<1> DEFINE Onward ==
        /\ Listed'
        /\ \A e \in Epochs : Reached(e) =>
            /\ Reached(e)'
            /\ source'.connected /\ e = Epoch(source') =>
                /\ source.connected /\ e = Epoch(source) /\ spent \subseteq spent'
                /\ \A w \in spent : w \notin objects => w \notin objects'
<1>0. source.owner \in Nat /\ source.generation \in Nat
  BY DEF Types, Root
<1>1. CASE SourceUp
  <2> DEFINE s == [Nothing EXCEPT !.owner = source.owner + 1]
  <2>1. Vacant(s) /\ s.owner = source.owner + 1
    BY <1>0, NothingIsBlank
  <2>2. source' = s /\ present' = TRUE /\ objects' = objects
    BY <1>1 DEF SourceUp
  <2> HIDE DEF s
  <2> QED
    BY <1>0, <2>1, <2>2 DEF Listed, Reached, Epochs, Vacant
<1>2. CASE SourceDown
  <2> DEFINE s == [Nothing EXCEPT !.owner = source.owner]
  <2>1. Vacant(s) /\ s.owner = source.owner
    BY <1>0, NothingIsBlank
  <2>2. source' = s /\ present' = FALSE /\ objects' = {}
    BY <1>2 DEF SourceDown
  <2> HIDE DEF s
  <2> QED
    BY <1>0, <2>1, <2>2 DEF Listed, Reached, Epochs, Vacant
<1>3. CASE Stage
  <2>1. /\ source' = source /\ present' = present /\ spent' = spent
        /\ objects \subseteq objects'
        /\ source.connected => (objects' \ objects) \cap spent = {}
    BY <1>3 DEF Stage
  <2>2. Listed'
    BY <2>1 DEF Listed
  <2>3. \A e \in Epochs : Reached(e) => Reached(e)'
    BY <2>1 DEF Reached
  <2> QED
    BY <2>1, <2>2, <2>3
<1>4. CASE Publish
  <2>1. PICK S \in SUBSET objects :
          /\ source' = [source EXCEPT
                          !.ids = S, !.connected = TRUE,
                          !.generation = IF source.connected THEN @ ELSE @ + 1]
          /\ spent' = IF source.connected THEN spent \cup S ELSE S
    BY <1>4 DEF Publish
  <2>2. /\ present /\ present' = present /\ objects' = objects
        /\ source'.ids = S /\ source'.connected /\ source'.owner = source.owner
        /\ source'.generation = IF source.connected THEN source.generation
                                                    ELSE source.generation + 1
    BY <1>4, <2>1 DEF Publish, Types, Root
  <2>3. Listed'
    BY <2>1, <2>2 DEF Listed
  <2>4. ASSUME NEW e \in Epochs, Reached(e)
        PROVE  /\ Reached(e)'
               /\ e = Epoch(source') => source.connected /\ e = Epoch(source)
    <3>1. e.owner \in Nat /\ e.generation \in Nat
      BY DEF Epochs
    <3>2. Reached(e)'
      BY <1>0, <2>2, <2>4, <3>1 DEF Reached
    <3>3. e = Epoch(source') => source.connected
      BY <1>0, <2>2, <2>4, <3>1 DEF Reached, Epoch
    <3> QED
      BY <2>2, <3>2, <3>3 DEF Epoch
  <2> QED
    BY <2>1, <2>2, <2>3, <2>4
<1>5. CASE Reset
  <2>1. source' = [source EXCEPT !.ids = {}, !.connected = FALSE, !.generation = @ + 1]
        /\ present' = present /\ objects' = objects
    BY <1>5 DEF Reset
  <2>2. /\ source'.ids = {} /\ ~source'.connected /\ source'.owner = source.owner
        /\ source'.generation = source.generation + 1
    BY <2>1 DEF Types, Root
  <2> QED
    BY <1>0, <2>1, <2>2 DEF Listed, Reached, Epochs
<1>6. CASE Retire
  <2>1. source' = source /\ present' = present /\ spent' = spent /\ objects' = source.ids
    BY <1>6 DEF Retire
  <2>2. Listed' /\ objects' \subseteq objects
    BY <2>1 DEF Listed
  <2>3. \A e \in Epochs : Reached(e) => Reached(e)'
    BY <2>1 DEF Reached
  <2> QED
    BY <2>1, <2>2, <2>3
<1> QED
  BY <1>1, <1>2, <1>3, <1>4, <1>5, <1>6 DEF Source

LEMMA SourceHolds ==
    ASSUME IInv, Source
    PROVE  Held' /\ SingleProject'
<1>1. /\ records' = records /\ lock' = lock /\ step' = step /\ pass' = pass /\ call' = call
      /\ tracker' = tracker
  BY SourceTypes DEF IInv, holder, task
<1>2. /\ Listed'
      /\ \A e \in Epochs : Reached(e) =>
            /\ Reached(e)'
            /\ source'.connected /\ e = Epoch(source') =>
                /\ source.connected /\ e = Epoch(source) /\ spent \subseteq spent'
                /\ \A w \in spent : w \notin objects => w \notin objects'
  BY SourceMoves DEF IInv, Held
<1>3. Stamped'
  BY <1>1, <1>2 DEF IInv, Held, Stamped
<1>4. Hand'
  <2>1. Epoch(pass.before) \in Epochs /\ Epoch(pass.snap) \in Epochs
    BY EpochIsEpoch DEF IInv, Types, Pass
  <2>2. Hand
    BY DEF IInv, Held
  <2>3. pass.before.connected => Reached(Epoch(pass.before))'
    <3>1. pass.before.connected => Reached(Epoch(pass.before))
      BY <2>2 DEF Hand
    <3> QED
      BY <1>1, <1>2, <2>1, <3>1 DEF Reached
  <2>4. pass.snap.connected => Reached(Epoch(pass.snap))'
    <3>1. pass.snap.connected => Reached(Epoch(pass.snap))
      BY <2>2 DEF Hand
    <3> QED
      BY <1>1, <1>2, <2>1, <3>1 DEF Reached
  <2>5. step = "write" /\ source'.connected /\ Epoch(pass.snap) = Epoch(source') =>
            call.ws \subseteq spent'
    BY <1>2, <2>1, <2>2 DEF Hand
  <2> QED
    BY <1>1, <2>2, <2>3, <2>4, <2>5 DEF Hand, Epoch
<1>5. Seen'
  <2> SUFFICES ASSUME NEW x \in records, x.relation = "project", source'.connected,
                      x.stamp = Epoch(source')
               PROVE  /\ step = "again" /\ Epoch(pass.before) = Epoch(source') =>
                            x.ws \in pass.before.ids \/ x.ws \notin objects'
                      /\ step \in {"list", "apply"} =>
                            /\ pass.snap.connected /\ Epoch(pass.snap) = Epoch(source')
                            /\ x.ws \in pass.snap.ids \/ x.ws \notin objects'
    BY <1>1 DEF Seen, Epoch
  <2>1. x.stamp \in Epochs /\ Reached(x.stamp)
    BY DEF IInv, Held, Stamped
  <2>2. source.connected /\ x.stamp = Epoch(source) /\ Epoch(source') = Epoch(source)
        /\ \A w \in spent : w \notin objects => w \notin objects'
    BY <1>2, <2>1
  <2>3. x.ws \in spent
    BY <2>2 DEF IInv, Held, Stamped
  <2> QED
    BY <2>2, <2>3 DEF IInv, Held, Seen
<1>6. Todo' /\ SingleProject'
  BY <1>1 DEF IInv, Held, Todo, SingleProject, Expired, Unmarked, LegacyExpired, Baseline, Epoch
<1> QED
  BY <1>2, <1>3, <1>4, <1>5, <1>6 DEF Held

-----------------------------------------------------------------------------
(* Steward's steps.                                                        *)

\* The source rests and no binding is made or written anew.
LEMMA FewerBindings ==
    ASSUME Listed, Stamped, SingleProject,
           UNCHANGED <<source, present, objects, staging, spent>>,
           \A x \in records' : x.relation = "project" => x \in records
    PROVE  Listed' /\ Stamped' /\ SingleProject'
BY DEF Listed, Stamped, SingleProject, Reached, Epoch

\* The lock is given up: nothing is in hand.
LEMMA ReleaseHolds ==
    ASSUME Release
    PROVE  Hand' /\ Seen' /\ Todo'
<1>1. step' = "idle" /\ pass' = NoPass /\ lock' = "free"
  BY DEF Release
<1>2. ~pass'.before.connected /\ ~pass'.snap.connected
  BY <1>1, NothingIsRoot DEF NoPass
<1> QED
  BY <1>1, <1>2 DEF Hand, Seen, Todo

\* A snapshot that is the source as it is, or of a source that is not there.
LEMMA TakeHolds ==
    ASSUME IInv, NEW s \in Root, Take(s), UNCHANGED <<source, present, objects, spent, records>>,
           s.connected => Reached(Epoch(s)),
           \A x \in records : x.relation = "project" /\ source.connected
             /\ x.stamp = Epoch(source) =>
                s.connected /\ Epoch(s) = Epoch(source) /\ (x.ws \in s.ids \/ x.ws \notin objects)
    PROVE  Hand' /\ Seen' /\ Todo'
<1>1. CASE Release
  BY <1>1, ReleaseHolds
<1>2. CASE ~Release
  <2>1. pass' = [NoPass EXCEPT !.snap = s] /\ step' = "list" /\ lock' = lock
        /\ (lock = "bind" => s.connected)
    BY <1>2 DEF Take
  <2>2. pass'.snap = s /\ ~pass'.before.connected
    BY <2>1, NothingIsRoot DEF NoPass
  <2>3. s.connected => Reached(Epoch(s))'
    BY DEF Reached, Epoch
  <2> QED
    BY <2>1, <2>2, <2>3 DEF Hand, Seen, Todo, Reached, Epoch
<1> QED
  BY <1>1, <1>2

LEMMA DisturbedHolds ==
    ASSUME Disturbed
    PROVE  Hand' /\ Seen' /\ Todo'
<1>1. CASE Release
  BY <1>1, ReleaseHolds
<1>2. CASE ~Release
  <2>1. step' = "root" /\ pass' = NoPass
    BY <1>2 DEF Disturbed
  <2>2. ~pass'.before.connected /\ ~pass'.snap.connected
    BY <2>1, NothingIsRoot DEF NoPass
  <2> QED
    BY <2>1, <2>2 DEF Hand, Seen, Todo
<1> QED
  BY <1>1, <1>2

LEMMA ReadsHold ==
    ASSUME IInv, ReadRoot \/ ReadObjects \/ ReadAgain
    PROVE  Held' /\ SingleProject'
<1>1. UNCHANGED <<source, present, objects, staging, spent, records>>
  BY DEF ReadRoot, ReadObjects, ReadAgain, bus
<1>2. Listed' /\ Stamped' /\ SingleProject'
  BY <1>1, FewerBindings DEF IInv, Held
<1>3. ~present => ~source.connected
  BY DEF IInv, Held, Listed
<1>4. CASE ReadRoot
  <2>1. ASSUME ~present, Take(Nothing) PROVE Hand' /\ Seen' /\ Todo'
    BY <1>1, <1>3, <2>1, TakeHolds, NothingIsRoot
  <2>2. ASSUME ~source.connected, Take(source) PROVE Hand' /\ Seen' /\ Todo'
    <3>1. source \in Root
      BY DEF IInv, Types
    <3> QED
      BY <1>1, <2>2, <3>1, TakeHolds
  <2>3. ASSUME present, source.connected, pass' = [pass EXCEPT !.before = source],
               step' = "objects", UNCHANGED <<lock, call>>
        PROVE  Hand' /\ Seen' /\ Todo'
    <3>1. pass'.before = source /\ pass'.snap = pass.snap
      BY <2>3 DEF IInv, Types, Pass
    <3>2. Reached(Epoch(source))'
      BY <1>1, <2>3 DEF Reached, Epoch
    <3>3. pass.snap.connected => Reached(Epoch(pass.snap))'
      <4>1. pass.snap.connected => Reached(Epoch(pass.snap))
        BY DEF IInv, Held, Hand
      <4> QED
        BY <1>1, <3>1, <4>1 DEF Reached, Epoch
    <3> QED
      BY <1>1, <2>3, <3>1, <3>2, <3>3 DEF Hand, Seen, Todo, Reached, Epoch
  <2>4. Hand' /\ Seen' /\ Todo'
    BY <1>4, <2>1, <2>2, <2>3 DEF ReadRoot
  <2> QED
    BY <1>2, <2>4 DEF Held
<1>5. CASE ReadObjects
  <2>1. CASE Disturbed
    BY <1>2, <2>1, DisturbedHolds DEF Held
  <2>2. CASE SameOwner /\ objects = pass.before.ids /\ step' = "again"
             /\ UNCHANGED <<lock, pass, call>>
    <3>1. step = "objects"
      BY <1>5 DEF ReadObjects
    <3>2. Hand' /\ Seen' /\ Todo'
      BY <1>1, <2>2, <3>1 DEF IInv, Held, Hand, Seen, Todo, Reached, Epoch
    <3> QED
      BY <1>2, <3>2 DEF Held
  <2> QED
    BY <1>5, <2>1, <2>2 DEF ReadObjects
<1>6. CASE ReadAgain
  <2>1. ASSUME Disturbed PROVE Hand' /\ Seen' /\ Todo'
    BY <2>1, DisturbedHolds
  <2>2. ASSUME ~present, Take(Nothing) PROVE Hand' /\ Seen' /\ Todo'
    BY <1>1, <1>3, <2>2, TakeHolds, NothingIsRoot
  <2>3. ASSUME source = pass.before, Take(pass.before) PROVE Hand' /\ Seen' /\ Todo'
    <3>1. step = "again" /\ pass.before \in Root
      BY <1>6 DEF ReadAgain, IInv, Types, Pass
    <3>2. pass.before.connected /\ Reached(Epoch(pass.before))
      BY <3>1 DEF IInv, Held, Hand
    <3>3. \A x \in records :
            x.relation = "project" /\ source.connected /\ x.stamp = Epoch(source) =>
                /\ pass.before.connected /\ Epoch(pass.before) = Epoch(source)
                /\ x.ws \in pass.before.ids \/ x.ws \notin objects
      BY <2>3, <3>1, <3>2 DEF IInv, Held, Seen
    <3> QED
      BY <1>1, <2>3, <3>1, <3>2, <3>3, TakeHolds
  <2>4. Hand' /\ Seen' /\ Todo'
    BY <1>6, <2>1, <2>2, <2>3 DEF ReadAgain
  <2> QED
    BY <1>2, <2>4 DEF Held
<1> QED
  BY <1>4, <1>5, <1>6

\* A binding that a snapshot calls for an edit of is not merely unstamped.
LEMMA BindingExpires ==
    ASSUME Types, NEW x \in Record, x.stamp \in Epochs,
           Expired(x, pass.snap) \/ Unmarked(x, pass.snap)
    PROVE  Expired(x, pass.snap)
BY UnstampedAssumption DEF Expired, Unmarked

LEMMA ListHolds ==
    ASSUME IInv, List
    PROVE  Held' /\ SingleProject'
<1>1. step = "list" /\ step' = "apply"
      /\ pass' = [pass EXCEPT !.todo =
                    {x \in records : Expired(x, pass.snap) \/ Unmarked(x, pass.snap)}]
      /\ UNCHANGED <<source, present, objects, staging, spent, records, lock, call, tracker>>
  BY DEF List, bus, task
<1>2. pass'.before = pass.before /\ pass'.snap = pass.snap
      /\ pass'.todo = {x \in records : Expired(x, pass.snap) \/ Unmarked(x, pass.snap)}
  BY <1>1 DEF IInv, Types, Pass
<1>3. Listed' /\ Stamped' /\ SingleProject'
  BY <1>1, FewerBindings DEF IInv, Held
<1>4. Hand' /\ Seen'
  BY <1>1, <1>2 DEF IInv, Held, Hand, Seen, Reached, Epoch
<1>5. Todo'
  <2>1. \A x \in pass'.todo : x \in records
            /\ (Expired(x, pass.snap) \/ Unmarked(x, pass.snap))'
    BY <1>1, <1>2 DEF Expired, Unmarked, LegacyExpired, Baseline, Epoch
  <2>2. ASSUME NEW x \in records, x.relation = "project", pass.snap.connected, x \notin pass'.todo
        PROVE  x.stamp = Epoch(pass.snap) /\ x.ws \in pass.snap.ids
    <3>1. ~Expired(x, pass.snap) /\ x.stamp \in Epochs
      BY <1>2, <2>2 DEF IInv, Held, Stamped
    <3> QED
      BY <2>2, <3>1, UnstampedAssumption DEF Expired
  <2> QED
    BY <1>1, <1>2, <2>1, <2>2 DEF Todo, Epoch
<1> QED
  BY <1>3, <1>4, <1>5 DEF Held

\* An edit takes at most its own binding away, an expired one that is not
\* current, and writes none.
LEMMA ApplyEdits ==
    ASSUME IInv, Apply
    PROVE  \E x \in pass.todo :
            /\ pass' = [pass EXCEPT !.todo = @ \ {x}]
            /\ \A y \in records' : y.relation = "project" => y \in records /\ y # x
            /\ \A y \in records : y.relation = "project" /\ y # x => y \in records'
            /\ x.relation = "project" => ~Current(x)
<1>0. step = "apply" /\ pass.snap \in Root /\ pass.todo \subseteq Record /\ records \subseteq Record
  BY DEF Apply, IInv, Types, Pass
<1>1. PICK x \in pass.todo :
        /\ records' = IF Expired(x, pass.snap)
                      THEN records \ At(records, x.ws, x.relation, x.target)
                      ELSE SetIn(records, [x EXCEPT !.stamp = Epoch(pass.snap)])
        /\ pass' = [pass EXCEPT !.todo = @ \ {x}]
  BY DEF Apply
<1>2. x \in Record /\ (Expired(x, pass.snap) \/ Unmarked(x, pass.snap))
  BY <1>0 DEF IInv, Held, Todo
<1>3. CASE x.relation = "project"
  <2>1. x \in records
    BY <1>0, <1>3 DEF IInv, Held, Todo
  <2>2. x.stamp \in Epochs
    BY <1>3, <2>1 DEF IInv, Held, Stamped
  <2>3. Expired(x, pass.snap)
    BY <1>2, <2>2, BindingExpires DEF IInv
  <2>4. records' = records \ At(records, x.ws, x.relation, x.target)
    BY <1>1, <2>3
  <2>5. At(records, x.ws, x.relation, x.target) = {x}
    BY <1>3, <2>1 DEF At, IInv, SingleProject
  <2>6. ~Current(x)
    <3> SUFFICES ASSUME Current(x) PROVE FALSE
      OBVIOUS
    <3>1. x.stamp = Epoch(source) /\ x.ws \in source.ids
      BY DEF Current
    <3>2. source.connected /\ x.ws \in objects
      BY <3>1 DEF IInv, Held, Listed
    <3>3. pass.snap.connected /\ Epoch(pass.snap) = Epoch(source) /\ x.ws \in pass.snap.ids
      BY <1>0, <1>3, <2>1, <3>1, <3>2 DEF IInv, Held, Seen
    <3> QED
      BY <2>2, <2>3, <3>1, <3>3, UnstampedAssumption DEF Expired
  <2>7. records' = records \ {x}
    BY <2>4, <2>5
  <2>8. /\ \A y \in records' : y.relation = "project" => y \in records /\ y # x
        /\ \A y \in records : y.relation = "project" /\ y # x => y \in records'
    BY <2>7
  <2> QED
    BY <1>1, <2>6, <2>8
<1>4. CASE x.relation # "project"
  <2>1. CASE Expired(x, pass.snap)
    <3>1. records' = records \ At(records, x.ws, x.relation, x.target)
      BY <1>1, <2>1
    <3>2. /\ \A y \in records' : y.relation = "project" => y \in records /\ y # x
          /\ \A y \in records : y.relation = "project" => y \in records'
      BY <1>4, <3>1 DEF At
    <3> QED
      BY <1>1, <1>4, <3>2
  <2>2. CASE ~Expired(x, pass.snap)
    <3> DEFINE e == [x EXCEPT !.stamp = Epoch(pass.snap)]
    <3>1. e.ws = x.ws /\ e.relation = x.relation /\ e.target = x.target /\ e \in Record
      BY <1>0, <1>2, EpochIsEpoch DEF Record
    <3>2. PICK made : records' = (records \ At(records, e.ws, e.relation, e.target))
                                  \cup {[e EXCEPT !.made = made]}
      BY <1>1, <2>2 DEF SetIn
    <3> HIDE DEF e
    <3>3. [e EXCEPT !.made = made].relation = e.relation
      BY <3>1 DEF Record
    <3> QED
      BY <1>1, <1>4, <3>1, <3>2, <3>3 DEF At
  <2> QED
    BY <2>1, <2>2
<1> QED
  BY <1>3, <1>4

LEMMA ApplyHolds ==
    ASSUME IInv, Apply
    PROVE  Held' /\ SingleProject'
<1>1. PICK x \in pass.todo :
            /\ pass' = [pass EXCEPT !.todo = @ \ {x}]
            /\ \A y \in records' : y.relation = "project" => y \in records /\ y # x
            /\ \A y \in records : y.relation = "project" /\ y # x => y \in records'
  BY ApplyEdits
<1>2. step = "apply"
      /\ UNCHANGED <<source, present, objects, staging, spent, lock, step, call, tracker>>
  BY DEF Apply, bus, task
<1>3. pass'.before = pass.before /\ pass'.snap = pass.snap /\ pass'.todo = pass.todo \ {x}
  BY <1>1 DEF IInv, Types, Pass
<1>4. Listed' /\ Stamped' /\ SingleProject'
  BY <1>1, <1>2, FewerBindings DEF IInv, Held
<1>5. Hand'
  BY <1>2, <1>3 DEF IInv, Held, Hand, Reached, Epoch
<1>6. Seen'
  BY <1>1, <1>2, <1>3 DEF IInv, Held, Seen, Epoch
<1>7. Todo'
  <2>1. \A y \in pass.todo : /\ Expired(y, pass.snap) \/ Unmarked(y, pass.snap)
                             /\ y.relation = "project" => y \in records
    BY <1>2 DEF IInv, Held, Todo
  <2>2. \A y \in pass'.todo : (Expired(y, pass.snap) \/ Unmarked(y, pass.snap))'
    BY <1>2, <1>3, <2>1 DEF Expired, Unmarked, LegacyExpired, Baseline, Epoch
  <2>3. \A y \in pass'.todo : y.relation = "project" => y \in records'
    BY <1>1, <1>3, <2>1
  <2>4. pass.snap.connected => \A y \in records' : y.relation = "project" =>
            y \in pass'.todo \/ (y.stamp = Epoch(pass.snap) /\ y.ws \in pass.snap.ids)
    BY <1>1, <1>2, <1>3 DEF IInv, Held, Todo
  <2> QED
    BY <1>2, <1>3, <2>2, <2>3, <2>4 DEF Todo, Epoch
<1> QED
  BY <1>4, <1>5, <1>6, <1>7 DEF Held

LEMMA CallHolds ==
    ASSUME IInv, Synchronized \/ RequireWorkspace
    PROVE  Held' /\ SingleProject'
<1>1. UNCHANGED <<source, present, objects, staging, spent, records>>
  BY DEF Synchronized, RequireWorkspace, bus
<1>2. Listed' /\ Stamped' /\ SingleProject'
  BY <1>1, FewerBindings DEF IInv, Held
<1>3. CASE step' = "root" /\ pass' = NoPass
  <2>1. ~pass'.before.connected /\ ~pass'.snap.connected
    BY <1>3, NothingIsRoot DEF NoPass
  <2> QED
    BY <1>2, <1>3, <2>1 DEF Held, Hand, Seen, Todo
<1>4. CASE lock = "bind" /\ step = "apply" /\ step' = "require" /\ UNCHANGED <<pass, call, lock>>
  <2>1. Hand'
    BY <1>1, <1>4 DEF IInv, Held, Hand, Reached, Epoch
  <2> QED
    BY <1>2, <1>4, <2>1 DEF Held, Seen, Todo
<1>5. CASE step = "require" /\ source.connected /\ call.ws \subseteq source.ids /\ step' = "write"
           /\ UNCHANGED <<lock, pass, call>>
  <2>1. call.ws \subseteq spent
    BY <1>5 DEF IInv, Held, Listed
  <2>2. Hand'
    BY <1>1, <1>5, <2>1 DEF IInv, Held, Hand, Reached, Epoch
  <2> QED
    BY <1>2, <1>5, <2>2 DEF Held, Seen, Todo
<1>6. CASE Release
  BY <1>2, <1>6, ReleaseHolds DEF Held
<1> QED
  BY <1>3, <1>4, <1>5, <1>6 DEF Synchronized, RequireWorkspace

LEMMA WriteBindingHolds ==
    ASSUME IInv, WriteBinding
    PROVE  Held' /\ SingleProject'
<1>1. PICK w \in call.ws, t \in call.target : records' = SetOneIn(records, Bound(w, t))
  BY DEF WriteBinding
<1>2. step = "write" /\ Release /\ UNCHANGED <<source, present, objects, staging, spent>>
  BY DEF WriteBinding, bus
<1> DEFINE b == Bound(w, t)
<1>3. b.ws = w /\ b.relation = "project" /\ b.stamp = Epoch(pass.snap) /\ b.made = Epoch(source)
  BY DEF Bound
<1>4. records' = {y \in records : y.ws # b.ws \/ y.relation # b.relation} \cup {b}
  BY <1>1 DEF SetOneIn
<1> HIDE DEF b
<1>5. b.stamp \in Epochs /\ Reached(b.stamp)
  BY <1>2, <1>3, EpochIsEpoch DEF IInv, Types, Pass, Held, Hand
<1>6. source.connected /\ b.stamp = Epoch(source) => b.ws \in spent
  BY <1>2, <1>3 DEF IInv, Held, Hand
<1>7. Listed'
  BY <1>2 DEF IInv, Held, Listed
<1>8. SingleProject'
  BY <1>3, <1>4 DEF IInv, SingleProject
<1>9. Stamped'
  <2>1. \A y \in records' : y = b \/ y \in records
    BY <1>4
  <2> QED
    BY <1>2, <1>3, <1>5, <1>6, <2>1 DEF IInv, Held, Stamped, Reached, Epoch
<1> QED
  BY <1>2, <1>7, <1>8, <1>9, ReleaseHolds DEF Held

LEMMA WriteNameHolds ==
    ASSUME IInv, NEW w \in Workspaces, NEW t \in Targets, WriteName(w, t)
    PROVE  /\ Held' /\ SingleProject'
           /\ \A x \in records : x.relation = "project" => x \in records'
<1> DEFINE n == [ws |-> w, relation |-> "name", target |-> t,
                 stamp |-> Unstamped, made |-> Epoch(source)]
<1>1. records' = SetOneIn(records, n) /\ n.relation = "name"
      /\ UNCHANGED <<source, present, objects, staging, spent, lock, step, pass, call, tracker>>
  BY DEF WriteName, bus, holder, task
<1> HIDE DEF n
<1>2. \A x : x.relation = "project" => (x \in records' <=> x \in records)
  BY <1>1 DEF SetOneIn
<1>3. Listed' /\ Stamped' /\ SingleProject'
  BY <1>1, <1>2, FewerBindings DEF IInv, Held
<1>4. Hand' /\ Seen'
  BY <1>1, <1>2 DEF IInv, Held, Hand, Seen, Reached, Epoch
<1>5. Todo'
  BY <1>1, <1>2 DEF IInv, Held, Todo, Expired, Unmarked, LegacyExpired, Baseline, Epoch
<1> QED
  BY <1>2, <1>3, <1>4, <1>5 DEF Held

\* What else takes or gives up the lock, or only listens.
LEMMA OtherHolds ==
    ASSUME IInv,
           \/ Finish \/ Lock \/ Receive \/ Abort \/ Restart \/ UNCHANGED vars
           \/ \E w \in Workspaces, t \in Targets : Bind(w, t)
    PROVE  Held' /\ SingleProject' /\ records' = records
<1>1. UNCHANGED <<source, present, objects, staging, spent, records>>
  BY DEF Finish, Lock, Receive, Abort, Restart, Bind, bus, vars
<1>2. Listed' /\ Stamped' /\ SingleProject'
  BY <1>1, FewerBindings DEF IInv, Held
<1>3. CASE Finish \/ Abort \/ Restart
  BY <1>1, <1>2, <1>3, ReleaseHolds DEF Finish, Abort, Restart, Held
<1>4. CASE step' = "root" /\ pass' = pass
  <2>1. Hand'
    BY <1>1, <1>4 DEF IInv, Held, Hand, Reached, Epoch
  <2> QED
    BY <1>1, <1>2, <1>4, <2>1 DEF Held, Seen, Todo
<1>5. CASE UNCHANGED <<lock, step, pass, call, tracker>>
  <2>1. Hand' /\ Seen'
    BY <1>1, <1>5 DEF IInv, Held, Hand, Seen, Reached, Epoch
  <2>2. Todo'
    BY <1>1, <1>5 DEF IInv, Held, Todo, Expired, Unmarked, LegacyExpired, Baseline, Epoch
  <2> QED
    BY <1>1, <1>2, <2>1, <2>2 DEF Held
<1> QED
  BY <1>3, <1>4, <1>5 DEF Lock, Receive, Bind, vars, holder

LEMMA NextHolds == IInv /\ [Next]_vars => IInv'
<1> SUFFICES ASSUME IInv, [Next]_vars PROVE IInv'
  OBVIOUS
<1>1. Types'
  BY SourceTypes, StewardTypes DEF IInv
<1>2. Held' /\ SingleProject'
  BY SourceHolds, ReadsHold, ListHolds, ApplyHolds, CallHolds, WriteBindingHolds, WriteNameHolds,
     OtherHolds DEF Next, Holder
<1> QED
  BY <1>1, <1>2 DEF IInv

-----------------------------------------------------------------------------
(* The theorems.                                                           *)

LEMMA Invariance == Spec => []IInv
BY InitHolds, NextHolds, PTL DEF Spec

(* Every variable keeps its type.                                          *)
THEOREM LifecycleTypes == Spec => []TypeOK
<1>1. IInv => TypeOK
  BY DEF IInv, Types, TypeOK, Pass, Steps
<1> QED
  BY <1>1, Invariance, PTL

(* A workspace never has two projects: only the holder of the lock writes  *)
(* or edits bindings, and what a pass edits is as it was listed            *)
(* (bind_workspace, Reconciler).                                           *)
THEOREM OneProject == Spec => []SingleProject
BY Invariance, PTL DEF IInv

(* A binding whose stamp is current was made in this epoch: no pass stamps *)
(* a binding anew, and no epoch comes back (Reconciler::expired).          *)
THEOREM BindingsNotInherited == Spec => []ProjectsNotInherited
<1>1. IInv => ProjectsNotInherited
  <2> SUFFICES ASSUME IInv, NEW x \in records, x.relation = "project", Current(x)
               PROVE  x.made = Epoch(source)
    BY DEF ProjectsNotInherited
  <2>1. source.connected
    BY DEF Current, IInv, Held, Listed
  <2> QED
    BY <2>1 DEF Current, IInv, Held, Stamped
<1> QED
  BY <1>1, Invariance, PTL

(* No pass takes a current binding away, not even one made while another   *)
(* pass was under way (synchronize).                                       *)
THEOREM FreshBindsSpared == Spec => SparesFreshBinds
<1> DEFINE Spares == step = "apply" => \A x \in records \ records' :
                        x.relation = "project" => ~Current(x)
<1>1. IInv /\ [Next]_vars => Spares
  <2> SUFFICES ASSUME IInv, [Next]_vars, step = "apply",
                      NEW x \in records, x \notin records', x.relation = "project"
               PROVE  ~Current(x)
    OBVIOUS
  <2>1. CASE Apply
    BY <2>1, ApplyEdits
  <2>2. CASE ~Apply
    <3>1. ~WriteBinding /\ ~ReadRoot /\ ~ReadObjects /\ ~ReadAgain /\ ~List
          /\ ~RequireWorkspace
      BY DEF WriteBinding, ReadRoot, ReadObjects, ReadAgain, List, RequireWorkspace
    <3>2. records' # records
      OBVIOUS
    <3>3. ~Source /\ ~Synchronized
      BY <3>2, SourceTypes DEF IInv, Synchronized
    <3>4. \A w \in Workspaces, t \in Targets : ~WriteName(w, t)
      BY WriteNameHolds
    <3> QED
      BY <2>2, <3>1, <3>2, <3>3, <3>4, OtherHolds DEF Next, Holder
  <2> QED
    BY <2>1, <2>2
<1>2. IInv /\ [Next]_vars => [Spares]_vars
  BY <1>1
<1> QED
  BY <1>2, Invariance, PTL DEF Spec, SparesFreshBinds

(* When the baseline advances, every binding is of the snapshot's epoch    *)
(* and of one of its workspaces (reconcile).                               *)
THEOREM BaselineFollowsCleanup == Spec => BaselineAfterCleanup
<1> DEFINE Clean == tracker' # tracker /\ restarts' = restarts /\ tracker'.known # {} =>
                        \A x \in records : x.relation = "project" =>
                            x.stamp = tracker'.epoch /\ x.ws \in tracker'.known
<1>1. IInv /\ [Next]_vars => Clean
  <2> SUFFICES ASSUME IInv, [Next]_vars, tracker' # tracker, restarts' = restarts,
                      tracker'.known # {}, NEW x \in records, x.relation = "project"
               PROVE  x.stamp = tracker'.epoch /\ x.ws \in tracker'.known
    OBVIOUS
  <2>1. ~Restart
    BY DEF Restart, IInv, Types
  <2>2. Finish
    <3>1. ~Source
      BY SourceTypes DEF IInv, task
    <3> QED
      BY <2>1, <3>1 DEF Next, Holder, ReadRoot, ReadObjects, ReadAgain, List, Apply, Synchronized,
         RequireWorkspace, WriteBinding, Lock, Receive, Abort, Bind, WriteName, task, vars
  <2>3. CASE pass.snap.connected
    <3>1. tracker' = [epoch |-> Epoch(pass.snap), known |-> pass.snap.ids]
      BY <2>2, <2>3 DEF Finish
    <3>2. step = "apply" /\ pass.todo = {}
      BY <2>2 DEF Finish
    <3>3. x.stamp = Epoch(pass.snap) /\ x.ws \in pass.snap.ids
      BY <2>3, <3>2 DEF IInv, Held, Todo
    <3> QED
      BY <3>1, <3>3
  <2>4. CASE ~pass.snap.connected
    <3>1. tracker' = [tracker EXCEPT !.known = {}]
      BY <2>2, <2>4 DEF Finish
    <3> QED
      BY <3>1 DEF IInv, Types
  <2> QED
    BY <2>3, <2>4
<1>2. IInv /\ [Next]_vars => [Clean]_vars
  BY <1>1
<1> QED
  BY <1>2, Invariance, PTL DEF Spec, BaselineAfterCleanup

-----------------------------------------------------------------------------
(* The namer works on the same workspaces (namer.rs, WorkspaceNaming).     *)

\* The absent name and the absent write are no names and no writes.
NoneApart == None \notin N!Names /\ None \notin [ws : Named, name : N!Names]

Desktops == [focused : {None} \cup Named, links : [Named -> Projects \cup {None}],
             names : [Named -> {None} \cup N!Names],
             catalog : [Projects -> Targets \cup {None}]]

NamerTypes ==
    /\ desktop \in Desktops /\ read \in Desktops /\ known \in Desktops
    /\ queue \in Seq(Desktops) /\ hand \in {None} \cup [ws : Named, name : N!Names]
    /\ state \in {"runs", "failed", "ended"} /\ expired \subseteq Named

NamesGone == \A w \in expired : desktop.names[w] = None

\* A name that is wanted by the combination k was written, or has expired since.
Served(k) ==
    \/ N!Update(k) = None
    \/ desktop.names[N!Update(k).ws] # k.names[N!Update(k).ws]
    \/ N!Update(k).ws \in expired

\* The last combination waits, is being served, or was.
LastOne ==
    state = "runs" =>
        \/ queue # <<>> /\ queue[Len(queue)] = known
        \/ queue = <<>> /\ hand # None /\ hand = N!Update(known)
        \/ queue = <<>> /\ hand = None /\ Served(known)

NamerInv == NamerTypes /\ NamesGone /\ (hand # None => state = "runs") /\ LastOne

-----------------------------------------------------------------------------
LEMMA UpdateFacts ==
    ASSUME NoneApart, NEW d \in Desktops
    PROVE  /\ N!Update(d) \in {None} \cup [ws : Named, name : N!Names]
           /\ N!Update(d) # None =>
                /\ d.focused \in Named /\ N!Update(d).ws = d.focused
                /\ N!Update(d).name = N!Wanted(d, d.focused)
                /\ N!Automatic(d.names[d.focused])
                /\ d.names[d.focused] # N!Update(d).name
           /\ N!Update(d) = None =>
                \/ d.focused = None \/ ~N!Automatic(d.names[d.focused])
                \/ d.names[d.focused] = N!Wanted(d, d.focused)
<1>1. ASSUME NEW w \in Named
      PROVE  N!Wanted(d, w) \in N!Names /\ N!ProjectName(d, w) \in Targets \cup {None}
  <2>1. d.links[w] \in Projects \cup {None}
    BY DEF Desktops
  <2>2. d.links[w] \in Projects => d.catalog[d.links[w]] \in Targets \cup {None}
    BY DEF Desktops
  <2>3. N!ProjectName(d, w) \in Targets \cup {None}
    BY <2>1, <2>2 DEF N!ProjectName
  <2> QED
    BY <2>3 DEF N!Wanted, N!Names, N!Sources
<1>2. d.focused \in {None} \cup Named
  BY DEF Desktops
<1>3. CASE d.focused # None /\ N!Automatic(d.names[d.focused])
           /\ d.names[d.focused] # N!Wanted(d, d.focused)
  <2>1. N!Update(d) = [ws |-> d.focused, name |-> N!Wanted(d, d.focused)]
    BY <1>3 DEF N!Update
  <2>2. N!Wanted(d, d.focused) \in N!Names
    BY <1>1, <1>2, <1>3
  <2>3. N!Update(d) \in [ws : Named, name : N!Names]
    BY <1>2, <1>3, <2>1, <2>2
  <2>4. N!Update(d).ws = d.focused /\ N!Update(d).name = N!Wanted(d, d.focused)
    BY <2>1
  <2>5. N!Update(d) # None
    BY <2>3 DEF NoneApart
  <2> QED
    BY <1>2, <1>3, <2>3, <2>4, <2>5
<1>4. CASE ~(d.focused # None /\ N!Automatic(d.names[d.focused])
             /\ d.names[d.focused] # N!Wanted(d, d.focused))
  <2>1. N!Update(d) = None
    BY <1>4 DEF N!Update
  <2> QED
    BY <1>4, <2>1
<1> QED
  BY <1>3, <1>4

LEMMA NamerInvImplies == ASSUME NoneApart, NamerInv PROVE N!NamesFollow
<1>1. /\ desktop \in Desktops /\ desktop.names \in [Named -> {None} \cup N!Names]
      /\ desktop.focused \in {None} \cup Named
  BY DEF NamerInv, NamerTypes, Desktops
<1>2. ASSUME NEW w \in Named
      PROVE  /\ N!Record(desktop.names[w])
             /\ w \in expired => desktop.names[w] = None
  BY <1>1 DEF NamerInv, NamesGone, N!Record
<1>3. ASSUME N!AtRest, desktop.focused # None,
             NEW w, w = desktop.focused
      PROVE  IF desktop.names[w] = None THEN w \in expired
             ELSE /\ desktop.names[w].text = N!Shown(desktop, w)
                  /\ N!Resolved(desktop, w) \in {None, desktop.names[w].text}
  <2>1. w \in Named /\ desktop.names[w] \in {None} \cup N!Names
    BY <1>1, <1>3
  <2>2. Served(desktop)
    BY <1>3 DEF NamerInv, LastOne, N!AtRest
  <2>3. CASE N!Update(desktop) # None
    <3>1. w \in expired
      BY <1>1, <1>3, <2>2, <2>3, UpdateFacts DEF Served
    <3> QED
      BY <1>2, <2>1, <3>1
  <2>4. CASE N!Update(desktop) = None /\ desktop.names[w] = N!Wanted(desktop, w)
    <3>1. desktop.names[w] =
            [text |-> IF N!ProjectName(desktop, w) # None THEN N!ProjectName(desktop, w)
                      ELSE "empty",
             source |-> IF N!ProjectName(desktop, w) # None THEN "project" ELSE "default"]
      BY <2>4 DEF N!Wanted
    <3>2. /\ desktop.names[w].source # "manual"
          /\ desktop.names[w].text = IF N!ProjectName(desktop, w) # None
                                     THEN N!ProjectName(desktop, w) ELSE "empty"
      BY <3>1
    <3>3. desktop.names[w] # None
      <4>1. desktop.names[w] \in {None} \cup N!Names /\ "empty" \in Targets \cup {"empty"}
        BY <2>1
      <4>2. N!ProjectName(desktop, w) # None => N!ProjectName(desktop, w) \in Targets
        BY <1>1, <2>1 DEF N!ProjectName, Desktops
      <4>3. desktop.names[w] \in N!Names
        BY <3>1, <4>2 DEF N!Names, N!Sources
      <4> QED
        BY <4>3 DEF NoneApart
    <3> QED
      BY <3>2, <3>3 DEF N!Shown, N!Resolved
  <2>5. CASE ~N!Automatic(desktop.names[w])
    <3>1. /\ desktop.names[w] # None /\ desktop.names[w] \in N!Names
          /\ desktop.names[w].source = "manual"
      BY <2>1, <2>5 DEF N!Automatic, N!Names
    <3> QED
      BY <3>1 DEF N!Shown, N!Resolved
  <2> QED
    BY <1>1, <1>3, <2>3, <2>4, <2>5, UpdateFacts
<1> QED
  BY <1>2, <1>3 DEF N!NamesFollow

-----------------------------------------------------------------------------
\* What others do keeps a written name different, or it expires.
LEMMA ServedStays ==
    ASSUME NoneApart, NamerInv, desktop' \in Desktops, Served(known), UNCHANGED known,
           \A w \in Named :
              \/ desktop'.names[w] = desktop.names[w] /\ (w \in expired => w \in expired')
              \/ desktop'.names[w] # None /\ desktop'.names[w].source = "manual"
              \/ desktop'.names[w] = None /\ w \in expired'
    PROVE  Served(known)'
<1>1. CASE N!Update(known) = None
  BY <1>1 DEF Served, N!Update, N!Wanted, N!ProjectName
<1>2. CASE N!Update(known) # None
  <2> DEFINE w == N!Update(known).ws
  <2>1. /\ w \in Named /\ N!Automatic(known.names[w])
    BY <1>2, UpdateFacts DEF NamerInv, NamerTypes
  <2>2. N!Update(known)' = N!Update(known)
    BY DEF N!Update, N!Wanted, N!ProjectName, N!Automatic
  <2>3. desktop'.names[w] # None /\ desktop'.names[w].source = "manual"
            => desktop'.names[w] # known.names[w]
    BY <2>1 DEF N!Automatic
  <2> QED
    BY <1>2, <2>1, <2>2, <2>3 DEF Served
<1> QED
  BY <1>1, <1>2

\* What others do leaves the namer as it is.
LEMMA NamerOthersHold ==
    ASSUME NoneApart, NamerInv, desktop' \in Desktops, expired' \subseteq Named, NamesGone',
           UNCHANGED <<read, known, queue, hand, state>>,
           \A w \in Named :
              \/ desktop'.names[w] = desktop.names[w] /\ (w \in expired => w \in expired')
              \/ desktop'.names[w] # None /\ desktop'.names[w].source = "manual"
              \/ desktop'.names[w] = None /\ w \in expired'
    PROVE  NamerInv'
<1>1. NamerTypes'
  BY DEF NamerInv, NamerTypes
<1>2. Served(known) => Served(known)'
  BY ServedStays
<1>3. N!Update(known)' = N!Update(known)
  BY DEF N!Update, N!Wanted, N!ProjectName, N!Automatic
<1>4. LastOne'
  BY <1>2, <1>3 DEF NamerInv, LastOne
<1> QED
  BY <1>1, <1>4 DEF NamerInv

LEMMA NamerChangeStep == ASSUME NoneApart, NamerInv, N!Change PROVE NamerInv'
<1>1. desktop \in Desktops /\ desktop.names \in [Named -> {None} \cup N!Names]
  BY DEF NamerInv, NamerTypes, Desktops
<1>2. /\ expired' = {w \in expired : desktop'.names[w] = None}
      /\ UNCHANGED <<read, known, queue, hand, state>>
      /\ desktop' \in N!Changes(desktop)
  BY DEF N!Change
<1>3. /\ desktop' \in Desktops
      /\ \A w \in Named :
            \/ desktop'.names[w] = desktop.names[w]
            \/ desktop'.names[w] # None /\ desktop'.names[w].source = "manual"
  <2>1. CASE desktop.focused # None /\ desktop' \in N!Rename(desktop)
    <3>1. PICK t \in Targets :
            desktop' = [desktop EXCEPT !.names[desktop.focused] =
                                            [text |-> t, source |-> "manual"]]
      BY <2>1 DEF N!Rename
    <3>2. [text |-> t, source |-> "manual"] \in N!Names
      BY DEF N!Names, N!Sources
    <3>3. desktop.focused \in Named
      BY <1>1, <2>1 DEF Desktops
    <3>4. desktop'.names =
            [desktop.names EXCEPT ![desktop.focused] = [text |-> t, source |-> "manual"]]
      BY <1>1, <3>1 DEF Desktops
    <3>5. desktop' \in Desktops
      BY <1>1, <3>1, <3>2, <3>3 DEF Desktops
    <3> QED
      BY <1>1, <3>2, <3>3, <3>4, <3>5 DEF NoneApart
  <2>2. CASE desktop' \in N!Rebind(desktop)
    <3>1. PICK w \in Named, p \in Projects \cup {None} :
            desktop' = [desktop EXCEPT !.links[w] = p]
      BY <2>2 DEF N!Rebind
    <3> QED
      BY <1>1, <3>1 DEF Desktops
  <2>3. CASE desktop' \in N!Recatalog(desktop)
    <3>1. PICK p \in Projects, t \in Targets \cup {None} :
            desktop' = [desktop EXCEPT !.catalog[p] = t]
      BY <2>3 DEF N!Recatalog
    <3> QED
      BY <1>1, <3>1 DEF Desktops
  <2>4. CASE desktop' \in N!Refocus(desktop)
    <3>1. PICK w \in Named \cup {None} : desktop' = [desktop EXCEPT !.focused = w]
      BY <2>4 DEF N!Refocus
    <3> QED
      BY <1>1, <3>1 DEF Desktops
  <2> QED
    BY <1>2, <2>1, <2>2, <2>3, <2>4 DEF N!Changes
<1>4. expired' \subseteq Named /\ NamesGone'
  BY <1>2 DEF NamerInv, NamerTypes, NamesGone
<1>5. \A w \in Named :
        \/ desktop'.names[w] = desktop.names[w] /\ (w \in expired => w \in expired')
        \/ desktop'.names[w] # None /\ desktop'.names[w].source = "manual"
  BY <1>2, <1>3 DEF NamerInv, NamesGone
<1> QED
  BY <1>2, <1>3, <1>4, <1>5, NamerOthersHold

LEMMA NamerExpireStep ==
    ASSUME NoneApart, NamerInv, NEW v \in Named, N!Expire(v) PROVE NamerInv'
<1>1. desktop \in Desktops /\ desktop.names \in [Named -> {None} \cup N!Names]
  BY DEF NamerInv, NamerTypes, Desktops
<1>2. /\ expired' = expired \cup {v} /\ UNCHANGED <<read, known, queue, hand, state>>
      /\ desktop' = [desktop EXCEPT !.names[v] = None]
  BY DEF N!Expire
<1>3. desktop'.names = [desktop.names EXCEPT ![v] = None] /\ desktop' \in Desktops
  BY <1>1, <1>2 DEF Desktops
<1>4. expired' \subseteq Named /\ NamesGone'
  BY <1>1, <1>2, <1>3 DEF NamerInv, NamerTypes, NamesGone
<1>5. \A w \in Named :
        \/ desktop'.names[w] = desktop.names[w] /\ (w \in expired => w \in expired')
        \/ desktop'.names[w] = None /\ w \in expired'
  BY <1>1, <1>2, <1>3
<1> QED
  BY <1>2, <1>3, <1>4, <1>5, NamerOthersHold

LEMMA NamerTakeStep == ASSUME NoneApart, NamerInv, N!Take PROVE NamerInv'
<1>1. /\ state = "runs" /\ hand = None /\ queue # <<>> /\ queue' = Tail(queue)
      /\ hand' = N!Update(Head(queue)) /\ UNCHANGED <<desktop, read, known, state, expired>>
  BY DEF N!Take
<1>2. /\ queue \in Seq(Desktops) /\ Head(queue) \in Desktops /\ queue' \in Seq(Desktops)
      /\ queue[Len(queue)] = known
  BY <1>1 DEF NamerInv, NamerTypes, LastOne
<1>3. NamerTypes'
  BY <1>1, <1>2, UpdateFacts DEF NamerInv, NamerTypes
<1>4. CASE Len(queue) = 1
  <2>1. queue' = <<>> /\ Head(queue) = known
    BY <1>1, <1>2, <1>4
  <2>2. N!Update(known)' = N!Update(known)
    BY <1>1 DEF N!Update, N!Wanted, N!ProjectName, N!Automatic
  <2> QED
    BY <1>1, <1>3, <2>1, <2>2 DEF NamerInv, LastOne, Served, NamesGone
<1>5. CASE Len(queue) # 1
  <2>1. Len(queue) > 1
    <3>1. Len(queue) \in Nat \ {0}
      BY <1>1, <1>2, EmptySeq, Zenon
    <3>2. PICK n : n = Len(queue)
      OBVIOUS
    <3>3. n \in Nat /\ n # 0 /\ n # 1
      BY <1>5, <3>1, <3>2
    <3> QED
      BY <3>2, <3>3
  <2> DEFINE q == Tail(queue)
  <2>2. Len(q) = Len(queue) - 1 /\ \A i \in 1..Len(q) : q[i] = queue[i + 1]
    BY <1>1, <1>2, HeadTailProperties
  <2>3. Len(queue) \in Nat
    BY <1>2
  <2>4. q[Len(q)] = queue[Len(queue)] /\ q # <<>>
    <3>1. Len(q) \in 1..Len(q) /\ Len(q) + 1 = Len(queue)
      BY <2>1, <2>2, <2>3
    <3>2. q # <<>>
      <4> SUFFICES ASSUME q = <<>> PROVE FALSE
        OBVIOUS
      <4>1. Len(q) = 0
        BY EmptySeq, Zenon
      <4> QED
        BY <2>1, <2>2, <2>3, <4>1
    <3> QED
      BY <2>2, <3>1, <3>2
  <2>5. queue' # <<>> /\ queue'[Len(queue')] = queue[Len(queue)]
    BY <1>1, <2>4
  <2> QED
    BY <1>1, <1>2, <1>3, <2>5 DEF NamerInv, LastOne, NamesGone
<1> QED
  BY <1>4, <1>5

LEMMA NamerWriteStep == ASSUME NoneApart, NamerInv, N!Write PROVE NamerInv'
<1>1. /\ hand # None /\ hand' = None /\ expired' = expired \ {hand.ws}
      /\ desktop' = [desktop EXCEPT !.names[hand.ws] = hand.name]
      /\ UNCHANGED <<read, known, queue, state>>
  BY DEF N!Write
<1>2. /\ desktop \in Desktops /\ desktop.names \in [Named -> {None} \cup N!Names]
      /\ hand.ws \in Named /\ hand.name \in N!Names /\ state = "runs"
  BY <1>1 DEF NamerInv, NamerTypes, Desktops
<1>3. desktop'.names = [desktop.names EXCEPT ![hand.ws] = hand.name] /\ desktop' \in Desktops
  BY <1>1, <1>2 DEF Desktops
<1>4. NamerTypes'
  BY <1>1, <1>3 DEF NamerInv, NamerTypes
<1>5. NamesGone'
  BY <1>1, <1>2, <1>3 DEF NamerInv, NamesGone, NamerTypes
<1>6. queue = <<>> => Served(known)'
  <2> SUFFICES ASSUME queue = <<>> PROVE Served(known)'
    OBVIOUS
  <2>1. hand = N!Update(known)
    BY <1>1, <1>2 DEF NamerInv, LastOne
  <2>2. known.names[hand.ws] # hand.name
    BY <1>1, <2>1, UpdateFacts DEF NamerInv, NamerTypes
  <2>3. N!Update(known)' = hand
    BY <1>1, <2>1 DEF N!Update, N!Wanted, N!ProjectName, N!Automatic
  <2> QED
    BY <1>1, <1>2, <1>3, <2>2, <2>3 DEF Served
<1> QED
  BY <1>1, <1>2, <1>4, <1>5, <1>6 DEF NamerInv, LastOne

LEMMA NamerStep ==
    ASSUME NoneApart, NamerInv,
           \/ \E i \in N!Inputs : N!Read(i) \/ N!Deliver(i)
           \/ N!WriteFails \/ N!Start \/ N!ReadFails \/ UNCHANGED N!vars
    PROVE  NamerInv'
<1>1. ASSUME NEW i \in N!Inputs, N!Read(i) PROVE NamerInv'
  <2>1. /\ read' = [read EXCEPT ![i] = desktop[i]]
        /\ UNCHANGED <<desktop, known, queue, hand, state, expired>>
    BY <1>1 DEF N!Read
  <2>2. read' \in Desktops
    BY <2>1 DEF NamerInv, NamerTypes, Desktops, N!Inputs
  <2>3. N!Update(known)' = N!Update(known)
    BY <2>1 DEF N!Update, N!Wanted, N!ProjectName, N!Automatic
  <2> QED
    BY <2>1, <2>2, <2>3 DEF NamerInv, NamerTypes, NamesGone, LastOne, Served
<1>2. ASSUME NEW i \in N!Inputs, N!Deliver(i) PROVE NamerInv'
  <2>1. /\ known' = [known EXCEPT ![i] = read[i]] /\ queue' = Append(queue, known')
        /\ UNCHANGED <<desktop, read, hand, state, expired>>
    BY <1>2 DEF N!Deliver
  <2>2. known' \in Desktops
    BY <2>1 DEF NamerInv, NamerTypes, Desktops, N!Inputs
  <2>3. queue' \in Seq(Desktops) /\ queue' # <<>> /\ queue'[Len(queue')] = known'
    BY <2>1, <2>2 DEF NamerInv, NamerTypes
  <2> QED
    BY <2>1, <2>2, <2>3 DEF NamerInv, NamerTypes, NamesGone, LastOne
<1>3. CASE N!WriteFails
  <2>1. <<>> \in Seq(Desktops)
    BY EmptySeq
  <2> QED
    BY <1>3, <2>1 DEF N!WriteFails, NamerInv, NamerTypes, NamesGone, LastOne
<1>4. CASE N!Start
  <2>1. <<desktop>> \in Seq(Desktops) /\ <<desktop>> # <<>>
        /\ <<desktop>>[Len(<<desktop>>)] = desktop
    BY DEF NamerInv, NamerTypes
  <2>2. queue' = <<desktop>> /\ known' = desktop /\ read' = desktop
    BY <1>4 DEF N!Start
  <2> QED
    BY <1>4, <2>1, <2>2 DEF N!Start, NamerInv, NamerTypes, NamesGone, LastOne
<1>5. CASE N!ReadFails
  BY <1>5 DEF N!ReadFails, NamerInv, NamerTypes, NamesGone, LastOne
<1>6. CASE UNCHANGED N!vars
  BY <1>6 DEF N!vars, NamerInv, NamerTypes, NamesGone, LastOne, Served, N!Update, N!Wanted,
              N!ProjectName, N!Automatic
<1> QED
  BY <1>1, <1>2, <1>3, <1>4, <1>5, <1>6

LEMMA NamerInitHolds == ASSUME NoneApart, N!Init PROVE NamerInv
<1>1. desktop \in Desktops
  <2>1. [text |-> "empty", source |-> "random"] \in N!Names
    BY DEF N!Names, N!Sources
  <2> QED
    BY <2>1 DEF N!Init, Desktops
<1>2. /\ <<desktop>> \in Seq(Desktops) /\ <<desktop>> # <<>>
      /\ <<desktop>>[Len(<<desktop>>)] = desktop
  BY <1>1
<1> QED
  BY <1>1, <1>2 DEF N!Init, NamerInv, NamerTypes, NamesGone, LastOne

LEMMA NamerNextHolds == ASSUME NoneApart, NamerInv, [N!Next]_(N!vars) PROVE NamerInv'
BY NamerChangeStep, NamerExpireStep, NamerTakeStep, NamerWriteStep, NamerStep DEF N!Next

\* However the namer's inputs, its requests, projd, users and the cleanup follow each other,
\* the last combination it made waits, is being written for, or was (namer.rs).
THEOREM NamerInvariant == ASSUME NoneApart PROVE N!Spec => []NamerInv
<1>1. N!Init => NamerInv
  BY NamerInitHolds
<1>2. NamerInv /\ [N!Next]_(N!vars) => NamerInv'
  BY NamerNextHolds
<1> QED
  BY <1>1, <1>2, PTL DEF N!Spec

\* However old the combination the namer wrote for, when all is read the focused workspace has
\* the name the bar shows and the focus metrics report, or its name expired (namer.rs).
THEOREM NamesFollowDesktop == ASSUME NoneApart PROVE N!Spec => []N!NamesFollow
<1>1. NamerInv => N!NamesFollow
  BY NamerInvImplies
<1> QED
  BY <1>1, NamerInvariant, PTL

-----------------------------------------------------------------------------
(* The launcher (Launcher, of which L is the instance of MCDesktop), for   *)
(* any parameters, texts and results and any number of events.  Numbered   *)
(* says that results are counted and that no search is the absent one.     *)

Searches == [params : Params, text : Texts]
Job == [generation : Nat, params : Params, text : Texts]
InHand == [job : Job, done : BOOLEAN]

Numbered ==
    /\ Blank \in Texts
    /\ Found \in [Params -> [Texts -> Nat]]
    /\ None \notin Searches /\ None \notin InHand

-----------------------------------------------------------------------------
(* The inductive invariant.                                                *)

Message ==
    [do : {"results", "error"}, job : Job]
    \cup [do : {"show", "toggle"}, request : L!Requests]
    \cup [do : {"hide", "activate", "refresh"}]
    \cup [do : {"cycle"}, by : {1, -1}]
    \cup [do : {"key"}, refresh : BOOLEAN, close : BOOLEAN]
Choice == [search : Searches, keep : BOOLEAN, alone : BOOLEAN]

RequestTypes == params \in Params /\ text \in Texts /\ mode \in L!Modes
                /\ preselect \in BOOLEAN /\ changing \in BOOLEAN
SearchTypes ==
    /\ searched \in Nat /\ jobs \in Seq(Job) /\ Len(jobs) <= searched
    /\ asked = None \/ asked \in InHand
ListTypes ==
    /\ results = None \/ results \in Searches
    /\ selected \in Nat /\ (selected = 0 \/ selected < L!Count(results))
    /\ broken \in BOOLEAN
WindowTypes ==
    /\ visible \in BOOLEAN /\ revealed \in BOOLEAN /\ grabbed \in BOOLEAN /\ held \in BOOLEAN
    /\ transition \in Nat /\ timers \subseteq 0..transition
DaemonTypes ==
    /\ cache = None \/ cache \in Searches
    /\ keys \in Nat /\ choices \subseteq Choice
    /\ failed \in BOOLEAN /\ others \in BOOLEAN
LauncherTyped == /\ RequestTypes /\ SearchTypes /\ ListTypes /\ WindowTypes /\ DaemonTypes
         /\ messages \in Seq(Message)

\* The latest search is in one place: it waits, is in the daemon, or its answer
\* is on its way.  It is for what is asked for unless a changed text was not
\* announced, and once it was answered the daemon remembers it unless somebody
\* else has searched since.
OfJob(m) == m.do \in {"results", "error"}
Latest(job) == job.generation = searched
ForRequest(job) == ~changing => job.params = params /\ job.text = text
Cached(job) == ~others => cache = L!SearchOf(job.params, job.text)

Waiting == jobs # <<>> => Latest(jobs[Len(jobs)]) /\ ForRequest(jobs[Len(jobs)])
InDaemon ==
    asked # None =>
        /\ asked.job.generation <= searched
        /\ Latest(asked.job) <=> jobs = <<>>
        /\ Latest(asked.job) => ForRequest(asked.job) /\ (asked.done => Cached(asked.job))
InMessage(m) ==
    OfJob(m) =>
        /\ m.job.generation <= searched
        /\ Latest(m.job) => /\ jobs = <<>> /\ asked = None /\ ForRequest(m.job)
                            /\ m.do = "results" => Cached(m.job)
Searched == Waiting /\ InDaemon /\ \A m \in L!ToSet(messages) : InMessage(m)

Pending == \/ jobs # <<>> \/ asked # None
           \/ \E m \in L!ToSet(messages) : OfJob(m) /\ Latest(m.job)

\* When its answer has come, the list is that answer.
ListAgrees ==
    ~Pending =>
        /\ broken <=> results = None
        /\ ~broken => /\ ~changing => results = L!SearchOf(params, text)
                      /\ ~others => cache = results

\* Nothing is under way besides a choice that was made in peace.
Calm == jobs = <<>> /\ asked = None /\ ~changing /\ messages = <<>> /\ keys = 0
Peaceful == \A c \in choices : c.alone => choices = {c} /\ cache = c.search /\ Calm

Window ==
    /\ L!WindowFollows
    /\ ~revealed => mode = "search"
    /\ revealed => transition \notin timers

LauncherInv == LauncherTyped /\ Searched /\ ListAgrees /\ Peaceful /\ Window /\ L!ChosenIsExecuted

-----------------------------------------------------------------------------
(* Messages.                                                               *)

LEMMA Sent ==
    ASSUME messages \in Seq(Message), NEW m \in Message, L!Send(m)
    PROVE  messages' \in Seq(Message) /\ L!ToSet(messages') = L!ToSet(messages) \cup {m}
           /\ messages' # <<>>
<1>1. /\ messages' \in Seq(Message) /\ Len(messages') = Len(messages) + 1 /\ Len(messages) \in Nat
      /\ \A i \in 1..Len(messages) : messages'[i] = messages[i]
      /\ messages'[Len(messages) + 1] = m
  BY DEF L!Send
<1>2. DOMAIN messages = 1..Len(messages) /\ DOMAIN messages' = 1..(Len(messages) + 1)
  BY <1>1
<1> QED
  BY <1>1, <1>2 DEF L!ToSet

LEMMA Received ==
    ASSUME messages \in Seq(Message), messages # <<>>, messages' = Tail(messages)
    PROVE  /\ messages' \in Seq(Message) /\ Head(messages) \in Message
           /\ Head(messages) \in L!ToSet(messages)
           /\ L!ToSet(messages) = L!ToSet(messages') \cup {Head(messages)}
<1>1. /\ messages' \in Seq(Message) /\ Len(messages) \in Nat \ {0}
        /\ Len(messages') = Len(messages) - 1
      /\ Head(messages) = messages[1] /\ Head(messages) \in Message
      /\ \A i \in 1..(Len(messages) - 1) : messages'[i] = messages[i + 1]
  OBVIOUS
<1>2. DOMAIN messages = 1..Len(messages) /\ DOMAIN messages' = 1..(Len(messages) - 1)
  BY <1>1
<1>3. \A i \in 1..Len(messages) : i = 1 \/ (i - 1 \in 1..(Len(messages) - 1) /\ i = (i - 1) + 1)
  BY <1>1
<1>4. \A i \in 1..Len(messages) : messages[i] = Head(messages) \/ messages[i] \in L!ToSet(messages')
  <2> SUFFICES ASSUME NEW i \in 1..Len(messages), i # 1 PROVE messages[i] \in L!ToSet(messages')
    BY <1>1
  <2>1. PICK j \in 1..(Len(messages) - 1) : i = j + 1
    BY <1>3
  <2>2. messages[i] = messages'[j]
    BY <1>1, <2>1
  <2> QED
    BY <1>2, <2>2 DEF L!ToSet
<1>5. \A i \in 1..(Len(messages) - 1) : messages'[i] \in L!ToSet(messages)
  <2>1. \A i \in 1..(Len(messages) - 1) : i + 1 \in 1..Len(messages)
    BY <1>1
  <2> QED
    BY <1>1, <1>2, <2>1 DEF L!ToSet
<1>6. Head(messages) \in L!ToSet(messages)
  BY <1>1, <1>2 DEF L!ToSet
<1>7. L!ToSet(messages) \subseteq L!ToSet(messages') \cup {Head(messages)}
  BY <1>2, <1>4 DEF L!ToSet
<1>8. L!ToSet(messages') \subseteq L!ToSet(messages)
  BY <1>2, <1>5 DEF L!ToSet
<1> QED
  BY <1>1, <1>6, <1>7, <1>8

LEMMA NoneSent == L!ToSet(<<>>) = {}
BY DEF L!ToSet

-----------------------------------------------------------------------------
(* What steps do to the searches.                                          *)

\* A step that searches for nothing.
Unsearched ==
    /\ UNCHANGED <<jobs, searched, asked, results, broken>>
    /\ \A m \in L!ToSet(messages') : OfJob(m) => m \in L!ToSet(messages)
    /\ \A m \in L!ToSet(messages) : OfJob(m) /\ Latest(m.job) => m \in L!ToSet(messages')
    /\ ~changing' => ~changing /\ params' = params /\ text' = text
    /\ ~others' => ~others /\ cache' = cache

LEMMA SearchesStay ==
    ASSUME Searched, ListAgrees, Unsearched
    PROVE  Searched' /\ ListAgrees'
<1>1. Waiting'
  BY DEF Searched, Unsearched, Waiting, Latest, ForRequest
<1>2. InDaemon'
  BY DEF Searched, Unsearched, InDaemon, Latest, ForRequest, Cached
<1>3. ASSUME NEW m \in L!ToSet(messages') PROVE InMessage(m)'
  <2>1. OfJob(m) => InMessage(m)
    BY <1>3 DEF Searched, Unsearched
  <2> QED
    BY <2>1 DEF InMessage, Latest, ForRequest, Cached, Unsearched, OfJob
<1>4. Pending <=> Pending'
  BY DEF Pending, Unsearched, Latest, OfJob
<1>5. ListAgrees'
  BY <1>4 DEF ListAgrees, Unsearched
<1> QED
  BY <1>1, <1>2, <1>3, <1>5 DEF Searched

\* A step that starts the search p, t.
Starts(p, t) ==
    /\ searched' = searched + 1
    /\ jobs' = Append(jobs, [generation |-> searched + 1, params |-> p, text |-> t])
    /\ UNCHANGED asked
    /\ \A m : m \in L!ToSet(messages') => ~OfJob(m) \/ m \in L!ToSet(messages)
    /\ ~changing' => params' = p /\ text' = t

LEMMA SearchBegins ==
    ASSUME LauncherTyped, Searched, NEW p \in Params, NEW t \in Texts, Starts(p, t)
    PROVE  SearchTypes' /\ Searched' /\ ListAgrees'
<1> DEFINE job == [generation |-> searched + 1, params |-> p, text |-> t]
<1>1. searched \in Nat /\ jobs \in Seq(Job) /\ Len(jobs) <= searched
  BY DEF LauncherTyped, SearchTypes
<1>2. job \in Job
  BY <1>1 DEF Job
<1>3. /\ jobs' \in Seq(Job) /\ Len(jobs') = Len(jobs) + 1 /\ jobs'[Len(jobs')] = job
      /\ jobs' # <<>>
  BY <1>1, <1>2 DEF Starts
<1>4. SearchTypes'
  BY <1>1, <1>3 DEF SearchTypes, LauncherTyped, Starts
<1>5. Waiting'
  BY <1>1, <1>3 DEF Waiting, Latest, ForRequest, Starts
<1>6. InDaemon'
  <2> SUFFICES ASSUME asked # None
               PROVE  asked.job.generation <= searched' /\ asked.job.generation # searched'
    BY <1>3 DEF InDaemon, Latest, Starts
  <2>1. asked \in InHand /\ asked.job.generation <= searched
    BY DEF LauncherTyped, SearchTypes, Searched, InDaemon
  <2> QED
    BY <1>1, <2>1 DEF Starts, InHand, Job
<1>7. ASSUME NEW m \in L!ToSet(messages') PROVE InMessage(m)'
  <2> SUFFICES ASSUME OfJob(m)
               PROVE  m.job.generation <= searched' /\ m.job.generation # searched'
    BY DEF InMessage, Latest, OfJob
  <2>1. m \in L!ToSet(messages) /\ m.job.generation <= searched
    BY <1>7 DEF Starts, Searched, InMessage
  <2>2. m \in Message
    BY <2>1, LenProperties DEF LauncherTyped, L!ToSet
  <2>3. m.job.generation \in Nat
    BY <2>2 DEF OfJob, Message, Job
  <2> QED
    BY <1>1, <2>1, <2>3 DEF Starts
<1>8. ListAgrees'
  BY <1>3 DEF ListAgrees, Pending
<1> QED
  BY <1>4, <1>5, <1>6, <1>7, <1>8 DEF Searched

-----------------------------------------------------------------------------
(* What steps do to choices.                                               *)

LEMMA ChoicesDisturbed ==
    ASSUME choices \subseteq Choice, L!Disturb
    PROVE  Peaceful' /\ choices' \subseteq Choice
<1>1. \A c \in choices : [c EXCEPT !.alone = FALSE] \in Choice
                         /\ ~[c EXCEPT !.alone = FALSE].alone
  BY DEF Choice
<1> QED
  BY <1>1 DEF L!Disturb, Peaceful

LEMMA NoPeace ==
    ASSUME Peaceful, ~Calm, choices' = choices
    PROVE  Peaceful'
BY DEF Peaceful

-----------------------------------------------------------------------------
(* The window.                                                             *)

LEMMA Hidden ==
    ASSUME LauncherTyped, Window, Numbered, L!HideWindow
    PROVE  /\ RequestTypes' /\ WindowTypes' /\ Window'
           /\ ~changing' => ~changing /\ params' = params /\ text' = text
<1>1. /\ mode' = "search" /\ held' = FALSE /\ grabbed' = FALSE /\ revealed' = FALSE
      /\ transition' = transition + 1 /\ timers' = timers \cup {transition + 1}
      /\ text' = Blank /\ changing' = (changing \/ Blank # text)
      /\ UNCHANGED <<params, preselect, visible>>
  BY DEF L!HideWindow, L!SetText
<1>2. RequestTypes'
  BY <1>1 DEF LauncherTyped, RequestTypes, L!Modes, Numbered
<1>3. WindowTypes'
  <2>1. transition \in Nat /\ \A t \in timers : t \in 0..transition
    BY DEF LauncherTyped, WindowTypes
  <2>2. transition' \in Nat /\ \A t \in timers' : t \in 0..transition'
    BY <1>1, <2>1
  <2> QED
    BY <1>1, <2>2 DEF LauncherTyped, WindowTypes
<1>4. Window'
  BY <1>1 DEF Window, L!WindowFollows
<1> QED
  BY <1>1, <1>2, <1>3, <1>4

LEMMA Revealed ==
    ASSUME LauncherTyped, Window, NEW r \in L!Requests, L!Reveal(r)
    PROVE  /\ RequestTypes' /\ WindowTypes' /\ Window'
           /\ params' = r.params /\ text' = r.text
           /\ changing' = (changing \/ r.text # text)
<1>1. /\ params' = r.params /\ mode' = r.mode /\ preselect' = r.preselect
      /\ text' = r.text /\ changing' = (changing \/ r.text # text)
      /\ transition' = transition + 1 /\ UNCHANGED timers
      /\ visible' = TRUE /\ revealed' = TRUE /\ grabbed' = TRUE
      /\ held' = (r.mode = "cycle")
  BY DEF L!Reveal, L!SetText
<1>2. /\ r.params \in Params /\ r.text \in Texts /\ r.mode \in L!Modes /\ r.preselect \in BOOLEAN
  BY DEF L!Requests
<1>3. RequestTypes'
  BY <1>1, <1>2 DEF LauncherTyped, RequestTypes
<1>4. WindowTypes'
  BY <1>1 DEF LauncherTyped, WindowTypes
<1>5. Window'
  <2>1. transition \in Nat /\ \A t \in timers : t \in 0..transition
    BY DEF LauncherTyped, WindowTypes
  <2>2. transition' \notin timers'
    BY <1>1, <2>1
  <2> QED
    BY <1>1, <2>2 DEF Window, L!WindowFollows
<1> QED
  BY <1>1, <1>3, <1>4, <1>5
-----------------------------------------------------------------------------
(* The searches.                                                           *)

LEMMA SearchChangedStep == ASSUME LauncherInv, L!SearchChanged PROVE LauncherInv'
<1>1. /\ changing /\ changing' = FALSE /\ L!Start(params, text)
      /\ UNCHANGED <<params, text, mode, preselect, messages, L!list, L!window, L!daemon, pressed>>
  BY DEF L!SearchChanged
<1>2. LauncherTyped /\ params \in Params /\ text \in Texts
  BY DEF LauncherInv, LauncherTyped, RequestTypes
<1>3. Starts(params, text)
  BY <1>1 DEF L!Start, Starts
<1>4. SearchTypes' /\ Searched' /\ ListAgrees'
  BY <1>2, <1>3, SearchBegins DEF LauncherInv
<1>5. LauncherTyped'
  BY <1>1, <1>2, <1>4 DEF LauncherTyped, RequestTypes, ListTypes, WindowTypes, DaemonTypes,
        L!list, L!window, L!daemon
<1>6. Peaceful'
  BY <1>1, NoPeace DEF LauncherInv, Calm, L!daemon
<1>7. Window' /\ L!ChosenIsExecuted'
  BY <1>1 DEF LauncherInv, Window, L!WindowFollows, L!ChosenIsExecuted, L!window, L!daemon
<1> QED
  BY <1>4, <1>5, <1>6, <1>7 DEF LauncherInv

LEMMA WorkStep == ASSUME Numbered, LauncherInv, L!Work PROVE LauncherInv'
<1>1. /\ asked = None /\ jobs # <<>>
      /\ asked' = [job |-> jobs[Len(jobs)], done |-> FALSE] /\ jobs' = <<>>
      /\ UNCHANGED <<L!request, searched, messages, L!list, L!window, L!daemon, pressed>>
  BY DEF L!Work, L!Newest, L!Last
<1>2. /\ searched \in Nat /\ jobs \in Seq(Job) /\ jobs[Len(jobs)] \in Job
      /\ Latest(jobs[Len(jobs)]) /\ ForRequest(jobs[Len(jobs)])
  BY <1>1 DEF LauncherInv, LauncherTyped, SearchTypes, Searched, Waiting
<1>3. /\ asked' \in InHand /\ asked' # None
      /\ asked'.job = jobs[Len(jobs)] /\ asked'.done = FALSE
  <2>1. asked' \in InHand
    BY <1>1, <1>2 DEF InHand
  <2> QED
    BY <1>1, <2>1 DEF Numbered
<1>4. LauncherTyped'
  BY <1>1, <1>2, <1>3 DEF LauncherInv, LauncherTyped, RequestTypes, SearchTypes, ListTypes,
     WindowTypes,
        DaemonTypes, L!request, L!list, L!window, L!daemon
<1>5. Waiting' /\ InDaemon'
  BY <1>1, <1>2, <1>3 DEF Waiting, InDaemon, Latest, ForRequest, Job, L!request
<1>6. \A m \in L!ToSet(messages) : OfJob(m) => m.job.generation <= searched /\ ~Latest(m.job)
  BY <1>1 DEF LauncherInv, Searched, InMessage
<1>7. \A m \in L!ToSet(messages') : InMessage(m)'
  BY <1>1, <1>6 DEF InMessage, Latest, OfJob
<1>8. ListAgrees'
  BY <1>3 DEF ListAgrees, Pending
<1>9. Peaceful'
  BY <1>1, NoPeace DEF LauncherInv, Calm, L!daemon
<1>10. Window' /\ L!ChosenIsExecuted'
  BY <1>1 DEF LauncherInv, Window, L!WindowFollows, L!ChosenIsExecuted, L!request, L!window,
     L!daemon
<1> QED
  BY <1>4, <1>5, <1>7, <1>8, <1>9, <1>10 DEF LauncherInv, Searched

LEMMA SearchStep == ASSUME Numbered, LauncherInv, L!Search PROVE LauncherInv'
<1>1. /\ asked # None /\ ~asked.done /\ asked' = [asked EXCEPT !.done = TRUE]
      /\ cache' = L!SearchOf(asked.job.params, asked.job.text) /\ others' = FALSE
      /\ UNCHANGED <<L!request, searched, jobs, messages, L!list, L!window, keys, choices, failed,
                     pressed>>
  BY DEF L!Search
<1>2. asked \in InHand
  BY <1>1 DEF LauncherInv, LauncherTyped, SearchTypes
<1>3. /\ asked' \in InHand /\ asked' # None /\ asked'.job = asked.job /\ asked'.done = TRUE
      /\ cache' \in Searches
  BY <1>1, <1>2 DEF InHand, Job, Numbered, L!SearchOf, Searches
<1>4. LauncherTyped'
  BY <1>1, <1>3 DEF LauncherInv, LauncherTyped, RequestTypes, SearchTypes, ListTypes, WindowTypes,
        DaemonTypes, L!request, L!list, L!window
<1>5. Waiting'
  BY <1>1 DEF LauncherInv, Searched, Waiting, Latest, ForRequest, L!request
<1>6. InDaemon'
  BY <1>1, <1>3 DEF LauncherInv, Searched, InDaemon, Latest, ForRequest, Cached, L!request
<1>7. \A m \in L!ToSet(messages) : OfJob(m) => m.job.generation <= searched /\ ~Latest(m.job)
  BY <1>1 DEF LauncherInv, Searched, InMessage
<1>8. \A m \in L!ToSet(messages') : InMessage(m)'
  BY <1>1, <1>7 DEF InMessage, Latest, OfJob
<1>9. ListAgrees'
  BY <1>3 DEF ListAgrees, Pending
<1>10. Peaceful'
  BY <1>1, NoPeace DEF LauncherInv, Calm
<1>11. Window' /\ L!ChosenIsExecuted'
  BY <1>1 DEF LauncherInv, Window, L!WindowFollows, L!ChosenIsExecuted, L!request, L!window
<1> QED
  BY <1>4, <1>5, <1>6, <1>8, <1>9, <1>10, <1>11 DEF LauncherInv, Searched

\* The daemon's answer, or that there is none.
LEMMA AnswerFacts ==
    ASSUME Numbered, LauncherInv, asked # None, asked' = None, NEW what \in {"results", "error"},
           what = "results" => asked.done,
           L!Send([do |-> what, job |-> asked.job]),
           UNCHANGED <<L!request, searched, jobs, L!list, L!window, cache, others>>
    PROVE  /\ messages' \in Seq(Message) /\ SearchTypes'
           /\ Searched' /\ ListAgrees'
<1>1. PICK job \in Job : job = asked.job
  BY DEF LauncherInv, LauncherTyped, SearchTypes, InHand
<1>2. /\ job.generation <= searched /\ (Latest(job) <=> jobs = <<>>)
      /\ Latest(job) => ForRequest(job) /\ (what = "results" => Cached(job))
  BY <1>1 DEF LauncherInv, Searched, InDaemon
<1>3. PICK new \in Message : new = [do |-> what, job |-> job]
  BY DEF Message
<1>4. messages' \in Seq(Message) /\ L!ToSet(messages') = L!ToSet(messages) \cup {new}
  BY <1>1, <1>3, Sent DEF LauncherInv, LauncherTyped
<1>5. new.do = what /\ new.job = job /\ OfJob(new)
  BY <1>3 DEF OfJob
<1>6. SearchTypes'
  BY DEF LauncherInv, LauncherTyped, SearchTypes
<1>7. Waiting' /\ InDaemon'
  BY DEF LauncherInv, Searched, Waiting, InDaemon, Latest, ForRequest, L!request
<1>8. InMessage(new)'
  BY <1>2, <1>5 DEF InMessage, Latest, ForRequest, Cached, L!request
<1>9. ASSUME NEW m \in L!ToSet(messages) PROVE InMessage(m)'
  <2>1. OfJob(m) => m.job.generation <= searched /\ ~Latest(m.job)
    BY <1>9 DEF LauncherInv, Searched, InMessage
  <2> QED
    BY <2>1 DEF InMessage, Latest, OfJob
<1>10. Pending'
  BY <1>2, <1>4, <1>5 DEF Pending, Latest, OfJob
<1>11. \A m \in L!ToSet(messages') : InMessage(m)'
  BY <1>4, <1>8, <1>9
<1>12. ListAgrees'
  BY <1>10 DEF ListAgrees
<1> QED
  BY <1>4, <1>6, <1>7, <1>11, <1>12 DEF Searched

LEMMA AnsweredStep == ASSUME Numbered, LauncherInv, L!Answered PROVE LauncherInv'
<1>1. /\ asked # None /\ asked.done /\ asked' = None
      /\ L!Send([do |-> "results", job |-> asked.job])
      /\ UNCHANGED <<L!request, searched, jobs, L!list, L!window, L!daemon, pressed>>
  BY DEF L!Answered
<1>2. messages' \in Seq(Message) /\ SearchTypes' /\ Searched' /\ ListAgrees'
  BY <1>1, AnswerFacts DEF L!daemon
<1>3. LauncherTyped'
  BY <1>1, <1>2 DEF LauncherInv, LauncherTyped, RequestTypes, ListTypes, WindowTypes, DaemonTypes,
        L!request, L!list, L!window, L!daemon
<1>4. Peaceful'
  BY <1>1, NoPeace DEF LauncherInv, Calm, L!daemon
<1>5. Window' /\ L!ChosenIsExecuted'
  BY <1>1 DEF LauncherInv, Window, L!WindowFollows, L!ChosenIsExecuted, L!request, L!window,
     L!daemon
<1> QED
  BY <1>2, <1>3, <1>4, <1>5 DEF LauncherInv

LEMMA SearchFailsStep == ASSUME Numbered, LauncherInv, L!SearchFails PROVE LauncherInv'
<1>1. /\ asked # None /\ asked' = None /\ L!Disturb
      /\ L!Send([do |-> "error", job |-> asked.job])
      /\ UNCHANGED <<L!request, searched, jobs, L!list, L!window, cache, keys, failed, others>>
  BY DEF L!SearchFails
<1>2. messages' \in Seq(Message) /\ SearchTypes' /\ Searched' /\ ListAgrees'
  BY <1>1, AnswerFacts
<1>3. Peaceful' /\ choices' \subseteq Choice
  BY <1>1, ChoicesDisturbed DEF LauncherInv, LauncherTyped, DaemonTypes
<1>4. LauncherTyped'
  BY <1>1, <1>2, <1>3 DEF LauncherInv, LauncherTyped, RequestTypes, ListTypes, WindowTypes,
     DaemonTypes,
        L!request, L!list, L!window
<1>5. Window' /\ L!ChosenIsExecuted'
  BY <1>1 DEF LauncherInv, Window, L!WindowFollows, L!ChosenIsExecuted, L!request, L!window
<1> QED
  BY <1>2, <1>3, <1>4, <1>5 DEF LauncherInv

LEMMA OtherSearchStep ==
    ASSUME LauncherInv, NEW p \in Params, NEW t \in Texts, L!OtherSearch(p, t) PROVE LauncherInv'
<1>1. /\ cache' = L!SearchOf(p, t) /\ others' = TRUE /\ L!Disturb
      /\ UNCHANGED <<L!request, L!searches, messages, L!list, L!window, keys, failed>>
  BY DEF L!OtherSearch
<1>2. Searched' /\ ListAgrees'
  BY <1>1, SearchesStay DEF LauncherInv, Unsearched, L!request, L!searches, L!list
<1>3. Peaceful' /\ choices' \subseteq Choice
  BY <1>1, ChoicesDisturbed DEF LauncherInv, LauncherTyped, DaemonTypes
<1>4. cache' \in Searches
  BY <1>1 DEF L!SearchOf, Searches
<1>5. LauncherTyped'
  BY <1>1, <1>3, <1>4 DEF LauncherInv, LauncherTyped, RequestTypes, SearchTypes, ListTypes,
     WindowTypes,
        DaemonTypes, L!request, L!searches, L!list, L!window
<1>6. Window' /\ L!ChosenIsExecuted'
  BY <1>1 DEF LauncherInv, Window, L!WindowFollows, L!ChosenIsExecuted, L!request, L!window
<1> QED
  BY <1>2, <1>3, <1>5, <1>6 DEF LauncherInv

-----------------------------------------------------------------------------
(* Keys, calls and timers.                                                 *)

LEMMA FadeStep == ASSUME LauncherInv, NEW t \in timers, L!Fade(t) PROVE LauncherInv'
<1>1. /\ timers' = timers \ {t} /\ visible' = (visible /\ t # transition)
      /\ UNCHANGED <<L!request, L!searches, messages, L!list, revealed, grabbed, held, transition,
                     L!daemon, pressed>>
  BY DEF L!Fade
<1>2. Searched' /\ ListAgrees'
  BY <1>1, SearchesStay DEF LauncherInv, Unsearched, L!request, L!searches, L!list, L!daemon
<1>3. LauncherTyped'
  BY <1>1 DEF LauncherInv, LauncherTyped, RequestTypes, SearchTypes, ListTypes, WindowTypes,
     DaemonTypes,
        L!request, L!searches, L!list, L!daemon
<1>4. Peaceful'
  BY <1>1 DEF LauncherInv, Peaceful, Calm, L!request, L!searches, L!daemon
<1>5. Window'
  BY <1>1 DEF LauncherInv, Window, L!WindowFollows, L!request
<1>6. L!ChosenIsExecuted'
  BY <1>1 DEF LauncherInv, L!ChosenIsExecuted, L!daemon
<1> QED
  BY <1>2, <1>3, <1>4, <1>5, <1>6 DEF LauncherInv

LEMMA CommandStep ==
    ASSUME LauncherInv, NEW m \in Message, ~OfJob(m), L!Command(m) PROVE LauncherInv'
<1>1. /\ L!Send(m) /\ L!Disturb
      /\ UNCHANGED <<L!request, L!searches, L!list, L!window, cache, keys, failed, others>>
  BY DEF L!Command
<1>2. messages' \in Seq(Message) /\ L!ToSet(messages') = L!ToSet(messages) \cup {m}
  BY <1>1, Sent DEF LauncherInv, LauncherTyped
<1>3. Searched' /\ ListAgrees'
  BY <1>1, <1>2, SearchesStay DEF LauncherInv, Unsearched, L!request, L!searches, L!list
<1>4. Peaceful' /\ choices' \subseteq Choice
  BY <1>1, ChoicesDisturbed DEF LauncherInv, LauncherTyped, DaemonTypes
<1>5. LauncherTyped'
  BY <1>1, <1>2, <1>4 DEF LauncherInv, LauncherTyped, RequestTypes, SearchTypes, ListTypes,
     WindowTypes,
        DaemonTypes, L!request, L!searches, L!list, L!window
<1>6. Window' /\ L!ChosenIsExecuted'
  BY <1>1 DEF LauncherInv, Window, L!WindowFollows, L!ChosenIsExecuted, L!request, L!window
<1> QED
  BY <1>3, <1>4, <1>5, <1>6 DEF LauncherInv

LEMMA CallStep == ASSUME LauncherInv, L!Call \/ L!Key PROVE LauncherInv'
<1>1. CASE L!Command([do |-> "hide"])
  BY <1>1, CommandStep DEF Message, OfJob
<1>2. ASSUME NEW r \in L!Requests, L!Command([do |-> "show", request |-> r]) PROVE LauncherInv'
  BY <1>2, CommandStep DEF Message, OfJob
<1>3. ASSUME NEW r \in L!Requests, L!Command([do |-> "toggle", request |-> r]) PROVE LauncherInv'
  BY <1>3, CommandStep DEF Message, OfJob
<1>4. ASSUME NEW n \in {1, -1}, L!Command([do |-> "cycle", by |-> n]) PROVE LauncherInv'
  BY <1>4, CommandStep DEF Message, OfJob
<1>5. CASE L!Command([do |-> "activate"])
  BY <1>5, CommandStep DEF Message, OfJob
<1> QED
  BY <1>1, <1>2, <1>3, <1>4, <1>5 DEF L!Call, L!Key

LEMMA ForwardKeyStep == ASSUME LauncherInv, L!ForwardKey PROVE LauncherInv'
<1>1. /\ keys' = keys + 1 /\ L!Disturb
      /\ UNCHANGED <<L!request, L!searches, messages, L!list, L!window, cache, failed, others>>
  BY DEF L!ForwardKey
<1>2. Searched' /\ ListAgrees'
  BY <1>1, SearchesStay DEF LauncherInv, Unsearched, L!request, L!searches, L!list
<1>3. Peaceful' /\ choices' \subseteq Choice
  BY <1>1, ChoicesDisturbed DEF LauncherInv, LauncherTyped, DaemonTypes
<1>4. LauncherTyped'
  BY <1>1, <1>3 DEF LauncherInv, LauncherTyped, RequestTypes, SearchTypes, ListTypes, WindowTypes,
        DaemonTypes, L!request, L!searches, L!list, L!window
<1>5. Window' /\ L!ChosenIsExecuted'
  BY <1>1 DEF LauncherInv, Window, L!WindowFollows, L!ChosenIsExecuted, L!request, L!window
<1> QED
  BY <1>2, <1>3, <1>4, <1>5 DEF LauncherInv

LEMMA KeyAnsweredStep ==
    ASSUME LauncherInv, NEW refresh \in BOOLEAN, NEW close \in BOOLEAN,
           L!KeyAnswered(refresh, close)
    PROVE  LauncherInv'
<1> DEFINE m == [do |-> "key", refresh |-> refresh, close |-> close]
<1>1. /\ keys > 0 /\ keys' = keys - 1 /\ L!Send(m)
      /\ UNCHANGED <<L!request, L!searches, L!list, L!window, cache, choices, failed, others,
                     pressed>>
  BY DEF L!KeyAnswered
<1>2. m \in Message /\ ~OfJob(m)
  BY DEF Message, OfJob
<1> HIDE DEF m
<1>3. messages' \in Seq(Message) /\ L!ToSet(messages') = L!ToSet(messages) \cup {m}
  BY <1>1, <1>2, Sent DEF LauncherInv, LauncherTyped
<1>4. Searched' /\ ListAgrees'
  BY <1>1, <1>2, <1>3, SearchesStay DEF LauncherInv, Unsearched, L!request, L!searches, L!list
<1>5. Peaceful'
  <2>1. ~Calm
    BY <1>1 DEF Calm
  <2> QED
    BY <1>1, <2>1, NoPeace DEF LauncherInv
<1>6. LauncherTyped'
  BY <1>1, <1>3 DEF LauncherInv, LauncherTyped, RequestTypes, SearchTypes, ListTypes, WindowTypes,
        DaemonTypes, L!request, L!searches, L!list, L!window
<1>7. Window' /\ L!ChosenIsExecuted'
  BY <1>1 DEF LauncherInv, Window, L!WindowFollows, L!ChosenIsExecuted, L!request, L!window
<1> QED
  BY <1>4, <1>5, <1>6, <1>7 DEF LauncherInv

LEMMA TypeStep == ASSUME LauncherInv, NEW t \in Texts, L!Type(t) PROVE LauncherInv'
<1>1. /\ t # text /\ text' = t /\ changing' = TRUE /\ L!Disturb
      /\ UNCHANGED <<params, mode, preselect, L!searches, messages, L!list, L!window, cache, keys,
                     failed, others>>
  BY DEF L!Type, L!SetText
<1>2. Searched' /\ ListAgrees'
  BY <1>1, SearchesStay DEF LauncherInv, Unsearched, L!searches, L!list
<1>3. Peaceful' /\ choices' \subseteq Choice
  BY <1>1, ChoicesDisturbed DEF LauncherInv, LauncherTyped, DaemonTypes
<1>4. LauncherTyped'
  BY <1>1, <1>3 DEF LauncherInv, LauncherTyped, RequestTypes, SearchTypes, ListTypes, WindowTypes,
        DaemonTypes, L!searches, L!list, L!window
<1>5. Window' /\ L!ChosenIsExecuted'
  BY <1>1 DEF LauncherInv, Window, L!WindowFollows, L!ChosenIsExecuted, L!window
<1> QED
  BY <1>2, <1>3, <1>4, <1>5 DEF LauncherInv

LEMMA ExecuteStep == ASSUME LauncherInv, NEW c \in choices, L!Execute(c) PROVE LauncherInv'
<1> DEFINE m == [do |-> "refresh"]
<1>1. /\ choices' = choices \ {c}
      /\ failed' = (failed \/ (c.alone /\ cache # c.search))
      /\ IF c.keep THEN L!Send(m) ELSE UNCHANGED messages
      /\ UNCHANGED <<L!request, L!searches, L!list, L!window, cache, keys, others, pressed>>
  BY DEF L!Execute
<1>2. m \in Message /\ ~OfJob(m)
  BY DEF Message, OfJob
<1> HIDE DEF m
<1>3. messages' \in Seq(Message)
        /\ L!ToSet(messages') \in {L!ToSet(messages), L!ToSet(messages) \cup {m}}
  BY <1>1, <1>2, Sent DEF LauncherInv, LauncherTyped
<1>4. Searched' /\ ListAgrees'
  BY <1>1, <1>2, <1>3, SearchesStay DEF LauncherInv, Unsearched, L!request, L!searches, L!list
<1>5. Peaceful'
  <2>1. \A d \in choices : d.alone => choices = {d}
    BY DEF LauncherInv, Peaceful
  <2>2. \A d \in choices' : ~d.alone
    BY <1>1, <2>1
  <2> QED
    BY <2>2 DEF Peaceful
<1>6. LauncherTyped'
  BY <1>1, <1>3 DEF LauncherInv, LauncherTyped, RequestTypes, SearchTypes, ListTypes, WindowTypes,
        DaemonTypes, L!request, L!searches, L!list, L!window
<1>7. Window'
  BY <1>1 DEF LauncherInv, Window, L!WindowFollows, L!request, L!window
<1>8. L!ChosenIsExecuted'
  BY <1>1 DEF LauncherInv, Peaceful, L!ChosenIsExecuted
<1> QED
  BY <1>4, <1>5, <1>6, <1>7, <1>8 DEF LauncherInv
-----------------------------------------------------------------------------
(* What the window does with a message.                                    *)

Taken(m) ==
    /\ messages # <<>> /\ messages' \in Seq(Message) /\ m \in Message
    /\ L!ToSet(messages) = L!ToSet(messages') \cup {m}

LEMMA ListAnswered ==
    ASSUME LauncherInv, NEW m, Taken(m), OfJob(m), Latest(m.job),
           UNCHANGED <<L!request, L!searches, L!window, L!daemon>>,
           \/ /\ m.do = "results" /\ results' = L!SearchOf(m.job.params, m.job.text)
              /\ broken' = FALSE /\ results' # None
           \/ results' = None /\ broken' = TRUE
    PROVE  Searched' /\ ListAgrees'
<1>1. /\ jobs = <<>> /\ asked = None /\ ForRequest(m.job)
      /\ m.do = "results" => Cached(m.job)
  BY DEF LauncherInv, Searched, InMessage, Taken
<1>2. Waiting' /\ InDaemon'
  BY <1>1 DEF Waiting, InDaemon, L!searches
<1>3. \A x \in L!ToSet(messages') : InMessage(x)
  BY DEF LauncherInv, Searched, Taken
<1>4. \A x \in L!ToSet(messages') : InMessage(x)'
  BY <1>3 DEF InMessage, Latest, ForRequest, Cached, OfJob, L!searches, L!request, L!daemon
<1>5. ListAgrees'
  BY <1>1 DEF ListAgrees, ForRequest, Cached, L!request, L!daemon
<1> QED
  BY <1>2, <1>4, <1>5 DEF Searched

LEMMA ResultsStep ==
    ASSUME Numbered, LauncherInv, NEW m, Taken(m), m.do = "results",
           L!Results(m.job)
    PROVE  LauncherInv'
<1>1. m.job \in Job /\ OfJob(m)
  BY DEF Taken, Message, OfJob
<1>2. UNCHANGED <<L!request, L!searches, L!window, L!daemon>>
  BY DEF L!Results
<1>3. ListTypes' /\ Searched' /\ ListAgrees'
  <2>1. CASE m.job.generation # searched
    <3>1. UNCHANGED L!list
      BY <2>1 DEF L!Results
    <3>2. ListTypes'
      BY <3>1 DEF LauncherInv, LauncherTyped, ListTypes, L!list, L!Count
    <3>3. Searched' /\ ListAgrees'
      BY <1>2, <2>1, <3>1, SearchesStay
      DEF LauncherInv, Unsearched, Taken, Latest, L!request, L!searches, L!list, L!daemon
    <3> QED
      BY <3>2, <3>3
  <2>2. CASE m.job.generation = searched
    <3>1. /\ results' = L!SearchOf(m.job.params, m.job.text) /\ broken' = FALSE
          /\ selected' = IF preselect /\ L!Count(results') > 1 THEN 1 ELSE 0
      BY <2>2 DEF L!Results
    <3>2. results' \in Searches /\ results' # None
      BY <1>1, <3>1 DEF Job, L!SearchOf, Searches, Numbered
    <3>3. L!Count(results') \in Nat
      BY <3>2 DEF L!Count, Searches, Numbered
    <3>4. ListTypes'
      BY <3>1, <3>2, <3>3 DEF ListTypes
    <3>5. Searched' /\ ListAgrees'
      BY <1>1, <1>2, <2>2, <3>1, <3>2, ListAnswered DEF Latest
    <3> QED
      BY <3>4, <3>5
  <2> QED
    BY <2>1, <2>2
<1>4. LauncherTyped'
  BY <1>2, <1>3 DEF LauncherInv, LauncherTyped, RequestTypes, SearchTypes, WindowTypes,
     DaemonTypes, Taken,
        L!request, L!searches, L!window, L!daemon
<1>5. Peaceful'
  BY <1>2, NoPeace DEF LauncherInv, Calm, Taken, L!daemon
<1>6. Window' /\ L!ChosenIsExecuted'
  BY <1>2 DEF LauncherInv, Window, L!WindowFollows, L!ChosenIsExecuted, L!request, L!window,
     L!daemon
<1> QED
  BY <1>3, <1>4, <1>5, <1>6 DEF LauncherInv

LEMMA SearchErrorStep ==
    ASSUME Numbered, LauncherInv, NEW m, Taken(m), m.do = "error",
           L!SearchError(m.job)
    PROVE  LauncherInv'
<1>1. m.job \in Job /\ OfJob(m)
  BY DEF Taken, Message, OfJob
<1>2. UNCHANGED <<L!request, L!searches, L!window, L!daemon>>
  BY DEF L!SearchError
<1>3. ListTypes' /\ Searched' /\ ListAgrees'
  <2>1. CASE m.job.generation # searched
    <3>1. UNCHANGED L!list
      BY <2>1 DEF L!SearchError
    <3>2. ListTypes'
      BY <3>1 DEF LauncherInv, LauncherTyped, ListTypes, L!list, L!Count
    <3>3. Searched' /\ ListAgrees'
      BY <1>2, <2>1, <3>1, SearchesStay
      DEF LauncherInv, Unsearched, Taken, Latest, L!request, L!searches, L!list, L!daemon
    <3> QED
      BY <3>2, <3>3
  <2>2. CASE m.job.generation = searched
    <3>1. results' = None /\ selected' = 0 /\ broken' = TRUE
      BY <2>2 DEF L!SearchError
    <3>2. ListTypes'
      BY <3>1 DEF ListTypes
    <3>3. Searched' /\ ListAgrees'
      BY <1>1, <1>2, <2>2, <3>1, ListAnswered DEF Latest
    <3> QED
      BY <3>2, <3>3
  <2> QED
    BY <2>1, <2>2
<1>4. LauncherTyped'
  BY <1>2, <1>3 DEF LauncherInv, LauncherTyped, RequestTypes, SearchTypes, WindowTypes,
     DaemonTypes, Taken,
        L!request, L!searches, L!window, L!daemon
<1>5. Peaceful'
  BY <1>2, NoPeace DEF LauncherInv, Calm, Taken, L!daemon
<1>6. Window' /\ L!ChosenIsExecuted'
  BY <1>2 DEF LauncherInv, Window, L!WindowFollows, L!ChosenIsExecuted, L!request, L!window,
     L!daemon
<1> QED
  BY <1>3, <1>4, <1>5, <1>6 DEF LauncherInv

\* The index goes round.
LEMMA GoesRound ==
    ASSUME NEW i \in Nat, NEW n \in {1, -1}, NEW c \in Nat, c # 0, i = 0 \/ i < c
    PROVE  (i + n) % c \in Nat /\ (i + n) % c < c
<1>1. i + n \in Int /\ c \in Nat \ {0}
  OBVIOUS
<1>2. \A a \in Int : \A b \in Nat \ {0} : a % b \in 0..(b - 1)
  OBVIOUS
<1> QED
  BY <1>1, <1>2

LEMMA Counted == ASSUME Numbered, LauncherInv PROVE L!Count(results) \in Nat
<1>1. CASE results = None
  BY <1>1 DEF L!Count
<1>2. CASE results # None
  BY <1>2 DEF L!Count, LauncherInv, LauncherTyped, ListTypes, Searches, Numbered
<1> QED
  BY <1>1, <1>2

LEMMA CycleStep ==
    ASSUME Numbered, LauncherInv, NEW m, Taken(m), m.do = "cycle", L!Cycle(m.by) PROVE LauncherInv'
<1>1. m.by \in {1, -1} /\ ~OfJob(m)
  BY DEF Taken, Message, OfJob
<1>2. /\ selected' = IF L!Count(results) = 0 THEN selected
                     ELSE (selected + m.by) % L!Count(results)
      /\ UNCHANGED <<L!request, L!searches, results, broken, L!window, L!daemon>>
  BY DEF L!Cycle
<1>3. ListTypes'
  BY <1>1, <1>2, Counted, GoesRound DEF LauncherInv, LauncherTyped, ListTypes
<1>4. Searched' /\ ListAgrees'
  BY <1>1, <1>2, SearchesStay DEF LauncherInv, Unsearched, Taken, L!request, L!searches, L!daemon
<1>5. LauncherTyped'
  BY <1>2, <1>3 DEF LauncherInv, LauncherTyped, RequestTypes, SearchTypes, WindowTypes,
     DaemonTypes, Taken,
        L!request, L!searches, L!window, L!daemon
<1>6. Peaceful'
  BY <1>2, NoPeace DEF LauncherInv, Calm, Taken, L!daemon
<1>7. Window' /\ L!ChosenIsExecuted'
  BY <1>2 DEF LauncherInv, Window, L!WindowFollows, L!ChosenIsExecuted, L!request, L!window,
     L!daemon
<1> QED
  BY <1>4, <1>5, <1>6, <1>7 DEF LauncherInv

LEMMA HideStep ==
    ASSUME Numbered, LauncherInv, NEW m, Taken(m), ~OfJob(m), L!Hide PROVE LauncherInv'
<1>1. L!HideWindow /\ UNCHANGED <<L!searches, L!list, L!daemon>>
  BY DEF L!Hide
<1>2. /\ RequestTypes' /\ WindowTypes' /\ Window'
      /\ ~changing' => ~changing /\ params' = params /\ text' = text
  BY <1>1, Hidden DEF LauncherInv
<1>3. Searched' /\ ListAgrees'
  BY <1>1, <1>2, SearchesStay DEF LauncherInv, Unsearched, Taken, L!searches, L!list, L!daemon
<1>4. LauncherTyped'
  BY <1>1, <1>2 DEF LauncherInv, LauncherTyped, SearchTypes, ListTypes, DaemonTypes, Taken,
        L!searches, L!list, L!daemon
<1>5. Peaceful' /\ L!ChosenIsExecuted'
  BY <1>1, NoPeace DEF LauncherInv, Calm, Taken, L!ChosenIsExecuted, L!daemon
<1> QED
  BY <1>2, <1>3, <1>4, <1>5 DEF LauncherInv

LEMMA ShowRequestStep ==
    ASSUME LauncherInv, NEW m, Taken(m), ~OfJob(m), NEW r \in L!Requests,
           L!ShowRequest(r)
    PROVE  LauncherInv'
<1>1. /\ L!Reveal(r) /\ UNCHANGED <<L!list, L!daemon>>
      /\ IF text = r.text THEN L!Start(r.params, r.text) ELSE UNCHANGED L!searches
  BY DEF L!ShowRequest
<1>2. /\ RequestTypes' /\ WindowTypes' /\ Window'
      /\ params' = r.params /\ text' = r.text
      /\ changing' = (changing \/ r.text # text)
  BY <1>1, Revealed DEF LauncherInv
<1>3. SearchTypes' /\ Searched' /\ ListAgrees'
  <2>1. CASE text = r.text
    <3>1. r.params \in Params /\ r.text \in Texts
      BY DEF L!Requests
    <3>2. Starts(r.params, r.text)
      BY <1>1, <1>2, <2>1 DEF Starts, L!Start, Taken
    <3> QED
      BY <3>1, <3>2, SearchBegins DEF LauncherInv
  <2>2. CASE text # r.text
    <3>1. UNCHANGED L!searches /\ changing'
      BY <1>1, <1>2, <2>2
    <3>2. Searched' /\ ListAgrees'
      BY <1>1, <3>1, SearchesStay DEF LauncherInv, Unsearched, Taken, L!searches, L!list, L!daemon
    <3> QED
      BY <3>1, <3>2 DEF LauncherInv, LauncherTyped, SearchTypes, L!searches
  <2> QED
    BY <2>1, <2>2
<1>4. LauncherTyped'
  BY <1>1, <1>2, <1>3 DEF LauncherInv, LauncherTyped, ListTypes, DaemonTypes, Taken, L!list,
     L!daemon
<1>5. Peaceful' /\ L!ChosenIsExecuted'
  BY <1>1, NoPeace DEF LauncherInv, Calm, Taken, L!ChosenIsExecuted, L!daemon
<1> QED
  BY <1>2, <1>3, <1>4, <1>5 DEF LauncherInv

LEMMA ToggleStep ==
    ASSUME Numbered, LauncherInv, NEW m, Taken(m), m.do = "toggle",
           L!Toggle(m.request)
    PROVE  LauncherInv'
<1>1. ~OfJob(m) /\ m.request \in L!Requests
  BY DEF OfJob, Taken, Message
<1>2. CASE visible /\ m.request.mode = "search"
  BY <1>1, <1>2, HideStep DEF L!Toggle
<1>3. CASE /\ ~(visible /\ m.request.mode = "search")
           /\ visible /\ mode = m.request.mode /\ preselect = m.request.preselect
           /\ params = m.request.params
  <2>1. /\ held' = TRUE
        /\ selected' = IF L!Count(results) = 0 THEN selected ELSE (selected + 1) % L!Count(results)
        /\ UNCHANGED <<L!request, L!searches, results, broken, visible, revealed, grabbed,
                       transition, timers, L!daemon>>
    BY <1>3 DEF L!Toggle
  <2>2. mode = "cycle" /\ revealed
    BY <1>3 DEF LauncherInv, LauncherTyped, RequestTypes, L!Modes, Window
  <2>3. ListTypes'
    BY <2>1, Counted, GoesRound DEF LauncherInv, LauncherTyped, ListTypes
  <2>4. Searched' /\ ListAgrees'
    BY <1>1, <2>1, SearchesStay DEF LauncherInv, Unsearched, Taken, L!request, L!searches, L!daemon
  <2>5. LauncherTyped'
    BY <2>1, <2>3 DEF LauncherInv, LauncherTyped, RequestTypes, SearchTypes, WindowTypes,
       DaemonTypes, Taken,
          L!request, L!searches, L!daemon
  <2>6. Peaceful'
    BY <2>1, NoPeace DEF LauncherInv, Calm, Taken, L!daemon
  <2>7. Window' /\ L!ChosenIsExecuted'
    BY <2>1, <2>2 DEF LauncherInv, Window, L!WindowFollows, L!ChosenIsExecuted, L!request, L!daemon
  <2> QED
    BY <2>4, <2>5, <2>6, <2>7 DEF LauncherInv
<1>4. CASE /\ ~(visible /\ m.request.mode = "search")
           /\ ~(/\ visible /\ mode = m.request.mode /\ preselect = m.request.preselect
                /\ params = m.request.params)
  BY <1>1, <1>4, ShowRequestStep DEF L!Toggle
<1> QED
  BY <1>2, <1>3, <1>4

LEMMA WindowStays ==
    ASSUME LauncherInv, UNCHANGED <<L!request, L!window>>
    PROVE  /\ RequestTypes' /\ WindowTypes' /\ Window'
           /\ ~changing' => ~changing /\ params' = params /\ text' = text
<1>1. RequestTypes' /\ (~changing' => ~changing /\ params' = params /\ text' = text)
  BY DEF LauncherInv, LauncherTyped, RequestTypes, L!request
<1>2. WindowTypes'
  BY DEF LauncherInv, LauncherTyped, WindowTypes, L!window
<1>3. Window'
  BY DEF LauncherInv, Window, L!WindowFollows, L!request, L!window
<1> QED
  BY <1>1, <1>2, <1>3

LEMMA ActivateStep ==
    ASSUME Numbered, LauncherInv, NEW m, Taken(m), m.do = "activate",
           messages' = Tail(messages), L!Activate
    PROVE  LauncherInv'
<1>1. ~OfJob(m)
  BY DEF OfJob
<1>2. CASE selected >= L!Count(results)
  <2>1. UNCHANGED <<L!request, L!searches, L!list, L!window, L!daemon>>
    BY <1>2 DEF L!Activate
  <2>2. Searched' /\ ListAgrees'
    BY <1>1, <2>1, SearchesStay DEF LauncherInv, Unsearched, Taken, L!request, L!searches,
       L!list, L!daemon
  <2>3. LauncherTyped'
    BY <2>1 DEF LauncherInv, LauncherTyped, RequestTypes, SearchTypes, ListTypes, WindowTypes,
       DaemonTypes,
          Taken, L!request, L!searches, L!list, L!window, L!daemon
  <2>4. Peaceful'
    BY <2>1, NoPeace DEF LauncherInv, Calm, Taken, L!daemon
  <2>5. Window' /\ L!ChosenIsExecuted'
    BY <2>1 DEF LauncherInv, Window, L!WindowFollows, L!ChosenIsExecuted, L!request, L!window,
       L!daemon
  <2> QED
    BY <2>2, <2>3, <2>4, <2>5 DEF LauncherInv
<1>3. CASE ~(selected >= L!Count(results))
  <2>1. PICK keep \in BOOLEAN, peace \in BOOLEAN :
          /\ keep <=> results.params \in KeptOpen
          /\ peace => /\ Tail(messages) = <<>> /\ ~changing /\ jobs = <<>> /\ asked = None
                      /\ keep \/ text = Blank
                      /\ ~others /\ keys = 0 /\ choices = {}
          /\ IF keep THEN UNCHANGED <<L!request, L!window>> ELSE L!HideWindow
          /\ choices' = choices \cup {[search |-> results, keep |-> keep, alone |-> peace]}
          /\ UNCHANGED <<L!searches, L!list, cache, keys, failed, others>>
    <3> DEFINE keep == results.params \in KeptOpen
               peace == /\ Tail(messages) = <<>> /\ ~changing /\ jobs = <<>> /\ asked = None
                        /\ keep \/ text = Blank
                        /\ ~others /\ keys = 0 /\ choices = {}
    <3>1. /\ IF keep THEN UNCHANGED <<L!request, L!window>> ELSE L!HideWindow
          /\ choices' = choices \cup {[search |-> results, keep |-> keep, alone |-> peace]}
          /\ UNCHANGED <<L!searches, L!list, cache, keys, failed, others>>
      BY <1>3 DEF L!Activate
    <3>2. keep \in BOOLEAN /\ peace \in BOOLEAN
      OBVIOUS
    <3> QED
      BY <3>1, <3>2
  <2>2. results \in Searches /\ results # None
    <3>1. results # None
      BY <1>3, Counted DEF L!Count, LauncherInv, LauncherTyped, ListTypes
    <3> QED
      BY <3>1 DEF LauncherInv, LauncherTyped, ListTypes
  <2>3. /\ RequestTypes' /\ WindowTypes' /\ Window'
        /\ ~changing' => ~changing /\ params' = params /\ text' = text
    <3>1. CASE keep
      BY <2>1, <3>1, WindowStays
    <3>2. CASE ~keep
      BY <2>1, <3>2, Hidden DEF LauncherInv
    <3> QED
      BY <3>1, <3>2
  <2>4. Searched' /\ ListAgrees'
    BY <1>1, <2>1, <2>3, SearchesStay DEF LauncherInv, Unsearched, Taken, L!searches, L!list
  <2>5. PICK new \in Choice : /\ new = [search |-> results, keep |-> keep, alone |-> peace]
                              /\ new.search = results /\ new.alone = peace
                              /\ choices' = choices \cup {new}
    BY <2>1, <2>2 DEF Choice
  <2>6. LauncherTyped'
    BY <2>1, <2>3, <2>5 DEF LauncherInv, LauncherTyped, SearchTypes, ListTypes, DaemonTypes, Taken,
          L!searches, L!list
  <2>7. Peaceful'
    <3>1. \A c \in choices : ~c.alone
      BY DEF LauncherInv, Peaceful, Calm, Taken
    <3>2. ASSUME peace PROVE choices' = {new} /\ cache' = new.search /\ Calm'
      <4>1. messages' = <<>> /\ jobs = <<>> /\ asked = None /\ ~changing /\ ~others
        BY <2>1, <3>2
      <4>2. L!ToSet(messages') = {}
        BY <4>1, NoneSent
      <4>3. ~Pending
        BY <1>1, <4>1, <4>2 DEF Pending, Taken
      <4>4. cache = results
        BY <2>2, <4>1, <4>3 DEF LauncherInv, ListAgrees
      <4>5. ~changing'
        BY <2>1, <3>2, <4>1 DEF L!HideWindow, L!SetText, L!request
      <4> QED
        BY <2>1, <2>5, <3>2, <4>1, <4>4, <4>5 DEF Calm, L!searches
    <3> QED
      BY <2>5, <3>1, <3>2 DEF Peaceful
  <2>8. L!ChosenIsExecuted'
    BY <2>1 DEF LauncherInv, L!ChosenIsExecuted
  <2> QED
    BY <2>3, <2>4, <2>6, <2>7, <2>8 DEF LauncherInv
<1> QED
  BY <1>2, <1>3

LEMMA RefreshStep ==
    ASSUME LauncherInv, NEW m, Taken(m), ~OfJob(m), L!Start(params, text),
           UNCHANGED <<L!request, L!list, L!window, L!daemon>>
    PROVE  LauncherInv'
<1>1. params \in Params /\ text \in Texts
  BY DEF LauncherInv, LauncherTyped, RequestTypes
<1>2. Starts(params, text)
  BY DEF Starts, L!Start, Taken, L!request
<1>3. SearchTypes' /\ Searched' /\ ListAgrees'
  BY <1>1, <1>2, SearchBegins DEF LauncherInv
<1>4. LauncherTyped'
  BY <1>3 DEF LauncherInv, LauncherTyped, RequestTypes, ListTypes, WindowTypes, DaemonTypes, Taken,
        L!request, L!list, L!window, L!daemon
<1>5. Peaceful'
  BY NoPeace DEF LauncherInv, Calm, Taken, L!daemon
<1>6. Window' /\ L!ChosenIsExecuted'
  BY DEF LauncherInv, Window, L!WindowFollows, L!ChosenIsExecuted, L!request, L!window, L!daemon
<1> QED
  BY <1>3, <1>4, <1>5, <1>6 DEF LauncherInv

LEMMA KeyResponseStep ==
    ASSUME Numbered, LauncherInv, NEW m, Taken(m), m.do = "key",
           L!KeyResponse(m.refresh, m.close)
    PROVE  LauncherInv'
<1>1. /\ IF m.refresh THEN L!Start(params, text) ELSE UNCHANGED L!searches
      /\ IF m.close THEN L!HideWindow ELSE UNCHANGED <<L!request, L!window>>
      /\ UNCHANGED <<L!list, L!daemon>> /\ ~OfJob(m)
  BY DEF L!KeyResponse, OfJob
<1>2. /\ RequestTypes' /\ WindowTypes' /\ Window'
      /\ ~changing' => ~changing /\ params' = params /\ text' = text
  <2>1. CASE m.close
    BY <1>1, <2>1, Hidden DEF LauncherInv
  <2>2. CASE ~m.close
    BY <1>1, <2>2, WindowStays
  <2> QED
    BY <2>1, <2>2
<1>3. SearchTypes' /\ Searched' /\ ListAgrees'
  <2>1. CASE m.refresh
    <3>1. params \in Params /\ text \in Texts
      BY DEF LauncherInv, LauncherTyped, RequestTypes
    <3>2. Starts(params, text)
      BY <1>1, <1>2, <2>1 DEF Starts, L!Start, Taken
    <3> QED
      BY <3>1, <3>2, SearchBegins DEF LauncherInv
  <2>2. CASE ~m.refresh
    <3>1. Searched' /\ ListAgrees'
      BY <1>1, <1>2, <2>2, SearchesStay DEF LauncherInv, Unsearched, Taken, L!searches, L!list,
         L!daemon
    <3> QED
      BY <1>1, <2>2, <3>1 DEF LauncherInv, LauncherTyped, SearchTypes, L!searches
  <2> QED
    BY <2>1, <2>2
<1>4. LauncherTyped'
  BY <1>1, <1>2, <1>3 DEF LauncherInv, LauncherTyped, ListTypes, DaemonTypes, Taken, L!list,
     L!daemon
<1>5. Peaceful' /\ L!ChosenIsExecuted'
  BY <1>1, NoPeace DEF LauncherInv, Calm, Taken, L!ChosenIsExecuted, L!daemon
<1> QED
  BY <1>2, <1>3, <1>4, <1>5 DEF LauncherInv

LEMMA HandleStep == ASSUME Numbered, LauncherInv, L!Handle PROVE LauncherInv'
<1>1. messages # <<>> /\ messages' = Tail(messages)
  BY DEF L!Handle
<1>2. PICK m : m = Head(messages)
  OBVIOUS
<1>3. Taken(m)
  BY <1>1, <1>2, Received DEF LauncherInv, LauncherTyped, Taken
<1>4. \/ m.do = "results" /\ L!Results(m.job)
      \/ m.do = "error" /\ L!SearchError(m.job)
      \/ m.do = "cycle" /\ L!Cycle(m.by)
      \/ m.do = "activate" /\ L!Activate
      \/ m.do = "refresh" /\ L!Refresh
      \/ m.do = "hide" /\ L!Hide
      \/ m.do = "show" /\ L!ShowRequest(m.request)
      \/ m.do = "toggle" /\ L!Toggle(m.request)
      \/ m.do = "key" /\ L!KeyResponse(m.refresh, m.close)
  BY <1>2 DEF L!Handle
<1>5. CASE m.do = "refresh" /\ L!Refresh
  BY <1>3, <1>5, RefreshStep DEF OfJob, L!Refresh
<1>6. CASE m.do = "hide" /\ L!Hide
  BY <1>3, <1>6, HideStep DEF OfJob
<1>7. CASE m.do = "show" /\ L!ShowRequest(m.request)
  <2>1. m.request \in L!Requests
    BY <1>3, <1>7 DEF Taken, Message
  <2> QED
    BY <1>3, <1>7, <2>1, ShowRequestStep DEF OfJob
<1> QED
  BY <1>1, <1>3, <1>4, <1>5, <1>6, <1>7, ResultsStep, SearchErrorStep, CycleStep, ActivateStep,
     ToggleStep, KeyResponseStep

-----------------------------------------------------------------------------
(* The theorems.                                                           *)

LEMMA LauncherInitHolds == Numbered /\ L!Init => LauncherInv
<1> SUFFICES ASSUME Numbered, L!Init PROVE LauncherInv
  OBVIOUS
<1> DEFINE job == [generation |-> 1, params |-> params, text |-> Blank]
<1>1. job \in Job /\ job.generation = 1 /\ job.params = params /\ job.text = Blank
  BY DEF L!Init, Numbered, Job
<1> HIDE DEF job
<1>2. jobs = <<job>>
  BY DEF L!Init, job
<1>3. jobs \in Seq(Job) /\ Len(jobs) = 1 /\ jobs[Len(jobs)] = job /\ jobs # <<>>
  BY <1>1, <1>2
<1>4. messages \in Seq(Message) /\ L!ToSet(messages) = {}
  BY NoneSent DEF L!Init
<1>5. LauncherTyped
  <2>1. RequestTypes
    BY DEF L!Init, Numbered, RequestTypes
  <2>2. SearchTypes
    BY <1>3 DEF L!Init, SearchTypes
  <2>3. ListTypes
    BY DEF L!Init, ListTypes
  <2>4. WindowTypes
    BY DEF L!Init, WindowTypes, L!Modes
  <2>5. DaemonTypes
    BY DEF L!Init, DaemonTypes
  <2> QED
    BY <1>4, <2>1, <2>2, <2>3, <2>4, <2>5 DEF LauncherTyped
<1>6. Searched
  BY <1>1, <1>3, <1>4 DEF L!Init, Searched, Waiting, InDaemon, Latest, ForRequest
<1>7. ListAgrees
  BY <1>3 DEF ListAgrees, Pending
<1>8. Peaceful /\ L!ChosenIsExecuted
  BY DEF L!Init, Peaceful, L!ChosenIsExecuted
<1>9. Window
  BY DEF L!Init, Window, L!WindowFollows
<1> QED
  BY <1>5, <1>6, <1>7, <1>8, <1>9 DEF LauncherInv

LEMMA LauncherNextHolds == Numbered /\ LauncherInv /\ [L!Next]_(L!vars) => LauncherInv'
<1> SUFFICES ASSUME Numbered, LauncherInv, [L!Next]_(L!vars) PROVE LauncherInv'
  OBVIOUS
<1>1. CASE UNCHANGED L!vars
  BY <1>1 DEF L!vars, L!request, L!searches, L!list, L!window, L!daemon, LauncherInv,
     LauncherTyped, RequestTypes,
        SearchTypes, ListTypes, WindowTypes, DaemonTypes, Searched, Waiting, InDaemon,
        InMessage, Latest, ForRequest, Cached, ListAgrees, Pending, Peaceful, Calm, Window,
        L!WindowFollows, L!ChosenIsExecuted, L!Count
<1>2. CASE L!Next
  BY <1>2, SearchChangedStep, WorkStep, SearchStep, AnsweredStep, SearchFailsStep, HandleStep,
     OtherSearchStep, FadeStep, CallStep, ForwardKeyStep, TypeStep, KeyAnsweredStep, ExecuteStep
  DEF L!Next
<1> QED
  BY <1>1, <1>2

(* The inductive invariant of the launcher: the latest search is in one    *)
(* place until it is listed, the window is as it was asked for last, and a *)
(* choice made in peace is of what the daemon remembers.                   *)
THEOREM LauncherInvariant == ASSUME Numbered PROVE L!Spec => []LauncherInv
BY LauncherInitHolds, LauncherNextHolds, PTL DEF L!Spec

LEMMA InvListFollows == LauncherInv => L!ListFollows
<1> SUFFICES ASSUME LauncherInv,
                    L!AtRest
             PROVE  results = IF broken THEN None ELSE L!SearchOf(params, text)
  BY DEF L!ListFollows
<1>1. ~Pending
  BY NoneSent DEF L!AtRest, Pending
<1> QED
  BY <1>1 DEF LauncherInv, ListAgrees, L!AtRest

(* What is listed at rest was found for what is asked for, whatever was    *)
(* dropped, overtaken or late (rsynapse-ui main.rs).                       *)
THEOREM ListIsWhatWasAskedFor == ASSUME Numbered PROVE L!Spec => []L!ListFollows
BY LauncherInvariant, InvListFollows, PTL

(* The keyboard is held exactly while the launcher is shown, and a window  *)
(* that fades goes unless it was asked for again (rsynapse-ui main.rs).    *)
THEOREM WindowIsAsAsked == ASSUME Numbered PROVE L!Spec => []L!WindowFollows
<1>1. LauncherInv => L!WindowFollows
  BY DEF LauncherInv, Window
<1> QED
  BY <1>1, LauncherInvariant, PTL

(* A choice made in peace is executed as it was listed, though the daemon  *)
(* looks it up in its last search (rsynapse-daemon main.rs).               *)
THEOREM ChoiceIsExecuted == ASSUME Numbered PROVE L!Spec => []L!ChosenIsExecuted
<1>1. LauncherInv => L!ChosenIsExecuted
  BY DEF LauncherInv
<1> QED
  BY <1>1, LauncherInvariant, PTL

(* Every variable of the launcher has its type, and the selection is one   *)
(* of the results.                                                         *)
THEOREM LauncherTypes == ASSUME Numbered PROVE L!Spec => []L!TypeOK
<1>1. LauncherInv => L!TypeOK
  BY DEF LauncherInv, LauncherTyped, RequestTypes, SearchTypes, ListTypes, DaemonTypes,
     L!TypeOK, Searches
<1> QED
  BY <1>1, LauncherInvariant, PTL

-----------------------------------------------------------------------------
(* The notifications (NotificationCenter, of which A is the instance of    *)
(* MCDesktop), for any policy, any kinds and any number of events.  Roomy  *)
(* says that there is an id to give and that the queue has a length.       *)

Roomy ==
    /\ Width \in Nat /\ Width >= 2
    /\ MaxQueued \in Nat

Notification == [id : A!Ids, kind : Kinds, expires : BOOLEAN, generation : Nat]
Running == [id : A!Ids, generation : Nat]
Sendable ==
    [do : {"show"}, id : A!Ids, kind : Kinds, expires : BOOLEAN]
    \cup [do : {"close"}, id : A!Ids]
    \cup [do : {"expire"}, timer : Running]
    \cup [do : {"locked"}, locked : BOOLEAN]
    \cup [do : {"clear", "toggle"}]
    \cup [do : {"set"}, visible : BOOLEAN]

-----------------------------------------------------------------------------
(* The lists of notifications.                                             *)

LEMMA LeastNat ==
    ASSUME NEW T \in SUBSET Nat, T # {}
    PROVE  \E m \in T : \A n \in T : m <= n
<1>1. PICK m \in T : \A n \in T : ~(<<n, m>> \in OpToRel(<, Nat))
  BY NatLessThanWellFounded, WFMin
<1>2. ASSUME NEW n \in T PROVE m <= n
  <2>1. ~(<<n, m>> \in OpToRel(<, Nat))
    BY <1>1, Zenon
  <2>2. n \in Nat /\ m \in Nat
    OBVIOUS
  <2>3. n < m => <<n, m>> \in OpToRel(<, Nat)
    BY <2>2, Zenon DEF OpToRel
  <2>4. ~(n < m)
    BY <2>1, <2>3, Zenon
  <2> QED
    BY <2>2, <2>4
<1> QED
  BY <1>2

Selecting(f, list, T, n) ==
    f = [i \in 0..n |->
            IF i = 0 THEN <<>>
            ELSE IF list[i] \in T THEN Append(f[i - 1], list[i]) ELSE f[i - 1]]

LEMMA SelectionExists ==
    ASSUME NEW list, NEW T
    PROVE  \A n \in Nat : \E f : Selecting(f, list, T, n)
<1> DEFINE Bad == {n \in Nat : ~\E f : Selecting(f, list, T, n)}
<1> SUFFICES ASSUME Bad # {} PROVE FALSE
  OBVIOUS
<1>1. PICK m \in Bad : \A n \in Bad : m <= n
  <2>1. Bad \in SUBSET Nat
    OBVIOUS
  <2> HIDE DEF Bad
  <2> QED
    BY <2>1, LeastNat
<1>2. CASE m = 0
  <2>1. Selecting([i \in 0..0 |-> <<>>], list, T, 0)
    BY DEF Selecting
  <2> QED
    BY <1>2, <2>1
<1>3. CASE m # 0
  <2>1. m - 1 \in Nat /\ m - 1 \notin Bad
    BY <1>1, <1>3
  <2>2. PICK f : Selecting(f, list, T, m - 1)
    BY <2>1
  <2> DEFINE g == [i \in 0..m |->
                     IF i = 0 THEN <<>>
                     ELSE IF list[i] \in T THEN Append(f[i - 1], list[i]) ELSE f[i - 1]]
  <2>3. \A k \in 0..(m - 1) : g[k] = f[k]
    <3>1. \A k \in 0..(m - 1) : f[k] = IF k = 0 THEN <<>>
                                       ELSE IF list[k] \in T THEN Append(f[k - 1], list[k])
                                       ELSE f[k - 1]
      BY <2>2 DEF Selecting
    <3>2. \A k \in 0..(m - 1) : k \in 0..m
      BY <2>1
    <3> QED
      BY <3>1, <3>2
  <2>4. \A k \in 0..m : k # 0 => k - 1 \in 0..(m - 1)
    BY <1>3
  <2>5. \A k \in 0..m : g[k] = IF k = 0 THEN <<>>
                               ELSE IF list[k] \in T THEN Append(g[k - 1], list[k])
                               ELSE g[k - 1]
    BY <2>3, <2>4
  <2>6. Selecting(g, list, T, m)
    BY <2>5 DEF Selecting
  <2> QED
    BY <2>6
<1> QED
  BY <1>2, <1>3

(* What a selection has is what was selected, each as often as it was.     *)
LEMMA SelectedIs ==
    ASSUME NEW S, NEW list \in Seq(S), NEW T
    PROVE  /\ A!Selected(list, T) \in Seq(S)
           /\ A!ToSet(A!Selected(list, T)) = A!ToSet(list) \cap T
           /\ A!Once(list) => A!Once(A!Selected(list, T))
<1> DEFINE G == Len(list)
<1>1. G \in Nat /\ DOMAIN list = 1..G
  OBVIOUS
<1>2. A!Selected(list, T) = (CHOOSE f : Selecting(f, list, T, G))[G]
  BY DEF A!Selected, Selecting
<1> DEFINE f == CHOOSE f : Selecting(f, list, T, G)
<1>3. Selecting(f, list, T, G)
  BY <1>1, SelectionExists
<1> HIDE DEF f
<1>4. f[0] = <<>> /\ \A k \in 1..G : f[k] = IF list[k] \in T THEN Append(f[k - 1], list[k])
                                            ELSE f[k - 1]
  <2>1. \A k \in 0..G : f[k] = IF k = 0 THEN <<>>
                               ELSE IF list[k] \in T THEN Append(f[k - 1], list[k])
                               ELSE f[k - 1]
    BY <1>3 DEF Selecting
  <2> QED
    BY <1>1, <2>1
<1> DEFINE Is(k) == /\ f[k] \in Seq(S)
                    /\ \A e : (\E i \in DOMAIN f[k] : f[k][i] = e)
                              <=> (\E i \in 1..k : list[i] = e) /\ e \in T
                    /\ A!Once(list) => A!Once(f[k])
           Bad == {k \in 0..G : ~Is(k)}
<1>5. Is(0)
  BY <1>4 DEF A!Once
<1>6. ASSUME NEW k \in 1..G, Is(k - 1) PROVE Is(k)
  <2>1. list[k] \in S
    BY <1>1
  <2>2. f[k - 1] \in Seq(S)
    BY <1>6
  <2>3. \A e : (\E i \in DOMAIN f[k - 1] : f[k - 1][i] = e)
               <=> (\E i \in 1..(k - 1) : list[i] = e) /\ e \in T
    BY <1>6
  <2>4. \A e : (\E i \in 1..k : list[i] = e) <=> (\E i \in 1..(k - 1) : list[i] = e) \/ e = list[k]
    BY <1>1
  <2>5. CASE list[k] \in T
    <3>1. f[k] = Append(f[k - 1], list[k])
      BY <1>4, <2>5
    <3>2. /\ f[k] \in Seq(S) /\ DOMAIN f[k] = 1..(Len(f[k - 1]) + 1)
          /\ DOMAIN f[k - 1] = 1..Len(f[k - 1])
          /\ \A i \in DOMAIN f[k - 1] : f[k][i] = f[k - 1][i]
          /\ f[k][Len(f[k - 1]) + 1] = list[k]
      BY <2>1, <2>2, <3>1
    <3>3. \A e : (\E i \in DOMAIN f[k] : f[k][i] = e)
                 <=> (\E i \in DOMAIN f[k - 1] : f[k - 1][i] = e) \/ e = list[k]
      <4>1. \A i \in DOMAIN f[k] : i \in DOMAIN f[k - 1] \/ i = Len(f[k - 1]) + 1
        BY <2>2, <3>2
      <4>2. DOMAIN f[k - 1] \subseteq DOMAIN f[k] /\ Len(f[k - 1]) + 1 \in DOMAIN f[k]
        BY <2>2, <3>2
      <4> QED
        BY <3>2, <4>1, <4>2
    <3>4. ASSUME A!Once(list) PROVE A!Once(f[k])
      <4>1. A!Once(f[k - 1])
        BY <1>6, <3>4
      <4>2. ASSUME NEW i \in DOMAIN f[k - 1] PROVE f[k - 1][i].id # list[k].id
        <5>1. PICK j \in 1..(k - 1) : list[j] = f[k - 1][i]
          BY <2>3
        <5> QED
          BY <1>1, <3>4, <5>1 DEF A!Once
      <4>3. ASSUME NEW i \in DOMAIN f[k], NEW j \in DOMAIN f[k], f[k][i].id = f[k][j].id
            PROVE  i = j
        <5>1. CASE i \in DOMAIN f[k - 1] /\ j \in DOMAIN f[k - 1]
          BY <3>2, <4>1, <4>3, <5>1 DEF A!Once
        <5>2. CASE i \in DOMAIN f[k - 1] /\ j \notin DOMAIN f[k - 1]
          <6>1. j = Len(f[k - 1]) + 1
            BY <2>2, <3>2, <5>2
          <6> QED
            BY <3>2, <4>2, <4>3, <5>2, <6>1
        <5>3. CASE i \notin DOMAIN f[k - 1] /\ j \in DOMAIN f[k - 1]
          <6>1. i = Len(f[k - 1]) + 1
            BY <2>2, <3>2, <5>3
          <6> QED
            BY <3>2, <4>2, <4>3, <5>3, <6>1
        <5>4. CASE i \notin DOMAIN f[k - 1] /\ j \notin DOMAIN f[k - 1]
          BY <2>2, <3>2, <5>4
        <5> QED
          BY <5>1, <5>2, <5>3, <5>4
      <4> QED
        BY <4>3 DEF A!Once
    <3> QED
      BY <2>3, <2>4, <2>5, <3>2, <3>3, <3>4
  <2>6. CASE list[k] \notin T
    <3>1. f[k] = f[k - 1]
      BY <1>4, <2>6
    <3> QED
      BY <1>6, <2>3, <2>4, <2>6, <3>1
  <2> QED
    BY <2>5, <2>6
<1>7. Is(G)
  <2> HIDE DEF Is
  <2> SUFFICES ASSUME Bad # {} PROVE FALSE
    BY <1>1
  <2>1. PICK m \in Bad : \A n \in Bad : m <= n
    <3>1. Bad \in SUBSET Nat
      BY <1>1
    <3> HIDE DEF Bad
    <3> QED
      BY <3>1, LeastNat
  <2>2. m \in 0..G /\ ~Is(m)
    OBVIOUS
  <2>3. m # 0
    BY <1>5, <2>2
  <2>4. m \in 1..G /\ m - 1 \in 0..G /\ m - 1 \notin Bad
    BY <1>1, <2>1, <2>2, <2>3
  <2>5. Is(m - 1)
    BY <2>4
  <2> QED
    BY <1>6, <2>2, <2>4, <2>5
<1>8. A!Selected(list, T) = f[G]
  BY <1>2 DEF f
<1> QED
  BY <1>1, <1>7, <1>8 DEF A!ToSet

LEMMA UpsertIs ==
    ASSUME NEW S, NEW list \in Seq(S), NEW n \in S, A!Once(list)
    PROVE  /\ A!UpsertLatest(list, n) \in Seq(S)
           /\ A!ToSet(A!UpsertLatest(list, n)) = {n} \cup {m \in A!ToSet(list) : m.id # n.id}
           /\ A!Once(A!UpsertLatest(list, n))
<1> DEFINE rest == A!Without(list, n.id)
<1>1. /\ rest \in Seq(S) /\ A!Once(rest)
      /\ A!ToSet(rest) = {m \in A!ToSet(list) : m.id # n.id}
  <2>1. A!ToSet(list) \cap {m \in A!ToSet(list) : m.id # n.id} = {m \in A!ToSet(list) : m.id # n.id}
    OBVIOUS
  <2> QED
    BY <2>1, SelectedIs DEF A!Without
<1> HIDE DEF rest
<1>2. A!UpsertLatest(list, n) = <<n>> \o rest
  BY DEF A!UpsertLatest, rest
<1> DEFINE new == <<n>> \o rest
<1>3. /\ new \in Seq(S) /\ DOMAIN new = 1..(Len(rest) + 1) /\ new[1] = n
      /\ DOMAIN rest = 1..Len(rest)
      /\ \A i \in 2..(Len(rest) + 1) : new[i] = rest[i - 1]
  BY <1>1
<1> HIDE DEF new
<1>4. \A i \in DOMAIN new : i = 1 \/ (i - 1 \in DOMAIN rest /\ new[i] = rest[i - 1])
  BY <1>1, <1>3
<1>5. \A i \in DOMAIN rest : i + 1 \in DOMAIN new /\ new[i + 1] = rest[i]
  BY <1>1, <1>3
<1>6. \A i \in DOMAIN rest : rest[i].id # n.id
  BY <1>1 DEF A!ToSet
<1>7. A!ToSet(new) = {n} \cup A!ToSet(rest)
  <2>1. \A e \in A!ToSet(new) : e = n \/ e \in A!ToSet(rest)
    BY <1>3, <1>4 DEF A!ToSet
  <2>2. \A e \in A!ToSet(rest) : e \in A!ToSet(new)
    BY <1>5 DEF A!ToSet
  <2>3. n \in A!ToSet(new)
    <3>1. 1 \in DOMAIN new
      BY <1>1, <1>3
    <3> QED
      BY <1>3, <3>1 DEF A!ToSet
  <2> QED
    BY <2>1, <2>2, <2>3
<1>8. A!Once(new)
  <2>1. ASSUME NEW i \in DOMAIN new, NEW j \in DOMAIN new, new[i].id = new[j].id
        PROVE  i = j
    <3>1. CASE i = 1 /\ j = 1
      BY <3>1
    <3>2. CASE i = 1 /\ j # 1
      BY <1>3, <1>4, <1>6, <2>1, <3>2
    <3>3. CASE i # 1 /\ j = 1
      BY <1>3, <1>4, <1>6, <2>1, <3>3
    <3>4. CASE i # 1 /\ j # 1
      <4>1. i - 1 \in DOMAIN rest /\ j - 1 \in DOMAIN rest /\ rest[i - 1].id = rest[j - 1].id
        BY <1>4, <2>1, <3>4
      <4>2. i - 1 = j - 1
        BY <1>1, <4>1 DEF A!Once
      <4>3. i \in Int /\ j \in Int
        BY <1>3
      <4> QED
        BY <4>2, <4>3
    <3> QED
      BY <3>1, <3>2, <3>3, <3>4
  <2> QED
    BY <2>1 DEF A!Once
<1> QED
  BY <1>1, <1>2, <1>3, <1>7, <1>8 DEF new

-----------------------------------------------------------------------------
(* Storing in turn: all that is stored, and what it does not replace.      *)

Storing(f, list, kept, n) ==
    f = [i \in 0..n |-> IF i = 0 THEN list ELSE A!UpsertLatest(f[i - 1], kept[i])]

LEMMA StoringExists ==
    ASSUME NEW list, NEW kept
    PROVE  \A n \in Nat : \E f : Storing(f, list, kept, n)
<1> DEFINE Bad == {n \in Nat : ~\E f : Storing(f, list, kept, n)}
<1> SUFFICES ASSUME Bad # {} PROVE FALSE
  OBVIOUS
<1>1. PICK m \in Bad : \A n \in Bad : m <= n
  <2>1. Bad \in SUBSET Nat
    OBVIOUS
  <2> HIDE DEF Bad
  <2> QED
    BY <2>1, LeastNat
<1>2. CASE m = 0
  <2>1. Storing([i \in 0..0 |-> list], list, kept, 0)
    BY DEF Storing
  <2> QED
    BY <1>2, <2>1
<1>3. CASE m # 0
  <2>1. m - 1 \in Nat /\ m - 1 \notin Bad
    BY <1>1, <1>3
  <2>2. PICK f : Storing(f, list, kept, m - 1)
    BY <2>1
  <2> DEFINE g == [i \in 0..m |-> IF i = 0 THEN list ELSE A!UpsertLatest(f[i - 1], kept[i])]
  <2>3. \A k \in 0..(m - 1) : g[k] = f[k]
    <3>1. \A k \in 0..(m - 1) : f[k] = IF k = 0 THEN list ELSE A!UpsertLatest(f[k - 1], kept[k])
      BY <2>2 DEF Storing
    <3>2. \A k \in 0..(m - 1) : k \in 0..m
      BY <2>1
    <3> QED
      BY <3>1, <3>2
  <2>4. \A k \in 0..m : k # 0 => k - 1 \in 0..(m - 1)
    BY <1>3
  <2>5. \A k \in 0..m : g[k] = IF k = 0 THEN list ELSE A!UpsertLatest(g[k - 1], kept[k])
    BY <2>3, <2>4
  <2>6. Storing(g, list, kept, m)
    BY <2>5 DEF Storing
  <2> QED
    BY <2>6
<1> QED
  BY <1>2, <1>3

LEMMA StoringIs ==
    ASSUME NEW S, NEW list \in Seq(S), NEW kept \in Seq(S), A!Once(list), A!Once(kept),
           NEW f, Storing(f, list, kept, Len(kept))
    PROVE  /\ f[Len(kept)] \in Seq(S)
           /\ A!Once(f[Len(kept)])
           /\ A!ToSet(f[Len(kept)]) = A!ToSet(kept) \cup {m \in A!ToSet(list) :
                                                       \A k \in A!ToSet(kept) : k.id # m.id}
<1> DEFINE G == Len(kept)
           Upto(k) == {kept[i] : i \in 1..k}
<1>1. G \in Nat /\ DOMAIN kept = 1..G
  OBVIOUS
<1>2. f[0] = list /\ \A k \in 1..G : f[k] = A!UpsertLatest(f[k - 1], kept[k])
  <2>1. \A k \in 0..G : f[k] = IF k = 0 THEN list ELSE A!UpsertLatest(f[k - 1], kept[k])
    BY DEF Storing
  <2> QED
    BY <1>1, <2>1
<1> DEFINE Is(k) == /\ f[k] \in Seq(S)
                    /\ A!Once(f[k])
                    /\ A!ToSet(f[k]) = Upto(k) \cup {m \in A!ToSet(list) :
                                                    \A e \in Upto(k) : e.id # m.id}
           Bad == {k \in 0..G : ~Is(k)}
<1>3. Is(0)
  <2>1. Upto(0) = {}
    OBVIOUS
  <2> HIDE DEF Upto
  <2> QED
    BY <1>2, <2>1
<1>4. ASSUME NEW k \in 1..G, Is(k - 1) PROVE Is(k)
  <2>1. kept[k] \in S /\ k - 1 \in 0..G
    BY <1>1
  <2>2. /\ f[k] \in Seq(S) /\ A!Once(f[k])
        /\ A!ToSet(f[k]) = {kept[k]} \cup {m \in A!ToSet(f[k - 1]) : m.id # kept[k].id}
    <3>1. f[k] = A!UpsertLatest(f[k - 1], kept[k])
      BY <1>2
    <3>2. f[k - 1] \in Seq(S) /\ A!Once(f[k - 1])
      BY <1>4
    <3> HIDE DEF Upto
    <3>3. PICK g : g = f[k - 1]
      OBVIOUS
    <3>4. PICK e : e = kept[k]
      OBVIOUS
    <3>5. /\ A!UpsertLatest(g, e) \in Seq(S) /\ A!Once(A!UpsertLatest(g, e))
          /\ A!ToSet(A!UpsertLatest(g, e)) = {e} \cup {m \in A!ToSet(g) : m.id # e.id}
      BY <2>1, <3>2, <3>3, <3>4, UpsertIs
    <3> QED
      BY <3>1, <3>3, <3>4, <3>5
  <2>3. Upto(k) = Upto(k - 1) \cup {kept[k]}
    BY <1>1
  <2>4. \A e \in Upto(k - 1) : e.id # kept[k].id
    BY <1>1 DEF A!Once
  <2>5. A!ToSet(f[k - 1]) = Upto(k - 1) \cup {m \in A!ToSet(list) :
                                             \A e \in Upto(k - 1) : e.id # m.id}
    BY <1>4
  <2> HIDE DEF Upto
  <2> QED
    BY <2>2, <2>3, <2>4, <2>5
<1>5. Is(G)
  <2> HIDE DEF Is
  <2> SUFFICES ASSUME Bad # {} PROVE FALSE
    BY <1>1
  <2>1. PICK m \in Bad : \A n \in Bad : m <= n
    <3>1. Bad \in SUBSET Nat
      BY <1>1
    <3> HIDE DEF Bad
    <3> QED
      BY <3>1, LeastNat
  <2>2. m \in 0..G /\ ~Is(m)
    OBVIOUS
  <2>3. m # 0
    BY <1>3, <2>2
  <2>4. m \in 1..G /\ m - 1 \in 0..G /\ m - 1 \notin Bad
    BY <1>1, <2>1, <2>2, <2>3
  <2>5. Is(m - 1)
    BY <2>4
  <2> QED
    BY <1>4, <2>2, <2>4, <2>5
<1>6. Upto(G) = A!ToSet(kept)
  BY <1>1 DEF A!ToSet
<1> HIDE DEF Upto
<1> QED
  BY <1>5, <1>6

Storable(list, shut) == {n \in A!ToSet(list) : A!ShouldStore(n, shut)}

\* What the queue of HasItems says in the end, or HasItems if it is empty.
LatestSaid == IF updates = <<>> THEN hasItems ELSE updates[Len(updates)]
Queued == /\ updates \in Seq(BOOLEAN) /\ Len(updates) <= MaxQueued
         /\ hasItems \in BOOLEAN /\ skipped \in BOOLEAN
Announced == ~skipped => (LatestSaid <=> center # <<>>)

LEMMA PublishIs ==
    ASSUME Roomy, Queued, NEW n \in Nat, NEW list, A!Publish(list, n), hasItems' = hasItems
    PROVE  /\ Queued'
           /\ n = 0 => UNCHANGED <<updates, skipped>>
           /\ n # 0 /\ ~skipped' => (LatestSaid' <=> list # <<>>)
<1> DEFINE sent == [i \in 1..n |-> list # <<>>]
           long == updates \o sent
<1>1. /\ sent \in Seq(BOOLEAN) /\ Len(sent) = n
      /\ \A i \in 1..n : sent[i] = (list # <<>>)
  OBVIOUS
<1> HIDE DEF sent
<1>2. /\ long \in Seq(BOOLEAN) /\ Len(long) = Len(updates) + n
      /\ n # 0 => long[Len(updates) + n] = (list # <<>>)
      /\ n = 0 => long = updates
  <2>1. updates \in Seq(BOOLEAN)
    BY DEF Queued
  <2>2. long \in Seq(BOOLEAN) /\ Len(long) = Len(updates) + n
    BY <1>1, <2>1
  <2>3. n # 0 => long[Len(updates) + n] = sent[n]
    BY <1>1, <2>1
  <2>4. n = 0 => long = updates
    <3>1. n = 0 => sent = <<>>
      BY <1>1
    <3> QED
      BY <2>1, <3>1
  <2> QED
    BY <1>1, <2>2, <2>3, <2>4
<1> HIDE DEF long
<1> DEFINE some == A!MinOf(MaxQueued, Len(updates) + n)
<1>3. some \in Nat /\ some <= MaxQueued /\ some <= Len(long)
      /\ (Len(updates) + n <= MaxQueued => some = Len(long))
  BY <1>2 DEF A!MinOf, Roomy, Queued
<1>4. updates' = SubSeq(long, 1, some)
  BY DEF A!Publish, long, sent
<1>5. skipped' = IF n = 0 THEN skipped ELSE Len(updates) + n > MaxQueued
  BY DEF A!Publish
<1> HIDE DEF some
<1>6. updates' \in Seq(BOOLEAN) /\ Len(updates') = some
      /\ \A i \in 1..some : updates'[i] = long[i]
  BY <1>2, <1>3, <1>4
<1>7. some = Len(long) => updates' = long
  BY <1>2, <1>3, <1>4
<1>8. Queued'
  <2>1. skipped' \in BOOLEAN
    <3>1. CASE n = 0
      BY <1>5, <3>1 DEF Queued
    <3>2. CASE n # 0
      <4>1. skipped' = (Len(updates) + n > MaxQueued)
        BY <1>5, <3>2
      <4>2. skipped' = TRUE \/ skipped' = FALSE
        BY <4>1
      <4> QED
        BY <4>2, Zenon
    <3> QED
      BY <3>1, <3>2
  <2>2. hasItems' \in BOOLEAN
    BY DEF Queued
  <2>3. updates' \in Seq(BOOLEAN) /\ Len(updates') <= MaxQueued
    BY <1>3, <1>6
  <2> QED
    BY <2>1, <2>2, <2>3 DEF Queued
<1>9. n = 0 => UNCHANGED <<updates, skipped>>
  BY <1>2, <1>3, <1>5, <1>7 DEF Queued
<1>10. ASSUME n # 0, ~skipped' PROVE LatestSaid' <=> list # <<>>
  <2>1. ~(Len(updates) + n > MaxQueued)
    BY <1>5, <1>10
  <2>2. some = Len(updates) + n /\ Len(updates) \in Nat
    BY <1>2, <1>3, <2>1 DEF Queued, Roomy
  <2>3. updates' # <<>> /\ updates'[Len(updates')] = long[Len(updates) + n]
    BY <1>2, <1>6, <1>10, <2>2
  <2> QED
    BY <1>2, <1>10, <2>3 DEF LatestSaid
<1> QED
  BY <1>8, <1>9, <1>10

LEMMA StoreIs ==
    ASSUME Roomy, Queued, Announced, NEW S, center \in Seq(S), A!Once(center),
           NEW list \in Seq(S), A!Once(list), NEW shut, A!Store(list, shut), hasItems' = hasItems
    PROVE  /\ Queued' /\ Announced'
           /\ center' \in Seq(S) /\ A!Once(center')
           /\ A!ToSet(center') = Storable(list, shut) \cup {m \in A!ToSet(center) :
                                     \A k \in Storable(list, shut) : k.id # m.id}
<1> DEFINE kept == A!Selected(list, {n \in A!ToSet(list) : A!ShouldStore(n, shut)})
<1>1. kept \in Seq(S) /\ A!Once(kept) /\ A!ToSet(kept) = Storable(list, shut)
  <2>1. A!ToSet(list) \cap Storable(list, shut) = Storable(list, shut)
    BY DEF Storable
  <2>2. kept = A!Selected(list, Storable(list, shut))
    BY Zenon DEF Storable
  <2> HIDE DEF kept
  <2> QED
    BY <2>1, <2>2, SelectedIs
<1> DEFINE f == CHOOSE f : Storing(f, center, kept, Len(kept))
<1>2. center' = f[Len(kept)] /\ A!Publish(center', Len(kept))
  BY Zenon DEF A!Store, Storing
<1> HIDE DEF kept
<1>3. Len(kept) \in Nat
  BY <1>1
<1>4. Storing(f, center, kept, Len(kept))
  BY <1>3, StoringExists
<1> HIDE DEF f
<1>5. /\ center' \in Seq(S) /\ A!Once(center')
      /\ A!ToSet(center') = A!ToSet(kept) \cup {m \in A!ToSet(center) :
                                             \A k \in A!ToSet(kept) : k.id # m.id}
  BY <1>1, <1>2, <1>4, StoringIs
<1>6. Len(kept) = 0 => center' = center
  BY <1>2, <1>4 DEF Storing
<1>7. /\ Queued'
      /\ Len(kept) = 0 => UNCHANGED <<updates, skipped>>
      /\ Len(kept) # 0 /\ ~skipped' => (LatestSaid' <=> center' # <<>>)
  <2>1. PICK c : c = center'
    OBVIOUS
  <2>2. A!Publish(c, Len(kept))
    BY <1>2, <2>1
  <2> QED
    BY <1>3, <2>1, <2>2, PublishIs
<1>8. Announced'
  <2>1. CASE Len(kept) = 0
    BY <1>6, <1>7, <2>1 DEF Announced, LatestSaid
  <2>2. CASE Len(kept) # 0
    BY <1>7, <2>2 DEF Announced
  <2> QED
    BY <2>1, <2>2
<1> QED
  BY <1>1, <1>5, <1>7, <1>8

-----------------------------------------------------------------------------
(* The invariant.                                                          *)

Typed ==
    /\ next \in A!Ids /\ session \in BOOLEAN /\ locked \in BOOLEAN /\ opened \in BOOLEAN
    /\ watching \in {"starting", "on", "off"}
    /\ generation \in Nat
    /\ arrived \in Seq(Sendable)
    /\ popups \in Seq(Notification) /\ center \in Seq(Notification)
    /\ running \subseteq Running /\ owed \subseteq Notification

Timed == \A t \in running : t.generation \in 1..generation

\* What is owed is the newest of its id: a popup of that id is the same.
Newest == \A o \in owed, m \in A!ToSet(popups) : m.id = o.id => m = o

Always(n) == A!ShouldStore(n, TRUE) /\ A!ShouldStore(n, FALSE)
Kept == \A n \in owed : Always(n) => n \in A!ToSet(popups) \cup A!ToSet(center)
Singly == A!Once(popups) /\ A!Once(center)
Covered == locked => popups = <<>>

TimerOf(n) == [id |-> n.id, generation |-> n.generation]
Due(n) ==
    \/ TimerOf(n) \in running
    \/ \E j \in DOMAIN arrived : arrived[j].do = "expire" /\ arrived[j].timer = TimerOf(n)
    \/ ~n.expires /\ ~A!ShouldStore(n, FALSE)
Leaving == \A n \in A!ToSet(popups) : Due(n)

\* The last the window is to hear of the lock, or what it knows, is so.
Silent(s, k) == \A j \in k..Len(s) : s[j].do # "locked"
Hears ==
    watching = "on" =>
        \/ (locked <=> session) /\ Silent(arrived, 1)
        \/ \E j \in DOMAIN arrived : /\ arrived[j].do = "locked" /\ arrived[j].locked = session
                                   /\ Silent(arrived, j + 1)

CenterInv == /\ Typed /\ Timed /\ Newest /\ Kept /\ Singly /\ Covered /\ Leaving /\ Hears
        /\ Queued /\ Announced

LEMMA Fields ==
    ASSUME NEW m \in Sendable
    PROVE  /\ m.do = "show" => m.id \in A!Ids /\ m.kind \in Kinds /\ m.expires \in BOOLEAN
           /\ m.do = "close" => m.id \in A!Ids
           /\ m.do = "expire" => m.timer \in Running
           /\ m.do = "locked" => m.locked \in BOOLEAN
           /\ m.do = "set" => m.visible \in BOOLEAN
BY DEF Sendable

LEMMA EmptyHas == A!ToSet(<<>>) = {} /\ A!Once(<<>>) /\ \A S : <<>> \in Seq(S)
BY DEF A!ToSet, A!Once

LEMMA SomeHas ==
    ASSUME NEW S, NEW list \in Seq(S), NEW e \in A!ToSet(list)
    PROVE  list # <<>> /\ e \in S
BY DEF A!ToSet

LEMMA NoneHas ==
    ASSUME NEW S, NEW list \in Seq(S), A!ToSet(list) = {}
    PROVE  list = <<>>
<1>1. DOMAIN list = {}
  BY DEF A!ToSet
<1>2. Len(list) = 0
  BY <1>1
<1> QED
  BY <1>2

\* What is handled next is not the lock: the window has heard as much as before.
LEMMA HearsOn ==
    ASSUME Typed, Hears, arrived # <<>>, arrived' = Tail(arrived), Head(arrived).do # "locked",
           UNCHANGED <<locked, session, watching>>
    PROVE  Hears'
<1>1. SUFFICES ASSUME watching = "on" PROVE Hears'
  BY DEF Hears
<1>2. /\ Len(arrived) \in Nat \ {0} /\ Len(arrived') = Len(arrived) - 1
      /\ DOMAIN arrived = 1..Len(arrived) /\ DOMAIN arrived' = 1..(Len(arrived) - 1)
      /\ \A i \in 1..(Len(arrived) - 1) : arrived'[i] = arrived[i + 1]
      /\ Head(arrived) = arrived[1]
  BY DEF Typed
<1>3. CASE (locked <=> session) /\ Silent(arrived, 1)
  <2>1. Silent(arrived', 1)
    BY <1>2, <1>3 DEF Silent
  <2> QED
    BY <1>3, <2>1 DEF Hears
<1>4. ASSUME NEW j \in DOMAIN arrived, arrived[j].do = "locked", arrived[j].locked = session,
             Silent(arrived, j + 1)
      PROVE  Hears'
  <2>1. j - 1 \in DOMAIN arrived' /\ arrived'[j - 1] = arrived[j]
    BY <1>2, <1>4
  <2>2. Silent(arrived', (j - 1) + 1)
    <3>1. ASSUME NEW i \in ((j - 1) + 1)..Len(arrived') PROVE arrived'[i].do # "locked"
      <4>1. i + 1 \in (j + 1)..Len(arrived) /\ i \in 1..(Len(arrived) - 1)
        BY <1>2, <3>1
      <4> QED
        BY <1>2, <1>4, <4>1 DEF Silent
    <3> QED
      BY <3>1 DEF Silent
  <2>3. arrived'[j - 1].do = "locked" /\ arrived'[j - 1].locked = session'
    BY <1>4, <2>1
  <2> QED
    BY <2>1, <2>2, <2>3 DEF Hears
<1> QED
  BY <1>1, <1>3, <1>4 DEF Hears

LEMMA HearsLock ==
    ASSUME Typed, Hears, arrived # <<>>, arrived' = Tail(arrived), Head(arrived).do = "locked",
           locked' = Head(arrived).locked, UNCHANGED <<session, watching>>
    PROVE  Hears'
<1>1. SUFFICES ASSUME watching = "on" PROVE Hears'
  BY DEF Hears
<1>2. /\ Len(arrived) \in Nat \ {0} /\ Len(arrived') = Len(arrived) - 1
      /\ DOMAIN arrived = 1..Len(arrived) /\ DOMAIN arrived' = 1..(Len(arrived) - 1)
      /\ \A i \in 1..(Len(arrived) - 1) : arrived'[i] = arrived[i + 1]
      /\ Head(arrived) = arrived[1]
  BY DEF Typed
<1>3. PICK j \in DOMAIN arrived : /\ arrived[j].do = "locked" /\ arrived[j].locked = session
                                /\ Silent(arrived, j + 1)
  <2>1. ~Silent(arrived, 1)
    BY <1>2 DEF Silent
  <2> QED
    BY <1>1, <2>1 DEF Hears
<1>4. \A i \in (j + 1)..Len(arrived) : arrived[i].do # "locked"
  BY <1>3 DEF Silent
<1>5. CASE j = 1
  <2>1. Silent(arrived', 1)
    <3>1. ASSUME NEW i \in 1..Len(arrived') PROVE arrived'[i].do # "locked"
      BY <1>2, <1>4, <1>5
    <3> QED
      BY <3>1 DEF Silent
  <2>2. locked' = session'
    BY <1>2, <1>3, <1>5
  <2> QED
    BY <2>1, <2>2 DEF Hears
<1>6. CASE j # 1
  <2>1. j - 1 \in DOMAIN arrived' /\ arrived'[j - 1] = arrived[j]
    BY <1>2, <1>6
  <2>2. Silent(arrived', (j - 1) + 1)
    <3>1. ASSUME NEW i \in ((j - 1) + 1)..Len(arrived') PROVE arrived'[i].do # "locked"
      <4>1. i + 1 \in (j + 1)..Len(arrived) /\ i \in 1..(Len(arrived) - 1)
        BY <1>2, <3>1
      <4> QED
        BY <1>2, <1>4, <4>1
    <3> QED
      BY <3>1 DEF Silent
  <2>3. arrived'[j - 1].do = "locked" /\ arrived'[j - 1].locked = session'
    BY <1>3, <2>1
  <2> QED
    BY <2>1, <2>2, <2>3 DEF Hears
<1> QED
  BY <1>5, <1>6

LEMMA HearsSent ==
    ASSUME Typed, Hears, NEW m \in Sendable, arrived' = Append(arrived, m), m.do # "locked",
           UNCHANGED <<locked, session, watching>>
    PROVE  Hears'
<1>1. SUFFICES ASSUME watching = "on" PROVE Hears'
  BY DEF Hears
<1>2. /\ Len(arrived) \in Nat /\ Len(arrived') = Len(arrived) + 1
      /\ DOMAIN arrived = 1..Len(arrived) /\ DOMAIN arrived' = 1..(Len(arrived) + 1)
      /\ \A i \in 1..Len(arrived) : arrived'[i] = arrived[i]
      /\ arrived'[Len(arrived) + 1] = m
  BY DEF Typed
<1>3. ASSUME NEW k \in Nat \ {0}, Silent(arrived, k) PROVE Silent(arrived', k)
  <2>1. ASSUME NEW i \in k..Len(arrived') PROVE arrived'[i].do # "locked"
    <3>1. CASE i = Len(arrived) + 1
      BY <1>2, <3>1
    <3>2. CASE i # Len(arrived) + 1
      <4>1. i \in k..Len(arrived) /\ i \in 1..Len(arrived)
        BY <1>2, <2>1, <3>2
      <4> QED
        BY <1>2, <1>3, <4>1 DEF Silent
    <3> QED
      BY <3>1, <3>2
  <2> QED
    BY <2>1 DEF Silent
<1>4. CASE (locked <=> session) /\ Silent(arrived, 1)
  BY <1>3, <1>4 DEF Hears
<1>5. ASSUME NEW j \in DOMAIN arrived, arrived[j].do = "locked", arrived[j].locked = session,
             Silent(arrived, j + 1)
      PROVE  Hears'
  <2>1. j \in DOMAIN arrived' /\ arrived'[j] = arrived[j] /\ j + 1 \in Nat \ {0}
    BY <1>2
  <2>2. Silent(arrived', j + 1)
    BY <1>3, <1>5, <2>1
  <2>3. arrived'[j].do = "locked" /\ arrived'[j].locked = session'
    BY <1>5, <2>1
  <2> QED
    BY <2>1, <2>2, <2>3 DEF Hears
<1> QED
  BY <1>1, <1>4, <1>5 DEF Hears

\* Told what is: the window will know.
LEMMA HearsTold ==
    ASSUME Typed, NEW m \in Sendable, arrived' = Append(arrived, m), m.do = "locked",
           m.locked = session'
    PROVE  Hears'
<1>2. /\ Len(arrived) \in Nat /\ Len(arrived') = Len(arrived) + 1
      /\ DOMAIN arrived' = 1..(Len(arrived) + 1)
      /\ arrived'[Len(arrived) + 1] = m
  BY DEF Typed
<1>3. Silent(arrived', (Len(arrived) + 1) + 1)
  BY <1>2 DEF Silent
<1>4. Len(arrived) + 1 \in DOMAIN arrived'
  BY <1>2
<1> QED
  BY <1>2, <1>3, <1>4 DEF Hears

\* The timer or the message that will close a popup is there until it does.
LEMMA DueOn ==
    ASSUME Typed, NEW n, Due(n), arrived # <<>>, arrived' = Tail(arrived),
           running \subseteq running',
           ~(Head(arrived).do = "expire" /\ Head(arrived).timer = TimerOf(n))
    PROVE  Due(n)'
<1>1. /\ Len(arrived) \in Nat \ {0} /\ DOMAIN arrived' = 1..(Len(arrived) - 1)
      /\ DOMAIN arrived = 1..Len(arrived)
      /\ \A i \in 1..(Len(arrived) - 1) : arrived'[i] = arrived[i + 1]
      /\ Head(arrived) = arrived[1]
  BY DEF Typed
<1>2. CASE TimerOf(n) \in running
  BY <1>2 DEF Due, TimerOf
<1>3. ASSUME NEW j \in DOMAIN arrived, arrived[j].do = "expire", arrived[j].timer = TimerOf(n)
      PROVE  Due(n)'
  <2>1. j # 1
    BY <1>1, <1>3
  <2>2. j - 1 \in DOMAIN arrived' /\ arrived'[j - 1] = arrived[j]
    BY <1>1, <2>1
  <2> QED
    BY <1>3, <2>2 DEF Due, TimerOf
<1>4. CASE ~n.expires /\ ~A!ShouldStore(n, FALSE)
  BY <1>4 DEF Due
<1> QED
  BY <1>2, <1>3, <1>4 DEF Due

LEMMA DueSent ==
    ASSUME Typed, NEW n, Due(n), NEW m \in Sendable, arrived' = Append(arrived, m),
           running \subseteq running'
           \/ (m.do = "expire" /\ running \subseteq running' \cup {m.timer})
    PROVE  Due(n)'
<1>1. /\ Len(arrived) \in Nat /\ DOMAIN arrived' = 1..(Len(arrived) + 1)
      /\ DOMAIN arrived = 1..Len(arrived)
      /\ \A i \in 1..Len(arrived) : arrived'[i] = arrived[i]
      /\ arrived'[Len(arrived) + 1] = m
  BY DEF Typed
<1>2. CASE TimerOf(n) \in running
  <2>1. CASE TimerOf(n) \in running'
    BY <2>1 DEF Due, TimerOf
  <2>2. CASE m.do = "expire" /\ m.timer = TimerOf(n)
    <3>1. Len(arrived) + 1 \in DOMAIN arrived'
      BY <1>1
    <3> QED
      BY <1>1, <2>2, <3>1 DEF Due, TimerOf
  <2> QED
    BY <1>2, <2>1, <2>2
<1>3. ASSUME NEW j \in DOMAIN arrived, arrived[j].do = "expire", arrived[j].timer = TimerOf(n)
      PROVE  Due(n)'
  <2>1. j \in DOMAIN arrived' /\ arrived'[j] = arrived[j]
    BY <1>1
  <2> QED
    BY <1>3, <2>1 DEF Due, TimerOf
<1>4. CASE ~n.expires /\ ~A!ShouldStore(n, FALSE)
  BY <1>4 DEF Due
<1> QED
  BY <1>2, <1>3, <1>4 DEF Due

-----------------------------------------------------------------------------
(* The steps that only send to the window.                                 *)

LEMMA Appended ==
    ASSUME Typed, NEW m \in Sendable, arrived' = Append(arrived, m)
    PROVE  arrived' \in Seq(Sendable)
BY DEF Typed

LEMMA SameWindow ==
    ASSUME CenterInv, UNCHANGED <<A!window, A!bus>>, running' \subseteq running
    PROVE  Timed' /\ Newest' /\ Kept' /\ Singly' /\ Covered' /\ Queued' /\ Announced'
<1> USE DEF A!window, A!bus
<1>1. Timed'
  BY DEF CenterInv, Timed
<1>2. Newest'
  BY DEF CenterInv, Newest
<1>3. Kept'
  BY DEF CenterInv, Kept, Always
<1>4. Singly' /\ Covered'
  BY DEF CenterInv, Singly, Covered
<1>5. Queued' /\ Announced'
  BY DEF CenterInv, Queued, Announced, LatestSaid
<1> QED
  BY <1>1, <1>2, <1>3, <1>4, <1>5

LEMMA SendHolds ==
    ASSUME CenterInv, NEW m \in Sendable, m.do # "locked", A!Send(m),
           UNCHANGED <<session, watching, A!window, A!bus>>, next' \in A!Ids,
           running' \subseteq running,
           \/ running \subseteq running'
           \/ m.do = "expire" /\ running \subseteq running' \cup {m.timer}
    PROVE  CenterInv'
<1>1. arrived' = Append(arrived, m)
  BY DEF A!Send
<1>2. Typed'
  <2>1. arrived' \in Seq(Sendable)
    BY <1>1, Appended DEF CenterInv
  <2> QED
    BY <2>1 DEF CenterInv, Typed, A!window
<1>3. Leaving'
  <2>1. ASSUME NEW n \in A!ToSet(popups) PROVE Due(n)'
    <3>1. Due(n)
      BY DEF CenterInv, Leaving
    <3> QED
      BY <1>1, <3>1, DueSent DEF CenterInv
  <2> QED
    BY <2>1 DEF Leaving, A!window
<1>4. Hears'
  BY <1>1, HearsSent DEF CenterInv, A!window
<1> QED
  BY <1>2, <1>3, <1>4, SameWindow DEF CenterInv

LEMMA NotifyHolds ==
    ASSUME Roomy, CenterInv, NEW replaces \in A!Ids \cup {0}, NEW kind \in Kinds,
           NEW expires \in BOOLEAN, A!Notify(replaces, kind, expires)
    PROVE  CenterInv'
<1> DEFINE id == IF replaces = 0 THEN A!AtLeastOne(next) ELSE replaces
           m == [do |-> "show", id |-> id, kind |-> kind, expires |-> expires]
<1>1. id \in A!Ids
  BY DEF A!AtLeastOne, CenterInv, Typed, A!Ids, Roomy
<1>2. m \in Sendable /\ m.do = "show"
  BY <1>1 DEF Sendable
<1>3. next' \in A!Ids
  <2>1. A!AtLeastOne((id + 1) % Width) \in A!Ids
    BY <1>1 DEF A!AtLeastOne, A!Ids, Roomy
  <2>2. next' = IF replaces = 0 THEN A!AtLeastOne((id + 1) % Width) ELSE next
    BY DEF A!Notify
  <2> HIDE DEF id
  <2> QED
    BY <2>1, <2>2 DEF CenterInv, Typed
<1>4. A!Send(m) /\ UNCHANGED <<session, watching, A!window, running, A!bus>>
  BY DEF A!Notify
<1> HIDE DEF m
<1> QED
  BY <1>2, <1>3, <1>4, SendHolds

LEMMA AskedHolds ==
    ASSUME CenterInv, NEW m \in Sendable, m.do \notin {"locked", "expire"}, A!Sent(m)
    PROVE  CenterInv'
<1>1. next \in A!Ids
  BY DEF CenterInv, Typed
<1> QED
  BY <1>1, SendHolds DEF A!Sent

LEMMA ExpireHolds ==
    ASSUME CenterInv, NEW t \in running, A!Expire(t)
    PROVE  CenterInv'
<1> DEFINE m == [do |-> "expire", timer |-> t]
<1>1. m \in Sendable /\ m.do = "expire" /\ m.timer = t
  BY DEF CenterInv, Typed, Sendable
<1>2. /\ A!Send(m) /\ UNCHANGED <<next, session, watching, A!window, A!bus>>
      /\ running' = running \ {t}
  BY DEF A!Expire
<1>3. next \in A!Ids
  BY DEF CenterInv, Typed
<1> HIDE DEF m
<1> QED
  BY <1>1, <1>2, <1>3, SendHolds

\* The lock changes or is heard of first: the message says what is.
LEMMA ToldHolds ==
    ASSUME CenterInv, NEW m \in Sendable, m.do = "locked", m.locked = session', A!Send(m),
           session' \in BOOLEAN, watching' \in {"starting", "on", "off"},
           UNCHANGED <<next, A!window, running, A!bus>>
    PROVE  CenterInv'
<1>1. arrived' = Append(arrived, m)
  BY DEF A!Send
<1>2. Typed'
  <2>1. arrived' \in Seq(Sendable)
    BY <1>1, Appended DEF CenterInv
  <2> QED
    BY <2>1 DEF CenterInv, Typed, A!window
<1>3. Leaving'
  <2>1. ASSUME NEW n \in A!ToSet(popups) PROVE Due(n)'
    <3>1. Due(n)
      BY DEF CenterInv, Leaving
    <3> QED
      BY <1>1, <3>1, DueSent DEF CenterInv
  <2> QED
    BY <2>1 DEF Leaving, A!window
<1>4. Hears'
  BY <1>1, HearsTold DEF CenterInv
<1> QED
  BY <1>2, <1>3, <1>4, SameWindow DEF CenterInv

LEMMA UntoldHolds ==
    ASSUME CenterInv, watching' \in {"starting", "off"}, session' \in BOOLEAN,
           UNCHANGED <<next, arrived, A!window, running, A!bus>>
    PROVE  CenterInv'
<1>1. Typed'
  BY DEF CenterInv, Typed, A!window
<1>2. Leaving'
  BY DEF CenterInv, Leaving, Due, TimerOf, A!window
<1>3. Hears'
  BY DEF Hears
<1> QED
  BY <1>1, <1>2, <1>3, SameWindow DEF CenterInv

LEMMA LockHolds ==
    ASSUME CenterInv, A!Lock
    PROVE  CenterInv'
<1>1. session' = ~session /\ session' \in BOOLEAN
  BY DEF A!Lock, CenterInv, Typed
<1>2. CASE watching = "on"
  <2> DEFINE m == [do |-> "locked", locked |-> ~session]
  <2>1. m \in Sendable /\ m.do = "locked" /\ m.locked = session'
    BY <1>1 DEF Sendable
  <2>2. A!Send(m) /\ UNCHANGED <<next, watching, A!window, running, A!bus>>
    BY <1>2 DEF A!Lock
  <2>3. watching' \in {"starting", "on", "off"}
    BY <1>2, <2>2
  <2> HIDE DEF m
  <2> QED
    BY <1>1, <2>1, <2>2, <2>3, ToldHolds
<1>3. CASE watching # "on"
  <2>1. UNCHANGED <<next, arrived, watching, A!window, running, A!bus>>
    BY <1>3 DEF A!Lock
  <2>2. watching' \in {"starting", "off"}
    BY <1>3, <2>1 DEF CenterInv, Typed
  <2> QED
    BY <1>1, <2>1, <2>2, UntoldHolds
<1> QED
  BY <1>2, <1>3

LEMMA WatchLockHolds ==
    ASSUME CenterInv, A!WatchLock
    PROVE  CenterInv'
<1> DEFINE m == [do |-> "locked", locked |-> session]
<1>1. /\ A!Send(m) /\ UNCHANGED <<next, session, A!window, running, A!bus>> /\ watching' = "on"
  BY DEF A!WatchLock
<1>2. m \in Sendable /\ m.do = "locked" /\ m.locked = session' /\ session' \in BOOLEAN
  BY <1>1 DEF Sendable, CenterInv, Typed
<1> HIDE DEF m
<1> QED
  BY <1>1, <1>2, ToldHolds

LEMMA LockFailsHolds ==
    ASSUME CenterInv, A!LockFails
    PROVE  CenterInv'
<1>1. session' \in BOOLEAN
  BY DEF A!LockFails, CenterInv, Typed
<1> QED
  BY <1>1, UntoldHolds DEF A!LockFails

LEMMA PublishStateHolds ==
    ASSUME Roomy, CenterInv, A!PublishState
    PROVE  CenterInv'
<1> USE DEF A!window
<1>1. /\ updates # <<>> /\ updates' = Tail(updates) /\ hasItems' = Head(updates)
      /\ UNCHANGED <<next, arrived, session, watching, A!window, running, skipped>>
  BY DEF A!PublishState
<1>2. Typed' /\ Timed' /\ Newest' /\ Singly' /\ Covered'
  BY <1>1 DEF CenterInv, Typed, Timed, Newest, Singly, Covered
<1>3. Kept'
  BY <1>1 DEF CenterInv, Kept, Always
<1>4. Leaving'
  BY <1>1 DEF CenterInv, Leaving, Due, TimerOf
<1>5. Hears'
  BY <1>1 DEF CenterInv, Hears
<1>6. /\ updates \in Seq(BOOLEAN) /\ Len(updates) <= MaxQueued /\ skipped \in BOOLEAN
      /\ Len(updates) \in Nat /\ Len(updates) # 0
  BY <1>1 DEF CenterInv, Queued
<1>7. Queued'
  <2>1. hasItems' \in BOOLEAN /\ updates' \in Seq(BOOLEAN) /\ Len(updates') = Len(updates) - 1
    BY <1>1, <1>6
  <2>2. Len(updates') <= MaxQueued
    BY <1>6, <2>1 DEF Roomy
  <2> QED
    BY <1>1, <1>6, <2>1, <2>2 DEF Queued
<1>8. LatestSaid' = LatestSaid
  <2>1. CASE Len(updates) = 1
    <3>1. updates' = <<>> /\ hasItems' = updates[Len(updates)]
      BY <1>1, <1>6, <2>1
    <3> QED
      BY <1>1, <3>1 DEF LatestSaid
  <2>2. CASE Len(updates) # 1
    <3> DEFINE rest == Tail(updates)
    <3>1. Len(rest) = Len(updates) - 1 /\ rest # <<>> /\ Len(rest) >= 1
      <4>1. Len(rest) = Len(updates) - 1 /\ rest \in Seq(BOOLEAN)
        BY <1>6
      <4> HIDE DEF rest
      <4>2. Len(rest) >= 1
        BY <1>6, <2>2, <4>1
      <4> QED
        BY <4>1, <4>2, Len(<<>>) = 0
    <3>2. \A i \in 1..Len(rest) : rest[i] = updates[i + 1]
      BY <1>6
    <3>3. rest[Len(rest)] = updates[Len(updates)]
      <4> HIDE DEF rest
      <4> QED
        BY <1>6, <3>1, <3>2
    <3>4. updates' = rest
      BY <1>1
    <3> HIDE DEF rest
    <3> QED
      BY <1>1, <3>1, <3>3, <3>4 DEF LatestSaid
  <2> QED
    BY <2>1, <2>2
<1>9. Announced'
  BY <1>1, <1>8 DEF CenterInv, Announced
<1> QED
  BY <1>2, <1>3, <1>4, <1>5, <1>7, <1>9 DEF CenterInv

-----------------------------------------------------------------------------
(* The steps of the window.                                                *)

Handling ==
    /\ arrived # <<>> /\ arrived' = Tail(arrived)
    /\ UNCHANGED <<next, session, watching, hasItems, asks>>

LEMMA NextMessage ==
    ASSUME CenterInv, Handling
    PROVE  Head(arrived) \in Sendable /\ arrived' \in Seq(Sendable)
BY DEF CenterInv, Typed, Handling

LEMMA ShowHolds ==
    ASSUME Roomy, CenterInv, Handling, Head(arrived).do = "show", A!Show(Head(arrived))
    PROVE  CenterInv'
<1> DEFINE r == Head(arrived)
           n == [id |-> r.id, kind |-> r.kind, expires |-> r.expires,
                 generation |-> generation + 1]
<1>1. r \in Sendable /\ arrived' \in Seq(Sendable)
  BY NextMessage
<1>2. n \in Notification /\ n.id \in A!Ids /\ n.generation = generation + 1
  <2>1. r.id \in A!Ids /\ r.kind \in Kinds /\ r.expires \in BOOLEAN
    BY <1>1, Fields
  <2>2. generation + 1 \in Nat
    BY DEF CenterInv, Typed
  <2> HIDE DEF r
  <2> QED
    BY <2>1, <2>2 DEF Notification
<1>3. /\ generation' = generation + 1
      /\ owed' = {o \in owed : o.id # n.id} \cup {n}
      /\ UNCHANGED <<locked, opened>>
  BY DEF A!Show
<1>4. locked => A!Store(<<n>>, TRUE) /\ UNCHANGED <<popups, running>>
  BY DEF A!Show
<1>5. ~locked => /\ popups' = A!UpsertLatest(popups, n)
                 /\ running' = IF n.expires \/ A!ShouldStore(n, FALSE)
                              THEN running \cup {TimerOf(n)} ELSE running
                 /\ UNCHANGED <<center, updates, skipped>>
  BY DEF A!Show, TimerOf
<1> HIDE DEF n
<1>6. UNCHANGED <<next, session, watching, hasItems>> /\ arrived # <<>> /\ arrived' = Tail(arrived)
  BY DEF Handling
<1>7. Hears'
  BY <1>3, <1>6, HearsOn DEF CenterInv
<1>8. owed' \subseteq Notification
  BY <1>2, <1>3 DEF CenterInv, Typed
<1>9. TimerOf(n) \in Running
  BY <1>2, <1>3 DEF TimerOf, Running, CenterInv, Typed
<1>10. CASE locked
  <2>1. popups = <<>> /\ popups' = <<>> /\ A!ToSet(popups) = {}
    BY <1>4, <1>10, EmptyHas DEF CenterInv, Covered
  <2>2. <<n>> \in Seq(Notification) /\ A!Once(<<n>>) /\ A!ToSet(<<n>>) = {n}
    BY <1>2 DEF A!Once, A!ToSet
  <2>3. /\ Queued' /\ Announced'
        /\ center' \in Seq(Notification) /\ A!Once(center')
        /\ A!ToSet(center') = Storable(<<n>>, TRUE) \cup {m \in A!ToSet(center) :
                                  \A k \in Storable(<<n>>, TRUE) : k.id # m.id}
    BY <1>4, <1>6, <1>10, <2>2, StoreIs DEF CenterInv, Typed, Singly
  <2>4. Storable(<<n>>, TRUE) \subseteq {n} /\ (Always(n) => n \in Storable(<<n>>, TRUE))
    BY <2>2, Zenon DEF Storable, Always
  <2>5. Typed'
    BY <1>1, <1>3, <1>4, <1>6, <1>8, <1>10, <2>1, <2>3 DEF CenterInv, Typed
  <2>6. Timed'
    BY <1>3, <1>4, <1>10 DEF CenterInv, Typed, Timed
  <2>7. Newest' /\ Singly' /\ Covered' /\ Leaving'
    BY <2>1, <2>3, EmptyHas DEF Newest, Singly, Covered, Leaving
  <2>8. Kept'
    <3>1. ASSUME NEW o \in owed', Always(o) PROVE o \in A!ToSet(center')
      <4>1. CASE o = n
        BY <2>3, <2>4, <3>1, <4>1
      <4>2. CASE o # n
        <5>1. o \in owed /\ o.id # n.id
          BY <1>3, <4>2
        <5>2. o \in A!ToSet(center)
          BY <2>1, <3>1, <5>1 DEF CenterInv, Kept
        <5> QED
          BY <2>3, <2>4, <5>1, <5>2
      <4> QED
        BY <4>1, <4>2
    <3> QED
      BY <3>1 DEF Kept, Always
  <2> QED
    BY <1>7, <2>3, <2>5, <2>6, <2>7, <2>8 DEF CenterInv
<1>11. CASE ~locked
  <2>1. /\ popups' \in Seq(Notification) /\ A!Once(popups')
        /\ A!ToSet(popups') = {n} \cup {m \in A!ToSet(popups) : m.id # n.id}
    BY <1>2, <1>5, <1>11, UpsertIs DEF CenterInv, Typed, Singly
  <2>2. running \subseteq running' /\ running' \subseteq running \cup {TimerOf(n)}
        /\ (n.expires \/ A!ShouldStore(n, FALSE) => TimerOf(n) \in running')
    BY <1>5, <1>11
  <2>3. Typed'
    <3>1. running' \subseteq Running
      BY <1>9, <2>2 DEF CenterInv, Typed
    <3> QED
      BY <1>1, <1>3, <1>5, <1>6, <1>8, <1>11, <2>1, <3>1 DEF CenterInv, Typed
  <2>4. Timed'
    <3>1. TimerOf(n).generation = generation'
      BY <1>2, <1>3 DEF TimerOf
    <3> QED
      BY <1>3, <2>2, <3>1 DEF CenterInv, Typed, Timed
  <2>5. Newest'
    BY <1>3, <2>1 DEF CenterInv, Newest
  <2>6. Kept'
    <3>1. ASSUME NEW o \in owed', Always(o) PROVE o \in A!ToSet(popups') \cup A!ToSet(center')
      <4>1. CASE o = n
        BY <2>1, <4>1
      <4>2. CASE o # n
        <5>1. o \in owed /\ o.id # n.id
          BY <1>3, <4>2
        <5>2. o \in A!ToSet(popups) \cup A!ToSet(center)
          BY <3>1, <5>1 DEF CenterInv, Kept
        <5> QED
          BY <1>5, <1>11, <2>1, <5>1, <5>2
      <4> QED
        BY <4>1, <4>2
    <3> QED
      BY <3>1 DEF Kept, Always
  <2>7. Singly' /\ Covered'
    BY <1>3, <1>5, <1>11, <2>1 DEF CenterInv, Singly, Covered
  <2>8. Leaving'
    <3>1. ASSUME NEW m \in A!ToSet(popups') PROVE Due(m)'
      <4>1. CASE m = n
        BY <2>2, <4>1 DEF Due, TimerOf
      <4>2. CASE m # n
        <5>1. Due(m)
          BY <2>1, <4>2 DEF CenterInv, Leaving
        <5> QED
          BY <1>6, <2>2, <5>1, DueOn DEF CenterInv
      <4> QED
        BY <4>1, <4>2
    <3> QED
      BY <3>1 DEF Leaving
  <2>9. Queued' /\ Announced'
    BY <1>5, <1>6, <1>11 DEF CenterInv, Queued, Announced, LatestSaid
  <2> QED
    BY <1>7, <2>3, <2>4, <2>5, <2>6, <2>7, <2>8, <2>9 DEF CenterInv
<1> QED
  BY <1>10, <1>11

LEMMA WithoutIs ==
    ASSUME NEW S, NEW list \in Seq(S), A!Once(list), NEW id
    PROVE  /\ A!Without(list, id) \in Seq(S) /\ A!Once(A!Without(list, id))
           /\ A!ToSet(A!Without(list, id)) = {m \in A!ToSet(list) : m.id # id}
<1>1. A!ToSet(list) \cap {m \in A!ToSet(list) : m.id # id} = {m \in A!ToSet(list) : m.id # id}
  OBVIOUS
<1> QED
  BY <1>1, SelectedIs DEF A!Without

LEMMA CloseHolds ==
    ASSUME Roomy, CenterInv, Handling, Head(arrived).do = "close", A!Close(Head(arrived).id)
    PROVE  CenterInv'
<1> DEFINE id == Head(arrived).id
<1>1. /\ center' = A!Without(center, id) /\ popups' = A!Without(popups, id)
      /\ A!Publish(center', 1) /\ owed' = {o \in owed : o.id # id}
      /\ UNCHANGED <<locked, generation, opened, running>>
  BY DEF A!Close
<1> HIDE DEF id
<1>2. arrived # <<>> /\ arrived' = Tail(arrived) /\ UNCHANGED <<next, session, watching, hasItems>>
  BY DEF Handling
<1>3. /\ center' \in Seq(Notification) /\ A!Once(center')
      /\ A!ToSet(center') = {m \in A!ToSet(center) : m.id # id}
  BY <1>1, WithoutIs DEF CenterInv, Typed, Singly
<1>4. /\ popups' \in Seq(Notification) /\ A!Once(popups')
      /\ A!ToSet(popups') = {m \in A!ToSet(popups) : m.id # id}
  BY <1>1, WithoutIs DEF CenterInv, Typed, Singly
<1>5. Typed'
  BY <1>1, <1>2, <1>3, <1>4, NextMessage DEF CenterInv, Typed
<1>6. Timed'
  BY <1>1 DEF CenterInv, Timed
<1>7. Newest'
  BY <1>1, <1>4 DEF CenterInv, Newest
<1>8. Kept'
  <2>1. ASSUME NEW o \in owed', Always(o) PROVE o \in A!ToSet(popups') \cup A!ToSet(center')
    <3>1. o \in owed /\ o.id # id
      BY <1>1
    <3> QED
      BY <1>3, <1>4, <2>1, <3>1 DEF CenterInv, Kept
  <2> QED
    BY <2>1 DEF Kept, Always
<1>9. Singly'
  BY <1>3, <1>4 DEF Singly
<1>10. Covered'
  <2>1. ASSUME locked PROVE popups' = <<>>
    <3>1. A!ToSet(popups) = {}
      BY <2>1, EmptyHas DEF CenterInv, Covered
    <3>2. A!ToSet(popups') = {}
      BY <1>4, <3>1
    <3> QED
      BY <1>4, <3>2, NoneHas
  <2> QED
    BY <1>1, <2>1 DEF Covered
<1>11. Leaving'
  <2>1. ASSUME NEW m \in A!ToSet(popups') PROVE Due(m)'
    <3>1. Due(m)
      BY <1>4 DEF CenterInv, Leaving
    <3> QED
      BY <1>1, <1>2, <3>1, DueOn DEF CenterInv
  <2> QED
    BY <2>1 DEF Leaving
<1>12. Hears'
  BY <1>1, <1>2, HearsOn DEF CenterInv
<1>13. Queued' /\ Announced'
  <2>1. PICK c : c = center'
    OBVIOUS
  <2>2. A!Publish(c, 1)
    BY <1>1, <2>1
  <2>3. Queued' /\ (~skipped' => (LatestSaid' <=> c # <<>>))
    BY <1>2, <2>2, PublishIs DEF CenterInv
  <2> QED
    BY <2>1, <2>3 DEF Announced
<1> QED
  BY <1>5, <1>6, <1>7, <1>8, <1>9, <1>10, <1>11, <1>12, <1>13 DEF CenterInv

LEMMA AlwaysStored ==
    ASSUME NEW n, Always(n), NEW shut \in BOOLEAN
    PROVE  A!ShouldStore(n, shut)
<1>1. CASE shut = TRUE
  BY <1>1, Zenon DEF Always
<1>2. CASE shut = FALSE
  BY <1>2, Zenon DEF Always
<1> QED
  BY <1>1, <1>2

\* What an expired popup replaces in the center is no newer: it is owed itself.
LEMMA StoredStays ==
    ASSUME Typed, Newest, Kept, NEW shut \in BOOLEAN, NEW list,
           A!ToSet(list) \subseteq A!ToSet(popups),
           A!ToSet(center') = Storable(list, shut) \cup {m \in A!ToSet(center) :
                                \A k \in Storable(list, shut) : k.id # m.id},
           NEW o \in owed, Always(o), o \in A!ToSet(list) \/ o \in A!ToSet(center)
    PROVE  o \in A!ToSet(center')
<1>1. Storable(list, shut) \subseteq A!ToSet(popups)
  BY DEF Storable
<1>2. CASE o \in A!ToSet(list)
  <2>1. o \in Storable(list, shut)
    BY <1>2, AlwaysStored DEF Storable
  <2> QED
    BY <2>1
<1>3. CASE o \in A!ToSet(center)
  <2>1. ASSUME NEW k \in Storable(list, shut), k.id = o.id PROVE k = o
    BY <1>1, <2>1 DEF Newest
  <2> QED
    BY <1>3, <2>1
<1> QED
  BY <1>2, <1>3

LEMMA ExpirePopupHolds ==
    ASSUME Roomy, CenterInv, Handling, Head(arrived).do = "expire",
           A!ExpirePopup(Head(arrived).timer)
    PROVE  CenterInv'
<1> DEFINE t == Head(arrived).timer
           gone == {n \in A!ToSet(popups) : A!IsOf(n, t)}
           list == A!Selected(popups, gone)
<1>1. t \in Running
  BY NextMessage, Fields
<1>2. /\ popups' = A!Selected(popups, A!ToSet(popups) \ gone)
      /\ A!Store(list, locked)
      /\ UNCHANGED <<locked, generation, opened, owed, running>>
  BY DEF A!ExpirePopup
<1>3. \A n \in A!ToSet(popups) : TimerOf(n) = t => n \in gone
  BY DEF A!IsOf, TimerOf
<1>4. gone \subseteq A!ToSet(popups)
  OBVIOUS
<1> HIDE DEF gone
<1>5. arrived # <<>> /\ arrived' = Tail(arrived) /\ UNCHANGED <<next, session, watching, hasItems>>
  BY DEF Handling
<1>6. list \in Seq(Notification) /\ A!Once(list) /\ A!ToSet(list) = gone
  <2>1. A!ToSet(popups) \cap gone = gone
    BY <1>4
  <2> QED
    BY <2>1, SelectedIs DEF CenterInv, Typed, Singly
<1> HIDE DEF list
<1>7. /\ popups' \in Seq(Notification) /\ A!Once(popups')
        /\ A!ToSet(popups') = A!ToSet(popups) \ gone
  <2>1. A!ToSet(popups) \cap (A!ToSet(popups) \ gone) = A!ToSet(popups) \ gone
    OBVIOUS
  <2> QED
    BY <1>2, <2>1, SelectedIs DEF CenterInv, Typed, Singly
<1>8. /\ Queued' /\ Announced'
      /\ center' \in Seq(Notification) /\ A!Once(center')
      /\ A!ToSet(center') = Storable(list, locked) \cup {m \in A!ToSet(center) :
                                \A k \in Storable(list, locked) : k.id # m.id}
  BY <1>2, <1>5, <1>6, StoreIs DEF CenterInv, Typed, Singly
<1>9. Typed'
  BY <1>2, <1>5, <1>7, <1>8, NextMessage DEF CenterInv, Typed
<1>10. Timed'
  BY <1>2 DEF CenterInv, Timed
<1>11. Newest'
  BY <1>2, <1>7 DEF CenterInv, Newest
<1>12. Kept'
  <2>1. ASSUME NEW o \in owed, Always(o) PROVE o \in A!ToSet(popups') \cup A!ToSet(center')
    <3>1. o \in A!ToSet(popups) \cup A!ToSet(center)
      BY <2>1 DEF CenterInv, Kept
    <3>2. CASE o \in A!ToSet(popups) /\ o \notin gone
      BY <1>7, <3>2
    <3>3. CASE o \in gone \/ o \in A!ToSet(center)
      <4>1. locked \in BOOLEAN /\ Typed /\ Newest /\ Kept
        BY DEF CenterInv, Typed
      <4> QED
        BY <1>4, <1>6, <1>8, <2>1, <3>3, <4>1, StoredStays
    <3> QED
      BY <3>1, <3>2, <3>3
  <2> QED
    BY <1>2, <2>1 DEF Kept, Always
<1>13. Singly'
  BY <1>7, <1>8 DEF Singly
<1>14. Covered'
  <2>1. ASSUME locked PROVE popups' = <<>>
    <3>1. A!ToSet(popups) = {}
      BY <2>1, EmptyHas DEF CenterInv, Covered
    <3>2. A!ToSet(popups') = {}
      BY <1>7, <3>1
    <3> QED
      BY <1>7, <3>2, NoneHas
  <2> QED
    BY <1>2, <2>1 DEF Covered
<1>15. Leaving'
  <2>1. ASSUME NEW m \in A!ToSet(popups') PROVE Due(m)'
    <3>1. Due(m) /\ TimerOf(m) # t
      BY <1>3, <1>7 DEF CenterInv, Leaving
    <3>2. ~(Head(arrived).do = "expire" /\ Head(arrived).timer = TimerOf(m))
      BY <3>1
    <3> QED
      BY <1>2, <1>5, <3>1, <3>2, DueOn DEF CenterInv
  <2> QED
    BY <2>1 DEF Leaving
<1>16. Hears'
  BY <1>2, <1>5, HearsOn DEF CenterInv
<1> QED
  BY <1>8, <1>9, <1>10, <1>11, <1>12, <1>13, <1>14, <1>15, <1>16 DEF CenterInv

LEMMA Reversed ==
    ASSUME NEW S, NEW list \in Seq(S), A!Once(list)
    PROVE  A!Reverse(list) \in Seq(S) /\ A!Once(A!Reverse(list))
           /\ A!ToSet(A!Reverse(list)) = A!ToSet(list)
<1> DEFINE G == Len(list)
           back == [i \in 1..G |-> list[(G - i) + 1]]
<1>1. G \in Nat /\ DOMAIN list = 1..G
  OBVIOUS
<1>2. A!Reverse(list) = back
  BY DEF A!Reverse
<1>3. \A i \in 1..G : (G - i) + 1 \in 1..G /\ (G - ((G - i) + 1)) + 1 = i
  BY <1>1
<1>4. back \in Seq(S) /\ DOMAIN back = 1..G /\ \A i \in 1..G : back[i] = list[(G - i) + 1]
  BY <1>1, <1>3
<1> HIDE DEF back, G
<1>5. A!ToSet(back) = A!ToSet(list)
  <2>1. \A e \in A!ToSet(back) : e \in A!ToSet(list)
    BY <1>1, <1>3, <1>4 DEF A!ToSet
  <2>2. ASSUME NEW e \in A!ToSet(list) PROVE e \in A!ToSet(back)
    <3>1. PICK i \in 1..G : list[i] = e
      BY <1>1 DEF A!ToSet
    <3>2. (G - i) + 1 \in DOMAIN back /\ back[(G - i) + 1] = e
      BY <1>3, <1>4, <3>1
    <3> QED
      BY <3>2 DEF A!ToSet
  <2> QED
    BY <2>1, <2>2
<1>6. A!Once(back)
  <2>1. ASSUME NEW i \in 1..G, NEW j \in 1..G, back[i].id = back[j].id PROVE i = j
    <3>1. (G - i) + 1 = (G - j) + 1
      BY <1>1, <1>3, <1>4, <2>1 DEF A!Once
    <3> QED
      BY <1>1, <3>1
  <2> QED
    BY <1>4, <2>1 DEF A!Once
<1> QED
  BY <1>2, <1>4, <1>5, <1>6

LEMMA SetLockedHolds ==
    ASSUME Roomy, CenterInv, Handling, Head(arrived).do = "locked",
           A!SetLocked(Head(arrived).locked)
    PROVE  CenterInv'
<1> DEFINE l == Head(arrived).locked
<1>1. l \in BOOLEAN
  BY NextMessage, Fields
<1>2. arrived # <<>> /\ arrived' = Tail(arrived) /\ UNCHANGED <<next, session, watching, hasItems>>
  BY DEF Handling
<1>3. locked' = l /\ UNCHANGED <<generation, opened, owed, running>>
  BY DEF A!SetLocked
<1>4. l /\ ~locked => A!Store(A!Reverse(popups), TRUE) /\ popups' = <<>>
  BY DEF A!SetLocked
<1>5. ~(l /\ ~locked) => UNCHANGED <<center, popups, updates, skipped>>
  BY DEF A!SetLocked
<1>6. Hears'
  BY <1>2, <1>3, HearsLock DEF CenterInv
<1> HIDE DEF l
<1>7. Timed'
  BY <1>3 DEF CenterInv, Timed
<1>8. CASE l /\ ~locked
  <2> DEFINE list == A!Reverse(popups)
  <2>1. list \in Seq(Notification) /\ A!Once(list) /\ A!ToSet(list) = A!ToSet(popups)
    BY Reversed DEF CenterInv, Typed, Singly
  <2>2. A!Store(list, TRUE) /\ popups' = <<>>
    BY <1>4, <1>8
  <2> HIDE DEF list
  <2>3. /\ Queued' /\ Announced'
        /\ center' \in Seq(Notification) /\ A!Once(center')
        /\ A!ToSet(center') = Storable(list, TRUE) \cup {m \in A!ToSet(center) :
                                  \A k \in Storable(list, TRUE) : k.id # m.id}
    BY <1>2, <2>1, <2>2, StoreIs DEF CenterInv, Typed, Singly
  <2>4. Typed'
    BY <1>1, <1>2, <1>3, <2>2, <2>3, NextMessage, EmptyHas DEF CenterInv, Typed
  <2>5. Newest' /\ Singly' /\ Covered' /\ Leaving'
    BY <2>2, <2>3, EmptyHas DEF Newest, Singly, Covered, Leaving
  <2>6. Kept'
    <3>1. ASSUME NEW o \in owed, Always(o) PROVE o \in A!ToSet(center')
      <4>1. o \in A!ToSet(popups) \cup A!ToSet(center)
        BY <3>1 DEF CenterInv, Kept
      <4>2. PICK yes \in BOOLEAN : yes = TRUE
        OBVIOUS
      <4>3. A!ToSet(center') = Storable(list, yes) \cup {m \in A!ToSet(center) :
                                  \A k \in Storable(list, yes) : k.id # m.id}
        BY <2>3, <4>2, Zenon
      <4> QED
        BY <2>1, <3>1, <4>1, <4>3, StoredStays DEF CenterInv
    <3> QED
      BY <1>3, <3>1 DEF Kept, Always
  <2> QED
    BY <1>6, <1>7, <2>3, <2>4, <2>5, <2>6 DEF CenterInv
<1>9. CASE ~(l /\ ~locked)
  <2>1. UNCHANGED <<center, popups, updates, skipped>>
    BY <1>5, <1>9
  <2>2. Typed'
    BY <1>1, <1>2, <1>3, <2>1, NextMessage DEF CenterInv, Typed
  <2>3. Newest' /\ Singly'
    BY <1>3, <2>1 DEF CenterInv, Newest, Singly
  <2>4. Covered'
    BY <1>1, <1>3, <1>9, <2>1 DEF CenterInv, Covered
  <2>5. Kept'
    BY <1>3, <2>1 DEF CenterInv, Kept, Always
  <2>6. Leaving'
    <3>1. ASSUME NEW m \in A!ToSet(popups) PROVE Due(m)'
      <4>1. Due(m)
        BY DEF CenterInv, Leaving
      <4> QED
        BY <1>2, <1>3, <4>1, DueOn DEF CenterInv
    <3> QED
      BY <2>1, <3>1 DEF Leaving
  <2>7. Queued' /\ Announced'
    BY <1>2, <2>1 DEF CenterInv, Queued, Announced, LatestSaid
  <2> QED
    BY <1>6, <1>7, <2>2, <2>3, <2>4, <2>5, <2>6, <2>7 DEF CenterInv
<1> QED
  BY <1>8, <1>9

LEMMA ClearHolds ==
    ASSUME Roomy, CenterInv, Handling, Head(arrived).do = "clear", A!Clear
    PROVE  CenterInv'
<1>1. /\ center' = <<>> /\ popups' = <<>> /\ owed' = {} /\ A!Publish(<<>>, 1)
      /\ UNCHANGED <<locked, generation, opened, running>>
  BY DEF A!Clear
<1>2. arrived # <<>> /\ arrived' = Tail(arrived) /\ UNCHANGED <<next, session, watching, hasItems>>
  BY DEF Handling
<1>3. Typed'
  BY <1>1, <1>2, NextMessage, EmptyHas DEF CenterInv, Typed
<1>4. Timed' /\ Newest' /\ Kept' /\ Singly' /\ Covered' /\ Leaving'
  BY <1>1, EmptyHas DEF CenterInv, Timed, Newest, Kept, Singly, Covered, Leaving
<1>5. Hears'
  BY <1>1, <1>2, HearsOn DEF CenterInv
<1>6. Queued' /\ Announced'
  <2>1. PICK c : c = <<>>
    OBVIOUS
  <2>2. A!Publish(c, 1)
    BY <1>1, <2>1
  <2>3. Queued' /\ (~skipped' => (LatestSaid' <=> c # <<>>))
    BY <1>2, <2>2, PublishIs DEF CenterInv
  <2> QED
    BY <1>1, <2>1, <2>3 DEF Announced
<1> QED
  BY <1>3, <1>4, <1>5, <1>6 DEF CenterInv

LEMMA RequestHolds ==
    ASSUME CenterInv, Handling, Head(arrived).do \in {"toggle", "set"}, NEW show \in BOOLEAN,
           A!Request(show)
    PROVE  CenterInv'
<1>1. opened' \in BOOLEAN
      /\ UNCHANGED <<locked, generation, popups, center, owed, updates, skipped, running>>
  BY DEF A!Request
<1>2. arrived # <<>> /\ arrived' = Tail(arrived) /\ UNCHANGED <<next, session, watching, hasItems>>
  BY DEF Handling
<1>3. Typed'
  BY <1>1, <1>2, NextMessage DEF CenterInv, Typed
<1>4. Timed' /\ Newest' /\ Singly' /\ Covered'
  BY <1>1 DEF CenterInv, Timed, Newest, Singly, Covered
<1>5. Kept'
  BY <1>1 DEF CenterInv, Kept, Always
<1>6. Leaving'
  <2>1. ASSUME NEW m \in A!ToSet(popups) PROVE Due(m)'
    <3>1. Due(m)
      BY DEF CenterInv, Leaving
    <3> QED
      BY <1>1, <1>2, <3>1, DueOn DEF CenterInv
  <2> QED
    BY <1>1, <2>1 DEF Leaving
<1>7. Hears'
  BY <1>1, <1>2, HearsOn DEF CenterInv
<1>8. Queued' /\ Announced'
  BY <1>1, <1>2 DEF CenterInv, Queued, Announced, LatestSaid
<1> QED
  BY <1>3, <1>4, <1>5, <1>6, <1>7, <1>8 DEF CenterInv

-----------------------------------------------------------------------------
LEMMA CenterInitHolds == ASSUME Roomy, A!Init PROVE CenterInv
<1> USE DEF A!Init
<1>1. Typed
  <2>1. locked \in BOOLEAN /\ opened \in BOOLEAN /\ session \in BOOLEAN
    OBVIOUS
  <2>2. arrived \in Seq(Sendable) /\ popups \in Seq(Notification) /\ center \in Seq(Notification)
    BY EmptyHas
  <2>3. next \in A!Ids
    BY DEF A!Ids, Roomy
  <2> QED
    BY <2>1, <2>2, <2>3 DEF Typed
<1>2. Timed /\ Newest /\ Kept /\ Singly /\ Covered /\ Leaving
  BY EmptyHas DEF Timed, Newest, Kept, Singly, Covered, Leaving
<1>3. Hears
  BY DEF Hears
<1>4. Queued /\ Announced
  <2>1. updates \in Seq(BOOLEAN) /\ Len(updates) = 0
    BY EmptyHas
  <2>2. hasItems \in BOOLEAN /\ skipped \in BOOLEAN
    OBVIOUS
  <2>3. Queued
    BY <2>1, <2>2 DEF Queued, Roomy
  <2>4. LatestSaid = FALSE /\ center = <<>>
    BY DEF LatestSaid
  <2> QED
    BY <2>3, <2>4, Zenon DEF Announced
<1> QED
  BY <1>1, <1>2, <1>3, <1>4 DEF CenterInv

LEMMA HandleHolds == ASSUME Roomy, CenterInv, A!Handle PROVE CenterInv'
<1> DEFINE m == Head(arrived)
<1>1. Handling
  BY DEF A!Handle, Handling
<1>2. m \in Sendable
  BY <1>1, NextMessage
<1>3. CASE m.do = "show" /\ A!Show(m)
  BY <1>1, <1>3, ShowHolds
<1>4. CASE m.do = "close" /\ A!Close(m.id)
  BY <1>1, <1>4, CloseHolds
<1>5. CASE m.do = "expire" /\ A!ExpirePopup(m.timer)
  BY <1>1, <1>5, ExpirePopupHolds
<1>6. CASE m.do = "locked" /\ A!SetLocked(m.locked)
  BY <1>1, <1>6, SetLockedHolds
<1>7. CASE m.do = "clear" /\ A!Clear
  BY <1>1, <1>7, ClearHolds
<1>8. CASE m.do = "toggle" /\ A!Request(~opened)
  <2>1. (~opened) \in BOOLEAN
    BY DEF CenterInv, Typed
  <2> QED
    BY <1>1, <1>8, <2>1, RequestHolds
<1>9. CASE m.do = "set" /\ A!Request(m.visible)
  <2>1. m.visible \in BOOLEAN
    BY <1>2, <1>9, Fields
  <2> QED
    BY <1>1, <1>9, <2>1, RequestHolds
<1> QED
  BY <1>3, <1>4, <1>5, <1>6, <1>7, <1>8, <1>9 DEF A!Handle

LEMMA CenterNextHolds == ASSUME Roomy, CenterInv, [A!Next]_(A!vars) PROVE CenterInv'
<1>1. CASE A!Handle
  BY <1>1, HandleHolds
<1>2. ASSUME NEW replaces \in A!Ids \cup {0}, NEW kind \in Kinds, NEW expires \in BOOLEAN,
             A!Notify(replaces, kind, expires)
      PROVE  CenterInv'
  BY <1>2, NotifyHolds
<1>3. CASE A!CloseNotification
  <2>1. PICK id \in A!Ids : A!Sent([do |-> "close", id |-> id])
    BY <1>3 DEF A!CloseNotification
  <2>2. [do |-> "close", id |-> id] \in Sendable
    BY DEF Sendable
  <2> QED
    BY <2>1, <2>2, AskedHolds
<1>4. CASE A!ClearClicked
  <2>1. [do |-> "clear"] \in Sendable
    BY DEF Sendable
  <2> QED
    BY <1>4, <2>1, AskedHolds DEF A!ClearClicked
<1>5. CASE A!Requested
  <2>1. [do |-> "toggle"] \in Sendable
    BY DEF Sendable
  <2>2. CASE A!Sent([do |-> "toggle"])
    BY <2>1, <2>2, AskedHolds
  <2>3. ASSUME NEW show \in BOOLEAN, A!Sent([do |-> "set", visible |-> show]) PROVE CenterInv'
    <3>1. [do |-> "set", visible |-> show] \in Sendable
      BY DEF Sendable
    <3> QED
      BY <2>3, <3>1, AskedHolds
  <2> QED
    BY <1>5, <2>2, <2>3 DEF A!Requested
<1>6. ASSUME NEW t \in running, A!Expire(t) PROVE CenterInv'
  BY <1>6, ExpireHolds
<1>7. CASE A!Lock
  BY <1>7, LockHolds
<1>8. CASE A!WatchLock
  BY <1>8, WatchLockHolds
<1>9. CASE A!LockFails
  BY <1>9, LockFailsHolds
<1>10. CASE A!PublishState
  BY <1>10, PublishStateHolds
<1>11. CASE UNCHANGED A!vars
  <2>1. UNCHANGED <<next, arrived, session, watching, A!window, running, A!bus>>
    BY <1>11 DEF A!vars
  <2>2. Typed'
    BY <2>1 DEF CenterInv, Typed, A!window
  <2>3. Leaving'
    BY <2>1 DEF CenterInv, Leaving, Due, TimerOf, A!window
  <2>4. Hears'
    BY <2>1 DEF CenterInv, Hears, A!window
  <2> QED
    BY <2>1, <2>2, <2>3, <2>4, SameWindow DEF CenterInv
<1> QED
  BY <1>1, <1>2, <1>3, <1>4, <1>5, <1>6, <1>7, <1>8, <1>9, <1>10, <1>11 DEF A!Next

LEMMA KeptShows == ASSUME CenterInv PROVE A!KeptStays
<1>1. ASSUME NEW n \in owed, Always(n) PROVE A!Has(popups, n) \/ A!Has(center, n)
  BY <1>1 DEF CenterInv, Kept, A!Has, A!ToSet
<1> QED
  BY <1>1 DEF A!KeptStays, Always, CenterInv, Singly

LEMMA PopupsLeave == ASSUME CenterInv PROVE A!PopupsGo
<1>1. ASSUME NEW i \in DOMAIN popups PROVE Due(popups[i])
  BY DEF CenterInv, Leaving, A!ToSet
<1> QED
  BY <1>1 DEF A!PopupsGo, Due, TimerOf, CenterInv, Covered

LEMMA LockHeard == ASSUME CenterInv PROVE A!LockFollows
<1>1. SUFFICES ASSUME arrived = <<>>, watching = "on" PROVE locked = session
  BY DEF A!LockFollows
<1>2. DOMAIN arrived = {}
  BY <1>1
<1>3. locked <=> session
  BY <1>1, <1>2 DEF CenterInv, Hears
<1> QED
  BY <1>3 DEF CenterInv, Typed

LEMMA ItemsSaid == ASSUME CenterInv PROVE A!HasItemsFollows
<1>1. SUFFICES ASSUME updates = <<>>, ~skipped PROVE hasItems = (center # <<>>)
  BY DEF A!HasItemsFollows
<1>2. hasItems <=> center # <<>>
  BY <1>1 DEF CenterInv, Announced, LatestSaid
<1> QED
  BY <1>2 DEF CenterInv, Queued

LEMMA TypesShow == ASSUME CenterInv PROVE A!TypeOK
<1>1. \A n \in owed : n.id \in A!Ids /\ n.kind \in Kinds
  BY DEF CenterInv, Typed, Notification
<1> QED
  BY <1>1 DEF CenterInv, Typed, Timed, Queued, A!TypeOK

(* The invariant of the notifications holds throughout.                    *)
THEOREM CenterInvariant == ASSUME Roomy PROVE A!Spec => []CenterInv
<1>1. A!Init => CenterInv
  BY CenterInitHolds
<1>2. CenterInv /\ [A!Next]_(A!vars) => CenterInv'
  BY CenterNextHolds
<1> QED
  BY <1>1, <1>2, PTL DEF A!Spec

(* Whatever expires, is locked or is replaced meanwhile, a notification    *)
(* that the policy keeps in any case is in its popup or in the center,     *)
(* until it is closed, cleared or replaced (store_notification).           *)
THEOREM KeptNotificationsStay == ASSUME Roomy PROVE A!Spec => []A!KeptStays
BY CenterInvariant, KeptShows, PTL

(* A locked session shows no popup, and one that should go has its timer   *)
(* or the message that closes it (show_notification, expire_popup).        *)
THEOREM PopupsExpire == ASSUME Roomy PROVE A!Spec => []A!PopupsGo
BY CenterInvariant, PopupsLeave, PTL

(* Once all is handled the window knows whether the session is locked,     *)
(* while it is told (spawn_session_lock_subscription).                     *)
THEOREM LockIsHeard == ASSUME Roomy PROVE A!Spec => []A!LockFollows
BY CenterInvariant, LockHeard, PTL

(* Once the updates are through, HasItems says whether the center has any, *)
(* unless the latest was dropped (publish_has_items).                      *)
THEOREM ItemsAreSaid == ASSUME Roomy PROVE A!Spec => []A!HasItemsFollows
BY CenterInvariant, ItemsSaid, PTL

(* Type correctness of the notifications.                                  *)
THEOREM CenterTypes == ASSUME Roomy PROVE A!Spec => []A!TypeOK
BY CenterInvariant, TypesShow, PTL

-----------------------------------------------------------------------------
(* The run: each component does what its theorems say of it, whichever of  *)
(* them a behaviour is one of.                                             *)

LEMMA RunsNamer == MCSpec => N!Spec
<1>1. [MCNext]_all => [N!Next]_(N!vars)
  BY DEF MCNext, all, naming, N!vars
<1> QED
  BY <1>1, PTL DEF MCSpec, MCInit, N!Spec

(* In the run that names the workspaces among others, the focused one has  *)
(* the name that is shown (namer.rs).                                      *)
THEOREM RunNamesFollow == ASSUME NoneApart PROVE MCSpec => []NamesFollow
BY RunsNamer, NamesFollowDesktop, PTL DEF NamesFollow

LEMMA RunsLauncher == MCSpec => L!Spec
<1>1. [MCNext]_all => [L!Next]_(L!vars)
  BY DEF MCNext, all, launcher, L!vars, L!request, L!searches, L!list, L!window, L!daemon
<1> QED
  BY <1>1, PTL DEF MCSpec, MCInit, L!Spec

(* In the run that serves the launcher among others, the launcher lists    *)
(* what was asked for and executes what it lists (launcher/rsynapse-ui).   *)
THEOREM RunLauncherServes == ASSUME Numbered PROVE MCSpec => []LauncherServes
BY RunsLauncher, LauncherTypes, ListIsWhatWasAskedFor, WindowIsAsAsked, ChoiceIsExecuted, PTL
DEF LauncherServes

LEMMA RunsNotifications == MCSpec => A!Spec
<1>1. [MCNext]_all => [A!Next]_(A!vars)
  BY DEF MCNext, all, notifications, A!vars, A!window, A!bus
<1> QED
  BY <1>1, PTL DEF MCSpec, MCInit, A!Spec

(* In the run that takes notifications among others, none that is to be    *)
(* kept is lost, no popup outlives its timer or the lock, and HasItems and *)
(* the lock are followed (app/src/widgets/notifications).                  *)
THEOREM RunNotificationsKept == ASSUME Roomy PROVE MCSpec => []NotificationsKept
BY RunsNotifications, CenterTypes, KeptNotificationsStay, PopupsExpire, ItemsAreSaid,
   LockIsHeard, PTL DEF NotificationsKept
=============================================================================
