------------------------- MODULE ProjectBindings_proofs -------------------------
(***************************************************************************)
(* The safety of ProjectBindings for every set of workspaces, paths and    *)
(* callers and every bound.  IInv is inductive; its parts are proved one   *)
(* by one, each from those before it.                                      *)
(***************************************************************************)
EXTENDS MCLive, TLAPS, FiniteSetTheorems, SequenceTheorems

USE DEF Free, Main

\* What one caller does, and what everyone else does.
CallStep(c) ==
    \/ \E op \in Ops, w \in Workspaces, t \in Paths : Arrive(c, op, w, t)
    \/ Acquire(c)
    \/ Check(c, "check", "register") \/ Register(c) \/ Check(c, "recheck", "write")
    \/ Write(c)
    \/ ListBindings(c) \/ Unset(c)
    \/ Fail(c)

OtherStep ==
    \/ \E p \in projects : Remove(p)
    \/ Relist \/ TakeRemoved \/ TakeProjects \/ Adopt \/ MainLock \/ MainUnset \/ Done

LEMMA Actions == Next => OtherStep \/ \E c \in Callers : CallStep(c)
BY DEF Next, Work, MainLoop, CallStep, OtherStep

\* A binding written for a typed workspace, path and identity is a Binding.
LEMMA WrittenTyped ==
    ASSUME NEW w \in Workspaces, NEW t \in Paths, NEW i \in 1..MaxIds,
           NEW who \in {"call", "main"}
    PROVE  Written(w, t, i, who) \in Binding
BY DEF Written, Binding

\* A call that is replaced by a typed call leaves calls typed.
LEMMA CallReplaced ==
    ASSUME TypeOK, NEW c \in Callers, NEW q \in Call, calls' = [calls EXCEPT ![c] = q]
    PROVE  calls' \in [Callers -> Call]
BY DEF TypeOK

\* set_one on one-per-workspace records leaves one per workspace.
LEMMA SetOneKeepsOne ==
    ASSUME SingleProject, NEW x, SetOne(x)
    PROVE  SingleProject'
BY DEF SingleProject, SetOne, BindingsOf

LEMMA InitHolds == Init => IInv
<1> SUFFICES ASSUME Init PROVE IInv
  OBVIOUS
<1>1. TypeOK
  <2>1. Quiet \in Call
    BY BoundsAssumption DEF Quiet, Call, Ops
  <2>2. main \in [pc : {"idle", "walk", "unset"}, todo : SUBSET Binding,
                  doomed : SUBSET Workspaces, known : SUBSET Project]
    BY DEF Init, AtRest
  <2>3. changed \in BOOLEAN
    BY DEF Init
  <2>4. news \in Seq(SUBSET Project)
    BY DEF Init
  <2>5. calls \in [Callers -> Call]
    BY <2>1 DEF Init
  <2>6. /\ lock \in Callers \cup {Main, Free}
        /\ projects \subseteq Project /\ lastId \in 0..MaxIds
        /\ records \subseteq Binding /\ made \in Nat
        /\ events \subseteq Project /\ listed \subseteq Project
    BY BoundsAssumption DEF Init
  <2> QED
    BY <2>2, <2>3, <2>4, <2>5, <2>6 DEF TypeOK
<1>2. SingleProject /\ Exclusive /\ Resolved /\ OneWorkspace /\ InitSawNothing
  BY DEF Init, SingleProject, Exclusive, Resolved, OneWorkspace, InitSawNothing, Quiet, AtRest
<1> QED
  BY <1>1, <1>2 DEF IInv

-----------------------------------------------------------------------------
(* Type correctness needs that a call that writes knows its project.       *)

LEMMA TypeStep ==
    ASSUME TypeOK, Resolved, [Next]_vars
    PROVE  TypeOK'
<1> USE BoundsAssumption
<1>1. CASE UNCHANGED vars
  BY <1>1 DEF vars, TypeOK
<1>2. ASSUME NEW c \in Callers, NEW op \in Ops, NEW w \in Workspaces, NEW t \in Paths,
             Arrive(c, op, w, t)
      PROVE  TypeOK'
  <2>1. [pc |-> "lock", op |-> op, ws |-> {w}, path |-> {t}, id |-> 0, rows |-> {}] \in Call
    BY DEF Call
  <2>2. calls' \in [Callers -> Call]
    BY <1>2, <2>1, CallReplaced DEF Arrive
  <2>3. made' \in Nat
    BY <1>2 DEF Arrive, TypeOK
  <2> QED
    BY <1>2, <2>2, <2>3 DEF Arrive, TypeOK, projd, stream
<1>3. ASSUME NEW c \in Callers, Acquire(c)
      PROVE  TypeOK'
  <2>1. calls[c].op \in Ops
    BY DEF TypeOK, Call
  <2>2. \E pc \in {"check", "register", "list"} : calls' = [calls EXCEPT ![c].pc = pc]
    BY <1>3, <2>1 DEF Acquire, Goto, Ops
  <2>3. calls' \in [Callers -> Call]
    <3> PICK pc \in {"check", "register", "list"} : calls' = [calls EXCEPT ![c].pc = pc]
      BY <2>2
    <3>1. calls[c] \in Call
      BY DEF TypeOK
    <3>2. [calls[c] EXCEPT !.pc = pc] \in Call
      BY <3>1 DEF Call
    <3> QED
      BY <3>2, CallReplaced
  <2> QED
    BY <1>3, <2>3 DEF Acquire, TypeOK, projd, stream
<1>4. ASSUME NEW c \in Callers, Return(c)
      PROVE  calls' \in [Callers -> Call] /\ lock' \in Callers \cup {Main, Free}
  <2>1. Quiet \in Call
    BY DEF Quiet, Call, Ops
  <2> QED
    BY <1>4, <2>1 DEF Return, TypeOK
<1>5. ASSUME NEW c \in Callers, NEW now, NEW then \in {"register", "write"},
             Check(c, now, then)
      PROVE  TypeOK'
  <2>1. CASE Return(c)
    BY <1>4, <1>5, <2>1 DEF Check, TypeOK, projd, stream
  <2>2. CASE Goto(c, then) /\ UNCHANGED lock
    <3>1. calls' \in [Callers -> Call]
      BY <2>2 DEF Goto, TypeOK, Call
    <3> QED
      BY <1>5, <2>2, <3>1 DEF Check, TypeOK, projd, stream
  <2> QED
    BY <1>5, <2>1, <2>2 DEF Check
<1>6. ASSUME NEW c \in Callers, Register(c)
      PROVE  TypeOK'
  <2> DEFINE then == IF calls[c].op = "init" THEN "recheck" ELSE "write"
  <2> PICK t \in calls[c].path, i \in 1..MaxIds :
        /\ Registered(t, i)
        /\ calls' = [calls EXCEPT ![c] = [@ EXCEPT !.id = i, !.pc = then]]
    BY <1>6 DEF Register
  <2>1. calls' \in [Callers -> Call]
    <3>1. calls[c] \in Call
      BY DEF TypeOK
    <3>2. i \in 0..MaxIds /\ then \in {"recheck", "write"}
      OBVIOUS
    <3>3. [calls[c] EXCEPT !.id = i, !.pc = then] \in Call
      BY <3>1, <3>2 DEF Call
    <3>4. calls' = [calls EXCEPT ![c] = [calls[c] EXCEPT !.id = i, !.pc = then]]
      BY DEF TypeOK
    <3> HIDE DEF then
    <3> QED
      BY <3>3, <3>4, CallReplaced
  <2>2. t \in Paths
    BY DEF TypeOK, Call
  <2>3. projects' \subseteq Project /\ lastId' \in 0..MaxIds
    BY <2>2 DEF Registered, TypeOK, Project, projd
  <2> QED
    BY <1>6, <2>1, <2>3 DEF Register, TypeOK
<1>7. ASSUME NEW c \in Callers, Write(c)
      PROVE  TypeOK'
  <2> PICK w \in calls[c].ws, t \in calls[c].path : SetOne(Written(w, t, calls[c].id, "call"))
    BY <1>7 DEF Write
  <2>1. w \in Workspaces /\ t \in Paths /\ calls[c].id \in 1..MaxIds
    BY <1>7 DEF TypeOK, Call, Write, Resolved
  <2>2. records' \subseteq Binding
    BY <2>1, WrittenTyped DEF SetOne, TypeOK
  <2> QED
    BY <1>4, <1>7, <2>2 DEF Write, TypeOK, projd, stream
<1>8. ASSUME NEW c \in Callers, ListBindings(c)
      PROVE  TypeOK'
  <2>1. UNION {BindingsOf(w) : w \in calls[c].ws} \subseteq Binding
    BY DEF BindingsOf, TypeOK
  <2>2. [calls[c] EXCEPT !.pc = "unset", !.rows = UNION {BindingsOf(w) : w \in calls[c].ws}]
            \in Call
    <3>1. calls[c] \in Call
      BY DEF TypeOK
    <3> QED
      BY <2>1, <3>1 DEF Call
  <2>3. calls' \in [Callers -> Call]
    BY <1>8, <2>2, CallReplaced DEF ListBindings
  <2> QED
    BY <1>8, <2>3 DEF ListBindings, TypeOK, projd, stream
<1>9. ASSUME NEW c \in Callers, Unset(c)
      PROVE  TypeOK'
  <2>1. CASE calls[c].rows = {} /\ Return(c) /\ UNCHANGED records
    BY <1>4, <1>9, <2>1 DEF Unset, TypeOK, projd, stream
  <2>2. CASE UNCHANGED lock /\ \E x \in calls[c].rows :
                /\ records' = {y \in records : y.ws # x.ws \/ y.target # x.target}
                /\ calls' = [calls EXCEPT ![c] = [@ EXCEPT !.rows = calls[c].rows \ {x}]]
    <3>1. calls' \in [Callers -> Call]
      <4> PICK x : calls' = [calls EXCEPT ![c] = [calls[c] EXCEPT !.rows = calls[c].rows \ {x}]]
        BY <2>2
      <4>1. calls[c] \in Call
        BY DEF TypeOK
      <4>2. [calls[c] EXCEPT !.rows = calls[c].rows \ {x}] \in Call
        BY <4>1 DEF Call
      <4> QED
        BY <4>2, CallReplaced
    <3>2. records' \subseteq Binding
      BY <2>2 DEF TypeOK
    <3> QED
      BY <1>9, <2>2, <3>1, <3>2 DEF Unset, TypeOK, projd, stream
  <2> QED
    BY <1>9, <2>1, <2>2 DEF Unset
<1>10. ASSUME NEW c \in Callers, Fail(c)
       PROVE  TypeOK'
  BY <1>4, <1>10 DEF Fail, TypeOK, projd, stream
<1>11. ASSUME NEW p \in projects, Remove(p)
       PROVE  TypeOK'
  BY <1>11 DEF Remove, TypeOK
<1>12. CASE Relist
  <2>1. news' \in Seq(SUBSET Project)
    BY <1>12 DEF Relist, TypeOK
  <2> QED
    BY <1>12, <2>1 DEF Relist, TypeOK, projd
<1>13. CASE TakeRemoved
  <2> PICK p \in events :
        /\ events' = events \ {p}
        /\ main' = [AtRest EXCEPT
                        !.pc = "walk",
                        !.doomed = {x.ws : x \in {y \in records :
                                        y.project = p.id \/ y.target = p.path}}]
    BY <1>13 DEF TakeRemoved
  <2>1. {x.ws : x \in {y \in records : y.project = p.id \/ y.target = p.path}}
            \subseteq Workspaces
    BY DEF TypeOK, Binding
  <2> QED
    BY <1>13, <2>1 DEF TakeRemoved, TypeOK, AtRest, projd
<1>14. CASE TakeProjects
  <2>1. Head(news) \subseteq Project /\ Tail(news) \in Seq(SUBSET Project)
    BY <1>14 DEF TakeProjects, TypeOK
  <2> QED
    BY <1>14, <2>1 DEF TakeProjects, TypeOK, AtRest, projd
<1>15. CASE Adopt
  <2> PICK x \in main.todo :
        LET linked == {p \in main.known : p.path = x.target}
            moved == {p \in linked : p.id # x.project}
        IN  /\ IF moved = {}
               THEN UNCHANGED records
               ELSE \E p \in moved : SetOne(Written(x.ws, x.target, p.id, "main"))
            /\ main' = [main EXCEPT
                            !.todo = @ \ {x},
                            !.doomed = IF linked = {} /\ x.project \notin
                                                {p.id : p \in main.known}
                                       THEN {x.ws} ELSE {}]
    BY <1>15 DEF Adopt
  <2>1. x.ws \in Workspaces /\ x.target \in Paths
    BY DEF TypeOK, Binding
  <2>2. \A p \in main.known : p.id \in 1..MaxIds
    BY DEF TypeOK, Project
  <2>3. records' \subseteq Binding
    BY <2>1, <2>2, WrittenTyped DEF SetOne, TypeOK
  <2> QED
    BY <1>15, <2>1, <2>3 DEF Adopt, TypeOK, projd, stream
<1>16. CASE MainLock
  BY <1>16 DEF MainLock, TypeOK, projd, stream
<1>17. CASE MainUnset
  BY <1>17 DEF MainUnset, TypeOK, projd, stream
<1>18. CASE Done
  BY <1>18 DEF Done, TypeOK, AtRest, projd, stream
<1> QED
  BY <1>1, <1>2, <1>3, <1>5, <1>6, <1>7, <1>8, <1>9, <1>10, <1>11, <1>12, <1>13, <1>14,
     <1>15, <1>16, <1>17, <1>18, Actions DEF CallStep, OtherStep

-----------------------------------------------------------------------------
(* The rest of the invariant.  First, what a step of one caller leaves of   *)
(* the others, and where it leaves the caller.                              *)

LEMMA OthersKeep ==
    ASSUME TypeOK, NEW c \in Callers, CallStep(c)
    PROVE  /\ \A e \in Callers \ {c} : calls'[e] = calls[e]
           /\ UNCHANGED main
<1>1. \E q : calls' = [calls EXCEPT ![c] = q]
  <2> USE DEF TypeOK
  <2>1. CASE \E op \in Ops, w \in Workspaces, t \in Paths : Arrive(c, op, w, t)
    BY <2>1 DEF Arrive
  <2>2. ASSUME NEW pc, Goto(c, pc) PROVE \E q : calls' = [calls EXCEPT ![c] = q]
    <3>1. calls' = [calls EXCEPT ![c] = [calls[c] EXCEPT !.pc = pc]]
      BY <2>2 DEF Goto
    <3> QED
      BY <3>1
  <2>3. CASE Acquire(c)
    BY <2>2, <2>3 DEF Acquire
  <2>4. CASE Check(c, "check", "register")
    BY <2>2, <2>4 DEF Check, Return
  <2>5. CASE Check(c, "recheck", "write")
    BY <2>2, <2>5 DEF Check, Return
  <2>6. CASE Register(c)
    BY <2>6 DEF Register
  <2>7. CASE Write(c)
    BY <2>7 DEF Write, Return
  <2>8. CASE ListBindings(c)
    BY <2>8 DEF ListBindings
  <2>9. CASE Unset(c)
    BY <2>9 DEF Unset, Return
  <2>10. CASE Fail(c)
    BY <2>10 DEF Fail, Return
  <2> QED
    BY <2>1, <2>3, <2>4, <2>5, <2>6, <2>7, <2>8, <2>9, <2>10 DEF CallStep
<1>2. UNCHANGED main
  BY DEF CallStep, Arrive, Acquire, Check, Register, Write, ListBindings, Unset, Fail
<1> QED
  BY <1>1, <1>2 DEF TypeOK

LEMMA CallsKept == OtherStep => UNCHANGED calls
BY DEF OtherStep, Remove, Relist, TakeRemoved, TakeProjects, Adopt, MainLock, MainUnset, Done

\* The caller of a step has the lock before the step, or takes it, or needs none.
LEMMA CallerLock ==
    ASSUME TypeOK, Exclusive, NEW c \in Callers, CallStep(c)
    PROVE  /\ calls'[c].pc \notin {"idle", "lock"} => lock' = c
           /\ lock' # lock => lock \in {c, Free} /\ lock' \in {c, Free}
<1> USE CallersAssumption DEF TypeOK
<1>1. CASE \E op \in Ops, w \in Workspaces, t \in Paths : Arrive(c, op, w, t)
  BY <1>1 DEF Arrive
<1>2. CASE Acquire(c)
  BY <1>2 DEF Acquire
<1>3. Return(c) => /\ calls'[c].pc = "idle"
                   /\ lock' # lock => lock = c /\ lock' = Free
  BY DEF Return, Quiet
<1>4. CASE Check(c, "check", "register")
  BY <1>3, <1>4 DEF Check, Exclusive, Goto
<1>5. CASE Check(c, "recheck", "write")
  BY <1>3, <1>5 DEF Check, Exclusive, Goto
<1>6. CASE Register(c)
  BY <1>6 DEF Register, Exclusive
<1>7. CASE Write(c)
  BY <1>3, <1>7 DEF Write
<1>8. CASE ListBindings(c)
  BY <1>8 DEF ListBindings, Exclusive
<1>9. CASE Unset(c)
  BY <1>3, <1>9 DEF Unset, Exclusive
<1>10. CASE Fail(c)
  BY <1>3, <1>10 DEF Fail
<1> QED
  BY <1>1, <1>2, <1>4, <1>5, <1>6, <1>7, <1>8, <1>9, <1>10 DEF CallStep

LEMMA ExclusiveStep ==
    ASSUME TypeOK, Exclusive, [Next]_vars
    PROVE  Exclusive'
<1> USE CallersAssumption
<1>1. CASE UNCHANGED vars
  BY <1>1 DEF vars, Exclusive
<1>2. ASSUME NEW c \in Callers, CallStep(c) PROVE Exclusive'
  <2>1. ASSUME NEW e \in Callers, calls'[e].pc \notin {"idle", "lock"}
        PROVE  lock' = e
    <3>1. CASE e = c
      BY <1>2, <2>1, <3>1, CallerLock
    <3>2. CASE e # c
      <4>1. lock = e
        BY <1>2, <2>1, <3>2, OthersKeep DEF Exclusive
      <4> QED
        BY <1>2, <3>2, <4>1, CallerLock
    <3> QED
      BY <3>1, <3>2
  <2>2. main'.pc = "unset" => lock' = Main
    BY <1>2, OthersKeep, CallerLock DEF Exclusive
  <2> QED
    BY <2>1, <2>2 DEF Exclusive
<1>3. CASE OtherStep
  <2>1. UNCHANGED calls
    BY <1>3, CallsKept
  <2>2. CASE MainLock
    BY <2>1, <2>2 DEF MainLock, Exclusive, TypeOK
  <2>3. CASE MainUnset
    BY <2>1, <2>3 DEF MainUnset, Exclusive, TypeOK
  <2>4. CASE TakeRemoved \/ TakeProjects \/ Adopt \/ Done
    <3>1. UNCHANGED lock
      BY <2>4 DEF TakeRemoved, TakeProjects, Adopt, Done
    <3>2. CASE TakeRemoved
      BY <2>1, <3>1, <3>2 DEF TakeRemoved, AtRest, Exclusive
    <3>3. CASE TakeProjects
      BY <2>1, <3>1, <3>3 DEF TakeProjects, AtRest, Exclusive
    <3>4. CASE Done
      BY <2>1, <3>1, <3>4 DEF Done, AtRest, Exclusive
    <3>5. CASE Adopt
      <4>1. main.pc = "walk" /\ main'.pc = main.pc
        BY <3>5 DEF Adopt, TypeOK
      <4> QED
        BY <2>1, <3>1, <4>1 DEF Exclusive
    <3> QED
      BY <2>4, <3>2, <3>3, <3>4, <3>5
  <2>5. CASE Relist \/ \E p \in projects : Remove(p)
    BY <2>1, <2>5 DEF Relist, Remove, Exclusive
  <2> QED
    BY <1>3, <2>2, <2>3, <2>4, <2>5 DEF OtherStep
<1> QED
  BY <1>1, <1>2, <1>3, Actions

\* A step leaves a call in "recheck" or "write" as it was, or the call has just
\* registered its project, or has just looked again and found nothing.
LEMMA Resolving ==
    ASSUME TypeOK, Resolved, OneWorkspace, NEW c \in Callers, CallStep(c)
    PROVE  /\ calls'[c].pc \in {"recheck", "write"} => calls'[c].id # 0
           /\ \A v, w \in calls'[c].ws : v = w
           /\ calls'[c].op = "init" /\ calls'[c].pc = "write" =>
                /\ UNCHANGED records
                /\ \A x \in records : x.ws \notin calls'[c].ws
<1> USE DEF TypeOK
<1>1. CASE \E op \in Ops, w \in Workspaces, t \in Paths : Arrive(c, op, w, t)
  BY <1>1 DEF Arrive
<1>2. CASE Acquire(c)
  <2>1. calls[c].op \in Ops
    BY DEF Call
  <2>2. \E pc \in {"check", "register", "list"} : calls' = [calls EXCEPT ![c].pc = pc]
    BY <1>2, <2>1 DEF Acquire, Goto, Ops
  <2>3. calls'[c].ws = calls[c].ws /\ calls'[c].pc \in {"check", "register", "list"}
    BY <2>2 DEF Call
  <2> QED
    BY <2>3 DEF OneWorkspace
<1>3. Return(c) => calls'[c].pc = "idle" /\ calls'[c].ws = {}
  BY DEF Return, Quiet
<1>4. CASE Check(c, "check", "register")
  <2>1. CASE Goto(c, "register")
    BY <2>1 DEF Goto, Call, OneWorkspace
  <2> QED
    BY <1>3, <1>4, <2>1 DEF Check
<1>5. CASE Check(c, "recheck", "write")
  <2>1. CASE Return(c)
    BY <1>3, <2>1
  <2>2. CASE Goto(c, "write") /\ \E w \in calls[c].ws : BindingsOf(w) = {}
    <3>1. calls'[c].ws = calls[c].ws /\ calls'[c].id = calls[c].id
      BY <2>2 DEF Goto, Call
    <3>2. calls[c].id # 0
      BY <1>5 DEF Check, Resolved
    <3>3. \A x \in records : x.ws \notin calls[c].ws
      BY <2>2 DEF OneWorkspace, BindingsOf
    <3> QED
      BY <1>5, <3>1, <3>2, <3>3 DEF Check, OneWorkspace
  <2> QED
    BY <1>5, <2>1, <2>2 DEF Check
<1>6. CASE Register(c)
  <2> DEFINE then == IF calls[c].op = "init" THEN "recheck" ELSE "write"
  <2> PICK i \in 1..MaxIds :
        calls' = [calls EXCEPT ![c] = [calls[c] EXCEPT !.id = i, !.pc = then]]
    BY <1>6 DEF Register
  <2>1. /\ calls'[c].id = i /\ calls'[c].ws = calls[c].ws
        /\ calls'[c].op = calls[c].op /\ calls'[c].pc = then
    BY DEF Call
  <2>2. i # 0
    OBVIOUS
  <2> QED
    BY <2>1, <2>2 DEF OneWorkspace
<1>7. CASE Write(c) \/ Fail(c)
  BY <1>3, <1>7 DEF Write, Fail
<1>8. CASE ListBindings(c)
  <2>1. calls'[c].pc = "unset" /\ calls'[c].ws = calls[c].ws
    BY <1>8 DEF ListBindings, Call
  <2> QED
    BY <2>1 DEF OneWorkspace
<1>9. CASE Unset(c)
  <2>1. CASE Return(c)
    BY <1>3, <2>1
  <2>2. CASE \E x : calls' = [calls EXCEPT ![c] = [calls[c] EXCEPT !.rows = calls[c].rows \ {x}]]
    <3>1. calls'[c].pc = "unset" /\ calls'[c].ws = calls[c].ws
      BY <1>9, <2>2 DEF Unset, Call
    <3> QED
      BY <3>1 DEF OneWorkspace
  <2> QED
    BY <1>9, <2>1, <2>2 DEF Unset
<1> QED
  BY <1>1, <1>2, <1>4, <1>5, <1>6, <1>7, <1>8, <1>9 DEF CallStep

LEMMA CallsStep ==
    ASSUME TypeOK, Exclusive, Resolved, OneWorkspace, InitSawNothing, [Next]_vars
    PROVE  Resolved' /\ OneWorkspace' /\ InitSawNothing'
<1>1. CASE UNCHANGED vars
  BY <1>1 DEF vars, Resolved, OneWorkspace, InitSawNothing
<1>2. ASSUME NEW c \in Callers, CallStep(c)
      PROVE  Resolved' /\ OneWorkspace' /\ InitSawNothing'
  <2>1. Resolved' /\ OneWorkspace'
    BY <1>2, OthersKeep, Resolving DEF Resolved, OneWorkspace
  <2>2. ASSUME NEW e \in Callers, calls'[e].op = "init", calls'[e].pc = "write",
               NEW x \in records', x.ws \in calls'[e].ws
        PROVE  x.by = "main"
    <3>1. CASE e = c
      BY <1>2, <2>2, <3>1, Resolving
    <3>2. CASE e # c
      <4>1. calls'[e] = calls[e]
        BY <1>2, <3>2, OthersKeep
      <4>2. lock = e
        BY <2>2, <4>1 DEF Exclusive
      <4>3. ~Write(c)
        BY <3>2, <4>2, CallersAssumption DEF Write, Exclusive
      <4>4. records' \subseteq records
        BY <1>2, <4>3 DEF CallStep, Arrive, Acquire, Check, Register, ListBindings, Unset, Fail
      <4> QED
        BY <2>2, <4>1, <4>4 DEF InitSawNothing
    <3> QED
      BY <3>1, <3>2
  <2> QED
    BY <2>1, <2>2 DEF InitSawNothing
<1>3. CASE OtherStep
  <2>1. UNCHANGED calls
    BY <1>3, CallsKept
  <2>2. \A x \in records' \ records : x.by = "main"
    <3>1. CASE Adopt
      <4>1. PICK x \in main.todo :
              LET moved == {p \in {q \in main.known : q.path = x.target} : p.id # x.project}
              IN  IF moved = {} THEN UNCHANGED records
                  ELSE \E p \in moved : SetOne(Written(x.ws, x.target, p.id, "main"))
        BY <3>1 DEF Adopt
      <4> QED
        BY <4>1 DEF SetOne, Written
    <3>2. CASE ~Adopt
      <4>1. records' \subseteq records
        BY <1>3, <3>2 DEF OtherStep, Remove, Relist, TakeRemoved, TakeProjects, MainLock,
                          MainUnset, Done
      <4> QED
        BY <4>1
    <3> QED
      BY <3>1, <3>2
  <2> QED
    BY <2>1, <2>2 DEF Resolved, OneWorkspace, InitSawNothing
<1> QED
  BY <1>1, <1>2, <1>3, Actions

LEMMA SingleStep ==
    ASSUME TypeOK, SingleProject, [Next]_vars
    PROVE  SingleProject'
<1>1. records' \subseteq records => SingleProject'
  BY DEF SingleProject
<1>2. CASE UNCHANGED vars
  BY <1>1, <1>2 DEF vars
<1>3. ASSUME NEW c \in Callers, CallStep(c), ~Write(c) PROVE SingleProject'
  BY <1>1, <1>3 DEF CallStep, Arrive, Acquire, Check, Register, ListBindings, Unset, Fail
<1>4. ASSUME NEW c \in Callers, Write(c) PROVE SingleProject'
  BY <1>4, SetOneKeepsOne DEF Write
<1>5. CASE Adopt
  BY <1>1, <1>5, SetOneKeepsOne DEF Adopt
<1>6. CASE OtherStep /\ ~Adopt
  BY <1>1, <1>6 DEF OtherStep, Remove, Relist, TakeRemoved, TakeProjects, MainLock, MainUnset, Done
<1> QED
  BY <1>2, <1>3, <1>4, <1>5, <1>6, Actions

-----------------------------------------------------------------------------
(* The theorems.                                                           *)

\* The inductive invariant holds in every reachable state.
THEOREM BindingsInvariant == Spec => []IInv
<1>1. IInv /\ [Next]_vars => IInv'
  BY TypeStep, SingleStep, ExclusiveStep, CallsStep DEF IInv
<1> QED
  BY <1>1, InitHolds, PTL DEF Spec

\* projd's projects, bindings, calls and the main loop keep their types.
THEOREM BindingsTyped == Spec => []TypeOK
<1>1. IInv => TypeOK
  BY DEF IInv
<1> QED
  BY <1>1, BindingsInvariant, PTL

\* Every workspace has one project at most (set_one in bind_context and reconcile).
THEOREM OneProjectEach == Spec => []SingleProject
<1>1. IInv => SingleProject
  BY DEF IInv
<1> QED
  BY <1>1, BindingsInvariant, PTL

\* init_workspace_project never replaces a binding that another call has made,
\* however long RegisterProject takes.
THEOREM InitReplacesNoCall == Spec => InitSparesCalls
<1> DEFINE Spares ==
        \A c \in Callers :
            calls[c].op = "init" /\ calls[c].pc = "write" /\ calls'[c].pc = "idle" =>
                \A x \in records \ records' : x.by = "main"
<1>1. ASSUME IInv, [Next]_vars PROVE Spares
  <2> SUFFICES ASSUME NEW c \in Callers, calls[c].op = "init", calls[c].pc = "write",
                      calls'[c].pc = "idle", NEW x \in records \ records'
               PROVE  x.by = "main"
    OBVIOUS
  <2> USE <1>1 DEF IInv
  <2>1. calls'[c] # calls[c]
    OBVIOUS
  <2>2. CallStep(c)
    BY <2>1, Actions, OthersKeep, CallsKept DEF vars
  <2>3. Write(c) \/ Fail(c)
    BY <2>2 DEF CallStep, Arrive, Acquire, Check, Register, ListBindings, Unset
  <2>4. Write(c)
    BY <2>3 DEF Fail
  <2>5. x.ws \in calls[c].ws
    BY <2>4 DEF Write, SetOne, BindingsOf, Written
  <2> QED
    BY <2>5 DEF InitSawNothing
<1>2. IInv /\ [Next]_vars => [Spares]_vars
  BY <1>1
<1> QED
  BY <1>2, BindingsInvariant, PTL DEF Spec, InitSparesCalls

-----------------------------------------------------------------------------
(* projd's watch of repositories (RepositoryWatch, of which R is the       *)
(* instance of MCLive), for every set of repositories and every bound.     *)
(* VInv is inductive.                                                      *)

\* The instance has operators of the standard modules of its own.
LEMMA SameCardinality == \A S : R!Cardinality(S) = Cardinality(S)
<1>1. \A S : R!IsFiniteSet(S) <=> IsFiniteSet(S)
  BY DEF R!IsFiniteSet, IsFiniteSet
<1> QED
  BY <1>1 DEF R!Cardinality, Cardinality

Request == [do : {"watch", "unwatch"}, root : Checkouts, initial : BOOLEAN]
TaskRecord == [root : Checkouts, phase : {"start", "lock", "snapshot", "commit"},
               read : 0..MaxVersion, client : BOOLEAN]

\* The types of what the safety argument reads.
Typed ==
    /\ repo \in [Checkouts -> 1..MaxVersion]
    /\ row \in [Checkouts -> R!None..MaxVersion]
    /\ requests \in Seq(Request)
    /\ registering \in SUBSET Checkouts /\ directories \in SUBSET Checkouts
    /\ completed \in Seq(Checkouts) /\ dirty \in SUBSET Checkouts
    /\ tasks \in UNION {[D -> TaskRecord] : D \in SUBSET (1..MaxTasks)}
    /\ checkoutLock \in [Checkouts -> R!Nobody..MaxTasks]

\* The types of what only clients and the loop's bookkeeping read.
Shown ==
    /\ shown \in [Checkouts -> R!None..MaxVersion]
    /\ notified \in SUBSET Checkouts /\ running \in SUBSET Checkouts
    /\ owed \in SUBSET Checkouts /\ asked \in Nat

\* No row is newer than its repository.
RowBehind == \A r \in Checkouts : row[r] <= repo[r]

\* A refresh that reads or has read holds the mutex of its root.
Holds ==
    \A t \in DOMAIN tasks :
        tasks[t].phase \in {"snapshot", "commit"} => checkoutLock[tasks[t].root] = t

\* What a refresh has read is no older than the row it will write.
ReadAhead ==
    \A t \in DOMAIN tasks : tasks[t].phase = "commit" =>
        row[tasks[t].root] <= tasks[t].read /\ tasks[t].read <= repo[tasks[t].root]

VInv == Typed /\ RowBehind /\ Holds /\ ReadAhead

-----------------------------------------------------------------------------
(* Tasks.                                                                  *)

\* The tasks after a refresh was started: one more, at its start.
LEMMA SpawnedTasks ==
    ASSUME Typed, R!Free # {}, NEW r \in Checkouts, NEW client \in BOOLEAN
    PROVE  /\ R!Spawned(r, client) \in UNION {[D -> TaskRecord] : D \in SUBSET (1..MaxTasks)}
           /\ \A t \in DOMAIN R!Spawned(r, client) :
                \/ t \in DOMAIN tasks /\ R!Spawned(r, client)[t] = tasks[t]
                \/ R!Spawned(r, client)[t].phase = "start"
<1> DEFINE new == CHOOSE t \in R!Free : TRUE
           D == DOMAIN tasks \cup {new}
<1>1. new \in 1..MaxTasks
  BY DEF R!Free
<1>2. PICK D0 \in SUBSET (1..MaxTasks) : tasks \in [D0 -> TaskRecord]
  BY DEF Typed
<1>3. R!Task(r, client) \in TaskRecord /\ R!Task(r, client).phase = "start"
  BY VersionsAssumption DEF R!Task, TaskRecord
<1>4. R!Spawned(r, client) = [t \in D |-> IF t \in DOMAIN tasks THEN tasks[t] ELSE R!Task(r, client)]
  BY DEF R!Spawned
<1> HIDE DEF new
<1>5. D \in SUBSET (1..MaxTasks)
  BY <1>1, <1>2
<1>6. \A t \in D : (IF t \in DOMAIN tasks THEN tasks[t] ELSE R!Task(r, client)) \in TaskRecord
  BY <1>2, <1>3
<1>7. R!Spawned(r, client) \in [D -> TaskRecord]
  BY <1>4, <1>6
<1>8. \A t \in D : \/ t \in DOMAIN tasks /\ R!Spawned(r, client)[t] = tasks[t]
                   \/ R!Spawned(r, client)[t].phase = "start"
  BY <1>3, <1>4
<1> HIDE DEF D
<1> QED
  BY <1>5, <1>7, <1>8

\* The tasks keep what they had, or are new and at their start.
Grown == \A t \in DOMAIN tasks' :
            \/ t \in DOMAIN tasks /\ tasks'[t] = tasks[t]
            \/ tasks'[t].phase = "start"

LEMMA GrownKeeps ==
    ASSUME Holds, ReadAhead, Grown, UNCHANGED <<row, repo, checkoutLock>>
    PROVE  Holds' /\ ReadAhead'
BY DEF Holds, ReadAhead, Grown

LEMMA StartGrows ==
    ASSUME Typed, NEW r \in Checkouts, R!Start(r)
    PROVE  /\ dirty' \in SUBSET Checkouts /\ Grown
           /\ tasks' \in UNION {[D -> TaskRecord] : D \in SUBSET (1..MaxTasks)}
           /\ running \in SUBSET Checkouts => running' \in SUBSET Checkouts
<1>1. CASE r \in running
  BY <1>1 DEF R!Start, Typed, Grown
<1>2. CASE r \notin running
  <2>1. R!Free # {} /\ tasks' = R!Spawned(r, FALSE) /\ dirty' = dirty
        /\ running' = running \cup {r}
    BY <1>2 DEF R!Start
  <2> QED
    BY <2>1, SpawnedTasks DEF Grown, Typed
<1> QED
  BY <1>1, <1>2

LEMMA SeqTail ==
    ASSUME NEW S, NEW s \in Seq(S), s # <<>>
    PROVE  Tail(s) \in Seq(S) /\ Head(s) \in S
BY HeadTailProperties

LEMMA SeqAppend ==
    ASSUME NEW S, NEW s \in Seq(S), NEW e \in S
    PROVE  Append(s, e) \in Seq(S)
BY AppendProperties

-----------------------------------------------------------------------------
(* The first state.                                                        *)

LEMMA WatchInitHolds == R!Init => VInv
<1> SUFFICES ASSUME R!Init PROVE VInv
  OBVIOUS
<1>1. row \in [Checkouts -> R!None..MaxVersion] /\ repo \in [Checkouts -> 1..MaxVersion]
      /\ \A r \in Checkouts : row[r] <= 1 /\ repo[r] = 1
  BY VersionsAssumption DEF R!Init, R!None
<1>2. requests \in Seq(Request)
  <2> DEFINE n == Cardinality(R!Registered)
  <2>1. n \in Nat
    <3>1. R!Registered \subseteq Checkouts
      BY DEF R!Registered
    <3> QED
      BY <3>1, CheckoutsFinite, FS_Subset, FS_CardinalityType
  <2>2. PICK order \in [1..n -> R!Registered] :
          requests = [i \in DOMAIN order |->
                        [do |-> "watch", root |-> order[i], initial |-> FALSE]]
    BY SameCardinality DEF R!Init
  <2> HIDE DEF n
  <2>3. requests \in [1..n -> Request]
    BY <2>2 DEF Request, R!Registered
  <2> QED
    BY <2>1, <2>3
<1>3. DOMAIN tasks = {} /\ tasks \in [{} -> TaskRecord]
  BY DEF R!Init
<1>4. Typed
  <2>1. tasks \in UNION {[D -> TaskRecord] : D \in SUBSET (1..MaxTasks)}
    BY <1>3
  <2>2. checkoutLock \in [Checkouts -> R!Nobody..MaxTasks]
    BY VersionsAssumption DEF R!Init, R!Nobody
  <2>3. registering = {} /\ directories = {} /\ completed = <<>> /\ dirty = {}
    BY DEF R!Init
  <2> QED
    BY <1>1, <1>2, <2>1, <2>2, <2>3 DEF Typed
<1>5. RowBehind
  BY <1>1 DEF RowBehind
<1> QED
  BY <1>3, <1>4, <1>5 DEF VInv, Holds, ReadAhead

-----------------------------------------------------------------------------
(* One lemma for each step.                                                *)

LEMMA ChangeKeeps ==
    ASSUME VInv, NEW r \in Checkouts, R!Change(r)
    PROVE  VInv'
<1>1. repo' = [repo EXCEPT ![r] = @ + 1] /\ repo[r] < MaxVersion
      /\ UNCHANGED <<row, requests, registering, directories, completed, dirty, tasks, checkoutLock>>
  BY DEF R!Change, R!loop
<1>2. repo' \in [Checkouts -> 1..MaxVersion] /\ \A q \in Checkouts : repo[q] <= repo'[q]
  BY <1>1, VersionsAssumption DEF VInv, Typed
<1>3. Typed' /\ Holds'
  BY <1>1, <1>2 DEF VInv, Typed, Holds
<1>4. RowBehind'
  BY <1>1, <1>2, VersionsAssumption DEF VInv, Typed, RowBehind, R!None
<1>5. ReadAhead'
  <2> SUFFICES ASSUME NEW t \in DOMAIN tasks, tasks[t].phase = "commit"
               PROVE  row[tasks[t].root] <= tasks[t].read /\ tasks[t].read <= repo'[tasks[t].root]
    BY <1>1 DEF ReadAhead
  <2>1. tasks[t] \in TaskRecord
    BY DEF VInv, Typed
  <2>2. tasks[t].root \in Checkouts /\ tasks[t].read \in Int
    BY <2>1, VersionsAssumption DEF TaskRecord
  <2>3. row[tasks[t].root] <= tasks[t].read /\ tasks[t].read <= repo[tasks[t].root]
    BY DEF VInv, ReadAhead
  <2>4. repo[tasks[t].root] \in Int /\ repo'[tasks[t].root] \in Int
    BY <1>2, <2>2, VersionsAssumption DEF VInv, Typed
  <2> HIDE DEF VInv
  <2> QED
    BY <1>2, <2>2, <2>3, <2>4
<1> QED
  BY <1>3, <1>4, <1>5 DEF VInv

\* A row that is written with what a refresh cannot be older than.
LEMMA RowLowered ==
    ASSUME VInv, row' \in [Checkouts -> R!None..MaxVersion],
           \A q \in Checkouts : row'[q] <= row[q] \/ row'[q] = 0,
           UNCHANGED <<repo, tasks, checkoutLock>>
    PROVE  RowBehind' /\ Holds' /\ ReadAhead'
<1>1. RowBehind'
  <2>1. /\ repo' = repo /\ repo \in [Checkouts -> 1..MaxVersion]
        /\ row \in [Checkouts -> R!None..MaxVersion]
    BY DEF VInv, Typed
  <2>2. \A q \in Checkouts : row[q] <= repo[q]
    BY DEF VInv, RowBehind
  <2> QED
    BY <2>1, <2>2, VersionsAssumption DEF RowBehind, R!None
<1>2. Holds'
  BY DEF VInv, Holds
<1>3. ReadAhead'
  <2> SUFFICES ASSUME NEW t \in DOMAIN tasks, tasks[t].phase = "commit"
               PROVE  row'[tasks[t].root] <= tasks[t].read /\ tasks[t].read <= repo[tasks[t].root]
    BY DEF ReadAhead
  <2>1. tasks[t] \in TaskRecord
    BY DEF VInv, Typed
  <2>2. tasks[t].root \in Checkouts /\ tasks[t].read \in Nat
    BY <2>1, VersionsAssumption DEF TaskRecord
  <2>3. row[tasks[t].root] <= tasks[t].read /\ tasks[t].read <= repo[tasks[t].root]
    BY DEF VInv, ReadAhead
  <2>4. row[tasks[t].root] \in Int /\ row'[tasks[t].root] \in Int
    BY <2>2, VersionsAssumption DEF VInv, Typed, R!None
  <2> QED
    BY <2>2, <2>3, <2>4
<1> QED
  BY <1>1, <1>2, <1>3

LEMMA RegisterKeeps ==
    ASSUME VInv, NEW r \in Checkouts, R!Register(r)
    PROVE  VInv'
<1>1. row' = [row EXCEPT ![r] = IF @ = R!None THEN 0 ELSE @] /\ registering' = {r}
      /\ requests' = Append(requests, [do |-> "watch", root |-> r, initial |-> (row[r] = R!None)])
      /\ UNCHANGED <<repo, directories, completed, dirty, tasks, checkoutLock>>
  BY DEF R!Register, R!loop
<1>2. row' \in [Checkouts -> R!None..MaxVersion]
  BY <1>1, VersionsAssumption DEF VInv, Typed, R!None
<1>3. requests' \in Seq(Request)
  BY <1>1, SeqAppend DEF VInv, Typed, Request
<1>4. Typed'
  BY <1>1, <1>2, <1>3 DEF VInv, Typed
<1>5. \A q \in Checkouts : row'[q] <= row[q] \/ row'[q] = 0
  BY <1>1, VersionsAssumption DEF VInv, Typed, R!None
<1> QED
  BY <1>1, <1>2, <1>4, <1>5, RowLowered DEF VInv

LEMMA RemoveProjectKeeps ==
    ASSUME VInv, NEW r \in Checkouts, R!RemoveProject(r)
    PROVE  VInv'
<1>1. row' = [row EXCEPT ![r] = R!None]
      /\ requests' = Append(requests, [do |-> "unwatch", root |-> r, initial |-> FALSE])
      /\ UNCHANGED <<repo, registering, directories, completed, dirty, tasks, checkoutLock>>
  BY DEF R!RemoveProject, R!loop
<1>2. row' \in [Checkouts -> R!None..MaxVersion]
  BY <1>1, VersionsAssumption DEF VInv, Typed, R!None
<1>3. requests' \in Seq(Request)
  BY <1>1, SeqAppend DEF VInv, Typed, Request
<1>4. Typed'
  BY <1>1, <1>2, <1>3 DEF VInv, Typed
<1>5. \A q \in Checkouts : row'[q] <= row[q] \/ row'[q] = 0
  BY <1>1, VersionsAssumption DEF VInv, Typed, R!None
<1> QED
  BY <1>1, <1>2, <1>4, <1>5, RowLowered DEF VInv

LEMMA RefreshKeeps ==
    ASSUME VInv, NEW r \in Checkouts, R!Refresh(r)
    PROVE  VInv'
<1>1. R!Free # {} /\ tasks' = R!Spawned(r, TRUE)
      /\ UNCHANGED <<repo, row, requests, registering, directories, completed, dirty, checkoutLock>>
  BY DEF R!Refresh, R!loop
<1>2. Grown /\ tasks' \in UNION {[D -> TaskRecord] : D \in SUBSET (1..MaxTasks)}
  BY <1>1, SpawnedTasks DEF Grown, VInv
<1>3. Typed' /\ RowBehind'
  BY <1>1, <1>2 DEF VInv, Typed, RowBehind
<1> QED
  BY <1>1, <1>2, <1>3, GrownKeeps DEF VInv

LEMMA HandleWatchKeeps ==
    ASSUME VInv, R!HandleWatch
    PROVE  VInv'
<1> DEFINE r == Head(requests).root
<1>1. requests # <<>> /\ requests' = Tail(requests)
      /\ directories' = directories \cup {r} /\ registering' = registering \ {r}
      /\ UNCHANGED <<repo, row, completed, checkoutLock>>
      /\ (R!Start(r) \/ UNCHANGED <<dirty, tasks>>)
  BY DEF R!HandleWatch
<1>2. requests' \in Seq(Request) /\ Head(requests) \in Request
  BY <1>1, SeqTail DEF VInv, Typed
<1>3. r \in Checkouts
  BY <1>2 DEF Request
<1> HIDE DEF r
<1>4. /\ Grown /\ dirty' \in SUBSET Checkouts
      /\ tasks' \in UNION {[D -> TaskRecord] : D \in SUBSET (1..MaxTasks)}
  BY <1>1, <1>3, StartGrows DEF VInv, Typed, Grown
<1>5. Typed' /\ RowBehind'
  BY <1>1, <1>2, <1>3, <1>4 DEF VInv, Typed, RowBehind
<1> QED
  BY <1>1, <1>4, <1>5, GrownKeeps DEF VInv

LEMMA HandleUnwatchKeeps ==
    ASSUME VInv, R!HandleUnwatch
    PROVE  VInv'
<1>1. requests # <<>> /\ requests' = Tail(requests)
      /\ directories' \subseteq directories /\ dirty' \subseteq dirty
      /\ UNCHANGED <<repo, row, registering, completed, tasks, checkoutLock>>
  BY DEF R!HandleUnwatch
<1>2. requests' \in Seq(Request)
  BY <1>1, SeqTail DEF VInv, Typed
<1>3. Typed'
  BY <1>1, <1>2 DEF VInv, Typed
<1> QED
  BY <1>1, <1>3 DEF VInv, RowBehind, Holds, ReadAhead

LEMMA HandleEventKeeps ==
    ASSUME VInv, NEW r \in Checkouts, R!HandleEvent(r)
    PROVE  VInv'
<1>1. /\ R!Start(r) \/ UNCHANGED <<dirty, tasks>>
      /\ UNCHANGED <<repo, row, requests, registering, directories, completed, checkoutLock>>
  BY DEF R!HandleEvent
<1>2. /\ Grown /\ dirty' \in SUBSET Checkouts
      /\ tasks' \in UNION {[D -> TaskRecord] : D \in SUBSET (1..MaxTasks)}
  BY <1>1, StartGrows DEF VInv, Typed, Grown
<1>3. Typed' /\ RowBehind'
  BY <1>1, <1>2 DEF VInv, Typed, RowBehind
<1> QED
  BY <1>1, <1>2, <1>3, GrownKeeps DEF VInv

LEMMA HandleCompletedKeeps ==
    ASSUME VInv, R!HandleCompleted
    PROVE  VInv'
<1> DEFINE r == Head(completed)
<1>1. /\ completed # <<>> /\ completed' = Tail(completed) /\ dirty' \subseteq dirty
      /\ UNCHANGED <<repo, row, requests, registering, directories, checkoutLock>>
      /\ (R!Free # {} /\ tasks' = R!Spawned(r, FALSE)) \/ UNCHANGED tasks
  BY DEF R!HandleCompleted
<1>2. completed' \in Seq(Checkouts) /\ r \in Checkouts
  BY <1>1, SeqTail DEF VInv, Typed
<1> HIDE DEF r
<1>3. /\ Grown
      /\ tasks' \in UNION {[D -> TaskRecord] : D \in SUBSET (1..MaxTasks)}
  BY <1>1, <1>2, SpawnedTasks DEF VInv, Typed, Grown
<1>4. Typed' /\ RowBehind'
  BY <1>1, <1>2, <1>3 DEF VInv, Typed, RowBehind
<1> QED
  BY <1>1, <1>3, <1>4, GrownKeeps DEF VInv

\* A task that ended: the tasks that are left have what they had.
LEMMA DoneKeeps ==
    ASSUME Typed, NEW t \in DOMAIN tasks, R!Done(t)
    PROVE  /\ tasks' \in UNION {[D -> TaskRecord] : D \in SUBSET (1..MaxTasks)}
           /\ \A u \in DOMAIN tasks' : u \in DOMAIN tasks /\ u # t /\ tasks'[u] = tasks[u]
           /\ completed' \in Seq(Checkouts)
<1>1. PICK D0 \in SUBSET (1..MaxTasks) : tasks \in [D0 -> TaskRecord]
  BY DEF Typed
<1>2. tasks' \in [D0 \ {t} -> TaskRecord]
      /\ \A u \in D0 \ {t} : tasks'[u] = tasks[u]
  BY <1>1 DEF R!Done
<1>3. D0 \ {t} \in SUBSET (1..MaxTasks)
  OBVIOUS
<1>4. tasks[t].root \in Checkouts
  BY <1>1 DEF TaskRecord
<1>5. completed' \in Seq(Checkouts)
  BY <1>4, SeqAppend DEF Typed, R!Done
<1> QED
  BY <1>1, <1>2, <1>3, <1>5

LEMMA SkipKeeps ==
    ASSUME VInv, NEW t \in 1..MaxTasks, R!Skip(t)
    PROVE  VInv'
<1>1. t \in DOMAIN tasks /\ R!Done(t)
      /\ UNCHANGED <<repo, row, requests, registering, directories, dirty, checkoutLock>>
  BY DEF R!Skip, R!At, R!loop
<1>2. /\ tasks' \in UNION {[D -> TaskRecord] : D \in SUBSET (1..MaxTasks)}
      /\ \A u \in DOMAIN tasks' : u \in DOMAIN tasks /\ tasks'[u] = tasks[u]
      /\ completed' \in Seq(Checkouts)
  BY <1>1, DoneKeeps DEF VInv
<1>3. Typed' /\ RowBehind'
  BY <1>1, <1>2 DEF VInv, Typed, RowBehind
<1> QED
  BY <1>1, <1>2, <1>3 DEF VInv, Holds, ReadAhead

\* One task of many changes.
LEMMA TaskChanged ==
    ASSUME Typed, NEW t \in DOMAIN tasks, NEW e \in TaskRecord,
           tasks' = [tasks EXCEPT ![t] = e]
    PROVE  /\ tasks' \in UNION {[D -> TaskRecord] : D \in SUBSET (1..MaxTasks)}
           /\ DOMAIN tasks' = DOMAIN tasks /\ tasks'[t] = e
           /\ \A u \in DOMAIN tasks : u # t => tasks'[u] = tasks[u]
<1>1. PICK D0 \in SUBSET (1..MaxTasks) : tasks \in [D0 -> TaskRecord]
  BY DEF Typed
<1>2. tasks' \in [D0 -> TaskRecord]
  BY <1>1
<1> QED
  BY <1>1, <1>2

LEMMA LockKeeps ==
    ASSUME VInv, NEW t \in 1..MaxTasks, R!Lock(t)
    PROVE  VInv'
<1> DEFINE r == tasks[t].root
<1>1. t \in DOMAIN tasks /\ tasks[t] \in TaskRecord
  BY DEF R!Lock, R!At, VInv, Typed
<1>2. r \in Checkouts /\ tasks[t].phase \in {"start", "lock"}
      /\ UNCHANGED <<repo, row, requests, registering, directories, completed, dirty>>
  BY <1>1 DEF R!Lock, R!At, R!loop, TaskRecord
<1>3. PICK phase \in {"lock", "snapshot"} :
        /\ tasks' = [tasks EXCEPT ![t].phase = phase]
        /\ \/ phase = "lock" /\ checkoutLock' = checkoutLock
           \/ checkoutLock[r] = R!Nobody /\ checkoutLock' = [checkoutLock EXCEPT ![r] = t]
  BY DEF R!Lock, R!Goto
<1> DEFINE e == [tasks[t] EXCEPT !.phase = phase]
<1>4. e \in TaskRecord /\ e.phase = phase /\ e.root = r
  BY <1>1 DEF TaskRecord
<1>5. tasks' = [tasks EXCEPT ![t] = e]
  BY <1>3
<1> HIDE DEF e
<1>6. /\ tasks' \in UNION {[D -> TaskRecord] : D \in SUBSET (1..MaxTasks)}
      /\ DOMAIN tasks' = DOMAIN tasks /\ tasks'[t] = e
      /\ \A u \in DOMAIN tasks : u # t => tasks'[u] = tasks[u]
  BY <1>1, <1>4, <1>5, TaskChanged DEF VInv
<1>7. checkoutLock' \in [Checkouts -> R!Nobody..MaxTasks]
  <2>1. checkoutLock \in [Checkouts -> R!Nobody..MaxTasks] /\ t \in R!Nobody..MaxTasks
    BY VersionsAssumption DEF VInv, Typed, R!Nobody
  <2> HIDE DEF r
  <2> QED
    BY <1>3, <2>1
<1>8. Typed' /\ RowBehind'
  BY <1>2, <1>6, <1>7 DEF VInv, Typed, RowBehind
<1>9. Holds'
  <2> SUFFICES ASSUME NEW u \in DOMAIN tasks, tasks'[u].phase \in {"snapshot", "commit"}
               PROVE  checkoutLock'[tasks'[u].root] = u
    BY <1>6 DEF Holds
  <2>1. CASE u = t
    <3>1. phase = "snapshot" /\ tasks'[u].root = r
      BY <2>1, <1>4, <1>6
    <3>2. checkoutLock \in [Checkouts -> R!Nobody..MaxTasks]
      BY DEF VInv, Typed
    <3> HIDE DEF r
    <3> QED
      BY <2>1, <3>1, <3>2, <1>2, <1>3
  <2>2. CASE u # t
    <3>1. tasks'[u] = tasks[u] /\ tasks[u] \in TaskRecord
      BY <2>2, <1>6 DEF VInv, Typed
    <3>2. checkoutLock[tasks[u].root] = u /\ tasks[u].root \in Checkouts
      BY <3>1 DEF VInv, Holds, TaskRecord
    <3>3. u \in 1..MaxTasks
      BY DEF VInv, Typed
    <3>4. u # R!Nobody
      BY <3>3, VersionsAssumption DEF R!Nobody
    <3> QED
      BY <3>1, <3>2, <3>4, <1>2, <1>3 DEF VInv, Typed
  <2> QED
    BY <2>1, <2>2
<1>10. ReadAhead'
  BY <1>2, <1>3, <1>4, <1>6 DEF VInv, ReadAhead
<1> QED
  BY <1>8, <1>9, <1>10 DEF VInv

LEMMA SnapshotKeeps ==
    ASSUME VInv, NEW t \in 1..MaxTasks, R!Snapshot(t)
    PROVE  VInv'
<1> DEFINE r == tasks[t].root
<1>1. t \in DOMAIN tasks /\ tasks[t] \in TaskRecord /\ tasks[t].phase = "snapshot"
      /\ tasks' = [tasks EXCEPT ![t].phase = "commit", ![t].read = repo[r]]
      /\ UNCHANGED <<repo, row, requests, registering, directories, completed, dirty, checkoutLock>>
  BY DEF R!Snapshot, R!At, VInv, Typed, R!loop
<1>2. r \in Checkouts
  BY <1>1 DEF TaskRecord
<1>3. repo[r] \in 1..MaxVersion /\ row[r] <= repo[r]
  BY <1>2 DEF VInv, Typed, RowBehind
<1> DEFINE e == [tasks[t] EXCEPT !.phase = "commit", !.read = repo[r]]
<1>4. e \in TaskRecord /\ e.phase = "commit" /\ e.root = r /\ e.read = repo[r]
  BY <1>1, <1>3, VersionsAssumption DEF TaskRecord
<1>5. tasks' = [tasks EXCEPT ![t] = e]
  BY <1>1
<1> HIDE DEF e
<1>6. /\ tasks' \in UNION {[D -> TaskRecord] : D \in SUBSET (1..MaxTasks)}
      /\ DOMAIN tasks' = DOMAIN tasks /\ tasks'[t] = e
      /\ \A u \in DOMAIN tasks : u # t => tasks'[u] = tasks[u]
  BY <1>1, <1>4, <1>5, TaskChanged DEF VInv
<1>7. Typed' /\ RowBehind'
  BY <1>1, <1>6 DEF VInv, Typed, RowBehind
<1>8. Holds'
  BY <1>1, <1>4, <1>6 DEF VInv, Holds
<1>9. ReadAhead'
  BY <1>1, <1>3, <1>4, <1>6, VersionsAssumption DEF VInv, ReadAhead
<1> QED
  BY <1>7, <1>8, <1>9 DEF VInv

LEMMA CommitKeeps ==
    ASSUME VInv, NEW t \in 1..MaxTasks, R!Commit(t)
    PROVE  VInv' /\ R!NotOlder
<1> DEFINE r == tasks[t].root
<1>1. t \in DOMAIN tasks /\ tasks[t] \in TaskRecord /\ tasks[t].phase = "commit" /\ R!Done(t)
      /\ checkoutLock' = [checkoutLock EXCEPT ![r] = R!Nobody]
      /\ (row' = row \/ row' = [row EXCEPT ![r] = tasks[t].read])
      /\ UNCHANGED <<repo, requests, registering, directories, dirty>>
  BY DEF R!Commit, R!At, VInv, Typed, R!loop
<1>2. r \in Checkouts /\ tasks[t].read \in 0..MaxVersion
  BY <1>1 DEF TaskRecord
<1>3. row[r] <= tasks[t].read /\ tasks[t].read <= repo[r] /\ checkoutLock[r] = t
  BY <1>1 DEF VInv, ReadAhead, Holds
<1>4. /\ tasks' \in UNION {[D -> TaskRecord] : D \in SUBSET (1..MaxTasks)}
      /\ \A u \in DOMAIN tasks' : u \in DOMAIN tasks /\ u # t /\ tasks'[u] = tasks[u]
      /\ completed' \in Seq(Checkouts)
  BY <1>1, DoneKeeps DEF VInv
<1>5. row \in [Checkouts -> R!None..MaxVersion] /\ repo \in [Checkouts -> 1..MaxVersion]
      /\ checkoutLock \in [Checkouts -> R!Nobody..MaxTasks]
      /\ R!Nobody \in R!Nobody..MaxTasks /\ tasks[t].read \in R!None..MaxVersion
  BY <1>2, VersionsAssumption DEF VInv, Typed, R!None, R!Nobody
<1> HIDE DEF r
<1>Rows. row' \in [Checkouts -> R!None..MaxVersion]
      /\ checkoutLock' \in [Checkouts -> R!Nobody..MaxTasks]
  BY <1>1, <1>2, <1>5
<1>6. Typed'
  BY <1>1, <1>4, <1>Rows DEF VInv, Typed
<1>7. RowBehind'
  <2>1. \A q \in Checkouts : row[q] <= repo[q]
    BY DEF VInv, RowBehind
  <2> QED
    BY <2>1, <1>1, <1>2, <1>3, <1>5 DEF RowBehind
\* No other refresh of the root has read.
<1>8. \A u \in DOMAIN tasks' : tasks'[u].phase \in {"snapshot", "commit"} => tasks'[u].root # r
  BY <1>3, <1>4 DEF VInv, Holds
<1>9. \A u \in DOMAIN tasks' : tasks'[u].root \in Checkouts
  BY <1>4 DEF VInv, Typed, TaskRecord
<1>10. Holds'
  BY <1>1, <1>2, <1>4, <1>5, <1>8, <1>9 DEF VInv, Holds
<1>11. ReadAhead'
  BY <1>1, <1>2, <1>4, <1>5, <1>8, <1>9 DEF VInv, ReadAhead
<1>12. R!NotOlder
  BY <1>1, <1>2, <1>3, <1>5, VersionsAssumption DEF R!NotOlder, R!None
<1> QED
  BY <1>6, <1>7, <1>10, <1>11, <1>12 DEF VInv

\* Every step keeps the invariant, and no row goes back.
LEMMA NextKeeps == VInv /\ [R!Next]_(R!vars) => VInv' /\ R!NotOlder
<1> SUFFICES ASSUME VInv, [R!Next]_(R!vars) PROVE VInv' /\ R!NotOlder
  OBVIOUS
<1>1. ASSUME row' = row PROVE R!NotOlder
  BY <1>1, VersionsAssumption DEF VInv, Typed, R!NotOlder, R!None
<1>2. ASSUME NEW r \in Checkouts, R!Change(r) PROVE VInv' /\ R!NotOlder
  BY <1>1, <1>2, ChangeKeeps DEF R!Change
<1>3. ASSUME NEW r \in Checkouts, R!Register(r) PROVE VInv' /\ R!NotOlder
  <2>1. row' = [row EXCEPT ![r] = IF @ = R!None THEN 0 ELSE @]
    BY <1>3 DEF R!Register
  <2>2. R!NotOlder
    BY <2>1, VersionsAssumption DEF VInv, Typed, R!NotOlder, R!None
  <2> QED
    BY <1>3, <2>2, RegisterKeeps
<1>4. ASSUME NEW r \in Checkouts, R!RemoveProject(r) PROVE VInv' /\ R!NotOlder
  <2>1. row' = [row EXCEPT ![r] = R!None]
    BY <1>4 DEF R!RemoveProject
  <2>2. R!NotOlder
    BY <2>1, VersionsAssumption DEF VInv, Typed, R!NotOlder, R!None
  <2> QED
    BY <1>4, <2>2, RemoveProjectKeeps
<1>5. ASSUME NEW r \in Checkouts, R!Refresh(r) PROVE VInv' /\ R!NotOlder
  BY <1>1, <1>5, RefreshKeeps DEF R!Refresh
<1>6. ASSUME NEW r \in Checkouts, R!HandleEvent(r) PROVE VInv' /\ R!NotOlder
  BY <1>1, <1>6, HandleEventKeeps DEF R!HandleEvent
<1>7. CASE R!HandleWatch
  BY <1>1, <1>7, HandleWatchKeeps DEF R!HandleWatch
<1>8. CASE R!HandleUnwatch
  BY <1>1, <1>8, HandleUnwatchKeeps DEF R!HandleUnwatch
<1>9. CASE R!HandleCompleted
  BY <1>1, <1>9, HandleCompletedKeeps DEF R!HandleCompleted
<1>10. ASSUME NEW t \in 1..MaxTasks, R!Skip(t) PROVE VInv' /\ R!NotOlder
  BY <1>1, <1>10, SkipKeeps DEF R!Skip
<1>11. ASSUME NEW t \in 1..MaxTasks, R!Lock(t) PROVE VInv' /\ R!NotOlder
  BY <1>1, <1>11, LockKeeps DEF R!Lock
<1>12. ASSUME NEW t \in 1..MaxTasks, R!Snapshot(t) PROVE VInv' /\ R!NotOlder
  BY <1>1, <1>12, SnapshotKeeps DEF R!Snapshot
<1>13. ASSUME NEW t \in 1..MaxTasks, R!Commit(t) PROVE VInv' /\ R!NotOlder
  BY <1>13, CommitKeeps
<1>14. CASE UNCHANGED R!vars
  BY <1>1, <1>14 DEF R!vars, VInv, Typed, RowBehind, Holds, ReadAhead
<1> QED
  BY <1>2, <1>3, <1>4, <1>5, <1>6, <1>7, <1>8, <1>9, <1>10, <1>11, <1>12, <1>13, <1>14 DEF R!Next

(* The mutex of a root is held by whoever reads it, what was read is no    *)
(* older than the row, and no row is newer than its repository             *)
(* (refresh_checkout in main.rs).                                          *)
THEOREM ReadsUnderMutex == R!Spec => []VInv
BY WatchInitHolds, NextKeeps, PTL DEF R!Spec

(* A row never goes back to an older version, whatever refreshes overlap.  *)
THEOREM RowNeverOlder == R!Spec => NeverOlder
<1>1. VInv /\ [R!Next]_(R!vars) => [NotOlder]_row
  BY NextKeeps DEF NotOlder, R!NotOlder, None, R!None
<1> QED
  BY <1>1, ReadsUnderMutex, PTL DEF R!Spec, NeverOlder

-----------------------------------------------------------------------------
(* Types of the rest.                                                      *)

LEMMA ShownKept == VInv /\ Shown /\ [R!Next]_(R!vars) => Shown'
<1> SUFFICES ASSUME VInv, Shown, [R!Next]_(R!vars) PROVE Shown'
  OBVIOUS
<1>1. row' \in [Checkouts -> R!None..MaxVersion]
  BY NextKeeps DEF VInv, Typed
<1>2. ASSUME NEW r \in Checkouts, R!Change(r) PROVE Shown'
  BY <1>2 DEF R!Change, R!loop, Shown
<1>3. ASSUME NEW r \in Checkouts, R!Register(r) PROVE Shown'
  <2>1. row'[r] \in R!None..MaxVersion
    BY <1>1
  <2> QED
    BY <1>3, <2>1 DEF R!Register, R!Call, R!loop, Shown
<1>4. ASSUME NEW r \in Checkouts, R!RemoveProject(r) PROVE Shown'
  BY <1>4, VersionsAssumption DEF R!RemoveProject, R!Call, R!loop, Shown, R!None
<1>5. ASSUME NEW r \in Checkouts, R!Refresh(r) PROVE Shown'
  BY <1>5 DEF R!Refresh, R!Call, R!loop, Shown
<1>6. ASSUME NEW r \in Checkouts, R!HandleEvent(r) PROVE Shown'
  BY <1>6, StartGrows DEF R!HandleEvent, Shown, VInv
<1>7. CASE R!HandleWatch
  <2>1. Head(requests).root \in Checkouts
    <3>1. requests \in Seq(Request) /\ requests # <<>>
      BY <1>7 DEF R!HandleWatch, VInv, Typed
    <3>2. Head(requests) \in Request
      BY <3>1, SeqTail
    <3> QED
      BY <3>2 DEF Request
  <2> QED
    BY <1>7, <2>1, StartGrows DEF R!HandleWatch, Shown, VInv
<1>8. CASE R!HandleUnwatch
  BY <1>8 DEF R!HandleUnwatch, Shown
<1>9. CASE R!HandleCompleted
  <2>1. Head(completed) \in Checkouts
    BY <1>9, SeqTail DEF R!HandleCompleted, VInv, Typed
  <2> QED
    BY <1>9, <2>1 DEF R!HandleCompleted, Shown
<1>10. ASSUME NEW t \in 1..MaxTasks, R!Skip(t) PROVE Shown'
  BY <1>10 DEF R!Skip, R!loop, Shown
<1>11. ASSUME NEW t \in 1..MaxTasks, R!Lock(t) PROVE Shown'
  BY <1>11 DEF R!Lock, R!loop, Shown
<1>12. ASSUME NEW t \in 1..MaxTasks, R!Snapshot(t) PROVE Shown'
  BY <1>12 DEF R!Snapshot, R!loop, Shown
<1>13. ASSUME NEW t \in 1..MaxTasks, R!Commit(t) PROVE Shown'
  <2>1. t \in DOMAIN tasks /\ tasks[t] \in TaskRecord
    BY <1>13 DEF R!Commit, R!At, VInv, Typed
  <2>2. tasks[t].read \in R!None..MaxVersion
    BY <2>1, VersionsAssumption DEF TaskRecord, R!None
  <2>3. \/ shown' = shown
        \/ shown' = [shown EXCEPT ![tasks[t].root] = tasks[t].read]
    BY <1>13 DEF R!Commit
  <2> QED
    BY <1>13, <2>2, <2>3 DEF R!Commit, R!loop, Shown
<1>14. CASE UNCHANGED R!vars
  BY <1>14 DEF R!vars, Shown
<1> QED
  BY <1>2, <1>3, <1>4, <1>5, <1>6, <1>7, <1>8, <1>9, <1>10, <1>11, <1>12, <1>13, <1>14 DEF R!Next

LEMMA TypesFollow == VInv /\ Shown => R!TypeOK
<1> SUFFICES ASSUME VInv, Shown PROVE R!TypeOK
  OBVIOUS
<1>1. \A i \in DOMAIN requests : requests[i].root \in Checkouts
  <2>1. requests \in Seq(Request)
    BY DEF VInv, Typed
  <2>2. \A i \in DOMAIN requests : requests[i] \in Request
    BY <2>1
  <2> QED
    BY <2>2 DEF Request
<1>2. DOMAIN tasks \subseteq 1..MaxTasks
      /\ \A t \in DOMAIN tasks : tasks[t] \in TaskRecord
  BY DEF VInv, Typed
<1>3. /\ repo \in [Checkouts -> 1..MaxVersion] /\ row \in [Checkouts -> R!None..MaxVersion]
      /\ registering \subseteq Checkouts /\ directories \subseteq Checkouts
      /\ dirty \subseteq Checkouts
      /\ checkoutLock \in [Checkouts -> R!Nobody..MaxTasks]
  BY DEF VInv, Typed
<1> QED
  BY <1>1, <1>2, <1>3 DEF Shown, R!TypeOK, TaskRecord

(* Every variable keeps its type.                                          *)
THEOREM WatchTypes == R!Spec => []R!TypeOK
<1>1. R!Init => Shown
  <2>1. R!Init => asked = 0 /\ notified = {} /\ running = {} /\ owed = {} /\ shown = row
    BY DEF R!Init
  <2>2. R!Init => row \in [Checkouts -> R!None..MaxVersion]
    BY WatchInitHolds DEF VInv, Typed
  <2> QED
    BY <2>1, <2>2 DEF Shown
<1>2. R!Spec => []Shown
  BY <1>1, ShownKept, ReadsUnderMutex, PTL DEF R!Spec
<1> QED
  BY <1>2, TypesFollow, ReadsUnderMutex, PTL

-----------------------------------------------------------------------------
(* Watches.                                                                *)

\* The last request about r that the loop has not read.
LastAbout(r, i) ==
    i \in 1..Len(requests) /\ requests[i].root = r
    /\ \A j \in 1..Len(requests) : j > i => requests[j].root # r

NoneAbout(r) == \A i \in 1..Len(requests) : requests[i].root # r

\* What the loop watches, or will once it has read what was asked of it, is
\* what is registered.
AskedOrWatched ==
    \A r \in Checkouts :
        /\ NoneAbout(r) => (r \in directories <=> row[r] # R!None)
        /\ \A i \in 1..Len(requests) :
            LastAbout(r, i) => (requests[i].do = "watch" <=> row[r] # R!None)

LEMMA InitWatches == R!Init => AskedOrWatched
<1> SUFFICES ASSUME R!Init PROVE AskedOrWatched
  OBVIOUS
<1> DEFINE n == Cardinality(R!Registered)
<1>1. n \in Nat
  <2>1. R!Registered \subseteq Checkouts
    BY DEF R!Registered
  <2> QED
    BY <2>1, CheckoutsFinite, FS_Subset, FS_CardinalityType
<1>2. PICK order \in [1..n -> R!Registered] :
        /\ \A r \in R!Registered : \E i \in DOMAIN order : order[i] = r
        /\ requests = [i \in DOMAIN order |->
                        [do |-> "watch", root |-> order[i], initial |-> FALSE]]
  BY SameCardinality DEF R!Init
<1> HIDE DEF n
<1>3. Len(requests) = n /\ \A i \in 1..n : requests[i].do = "watch" /\ requests[i].root = order[i]
  BY <1>1, <1>2
<1>4. directories = {}
  BY DEF R!Init
<1> QED
  BY <1>2, <1>3, <1>4 DEF AskedOrWatched, LastAbout, NoneAbout, R!Registered

\* A request at the end of the channel, about a root whose row it follows.
LEMMA RequestFollows ==
    ASSUME VInv, AskedOrWatched, NEW e \in Request, requests' = Append(requests, e),
           directories' = directories, e.do = "watch" <=> row'[e.root] # R!None,
           \A q \in Checkouts : q # e.root => (row'[q] # R!None <=> row[q] # R!None)
    PROVE  AskedOrWatched'
<1> DEFINE n == Len(requests)
<1>1. requests \in Seq(Request) /\ n \in Nat
  BY DEF VInv, Typed
<1>2. Len(requests') = n + 1 /\ requests'[n + 1] = e
      /\ \A i \in 1..n : requests'[i] = requests[i]
  BY <1>1
<1> SUFFICES ASSUME NEW r \in Checkouts
             PROVE  /\ NoneAbout(r)' => (r \in directories <=> row'[r] # R!None)
                    /\ \A i \in 1..(n + 1) :
                        LastAbout(r, i)' => (requests'[i].do = "watch" <=> row'[r] # R!None)
  BY <1>2 DEF AskedOrWatched
<1>3. CASE r = e.root
  <2>1. ~NoneAbout(r)'
    BY <1>1, <1>2, <1>3 DEF NoneAbout
  <2>2. ASSUME NEW i \in 1..(n + 1), LastAbout(r, i)' PROVE i = n + 1
    BY <1>1, <1>2, <1>3, <2>2 DEF LastAbout
  <2> QED
    BY <1>1, <1>2, <1>3, <2>1, <2>2
<1>4. CASE r # e.root
  <2>1. NoneAbout(r)' => NoneAbout(r)
    BY <1>1, <1>2 DEF NoneAbout
  <2>2. ASSUME NEW i \in 1..(n + 1), LastAbout(r, i)' PROVE i \in 1..n /\ LastAbout(r, i)
    <3>1. i # n + 1
      BY <1>2, <1>4, <2>2 DEF LastAbout
    <3> QED
      BY <1>1, <1>2, <2>2, <3>1 DEF LastAbout
  <2> QED
    BY <1>2, <1>4, <2>1, <2>2 DEF AskedOrWatched
<1> QED
  BY <1>3, <1>4

\* The loop reads its next request.
LEMMA LoopFollows ==
    ASSUME VInv, AskedOrWatched, requests # <<>>, requests' = Tail(requests), row' = row,
           \A q \in Checkouts : q # Head(requests).root =>
                                  (q \in directories' <=> q \in directories),
           Head(requests).root \in directories' <=> Head(requests).do = "watch"
    PROVE  AskedOrWatched'
<1> DEFINE n == Len(requests)
<1>1. requests \in Seq(Request) /\ n \in Nat \ {0} /\ Head(requests) = requests[1]
  BY DEF VInv, Typed
<1>2. Len(requests') = n - 1 /\ \A i \in 1..(n - 1) : requests'[i] = requests[i + 1]
  BY <1>1
<1> SUFFICES ASSUME NEW r \in Checkouts
             PROVE  /\ NoneAbout(r)' => (r \in directories' <=> row[r] # R!None)
                    /\ \A i \in 1..(n - 1) :
                        LastAbout(r, i)' => (requests'[i].do = "watch" <=> row[r] # R!None)
  BY <1>2 DEF AskedOrWatched
<1>3. ASSUME NEW i \in 1..(n - 1), LastAbout(r, i)'
      PROVE  requests'[i].do = "watch" <=> row[r] # R!None
  <2>1. i + 1 \in 1..n /\ requests[i + 1].root = r /\ requests'[i] = requests[i + 1]
    BY <1>1, <1>2, <1>3 DEF LastAbout
  <2>2. ASSUME NEW j \in 1..n, j > i + 1 PROVE requests[j].root # r
    <3>1. j - 1 \in 1..(n - 1) /\ j - 1 > i /\ requests'[j - 1] = requests[j]
      BY <1>1, <1>2, <2>2
    <3> QED
      BY <3>1, <1>2, <1>3 DEF LastAbout
  <2>3. LastAbout(r, i + 1)
    BY <2>1, <2>2 DEF LastAbout
  <2> QED
    BY <2>1, <2>3 DEF AskedOrWatched
<1>4. ASSUME NoneAbout(r)' PROVE r \in directories' <=> row[r] # R!None
  <2>1. ASSUME NEW j \in 1..n, j > 1 PROVE requests[j].root # r
    <3>1. j - 1 \in 1..(n - 1) /\ requests'[j - 1] = requests[j]
      BY <1>1, <1>2, <2>1
    <3> QED
      BY <3>1, <1>2, <1>4 DEF NoneAbout
  <2>2. CASE Head(requests).root = r
    <3>1. LastAbout(r, 1)
      BY <1>1, <2>1, <2>2 DEF LastAbout
    <3> QED
      BY <1>1, <2>2, <3>1 DEF AskedOrWatched
  <2>3. CASE Head(requests).root # r
    <3>1. NoneAbout(r)
      BY <1>1, <2>1, <2>3 DEF NoneAbout
    <3> QED
      BY <2>3, <3>1 DEF AskedOrWatched
  <2> QED
    BY <2>2, <2>3
<1> QED
  BY <1>3, <1>4

LEMMA NextWatches == VInv /\ AskedOrWatched /\ [R!Next]_(R!vars) => AskedOrWatched'
<1> SUFFICES ASSUME VInv, AskedOrWatched, [R!Next]_(R!vars) PROVE AskedOrWatched'
  OBVIOUS
<1>1. ASSUME UNCHANGED <<requests, directories>>,
             \A q \in Checkouts : row'[q] # R!None <=> row[q] # R!None
      PROVE  AskedOrWatched'
  BY <1>1 DEF AskedOrWatched, LastAbout, NoneAbout
<1>2. ASSUME NEW r \in Checkouts, R!Register(r) PROVE AskedOrWatched'
  <2> DEFINE e == [do |-> "watch", root |-> r, initial |-> (row[r] = R!None)]
  <2>1. e \in Request
    BY DEF Request
  <2>2. row' = [row EXCEPT ![r] = IF @ = R!None THEN 0 ELSE @]
        /\ requests' = Append(requests, e) /\ directories' = directories
    BY <1>2 DEF R!Register, R!loop
  <2>3. row'[r] # R!None /\ \A q \in Checkouts : q # r => row'[q] = row[q]
    BY <2>2 DEF VInv, Typed, R!None
  <2> QED
    BY <2>1, <2>2, <2>3, RequestFollows
<1>3. ASSUME NEW r \in Checkouts, R!RemoveProject(r) PROVE AskedOrWatched'
  <2> DEFINE e == [do |-> "unwatch", root |-> r, initial |-> FALSE]
  <2>1. e \in Request
    BY DEF Request
  <2>2. row' = [row EXCEPT ![r] = R!None]
        /\ requests' = Append(requests, e) /\ directories' = directories
    BY <1>3 DEF R!RemoveProject, R!loop
  <2>3. row'[r] = R!None /\ \A q \in Checkouts : q # r => row'[q] = row[q]
    BY <2>2 DEF VInv, Typed
  <2> QED
    BY <2>1, <2>2, <2>3, RequestFollows
<1>4. CASE R!HandleWatch
  <2>1. requests # <<>> /\ requests' = Tail(requests) /\ row' = row
        /\ directories' = directories \cup {Head(requests).root}
        /\ Head(requests).do = "watch"
    BY <1>4 DEF R!HandleWatch
  <2> QED
    BY <2>1, LoopFollows
<1>5. CASE R!HandleUnwatch
  <2>1. requests # <<>> /\ requests' = Tail(requests) /\ row' = row
        /\ directories' = directories \ {Head(requests).root}
        /\ Head(requests).do # "watch"
    BY <1>5 DEF R!HandleUnwatch
  <2> QED
    BY <2>1, LoopFollows
<1>6. ASSUME NEW r \in Checkouts, R!Change(r) \/ R!Refresh(r) \/ R!HandleEvent(r)
      PROVE  AskedOrWatched'
  BY <1>1, <1>6 DEF R!Change, R!Refresh, R!HandleEvent, R!loop
<1>7. CASE R!HandleCompleted
  BY <1>1, <1>7 DEF R!HandleCompleted
<1>8. ASSUME NEW t \in 1..MaxTasks, R!Skip(t) \/ R!Lock(t) \/ R!Snapshot(t) PROVE AskedOrWatched'
  BY <1>1, <1>8 DEF R!Skip, R!Lock, R!Snapshot, R!loop
<1>9. ASSUME NEW t \in 1..MaxTasks, R!Commit(t) PROVE AskedOrWatched'
  <2>1. t \in DOMAIN tasks /\ tasks[t] \in TaskRecord
    BY <1>9 DEF R!Commit, R!At, VInv, Typed
  <2>2. tasks[t].read # R!None
    BY <2>1, VersionsAssumption DEF TaskRecord, R!None
  <2>3. \/ row' = row
        \/ row[tasks[t].root] # R!None /\ row' = [row EXCEPT ![tasks[t].root] = tasks[t].read]
    BY <1>9 DEF R!Commit
  <2>4. \A q \in Checkouts : row'[q] # R!None <=> row[q] # R!None
    BY <2>2, <2>3 DEF VInv, Typed
  <2> QED
    BY <1>1, <1>9, <2>4 DEF R!Commit, R!loop
<1>10. CASE UNCHANGED R!vars
  BY <1>1, <1>10 DEF R!vars
<1> QED
  BY <1>2, <1>3, <1>4, <1>5, <1>6, <1>7, <1>8, <1>9, <1>10 DEF R!Next

(* A loop that has read all its requests watches what is registered: a     *)
(* removal leaves no watch behind, and no registration is forgotten        *)
(* (handle_request in watch.rs, register_project and remove_project).      *)
THEOREM LoopWatchesRegistered == R!Spec => []R!WatchesRegistered
<1>1. R!Spec => []AskedOrWatched
  BY InitWatches, NextWatches, ReadsUnderMutex, PTL DEF R!Spec
<1>2. VInv /\ AskedOrWatched => R!WatchesRegistered
  <2> SUFFICES ASSUME VInv, AskedOrWatched, requests = <<>> PROVE directories = R!Registered
    BY DEF R!WatchesRegistered
  <2>1. \A r \in Checkouts : r \in directories <=> row[r] # R!None
    BY DEF AskedOrWatched, NoneAbout
  <2> QED
    BY <2>1 DEF VInv, Typed, R!Registered
<1> QED
  BY <1>1, <1>2, ReadsUnderMutex, PTL

-----------------------------------------------------------------------------
(* The run: each component does what its theorems say of it, whichever of  *)
(* them a behaviour is one of.                                             *)

LEMMA RunsBindings == MCSpec => Spec
<1>1. [MCNext]_all => [Next]_vars
  BY DEF MCNext, all, vars, InBindings, InLifecycle, InRepository
<1> QED
  BY <1>1, PTL DEF MCSpec, MCInit, Spec

LEMMA RunsRepository == MCSpec => R!Spec
<1>1. [MCNext]_all => [R!Next]_(R!vars)
  BY DEF MCNext, all, repository, R!vars, InBindings, InLifecycle, InRepository
<1> QED
  BY <1>1, PTL DEF MCSpec, MCInit, R!Spec

(* The bindings, the calls and the watch have their types, and a loop that *)
(* has read its requests watches what is registered (projects.rs,          *)
(* watch.rs).                                                              *)
THEOREM RunWatchesRegistered == MCSpec => []WatchesRegistered
BY RunsBindings, RunsRepository, BindingsTyped, WatchTypes, LoopWatchesRegistered, PTL
DEF WatchesRegistered
=============================================================================
