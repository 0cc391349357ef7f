--------------------------- MODULE GoalWork_proofs ---------------------------
(***************************************************************************)
(* The safety of GoalWork for every finite set of goals with any parents,  *)
(* and every number of changes and ends of the two processes.              *)
(***************************************************************************)
EXTENDS GoalWork, TLAPS, FiniteSetTheorems, SequenceTheorems

-----------------------------------------------------------------------------
(* The inductive invariant: types.                                         *)

Reasons == {"", "scope-replaced", "context-changed", "source-stopped", "source-disconnected",
            "recorder-stopped", "recorder-restarted-unknown-duration"}
Statuses == {"planned", "in-progress", "completed"}
GoalRows == UNION {[S -> Statuses] : S \in SUBSET Goals}
Lists == [goal : GoalRows, selected : Goals \cup {None}]
Rows == [owner : Nat, scope : Scopes, open : BOOLEAN, reason : Reasons,
         measured : BOOLEAN, late : BOOLEAN]
Holdings == [scope : Scopes, id : Nat]
Steps == [call : {"none", "check", "end", "begin"}, wanted : Scopes \cup {None}]

Types ==
    /\ goal \in GoalRows /\ selected \in DOMAIN goal \cup {None}
    /\ sessions \in Seq(Rows) /\ clocks \subseteq DOMAIN sessions
    /\ up \in BOOLEAN /\ unsent \in BOOLEAN /\ changed \in BOOLEAN
    /\ focus \in Seq(FocusStates) /\ seen \in FocusStates
    /\ inbox \in Seq(Lists) /\ view \in Lists
    /\ step \in Steps
    /\ current \in Holdings \cup {None}
    /\ current # None => current.id \in DOMAIN sessions

(* Connections are numbered; only the last one is alive.                   *)
Connections ==
    /\ owner \in Nat \ {0}
    /\ \A i \in DOMAIN sessions :
        sessions[i].owner \in 1..owner /\ (sessions[i].late => sessions[i].owner < owner)
    /\ lost \subseteq 1..(owner - 1)
    /\ \A call \in queued : call.owner \in 1..(owner - 1) /\ call.scope \in Scopes

(* The recorder begins when it holds nothing, and checks and ends what it  *)
(* holds.                                                                  *)
Calling ==
    /\ step.call = "none" => step = Quiet
    /\ step.call = "begin" => current = None /\ step.wanted \in Scopes
    /\ step.call \in {"check", "end"} => current # None

Down == ~up => clocks = {}

IInv == Types /\ Connections /\ Calling /\ Down /\ NoStrayWork /\ UnmeasuredOnlyByCrash

LEMMA InvImplies == IInv => WorkAccounted
<1> SUFFICES ASSUME IInv PROVE TypeOK
  BY DEF IInv, WorkAccounted
<1>1. DOMAIN goal \subseteq Goals
  BY DEF IInv, Types, GoalRows
<1>2. \A i \in DOMAIN sessions :
        /\ sessions[i].scope \in Scopes /\ sessions[i].owner \in 1..owner
        /\ sessions[i].open \in BOOLEAN /\ sessions[i].measured \in BOOLEAN
  <2> SUFFICES ASSUME NEW i \in DOMAIN sessions
               PROVE  /\ sessions[i].scope \in Scopes /\ sessions[i].owner \in 1..owner
                      /\ sessions[i].open \in BOOLEAN /\ sessions[i].measured \in BOOLEAN
    OBVIOUS
  <2>1. sessions[i] \in Rows
    BY DEF IInv, Types
  <2> QED
    BY <2>1 DEF IInv, Connections, Rows
<1>3. current = None \/ (current.scope \in Scopes /\ current.id \in DOMAIN sessions)
  BY DEF IInv, Types, Holdings
<1>4. step = Quiet \/ (step.call \in {"check", "end", "begin"}
                       /\ step.wanted \in Scopes \cup {None})
  BY DEF IInv, Types, Calling, Steps
<1> QED
  BY <1>1, <1>2, <1>3, <1>4 DEF IInv, Types, Connections, TypeOK

-----------------------------------------------------------------------------
(* What the recorder wants is a scope: the walk from the selected goal     *)
(* down stays among the goals.                                             *)

LEMMA LeastNat ==
    ASSUME NEW T \in SUBSET Nat, T # {}
    PROVE  \E m \in T : \A n \in T : m <= n
<1>1. PICK m \in T : \A n \in T : ~(<<n, m>> \in OpToRel(<, Nat))
  BY NatLessThanWellFounded, WFMin
<1>2. ASSUME NEW n \in T PROVE m <= n
  <2>1. ~(<<n, m>> \in OpToRel(<, Nat))
    BY <1>1, Zenon
  <2>2. n \in Nat /\ m \in Nat
    OBVIOUS
  <2>3. n < m => <<n, m>> \in OpToRel(<, Nat)
    BY <2>2, Zenon DEF OpToRel
  <2>4. ~(n < m)
    BY <2>1, <2>3, Zenon
  <2> QED
    BY <2>2, <2>4
<1> QED
  BY <1>2

LEMMA LeafIsGoal ==
    ASSUME NEW l \in Lists, l.selected \in DOMAIN l.goal
    PROVE  Leaf(l) \in Goals
<1> DEFINE Child(g) == LET children == InProgress(l, g)
                       IN  IF Cardinality(children) = 1
                           THEN CHOOSE c \in children : TRUE
                           ELSE g
           N == Cardinality(Goals)
           Walk(n, b) == b = [k \in 0..n |-> IF k = 0 THEN l.selected ELSE Child(b[k - 1])]
<1>1. DOMAIN l.goal \subseteq Goals /\ l.selected \in Goals
  BY DEF Lists, GoalRows
<1>2. ASSUME NEW g \in Goals PROVE Child(g) \in Goals
  <2> DEFINE C == InProgress(l, g)
  <2>1. C \subseteq Goals
    BY <1>1 DEF InProgress
  <2>2. IsFiniteSet(C)
    BY <2>1, ParentAssumption, FS_Subset
  <2>3. Cardinality(C) = 1 => C # {}
    BY <2>2, FS_EmptySet
  <2> HIDE DEF C
  <2>4. C # {} => (CHOOSE c \in C : TRUE) \in C
    OBVIOUS
  <2>5. Child(g) = IF Cardinality(C) = 1 THEN CHOOSE c \in C : TRUE ELSE g
    BY DEF C
  <2> QED
    BY <2>1, <2>3, <2>4, <2>5
<1>3. N \in Nat
  BY ParentAssumption, FS_CardinalityType
<1>4. Leaf(l) = (CHOOSE b : Walk(N, b))[N]
  BY DEF Leaf
<1> HIDE DEF Child, N
<1>5. \A n \in Nat : \E b : Walk(n, b)
  <2> DEFINE Bad == {n \in Nat : ~\E b : Walk(n, b)}
  <2> SUFFICES ASSUME Bad # {} PROVE FALSE
    OBVIOUS
  <2>1. PICK m \in Bad : \A n \in Bad : m <= n
    <3>1. Bad \in SUBSET Nat
      OBVIOUS
    <3> HIDE DEF Bad
    <3> QED
      BY <3>1, LeastNat
  <2>2. CASE m = 0
    <3> DEFINE b == [k \in 0..0 |-> l.selected]
    <3>1. Walk(0, b)
      OBVIOUS
    <3> QED
      BY <2>2, <3>1
  <2>3. CASE m # 0
    <3>1. m - 1 \in Nat /\ m - 1 \notin Bad
      BY <2>1, <2>3
    <3>2. PICK b : Walk(m - 1, b)
      BY <3>1
    <3> DEFINE c == [k \in 0..m |-> IF k = 0 THEN l.selected ELSE Child(b[k - 1])]
    <3>3. \A k \in 0..(m - 1) : c[k] = b[k]
      BY <3>1, <3>2
    <3>4. \A k \in 0..m : k # 0 => k - 1 \in 0..(m - 1)
      BY <2>3
    <3>5. \A k \in 0..m : c[k] = IF k = 0 THEN l.selected ELSE Child(c[k - 1])
      BY <3>3, <3>4
    <3>6. Walk(m, c)
      BY <3>5
    <3> QED
      BY <3>6
  <2> QED
    BY <2>2, <2>3
<1> DEFINE w == CHOOSE b : Walk(N, b)
<1>6. Walk(N, w)
  BY <1>3, <1>5
<1> HIDE DEF w
<1>7. w[0] = l.selected /\ \A k \in 1..N : w[k] = Child(w[k - 1])
  <2>1. \A k \in 0..N : w[k] = IF k = 0 THEN l.selected ELSE Child(w[k - 1])
    BY <1>6
  <2> QED
    BY <1>3, <2>1
<1>8. \A n \in 0..N : w[n] \in Goals
  <2> DEFINE Out == {n \in 0..N : w[n] \notin Goals}
  <2> SUFFICES ASSUME Out # {} PROVE FALSE
    OBVIOUS
  <2>1. PICK m \in Out : \A n \in Out : m <= n
    <3>1. Out \in SUBSET Nat
      BY <1>3
    <3> HIDE DEF Out
    <3> QED
      BY <3>1, LeastNat
  <2>2. m # 0
    BY <1>1, <1>7
  <2>3. m \in 1..N /\ m - 1 \in 0..N /\ m - 1 \notin Out
    BY <1>3, <2>1, <2>2
  <2>4. w[m - 1] \in Goals
    BY <2>3
  <2> QED
    BY <1>2, <1>7, <2>3, <2>4
<1> QED
  BY <1>3, <1>4, <1>8 DEF w

LEMMA ScopeFacts ==
    ASSUME NEW l \in Lists, NEW f
    PROVE  Scope(f, l) \in Scopes \cup {None}
BY LeafIsGoal DEF Scope, Scopes

LEMMA ObserveFacts ==
    ASSUME NEW wanted \in Scopes \cup {None}, NEW held \in Holdings \cup {None}
    PROVE  /\ Observe(wanted, held) \in Steps
           /\ Observe(wanted, held).call = "none" => Observe(wanted, held) = Quiet
           /\ Observe(wanted, held).call = "begin" =>
                held = None /\ Observe(wanted, held).wanted \in Scopes
           /\ Observe(wanted, held).call = "end" => held # None
           /\ Observe(wanted, held).call # "check"
BY DEF Observe, Steps, Quiet

-----------------------------------------------------------------------------
(* Sessions end and begin.                                                 *)

\* A row r that was s and has ended, or not.
Outcome(r, s, ended, i, reason) ==
    IF ended
    THEN /\ r.owner = s.owner /\ r.scope = s.scope /\ r.late = s.late
         /\ ~r.open /\ r.reason = reason /\ (r.measured <=> i \in clocks)
    ELSE r = s

LEMMA EndedFacts ==
    ASSUME sessions \in Seq(Rows), NEW ids, NEW reason \in Reasons
    PROVE  /\ Ended(ids, reason) \in Seq(Rows)
           /\ DOMAIN Ended(ids, reason) = DOMAIN sessions
           /\ Len(Ended(ids, reason)) = Len(sessions)
           /\ \A i \in DOMAIN sessions :
                Outcome(Ended(ids, reason)[i], sessions[i], i \in ids, i, reason)
<1> DEFINE E == Ended(ids, reason)
<1>1. DOMAIN sessions = 1..Len(sessions) /\ Len(sessions) \in Nat
  OBVIOUS
<1>2. DOMAIN E = DOMAIN sessions
  BY DEF Ended
<1>3. \A i \in DOMAIN sessions : sessions[i] \in Rows
  OBVIOUS
<1>4. ASSUME NEW i \in DOMAIN sessions
      PROVE  Outcome(E[i], sessions[i], i \in ids, i, reason) /\ E[i] \in Rows
  <2>1. sessions[i] \in Rows
    BY <1>3
  <2>2. CASE i \notin ids
    BY <2>1, <2>2 DEF Ended, Outcome
  <2>3. CASE i \in ids
    <3>1. E[i] = [sessions[i] EXCEPT !.open = FALSE, !.reason = reason,
                                     !.measured = (i \in clocks)]
      BY <2>3 DEF Ended
    <3>2. (i \in clocks) \in BOOLEAN
      OBVIOUS
    <3> QED
      BY <2>1, <2>3, <3>1, <3>2 DEF Rows, Outcome
  <2> QED
    BY <2>2, <2>3
<1>5. E = [i \in 1..Len(sessions) |-> E[i]]
  BY <1>1 DEF Ended
<1> HIDE DEF E
<1>6. E \in Seq(Rows) /\ Len(E) = Len(sessions)
  BY <1>1, <1>4, <1>5
<1> QED
  BY <1>2, <1>4, <1>6 DEF E

\* What is known of a row that may have been ended.
EndedRow(i, ids, reason) ==
    Outcome(sessions'[i], sessions[i], sessions[i].open /\ i \in ids, i, reason)

LEMMA FinishFacts ==
    ASSUME sessions \in Seq(Rows), NEW ids, NEW reason \in Reasons, Finish(ids, reason),
           ids \subseteq DOMAIN sessions
    PROVE  /\ sessions' \in Seq(Rows) /\ DOMAIN sessions' = DOMAIN sessions
           /\ clocks' = clocks \ ids
           /\ \A i \in DOMAIN sessions : EndedRow(i, ids, reason)
<1> DEFINE open == {i \in ids : sessions[i].open}
<1>1. sessions' = Ended(open, reason) /\ clocks' = clocks \ ids
  BY DEF Finish
<1>2. \A i \in DOMAIN sessions : sessions[i] \in Rows
  OBVIOUS
<1>3. ASSUME NEW i \in DOMAIN sessions PROVE EndedRow(i, ids, reason)
  <2>1. sessions[i].open \in BOOLEAN
    BY <1>2 DEF Rows
  <2>2. i \in open <=> sessions[i].open /\ i \in ids
    OBVIOUS
  <2> HIDE DEF open
  <2>3. Outcome(Ended(open, reason)[i], sessions[i], i \in open, i, reason)
    BY EndedFacts
  <2> QED
    BY <1>1, <2>2, <2>3 DEF EndedRow, Outcome
<1> HIDE DEF open
<1> QED
  BY <1>1, <1>3, EndedFacts

LEMMA BeginFacts ==
    ASSUME sessions \in Seq(Rows), NEW o, NEW row \in Rows, NEW n, n = Len(sessions) + 1,
           sessions' = Append(Ended(OpenOf(o), "scope-replaced"), row)
    PROVE  /\ n \notin DOMAIN sessions
           /\ sessions' \in Seq(Rows) /\ DOMAIN sessions' = DOMAIN sessions \cup {n}
           /\ sessions'[n] = row
           /\ \A i \in DOMAIN sessions : EndedRow(i, OpenOf(o), "scope-replaced")
<1> DEFINE E == Ended(OpenOf(o), "scope-replaced")
<1>3. /\ E \in Seq(Rows) /\ DOMAIN E = DOMAIN sessions /\ Len(E) = Len(sessions)
      /\ Len(sessions) \in Nat /\ DOMAIN sessions = 1..Len(sessions)
  <2>1. "scope-replaced" \in Reasons
    BY DEF Reasons
  <2>2. E \in Seq(Rows) /\ DOMAIN E = DOMAIN sessions /\ Len(E) = Len(sessions)
    BY <2>1, EndedFacts
  <2> QED
    BY <2>2
<1>4. /\ sessions' \in Seq(Rows) /\ Len(sessions') = n /\ sessions'[n] = row
      /\ \A i \in DOMAIN sessions : sessions'[i] = E[i]
  <2>1. sessions' = Append(E, row)
    OBVIOUS
  <2> HIDE DEF E
  <2> QED
    <3>1. /\ Append(E, row) \in Seq(Rows) /\ Len(Append(E, row)) = Len(E) + 1
          /\ \A i \in 1..Len(E) : Append(E, row)[i] = E[i]
          /\ Append(E, row)[Len(E) + 1] = row
      BY <1>3, AppendProperties
    <3> QED
      BY <1>3, <2>1, <3>1
<1>5. DOMAIN sessions' = DOMAIN sessions \cup {n} /\ n \notin DOMAIN sessions
  BY <1>3, <1>4
<1>6. ASSUME NEW i \in DOMAIN sessions PROVE EndedRow(i, OpenOf(o), "scope-replaced")
  <2>1. i \in OpenOf(o) => sessions[i].open
    BY DEF OpenOf
  <2>2. Outcome(E[i], sessions[i], i \in OpenOf(o), i, "scope-replaced")
    BY EndedFacts DEF Reasons
  <2>3. sessions'[i] = E[i]
    BY <1>4
  <2> HIDE DEF E
  <2> QED
    BY <2>1, <2>2, <2>3 DEF EndedRow, Outcome
<1> QED
  BY <1>4, <1>5, <1>6

\* Somebody will end session i.
Awaited(i) ==
    \/ sessions[i].owner = owner /\ current # None /\ current.id = i
       /\ current.scope = sessions[i].scope
    \/ sessions[i].owner \in lost
    \/ sessions[i].late

\* Sessions that end leave nothing astray, if the others are awaited as before.
LEMMA FinishHolds ==
    ASSUME IInv, up, NEW ids, NEW reason \in Reasons, Finish(ids, reason),
           ids \subseteq DOMAIN sessions, reason # "recorder-restarted-unknown-duration",
           \A i \in DOMAIN sessions :
                sessions[i].open /\ i \notin ids /\ Awaited(i) => Awaited(i)'
    PROVE  NoStrayWork' /\ UnmeasuredOnlyByCrash'
<1>1. /\ sessions' \in Seq(Rows) /\ DOMAIN sessions' = DOMAIN sessions
      /\ clocks' = clocks \ ids
      /\ \A i \in DOMAIN sessions : EndedRow(i, ids, reason)
  BY FinishFacts DEF IInv, Types
<1>2. \A i \in DOMAIN sessions : sessions[i].open =>
            i \in clocks /\ OpenOf(sessions[i].owner) = {i} /\ Awaited(i)
  BY DEF IInv, NoStrayWork, Awaited
<1>3. \A o : OpenOf(o)' = OpenOf(o) \ ids
  BY <1>1 DEF OpenOf, EndedRow, Outcome
<1>4. NoStrayWork'
  <2> SUFFICES ASSUME NEW i \in DOMAIN sessions', sessions'[i].open
               PROVE  i \in clocks' /\ OpenOf(sessions[i].owner)' = {i} /\ Awaited(i)'
    BY DEF NoStrayWork, Awaited
  <2>1. i \in DOMAIN sessions /\ sessions[i].open /\ i \notin ids
        /\ sessions'[i].owner = sessions[i].owner
    BY <1>1 DEF EndedRow, Outcome
  <2>2. OpenOf(sessions[i].owner)' = OpenOf(sessions[i].owner) \ ids
    BY <1>3, <2>1
  <2> QED
    BY <1>1, <1>2, <2>1, <2>2
<1>5. UnmeasuredOnlyByCrash'
  <2> SUFFICES ASSUME NEW i \in DOMAIN sessions', ~sessions'[i].open
               PROVE  sessions'[i].measured
                        <=> sessions'[i].reason # "recorder-restarted-unknown-duration"
    BY DEF UnmeasuredOnlyByCrash
  <2> QED
    BY <1>1, <1>2 DEF EndedRow, Outcome, IInv, UnmeasuredOnlyByCrash
<1> QED
  BY <1>4, <1>5

\* Nothing is astray when the sessions stay and are awaited as before.
LEMMA KeptHolds ==
    ASSUME IInv, UNCHANGED <<sessions, clocks>>, up' => up,
           \A i \in DOMAIN sessions : up /\ sessions[i].open /\ Awaited(i) => Awaited(i)'
    PROVE  NoStrayWork' /\ UnmeasuredOnlyByCrash'
<1>1. \A o : OpenOf(o)' = OpenOf(o)
  BY DEF OpenOf
<1>2. NoStrayWork'
  <2> SUFFICES ASSUME up', NEW i \in DOMAIN sessions', sessions'[i].open
               PROVE  i \in clocks' /\ OpenOf(sessions[i].owner)' = {i} /\ Awaited(i)'
    BY DEF NoStrayWork, Awaited
  <2>1. i \in clocks /\ OpenOf(sessions[i].owner) = {i} /\ Awaited(i)
    BY DEF IInv, NoStrayWork, Awaited
  <2>2. OpenOf(sessions[i].owner)' = OpenOf(sessions[i].owner)
    BY <1>1
  <2> QED
    BY <2>1, <2>2
<1>3. UnmeasuredOnlyByCrash'
  BY DEF IInv, UnmeasuredOnlyByCrash
<1> QED
  BY <1>2, <1>3

\* A connection whose open session was replaced has the new one open.
LEMMA BeginHolds ==
    ASSUME IInv, up, NEW o \in 1..owner, NEW s \in Scopes, NEW late \in BOOLEAN,
           Begin(o, s, late), Continuing(o, s) = {}, UNCHANGED <<up, owner, lost>>,
           late => o < owner /\ current' = current,
           ~late => o = owner /\ current' = [scope |-> s, id |-> Len(sessions) + 1]
    PROVE  /\ sessions' \in Seq(Rows)
           /\ DOMAIN sessions' = DOMAIN sessions \cup {Len(sessions) + 1}
           /\ clocks' \subseteq DOMAIN sessions'
           /\ \A i \in DOMAIN sessions' :
                /\ sessions'[i].owner \in 1..owner
                /\ sessions'[i].late => sessions'[i].owner < owner
           /\ NoStrayWork' /\ UnmeasuredOnlyByCrash'
<1>0. sessions \in Seq(Rows) /\ owner \in Nat \ {0} /\ clocks \subseteq DOMAIN sessions
  BY DEF IInv, Types, Connections
<1> PICK n \in Nat : n = Len(sessions) + 1
  BY <1>0
<1>11. PICK row \in Rows :
            /\ row.owner = o /\ row.scope = s /\ row.open /\ (row.late <=> late)
            /\ sessions' = Append(Ended(OpenOf(o), "scope-replaced"), row)
            /\ clocks' = (clocks \ OpenOf(o)) \cup {n}
  <2> DEFINE r == [owner |-> o, scope |-> s, open |-> TRUE, reason |-> "",
                   measured |-> FALSE, late |-> late]
  <2>1. r \in Rows
    <3>1. o \in Nat /\ "" \in Reasons
      BY <1>0 DEF Reasons
    <3>2. late = TRUE \/ late = FALSE
      OBVIOUS
    <3> QED
      BY <3>1, <3>2, Zenon DEF Rows
  <2>2. r.owner = o /\ r.scope = s /\ r.open /\ (r.late <=> late)
    OBVIOUS
  <2>3. /\ sessions' = Append(Ended(OpenOf(o), "scope-replaced"), r)
        /\ clocks' = (clocks \ OpenOf(o)) \cup {n}
    BY DEF Begin
  <2> HIDE DEF r
  <2> QED
    BY <2>1, <2>2, <2>3
<1>1. /\ n \notin DOMAIN sessions
      /\ sessions' \in Seq(Rows) /\ DOMAIN sessions' = DOMAIN sessions \cup {n}
      /\ clocks' = (clocks \ OpenOf(o)) \cup {n} /\ sessions'[n] = row
      /\ \A i \in DOMAIN sessions : EndedRow(i, OpenOf(o), "scope-replaced")
  BY <1>0, <1>11, BeginFacts
<1>2. /\ sessions'[n].owner = o /\ sessions'[n].scope = s /\ sessions'[n].open
      /\ sessions'[n].late <=> late
  BY <1>1, <1>11
<1>3. \A i \in DOMAIN sessions :
        /\ sessions'[i].owner = sessions[i].owner /\ sessions'[i].scope = sessions[i].scope
        /\ sessions'[i].late = sessions[i].late
        /\ sessions'[i].open => sessions'[i] = sessions[i] /\ sessions[i].owner # o
  BY <1>1 DEF EndedRow, Outcome, OpenOf
<1>4. \A i \in DOMAIN sessions' :
        sessions'[i].owner \in 1..owner /\ (sessions'[i].late => sessions'[i].owner < owner)
  BY <1>1, <1>2, <1>3 DEF IInv, Connections
<1>5. \A i \in DOMAIN sessions : sessions[i].open =>
            i \in clocks /\ OpenOf(sessions[i].owner) = {i} /\ Awaited(i)
  BY DEF IInv, NoStrayWork, Awaited
<1>6. OpenOf(o)' = {n}
  BY <1>1, <1>2, <1>3 DEF OpenOf
<1>7. ASSUME NEW p, p # o PROVE OpenOf(p)' = OpenOf(p)
  <2>1. ASSUME NEW i \in DOMAIN sessions, sessions[i].owner # o
        PROVE  sessions'[i] = sessions[i]
    BY <1>1, <2>1 DEF EndedRow, Outcome, OpenOf
  <2> QED
    BY <1>1, <1>2, <1>3, <1>7, <2>1 DEF OpenOf
<1>8. Awaited(n)'
  <2>1. CASE late
    BY <1>2, <2>1 DEF Awaited
  <2>2. CASE ~late
    <3>1. current' = [scope |-> s, id |-> n] /\ o = owner
      BY <2>2
    <3>2. current' # None
      BY <3>1, NoneAssumption
    <3> QED
      BY <1>2, <3>1, <3>2 DEF Awaited
  <2> QED
    BY <2>1, <2>2
<1>9. NoStrayWork'
  <2> SUFFICES ASSUME NEW i \in DOMAIN sessions', sessions'[i].open
               PROVE  i \in clocks' /\ OpenOf(sessions[i].owner)' = {i} /\ Awaited(i)'
    BY DEF NoStrayWork, Awaited
  <2>1. CASE i = n
    BY <1>1, <1>2, <1>6, <1>8, <2>1
  <2>2. CASE i # n
    <3>1. i \in DOMAIN sessions /\ sessions'[i] = sessions[i] /\ sessions[i].owner # o
      BY <1>1, <1>3, <2>2
    <3>2. OpenOf(sessions[i].owner)' = OpenOf(sessions[i].owner)
      BY <1>7, <3>1
    <3>3. i \notin OpenOf(o)
      BY <3>1 DEF OpenOf
    <3>4. i \in clocks /\ OpenOf(sessions[i].owner) = {i} /\ Awaited(i)
      BY <1>5, <3>1
    <3>5. Awaited(i)'
      BY <3>1, <3>4 DEF Awaited
    <3> QED
      BY <1>1, <3>1, <3>2, <3>3, <3>4, <3>5
  <2> QED
    BY <2>1, <2>2
<1>10. UnmeasuredOnlyByCrash'
  <2> SUFFICES ASSUME NEW i \in DOMAIN sessions', ~sessions'[i].open
               PROVE  sessions'[i].measured
                        <=> sessions'[i].reason # "recorder-restarted-unknown-duration"
    BY DEF UnmeasuredOnlyByCrash
  <2>1. i \in DOMAIN sessions
    BY <1>1, <1>2
  <2>2. EndedRow(i, OpenOf(o), "scope-replaced")
    BY <1>1, <2>1
  <2> QED
    BY <1>5, <2>1, <2>2 DEF EndedRow, Outcome, IInv, UnmeasuredOnlyByCrash
<1> QED
  BY <1>0, <1>1, <1>4, <1>9, <1>10

LEMMA QuietHolds ==
    ASSUME IInv, UNCHANGED <<sessions, up, clocks, lost, queued, owner, current>>
    PROVE  Connections' /\ Down' /\ NoStrayWork' /\ UnmeasuredOnlyByCrash'
<1>1. Connections'
  BY DEF IInv, Connections
<1>2. Down'
  BY DEF IInv, Down
<1>3. \A i \in DOMAIN sessions : Awaited(i) => Awaited(i)'
  BY DEF Awaited
<1>4. NoStrayWork' /\ UnmeasuredOnlyByCrash'
  BY <1>3, KeptHolds
<1> QED
  BY <1>1, <1>2, <1>4

-----------------------------------------------------------------------------
(* The user.                                                               *)

LEMMA GoalRowsFact == \A f :
    f \in GoalRows <=> DOMAIN f \subseteq Goals /\ f \in [DOMAIN f -> Statuses]
<1> TAKE f
<1>1. ASSUME f \in GoalRows PROVE DOMAIN f \subseteq Goals /\ f \in [DOMAIN f -> Statuses]
  <2> PICK S \in SUBSET Goals : f \in [S -> Statuses]
    BY <1>1 DEF GoalRows
  <2> QED
    OBVIOUS
<1>2. ASSUME DOMAIN f \subseteq Goals, f \in [DOMAIN f -> Statuses] PROVE f \in GoalRows
  BY <1>2 DEF GoalRows
<1> QED
  BY <1>1, <1>2

LEMMA FocusStep ==
    ASSUME IInv, NEW f \in FocusStates, Focus(f)
    PROVE  IInv'
<1>1. focus' \in Seq(FocusStates)
  BY DEF Focus, IInv, Types
<1>2. Types'
  BY <1>1 DEF Focus, IInv, Types, projd, stream
<1>3. Calling'
  BY DEF Focus, IInv, Calling
<1>4. Connections' /\ Down' /\ NoStrayWork' /\ UnmeasuredOnlyByCrash'
  BY QuietHolds DEF Focus, projd
<1> QED
  BY <1>2, <1>3, <1>4 DEF IInv

LEMMA EditStep ==
    ASSUME IInv, Edit, goal' \in GoalRows, selected' \in DOMAIN goal' \cup {None}
    PROVE  IInv'
<1>1. Types'
  BY DEF Edit, IInv, Types, steward, stream
<1>2. Calling'
  BY DEF Edit, IInv, Calling, steward
<1>3. Connections' /\ Down' /\ NoStrayWork' /\ UnmeasuredOnlyByCrash'
  BY QuietHolds DEF Edit, steward
<1> QED
  BY <1>1, <1>2, <1>3 DEF IInv

LEMMA SetStatusStep ==
    ASSUME IInv, NEW g \in Goals, NEW s \in Statuses, SetStatus(g, s)
    PROVE  IInv'
<1>1. DOMAIN goal \subseteq Goals /\ goal \in [DOMAIN goal -> Statuses]
      /\ selected \in DOMAIN goal \cup {None}
  BY GoalRowsFact DEF IInv, Types
<1>2. goal' \in [DOMAIN goal -> Statuses] /\ DOMAIN goal' = DOMAIN goal
  BY <1>1 DEF SetStatus
<1>3. goal' \in GoalRows
  BY <1>1, <1>2, GoalRowsFact
<1>4. selected' \in DOMAIN goal' \cup {None}
  BY <1>1, <1>2 DEF SetStatus
<1> QED
  BY <1>3, <1>4, EditStep DEF SetStatus

LEMMA SelectStep ==
    ASSUME IInv, NEW g \in Goals \cup {None}, Select(g)
    PROVE  IInv'
<1>1. goal' \in GoalRows /\ selected' \in DOMAIN goal' \cup {None}
  BY DEF Select, IInv, Types
<1> QED
  BY <1>1, EditStep DEF Select

LEMMA DeleteStep ==
    ASSUME IInv, NEW g \in Goals, Delete(g)
    PROVE  IInv'
<1>1. DOMAIN goal \subseteq Goals /\ goal \in [DOMAIN goal -> Statuses]
      /\ selected \in DOMAIN goal \cup {None}
  BY GoalRowsFact DEF IInv, Types
<1>2. goal' \in [DOMAIN goal \ {g} -> Statuses] /\ DOMAIN goal' = DOMAIN goal \ {g}
  BY <1>1 DEF Delete
<1>3. goal' \in GoalRows
  BY <1>1, <1>2, GoalRowsFact
<1>4. selected' \in DOMAIN goal' \cup {None}
  BY <1>1, <1>2 DEF Delete
<1> QED
  BY <1>3, <1>4, EditStep DEF Delete

LEMMA EmitChangedStep ==
    ASSUME IInv, EmitChanged
    PROVE  IInv'
<1>1. Types'
  BY DEF EmitChanged, IInv, Types, steward
<1>2. Calling'
  BY DEF EmitChanged, IInv, Calling, steward
<1>3. Connections' /\ Down' /\ NoStrayWork' /\ UnmeasuredOnlyByCrash'
  BY QuietHolds DEF EmitChanged, steward
<1> QED
  BY <1>1, <1>2, <1>3 DEF IInv

-----------------------------------------------------------------------------
(* steward's loop.                                                         *)

LEMMA TakeFocusStep ==
    ASSUME IInv, TakeFocus
    PROVE  IInv'
<1>1. /\ focus \in Seq(FocusStates) /\ focus # <<>> /\ view \in Lists
      /\ current \in Holdings \cup {None}
  BY DEF IInv, Types, TakeFocus
<1>2. Head(focus) \in FocusStates /\ Tail(focus) \in Seq(FocusStates)
  BY <1>1
<1>3. Scope(Head(focus), view) \in Scopes \cup {None}
  BY <1>1, ScopeFacts
<1>4. step' = Observe(Scope(Head(focus), view), current) /\ current' = current
  BY DEF TakeFocus
<1>5. step' \in Steps /\ Calling'
  BY <1>1, <1>3, <1>4, ObserveFacts DEF Calling
<1>6. Types'
  BY <1>2, <1>5 DEF TakeFocus, IInv, Types, projd, stream
<1>7. Connections' /\ Down' /\ NoStrayWork' /\ UnmeasuredOnlyByCrash'
  BY QuietHolds DEF TakeFocus, projd
<1> QED
  BY <1>5, <1>6, <1>7 DEF IInv

LEMMA TakeGoalsStep ==
    ASSUME IInv, TakeGoals
    PROVE  IInv'
<1>1. /\ inbox \in Seq(Lists) /\ inbox # <<>> /\ current \in Holdings \cup {None}
  BY DEF IInv, Types, TakeGoals
<1>2. Head(inbox) \in Lists /\ Tail(inbox) \in Seq(Lists)
  BY <1>1
<1>3. Scope(seen, Head(inbox)) \in Scopes \cup {None}
  BY <1>2, ScopeFacts
<1>4. PICK w \in Scopes \cup {None} : w = Scope(seen, Head(inbox))
  BY <1>3
<1>5. /\ current' = current
      /\ step' = IF current # None THEN [call |-> "check", wanted |-> w] ELSE Observe(w, None)
  BY <1>4 DEF TakeGoals
<1>6. step' \in Steps /\ Calling'
  <2>1. CASE current # None
    BY <1>5, <2>1 DEF Steps, Calling
  <2>2. CASE current = None
    BY <1>5, <2>2, ObserveFacts DEF Calling
  <2> QED
    BY <2>1, <2>2
<1>7. Types'
  BY <1>2, <1>6 DEF TakeGoals, IInv, Types, projd
<1>8. Connections' /\ Down' /\ NoStrayWork' /\ UnmeasuredOnlyByCrash'
  BY QuietHolds DEF TakeGoals, projd
<1> QED
  BY <1>6, <1>7, <1>8 DEF IInv

LEMMA CheckStep ==
    ASSUME IInv, Check
    PROVE  IInv'
<1>1. /\ current \in Holdings \cup {None} /\ current # None /\ current.id \in DOMAIN sessions
      /\ step.wanted \in Scopes \cup {None}
  BY DEF IInv, Types, Calling, Steps, Check
<1>2. PICK w \in Scopes \cup {None} : w = step.wanted
  BY <1>1
<1>3. PICK held \in Holdings \cup {None} : held = current'
  BY <1>1 DEF Check
<1>4. step' = Observe(w, held) /\ (held = current \/ held = None)
  BY <1>2, <1>3 DEF Check
<1>5. step' \in Steps /\ Calling'
  BY <1>3, <1>4, ObserveFacts DEF Calling
<1>6. Types'
  BY <1>1, <1>3, <1>4, <1>5 DEF Check, IInv, Types, projd, stream
<1>7. \A i \in DOMAIN sessions : up /\ sessions[i].open /\ Awaited(i) => Awaited(i)'
  BY DEF Check, projd, Awaited
<1>8. NoStrayWork' /\ UnmeasuredOnlyByCrash'
  <2>1. UNCHANGED <<sessions, clocks>> /\ (up' => up)
    BY DEF Check, projd
  <2> QED
    BY <1>7, <2>1, KeptHolds
<1>9. Connections' /\ Down'
  BY DEF Check, projd, IInv, Connections, Down
<1> QED
  BY <1>5, <1>6, <1>8, <1>9 DEF IInv

\* What follows the end of a session.
LEMMA EndCallCalls ==
    ASSUME IInv, EndCall
    PROVE  step' \in Steps /\ Calling'
<1>1. PICK w \in Scopes \cup {None} : w = step.wanted
  BY DEF IInv, Types, Steps, EndCall
<1>2. step' = Observe(w, None) /\ current' = None
  BY <1>1 DEF EndCall
<1> QED
  BY <1>2, ObserveFacts DEF Calling

LEMMA EndCallStep ==
    ASSUME IInv, EndCall
    PROVE  IInv'
<1>1. step' \in Steps /\ Calling'
  BY EndCallCalls
<1>2. current # None /\ current.id \in DOMAIN sessions /\ sessions \in Seq(Rows)
  BY DEF IInv, Types, Calling, EndCall
<1>3. CASE up
  <2>1. Finish({current.id}, "context-changed") /\ {current.id} \subseteq DOMAIN sessions
    BY <1>2, <1>3 DEF EndCall
  <2>2. "context-changed" \in Reasons
    BY DEF Reasons
  <2>3. /\ sessions' \in Seq(Rows) /\ DOMAIN sessions' = DOMAIN sessions
        /\ clocks' = clocks \ {current.id}
        /\ \A i \in DOMAIN sessions : EndedRow(i, {current.id}, "context-changed")
    BY <1>2, <2>1, <2>2, FinishFacts
  <2>4. \A i \in DOMAIN sessions :
            sessions[i].open /\ i \notin {current.id} /\ Awaited(i) => Awaited(i)'
    BY <2>3 DEF EndCall, Awaited, EndedRow, Outcome
  <2>5. NoStrayWork' /\ UnmeasuredOnlyByCrash'
    BY <1>3, <2>1, <2>2, <2>4, FinishHolds
  <2>6. Types'
    BY <1>1, <2>3 DEF EndCall, IInv, Types, stream
  <2>7. Connections'
    BY <2>3 DEF EndCall, IInv, Connections, EndedRow, Outcome
  <2>8. Down'
    BY <1>3 DEF EndCall, Down
  <2> QED
    BY <1>1, <2>5, <2>6, <2>7, <2>8 DEF IInv
<1>4. CASE ~up
  <2>1. UNCHANGED <<sessions, clocks, up>>
    BY <1>4 DEF EndCall
  <2>2. NoStrayWork' /\ UnmeasuredOnlyByCrash'
    BY <1>4, <2>1, KeptHolds
  <2>3. Types'
    BY <1>1, <2>1 DEF EndCall, IInv, Types, stream
  <2>4. Connections' /\ Down'
    BY <2>1 DEF EndCall, IInv, Connections, Down
  <2> QED
    BY <1>1, <2>2, <2>3, <2>4 DEF IInv
<1> QED
  BY <1>3, <1>4

LEMMA BeginCallStep ==
    ASSUME IInv, BeginCall
    PROVE  IInv'
<1>1. current = None /\ step.wanted \in Scopes /\ owner \in Nat \ {0}
  BY DEF IInv, Calling, Connections, BeginCall
<1>2. PICK s \in Scopes : s = step.wanted
  BY <1>1
<1>3. step' = Quiet /\ step' \in Steps
  BY DEF BeginCall, Quiet, Steps
<1>4. CASE CanBegin(s)
  <2>1. up /\ Begin(owner, s, FALSE)
        /\ current' = [scope |-> s, id |-> Begun(owner, s)]
    BY <1>2, <1>4 DEF BeginCall, CanBegin
  <2>2. Continuing(owner, s) = {}
    <3> SUFFICES ASSUME NEW i \in Continuing(owner, s) PROVE FALSE
      OBVIOUS
    <3>1. i \in DOMAIN sessions /\ sessions[i].open /\ sessions[i].owner = owner
      BY DEF Continuing, OpenOf
    <3>2. Awaited(i)
      BY <2>1, <3>1 DEF IInv, NoStrayWork, Awaited
    <3>3. owner \notin lost /\ ~sessions[i].late
      BY <1>1, <3>1 DEF IInv, Connections
    <3> QED
      BY <1>1, <3>1, <3>2, <3>3 DEF Awaited
  <2>3. current' = [scope |-> s, id |-> Len(sessions) + 1]
    BY <2>1, <2>2 DEF Begun
  <2>4. UNCHANGED <<up, owner, lost>>
    BY DEF BeginCall
  <2>5. owner \in 1..owner
    BY <1>1
  <2>6. /\ sessions' \in Seq(Rows)
        /\ DOMAIN sessions' = DOMAIN sessions \cup {Len(sessions) + 1}
        /\ clocks' \subseteq DOMAIN sessions'
        /\ \A i \in DOMAIN sessions' :
             /\ sessions'[i].owner \in 1..owner
             /\ sessions'[i].late => sessions'[i].owner < owner
        /\ NoStrayWork' /\ UnmeasuredOnlyByCrash'
    BY <2>1, <2>2, <2>3, <2>4, <2>5, BeginHolds
  <2>7. current' \in Holdings /\ current'.id \in DOMAIN sessions'
    <3>1. Len(sessions) \in Nat
      BY DEF IInv, Types
    <3> QED
      BY <2>3, <2>6, <3>1 DEF Holdings
  <2>8. Types'
    BY <1>3, <2>6, <2>7 DEF BeginCall, IInv, Types, stream
  <2>9. Connections' /\ Down' /\ Calling'
    BY <1>3, <2>1, <2>6 DEF BeginCall, IInv, Connections, Down, Calling, Quiet
  <2> QED
    BY <2>6, <2>8, <2>9 DEF IInv
<1>5. CASE ~CanBegin(s)
  <2>1. UNCHANGED <<sessions, clocks, current>>
    BY <1>2, <1>5 DEF BeginCall
  <2>2. Types'
    BY <1>3, <2>1 DEF BeginCall, IInv, Types, stream
  <2>3. Calling'
    BY <1>3 DEF Calling, Quiet
  <2>4. Connections' /\ Down' /\ NoStrayWork' /\ UnmeasuredOnlyByCrash'
    BY <2>1, QuietHolds DEF BeginCall
  <2> QED
    BY <2>2, <2>3, <2>4 DEF IInv
<1> QED
  BY <1>4, <1>5

-----------------------------------------------------------------------------
(* The stream of tracked goals.                                            *)

LEMMA NoGoalsIsAList == NoGoals \in Lists
<1>1. << >> \in [{} -> Statuses] /\ DOMAIN << >> = {}
  OBVIOUS
<1>2. << >> \in GoalRows
  BY <1>1, GoalRowsFact
<1> QED
  BY <1>2 DEF NoGoals, Lists

LEMMA SendFacts ==
    ASSUME inbox \in Seq(Lists), NEW rows \in Lists, Send(rows)
    PROVE  inbox' \in Seq(Lists)
BY AppendProperties DEF Send

LEMMA ListStep ==
    ASSUME IInv, List
    PROVE  IInv'
<1>1. Tracked \in Lists
  BY GoalRowsFact DEF IInv, Types, Tracked, Lists
<1>2. inbox' \in Seq(Lists)
  BY <1>1, NoGoalsIsAList, SendFacts DEF IInv, Types, List
<1>3. Types'
  BY <1>2 DEF List, IInv, Types, projd, steward
<1>4. Calling'
  BY DEF List, IInv, Calling, steward
<1>5. Connections' /\ Down' /\ NoStrayWork' /\ UnmeasuredOnlyByCrash'
  BY QuietHolds DEF List, projd, steward
<1> QED
  BY <1>3, <1>4, <1>5 DEF IInv

LEMMA TakeChangedStep ==
    ASSUME IInv, TakeChanged
    PROVE  IInv'
<1>1. Types'
  BY DEF TakeChanged, IInv, Types, projd, steward
<1>2. Calling'
  BY DEF TakeChanged, IInv, Calling, steward
<1>3. Connections' /\ Down' /\ NoStrayWork' /\ UnmeasuredOnlyByCrash'
  BY QuietHolds DEF TakeChanged, projd, steward
<1> QED
  BY <1>1, <1>2, <1>3 DEF IInv

LEMMA TakeOwnerStep ==
    ASSUME IInv, TakeOwner
    PROVE  IInv'
<1>1. inbox' \in Seq(Lists)
  BY NoGoalsIsAList, SendFacts DEF IInv, Types, TakeOwner
<1>2. Types'
  BY <1>1 DEF TakeOwner, IInv, Types, projd, steward
<1>3. Calling'
  BY DEF TakeOwner, IInv, Calling, steward
<1>4. Connections' /\ Down' /\ NoStrayWork' /\ UnmeasuredOnlyByCrash'
  BY QuietHolds DEF TakeOwner, projd, steward
<1> QED
  BY <1>2, <1>3, <1>4 DEF IInv

-----------------------------------------------------------------------------
(* The processes end and start.                                            *)

LEMMA StopStep ==
    ASSUME IInv, NEW graceful \in BOOLEAN, Stop(graceful)
    PROVE  IInv'
<1> DEFINE running == {i \in DOMAIN sessions : sessions[i].open}
<1>1. sessions \in Seq(Rows) /\ "recorder-stopped" \in Reasons
  BY DEF IInv, Types, Reasons
<1>2. \A i \in running : i \in clocks
  BY DEF IInv, NoStrayWork, Stop
<1>3. ~up' /\ clocks' = {} /\ lost' = {} /\ queued' = {}
      /\ (sessions' = sessions \/ sessions' = Ended(running, "recorder-stopped"))
      /\ UNCHANGED <<owner, current>>
  BY DEF Stop, steward
<1> HIDE DEF running
<1>4. /\ sessions' \in Seq(Rows) /\ DOMAIN sessions' = DOMAIN sessions
      /\ \A i \in DOMAIN sessions :
            sessions'[i] = sessions[i]
              \/ Outcome(sessions'[i], sessions[i], i \in running, i, "recorder-stopped")
  BY <1>1, <1>3, EndedFacts
<1>5. NoStrayWork' /\ Down'
  BY <1>3 DEF NoStrayWork, Down
<1>6. UnmeasuredOnlyByCrash'
  <2> SUFFICES ASSUME NEW i \in DOMAIN sessions', ~sessions'[i].open
               PROVE  sessions'[i].measured
                        <=> sessions'[i].reason # "recorder-restarted-unknown-duration"
    BY DEF UnmeasuredOnlyByCrash
  <2>1. CASE sessions'[i] = sessions[i]
    BY <1>4, <2>1 DEF IInv, UnmeasuredOnlyByCrash
  <2>2. CASE Outcome(sessions'[i], sessions[i], i \in running, i, "recorder-stopped")
    BY <1>2, <1>4, <2>2 DEF Outcome, IInv, UnmeasuredOnlyByCrash
  <2> QED
    BY <1>4, <2>1, <2>2
<1>7. Connections'
  BY <1>3, <1>4 DEF Outcome, IInv, Connections
<1>8. Types'
  BY <1>3, <1>4 DEF Stop, IInv, Types, steward
<1>9. Calling'
  BY DEF Stop, IInv, Calling, steward
<1> QED
  BY <1>5, <1>6, <1>7, <1>8, <1>9 DEF IInv

LEMMA StartStep ==
    ASSUME IInv, Start
    PROVE  IInv'
<1> DEFINE running == {i \in DOMAIN sessions : sessions[i].open}
           why == "recorder-restarted-unknown-duration"
<1>1. sessions \in Seq(Rows) /\ why \in Reasons /\ clocks = {}
  BY DEF IInv, Types, Down, Start, Reasons
<1>2. \A i \in DOMAIN sessions : i \in running <=> sessions[i].open
  OBVIOUS
<1>3. sessions' = Ended(running, why) /\ up' /\ UNCHANGED <<clocks, owner, current, lost, queued>>
  BY DEF Start, steward
<1> HIDE DEF running
<1>4. /\ sessions' \in Seq(Rows) /\ DOMAIN sessions' = DOMAIN sessions
      /\ \A i \in DOMAIN sessions :
            Outcome(sessions'[i], sessions[i], i \in running, i, why)
  BY <1>1, <1>3, EndedFacts
<1>5. \A i \in DOMAIN sessions' : ~sessions'[i].open
  BY <1>2, <1>4 DEF Outcome
<1>6. NoStrayWork' /\ Down'
  BY <1>3, <1>5 DEF NoStrayWork, Down
<1>7. UnmeasuredOnlyByCrash'
  <2> SUFFICES ASSUME NEW i \in DOMAIN sessions'
               PROVE  sessions'[i].measured <=> sessions'[i].reason # why
    BY DEF UnmeasuredOnlyByCrash
  <2>1. Outcome(sessions'[i], sessions[i], sessions[i].open, i, why) /\ i \in DOMAIN sessions
    BY <1>2, <1>4 DEF Outcome
  <2> QED
    BY <1>1, <2>1 DEF Outcome, IInv, UnmeasuredOnlyByCrash
<1>8. Connections'
  BY <1>3, <1>4 DEF Outcome, IInv, Connections
<1>9. Types'
  BY <1>3, <1>4 DEF Start, IInv, Types, steward
<1>10. Calling'
  BY DEF Start, IInv, Calling, steward
<1> QED
  BY <1>6, <1>7, <1>8, <1>9, <1>10 DEF IInv

LEMMA DieStep ==
    ASSUME IInv, NEW graceful \in BOOLEAN, Die(graceful)
    PROVE  IInv'
<1>1. /\ sessions \in Seq(Rows) /\ owner \in Nat \ {0} /\ lost \subseteq 1..(owner - 1)
      /\ focus \in Seq(FocusStates) /\ seen \in FocusStates
      /\ current # None => current.id \in DOMAIN sessions
  BY DEF IInv, Types, Connections
<1>2. /\ current' = None /\ step' = Quiet /\ view' = NoGoals /\ inbox' = <<>>
      /\ owner' = owner + 1 /\ lost' = (IF up THEN lost \cup {owner} ELSE lost)
      /\ UNCHANGED <<goal, selected, up, unsent>>
  BY DEF Die
<1>3. seen' \in FocusStates /\ focus' \in Seq(FocusStates)
  <2>1. [project |-> None, locked |-> FALSE, idle |-> FALSE] \in FocusStates
    BY DEF FocusStates
  <2>2. focus # <<>> => Last(focus) \in FocusStates
    BY <1>1 DEF Last
  <2>3. (IF focus = <<>> THEN seen ELSE Last(focus)) \in FocusStates
    BY <1>1, <2>2
  <2> QED
    BY <2>1, <2>3 DEF Die
<1>4. \A i \in DOMAIN sessions : up /\ sessions'[i].owner = sessions[i].owner
            /\ (sessions'[i].late <=> sessions[i].late) /\ Awaited(i) => Awaited(i)'
  BY <1>2 DEF Awaited
<1>5. /\ sessions' \in Seq(Rows) /\ DOMAIN sessions' = DOMAIN sessions
      /\ clocks' \subseteq clocks
      /\ \A i \in DOMAIN sessions :
            /\ sessions'[i].owner = sessions[i].owner
            /\ sessions'[i].late <=> sessions[i].late
      /\ NoStrayWork' /\ UnmeasuredOnlyByCrash'
  <2>1. CASE graceful /\ up /\ current # None
    <3>1. /\ Finish({current.id}, "source-stopped") /\ {current.id} \subseteq DOMAIN sessions
          /\ "source-stopped" \in Reasons
      BY <1>1, <2>1 DEF Die, Reasons
    <3>2. /\ sessions' \in Seq(Rows) /\ DOMAIN sessions' = DOMAIN sessions
          /\ clocks' = clocks \ {current.id}
          /\ \A i \in DOMAIN sessions : EndedRow(i, {current.id}, "source-stopped")
      BY <1>1, <3>1, FinishFacts
    <3>3. \A i \in DOMAIN sessions :
            /\ sessions'[i].owner = sessions[i].owner
            /\ sessions'[i].late <=> sessions[i].late
      BY <3>2 DEF EndedRow, Outcome
    <3>4. \A i \in DOMAIN sessions :
            sessions[i].open /\ i \notin {current.id} /\ Awaited(i) => Awaited(i)'
      BY <1>4, <2>1, <3>3
    <3>5. NoStrayWork' /\ UnmeasuredOnlyByCrash'
      BY <2>1, <3>1, <3>4, FinishHolds
    <3> QED
      BY <3>2, <3>3, <3>5
  <2>2. CASE ~(graceful /\ up /\ current # None)
    <3>1. UNCHANGED <<sessions, clocks>>
      BY <2>2 DEF Die
    <3>2. \A i \in DOMAIN sessions : up /\ sessions[i].open /\ Awaited(i) => Awaited(i)'
      BY <1>4, <3>1
    <3>3. NoStrayWork' /\ UnmeasuredOnlyByCrash'
      BY <1>2, <3>1, <3>2, KeptHolds
    <3> QED
      BY <1>1, <3>1, <3>3
  <2> QED
    BY <2>1, <2>2
<1>6. \A call \in queued' : call.owner \in 1..(owner' - 1) /\ call.scope \in Scopes
  <2> SUFFICES ASSUME NEW call \in queued'
               PROVE  call.owner \in 1..(owner' - 1) /\ call.scope \in Scopes
    OBVIOUS
  <2>1. \/ call \in queued
        \/ step.call = "begin" /\ call = [owner |-> owner, scope |-> step.wanted]
    BY DEF Die
  <2>2. CASE call \in queued
    BY <1>1, <1>2, <2>2 DEF IInv, Connections
  <2>3. CASE step.call = "begin" /\ call = [owner |-> owner, scope |-> step.wanted]
    BY <1>1, <1>2, <2>3 DEF IInv, Calling
  <2> QED
    BY <2>1, <2>2, <2>3
<1>7. Connections'
  <2>1. ASSUME NEW i \in DOMAIN sessions'
        PROVE  /\ sessions'[i].owner \in 1..owner'
               /\ sessions'[i].late => sessions'[i].owner < owner'
    <3>1. /\ i \in DOMAIN sessions /\ sessions'[i].owner = sessions[i].owner
          /\ sessions[i].owner \in 1..owner
      BY <1>5 DEF IInv, Connections
    <3> QED
      BY <1>1, <1>2, <3>1
  <2>2. owner' \in Nat \ {0} /\ lost' \subseteq 1..(owner' - 1)
    BY <1>1, <1>2
  <2> QED
    BY <1>6, <2>1, <2>2 DEF Connections
<1>8. Down' /\ Calling'
  BY <1>2, <1>5 DEF IInv, Down, Calling, Quiet
<1>9. Types'
  <2>1. step' \in Steps /\ inbox' \in Seq(Lists) /\ view' \in Lists
    BY <1>2, NoGoalsIsAList DEF Quiet, Steps
  <2>2. changed' \in BOOLEAN
    BY DEF Die
  <2> QED
    BY <1>2, <1>3, <1>5, <2>1, <2>2 DEF IInv, Types
<1> QED
  BY <1>5, <1>7, <1>8, <1>9 DEF IInv

LEMMA OwnerLostStep ==
    ASSUME IInv, NEW o \in lost, OwnerLost(o)
    PROVE  IInv'
<1>1. /\ sessions \in Seq(Rows) /\ OpenOf(o) \subseteq DOMAIN sessions
      /\ "source-disconnected" \in Reasons
  BY DEF IInv, Types, OpenOf, Reasons
<1>2. up /\ Finish(OpenOf(o), "source-disconnected") /\ lost' = lost \ {o}
      /\ UNCHANGED <<up, queued, owner, current, step>>
  BY DEF OwnerLost, steward
<1>3. /\ sessions' \in Seq(Rows) /\ DOMAIN sessions' = DOMAIN sessions
      /\ clocks' = clocks \ OpenOf(o)
      /\ \A i \in DOMAIN sessions : EndedRow(i, OpenOf(o), "source-disconnected")
  BY <1>1, <1>2, FinishFacts
<1>4. ASSUME NEW i \in DOMAIN sessions, sessions[i].open, i \notin OpenOf(o), Awaited(i)
      PROVE  Awaited(i)'
  <2>1. sessions'[i] = sessions[i] /\ sessions[i].owner # o
    BY <1>3, <1>4 DEF EndedRow, Outcome, OpenOf
  <2> QED
    BY <1>2, <1>4, <2>1 DEF Awaited
<1>5. NoStrayWork' /\ UnmeasuredOnlyByCrash'
  BY <1>1, <1>2, <1>4, FinishHolds
<1>6. Connections'
  BY <1>2, <1>3 DEF EndedRow, Outcome, IInv, Connections
<1>7. Types'
  BY <1>2, <1>3 DEF OwnerLost, IInv, Types, steward, stream
<1>8. Down' /\ Calling'
  BY <1>2, <1>3 DEF IInv, Down, Calling
<1> QED
  BY <1>5, <1>6, <1>7, <1>8 DEF IInv

LEMMA RunQueuedStep ==
    ASSUME IInv, NEW call \in queued, RunQueued(call)
    PROVE  IInv'
<1>1. call.owner \in 1..(owner - 1) /\ call.scope \in Scopes /\ owner \in Nat \ {0}
  BY DEF IInv, Connections
<1>2. up /\ queued' \subseteq queued /\ UNCHANGED <<up, lost, owner, current, step>>
  BY DEF RunQueued, steward
<1>3. Calling'
  BY <1>2 DEF IInv, Calling
<1>4. CASE UNCHANGED <<sessions, clocks>>
  <2>1. \A i \in DOMAIN sessions : Awaited(i) => Awaited(i)'
    BY <1>2, <1>4 DEF Awaited
  <2>2. NoStrayWork' /\ UnmeasuredOnlyByCrash'
    BY <1>2, <1>4, <2>1, KeptHolds
  <2>3. Connections' /\ Down'
    BY <1>2, <1>4 DEF IInv, Connections, Down
  <2>4. Types'
    BY <1>2, <1>4 DEF RunQueued, IInv, Types, steward, stream
  <2> QED
    BY <1>3, <2>2, <2>3, <2>4 DEF IInv
<1>5. CASE Begin(call.owner, call.scope, TRUE) /\ Continuing(call.owner, call.scope) = {}
  <2>1. PICK o \in 1..owner : o = call.owner /\ o < owner
    BY <1>1
  <2>2. PICK s \in Scopes : s = call.scope
    BY <1>1
  <2>3. Begin(o, s, TRUE) /\ Continuing(o, s) = {} /\ UNCHANGED <<up, owner, lost>>
    BY <1>2, <1>5, <2>1, <2>2
  <2>4. /\ sessions' \in Seq(Rows)
        /\ DOMAIN sessions' = DOMAIN sessions \cup {Len(sessions) + 1}
        /\ clocks' \subseteq DOMAIN sessions'
        /\ \A i \in DOMAIN sessions' :
             /\ sessions'[i].owner \in 1..owner
             /\ sessions'[i].late => sessions'[i].owner < owner
        /\ NoStrayWork' /\ UnmeasuredOnlyByCrash'
    BY <1>2, <2>1, <2>3, BeginHolds
  <2>5. Types'
    BY <1>2, <2>4 DEF RunQueued, IInv, Types, steward, stream
  <2>6. Connections' /\ Down'
    BY <1>2, <2>4 DEF IInv, Connections, Down
  <2> QED
    BY <1>3, <2>4, <2>5, <2>6 DEF IInv
<1> QED
  BY <1>4, <1>5 DEF RunQueued, Begin

-----------------------------------------------------------------------------
LEMMA InitHolds == Init => IInv
<1> SUFFICES ASSUME Init PROVE IInv
  OBVIOUS
<1>1. goal \in GoalRows
  <2>1. PICK S \in SUBSET Goals : goal \in [S -> {"planned", "in-progress"}]
    BY DEF Init
  <2>2. goal \in [S -> Statuses]
    BY <2>1 DEF Statuses
  <2> QED
    BY <2>2 DEF GoalRows
<1>2. [project |-> None, locked |-> FALSE, idle |-> FALSE] \in FocusStates
  BY DEF FocusStates
<1>3. Types
  <2>1. /\ sessions \in Seq(Rows) /\ clocks \subseteq DOMAIN sessions
        /\ focus \in Seq(FocusStates) /\ inbox \in Seq(Lists)
    BY DEF Init
  <2>2. step \in Steps
    BY DEF Init, Steps, Quiet
  <2>3. /\ view \in Lists /\ seen \in FocusStates /\ current = None
        /\ selected \in DOMAIN goal \cup {None}
    BY <1>2, NoGoalsIsAList DEF Init
  <2>4. up \in BOOLEAN /\ unsent \in BOOLEAN /\ changed \in BOOLEAN
    BY DEF Init
  <2> QED
    BY <1>1, <2>1, <2>2, <2>3, <2>4 DEF Types
<1>4. Connections /\ Calling /\ Down /\ NoStrayWork /\ UnmeasuredOnlyByCrash
  BY DEF Init, Connections, Calling, Down, NoStrayWork, UnmeasuredOnlyByCrash, Quiet
<1> QED
  BY <1>3, <1>4 DEF IInv

LEMMA NextHolds == IInv /\ [Next]_vars => IInv'
<1> SUFFICES ASSUME IInv, [Next]_vars PROVE IInv'
  OBVIOUS
<1>1. CASE UNCHANGED vars
  <2>1. Types'
    BY <1>1 DEF vars, projd, steward, stream, IInv, Types
  <2>2. Calling'
    BY <1>1 DEF vars, steward, IInv, Calling
  <2>3. Connections' /\ Down' /\ NoStrayWork' /\ UnmeasuredOnlyByCrash'
    BY <1>1, QuietHolds DEF vars, projd, steward
  <2> QED
    BY <2>1, <2>2, <2>3 DEF IInv
<1>2. ASSUME NEW f \in FocusStates, Focus(f) PROVE IInv'
  BY <1>2, FocusStep
<1>3. ASSUME NEW g \in Goals, NEW s \in Statuses, SetStatus(g, s) PROVE IInv'
  BY <1>3, SetStatusStep
<1>4. ASSUME NEW g \in Goals \cup {None}, Select(g) PROVE IInv'
  BY <1>4, SelectStep
<1>5. ASSUME NEW g \in Goals, Delete(g) PROVE IInv'
  BY <1>5, DeleteStep
<1>6. ASSUME EmitChanged \/ TakeFocus \/ TakeGoals \/ Check \/ EndCall \/ BeginCall PROVE IInv'
  BY <1>6, EmitChangedStep, TakeFocusStep, TakeGoalsStep, CheckStep, EndCallStep, BeginCallStep
<1>7. ASSUME List \/ TakeChanged \/ TakeOwner \/ Start PROVE IInv'
  BY <1>7, ListStep, TakeChangedStep, TakeOwnerStep, StartStep
<1>8. ASSUME NEW graceful \in BOOLEAN, Stop(graceful) \/ Die(graceful) PROVE IInv'
  BY <1>8, StopStep, DieStep
<1>9. ASSUME NEW o \in lost, OwnerLost(o) PROVE IInv'
  BY <1>9, OwnerLostStep
<1>10. ASSUME NEW call \in queued, RunQueued(call) PROVE IInv'
  BY <1>10, RunQueuedStep
<1> QED
  BY <1>1, <1>2, <1>3, <1>4, <1>5, <1>6, <1>7, <1>8, <1>9, <1>10 DEF Next, Statuses

(* The states reached satisfy the inductive invariant (Recorder of         *)
(* goal_work.rs; begin_goal_work, end_goal_work, monitor_owners, close_all *)
(* and interrupt_open_work of projd's metrics.rs).                         *)
THEOREM WorkInvariant == Spec => []IInv
BY InitHolds, NextHolds, PTL DEF Spec

(* However the focus and the goals change, and however often either        *)
(* process ends with a call in hand: no time is booked on a session that   *)
(* nobody will end, a connection has one open session at most, and a       *)
(* duration is unknown only where projd crashed under the session.         *)
THEOREM WorkIsAccounted == Spec => []WorkAccounted
BY WorkInvariant, InvImplies, PTL

=============================================================================
