------------------------ MODULE WorkspaceSource_proofs ------------------------
(***************************************************************************)
(* The safety of WorkspaceSource for every finite set of native ids, every *)
(* set of windows and public ids, and every number of changes, frames and  *)
(* generations.                                                            *)
(***************************************************************************)
EXTENDS WorkspaceSource, TLAPS, FiniteSetTheorems, SequenceTheorems

-----------------------------------------------------------------------------
(* The inductive invariant: types.                                         *)

Lives == Partial(Native, Nat)
Counts == {Cardinality(W) : W \in SUBSET Windows}
WsFrames == [family : {"workspaces"}, live : Lives, focus : Native \cup {None},
             count : Partial(Native, Counts)]
WinFrames == [family : {"windows"}, home : Partial(Windows, Native \cup {None})]
Frames == WsFrames \cup WinFrames \cup {OtherFrames}
None0(S) == {{}} \cup {{x} : x \in S}   \* at most one

Types ==
    /\ comp \in [live : Lives, home : Partial(Windows, Native \cup {None}),
                 focus : Native \cup {None}]
    /\ changes \in Nat
    /\ stream \in Seq(Frames)
    /\ session \in [open : BOOLEAN, generation : Nat]
    /\ families \in [workspaces : None0(WsFrames), windows : None0(WinFrames),
                     others : None0({OtherFrames})]
    /\ counted \in BOOLEAN
    /\ ids \in Partial(Native, PublicIds) /\ used \subseteq PublicIds
    /\ state \in Projections /\ target \in Projections
    /\ registered \subseteq PublicIds \cup Windows
    /\ publishing \in {"no", "register", "unregister"}
    /\ meant \subseteq PublicIds \X Native \X Nat

-----------------------------------------------------------------------------
(* Publication.                                                            *)

\* A projection that refers to what it has, but for the most-recently-used order.
Shaped(p) ==
    /\ p.listed = p.workspaces
    /\ DOMAIN p.home = p.windows
    /\ \A w \in p.windows : p.home[w] \in p.workspaces \cup {None}
    /\ p.focus \in p.workspaces \cup {None}
    /\ ~p.connected => p.workspaces = {} /\ p.windows = {}

WellFormed(p) ==
    /\ Shaped(p)
    /\ Range(p.mru) = p.workspaces
    /\ Len(p.mru) = Cardinality(p.workspaces)
    /\ p.focus # None => Head(p.mru) = p.focus

\* What readers see between the staging and the commit.
Staging ==
    /\ Objects(target) \subseteq Objects(state) /\ registered \subseteq Objects(state)
    /\ state.listed \subseteq state.workspaces \cap registered
    /\ DOMAIN state.home = state.windows
    /\ \A w \in state.windows : state.home[w] \in registered \cup {None}
    /\ state.focus \in registered \cup {None}

Phases ==
    /\ WellFormed(target)
    /\ publishing # "register" => state = target /\ Objects(state) \subseteq registered
    /\ publishing = "no" => registered = Objects(state)
    /\ publishing = "register" => Staging

\* What is published on an open connection is what the reducer has, and what is
\* published when it has ended is nothing.
Sources ==
    /\ session.open /\ publishing # "no" =>
        /\ target.connected /\ target.generation = session.generation
        /\ families.workspaces # {} /\ target.workspaces = Range(ids)
    /\ session.open /\ publishing = "register" /\ counted =>
        \A win \in families.windows : \A w \in DOMAIN win.home :
            w \in DOMAIN target.home /\ (win.home[w] # None => target.home[w] # None)
    /\ ~session.open /\ publishing = "register" =>
        state.connected /\ ~target.connected /\ target.generation = state.generation + 1
    /\ ~session.open /\ publishing # "register" => ~state.connected
    /\ session.open => session.generation = IF state.connected THEN state.generation
                                            ELSE state.generation + 1
    /\ ~state.connected => meant = {} /\ state.listed = {}

-----------------------------------------------------------------------------
(* The lives of native ids.                                                *)

Latest == CHOOSE f \in families.workspaces : TRUE

\* The workspaces frames in order: the last that was read, those not read, and the
\* one the compositor would send now.
Pos(i) == \/ i = 0 /\ families.workspaces # {}
          \/ i \in DOMAIN stream /\ stream[i].family = "workspaces"
          \/ i = Len(stream) + 1
At(i) == IF i = 0 THEN Latest.live
         ELSE IF i \in DOMAIN stream THEN stream[i].live ELSE comp.live

Reduced ==
    /\ DOMAIN ids = IF families.workspaces = {} THEN {} ELSE DOMAIN Latest.live
    /\ \A m, n \in DOMAIN ids : ids[m] = ids[n] => m = n
    /\ Range(ids) \subseteq used

\* Two frames mean the same life of an id exactly if all frames between them have it.
Ordered ==
    \A i, j \in 0..(Len(stream) + 1) : Pos(i) /\ Pos(j) /\ i < j =>
        \A n \in DOMAIN At(i) \cap DOMAIN At(j) :
            At(i)[n] = At(j)[n] <=> \A l \in (i + 1)..(j - 1) : Pos(l) => n \in DOMAIN At(l)

\* The last frame sent is what the compositor is.
Fresh ==
    \E i \in 0..Len(stream) :
        /\ Pos(i) /\ At(i) = comp.live
        /\ \A l \in (i + 1)..Len(stream) : ~Pos(l)

Bounded ==
    \A i \in 0..(Len(stream) + 1) : Pos(i) =>
        \A n \in DOMAIN At(i) : At(i)[n] <= changes

Current(x) ==
    /\ families.workspaces # {} /\ x[2] \in DOMAIN ids /\ ids[x[2]] = x[1]
    /\ Latest.live[x[2]] = x[3] /\ x[1] \in state.listed
Gone(x) ==
    /\ x[1] \in used \ Range(ids)
    /\ \A i \in 0..(Len(stream) + 1) :
        Pos(i) /\ x[2] \in DOMAIN At(i) => At(i)[x[2]] # x[3]

History ==
    session.open =>
        /\ Ordered /\ Fresh
        /\ \A x \in meant : x[3] <= changes /\ (Current(x) \/ Gone(x))

IInv == Types /\ Phases /\ Sources /\ Reduced /\ Bounded /\ History /\ OneLifePerIdentity

-----------------------------------------------------------------------------
(* Sequences and functions.                                                *)

LEMMA EmptyFunction == ASSUME NEW T PROVE <<>> \in [{} -> T] /\ DOMAIN <<>> = {}
OBVIOUS

LEMMA EmptyPartial == ASSUME NEW S, NEW T PROVE <<>> \in Partial(S, T) /\ DOMAIN <<>> = {}
<1>1. <<>> \in [{} -> T] /\ DOMAIN <<>> = {}
  BY EmptyFunction
<1> QED
  BY <1>1 DEF Partial

LEMMA PartialFunction ==
    ASSUME NEW S, NEW T, NEW f \in Partial(S, T)
    PROVE  DOMAIN f \subseteq S /\ f \in [DOMAIN f -> T] /\ \A x \in DOMAIN f : f[x] \in T
BY DEF Partial

LEMMA Arrangements ==
    ASSUME NEW S, IsFiniteSet(S), NEW f \in SetToSeqs(S)
    PROVE  /\ f \in Seq(S) /\ Len(f) = Cardinality(S) /\ DOMAIN f = 1..Cardinality(S)
           /\ Range(f) = S
           /\ \A i, j \in DOMAIN f : f[i] = f[j] => i = j
<1> DEFINE D == 1..Cardinality(S)
<1>1. Cardinality(S) \in Nat
  BY FS_CardinalityType
<1>2. f \in [D -> S] /\ \A i, j \in D : i # j => f[i] # f[j]
  BY DEF SetToSeqs
<1>3. f \in Injection(D, S)
  BY <1>2 DEF Injection, IsInjective
<1>4. Cardinality(D) = Cardinality(S)
  BY <1>1, FS_Interval
<1>5. f \in Surjection(D, S)
  BY <1>3, <1>4, FS_Injection
<1>6. f \in Seq(S) /\ Len(f) = Cardinality(S) /\ DOMAIN f = D
  BY <1>1, <1>2
<1>7. Range(f) = S
  BY <1>2, <1>5 DEF Surjection, Range
<1> QED
  BY <1>2, <1>6, <1>7

-----------------------------------------------------------------------------
(* Publication.                                                            *)

LEMMA EmptyIsShaped ==
    ASSUME NEW g \in Nat
    PROVE  /\ EmptyProjection(g) \in Projections /\ Shaped(EmptyProjection(g))
           /\ WellFormed(EmptyProjection(g))
<1>1. <<>> \in Partial(Windows, PublicIds \cup {None}) /\ DOMAIN <<>> = {}
  BY EmptyPartial
<1>2. EmptyProjection(g) \in Projections
  BY <1>1 DEF EmptyProjection, Projections
<1>3. Shaped(EmptyProjection(g))
  BY <1>1 DEF EmptyProjection, Shaped
<1>4. Range(<<>>) = {} /\ Len(<<>>) = Cardinality({})
  BY <1>1, FS_EmptySet DEF Range
<1> QED
  BY <1>2, <1>3, <1>4 DEF WellFormed, EmptyProjection

LEMMA ProjectIsShaped ==
    ASSUME NEW ws \in WsFrames, NEW win \in WinFrames,
           NEW map \in [DOMAIN ws.live -> PublicIds], NEW g \in Nat
    PROVE  LET p == Project(ws, win, map, g)
           IN  /\ p \in Projections /\ Shaped(p) /\ IsFiniteSet(p.workspaces)
               /\ p.connected /\ p.generation = g /\ p.workspaces = Range(map)
               /\ DOMAIN p.home = DOMAIN win.home
               /\ Consistent(ws, win) =>
                    \A w \in DOMAIN win.home : win.home[w] # None => p.home[w] # None
<1> DEFINE p == Project(ws, win, map, g)
           public(n) == IF n \in DOMAIN ws.live THEN map[n] ELSE None
<1>1. ws.live \in Lives /\ win.home \in Partial(Windows, Native \cup {None})
  BY DEF WsFrames, WinFrames
<1>2. DOMAIN ws.live \subseteq Native /\ DOMAIN win.home \subseteq Windows
  BY <1>1, PartialFunction DEF Lives
<1>3. {map[n] : n \in DOMAIN ws.live} = Range(map)
  BY DEF Range
<1>4. p = [connected |-> TRUE, generation |-> g, workspaces |-> Range(map),
           listed |-> Range(map), windows |-> DOMAIN win.home,
           home |-> [w \in DOMAIN win.home |-> public(win.home[w])],
           focus |-> public(ws.focus), mru |-> <<>>]
  BY <1>3 DEF Project
<1>5. \A n : public(n) \in Range(map) \cup {None}
  BY DEF Range
<1>6. Range(map) \subseteq PublicIds
  BY DEF Range
<1>7. p.home \in Partial(Windows, PublicIds \cup {None})
  <2>1. p.home \in [DOMAIN win.home -> PublicIds \cup {None}]
    BY <1>4, <1>5, <1>6
  <2> QED
    BY <2>1, <1>2 DEF Partial
<1>8. p \in Projections
  BY <1>2, <1>4, <1>5, <1>6, <1>7 DEF Projections
<1>9. Shaped(p)
  BY <1>4, <1>5 DEF Shaped
<1>10. IsFiniteSet(Range(map))
  <2>1. IsFiniteSet(DOMAIN ws.live)
    BY <1>2, NativeFinite, FS_Subset
  <2>2. map \in Surjection(DOMAIN ws.live, Range(map))
    BY DEF Surjection, Range
  <2> QED
    BY <2>1, <2>2, FS_Surjection
<1>11. ASSUME Consistent(ws, win), NEW w \in DOMAIN win.home, win.home[w] # None
       PROVE  p.home[w] # None
  <2>1. win.home[w] \in DOMAIN ws.live
    BY <1>11 DEF Consistent
  <2>2. p.home[w] = map[win.home[w]]
    BY <2>1, <1>4
  <2> QED
    BY <2>1, <2>2, IdsAssumption
<1> QED
  BY <1>4, <1>8, <1>9, <1>10, <1>11

LEMMA StagedTyped ==
    ASSUME NEW p \in Projections, NEW W \in SUBSET PublicIds, NEW X \in SUBSET Windows,
           NEW h \in Partial(Windows, PublicIds \cup {None}), NEW m \in Seq(PublicIds)
    PROVE  [p EXCEPT !.workspaces = W, !.windows = X, !.home = h, !.mru = m] \in Projections
BY DEF Projections

\* A publication starts with the additions, and changes nothing readers know.
LEMMA PublishStages ==
    ASSUME Types, Phases, publishing = "no", NEW next \in Projections, Shaped(next),
           IsFiniteSet(next.workspaces), Publish(next)
    PROVE  /\ state' \in Projections /\ target' \in Projections
           /\ UNCHANGED <<registered, meant>> /\ publishing' \in {"no", "register"}
           /\ Phases'
           /\ state'.connected = state.connected /\ state'.generation = state.generation
           /\ state'.listed = state.listed
           /\ publishing' = "no" => state.connected = next.connected
           /\ publishing' = "register" =>
                /\ target'.connected = next.connected /\ target'.generation = next.generation
                /\ target'.workspaces = next.workspaces /\ target'.home = next.home
<1>1. PICK mru \in Mrus(state.mru, next) :
        LET full == [next EXCEPT !.mru = mru]
        IN  IF full = state THEN UNCHANGED bus
            ELSE /\ target' = full /\ state' = Staged(state, full)
                 /\ publishing' = "register" /\ UNCHANGED <<registered, meant>>
  BY DEF Publish
<1> DEFINE full == [next EXCEPT !.mru = mru]
<1>2. mru \in Seq(next.workspaces) /\ Range(mru) = next.workspaces
      /\ Len(mru) = Cardinality(next.workspaces) /\ (next.focus # None => Head(mru) = next.focus)
  BY Arrangements DEF Mrus
<1>3. next.workspaces \subseteq PublicIds
  BY DEF Projections
<1>4. mru \in Seq(PublicIds)
  BY <1>2, <1>3
<1>5. full \in Projections
  BY <1>4 DEF Projections
<1>6. /\ full.connected = next.connected /\ full.generation = next.generation
      /\ full.workspaces = next.workspaces /\ full.home = next.home /\ full.listed = next.listed
      /\ full.windows = next.windows /\ full.focus = next.focus /\ full.mru = mru
  BY DEF Projections
<1>7. WellFormed(full)
  BY <1>2, <1>6 DEF WellFormed, Shaped
<1>8. state = target /\ WellFormed(state) /\ registered = Objects(state) /\ state \in Projections
  BY DEF Phases, Types
<1>9. CASE full = state
  <2>1. UNCHANGED bus
    BY <1>1, <1>9
  <2>2. Phases'
    BY <2>1 DEF Phases, bus, Staging, WellFormed, Shaped, Objects
  <2> QED
    BY <1>6, <1>8, <1>9, <2>1, <2>2 DEF bus
<1>10. CASE full # state
  <2>1. /\ target' = full /\ state' = Staged(state, full) /\ publishing' = "register"
        /\ UNCHANGED <<registered, meant>>
    BY <1>1, <1>10
  <2> DEFINE homes == [w \in state.windows \cup full.windows |->
                         IF w \in state.windows THEN state.home[w] ELSE None]
  <2>2. /\ state'.connected = state.connected /\ state'.generation = state.generation
        /\ state'.workspaces = state.workspaces \cup full.workspaces
        /\ state'.windows = state.windows \cup full.windows
        /\ state'.listed = state.listed /\ state'.focus = state.focus
        /\ state'.home = homes /\ state'.mru = full.mru
    BY <2>1, <1>8 DEF Staged, Projections
  <2>3. \A w \in state'.windows : homes[w] \in state.workspaces \cup {None}
    BY <2>2, <1>8 DEF WellFormed, Shaped
  <2>4. state.workspaces \subseteq PublicIds /\ state.windows \subseteq Windows
        /\ full.windows \subseteq Windows
    BY <1>5, <1>8 DEF Projections
  <2>5. homes \in Partial(Windows, PublicIds \cup {None})
    <3>1. homes \in [state.windows \cup full.windows -> PublicIds \cup {None}]
      BY <2>2, <2>3, <2>4
    <3> QED
      BY <3>1, <2>4 DEF Partial
  <2>6. state' \in Projections
    <3>1. Staged(state, full) = [state EXCEPT
              !.workspaces = state.workspaces \cup full.workspaces,
              !.windows = state.windows \cup full.windows,
              !.home = homes, !.mru = full.mru]
      BY DEF Staged
    <3>2. full.workspaces \subseteq PublicIds /\ full.mru \in Seq(PublicIds)
      BY <1>5 DEF Projections
    <3>3. /\ state.workspaces \cup full.workspaces \subseteq PublicIds
          /\ state.windows \cup full.windows \subseteq Windows
      BY <2>4, <3>2
    <3> HIDE DEF homes
    <3>4. state \in Projections
      BY <1>8
    <3>5. PICK W \in SUBSET PublicIds, X \in SUBSET Windows, m \in Seq(PublicIds) :
              /\ W = state.workspaces \cup full.workspaces
              /\ X = state.windows \cup full.windows /\ m = full.mru
      BY <3>2, <3>3
    <3> HIDE DEF full
    <3>6. [state EXCEPT !.workspaces = W, !.windows = X, !.home = homes, !.mru = m]
              \in Projections
      BY <3>4, <2>5, StagedTyped
    <3> QED
      BY <2>1, <3>1, <3>5, <3>6
  <2>7. Staging'
    <3>1. Objects(target)' \subseteq Objects(state)' /\ Objects(state) \subseteq Objects(state)'
      BY <2>1, <2>2 DEF Objects
    <3>2. state.workspaces \subseteq registered
      BY <1>8 DEF Objects
    <3> QED
      BY <3>1, <3>2, <2>1, <2>2, <2>3, <1>8 DEF Staging, WellFormed, Shaped
  <2>8. Phases'
    <3>1. WellFormed(target')
      BY <2>1, <1>7
    <3>2. WellFormed(target)'
      BY <3>1 DEF WellFormed, Shaped
    <3> QED
      BY <3>2, <2>1, <2>7 DEF Phases
  <2> QED
    BY <1>5, <1>6, <2>1, <2>2, <2>6, <2>8
<1> QED
  BY <1>9, <1>10
-----------------------------------------------------------------------------
(* The start, and the steps that leave the reducer alone.                  *)

LEMMA InitInvariant == Init => IInv
<1> SUFFICES ASSUME Init PROVE IInv
  OBVIOUS
<1>1. PICK L \in SUBSET Native :
        comp = [live |-> [n \in L |-> 0], home |-> <<>>, focus |-> None]
  BY DEF Init
<1>2. /\ <<>> \in Partial(Windows, Native \cup {None}) /\ <<>> \in Partial(Native, PublicIds)
      /\ DOMAIN <<>> = {} /\ Range(<<>>) = {}
  BY EmptyPartial DEF Range
<1>3. [n \in L |-> 0] \in Lives
  BY DEF Lives, Partial
<1>4. /\ families = NoFrames /\ stream = <<>> /\ changes = 0 /\ counted = FALSE /\ ids = <<>>
      /\ used = {} /\ session = [open |-> FALSE, generation |-> 0] /\ registered = {}
      /\ publishing = "no" /\ meant = {} /\ state = EmptyProjection(0) /\ target = state
  BY DEF Init
<1>5. Types
  <2>1. comp \in [live : Lives, home : Partial(Windows, Native \cup {None}),
                  focus : Native \cup {None}]
    BY <1>1, <1>2, <1>3
  <2>2. families \in [workspaces : None0(WsFrames), windows : None0(WinFrames),
                      others : None0({OtherFrames})]
    BY <1>4 DEF NoFrames, None0
  <2>3. state \in Projections /\ target \in Projections
    BY <1>4, EmptyIsShaped
  <2>4. stream \in Seq(Frames) /\ session \in [open : BOOLEAN, generation : Nat]
    BY <1>4
  <2> QED
    BY <1>2, <1>4, <2>1, <2>2, <2>3, <2>4 DEF Types
<1>6. Phases
  <2>1. Objects(state) = {}
    BY <1>4 DEF Objects, EmptyProjection
  <2> QED
    BY <1>4, <2>1, EmptyIsShaped DEF Phases
<1>7. Sources
  BY <1>4 DEF Sources, EmptyProjection
<1>8. Reduced
  BY <1>2, <1>4 DEF Reduced, NoFrames
<1>9. Bounded
  <2>1. \A i \in 0..(Len(stream) + 1) : Pos(i) => i = 1 /\ At(i) = comp.live
    BY <1>2, <1>4 DEF Pos, At, NoFrames
  <2> QED
    BY <2>1, <1>1, <1>4 DEF Bounded
<1>10. History /\ OneLifePerIdentity
  BY <1>4 DEF History, OneLifePerIdentity
<1> QED
  BY <1>5, <1>6, <1>7, <1>8, <1>9, <1>10 DEF IInv

\* The reducer, the frames and what was meant stay, and so do the lives.
LEMMA Untouched ==
    ASSUME Reduced, Bounded, History, OneLifePerIdentity,
           UNCHANGED <<compositor, stream, session, reducer, meant>>,
           state'.listed = state.listed
    PROVE  Reduced' /\ Bounded' /\ History' /\ OneLifePerIdentity'
<1> USE DEF compositor, reducer
<1>1. Reduced'
  BY DEF Reduced, Latest
<1>2. \A i : (Pos(i)' <=> Pos(i)) /\ At(i)' = At(i)
  BY DEF Pos, At, Latest
<1>3. Bounded'
  BY <1>2 DEF Bounded
<1>4. (Ordered => Ordered') /\ (Fresh => Fresh')
  BY <1>2 DEF Ordered, Fresh
<1>5. \A x \in meant : (Current(x) => Current(x)') /\ (Gone(x) => Gone(x)')
  BY <1>2 DEF Current, Gone, Latest
<1>6. History'
  BY <1>4, <1>5 DEF History
<1> QED
  BY <1>1, <1>3, <1>6 DEF OneLifePerIdentity

LEMMA RegisterKeeps == IInv /\ Register => IInv'
<1> SUFFICES ASSUME IInv, Register PROVE IInv'
  OBVIOUS
<1>1. PICK o \in Objects(target) \ registered : registered' = registered \cup {o}
  BY DEF Register
<1>2. /\ publishing = "register" /\ publishing' = "register"
      /\ UNCHANGED <<compositor, stream, session, reducer, state, target, meant>>
  BY DEF Register
<1> USE DEF compositor, reducer
<1>3. o \in Objects(state) /\ o \in PublicIds \cup Windows
  BY <1>2 DEF IInv, Phases, Staging, Types, Projections, Objects
<1>4. Types'
  BY <1>1, <1>2, <1>3 DEF IInv, Types
<1>5. Phases'
  BY <1>1, <1>2, <1>3 DEF IInv, Phases, Staging, Objects, WellFormed, Shaped
<1>6. Sources'
  BY <1>2 DEF IInv, Sources
<1> QED
  BY <1>2, <1>4, <1>5, <1>6, Untouched DEF IInv

LEMMA UnregisterKeeps == IInv /\ Unregister => IInv'
<1> SUFFICES ASSUME IInv, Unregister PROVE IInv'
  OBVIOUS
<1>1. PICK o \in registered \ Objects(target) : registered' = registered \ {o}
  BY DEF Unregister
<1>2. /\ publishing = "unregister" /\ publishing' = "unregister"
      /\ UNCHANGED <<compositor, stream, session, reducer, state, target, meant>>
  BY DEF Unregister
<1> USE DEF compositor, reducer
<1>3. Types'
  BY <1>1, <1>2 DEF IInv, Types
<1>4. Phases'
  BY <1>1, <1>2 DEF IInv, Phases, Objects, WellFormed, Shaped
<1>5. Sources'
  BY <1>2 DEF IInv, Sources
<1> QED
  BY <1>2, <1>3, <1>4, <1>5, Untouched DEF IInv

LEMMA PublishedKeeps == IInv /\ Published => IInv'
<1> SUFFICES ASSUME IInv, Published PROVE IInv'
  OBVIOUS
<1>1. /\ publishing = "unregister" /\ publishing' = "no" /\ registered = Objects(target)
      /\ UNCHANGED <<compositor, stream, session, reducer, state, registered, target, meant>>
  BY DEF Published
<1> USE DEF compositor, reducer
<1>2. Types'
  BY <1>1 DEF IInv, Types
<1>3. Phases'
  BY <1>1 DEF IInv, Phases, Objects, WellFormed, Shaped
<1>4. Sources'
  BY <1>1 DEF IInv, Sources
<1> QED
  BY <1>1, <1>2, <1>3, <1>4, Untouched DEF IInv

LEMMA DisconnectKeeps == IInv /\ Disconnect => IInv'
<1> SUFFICES ASSUME IInv, Disconnect PROVE IInv'
  OBVIOUS
<1>1. /\ session.open /\ publishing = "no" /\ session' = [session EXCEPT !.open = FALSE]
      /\ stream' = <<>> /\ UNCHANGED <<compositor, reducer>>
      /\ IF state.connected THEN Publish(EmptyProjection(state.generation + 1))
         ELSE UNCHANGED bus
  BY DEF Disconnect
<1> DEFINE next == EmptyProjection(state.generation + 1)
<1> USE DEF compositor, reducer
<1>2. state.generation + 1 \in Nat /\ session' \in [open : BOOLEAN, generation : Nat]
      /\ ~session'.open
  <2>1. session \in [open : BOOLEAN, generation : Nat]
    BY DEF IInv, Types
  <2>2. state.generation \in Nat
    BY DEF IInv, Types, Projections
  <2>3. session' = [session EXCEPT !.open = FALSE]
    BY <1>1
  <2>4. session' \in [open : BOOLEAN, generation : Nat]
    BY <2>1, <2>3
  <2>5. session'.open = FALSE
    BY <2>1, <2>3
  <2>6. state.generation + 1 \in Nat
    BY <2>2
  <2> QED
    BY <2>4, <2>5, <2>6
<1>3. next \in Projections /\ Shaped(next) /\ IsFiniteSet(next.workspaces)
      /\ ~next.connected /\ next.generation = state.generation + 1
  BY <1>2, EmptyIsShaped, FS_EmptySet DEF EmptyProjection
<1>4. /\ state' \in Projections /\ target' \in Projections
      /\ UNCHANGED <<registered, meant>> /\ publishing' \in {"no", "register"}
      /\ Phases' /\ state'.connected = state.connected /\ state'.listed = state.listed
      /\ state'.generation = state.generation
      /\ publishing' = "no" => ~state.connected
      /\ publishing' = "register" =>
            state.connected /\ ~target'.connected /\ target'.generation = state.generation + 1
  <2>1. CASE state.connected
    <3>1. Publish(next)
      BY <1>1, <2>1
    <3> HIDE DEF next
    <3> QED
      BY <1>1, <1>3, <2>1, <3>1, PublishStages DEF IInv
  <2>2. CASE ~state.connected
    <3>1. UNCHANGED bus
      BY <1>1, <2>2
    <3>2. Phases'
      BY <3>1 DEF IInv, Phases, bus, Staging, WellFormed, Shaped, Objects
    <3> QED
      BY <1>1, <2>2, <3>1, <3>2 DEF bus, IInv, Types
  <2> QED
    BY <2>1, <2>2
<1>5. Types'
  BY <1>1, <1>2, <1>4 DEF IInv, Types
<1>6. Sources'
  BY <1>2, <1>4 DEF IInv, Sources
<1>7. Reduced'
  BY <1>1 DEF IInv, Reduced, Latest
<1>8. Bounded'
  <2>1. \A i \in 0..1 : Pos(i)' => (i = 0 /\ Pos(0) /\ At(0)' = At(0))
                                   \/ (i = 1 /\ At(i)' = comp.live)
    BY <1>1 DEF Pos, At, Latest
  <2>2. Len(stream') = 0 /\ Len(stream) \in Nat
    BY <1>1 DEF IInv, Types
  <2>3. Pos(Len(stream) + 1) /\ At(Len(stream) + 1) = comp.live
    BY <2>2 DEF Pos, At, IInv, Types
  <2> QED
    BY <1>1, <2>1, <2>2, <2>3 DEF Bounded, IInv
<1>9. History' /\ OneLifePerIdentity'
  BY <1>2, <1>4 DEF History, OneLifePerIdentity, IInv
<1> QED
  BY <1>4, <1>5, <1>6, <1>7, <1>8, <1>9 DEF IInv
-----------------------------------------------------------------------------
(* The commit.                                                             *)

\* What the public ids of the target mean is what the reducer has.
Meanings == UNION {Denoted(p) : p \in target.workspaces}

LEMMA LatestFrame ==
    ASSUME Types, families.workspaces # {}
    PROVE  Latest \in WsFrames /\ families.workspaces = {Latest}
BY DEF Types, None0, Latest

LEMMA MeaningsAre ==
    ASSUME Types, Phases, Sources, Reduced, publishing = "register"
    PROVE  /\ ~session.open => Meanings = {}
           /\ session.open =>
                /\ \A n \in DOMAIN ids : <<ids[n], n, Latest.live[n]>> \in Meanings
                /\ \A x \in Meanings : \E n \in DOMAIN ids : x = <<ids[n], n, Latest.live[n]>>
                /\ Meanings \subseteq PublicIds \X Native \X Nat
<1>1. ASSUME ~session.open PROVE Meanings = {}
  BY <1>1 DEF Sources, Phases, WellFormed, Shaped, Meanings
<1>2. ASSUME session.open
      PROVE  /\ \A n \in DOMAIN ids : <<ids[n], n, Latest.live[n]>> \in Meanings
             /\ \A x \in Meanings : \E n \in DOMAIN ids : x = <<ids[n], n, Latest.live[n]>>
             /\ Meanings \subseteq PublicIds \X Native \X Nat
  <2>1. /\ families.workspaces # {} /\ target.workspaces = Range(ids)
        /\ DOMAIN ids = DOMAIN Latest.live
    BY <1>2 DEF Sources, Reduced
  <2>2. \A p : Denoted(p) = {<<p, n, Latest.live[n]>> :
                                n \in {m \in DOMAIN Latest.live : ids[m] = p}}
    BY DEF Denoted, Latest
  <2>3. \A n \in DOMAIN ids : ids[n] \in Range(ids)
    BY DEF Range
  <2>4. \A n \in DOMAIN ids : <<ids[n], n, Latest.live[n]>> \in Meanings
    BY <2>1, <2>2, <2>3 DEF Meanings
  <2>5. \A x \in Meanings : \E n \in DOMAIN ids : x = <<ids[n], n, Latest.live[n]>>
    BY <2>1, <2>2 DEF Meanings
  <2>6. Latest.live \in Lives /\ ids \in Partial(Native, PublicIds)
    BY <2>1, LatestFrame DEF WsFrames, Types
  <2>7. \A n \in DOMAIN ids : ids[n] \in PublicIds /\ n \in Native /\ Latest.live[n] \in Nat
    BY <2>1, <2>6, PartialFunction DEF Lives
  <2> QED
    BY <2>4, <2>5, <2>7
<1> QED
  BY <1>1, <1>2

LEMMA CommitKeeps == IInv /\ Commit => IInv'
<1> SUFFICES ASSUME IInv, Commit PROVE IInv'
  OBVIOUS
<1>1. /\ publishing = "register" /\ publishing' = "unregister"
      /\ Objects(target) \subseteq registered /\ state' = target
      /\ meant' = (IF target.generation = state.generation THEN meant ELSE {}) \cup Meanings
      /\ UNCHANGED <<compositor, stream, session, reducer, registered, target>>
  BY DEF Commit, Meanings
<1> USE DEF compositor, reducer, IInv
<1>2. /\ ~session.open => Meanings = {}
      /\ session.open =>
           /\ \A n \in DOMAIN ids : <<ids[n], n, Latest.live[n]>> \in Meanings
           /\ \A x \in Meanings : \E n \in DOMAIN ids : x = <<ids[n], n, Latest.live[n]>>
           /\ Meanings \subseteq PublicIds \X Native \X Nat
  BY <1>1, MeaningsAre
<1>3. Types'
  <2>1. meant' \subseteq PublicIds \X Native \X Nat
    BY <1>1, <1>2 DEF Types
  <2> QED
    BY <1>1, <2>1 DEF Types
<1>4. Phases'
  BY <1>1 DEF Phases, Objects, WellFormed, Shaped
<1>5. session.open => /\ target.connected /\ target.generation = session.generation
                      /\ families.workspaces # {} /\ target.workspaces = Range(ids)
  BY <1>1 DEF Sources
<1>6. ~session.open => /\ state.connected /\ ~target.connected
                       /\ target.generation = state.generation + 1
  BY <1>1 DEF Sources
<1>7. state.generation \in Nat
  BY DEF Types, Projections
<1>8. ~session.open => meant' = {} /\ state'.listed = {}
  BY <1>1, <1>2, <1>6, <1>7 DEF Phases, WellFormed, Shaped
<1>9. Sources'
  BY <1>1, <1>5, <1>6, <1>8 DEF Sources
<1>10. Reduced'
  BY <1>1 DEF Reduced, Latest
<1>11. \A i : (Pos(i)' <=> Pos(i)) /\ At(i)' = At(i)
  BY <1>1 DEF Pos, At, Latest
<1>12. Bounded'
  BY <1>1, <1>11 DEF Bounded
<1>13. ASSUME session.open, NEW x \in meant'
       PROVE  x[3] <= changes /\ (Current(x)' \/ Gone(x)')
  <2>1. state'.listed = Range(ids)
    BY <1>1, <1>5, <1>13 DEF Phases, WellFormed, Shaped
  <2>2. CASE x \in meant
    <3>1. x[3] <= changes /\ (Current(x) \/ Gone(x))
      BY <2>2, <1>13 DEF History
    <3>2. Current(x) => Current(x)'
      BY <1>1, <2>1 DEF Current, Latest, Range
    <3>3. Gone(x) => Gone(x)'
      BY <1>1, <1>11 DEF Gone
    <3> QED
      BY <3>1, <3>2, <3>3
  <2>3. CASE x \in Meanings
    <3>1. PICK n \in DOMAIN ids : x = <<ids[n], n, Latest.live[n]>>
      BY <2>3, <1>2, <1>13
    <3>2. x[1] = ids[n] /\ x[2] = n /\ x[3] = Latest.live[n]
      BY <3>1
    <3>3. Current(x)'
      BY <3>2, <1>1, <1>5, <1>13, <2>1 DEF Current, Latest, Range
    <3>4. Pos(0) /\ At(0) = Latest.live /\ n \in DOMAIN At(0)
      BY <1>5, <1>13 DEF Pos, At, Reduced
    <3>5. x[3] <= changes
      BY <3>2, <3>4 DEF Bounded, Types
    <3> QED
      BY <3>3, <3>5
  <2> QED
    BY <1>1, <1>13, <2>2, <2>3
<1>14. History'
  BY <1>1, <1>11, <1>13 DEF History, Ordered, Fresh
<1>15. OneLifePerIdentity'
  <2>1. CASE ~session.open
    BY <1>8, <2>1 DEF OneLifePerIdentity
  <2>2. CASE session.open
    <3>1. \A x, y \in Meanings : x[1] = y[1] <=> <<x[2], x[3]>> = <<y[2], y[3]>>
      BY <1>2, <2>2 DEF Reduced
    <3>2. \A x, y \in meant : x[1] = y[1] <=> <<x[2], x[3]>> = <<y[2], y[3]>>
      BY DEF OneLifePerIdentity
    <3>3. ASSUME NEW x \in meant, NEW y \in Meanings
          PROVE  x[1] = y[1] <=> <<x[2], x[3]>> = <<y[2], y[3]>>
      <4>1. PICK n \in DOMAIN ids : y = <<ids[n], n, Latest.live[n]>>
        BY <1>2, <2>2
      <4>2. y[1] = ids[n] /\ y[2] = n /\ y[3] = Latest.live[n] /\ ids[n] \in Range(ids)
        BY <4>1 DEF Range
      <4>3. CASE Current(x)
        BY <4>2, <4>3 DEF Current, Reduced
      <4>4. CASE Gone(x)
        <5>1. Pos(0) /\ At(0) = Latest.live /\ n \in DOMAIN At(0)
          BY <1>5, <2>2 DEF Pos, At, Reduced
        <5>2. x[2] = n => At(0)[n] # x[3]
          BY <4>4, <5>1 DEF Gone, Types
        <5> QED
          BY <4>2, <4>4, <5>1, <5>2 DEF Gone
      <4> QED
        BY <2>2, <4>3, <4>4 DEF History
    <3> QED
      BY <1>1, <3>1, <3>2, <3>3 DEF OneLifePerIdentity
  <2> QED
    BY <2>1, <2>2
<1> QED
  BY <1>3, <1>4, <1>9, <1>10, <1>12, <1>14, <1>15
-----------------------------------------------------------------------------
(* The compositor.                                                         *)

LEMMA Appended ==
    ASSUME NEW S, NEW s \in Seq(S), NEW t \in Seq(S)
    PROVE  /\ s \o t \in Seq(S) /\ Len(s \o t) = Len(s) + Len(t)
           /\ \A i \in 1..Len(s) : (s \o t)[i] = s[i]
           /\ \A i \in (Len(s) + 1)..(Len(s) + Len(t)) : (s \o t)[i] = t[i - Len(s)]
OBVIOUS

LEMMA Joined ==
    ASSUME NEW S, NEW s \in Seq(S), NEW t \in Seq(S), NEW u \in Seq(S)
    PROVE  s \o t \o u = s \o (t \o u)
BY ConcatAssociative

\* A sequence of at most one element, put before or after another such.
LEMMA TwoShort ==
    ASSUME NEW S, NEW u \in Seq(S), NEW v \in Seq(S), Len(u) \in {0, 1}, Len(v) \in {0, 1}
    PROVE  /\ u \o v \in Seq(S) /\ DOMAIN (u \o v) = 1..(Len(u) + Len(v))
           /\ Len(u) = 1 => (u \o v)[1] = u[1]
           /\ Len(v) = 1 => (u \o v)[Len(u) + 1] = v[1]
<1>1. u \o v \in Seq(S) /\ Len(u \o v) = Len(u) + Len(v)
  BY Appended
<1>2. Len(u) = 1 => (u \o v)[1] = u[1]
  BY Appended
<1>3. Len(v) = 1 => (u \o v)[Len(u) + 1] = v[1]
  BY Appended
<1> QED
  BY <1>1, <1>2, <1>3

\* What a change sends: at most one frame of the workspaces, and if none, they are
\* what they were.
Sends(t) ==
    \/ /\ \A i \in DOMAIN t : t[i].family # "workspaces"
       /\ comp'.live = comp.live
    \/ \E m \in DOMAIN t :
        /\ t[m].family = "workspaces" /\ t[m].live = comp'.live
        /\ \A i \in DOMAIN t : i # m => t[i].family # "workspaces"

LEMMA ChangeSends ==
    ASSUME Types, Change
    PROVE  /\ comp' \in [live : Lives, home : Partial(Windows, Native \cup {None}),
                         focus : Native \cup {None}]
           /\ \A n \in DOMAIN comp'.live :
                comp'.live[n] = IF n \in DOMAIN comp.live THEN comp.live[n] ELSE changes + 1
           /\ ~session.open => stream' = <<>>
           /\ session.open => \E t \in Seq(Frames) : stream' = stream \o t /\ Sends(t)
<1>0. PICK L \in SUBSET Native :
        \E home \in Partial(Windows, L \cup {None}), focus \in L \cup {None} :
        LET c == [live |-> [n \in L |-> IF n \in DOMAIN comp.live THEN comp.live[n]
                                        ELSE changes + 1],
                  home |-> home, focus |-> focus]
            ws == IF WorkspacesFrame(c) = WorkspacesFrame(comp) THEN <<>>
                  ELSE <<WorkspacesFrame(c)>>
            win == IF home = comp.home THEN <<>> ELSE <<WindowsFrame(c)>>
        IN  /\ comp' = c
            /\ stream' \in IF session.open THEN {stream \o ws \o win, stream \o win \o ws}
                           ELSE {<<>>}
  BY DEF Change
<1>1. PICK home \in Partial(Windows, L \cup {None}), focus \in L \cup {None} :
        LET c == [live |-> [n \in L |-> IF n \in DOMAIN comp.live THEN comp.live[n]
                                        ELSE changes + 1],
                  home |-> home, focus |-> focus]
            ws == IF WorkspacesFrame(c) = WorkspacesFrame(comp) THEN <<>>
                  ELSE <<WorkspacesFrame(c)>>
            win == IF home = comp.home THEN <<>> ELSE <<WindowsFrame(c)>>
        IN  /\ comp' = c
            /\ stream' \in IF session.open THEN {stream \o ws \o win, stream \o win \o ws}
                           ELSE {<<>>}
  BY <1>0
<1> DEFINE live == [n \in L |-> IF n \in DOMAIN comp.live THEN comp.live[n] ELSE changes + 1]
           c == [live |-> live, home |-> home, focus |-> focus]
           wsf == WorkspacesFrame(c)
           winf == WindowsFrame(c)
           ws == IF wsf = WorkspacesFrame(comp) THEN <<>> ELSE <<wsf>>
           win == IF home = comp.home THEN <<>> ELSE <<winf>>
<1>2. comp' = c /\ stream' \in IF session.open THEN {stream \o ws \o win, stream \o win \o ws}
                               ELSE {<<>>}
  BY <1>1
<1>3. live \in Lives /\ DOMAIN live = L
  <2>1. comp.live \in Lives /\ changes + 1 \in Nat
    BY DEF Types
  <2>2. \A n \in DOMAIN comp.live : comp.live[n] \in Nat
    BY <2>1, PartialFunction DEF Lives
  <2>3. live \in [L -> Nat]
    BY <2>1, <2>2
  <2> QED
    BY <2>3 DEF Lives, Partial
<1>4. home \in Partial(Windows, Native \cup {None})
  <2>1. DOMAIN home \subseteq Windows /\ home \in [DOMAIN home -> L \cup {None}]
    BY PartialFunction
  <2>2. home \in [DOMAIN home -> Native \cup {None}]
    BY <2>1
  <2> QED
    BY <2>1, <2>2 DEF Partial
<1>5. c \in [live : Lives, home : Partial(Windows, Native \cup {None}), focus : Native \cup {None}]
  BY <1>3, <1>4
<1>6. wsf \in WsFrames /\ wsf.family = "workspaces" /\ wsf.live = live
  <2>1. wsf = [family |-> "workspaces", live |-> live, focus |-> focus,
               count |-> [n \in L |-> Count(home, n)]]
    BY <1>3 DEF WorkspacesFrame
  <2>2. \A n \in L : Count(home, n) \in Counts
    BY <1>4, PartialFunction DEF Count, Counts
  <2>3. [n \in L |-> Count(home, n)] \in [L -> Counts]
    BY <2>2
  <2>4. [n \in L |-> Count(home, n)] \in Partial(Native, Counts)
    BY <2>3 DEF Partial
  <2> QED
    BY <2>1, <2>4, <1>3 DEF WsFrames
<1>7. winf \in WinFrames /\ winf.family = "windows"
  BY <1>4 DEF WindowsFrame, WinFrames
<1>8. wsf = WorkspacesFrame(comp) => live = comp.live
  BY <1>6 DEF WorkspacesFrame
<1> HIDE DEF live, wsf, winf
<1>9. ASSUME session.open PROVE \E t \in Seq(Frames) : stream' = stream \o t /\ Sends(t)
  <2>1. wsf \in Frames /\ winf \in Frames
    BY <1>6, <1>7 DEF Frames
  <2>2. comp'.live = live
    BY <1>2
  <2>3. stream \in Seq(Frames)
    BY DEF Types
  <2>4. /\ ws \in Seq(Frames) /\ Len(ws) \in {0, 1} /\ (Len(ws) = 1 => ws[1] = wsf)
        /\ Len(ws) = 0 => wsf = WorkspacesFrame(comp)
    BY <2>1
  <2>5. /\ win \in Seq(Frames) /\ Len(win) \in {0, 1} /\ (Len(win) = 1 => win[1] = winf)
    BY <2>1
  <2> HIDE DEF ws, win
  <2>6. stream \o ws \o win = stream \o (ws \o win) /\ stream \o win \o ws = stream \o (win \o ws)
    <3>1. \A t, u \in Seq(Frames) : stream \o t \o u = stream \o (t \o u)
      BY <2>3, Joined
    <3>2. ws \in Seq(Frames) /\ win \in Seq(Frames)
      BY <2>4, <2>5
    <3> QED
      BY <3>1, <3>2, Zenon
  <2>7. ws \o win \in Seq(Frames) /\ win \o ws \in Seq(Frames)
    BY <2>4, <2>5, TwoShort
  <2>8. Sends(ws \o win)
    <3>1. /\ DOMAIN (ws \o win) = 1..(Len(ws) + Len(win))
          /\ Len(ws) = 1 => (ws \o win)[1] = wsf
          /\ Len(win) = 1 => (ws \o win)[Len(ws) + 1] = winf
      BY <2>4, <2>5, TwoShort
    <3>2. CASE Len(ws) = 0
      <4>1. \A i \in DOMAIN (ws \o win) : (ws \o win)[i] = winf
        BY <3>1, <3>2, <2>5
      <4> QED
        BY <4>1, <3>2, <1>7, <1>8, <2>2, <2>4 DEF Sends
    <3>3. CASE Len(ws) = 1
      <4>1. 1 \in DOMAIN (ws \o win) /\ (ws \o win)[1] = wsf
        BY <3>1, <3>3, <2>5
      <4>2. \A i \in DOMAIN (ws \o win) : i # 1 => (ws \o win)[i] = winf
        BY <3>1, <3>3, <2>5
      <4> QED
        BY <4>1, <4>2, <1>6, <1>7, <2>2 DEF Sends
    <3> QED
      BY <3>2, <3>3, <2>4
  <2>9. Sends(win \o ws)
    <3>1. /\ DOMAIN (win \o ws) = 1..(Len(win) + Len(ws))
          /\ Len(win) = 1 => (win \o ws)[1] = winf
          /\ Len(ws) = 1 => (win \o ws)[Len(win) + 1] = wsf
      BY <2>4, <2>5, TwoShort
    <3>2. CASE Len(ws) = 0
      <4>1. \A i \in DOMAIN (win \o ws) : (win \o ws)[i] = winf
        BY <3>1, <3>2, <2>5
      <4> QED
        BY <4>1, <3>2, <1>7, <1>8, <2>2, <2>4 DEF Sends
    <3>3. CASE Len(ws) = 1
      <4>1. Len(win) + 1 \in DOMAIN (win \o ws) /\ (win \o ws)[Len(win) + 1] = wsf
        BY <3>1, <3>3, <2>5
      <4>2. \A i \in DOMAIN (win \o ws) : i # Len(win) + 1 => (win \o ws)[i] = winf
        BY <3>1, <3>3, <2>5
      <4> QED
        BY <4>1, <4>2, <1>6, <1>7, <2>2 DEF Sends
    <3> QED
      BY <3>2, <3>3, <2>4
  <2>10. stream' \in {stream \o ws \o win, stream \o win \o ws}
    BY <1>2, <1>9 DEF ws, win
  <2> QED
    BY <2>6, <2>7, <2>8, <2>9, <2>10
<1>10. \A n \in DOMAIN comp'.live :
            comp'.live[n] = IF n \in DOMAIN comp.live THEN comp.live[n] ELSE changes + 1
  BY <1>2, <1>3 DEF live
<1> QED
  BY <1>2, <1>5, <1>9, <1>10

LEMMA AtTyped ==
    ASSUME Types, NEW i \in 0..(Len(stream) + 1), Pos(i)
    PROVE  At(i) \in Lives /\ \A n \in DOMAIN At(i) : n \in Native /\ At(i)[n] \in Nat
<1>1. ASSUME i = 0 PROVE At(i) \in Lives
  BY <1>1, LatestFrame DEF Pos, At, WsFrames, Types
<1>2. ASSUME i \in DOMAIN stream, i # 0 PROVE At(i) \in Lives
  <2>1. stream[i] \in Frames
    BY <1>2 DEF Types
  <2>2. stream[i].family = "workspaces"
    BY <1>2 DEF Pos, Types
  <2>3. stream[i] \in WsFrames
    BY <2>1, <2>2 DEF Frames, WinFrames, OtherFrames
  <2> QED
    BY <1>2, <2>3 DEF At, WsFrames
<1>3. ASSUME i = Len(stream) + 1 PROVE At(i) \in Lives
  BY <1>3 DEF At, Types
<1>4. DOMAIN stream = 1..Len(stream) /\ Len(stream) \in Nat
  BY DEF Types
<1>5. At(i) \in Lives
  BY <1>1, <1>2, <1>3, <1>4
<1> QED
  BY <1>5, PartialFunction DEF Lives

\* The frames of a change go to the end, and those of the workspaces are what the
\* compositor now is.
LEMMA SentPositions ==
    ASSUME Types, UNCHANGED families, NEW t \in Seq(Frames), stream' = stream \o t, Sends(t)
    PROVE  /\ Len(stream) \in Nat /\ Len(t) \in Nat /\ Len(stream') = Len(stream) + Len(t)
           /\ \A i \in 0..Len(stream) : (Pos(i)' <=> Pos(i)) /\ At(i)' = At(i)
           /\ \A i \in (Len(stream) + 1)..(Len(stream') + 1) : Pos(i)' => At(i)' = comp'.live
           /\ \/ /\ comp'.live = comp.live
                 /\ \A i \in (Len(stream) + 1)..Len(stream') : ~Pos(i)'
              \/ \E m \in (Len(stream) + 1)..Len(stream') :
                    Pos(m)' /\ \A i \in (m + 1)..Len(stream') : ~Pos(i)'
<1> DEFINE N == Len(stream)
<1>1. /\ N \in Nat /\ Len(t) \in Nat /\ stream \in Seq(Frames) /\ DOMAIN t = 1..Len(t)
      /\ DOMAIN stream = 1..N
  BY DEF Types
<1>2. /\ stream' \in Seq(Frames) /\ Len(stream') = N + Len(t) /\ DOMAIN stream' = 1..(N + Len(t))
      /\ \A i \in 1..N : stream'[i] = stream[i]
      /\ \A i \in (N + 1)..(N + Len(t)) : stream'[i] = t[i - N]
  BY <1>1, Appended
<1>3. \A i \in 0..N : (Pos(i)' <=> Pos(i)) /\ At(i)' = At(i)
  <2> SUFFICES ASSUME NEW i \in 0..N PROVE (Pos(i)' <=> Pos(i)) /\ At(i)' = At(i)
    OBVIOUS
  <2>1. CASE i = 0
    BY <1>1, <1>2, <2>1 DEF Pos, At, Latest
  <2>2. CASE i \in 1..N
    BY <1>1, <1>2, <2>2 DEF Pos, At
  <2> QED
    BY <1>1, <2>1, <2>2
<1>4. \A i \in (N + 1)..(N + Len(t)) :
        (Pos(i)' <=> t[i - N].family = "workspaces") /\ At(i)' = t[i - N].live
  BY <1>1, <1>2 DEF Pos, At
<1>5. \A i : i = N + Len(t) + 1 => Pos(i)' /\ At(i)' = comp'.live
  BY <1>1, <1>2 DEF Pos, At
<1> HIDE DEF N
<1>6. \A i \in (N + 1)..(N + Len(t) + 1) : Pos(i)' => At(i)' = comp'.live
  <2> SUFFICES ASSUME NEW i \in (N + 1)..(N + Len(t) + 1), Pos(i)' PROVE At(i)' = comp'.live
    OBVIOUS
  <2>1. CASE i = N + Len(t) + 1
    BY <1>5, <2>1
  <2>2. CASE i \in (N + 1)..(N + Len(t))
    <3>1. t[i - N].family = "workspaces" /\ At(i)' = t[i - N].live /\ i - N \in DOMAIN t
      BY <1>1, <1>4, <2>2
    <3> QED
      BY <3>1 DEF Sends
  <2> QED
    BY <1>1, <2>1, <2>2
<1>7. \/ /\ comp'.live = comp.live
         /\ \A i \in (N + 1)..(N + Len(t)) : ~Pos(i)'
      \/ \E m \in (N + 1)..(N + Len(t)) :
            Pos(m)' /\ \A i \in (m + 1)..(N + Len(t)) : ~Pos(i)'
  <2>1. CASE /\ \A i \in DOMAIN t : t[i].family # "workspaces"
             /\ comp'.live = comp.live
    <3>1. \A i \in (N + 1)..(N + Len(t)) : i - N \in DOMAIN t
      BY <1>1
    <3> QED
      BY <1>4, <2>1, <3>1
  <2>2. ASSUME NEW m \in DOMAIN t, t[m].family = "workspaces",
               \A i \in DOMAIN t : i # m => t[i].family # "workspaces"
        PROVE  \E k \in (N + 1)..(N + Len(t)) :
                    Pos(k)' /\ \A i \in (k + 1)..(N + Len(t)) : ~Pos(i)'
    <3>1. PICK k \in (N + 1)..(N + Len(t)) : k - N = m
      BY <1>1
    <3>2. Pos(k)'
      BY <1>4, <2>2, <3>1
    <3>3. \A i \in (k + 1)..(N + Len(t)) : ~Pos(i)'
      <4>1. \A i \in (k + 1)..(N + Len(t)) :
                i \in (N + 1)..(N + Len(t)) /\ i - N \in DOMAIN t /\ i - N # m
        BY <1>1, <3>1
      <4> QED
        BY <1>4, <2>2, <4>1
    <3> QED
      BY <3>2, <3>3
  <2> QED
    BY <2>1, <2>2 DEF Sends
<1> QED
  BY <1>1, <1>2, <1>3, <1>6, <1>7 DEF N

LEMMA SentKeepsOrder ==
    ASSUME Types, Ordered, Fresh, Bounded, UNCHANGED families, changes' = changes + 1,
           comp'.live \in Lives,
           \A n \in DOMAIN comp'.live :
              comp'.live[n] = IF n \in DOMAIN comp.live THEN comp.live[n] ELSE changes + 1,
           NEW t \in Seq(Frames), stream' = stream \o t, Sends(t)
    PROVE  Ordered' /\ Fresh' /\ Bounded'
<1> DEFINE N == Len(stream)
           M == Len(stream')
<1>1. /\ N \in Nat /\ M \in Nat /\ N <= M
      /\ \A i \in 0..N : (Pos(i)' <=> Pos(i)) /\ At(i)' = At(i)
      /\ \A i \in (N + 1)..(M + 1) : Pos(i)' => At(i)' = comp'.live
      /\ \/ /\ comp'.live = comp.live
            /\ \A i \in (N + 1)..M : ~Pos(i)'
         \/ \E m \in (N + 1)..M : Pos(m)' /\ \A i \in (m + 1)..M : ~Pos(i)'
  BY SentPositions
<1>2. Pos(N + 1) /\ At(N + 1) = comp.live
  <2>1. DOMAIN stream = 1..N
    BY DEF Types
  <2> QED
    BY <1>1, <2>1 DEF Pos, At
<1> HIDE DEF N, M
<1>3. changes \in Nat /\ \A n \in DOMAIN comp.live : comp.live[n] \in Nat /\ comp.live[n] <= changes
  <2>1. \A i \in 0..(N + 1) : Pos(i) =>
            \A n \in DOMAIN At(i) : At(i)[n] \in Nat /\ At(i)[n] <= changes
    BY AtTyped DEF Bounded, N
  <2>2. PICK q \in 0..(N + 1) : q = N + 1
    BY <1>1
  <2>3. Pos(q) /\ At(q) = comp.live
    BY <1>2, <2>2
  <2>4. changes \in Nat
    BY DEF Types
  <2> QED
    BY <2>1, <2>3, <2>4
<1>4. \A n \in DOMAIN comp'.live : comp'.live[n] <= changes + 1
  BY <1>3
<1>5. PICK k \in 0..N : Pos(k) /\ At(k) = comp.live /\ \A l \in (k + 1)..N : ~Pos(l)
  BY DEF Fresh, N
<1>6. ASSUME NEW i \in 0..N, Pos(i), NEW n \in DOMAIN At(i)
      PROVE  At(i)[n] \in Nat /\ At(i)[n] <= changes
  BY <1>1, <1>6, AtTyped DEF Bounded, N
<1>7. Bounded'
  <2> SUFFICES ASSUME NEW i \in 0..(M + 1), Pos(i)', NEW n \in DOMAIN At(i)'
               PROVE  At(i)'[n] <= changes + 1
    BY DEF Bounded, M
  <2>1. CASE i \in 0..N
    <3>1. Pos(i) /\ At(i)' = At(i) /\ n \in DOMAIN At(i)
      BY <1>1, <2>1
    <3>2. At(i)[n] \in Nat /\ At(i)[n] <= changes
      BY <1>6, <2>1, <3>1
    <3> QED
      BY <1>3, <3>1, <3>2
  <2>2. CASE i \in (N + 1)..(M + 1)
    BY <1>1, <1>4, <2>2
  <2> QED
    BY <1>1, <2>1, <2>2
<1>8. Fresh'
  <2>1. CASE comp'.live = comp.live /\ \A i \in (N + 1)..M : ~Pos(i)'
    <3>1. Pos(k)' /\ At(k)' = comp'.live /\ \A l \in (k + 1)..M : ~Pos(l)'
      BY <1>1, <1>5, <2>1
    <3> QED
      BY <1>1, <3>1 DEF Fresh, M
  <2>2. CASE \E m \in (N + 1)..M : Pos(m)' /\ \A i \in (m + 1)..M : ~Pos(i)'
    BY <1>1, <2>2 DEF Fresh, M
  <2> QED
    BY <1>1, <2>1, <2>2
<1>9. ASSUME NEW i \in 0..(N + 1), NEW j \in 0..(N + 1), Pos(i), Pos(j), i < j,
             NEW n \in DOMAIN At(i) \cap DOMAIN At(j)
      PROVE  At(i)[n] = At(j)[n] <=> \A l \in (i + 1)..(j - 1) : Pos(l) => n \in DOMAIN At(l)
  BY <1>9 DEF Ordered, N
<1>10. Ordered'
  <2> SUFFICES ASSUME NEW i \in 0..(M + 1), NEW j \in 0..(M + 1), Pos(i)', Pos(j)', i < j,
                      NEW n \in DOMAIN At(i)' \cap DOMAIN At(j)'
               PROVE  At(i)'[n] = At(j)'[n]
                      <=> \A l \in (i + 1)..(j - 1) : Pos(l)' => n \in DOMAIN At(l)'
    BY DEF Ordered, M
  <2>1. CASE j \in 0..N
    <3>1. i \in 0..N /\ Pos(i) /\ Pos(j) /\ At(i)' = At(i) /\ At(j)' = At(j)
      BY <1>1, <2>1
    <3>2. At(i)[n] = At(j)[n] <=> \A l \in (i + 1)..(j - 1) : Pos(l) => n \in DOMAIN At(l)
      <4>1. j \in 0..(N + 1) /\ i \in 0..(N + 1) /\ n \in DOMAIN At(i) \cap DOMAIN At(j)
        BY <1>1, <2>1, <3>1
      <4> QED
        BY <1>9, <3>1, <4>1
    <3>3. \A l \in (i + 1)..(j - 1) : (Pos(l)' <=> Pos(l)) /\ At(l)' = At(l)
      <4>1. \A l \in (i + 1)..(j - 1) : l \in 0..N
        BY <1>1, <2>1, <3>1
      <4> QED
        BY <1>1, <4>1
    <3>4. \A l \in (i + 1)..(j - 1) :
            (Pos(l)' => n \in DOMAIN At(l)') <=> (Pos(l) => n \in DOMAIN At(l))
      BY <3>3
    <3>5. (\A l \in (i + 1)..(j - 1) : Pos(l)' => n \in DOMAIN At(l)')
          <=> \A l \in (i + 1)..(j - 1) : Pos(l) => n \in DOMAIN At(l)
      BY <3>4, Zenon
    <3> QED
      BY <3>1, <3>2, <3>5
  <2>2. CASE i \in (N + 1)..(M + 1)
    <3>1. At(i)' = comp'.live /\ At(j)' = comp'.live
      BY <1>1, <2>2
    <3>2. \A l \in (i + 1)..(j - 1) : Pos(l)' => At(l)' = comp'.live
      BY <1>1, <2>2
    <3> QED
      BY <3>1, <3>2
  <2>3. CASE i \in 0..N /\ j \in (N + 1)..(M + 1)
    <3>1. Pos(i) /\ At(i)' = At(i) /\ At(j)' = comp'.live /\ n \in DOMAIN At(i)
          /\ n \in DOMAIN comp'.live
      BY <1>1, <2>3
    <3>2. (\A l \in (i + 1)..(j - 1) : Pos(l)' => n \in DOMAIN At(l)')
          <=> \A l \in (i + 1)..N : Pos(l) => n \in DOMAIN At(l)
      <4>1. \A l \in (i + 1)..(j - 1) : l \in (i + 1)..N \/ l \in (N + 1)..(M + 1)
        BY <1>1, <2>3
      <4>2. \A l \in (i + 1)..N : l \in (i + 1)..(j - 1) /\ l \in 0..N
        BY <1>1, <2>3
      <4>3. \A l \in (N + 1)..(M + 1) : Pos(l)' => n \in DOMAIN At(l)'
        BY <1>1, <3>1
      <4>4. \A l \in (i + 1)..N :
                (Pos(l)' => n \in DOMAIN At(l)') <=> (Pos(l) => n \in DOMAIN At(l))
        BY <1>1, <4>2
      <4> QED
        BY <4>1, <4>2, <4>3, <4>4, Zenon
    <3>3. CASE n \in DOMAIN comp.live
      <4>1. PICK q \in 0..(N + 1) : q = N + 1
        BY <1>1
      <4>2. i \in 0..(N + 1) /\ i < q /\ q - 1 = N /\ Pos(q) /\ At(q) = comp.live
        BY <1>1, <1>2, <2>3, <4>1
      <4>3. n \in DOMAIN At(i) \cap DOMAIN At(q)
        BY <3>1, <3>3, <4>2
      <4>4. At(i)[n] = At(q)[n] <=> \A l \in (i + 1)..N : Pos(l) => n \in DOMAIN At(l)
        <5>1. At(i)[n] = At(q)[n] <=> \A l \in (i + 1)..(q - 1) : Pos(l) => n \in DOMAIN At(l)
          BY <1>9, <3>1, <4>2, <4>3
        <5> QED
          BY <4>2, <5>1
      <4> QED
        BY <3>1, <3>2, <3>3, <4>2, <4>4
    <3>4. CASE n \notin DOMAIN comp.live
      <4>1. At(i)'[n] # At(j)'[n]
        BY <1>3, <1>6, <2>3, <3>1, <3>4
      <4>2. k # i
        BY <1>5, <3>1, <3>4
      <4>3. k \in (i + 1)..N
        <5>1. ~(i \in (k + 1)..N)
          BY <1>5, <3>1
        <5> QED
          BY <1>1, <2>3, <4>2, <5>1
      <4>4. ~(Pos(k) => n \in DOMAIN At(k))
        BY <1>5, <3>4
      <4> QED
        BY <3>2, <4>1, <4>3, <4>4
    <3> QED
      BY <3>3, <3>4
  <2> QED
    BY <1>1, <2>1, <2>2, <2>3
<1> QED
  BY <1>7, <1>8, <1>10

LEMMA ChangeKeeps == IInv /\ Change => IInv'
<1> SUFFICES ASSUME IInv, Change PROVE IInv'
  OBVIOUS
<1> USE DEF reducer, bus
<1>1. changes' = changes + 1 /\ UNCHANGED <<session, reducer, bus>>
  BY DEF Change
<1>2. Types /\ Phases /\ Sources /\ Reduced /\ Bounded /\ History /\ OneLifePerIdentity
  BY DEF IInv
<1>3. /\ comp' \in [live : Lives, home : Partial(Windows, Native \cup {None}),
                    focus : Native \cup {None}]
      /\ \A n \in DOMAIN comp'.live :
           comp'.live[n] = IF n \in DOMAIN comp.live THEN comp.live[n] ELSE changes + 1
      /\ ~session.open => stream' = <<>>
      /\ session.open => \E t \in Seq(Frames) : stream' = stream \o t /\ Sends(t)
  BY <1>2, ChangeSends
<1>4. comp'.live \in Lives
  BY <1>3
<1>5. Types'
  <2>1. stream' \in Seq(Frames)
    <3>1. CASE ~session.open
      <4>1. stream' = <<>>
        BY <1>3, <3>1
      <4> QED
        BY <4>1
    <3>2. CASE session.open
      <4>1. PICK t \in Seq(Frames) : stream' = stream \o t
        BY <1>3, <3>2
      <4> QED
        BY <1>2, <4>1, Appended DEF Types
    <3> QED
      BY <3>1, <3>2
  <2>2. changes' \in Nat
    BY <1>1, <1>2 DEF Types
  <2> QED
    BY <1>1, <1>2, <1>3, <2>1, <2>2 DEF Types
<1>6. Phases'
  BY <1>1, <1>2 DEF Phases, Staging, WellFormed, Shaped, Objects
<1>7. Sources'
  BY <1>1, <1>2 DEF Sources
<1>8. Reduced'
  BY <1>1, <1>2 DEF Reduced, Latest
<1>9. changes \in Nat /\ Len(stream) \in Nat /\ DOMAIN stream = 1..Len(stream)
  BY <1>2 DEF Types
<1>10. \A i : i = Len(stream) + 1 => Pos(i) /\ At(i) = comp.live
  BY <1>9 DEF Pos, At
<1>11. Bounded' /\ History'
  <2>1. CASE ~session.open
    <3>1. stream' = <<>> /\ Len(stream') = 0 /\ DOMAIN stream' = {}
      BY <1>3, <2>1
    <3>2. \A i \in 0..1 : Pos(i)' => (i = 0 /\ Pos(0) /\ At(i)' = At(0)) \/ At(i)' = comp'.live
      <4>1. \A i \in 0..1 : i = 0 \/ i = 1
        OBVIOUS
      <4>2. (Pos(0)' <=> Pos(0)) /\ At(0)' = At(0)
        BY <1>1, <3>1 DEF Pos, At, Latest
      <4>3. At(1)' = comp'.live
        BY <3>1 DEF At
      <4> QED
        BY <4>1, <4>2, <4>3
    <3>3. Pos(0) => \A n \in DOMAIN At(0) : At(0)[n] \in Nat /\ At(0)[n] <= changes
      BY <1>2, <1>9, AtTyped DEF Bounded
    <3>4. \A n \in DOMAIN comp'.live : comp'.live[n] <= changes + 1
      <4>1. PICK q \in 0..(Len(stream) + 1) : q = Len(stream) + 1
        BY <1>9
      <4>2. \A n \in DOMAIN comp.live : comp.live[n] \in Nat /\ comp.live[n] <= changes
        BY <1>2, <1>10, <4>1, AtTyped DEF Bounded
      <4> QED
        BY <1>3, <1>9, <4>2
    <3>5. Bounded'
      BY <1>1, <1>9, <3>1, <3>2, <3>3, <3>4 DEF Bounded
    <3> QED
      BY <1>1, <2>1, <3>5 DEF History
  <2>2. CASE session.open
    <3>1. PICK t \in Seq(Frames) : stream' = stream \o t /\ Sends(t)
      BY <1>3, <2>2
    <3>2. Ordered' /\ Fresh' /\ Bounded'
      BY <1>1, <1>2, <1>3, <1>4, <2>2, <3>1, SentKeepsOrder DEF History
    <3>3. ASSUME NEW x \in meant
          PROVE  x[3] <= changes + 1 /\ (Current(x)' \/ Gone(x)')
      <4>1. x[3] \in Nat /\ x[3] <= changes /\ (Current(x) \/ Gone(x))
        BY <1>2, <2>2 DEF History, Types
      <4>2. Current(x) => Current(x)'
        BY <1>1 DEF Current, Latest
      <4>3. ASSUME Gone(x) PROVE Gone(x)'
        <5>1. x[1] \in used' \ Range(ids)'
          BY <1>1, <4>3 DEF Gone, Range
        <5>2. /\ Len(stream') \in Nat
              /\ \A i \in 0..Len(stream) : (Pos(i)' <=> Pos(i)) /\ At(i)' = At(i)
              /\ \A i \in (Len(stream) + 1)..(Len(stream') + 1) : Pos(i)' => At(i)' = comp'.live
          BY <1>1, <1>2, <3>1, SentPositions
        <5>3. x[2] \in DOMAIN comp'.live => comp'.live[x[2]] # x[3]
          <6>1. PICK q \in 0..(Len(stream) + 1) : q = Len(stream) + 1
            BY <1>9
          <6>2. x[2] \in DOMAIN comp.live => comp.live[x[2]] # x[3]
            BY <1>10, <4>3, <6>1 DEF Gone
          <6> QED
            BY <1>3, <1>9, <4>1, <6>2
        <5>4. ASSUME NEW i \in 0..(Len(stream') + 1), Pos(i)', x[2] \in DOMAIN At(i)'
              PROVE  At(i)'[x[2]] # x[3]
          <6>1. CASE i \in 0..Len(stream)
            <7>1. i \in 0..(Len(stream) + 1)
              BY <1>9, <6>1
            <7> QED
              BY <4>3, <5>2, <5>4, <6>1, <7>1 DEF Gone
          <6>2. CASE i \in (Len(stream) + 1)..(Len(stream') + 1)
            BY <5>2, <5>3, <5>4, <6>2
          <6> QED
            BY <1>9, <5>2, <6>1, <6>2
        <5> QED
          BY <5>1, <5>4 DEF Gone
      <4> QED
        BY <1>9, <4>1, <4>2, <4>3
    <3> QED
      BY <1>1, <3>2, <3>3 DEF History
  <2> QED
    BY <2>1, <2>2
<1>12. OneLifePerIdentity'
  BY <1>1, <1>2 DEF OneLifePerIdentity
<1> QED
  BY <1>5, <1>6, <1>7, <1>8, <1>11, <1>12 DEF IInv
-----------------------------------------------------------------------------
(* The host's loop.                                                        *)

LEMMA FrameTypes ==
    ASSUME Types
    PROVE  /\ WorkspacesFrame(comp) \in WsFrames /\ WindowsFrame(comp) \in WinFrames
           /\ WorkspacesFrame(comp).family = "workspaces" /\ WorkspacesFrame(comp).live = comp.live
           /\ WindowsFrame(comp).family = "windows" /\ OtherFrames.family = "others"
<1>1. /\ comp.live \in Lives /\ comp.home \in Partial(Windows, Native \cup {None})
      /\ comp.focus \in Native \cup {None}
  BY DEF Types
<1>2. \A n \in DOMAIN comp.live : Count(comp.home, n) \in Counts
  <2>1. \A n : {w \in DOMAIN comp.home : comp.home[w] = n} \in SUBSET Windows
    BY <1>1, PartialFunction
  <2> QED
    BY <2>1 DEF Count, Counts
<1>3. DOMAIN comp.live \subseteq Native
  BY <1>1, PartialFunction DEF Lives
<1>4. [n \in DOMAIN comp.live |-> Count(comp.home, n)] \in [DOMAIN comp.live -> Counts]
  BY <1>2
<1>5. [n \in DOMAIN comp.live |-> Count(comp.home, n)] \in Partial(Native, Counts)
  BY <1>3, <1>4 DEF Partial
<1> QED
  BY <1>1, <1>5 DEF WorkspacesFrame, WindowsFrame, OtherFrames, WsFrames, WinFrames

LEMMA ConnectKeeps == IInv /\ Connect => IInv'
<1> SUFFICES ASSUME IInv, Connect PROVE IInv'
  OBVIOUS
<1> USE DEF compositor, bus
<1> DEFINE wsf == WorkspacesFrame(comp)
           winf == WindowsFrame(comp)
           S == {wsf, winf, OtherFrames}
<1>1. /\ ~session.open /\ publishing = "no"
      /\ session' = [open |-> TRUE, generation |-> state.generation + 1]
      /\ families' = NoFrames /\ counted' = FALSE /\ ids' = <<>> /\ used' = {}
      /\ stream' \in SetToSeqs(S) /\ UNCHANGED <<compositor, bus>>
  BY DEF Connect
<1>2. Types /\ Phases /\ Sources /\ Reduced /\ Bounded /\ History /\ OneLifePerIdentity
  BY DEF IInv
<1>3. /\ wsf \in WsFrames /\ winf \in WinFrames /\ wsf.family = "workspaces"
      /\ wsf.live = comp.live /\ winf.family = "windows" /\ OtherFrames.family = "others"
  BY <1>2, FrameTypes
<1> HIDE DEF wsf, winf
<1>4. /\ IsFiniteSet(S) /\ S \subseteq Frames
  <2>1. IsFiniteSet({wsf}) /\ IsFiniteSet({wsf, winf}) /\ IsFiniteSet(S)
    <3>1. IsFiniteSet({wsf})
      BY FS_Singleton
    <3>2. IsFiniteSet({wsf} \cup {winf})
      BY <3>1, FS_AddElement
    <3>3. IsFiniteSet(({wsf} \cup {winf}) \cup {OtherFrames})
      BY <3>2, FS_AddElement
    <3>4. {wsf} \cup {winf} = {wsf, winf} /\ ({wsf} \cup {winf}) \cup {OtherFrames} = S
      OBVIOUS
    <3> QED
      BY <3>1, <3>2, <3>3, <3>4
  <2> QED
    BY <1>3, <2>1 DEF Frames
<1> HIDE DEF S
<1>5. /\ stream' \in Seq(S) /\ Range(stream') = S
      /\ \A i, j \in DOMAIN stream' : stream'[i] = stream'[j] => i = j
  BY <1>1, <1>4, Arrangements
<1> DEFINE M == Len(stream')
<1>6. stream' \in Seq(Frames) /\ M \in Nat /\ DOMAIN stream' = 1..M
  BY <1>4, <1>5
<1> HIDE DEF M
<1>7. \A i \in DOMAIN stream' : stream'[i].family = "workspaces" <=> stream'[i] = wsf
  BY <1>3, <1>5 DEF S
<1>8. PICK m \in DOMAIN stream' : stream'[m] = wsf
  BY <1>5 DEF S, Range
<1>9. \A i \in 0..(M + 1) : Pos(i)' <=> (i = m \/ i = M + 1)
  BY <1>1, <1>5, <1>6, <1>7, <1>8 DEF Pos, NoFrames, M
<1>10. \A i \in 0..(M + 1) : Pos(i)' => At(i)' = comp.live
  <2> SUFFICES ASSUME NEW i \in 0..(M + 1), Pos(i)' PROVE At(i)' = comp.live
    OBVIOUS
  <2>1. CASE i = m
    BY <1>3, <1>6, <1>8, <2>1 DEF At
  <2>2. CASE i = M + 1
    BY <1>1, <1>6, <2>2 DEF At
  <2> QED
    BY <1>9, <2>1, <2>2
<1>11. state.generation \in Nat /\ ~state.connected /\ meant = {}
  BY <1>1, <1>2 DEF Types, Projections, Sources
<1>12. Types'
  <2>1. families' \in [workspaces : None0(WsFrames), windows : None0(WinFrames),
                       others : None0({OtherFrames})]
    BY <1>1 DEF NoFrames, None0
  <2>2. ids' \in Partial(Native, PublicIds) /\ used' \subseteq PublicIds
    BY <1>1, EmptyPartial
  <2>3. session' \in [open : BOOLEAN, generation : Nat]
    BY <1>1, <1>11
  <2> QED
    BY <1>1, <1>2, <1>6, <2>1, <2>2, <2>3 DEF Types
<1>13. Phases'
  BY <1>1, <1>2 DEF Phases, Staging, WellFormed, Shaped, Objects
<1>14. Sources'
  BY <1>1, <1>2, <1>11 DEF Sources, NoFrames
<1>15. Reduced'
  BY <1>1, EmptyFunction DEF Reduced, NoFrames, Range
<1>16. Bounded'
  <2>1. \A i : i = Len(stream) + 1 => Pos(i) /\ At(i) = comp.live
    BY <1>2 DEF Pos, At, Types
  <2>2. PICK q \in 0..(Len(stream) + 1) : q = Len(stream) + 1
    BY <1>2 DEF Types
  <2>3. \A n \in DOMAIN comp.live : comp.live[n] <= changes
    BY <1>2, <2>1, <2>2 DEF Bounded
  <2> QED
    BY <1>1, <1>10, <2>3 DEF Bounded, M
<1>17. Ordered'
  <2> SUFFICES ASSUME NEW i \in 0..(M + 1), NEW j \in 0..(M + 1), Pos(i)', Pos(j)', i < j,
                      NEW n \in DOMAIN At(i)' \cap DOMAIN At(j)'
               PROVE  At(i)'[n] = At(j)'[n]
                      <=> \A l \in (i + 1)..(j - 1) : Pos(l)' => n \in DOMAIN At(l)'
    BY DEF Ordered, M
  <2>1. At(i)' = comp.live /\ At(j)' = comp.live
    BY <1>10
  <2>2. \A l \in (i + 1)..(j - 1) : l \in 0..(M + 1)
    BY <1>6
  <2>3. \A l \in (i + 1)..(j - 1) : Pos(l)' => At(l)' = comp.live
    BY <1>10, <2>2
  <2> QED
    BY <2>1, <2>3
<1>18. Fresh'
  <2>1. m \in 0..M /\ Pos(m)' /\ At(m)' = comp.live
    BY <1>6, <1>9, <1>10
  <2>2. \A l \in (m + 1)..M : ~Pos(l)'
    BY <1>6, <1>9
  <2> QED
    BY <1>1, <2>1, <2>2 DEF Fresh, M
<1>19. History' /\ OneLifePerIdentity'
  BY <1>1, <1>11, <1>17, <1>18 DEF History, OneLifePerIdentity
<1> QED
  BY <1>12, <1>13, <1>14, <1>15, <1>16, <1>19 DEF IInv

\* What becomes of the reducer's maps.
LEMMA ReduceAssigns ==
    ASSUME Types, Reduced, NEW h \in Frames, Reduce(h)
    PROVE  /\ families' \in [workspaces : None0(WsFrames), windows : None0(WinFrames),
                             others : None0({OtherFrames})]
           /\ counted' \in BOOLEAN
           /\ ids' \in Partial(Native, PublicIds) /\ used' \subseteq PublicIds
           /\ used \subseteq used' /\ Reduced'
           /\ h.family = "workspaces" =>
                /\ h \in WsFrames /\ families'.workspaces = {h}
                /\ \A n \in DOMAIN h.live \cap DOMAIN ids : ids'[n] = ids[n]
                /\ \A n \in DOMAIN h.live \ DOMAIN ids : ids'[n] \notin used
           /\ h.family # "workspaces" =>
                UNCHANGED <<ids, used>> /\ families'.workspaces = families.workspaces
<1>1. /\ families \in [workspaces : None0(WsFrames), windows : None0(WinFrames),
                       others : None0({OtherFrames})]
      /\ ids \in Partial(Native, PublicIds) /\ used \subseteq PublicIds /\ counted \in BOOLEAN
  BY DEF Types
<1>2. CASE h.family = "workspaces"
  <2>1. h \in WsFrames
    BY <1>2 DEF Frames, WinFrames, OtherFrames
  <2>2. /\ families' = [families EXCEPT !.workspaces = {h}]
        /\ counted' = (counted \/ DOMAIN h.live # {})
    BY <1>2 DEF Reduce
  <2>3. PICK map \in [DOMAIN h.live -> PublicIds] :
            Assigns(DOMAIN h.live, map) /\ ids' = map /\ used' = used \cup Range(map)
    BY <1>2 DEF Reduce
  <2>4. /\ families' \in [workspaces : None0(WsFrames), windows : None0(WinFrames),
                          others : None0({OtherFrames})]
        /\ families'.workspaces = {h}
    BY <1>1, <2>1, <2>2 DEF None0
  <2>5. DOMAIN h.live \subseteq Native
    BY <2>1, PartialFunction DEF WsFrames, Lives
  <2>6. /\ ids' \in Partial(Native, PublicIds) /\ Range(ids') \subseteq PublicIds
        /\ DOMAIN ids' = DOMAIN h.live
    BY <2>3, <2>5 DEF Partial, Range
  <2>7. /\ \A n \in DOMAIN h.live \cap DOMAIN ids : ids'[n] = ids[n]
        /\ \A n \in DOMAIN h.live \ DOMAIN ids : ids'[n] \notin used
        /\ \A n, m \in DOMAIN h.live \ DOMAIN ids : n # m => ids'[m] # ids'[n]
    BY <2>3 DEF Assigns
  <2>8. \A m, n \in DOMAIN ids' : ids'[m] = ids'[n] => m = n
    <3> SUFFICES ASSUME NEW m \in DOMAIN ids', NEW n \in DOMAIN ids', ids'[m] = ids'[n]
                 PROVE  m = n
      OBVIOUS
    <3>1. \A k \in DOMAIN ids : ids[k] \in used
      BY DEF Reduced, Range
    <3>2. CASE m \in DOMAIN ids /\ n \in DOMAIN ids
      BY <2>6, <2>7, <3>2 DEF Reduced
    <3>3. CASE m \in DOMAIN ids /\ n \notin DOMAIN ids
      BY <2>6, <2>7, <3>1, <3>3
    <3>4. CASE m \notin DOMAIN ids /\ n \in DOMAIN ids
      BY <2>6, <2>7, <3>1, <3>4
    <3>5. CASE m \notin DOMAIN ids /\ n \notin DOMAIN ids
      BY <2>6, <2>7, <3>5
    <3> QED
      BY <3>2, <3>3, <3>4, <3>5
  <2>9. (Latest)' = h
    BY <2>4 DEF Latest
  <2>10. Reduced'
    <3>1. DOMAIN ids' = DOMAIN (Latest)'.live
      BY <2>6, <2>9
    <3>2. families'.workspaces # {} /\ Range(ids') \subseteq used'
      BY <2>3, <2>4
    <3> QED
      BY <2>8, <3>1, <3>2 DEF Reduced
  <2> QED
    BY <1>1, <1>2, <2>1, <2>2, <2>3, <2>4, <2>6, <2>7, <2>10
<1>3. CASE h.family # "workspaces"
  <2>1. /\ \/ families' = [families EXCEPT !.windows = {h}] /\ h.family = "windows"
           \/ families' = [families EXCEPT !.others = {h}] /\ h.family = "others"
        /\ UNCHANGED <<counted, ids, used>>
    BY <1>3 DEF Reduce
  <2>2. /\ h.family = "windows" => h \in WinFrames
        /\ h.family = "others" => h \in {OtherFrames}
    BY DEF Frames, WinFrames, WsFrames, OtherFrames
  <2>3. /\ families' \in [workspaces : None0(WsFrames), windows : None0(WinFrames),
                          others : None0({OtherFrames})]
        /\ families'.workspaces = families.workspaces
    BY <1>1, <2>1, <2>2 DEF None0
  <2>4. Reduced'
    BY <2>1, <2>3 DEF Reduced, Latest
  <2> QED
    BY <1>1, <1>3, <2>1, <2>3, <2>4
<1> QED
  BY <1>2, <1>3

\* The frame read takes the place of the last read one, and the others move up.
LEMMA ReadPositions ==
    ASSUME Types, NEW a \in {0, 1}, stream # <<>>, stream' = Tail(stream), UNCHANGED comp,
           a = 1 <=> Head(stream).family = "workspaces",
           a = 1 => families'.workspaces = {Head(stream)},
           a = 0 => families'.workspaces = families.workspaces
    PROVE  /\ Len(stream) \in Nat /\ Len(stream) >= 1 /\ Len(stream') = Len(stream) - 1
           /\ \A i : i = 0 => /\ Pos(i)' <=> Pos(a)
                              /\ Pos(a) => At(i)' = At(a)
           /\ \A i : i = 1 => (Pos(i) <=> a = 1)
           /\ \A i \in 1..Len(stream), k \in 2..(Len(stream) + 1) : k = i + 1 =>
                (Pos(i)' <=> Pos(k)) /\ At(i)' = At(k)
<1> DEFINE N == Len(stream)
<1>1. /\ stream \in Seq(Frames) /\ N \in Nat /\ N >= 1 /\ DOMAIN stream = 1..N
      /\ Head(stream) = stream[1]
  BY DEF Types
<1>2. /\ Len(stream') = N - 1 /\ DOMAIN stream' = 1..(N - 1)
      /\ \A i \in 1..(N - 1) : stream'[i] = stream[i + 1]
  BY <1>1
<1>3. \A i : i = 1 => (Pos(i) <=> a = 1)
  BY <1>1 DEF Pos
<1>4. \A i : i = 0 => (Pos(i)' <=> Pos(a)) /\ (Pos(a) => At(i)' = At(a))
  <2>1. CASE a = 0
    <3>1. (Latest)' = Latest /\ families'.workspaces = families.workspaces
      BY <2>1 DEF Latest
    <3>2. 0 \notin DOMAIN stream' /\ 0 # Len(stream') + 1
          /\ 0 \notin DOMAIN stream /\ 0 # N + 1
      BY <1>1, <1>2
    <3>3. Pos(0) <=> families.workspaces # {}
      BY <3>2 DEF Pos
    <3>4. Pos(0)' <=> families'.workspaces # {}
      BY <3>2 DEF Pos
    <3>5. At(0) = Latest.live /\ At(0)' = (Latest)'.live
      BY DEF At
    <3> QED
      BY <2>1, <3>1, <3>3, <3>4, <3>5
  <2>2. CASE a = 1
    <3>1. families'.workspaces = {stream[1]} /\ (Latest)' = stream[1]
      BY <1>1, <2>2 DEF Latest
    <3>2. Pos(a) /\ At(a) = stream[1].live
      BY <1>1, <1>3, <2>2 DEF At
    <3>3. \A i : i = 0 => Pos(i)' /\ At(i)' = stream[1].live
      BY <1>1, <3>1 DEF Pos, At
    <3> QED
      BY <3>2, <3>3
  <2> QED
    BY <2>1, <2>2
<1> HIDE DEF N
<1>5. ASSUME NEW i \in 1..N, NEW k \in 2..(N + 1), k = i + 1
      PROVE  (Pos(i)' <=> Pos(k)) /\ At(i)' = At(k)
  <2>1. CASE i \in 1..(N - 1)
    <3>1. i \in DOMAIN stream' /\ k \in DOMAIN stream /\ stream'[i] = stream[k]
      BY <1>1, <1>2, <1>5, <2>1
    <3>2. i # 0 /\ k # 0 /\ i # Len(stream') + 1 /\ k # N + 1
      BY <1>1, <1>2, <1>5, <2>1
    <3> QED
      BY <3>1, <3>2 DEF Pos, At, N
  <2>2. CASE i = N
    <3>1. i \notin DOMAIN stream' /\ k \notin DOMAIN stream /\ k = N + 1 /\ i = Len(stream') + 1
      BY <1>1, <1>2, <1>5, <2>2
    <3>2. i # 0 /\ k # 0
      BY <1>5
    <3> QED
      BY <3>1, <3>2 DEF Pos, At, N
  <2> QED
    BY <1>1, <2>1, <2>2
<1> QED
  BY <1>1, <1>2, <1>3, <1>4, <1>5 DEF N

LEMMA ReadKeepsOrder ==
    ASSUME Types, Ordered, Fresh, Bounded, UNCHANGED <<comp, changes>>, NEW a \in {0, 1},
           stream # <<>>, stream' = Tail(stream),
           a = 1 <=> Head(stream).family = "workspaces",
           a = 1 => families'.workspaces = {Head(stream)},
           a = 0 => families'.workspaces = families.workspaces
    PROVE  Ordered' /\ Fresh' /\ Bounded'
<1> DEFINE N == Len(stream)
           M == Len(stream')
           From(i, k) == k \in 0..(N + 1) /\ k = IF i = 0 THEN a ELSE i + 1
<1>1. /\ N \in Nat /\ N >= 1 /\ M = N - 1
      /\ \A i : i = 0 => /\ Pos(i)' <=> Pos(a)
                         /\ Pos(a) => At(i)' = At(a)
      /\ \A i : i = 1 => (Pos(i) <=> a = 1)
      /\ \A i \in 1..N, k \in 2..(N + 1) : k = i + 1 => (Pos(i)' <=> Pos(k)) /\ At(i)' = At(k)
  BY ReadPositions
<1>2. /\ \A i, j \in 0..(N + 1) : Pos(i) /\ Pos(j) /\ i < j =>
            \A n \in DOMAIN At(i) \cap DOMAIN At(j) :
                At(i)[n] = At(j)[n] <=> \A l \in (i + 1)..(j - 1) : Pos(l) => n \in DOMAIN At(l)
      /\ \A i \in 0..(N + 1) : Pos(i) => \A n \in DOMAIN At(i) : At(i)[n] <= changes
  BY DEF Ordered, Bounded
<1>3. PICK f \in 0..N : Pos(f) /\ At(f) = comp.live /\ \A l \in (f + 1)..N : ~Pos(l)
  BY DEF Fresh
<1> HIDE DEF N, M
<1>4. \A i \in 0..N : \E k : From(i, k)
  BY <1>1
<1>5. \A i \in 0..N : \A k : From(i, k) => (Pos(i)' <=> Pos(k)) /\ (Pos(k) => At(i)' = At(k))
  <2> SUFFICES ASSUME NEW i \in 0..N, NEW k, From(i, k)
               PROVE  (Pos(i)' <=> Pos(k)) /\ (Pos(k) => At(i)' = At(k))
    OBVIOUS
  <2>1. CASE i = 0
    BY <1>1, <2>1
  <2>2. CASE i # 0
    <3>1. i \in 1..N /\ k \in 2..(N + 1) /\ k = i + 1
      BY <1>1, <2>2
    <3> QED
      BY <1>1, <3>1
  <2> QED
    BY <2>1, <2>2
<1>6. Bounded'
  <2> SUFFICES ASSUME NEW i \in 0..(M + 1), Pos(i)', NEW n \in DOMAIN At(i)'
               PROVE  At(i)'[n] <= changes
    BY DEF Bounded, M
  <2>1. i \in 0..N
    BY <1>1
  <2>2. PICK k : From(i, k)
    BY <1>4, <2>1
  <2>3. Pos(k) /\ At(i)' = At(k)
    BY <1>5, <2>1, <2>2
  <2> QED
    BY <1>2, <2>2, <2>3
<1>7. Fresh'
  <2>1. ASSUME NEW g \in 0..M, From(g, f) PROVE Fresh'
    <3>1. g \in 0..N
      BY <1>1
    <3>2. Pos(g)' /\ At(g)' = comp.live
      BY <1>3, <1>5, <2>1, <3>1
    <3>3. ASSUME NEW l \in (g + 1)..M PROVE ~Pos(l)'
      <4>1. PICK k \in 2..(N + 1) : k = l + 1
        BY <1>1, <3>1
      <4>2. l \in 1..N /\ k \in (f + 1)..N
        BY <1>1, <2>1, <3>1, <4>1
      <4> QED
        BY <1>1, <1>3, <4>1, <4>2
    <3> QED
      BY <3>2, <3>3 DEF Fresh, M
  <2>2. CASE f = 0
    <3>1. \A i : i = 1 => ~Pos(i)
      BY <1>1, <1>3, <2>2
    <3>2. a = 0
      BY <1>1, <3>1
    <3>3. 0 \in 0..M /\ From(0, f)
      BY <1>1, <2>2, <3>2
    <3> QED
      BY <2>1, <3>3
  <2>3. CASE f = 1
    <3>1. a = 1
      BY <1>1, <1>3, <2>3
    <3>2. 0 \in 0..M /\ From(0, f)
      BY <1>1, <2>3, <3>1
    <3> QED
      BY <2>1, <3>2
  <2>4. CASE f \in 2..N
    <3>1. PICK g \in 0..M : g = f - 1
      BY <1>1, <2>4
    <3>2. From(g, f)
      BY <1>1, <2>4, <3>1
    <3> QED
      BY <2>1, <3>2
  <2> QED
    BY <1>1, <2>2, <2>3, <2>4
<1>8. Ordered'
  <2> SUFFICES ASSUME NEW i \in 0..(M + 1), NEW j \in 0..(M + 1), Pos(i)', Pos(j)', i < j,
                      NEW n \in DOMAIN At(i)' \cap DOMAIN At(j)'
               PROVE  At(i)'[n] = At(j)'[n]
                      <=> \A l \in (i + 1)..(j - 1) : Pos(l)' => n \in DOMAIN At(l)'
    BY DEF Ordered, M
  <2>1. i \in 0..N /\ j \in 1..N
    BY <1>1
  <2>2. PICK k : From(i, k)
    BY <1>4, <2>1
  <2>3. PICK m : m \in 2..(N + 1) /\ m = j + 1
    BY <1>1, <2>1
  <2>4. Pos(k) /\ Pos(m) /\ At(i)' = At(k) /\ At(j)' = At(m)
    BY <1>1, <1>5, <2>1, <2>2, <2>3
  <2>5. k \in 0..(N + 1) /\ m \in 0..(N + 1) /\ k < m
    BY <1>1, <2>1, <2>2, <2>3
  <2>6. At(k)[n] = At(m)[n] <=> \A l \in (k + 1)..(m - 1) : Pos(l) => n \in DOMAIN At(l)
    BY <1>2, <2>4, <2>5
  <2>7. ASSUME \A l \in (k + 1)..(m - 1) : Pos(l) => n \in DOMAIN At(l),
               NEW l \in (i + 1)..(j - 1), Pos(l)'
        PROVE  n \in DOMAIN At(l)'
    <3>1. PICK q \in 2..(N + 1) : q = l + 1
      BY <1>1, <2>1
    <3>2. l \in 1..N /\ q \in (k + 1)..(m - 1)
      BY <1>1, <2>1, <2>2, <2>3, <3>1
    <3> QED
      BY <1>1, <2>7, <3>1, <3>2
  <2>8. ASSUME \A l \in (i + 1)..(j - 1) : Pos(l)' => n \in DOMAIN At(l)',
               NEW l \in (k + 1)..(m - 1), Pos(l)
        PROVE  n \in DOMAIN At(l)
    <3>1. CASE l = 1
      <4>1. a = 1 /\ k = 0
        BY <1>1, <2>2, <2>8, <3>1
      <4> QED
        BY <2>1, <2>2, <4>1
    <3>2. CASE l # 1
      <4>1. l \in 2..(N + 1)
        BY <1>1, <2>1, <2>2, <2>3, <3>2
      <4>2. PICK q \in 1..N : l = q + 1
        BY <1>1, <4>1
      <4>3. q \in (i + 1)..(j - 1)
        BY <1>1, <2>1, <2>2, <2>3, <4>2
      <4> QED
        BY <1>1, <2>8, <4>1, <4>2, <4>3
    <3> QED
      BY <3>1, <3>2
  <2> QED
    BY <2>4, <2>6, <2>7, <2>8
<1> QED
  BY <1>6, <1>7, <1>8

\* A life that was meant goes on, or its public id is not given again.
LEMMA ReadKeepsLives ==
    ASSUME Types, Reduced, Ordered, UNCHANGED <<comp, changes>>, NEW a \in {0, 1},
           stream # <<>>, stream' = Tail(stream), Reduce(Head(stream)),
           Head(stream) \in Frames,
           a = 1 <=> Head(stream).family = "workspaces",
           state'.listed = state.listed,
           NEW x, Current(x) \/ Gone(x)
    PROVE  Current(x)' \/ Gone(x)'
<1> DEFINE N == Len(stream)
           h == Head(stream)
           n == x[2]
<1>1. /\ used \subseteq used' /\ Reduced'
      /\ a = 1 =>
            /\ h \in WsFrames /\ families'.workspaces = {h}
            /\ \A m \in DOMAIN h.live \cap DOMAIN ids : ids'[m] = ids[m]
            /\ \A m \in DOMAIN h.live \ DOMAIN ids : ids'[m] \notin used
      /\ a = 0 => UNCHANGED <<ids, used>> /\ families'.workspaces = families.workspaces
  BY ReduceAssigns
<1>2. /\ N \in Nat /\ N >= 1 /\ Len(stream') = N - 1
      /\ \A i : i = 0 => /\ Pos(i)' <=> Pos(a)
                         /\ Pos(a) => At(i)' = At(a)
      /\ \A i : i = 1 => (Pos(i) <=> a = 1)
      /\ \A i \in 1..N, k \in 2..(N + 1) : k = i + 1 => (Pos(i)' <=> Pos(k)) /\ At(i)' = At(k)
  BY <1>1, ReadPositions
<1>3. a = 1 => (Latest)' = h /\ Pos(1) /\ At(1) = h.live
  <2>1. 1 \in DOMAIN stream /\ h = stream[1] /\ DOMAIN stream = 1..N /\ stream \in Seq(Frames)
    BY <1>2 DEF Types
  <2> QED
    BY <1>1, <1>2, <2>1 DEF Latest, At
<1>4. \A i, j \in 0..(N + 1) : Pos(i) /\ Pos(j) /\ i < j =>
        \A m \in DOMAIN At(i) \cap DOMAIN At(j) :
            At(i)[m] = At(j)[m] <=> \A l \in (i + 1)..(j - 1) : Pos(l) => m \in DOMAIN At(l)
  BY DEF Ordered
<1> HIDE DEF N, h
<1>5. \A i \in 0..N : Pos(i)' =>
        \E k \in 0..(N + 1) : /\ Pos(k) /\ At(i)' = At(k)
                              /\ i = 0 => k = a
                              /\ i # 0 => k = i + 1
  <2> SUFFICES ASSUME NEW i \in 0..N, Pos(i)'
               PROVE  \E k \in 0..(N + 1) : /\ Pos(k) /\ At(i)' = At(k)
                                            /\ i = 0 => k = a
                                            /\ i # 0 => k = i + 1
    OBVIOUS
  <2>1. CASE i = 0
    BY <1>2, <2>1
  <2>2. CASE i # 0
    <3>1. PICK k \in 2..(N + 1) : k = i + 1
      BY <1>2, <2>2
    <3>2. i \in 1..N /\ k \in 0..(N + 1)
      BY <1>2, <2>2, <3>1
    <3> QED
      BY <1>2, <2>2, <3>1, <3>2
  <2> QED
    BY <2>1, <2>2
<1>6. Range(ids) \subseteq used
  BY DEF Reduced
<1>7. CASE a = 0
  <2>1. Current(x) => Current(x)'
    BY <1>1, <1>7 DEF Current, Latest
  <2>2. ASSUME Gone(x) PROVE Gone(x)'
    <3>1. x[1] \in used' \ Range(ids')
      BY <1>1, <1>7, <2>2 DEF Gone
    <3>2. \A i \in 0..N : Pos(i)' /\ n \in DOMAIN At(i)' => At(i)'[n] # x[3]
      BY <1>5, <2>2 DEF Gone, N
    <3> QED
      BY <1>2, <3>1, <3>2 DEF Gone
  <2> QED
    BY <2>1, <2>2
<1>8. CASE a = 1
  <2>1. /\ families'.workspaces = {h} /\ DOMAIN ids' = DOMAIN h.live
        /\ \A m \in DOMAIN h.live \cap DOMAIN ids : ids'[m] = ids[m]
        /\ \A m \in DOMAIN h.live \ DOMAIN ids : ids'[m] \notin used
    BY <1>1, <1>3, <1>8 DEF Reduced
  <2>2. CASE Gone(x)
    <3>1. x[1] \in used'
      BY <1>1, <2>2 DEF Gone
    <3>2. \A m \in DOMAIN ids' : ids'[m] # x[1]
      BY <2>1, <2>2 DEF Gone, Range
    <3>3. x[1] \notin Range(ids')
      BY <3>2 DEF Range
    <3>4. \A i \in 0..N : Pos(i)' /\ n \in DOMAIN At(i)' => At(i)'[n] # x[3]
      BY <1>5, <2>2 DEF Gone, N
    <3> QED
      BY <1>2, <3>1, <3>3, <3>4 DEF Gone
  <2>3. CASE Current(x) /\ n \in DOMAIN h.live
    <3>1. Pos(0) /\ At(0) = Latest.live /\ n \in DOMAIN At(0) /\ n \in DOMAIN At(1)
      BY <1>3, <1>8, <2>3 DEF Current, Pos, At, Reduced
    <3>2. At(0)[n] = At(1)[n]
      <4>1. 0 \in 0..(N + 1) /\ 1 \in 0..(N + 1) /\ 0 < 1 /\ (0 + 1)..(1 - 1) = {}
        BY <1>2
      <4> QED
        BY <1>3, <1>4, <1>8, <3>1, <4>1
    <3>3. h.live[n] = x[3] /\ ids'[n] = x[1]
      BY <1>3, <1>8, <2>1, <2>3, <3>1, <3>2 DEF Current
    <3> QED
      BY <1>3, <1>8, <2>1, <2>3, <3>3 DEF Current
  <2>4. CASE Current(x) /\ n \notin DOMAIN h.live
    <3>1. n \in DOMAIN ids /\ ids[n] = x[1] /\ x[1] \in used
      BY <1>6, <2>4 DEF Current, Range
    <3>2. \A m \in DOMAIN ids' : ids'[m] # x[1]
      BY <2>1, <2>4, <3>1 DEF Reduced
    <3>3. x[1] \in used' \ Range(ids')
      BY <1>1, <3>1, <3>2 DEF Range
    <3>4. Pos(0) /\ At(0) = Latest.live /\ n \in DOMAIN At(0) /\ At(0)[n] = x[3]
      BY <2>4 DEF Current, Pos, At, Reduced
    <3>5. \A k \in 2..(N + 1) : Pos(k) /\ n \in DOMAIN At(k) => At(k)[n] # x[3]
      <4> SUFFICES ASSUME NEW k \in 2..(N + 1), Pos(k), n \in DOMAIN At(k)
                   PROVE  At(k)[n] # x[3]
        OBVIOUS
      <4>1. 1 \in (0 + 1)..(k - 1) /\ 0 \in 0..(N + 1) /\ k \in 0..(N + 1) /\ 0 < k
        BY <1>2
      <4>2. At(0)[n] = At(k)[n] <=> \A l \in (0 + 1)..(k - 1) : Pos(l) => n \in DOMAIN At(l)
        BY <1>4, <3>4, <4>1
      <4>3. Pos(1) /\ n \notin DOMAIN At(1)
        BY <1>3, <1>8, <2>4
      <4> QED
        BY <3>4, <4>1, <4>2, <4>3
    <3>6. \A i \in 0..N : Pos(i)' /\ n \in DOMAIN At(i)' => At(i)'[n] # x[3]
      <4> SUFFICES ASSUME NEW i \in 0..N, Pos(i)', n \in DOMAIN At(i)'
                   PROVE  At(i)'[n] # x[3]
        OBVIOUS
      <4>1. CASE i = 0
        BY <1>2, <1>3, <1>8, <2>4, <4>1
      <4>2. CASE i # 0
        <5>1. PICK k \in 2..(N + 1) : k = i + 1
          BY <1>2, <4>2
        <5>2. i \in 1..N
          BY <1>2, <4>2
        <5> QED
          BY <1>2, <3>5, <5>1, <5>2
      <4> QED
        BY <4>1, <4>2
    <3> QED
      BY <1>2, <3>3, <3>6 DEF Gone
  <2> QED
    BY <2>2, <2>3, <2>4
<1> QED
  BY <1>7, <1>8

\* What is published after a frame is the projection of the families.
LEMMA ReadPublishes ==
    ASSUME IInv, Read,
           families' \in [workspaces : None0(WsFrames), windows : None0(WinFrames),
                          others : None0({OtherFrames})],
           ids' \in Partial(Native, PublicIds), Reduced'
    PROVE  /\ state' \in Projections /\ target' \in Projections
           /\ UNCHANGED <<registered, meant>> /\ publishing' \in {"no", "register"} /\ Phases'
           /\ state'.connected = state.connected /\ state'.generation = state.generation
           /\ state'.listed = state.listed
           /\ publishing' = "register" =>
                /\ target'.connected /\ target'.generation = session.generation
                /\ families'.workspaces # {} /\ target'.workspaces = Range(ids')
                /\ counted' => \A win \in families'.windows : \A w \in DOMAIN win.home :
                     w \in DOMAIN target'.home
                     /\ (win.home[w] # None => target'.home[w] # None)
<1>1. Types /\ Phases /\ publishing = "no"
  BY DEF IInv, Read
<1>2. ASSUME UNCHANGED bus
      PROVE  /\ state' \in Projections /\ target' \in Projections
             /\ UNCHANGED <<registered, meant>> /\ publishing' = "no" /\ Phases'
             /\ UNCHANGED state
  <2>1. Phases'
    BY <1>1, <1>2 DEF Phases, bus, Staging, WellFormed, Shaped, Objects
  <2> QED
    BY <1>1, <1>2, <2>1 DEF bus, Types
<1>3. ASSUME NEW ws \in families'.workspaces, NEW win \in families'.windows,
             ~(counted' /\ ~Consistent(ws, win)),
             Publish(Project(ws, win, ids', session.generation))
      PROVE  /\ state' \in Projections /\ target' \in Projections
             /\ UNCHANGED <<registered, meant>> /\ publishing' \in {"no", "register"} /\ Phases'
             /\ state'.connected = state.connected /\ state'.generation = state.generation
             /\ state'.listed = state.listed
             /\ publishing' = "register" =>
                  /\ target'.connected /\ target'.generation = session.generation
                  /\ families'.workspaces # {} /\ target'.workspaces = Range(ids')
                  /\ counted' => \A v \in families'.windows : \A w \in DOMAIN v.home :
                       w \in DOMAIN target'.home
                       /\ (v.home[w] # None => target'.home[w] # None)
  <2> DEFINE next == Project(ws, win, ids', session.generation)
  <2>1. /\ ws \in WsFrames /\ families'.workspaces = {ws}
        /\ win \in WinFrames /\ families'.windows = {win}
    BY DEF None0
  <2>2. (Latest)' = ws
    BY <2>1 DEF Latest
  <2>3. ids' \in [DOMAIN ws.live -> PublicIds]
    <3>1. DOMAIN ids' = DOMAIN ws.live
      BY <2>1, <2>2 DEF Reduced
    <3> QED
      BY <3>1, PartialFunction
  <2>4. session.generation \in Nat
    BY <1>1 DEF Types
  <2>5. /\ next \in Projections /\ Shaped(next) /\ IsFiniteSet(next.workspaces)
        /\ next.connected /\ next.generation = session.generation
        /\ next.workspaces = Range(ids') /\ DOMAIN next.home = DOMAIN win.home
        /\ Consistent(ws, win) =>
             \A w \in DOMAIN win.home : win.home[w] # None => next.home[w] # None
    BY <2>1, <2>3, <2>4, ProjectIsShaped
  <2>6. Publish(next)
    BY <1>3
  <2> HIDE DEF next
  <2>7. /\ state' \in Projections /\ target' \in Projections
        /\ UNCHANGED <<registered, meant>> /\ publishing' \in {"no", "register"} /\ Phases'
        /\ state'.connected = state.connected /\ state'.generation = state.generation
        /\ state'.listed = state.listed
        /\ publishing' = "register" =>
             /\ target'.connected = next.connected /\ target'.generation = next.generation
             /\ target'.workspaces = next.workspaces /\ target'.home = next.home
    BY <1>1, <2>5, <2>6, PublishStages
  <2>8. ASSUME publishing' = "register", counted', NEW v \in families'.windows,
               NEW w \in DOMAIN v.home
        PROVE  w \in DOMAIN target'.home /\ (v.home[w] # None => target'.home[w] # None)
    BY <1>3, <2>1, <2>5, <2>7, <2>8
  <2> QED
    BY <2>1, <2>5, <2>7, <2>8
<1>4. \/ UNCHANGED bus
      \/ \E ws \in families'.workspaces, win \in families'.windows :
            /\ ~(counted' /\ ~Consistent(ws, win))
            /\ Publish(Project(ws, win, ids', session.generation))
  <2>1. LET complete == \A f \in DOMAIN families : families'[f] # {}
        IN  IF complete
            THEN \E ws \in families'.workspaces, win \in families'.windows :
                    IF counted' /\ ~Consistent(ws, win)
                    THEN UNCHANGED bus
                    ELSE Publish(Project(ws, win, ids', session.generation))
            ELSE UNCHANGED bus
    BY DEF Read
  <2>2. CASE ~(\A f \in DOMAIN families : families'[f] # {})
    BY <2>1, <2>2
  <2>3. CASE \A f \in DOMAIN families : families'[f] # {}
    <3>1. \E ws \in families'.workspaces, win \in families'.windows :
                    IF counted' /\ ~Consistent(ws, win)
                    THEN UNCHANGED bus
                    ELSE Publish(Project(ws, win, ids', session.generation))
      BY <2>1, <2>3
    <3> QED
      BY <3>1
  <2> QED
    BY <2>2, <2>3
<1>5. CASE UNCHANGED bus
  BY <1>2, <1>5
<1>6. CASE ~UNCHANGED bus
  <2>1. PICK ws \in families'.workspaces :
            \E win \in families'.windows :
                /\ ~(counted' /\ ~Consistent(ws, win))
                /\ Publish(Project(ws, win, ids', session.generation))
    BY <1>4, <1>6
  <2>2. PICK win \in families'.windows :
            /\ ~(counted' /\ ~Consistent(ws, win))
            /\ Publish(Project(ws, win, ids', session.generation))
    BY <2>1
  <2> QED
    BY <1>3, <2>2
<1> QED
  BY <1>5, <1>6

LEMMA ReadKeeps == IInv /\ Read => IInv'
<1> SUFFICES ASSUME IInv, Read PROVE IInv'
  OBVIOUS
<1>1. /\ session.open /\ publishing = "no" /\ stream # <<>> /\ stream' = Tail(stream)
      /\ Reduce(Head(stream)) /\ UNCHANGED <<comp, changes, session>>
  BY DEF Read, compositor
<1>2. Types /\ Phases /\ Sources /\ Reduced /\ Bounded /\ History /\ OneLifePerIdentity
  BY DEF IInv
<1>3. Head(stream) \in Frames /\ stream' \in Seq(Frames)
  BY <1>1, <1>2, HeadTailProperties DEF Types
<1>4. /\ families' \in [workspaces : None0(WsFrames), windows : None0(WinFrames),
                        others : None0({OtherFrames})]
      /\ counted' \in BOOLEAN
      /\ ids' \in Partial(Native, PublicIds) /\ used' \subseteq PublicIds
      /\ used \subseteq used' /\ Reduced'
      /\ Head(stream).family = "workspaces" => families'.workspaces = {Head(stream)}
      /\ Head(stream).family # "workspaces" => families'.workspaces = families.workspaces
  BY <1>1, <1>2, <1>3, ReduceAssigns
<1>5. /\ state' \in Projections /\ target' \in Projections
      /\ UNCHANGED <<registered, meant>> /\ publishing' \in {"no", "register"} /\ Phases'
      /\ state'.connected = state.connected /\ state'.generation = state.generation
      /\ state'.listed = state.listed
      /\ publishing' = "register" =>
           /\ target'.connected /\ target'.generation = session.generation
           /\ families'.workspaces # {} /\ target'.workspaces = Range(ids')
           /\ counted' => \A win \in families'.windows : \A w \in DOMAIN win.home :
                w \in DOMAIN target'.home
                /\ (win.home[w] # None => target'.home[w] # None)
  BY <1>4, ReadPublishes
<1>6. Types'
  BY <1>1, <1>2, <1>3, <1>4, <1>5 DEF Types
<1>7. Sources'
  BY <1>1, <1>2, <1>5 DEF Sources
<1>8. PICK a \in {0, 1} : a = 1 <=> Head(stream).family = "workspaces"
  OBVIOUS
<1>9. Ordered' /\ Fresh' /\ Bounded'
  BY <1>1, <1>2, <1>4, <1>8, ReadKeepsOrder DEF History
<1>10. ASSUME NEW x \in meant PROVE x[3] <= changes /\ (Current(x)' \/ Gone(x)')
  <2>1. x[3] <= changes /\ (Current(x) \/ Gone(x))
    BY <1>1, <1>2 DEF History
  <2> QED
    BY <1>1, <1>2, <1>3, <1>5, <1>8, <2>1, ReadKeepsLives DEF History
<1>11. History' /\ OneLifePerIdentity'
  BY <1>1, <1>2, <1>5, <1>9, <1>10 DEF History, OneLifePerIdentity
<1> QED
  BY <1>4, <1>5, <1>6, <1>7, <1>9, <1>11 DEF IInv

LEMMA Stutters == IInv /\ UNCHANGED vars => IInv'
<1> SUFFICES ASSUME IInv, UNCHANGED vars PROVE IInv'
  OBVIOUS
<1>1. /\ UNCHANGED <<comp, changes, stream, session, families, counted, ids, used>>
      /\ UNCHANGED <<state, registered, publishing, target, meant>>
  BY DEF vars
<1>2. Types' /\ Phases' /\ Sources'
  BY <1>1 DEF IInv, Types, Phases, Sources, Staging, WellFormed, Shaped, Objects
<1>3. Reduced' /\ Bounded' /\ History' /\ OneLifePerIdentity'
  BY <1>1, Untouched DEF IInv, compositor, reducer
<1> QED
  BY <1>2, <1>3 DEF IInv

-----------------------------------------------------------------------------
(* The theorems.                                                           *)

\* The invariant of the host's connection, its reducer and its publications, for
\* every interleaving of compositor changes with frames, registrations and lost
\* connections.
THEOREM SourceInvariant == Spec => []IInv
<1>1. IInv /\ [Next]_vars => IInv'
  BY ChangeKeeps, DisconnectKeeps, ConnectKeeps, ReadKeeps, RegisterKeeps, CommitKeeps,
     UnregisterKeeps, PublishedKeeps, Stutters DEF Next, Host
<1> QED
  BY InitInvariant, <1>1, PTL DEF Spec

\* At every step of a publication, what readers of the bus see refers only to
\* objects at the object server, and a finished publication leaves exactly its
\* objects and a most-recently-used order of its workspaces (service.rs publish).
THEOREM ReferencesResolve == Spec => []ReferencesRegistered
<1>1. IInv => ReferencesRegistered
  <2> SUFFICES ASSUME IInv PROVE ReferencesRegistered
    OBVIOUS
  <2>1. Types /\ Phases
    BY DEF IInv
  <2>2. TypeOK
    BY <2>1 DEF Types, TypeOK
  <2>3. CASE publishing = "register"
    <3>1. Staging
      BY <2>1, <2>3 DEF Phases
    <3> QED
      BY <2>2, <2>3, <3>1 DEF Staging, Objects, ReferencesRegistered
  <2>4. CASE publishing # "register"
    <3>1. /\ state = target /\ Objects(state) \subseteq registered /\ WellFormed(state)
          /\ publishing = "no" => registered = Objects(state)
      BY <2>1, <2>4 DEF Phases
    <3>2. /\ state.listed = state.workspaces /\ DOMAIN state.home = state.windows
          /\ \A w \in state.windows : state.home[w] \in state.workspaces \cup {None}
          /\ state.focus \in state.workspaces \cup {None}
          /\ Range(state.mru) = state.workspaces
          /\ Len(state.mru) = Cardinality(state.workspaces)
          /\ state.focus # None => Head(state.mru) = state.focus
      BY <3>1 DEF WellFormed, Shaped
    <3>3. state.workspaces \subseteq registered
      BY <3>1 DEF Objects
    <3> QED
      BY <2>2, <3>1, <3>2, <3>3 DEF Objects, ReferencesRegistered
  <2> QED
    BY <2>3, <2>4
<1> QED
  BY <1>1, SourceInvariant, PTL

\* A public id denotes one life of one native workspace in its generation, whatever
\* ids the compositor gives again and however late its frames are read
\* (umbriel/state.rs reduce_workspaces, used_workspace_ids).
THEOREM IdentitiesHaveOneLife == Spec => []OneLifePerIdentity
<1>1. IInv => OneLifePerIdentity
  BY DEF IInv
<1> QED
  BY <1>1, SourceInvariant, PTL

\* No commit shows a window without the workspace its last frame put it on, once
\* counts were seen (state/coherence.rs consistent).
THEOREM TopologyComplete == Spec => NoPartialTopology
<1> DEFINE Whole ==
        publishing = "register" /\ publishing' = "unregister" /\ state'.connected /\ counted =>
            \A win \in families.windows : \A w \in DOMAIN win.home :
                win.home[w] # None => state'.home[w] # None
<1>1. IInv /\ [Next]_vars => Whole
  <2> SUFFICES ASSUME IInv, [Next]_vars, publishing = "register", publishing' = "unregister",
                      state'.connected, counted
               PROVE  \A win \in families.windows : \A w \in DOMAIN win.home :
                        win.home[w] # None => state'.home[w] # None
    OBVIOUS
  <2>1. Commit
    BY DEF Next, Host, Change, Disconnect, Connect, Read, Register, Unregister, Published,
           vars, bus
  <2>2. state' = target
    BY <2>1 DEF Commit
  <2>3. session.open
    BY <2>2 DEF IInv, Sources
  <2> QED
    BY <2>2, <2>3 DEF IInv, Sources
<1> QED
  BY <1>1, SourceInvariant, PTL DEF Spec, NoPartialTopology

\* Staging shows no identity and forgets none.
LEMMA PublishShowsNothing ==
    ASSUME state \in Projections, NEW next, Publish(next)
    PROVE  /\ state'.connected = state.connected /\ state'.generation = state.generation
           /\ state'.listed = state.listed /\ meant' = meant
<1>1. PICK mru \in Mrus(state.mru, next) :
        LET full == [next EXCEPT !.mru = mru]
        IN  IF full = state THEN UNCHANGED bus
            ELSE state' = Staged(state, full) /\ UNCHANGED <<registered, meant>>
  BY DEF Publish
<1> DEFINE full == [next EXCEPT !.mru = mru]
<1>2. CASE full = state
  BY <1>1, <1>2 DEF bus
<1>3. CASE full # state
  <2>1. state' = Staged(state, full) /\ meant' = meant
    BY <1>1, <1>3
  <2> HIDE DEF full
  <2> QED
    BY <2>1 DEF Staged, Projections
<1> QED
  BY <1>2, <1>3

\* Only a commit shows or forgets an identity.
LEMMA OnlyCommitShows ==
    ASSUME IInv, [Next]_vars, ~Commit
    PROVE  UNCHANGED <<state.generation, state.connected, state.listed, meant>>
<1>1. state \in Projections
  BY DEF IInv, Types
<1>2. ASSUME UNCHANGED <<state, meant>>
      PROVE  UNCHANGED <<state.generation, state.connected, state.listed, meant>>
  BY <1>2
<1>3. CASE Read
  <2>1. UNCHANGED bus \/ \E next : Publish(next)
    BY <1>3 DEF Read
  <2> QED
    BY <1>1, <1>2, <2>1, PublishShowsNothing DEF bus
<1>4. CASE Disconnect
  <2>1. UNCHANGED bus \/ \E next : Publish(next)
    BY <1>4 DEF Disconnect
  <2> QED
    BY <1>1, <1>2, <2>1, PublishShowsNothing DEF bus
<1>5. CASE Change \/ Connect \/ Register \/ Unregister \/ Published \/ UNCHANGED vars
  BY <1>2, <1>5 DEF Change, Connect, Register, Unregister, Published, vars, bus
<1> QED
  BY <1>3, <1>4, <1>5 DEF Next, Host

\* Seen through Manager.Generation, Connected and Workspaces, the host's publications
\* keep the promise of CONTRACT.md: identities scoped by generation, none given
\* again within one, none left when the compositor is lost.
THEOREM IdentitiesKept == Spec => KeepsIdentities
<1>1. Init => Identities!Init
  BY DEF Init, Identities!Init, EmptyProjection
<1>2. ASSUME IInv, Commit PROVE Identities!Next
  <2>1. /\ publishing = "register" /\ state' = target
        /\ meant' = (IF target.generation = state.generation THEN meant ELSE {}) \cup Meanings
        /\ UNCHANGED <<session, ids>>
    BY <1>2 DEF Commit, Meanings, reducer
  <2>2. Types /\ Phases /\ Sources /\ Reduced /\ History
    BY <1>2 DEF IInv
  <2>3. state.generation \in Nat /\ target.generation \in Nat
    BY <2>2 DEF Types, Projections
  <2>4. CASE session.open
    <3>1. /\ target.connected /\ target.generation = session.generation
          /\ target.listed = Range(ids)
          /\ session.generation = IF state.connected THEN state.generation
                                  ELSE state.generation + 1
          /\ ~state.connected => meant = {}
      BY <2>1, <2>2, <2>4 DEF Sources, Phases, WellFormed, Shaped
    <3>2. /\ \A n \in DOMAIN ids : <<ids[n], n, Latest.live[n]>> \in Meanings
          /\ \A x \in Meanings : \E n \in DOMAIN ids : x = <<ids[n], n, Latest.live[n]>>
      BY <2>1, <2>2, <2>4, MeaningsAre
    <3>3. {x[1] : x \in Meanings} = Range(ids)
      <4>1. \A x \in Meanings : x[1] \in Range(ids)
        BY <3>2 DEF Range
      <4>2. ASSUME NEW p \in Range(ids) PROVE \E x \in Meanings : p = x[1]
        <5>1. PICK n \in DOMAIN ids : ids[n] = p
          BY DEF Range
        <5>2. <<p, n, Latest.live[n]>> \in Meanings /\ <<p, n, Latest.live[n]>>[1] = p
          BY <3>2, <5>1
        <5> QED
          BY <5>2
      <4> QED
        BY <4>1, <4>2
    <3>4. target.listed \in SUBSET PublicIds
      BY <2>2 DEF Types, Projections
    <3>5. CASE ~state.connected
      <4>1. {x[1] : x \in meant'} = target.listed
        BY <2>1, <3>1, <3>3, <3>5
      <4>2. Identities!Appear
        BY <2>1, <2>3, <3>1, <3>4, <3>5, <4>1 DEF Identities!Appear
      <4> QED
        BY <4>2 DEF Identities!Next
    <3>6. CASE state.connected
      <4>1. meant' = meant \cup Meanings
        BY <2>1, <3>1, <3>6
      <4>2. {x[1] : x \in meant'} = {x[1] : x \in meant} \cup target.listed
        BY <3>1, <3>3, <4>1
      <4>3. ASSUME NEW x \in meant, x[1] \in target.listed PROVE x[1] \in state.listed
        BY <2>2, <2>4, <3>1, <4>3 DEF History, Current, Gone
      <4>4. (target.listed \ state.listed) \cap {x[1] : x \in meant} = {}
        BY <4>3
      <4>5. Identities!Update
        BY <2>1, <3>1, <3>4, <3>6, <4>2, <4>4 DEF Identities!Update
      <4> QED
        BY <4>5 DEF Identities!Next
    <3> QED
      BY <3>5, <3>6
  <2>5. CASE ~session.open
    <3>1. /\ state.connected /\ ~target.connected
          /\ target.generation = state.generation + 1 /\ target.listed = {}
      BY <2>1, <2>2, <2>5 DEF Sources, Phases, WellFormed, Shaped
    <3>2. meant' = {}
      BY <2>1, <2>2, <2>3, <2>5, <3>1, MeaningsAre
    <3>3. {x[1] : x \in meant'} = {}
      BY <3>2
    <3>4. state'.generation > state.generation /\ ~state'.connected /\ state'.listed = {}
      BY <2>1, <2>3, <3>1
    <3>5. Identities!Vanish
      BY <3>1, <3>3, <3>4 DEF Identities!Vanish
    <3> QED
      BY <3>5 DEF Identities!Next
  <2> QED
    BY <2>4, <2>5
<1>3. IInv /\ [Next]_vars => [Identities!Next]_(Identities!vars)
  <2> SUFFICES ASSUME IInv, [Next]_vars, ~Commit PROVE UNCHANGED Identities!vars
    BY <1>2
  <2> QED
    BY OnlyCommitShows DEF Identities!vars
<1> QED
  BY <1>1, <1>3, SourceInvariant, PTL DEF Spec, KeepsIdentities, Identities!Spec
=============================================================================
