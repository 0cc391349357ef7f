---------------------------- MODULE Services_proofs ----------------------------
(***************************************************************************)
(* The services that MCServices runs, for every value of their constants:  *)
(* locus on the bus and what watches it, and the run itself, in which each *)
(* component does what its theorems say.                                   *)
(***************************************************************************)
EXTENDS MCServices, GoalsAndStreams_proofs

-----------------------------------------------------------------------------
(* A watcher of locus on the bus shows the relation as it is, for every    *)
(* number of callers and calls, every set of endpoints, relations and      *)
(* metadata maps, and any choice of what is watched (RelationService).     *)

\* "Keep" is no choice of persistence, and the bound of the calls is a number.
Sensible == Keep \notin BOOLEAN /\ MaxCalls \in Nat

\* The instance has operators of the standard modules of its own.
LEMMA SameOperators ==
    /\ \A R : S!IsFiniteSet(R) <=> IsFiniteSet(R)
    /\ \A R : S!Cardinality(R) = Cardinality(R)
    /\ \A f : S!IsInjective(f) <=> IsInjective(f)
<1>1. \A R : S!IsFiniteSet(R) <=> IsFiniteSet(R)
  BY DEF S!IsFiniteSet, IsFiniteSet
<1>2. \A R : S!Cardinality(R) = Cardinality(R)
  BY <1>1 DEF S!Cardinality, Cardinality
<1>3. \A f : S!IsInjective(f) <=> IsInjective(f)
  BY DEF S!IsInjective, IsInjective
<1> QED
  BY <1>1, <1>2, <1>3

-----------------------------------------------------------------------------
(* The inductive invariant.                                                *)

Signals == [kind : S!KindSet, subject : Subjects, relation : RelNames]

WatchTypes ==
    /\ records \subseteq S!Record /\ IsFiniteSet(records) /\ shown \subseteq S!Record
    /\ emitting \in [Callers -> Seq(Signals)]
    /\ heard \in [S!KindSet -> Nat] /\ listening \subseteq S!KindSet /\ calls \in 0..MaxCalls
    /\ phase \in {"subscribe", "list", "wait"}

\* Before the first list the watcher listens for every kind.
Subscribed ==
    /\ phase = "subscribe" => listening # S!KindSet
    /\ phase # "subscribe" => listening = S!KindSet

\* A signal that concerns the watcher is not emitted yet, or waits in a queue.
OnTheWay ==
    \/ \E k \in S!KindSet : heard[k] > 0
    \/ \E c \in Callers : \E i \in DOMAIN emitting[c] : S!Concerned(emitting[c][i])

Told == phase = "wait" => shown = S!Bare(S!Concerns(records)) \/ OnTheWay

WatchInv == WatchTypes /\ Subscribed /\ Told

LEMMA WatchInvImplies == WatchInv => S!RecordsShown
<1> SUFFICES ASSUME WatchInv, phase = "wait", \A k \in S!KindSet : heard[k] = 0,
                    \A c \in Callers : emitting[c] = <<>>
             PROVE  shown = S!Bare(S!Concerns(records))
  BY DEF S!RecordsShown
<1>1. ~\E k \in S!KindSet : heard[k] > 0
  OBVIOUS
<1>2. \A c \in Callers : DOMAIN emitting[c] = {}
  OBVIOUS
<1> QED
  BY <1>1, <1>2 DEF WatchInv, Told, OnTheWay

LEMMA KindFacts ==
    /\ DOMAIN S!Kinds = 1..4 /\ S!KindSet = {"added", "updated", "removed", "cleared"}
    /\ \A i \in 1..4 : S!Kinds[i] \in S!KindSet
    /\ IsFiniteSet(S!KindSet) /\ Cardinality(S!KindSet) = 4
<1>1. DOMAIN S!Kinds = 1..4
  BY DEF S!Kinds
<1>2. /\ S!Kinds[1] = "added" /\ S!Kinds[2] = "updated" /\ S!Kinds[3] = "removed"
      /\ S!Kinds[4] = "cleared"
  BY DEF S!Kinds
<1>3. S!KindSet = {"added", "updated", "removed", "cleared"}
  BY <1>1, <1>2 DEF S!KindSet
<1>4. \A i \in 1..4 : S!Kinds[i] \in S!KindSet
  BY <1>1 DEF S!KindSet
<1>5. IsFiniteSet({}) /\ Cardinality({}) = 0
  BY FS_EmptySet
<1>6. IsFiniteSet({"added"}) /\ Cardinality({"added"}) = 1
  BY FS_Singleton
<1>7. IsFiniteSet({"added"} \cup {"updated"}) /\ Cardinality({"added"} \cup {"updated"}) = 2
  BY <1>6, FS_AddElement
<1>8. /\ IsFiniteSet(({"added"} \cup {"updated"}) \cup {"removed"})
      /\ Cardinality(({"added"} \cup {"updated"}) \cup {"removed"}) = 3
  BY <1>7, FS_AddElement
<1>9. /\ IsFiniteSet((({"added"} \cup {"updated"}) \cup {"removed"}) \cup {"cleared"})
      /\ Cardinality((({"added"} \cup {"updated"}) \cup {"removed"}) \cup {"cleared"}) = 4
  BY <1>8, FS_AddElement
<1>10. S!KindSet = (({"added"} \cup {"updated"}) \cup {"removed"}) \cup {"cleared"}
  BY <1>3
<1> QED
  BY <1>1, <1>3, <1>4, <1>9, <1>10

-----------------------------------------------------------------------------
(* A call changes the store and announces what concerns the watcher.       *)

Announced(after, says) ==
    \/ S!Bare(S!Concerns(after)) = S!Bare(S!Concerns(records))
    \/ \E i \in DOMAIN says : S!Concerned(says[i])

LEMMA ServeHolds ==
    ASSUME Sensible, WatchInv, NEW c \in Callers, NEW after, after \subseteq S!Record,
           IsFiniteSet(after),
           NEW says \in Seq(Signals), Announced(after, says), S!Serve(c, after, says)
    PROVE  WatchInv'
<1>1. /\ emitting[c] = <<>> /\ records' = after /\ calls < MaxCalls /\ calls' = calls + 1
      /\ emitting' = [emitting EXCEPT ![c] = says]
      /\ UNCHANGED <<heard, listening, phase, shown>>
  BY DEF S!Serve, S!watcher
<1>2. WatchTypes'
  <2>1. calls' \in 0..MaxCalls
    BY <1>1 DEF WatchInv, WatchTypes, Sensible
  <2> QED
    BY <1>1, <2>1 DEF WatchInv, WatchTypes
<1>3. Subscribed'
  BY <1>1 DEF WatchInv, Subscribed
<1>4. emitting'[c] = says /\ \A d \in Callers : d # c => emitting'[d] = emitting[d]
  BY <1>1 DEF WatchInv, WatchTypes
<1>5. OnTheWay => OnTheWay'
  <2>1. ASSUME NEW k \in S!KindSet, heard[k] > 0 PROVE OnTheWay'
    BY <1>1, <2>1 DEF OnTheWay
  <2>2. ASSUME NEW d \in Callers, NEW i \in DOMAIN emitting[d], S!Concerned(emitting[d][i])
        PROVE  OnTheWay'
    <3>1. d # c
      BY <1>1, <2>2
    <3>2. emitting'[d] = emitting[d]
      BY <1>4, <3>1
    <3> QED
      BY <2>2, <3>2 DEF OnTheWay, S!Concerned
  <2> QED
    BY <2>1, <2>2 DEF OnTheWay
<1>6. ASSUME NEW i \in DOMAIN says, S!Concerned(says[i]) PROVE OnTheWay'
  BY <1>4, <1>6 DEF OnTheWay, S!Concerned
<1>7. Told'
  BY <1>1, <1>5, <1>6 DEF WatchInv, Told, Announced
<1> QED
  BY <1>2, <1>3, <1>7 DEF WatchInv

\* A removal is announced for every record (SetToSeq lists each one).
LEMMA RemovalsFacts ==
    ASSUME NEW R, R \subseteq S!Record, IsFiniteSet(R)
    PROVE  /\ S!Removals(R) \in Seq(Signals)
           /\ \A e \in R : \E i \in DOMAIN S!Removals(R) :
                S!Removals(R)[i] = S!Signal("removed", e.subject, e.relation)
<1> DEFINE n == Cardinality(R)
           gone == S!SetToSeq(R)
<1>1. n \in Nat /\ ExistsBijection(1..n, R)
  BY FS_CardinalityType
<1>2. gone \in [1..n -> R] /\ S!IsInjective(gone)
  <2>1. \E f \in [1..n -> R] : S!IsInjective(f)
    BY <1>1, SameOperators DEF ExistsBijection, Bijection, Injection
  <2> QED
    BY <2>1, SameOperators DEF S!SetToSeq
<1>3. IsFiniteSet(1..n) /\ Cardinality(1..n) = n
  BY <1>1, FS_Interval
<1>4. gone \in Injection(1..n, R)
  BY <1>2, SameOperators DEF Injection
<1>5. gone \in Surjection(1..n, R)
  BY <1>3, <1>4, FS_Injection
<1>6. S!Removals(R) = [i \in 1..n |-> S!Signal("removed", gone[i].subject, gone[i].relation)]
  BY <1>2 DEF S!Removals
<1> HIDE DEF gone
<1>7. \A i \in 1..n : S!Signal("removed", gone[i].subject, gone[i].relation) \in Signals
  BY <1>2, KindFacts DEF S!Signal, Signals, S!Record
<1> HIDE DEF n
<1>8. S!Removals(R) \in Seq(Signals)
  BY <1>1, <1>6, <1>7
<1>9. \A e \in R : \E i \in 1..n : gone[i] = e
  BY <1>5 DEF Surjection
<1> QED
  BY <1>6, <1>8, <1>9

LEMMA OutcomeFacts ==
    ASSUME NEW s \in Subjects, NEW r \in RelNames, NEW t, NEW after
    PROVE  /\ S!Outcome(s, r, t, after) \in Seq(Signals)
           /\ after # records => /\ 1 \in DOMAIN S!Outcome(s, r, t, after)
                                 /\ S!Outcome(s, r, t, after)[1].subject = s
                                 /\ S!Outcome(s, r, t, after)[1].relation = r
<1> DEFINE signal == S!Signal(IF S!At(records, s, r, t) = {} THEN "added" ELSE "updated", s, r)
<1>1. signal \in Signals /\ signal.subject = s /\ signal.relation = r
  BY KindFacts DEF S!Signal, Signals
<1>2. S!Outcome(s, r, t, after) = IF after = records THEN <<>> ELSE <<signal>>
  BY DEF S!Outcome
<1> HIDE DEF signal
<1> QED
  BY <1>1, <1>2

-----------------------------------------------------------------------------
(* The calls.                                                              *)

LEMMA ImageFinite ==
    ASSUME NEW E, IsFiniteSet(E), NEW f, DOMAIN f = E
    PROVE  IsFiniteSet({f[e] : e \in E})
<1> DEFINE T == {f[e] : e \in E}
<1>1. [e \in E |-> f[e]] \in Surjection(E, T)
  BY DEF Surjection
<1> HIDE DEF T
<1> QED
  BY <1>1, FS_Surjection DEF T

\* A record that is set is of that subject and relation.
LEMMA SetInConcerns ==
    ASSUME Sensible, NEW R, R \subseteq S!Record, IsFiniteSet(R),
           NEW s \in Subjects, NEW r \in RelNames, NEW t \in Targets,
           NEW m \in Metadata, NEW p \in BOOLEAN
    PROVE  /\ S!SetIn(R, s, r, t, m, p) \subseteq S!Record
           /\ IsFiniteSet(S!SetIn(R, s, r, t, m, p))
           /\ r # Watched \/ s \notin WatchedOnly =>
                S!Concerns(S!SetIn(R, s, r, t, m, p)) = S!Concerns(R)
<1> DEFINE old == S!At(R, s, r, t)
           out == S!SetIn(R, s, r, t, m, p)
<1>0. p # Keep
  BY DEF Sensible
<1>1. CASE old = {}
  <2> DEFINE new == S!Fresh(s, r, t, m, p)
  <2>1. new \in S!Record /\ new.subject = s /\ new.relation = r
    BY <1>0 DEF S!Fresh, S!Record
  <2>2. out = R \cup {new}
    BY <1>1 DEF S!SetIn
  <2> HIDE DEF new
  <2>3. IsFiniteSet(R \cup {new})
    BY FS_AddElement
  <2> QED
    BY <2>1, <2>2, <2>3 DEF S!Concerns
<1>2. CASE old # {}
  <2> DEFINE f == [e \in old |-> S!Updated(e, m, p)]
             new == {f[e] : e \in old}
  <2>1. \A e \in old : /\ f[e] \in S!Record /\ f[e].subject = s /\ f[e].relation = r
                       /\ e \in R /\ e.subject = s /\ e.relation = r
    BY <1>0 DEF S!Updated, S!Record, S!At
  <2>2. out = (R \ old) \cup new
    BY <1>2 DEF S!SetIn
  <2>3. old \in SUBSET R
    BY DEF S!At
  <2>4. IsFiniteSet(old) /\ IsFiniteSet(R \ old) /\ DOMAIN f = old
    BY <2>3, FS_Subset
  <2> HIDE DEF f, old
  <2>5. IsFiniteSet(new)
    BY <2>4, ImageFinite
  <2>6. \A o \in new : o \in S!Record /\ o.subject = s /\ o.relation = r
    BY <2>1
  <2> HIDE DEF new
  <2>7. IsFiniteSet((R \ old) \cup new)
    BY <2>4, <2>5, FS_Union
  <2>8. out \subseteq S!Record
    BY <2>2, <2>6
  <2>9. ASSUME r # Watched \/ s \notin WatchedOnly PROVE S!Concerns(out) = S!Concerns(R)
    BY <2>1, <2>2, <2>6, <2>9 DEF S!Concerns
  <2> QED
    BY <2>2, <2>7, <2>8, <2>9
<1> QED
  BY <1>1, <1>2

LEMMA SetStep ==
    ASSUME Sensible, WatchInv, NEW c \in Callers, NEW s \in Subjects, NEW r \in RelNames,
           NEW t \in Targets,
           NEW m \in Metadata, NEW p \in BOOLEAN, S!SetWithPersistence(c, s, r, t, m, p)
    PROVE  WatchInv'
<1>1. PICK after : after = S!SetIn(records, s, r, t, m, p)
  OBVIOUS
<1>2. PICK says : says = S!Outcome(s, r, t, after)
  OBVIOUS
<1>3. /\ after \subseteq S!Record /\ IsFiniteSet(after)
      /\ r # Watched \/ s \notin WatchedOnly => S!Concerns(after) = S!Concerns(records)
  BY <1>1, SetInConcerns DEF WatchInv, WatchTypes
<1>4. says \in Seq(Signals)
  BY <1>2, OutcomeFacts
<1>5. Announced(after, says)
  <2>1. CASE after = records \/ r # Watched \/ s \notin WatchedOnly
    BY <1>3, <2>1 DEF Announced
  <2>2. CASE after # records /\ r = Watched /\ s \in WatchedOnly
    BY <1>2, <2>2, OutcomeFacts DEF Announced, S!Concerned
  <2> QED
    BY <2>1, <2>2
<1>6. S!Serve(c, after, says)
  BY <1>1, <1>2 DEF S!SetWithPersistence
<1> QED
  BY <1>3, <1>4, <1>5, <1>6, ServeHolds

\* Records that go are announced.
LEMMA GoneFacts ==
    ASSUME WatchInv, NEW gone, gone \subseteq records
    PROVE  /\ records \ gone \subseteq S!Record /\ IsFiniteSet(records \ gone)
           /\ gone \subseteq S!Record /\ IsFiniteSet(gone)
           /\ S!Removals(gone) \in Seq(Signals)
           /\ \A e \in S!Concerns(gone) :
                \E i \in DOMAIN S!Removals(gone) : S!Concerned(S!Removals(gone)[i])
<1>1. records \subseteq S!Record /\ IsFiniteSet(records)
  BY DEF WatchInv, WatchTypes
<1>2. gone \in SUBSET records /\ records \ gone \in SUBSET records
  OBVIOUS
<1>3. IsFiniteSet(gone) /\ IsFiniteSet(records \ gone) /\ gone \subseteq S!Record
  BY <1>1, <1>2, FS_Subset
<1>4. S!Removals(gone) \in Seq(Signals)
  BY <1>3, RemovalsFacts
<1>5. ASSUME NEW e \in S!Concerns(gone)
      PROVE  \E i \in DOMAIN S!Removals(gone) : S!Concerned(S!Removals(gone)[i])
  <2>1. e \in gone /\ e.relation = Watched /\ e.subject \in WatchedOnly
    BY DEF S!Concerns
  <2>2. PICK i \in DOMAIN S!Removals(gone) :
            S!Removals(gone)[i] = S!Signal("removed", e.subject, e.relation)
    BY <1>3, <2>1, RemovalsFacts
  <2> QED
    BY <2>1, <2>2 DEF S!Signal, S!Concerned
<1> QED
  BY <1>1, <1>3, <1>4, <1>5

LEMMA SetOneStep ==
    ASSUME Sensible, WatchInv, NEW c \in Callers, NEW s \in Subjects, NEW r \in RelNames,
           NEW t \in Targets,
           NEW m \in Metadata, NEW p \in BOOLEAN, S!SetOneWithPersistence(c, s, r, t, m, p)
    PROVE  WatchInv'
<1>1. PICK displaced : displaced = S!Displaced(records, s, r, t)
  OBVIOUS
<1>2. PICK after : after = S!SetIn(records \ displaced, s, r, t, m, p)
  OBVIOUS
<1>3. PICK told : told = S!Outcome(s, r, t, after \cup displaced)
  OBVIOUS
<1>4. S!Serve(c, after, S!Removals(displaced) \o told)
  BY <1>1, <1>2, <1>3 DEF S!SetOneWithPersistence, S!SetOneIn
<1>5. /\ displaced \subseteq records
      /\ \A e \in displaced : e.subject = s /\ e.relation = r
  BY <1>1 DEF S!Displaced, S!Under
<1>6. /\ records \ displaced \subseteq S!Record /\ IsFiniteSet(records \ displaced)
      /\ S!Removals(displaced) \in Seq(Signals)
      /\ \A e \in S!Concerns(displaced) :
            \E i \in DOMAIN S!Removals(displaced) : S!Concerned(S!Removals(displaced)[i])
  BY <1>5, GoneFacts
<1>7. /\ after \subseteq S!Record /\ IsFiniteSet(after)
      /\ r # Watched \/ s \notin WatchedOnly =>
            S!Concerns(after) = S!Concerns(records \ displaced)
  BY <1>2, <1>6, SetInConcerns
<1>8. told \in Seq(Signals)
  BY <1>3, OutcomeFacts
<1>9. S!Removals(displaced) \o told \in Seq(Signals)
  BY <1>6, <1>8
<1>10. /\ \A i \in DOMAIN S!Removals(displaced) : i \in DOMAIN (S!Removals(displaced) \o told)
            /\ (S!Removals(displaced) \o told)[i] = S!Removals(displaced)[i]
       /\ 1 \in DOMAIN told =>
              Len(S!Removals(displaced)) + 1 \in DOMAIN (S!Removals(displaced) \o told)
            /\ (S!Removals(displaced) \o told)[Len(S!Removals(displaced)) + 1] = told[1]
  BY <1>6, <1>8
<1>11. Announced(after, S!Removals(displaced) \o told)
  <2>1. CASE r # Watched \/ s \notin WatchedOnly
    <3>1. S!Concerns(records \ displaced) = S!Concerns(records)
      BY <1>5, <2>1 DEF S!Concerns
    <3> QED
      BY <1>7, <2>1, <3>1 DEF Announced
  <2>2. CASE r = Watched /\ s \in WatchedOnly /\ displaced # {}
    <3>1. PICK e \in S!Concerns(displaced) : TRUE
      BY <1>5, <2>2 DEF S!Concerns
    <3>2. PICK i \in DOMAIN S!Removals(displaced) : S!Concerned(S!Removals(displaced)[i])
      BY <1>6, <3>1
    <3> QED
      BY <1>10, <3>2 DEF Announced
  <2>3. CASE r = Watched /\ s \in WatchedOnly /\ displaced = {} /\ after # records
    <3>1. 1 \in DOMAIN told /\ told[1].subject = s /\ told[1].relation = r
      BY <1>3, <2>3, OutcomeFacts
    <3>2. S!Concerned(told[1])
      BY <2>3, <3>1 DEF S!Concerned
    <3> QED
      BY <1>10, <3>1, <3>2 DEF Announced
  <2>4. CASE after = records
    BY <2>4 DEF Announced
  <2> QED
    BY <2>1, <2>2, <2>3, <2>4
<1> QED
  BY <1>4, <1>7, <1>9, <1>11, ServeHolds

LEMMA GoneStep ==
    ASSUME Sensible, WatchInv, NEW c \in Callers, NEW gone, gone \subseteq records,
           S!Serve(c, records \ gone, S!Removals(gone))
    PROVE  WatchInv'
<1>1. /\ records \ gone \subseteq S!Record /\ IsFiniteSet(records \ gone)
      /\ S!Removals(gone) \in Seq(Signals)
      /\ \A e \in S!Concerns(gone) :
            \E i \in DOMAIN S!Removals(gone) : S!Concerned(S!Removals(gone)[i])
  BY GoneFacts
<1>2. Announced(records \ gone, S!Removals(gone))
  <2>1. CASE S!Concerns(gone) = {}
    <3>1. S!Concerns(records \ gone) = S!Concerns(records)
      BY <2>1 DEF S!Concerns
    <3> QED
      BY <3>1 DEF Announced
  <2>2. CASE S!Concerns(gone) # {}
    BY <1>1, <2>2 DEF Announced
  <2> QED
    BY <2>1, <2>2
<1> QED
  BY <1>1, <1>2, ServeHolds

LEMMA ClearStep ==
    ASSUME Sensible, WatchInv, NEW c \in Callers, NEW s \in Subjects, NEW r \in RelNames,
           S!Clear(c, s, r)
    PROVE  WatchInv'
<1>1. PICK gone : gone = S!Under(records, s, r)
  OBVIOUS
<1>2. gone \subseteq records
  BY <1>1 DEF S!Under
<1>3. CASE gone = {}
  <2>1. PICK none \in Seq(Signals) : none = <<>>
    BY EmptySeq
  <2>2. PICK after : after = records
    OBVIOUS
  <2>3. S!Serve(c, after, none) /\ Announced(after, none)
    <3>1. records \ gone = records
      BY <1>3
    <3> QED
      BY <1>1, <1>3, <2>1, <2>2, <3>1 DEF S!Clear, Announced
  <2>4. after \subseteq S!Record /\ IsFiniteSet(after)
    BY <2>2 DEF WatchInv, WatchTypes
  <2> QED
    BY <2>3, <2>4, ServeHolds
<1>4. CASE gone # {}
  <2> DEFINE cleared == S!Signal("cleared", s, r)
  <2>1. S!Serve(c, records \ gone, Append(S!Removals(gone), cleared))
    BY <1>1, <1>4 DEF S!Clear
  <2>2. cleared \in Signals
    BY KindFacts DEF S!Signal, Signals
  <2> HIDE DEF cleared
  <2>3. /\ records \ gone \subseteq S!Record /\ IsFiniteSet(records \ gone)
        /\ S!Removals(gone) \in Seq(Signals)
        /\ \A e \in S!Concerns(gone) :
              \E i \in DOMAIN S!Removals(gone) : S!Concerned(S!Removals(gone)[i])
    BY <1>2, GoneFacts
  <2>4. /\ Append(S!Removals(gone), cleared) \in Seq(Signals)
        /\ \A i \in DOMAIN S!Removals(gone) : i \in DOMAIN Append(S!Removals(gone), cleared)
              /\ Append(S!Removals(gone), cleared)[i] = S!Removals(gone)[i]
    BY <2>2, <2>3
  <2>5. Announced(records \ gone, Append(S!Removals(gone), cleared))
    <3>1. CASE S!Concerns(gone) = {}
      <4>1. S!Concerns(records \ gone) = S!Concerns(records)
        BY <3>1 DEF S!Concerns
      <4> QED
        BY <4>1 DEF Announced
    <3>2. CASE S!Concerns(gone) # {}
      <4>1. PICK i \in DOMAIN S!Removals(gone) : S!Concerned(S!Removals(gone)[i])
        BY <2>3, <3>2
      <4> QED
        BY <2>4, <4>1 DEF Announced
    <3> QED
      BY <3>1, <3>2
  <2> QED
    BY <2>1, <2>3, <2>4, <2>5, ServeHolds
<1> QED
  BY <1>3, <1>4

\* Whether a record is durable is not shown.
LEMMA SetPersistenceStep ==
    ASSUME Sensible, WatchInv, NEW c \in Callers, NEW s \in Subjects, NEW r \in RelNames,
           NEW t \in Targets,
           NEW p \in BOOLEAN, S!SetPersistence(c, s, r, t, p)
    PROVE  WatchInv'
<1> DEFINE old == S!At(records, s, r, t)
           f == [e \in old |-> [e EXCEPT !.persist = p]]
           new == {f[e] : e \in old}
<1>1. records \subseteq S!Record /\ IsFiniteSet(records)
  BY DEF WatchInv, WatchTypes
<1>2. old \subseteq records /\ old \in SUBSET records
  BY DEF S!At
<1>3. S!WithPersist(records, s, r, t, p) = (records \ old) \cup new
  BY DEF S!WithPersist
<1>4. \A e \in old : /\ f[e] \in S!Record /\ f[e].subject = e.subject /\ f[e].relation = e.relation
                     /\ [f[e] EXCEPT !.persist = FALSE] = [e EXCEPT !.persist = FALSE]
  BY <1>1, <1>2 DEF S!Record
<1>5. IsFiniteSet(old) /\ IsFiniteSet(records \ old) /\ DOMAIN f = old
  BY <1>1, <1>2, FS_Subset
<1>6. PICK out : out = S!WithPersist(records, s, r, t, p)
  OBVIOUS
<1> HIDE DEF old, f
<1>7. IsFiniteSet(new)
  BY <1>5, ImageFinite
<1>8. IsFiniteSet((records \ old) \cup new)
  BY <1>5, <1>7, FS_Union
<1>9. out \subseteq S!Record /\ IsFiniteSet(out)
  BY <1>1, <1>3, <1>4, <1>6, <1>8
<1>10. S!Bare(S!Concerns(out)) = S!Bare(S!Concerns(records))
  <2>1. ASSUME NEW e \in S!Concerns(out)
        PROVE  \E o \in S!Concerns(records) :
                    [e EXCEPT !.persist = FALSE] = [o EXCEPT !.persist = FALSE]
    <3>1. CASE e \in records
      BY <3>1 DEF S!Concerns
    <3>2. CASE e \in new
      <4>1. PICK o \in old : e = f[o]
        BY <3>2
      <4> QED
        BY <1>2, <1>4, <4>1 DEF S!Concerns
    <3> QED
      BY <1>3, <1>6, <3>1, <3>2 DEF S!Concerns
  <2>2. ASSUME NEW o \in S!Concerns(records)
        PROVE  \E e \in S!Concerns(out) :
                    [e EXCEPT !.persist = FALSE] = [o EXCEPT !.persist = FALSE]
    <3>1. CASE o \in old
      <4>1. f[o] \in out
        BY <1>3, <1>6, <3>1
      <4> QED
        BY <1>4, <3>1, <4>1 DEF S!Concerns
    <3>2. CASE o \notin old
      BY <1>3, <1>6, <3>2 DEF S!Concerns
    <3> QED
      BY <3>1, <3>2
  <2> QED
    <3>1. \A b : b \in S!Bare(S!Concerns(out)) => b \in S!Bare(S!Concerns(records))
      BY <2>1, Zenon DEF S!Bare
    <3>2. \A b : b \in S!Bare(S!Concerns(records)) => b \in S!Bare(S!Concerns(out))
      BY <2>2, Zenon DEF S!Bare
    <3> QED
      BY <3>1, <3>2
<1>11. PICK none \in Seq(Signals) : none = <<>>
  BY EmptySeq
<1>12. S!Serve(c, out, none) /\ Announced(out, none)
  BY <1>6, <1>10, <1>11 DEF S!SetPersistence, Announced
<1> QED
  BY <1>9, <1>12, ServeHolds

-----------------------------------------------------------------------------
(* Signals are emitted and heard; the watcher subscribes and lists.        *)

LEMMA EmitStep ==
    ASSUME WatchInv, NEW c \in Callers, S!Emit(c)
    PROVE  WatchInv'
<1> DEFINE signal == Head(emitting[c])
<1>1. /\ emitting \in [Callers -> Seq(Signals)] /\ emitting[c] # <<>>
      /\ heard \in [S!KindSet -> Nat]
  BY DEF WatchInv, WatchTypes, S!Emit
<1>2. /\ emitting[c] \in Seq(Signals) /\ signal = emitting[c][1] /\ signal \in Signals
      /\ Tail(emitting[c]) \in Seq(Signals)
      /\ \A i \in DOMAIN emitting[c] : i # 1 =>
            i - 1 \in DOMAIN Tail(emitting[c]) /\ Tail(emitting[c])[i - 1] = emitting[c][i]
  BY <1>1
<1>3. /\ emitting' = [emitting EXCEPT ![c] = Tail(emitting[c])]
      /\ heard' = IF signal.kind \in listening /\ S!Concerned(signal)
                  THEN [heard EXCEPT ![signal.kind] = heard[signal.kind] + 1] ELSE heard
      /\ UNCHANGED <<records, calls, listening, phase, shown>>
  BY DEF S!Emit
<1>4. signal.kind \in S!KindSet
  BY <1>2 DEF Signals
<1>5. heard' \in [S!KindSet -> Nat] /\ \A k \in S!KindSet : heard'[k] >= heard[k]
  BY <1>1, <1>3, <1>4
<1>6. /\ emitting' \in [Callers -> Seq(Signals)]
      /\ emitting'[c] = Tail(emitting[c]) /\ \A d \in Callers : d # c => emitting'[d] = emitting[d]
  BY <1>1, <1>2, <1>3
<1>7. WatchTypes' /\ Subscribed'
  BY <1>3, <1>5, <1>6 DEF WatchInv, WatchTypes, Subscribed
<1>8. ASSUME OnTheWay, phase = "wait" PROVE OnTheWay'
  <2>1. ASSUME NEW k \in S!KindSet, heard[k] > 0 PROVE OnTheWay'
    <3>1. heard[k] \in Nat /\ heard'[k] \in Nat /\ heard'[k] >= heard[k]
      BY <1>1, <1>5
    <3> QED
      BY <2>1, <3>1 DEF OnTheWay
  <2>2. ASSUME NEW d \in Callers, d # c, NEW i \in DOMAIN emitting[d], S!Concerned(emitting[d][i])
        PROVE  OnTheWay'
    <3>1. emitting'[d] = emitting[d]
      BY <1>6, <2>2
    <3> QED
      BY <2>2, <3>1 DEF OnTheWay, S!Concerned
  <2>3. ASSUME NEW i \in DOMAIN emitting[c], i # 1, S!Concerned(emitting[c][i])
        PROVE  OnTheWay'
    <3>1. i - 1 \in DOMAIN emitting'[c] /\ emitting'[c][i - 1] = emitting[c][i]
      BY <1>2, <1>6, <2>3
    <3>2. PICK j \in DOMAIN emitting'[c] : emitting'[c][j] = emitting[c][i]
      BY <3>1
    <3> QED
      BY <2>3, <3>2 DEF OnTheWay, S!Concerned
  <2>4. ASSUME S!Concerned(emitting[c][1]) PROVE OnTheWay'
    <3>1. PICK k \in S!KindSet : k = signal.kind
      BY <1>4
    <3>2. k \in listening
      BY <1>8 DEF WatchInv, Subscribed
    <3>3. heard'[k] = heard[k] + 1 /\ heard[k] \in Nat
      BY <1>1, <1>2, <1>3, <2>4, <3>1, <3>2
    <3> QED
      BY <3>3 DEF OnTheWay
  <2> QED
    BY <1>8, <2>1, <2>2, <2>3, <2>4 DEF OnTheWay
<1>9. Told'
  BY <1>3, <1>8 DEF WatchInv, Told
<1> QED
  BY <1>7, <1>9 DEF WatchInv

LEMMA SubscribeStep ==
    ASSUME WatchInv, S!Subscribe
    PROVE  WatchInv'
<1>1. listening \subseteq S!KindSet /\ listening # S!KindSet
  BY DEF WatchInv, WatchTypes, Subscribed, S!Subscribe
<1>2. IsFiniteSet(listening) /\ Cardinality(listening) \in 0..3
  <2>1. /\ IsFiniteSet(listening) /\ Cardinality(listening) <= 4
        /\ Cardinality(listening) # 4
    BY <1>1, KindFacts, FS_Subset
  <2>2. Cardinality(listening) \in Nat
    BY <2>1, FS_CardinalityType
  <2> QED
    BY <2>1, <2>2
<1>3. PICK n \in 1..4 : n = Cardinality(listening) + 1
  BY <1>2
<1>4. /\ listening' = listening \cup {S!Kinds[n]}
      /\ phase' = IF listening' = S!KindSet THEN "list" ELSE "subscribe"
      /\ UNCHANGED <<records, calls, emitting, heard, shown>>
  BY <1>3, SameOperators DEF S!Subscribe
<1>5. listening' \subseteq S!KindSet
  BY <1>1, <1>4, KindFacts
<1> QED
  BY <1>4, <1>5 DEF WatchInv, WatchTypes, Subscribed, Told

LEMMA ListStep ==
    ASSUME WatchInv, S!List
    PROVE  WatchInv'
<1>1. \A e \in records : [e EXCEPT !.persist = FALSE] \in S!Record
  BY DEF WatchInv, WatchTypes, S!Record
<1>2. S!Bare(S!Concerns(records)) \subseteq S!Record
  BY <1>1 DEF S!Bare, S!Concerns
<1>3. /\ shown' = S!Bare(S!Concerns(records)) /\ phase = "list" /\ phase' = "wait"
      /\ UNCHANGED <<records, calls, emitting, heard, listening>>
  BY DEF S!List
<1>4. WatchTypes' /\ Subscribed'
  BY <1>2, <1>3 DEF WatchInv, WatchTypes, Subscribed
<1>5. Told'
  BY <1>3 DEF Told, S!Bare, S!Concerns
<1> QED
  BY <1>4, <1>5 DEF WatchInv

LEMMA HearStep ==
    ASSUME WatchInv, NEW k \in S!KindSet, S!Hear(k)
    PROVE  WatchInv'
BY DEF S!Hear, WatchInv, WatchTypes, Subscribed, Told

-----------------------------------------------------------------------------
LEMMA WatchInitHolds == ASSUME Sensible, S!Init PROVE WatchInv
<1>1. records \subseteq S!Record /\ IsFiniteSet(records)
  BY SameOperators DEF S!Init
<1>2. emitting \in [Callers -> Seq(Signals)]
  BY EmptySeq DEF S!Init
<1>3. listening # S!KindSet /\ calls \in 0..MaxCalls
  BY KindFacts DEF S!Init, Sensible
<1> QED
  BY <1>1, <1>2, <1>3 DEF S!Init, WatchInv, WatchTypes, Subscribed, Told

LEMMA WatchNextHolds == ASSUME Sensible, WatchInv, [S!Next]_(S!vars) PROVE WatchInv'
<1>1. CASE UNCHANGED S!vars
  BY <1>1 DEF S!vars, S!watcher, WatchInv, WatchTypes, Subscribed, Told, OnTheWay, S!Bare,
     S!Concerns, S!Concerned
<1>2. ASSUME NEW c \in Callers, NEW s \in Subjects, NEW r \in RelNames, NEW t \in Targets,
             NEW p \in BOOLEAN, NEW m \in Metadata,
             S!SetWithPersistence(c, s, r, t, m, p) \/ S!SetOneWithPersistence(c, s, r, t, m, p)
      PROVE  WatchInv'
  BY <1>2, SetStep, SetOneStep
<1>3. ASSUME NEW c \in Callers, NEW s \in Subjects, NEW r \in RelNames, NEW t \in Targets,
             NEW p \in BOOLEAN, S!SetPersistence(c, s, r, t, p)
      PROVE  WatchInv'
  BY <1>3, SetPersistenceStep
<1>4. ASSUME NEW c \in Callers, NEW s \in Subjects, NEW r \in RelNames, NEW t \in Targets,
             S!Unset(c, s, r, t)
      PROVE  WatchInv'
  <2>1. PICK gone : gone = S!At(records, s, r, t)
    OBVIOUS
  <2>2. gone \subseteq records
    BY <2>1 DEF S!At
  <2>3. S!Serve(c, records \ gone, S!Removals(gone))
    BY <1>4, <2>1 DEF S!Unset
  <2> QED
    BY <2>2, <2>3, GoneStep
<1>5. ASSUME NEW c \in Callers, NEW s \in Subjects, NEW r \in RelNames, S!Clear(c, s, r)
      PROVE  WatchInv'
  BY <1>5, ClearStep
<1>6. ASSUME NEW c \in Callers, NEW s \in Subjects, S!ClearSubject(c, s) PROVE WatchInv'
  <2>1. PICK gone : gone = S!Of(records, s)
    OBVIOUS
  <2>2. gone \subseteq records
    BY <2>1 DEF S!Of
  <2>3. S!Serve(c, records \ gone, S!Removals(gone))
    BY <1>6, <2>1 DEF S!ClearSubject
  <2> QED
    BY <2>2, <2>3, GoneStep
<1>7. ASSUME NEW c \in Callers, S!Emit(c) PROVE WatchInv'
  BY <1>7, EmitStep
<1>8. ASSUME NEW k \in S!KindSet, S!Hear(k) PROVE WatchInv'
  BY <1>8, HearStep
<1> QED
  BY <1>1, <1>2, <1>3, <1>4, <1>5, <1>6, <1>7, <1>8, SubscribeStep, ListStep DEF S!Next

(* The states reached satisfy the inductive invariant (service.rs and      *)
(* locus_watch.rs).                                                        *)
THEOREM WatchInvariant == ASSUME Sensible PROVE S!Spec => []WatchInv
<1>1. WatchInv /\ [S!Next]_(S!vars) => WatchInv'
  BY WatchNextHolds
<1>2. S!Init => WatchInv
  BY WatchInitHolds
<1> QED
  BY <1>1, <1>2, PTL DEF S!Spec

(* Whatever the calls and however their signals cross: when none is on its *)
(* way and the watcher waits, it shows the records as the store has them;  *)
(* no change made while it subscribed or listed is lost (locus_watch.rs    *)
(* watch_relation: the subscriptions come before the first list).          *)
THEOREM WatcherShowsRecords == ASSUME Sensible PROVE S!Spec => []S!RecordsShown
BY WatchInvariant, WatchInvImplies, PTL

(* Every variable of the service and the watcher has its type.             *)
THEOREM WatcherTypes == ASSUME Sensible PROVE S!Spec => []S!TypeOK
<1>1. WatchInv => S!TypeOK
  BY DEF WatchInv, WatchTypes, S!TypeOK
<1> QED
  BY <1>1, WatchInvariant, PTL

-----------------------------------------------------------------------------
(* The run.                                                                *)

LEMMA RunsGoals == MCSpec => Spec
<1>1. [MCNext]_all => [Next]_vars
  BY DEF MCNext, all, services, vars
<1> QED
  BY <1>1, PTL DEF MCSpec, MCInit, Spec

LEMMA RunsLocus == MCSpec => S!Spec
<1>1. [MCNext]_all => [S!Next]_(S!vars)
  BY DEF MCNext, all, services, locus, S!vars, S!watcher
<1> QED
  BY <1>1, PTL DEF MCSpec, MCInit, S!Spec

LEMMA RunsHub == MCSpec => H!Spec
<1>1. [MCNext]_all => [H!Next]_(H!vars)
  BY DEF MCNext, all, services, shell, hub, H!vars, H!hub
<1> QED
  BY <1>1, PTL DEF MCSpec, MCInit, H!Spec

LEMMA RunsBus == MCSpec => B!Spec
<1>1. [MCNext]_all => [B!Next]_(B!vars)
  BY DEF MCNext, all, services, shell, bus, B!vars, B!stream
<1> QED
  BY <1>1, PTL DEF MCSpec, MCInit, B!Spec

(* Of the goals of the run: each stored goal has one live identity with    *)
(* its ancestors, an active goal is an open task of its project, no goal   *)
(* refers to a removed one (goals.rs, history.rs), when goals are not      *)
(* given dates.                                                            *)
THEOREM RunGoalsConsistent == ASSUME Dates = {NoDate} PROVE MCSpec => []GoalsConsistent
<1>1. OneKind
  BY DEF OneKind
<1>2. TypeOK /\ OneLifePerGoal /\ ActiveGoalFits /\ DetachedFromRemoved => GoalsConsistent
  BY DEF GoalsConsistent
<1> QED
  BY <1>1, <1>2, RunsGoals, GoalTypes, GoalsHaveOneLife, ActiveGoalsFit, RemovedAreDetached, PTL

(* In the run, too, replaying a goal's history gives its status and        *)
(* whether it is selected (history.rs).                                    *)
THEOREM RunHistoryReplays == ASSUME OneKind PROVE MCSpec => []HistoryReplays
BY RunsGoals, HistoryAgrees, PTL

(* In the run, too, a watcher of locus at rest shows the relation as it is *)
(* (locus_watch.rs).                                                       *)
THEOREM RunRecordsShown == ASSUME Sensible PROVE MCSpec => []RecordsShown
<1>1. S!TypeOK /\ S!RecordsShown => RecordsShown
  BY DEF RecordsShown
<1> QED
  BY <1>1, RunsLocus, WatcherTypes, WatcherShowsRecords, PTL

(* In the run, too, subscribers at rest show the source through one        *)
(* connection, and a stream at rest shows what its service says            *)
(* (support.rs, dbus.rs).                                                  *)
THEOREM RunStreamsFollow ==
    ASSUME HubBounds, BusBounds PROVE MCSpec => []StreamsFollow
<1>1. /\ H!TypeOK /\ H!SubscribersUpToDate /\ H!NoStrayConnection
      /\ B!TypeOK /\ B!FollowersUpToDate
      => StreamsFollow
  BY DEF StreamsFollow
<1> QED
  BY <1>1, RunsHub, RunsBus, SubscribersServed, FollowersServed, PTL
=============================================================================
