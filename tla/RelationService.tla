---------------------------- MODULE RelationService ----------------------------
(***************************************************************************)
(* locus on the bus (locus service.rs) and the clients that watch it:      *)
(* watch_relation (shell-source locus_watch.rs) and records (steward       *)
(* relations.rs).                                                          *)
(*                                                                         *)
(* A call changes the store under the store's mutex and then, without it,  *)
(* emits what happened, one signal after another; signals of several calls *)
(* mix in any order.  A watcher listens for four kinds of signal, each in  *)
(* a queue of its own, and lists the relation again for every signal that  *)
(* concerns it; it never applies one.  Its reads have a connection of      *)
(* their own.  The queues keep the signals that concern the watcher, which *)
(* are all alike to it, so they are counted.                               *)
(***************************************************************************)
EXTENDS Relations, Naturals, Sequences, SequencesExt

CONSTANTS
    Callers,        \* tasks of the bus connection that serve calls
    Watched,        \* the relation that is watched
    WatchedOnly,    \* the subjects of it that are watched
    MaxCalls        \* bound: calls

VARIABLES
    records,    \* the store
    emitting,   \* signals each caller has yet to emit
    calls,      \* calls so far
    heard,      \* the watcher: signals waiting, by kind
    listening,  \* the watcher: kinds it has subscribed to
    phase,      \* the watcher: "subscribe", "list" or "wait"
    shown       \* the watcher: the records it gave last

watcher == <<heard, listening, phase, shown>>
vars == <<records, emitting, calls, watcher>>

Kinds == <<"added", "updated", "removed", "cleared">>
KindSet == {Kinds[i] : i \in DOMAIN Kinds}
Bare(R) == {[x EXCEPT !.persist = FALSE] : x \in R}
Concerns(R) == {x \in R : x.relation = Watched /\ x.subject \in WatchedOnly}
Signal(kind, s, r) == [kind |-> kind, subject |-> s, relation |-> r]
Concerned(signal) == signal.relation = Watched /\ signal.subject \in WatchedOnly

Init ==
    /\ records \in {R \in SUBSET Record :
                        IsFiniteSet(R) /\ OnePerKey(R) /\ Cardinality(R) <= 1}
    /\ emitting = [c \in Callers |-> <<>>] /\ calls = 0
    /\ heard = [k \in KindSet |-> 0] /\ listening = {} /\ phase = "subscribe"
    /\ shown = {}

-----------------------------------------------------------------------------
(* Calls.  The signals follow the change; a record that is set as it is    *)
(* has none.                                                               *)

Removals(R) ==
    LET gone == SetToSeq(R)
    IN  [i \in DOMAIN gone |-> Signal("removed", gone[i].subject, gone[i].relation)]

Serve(c, after, signals) ==
    /\ calls < MaxCalls /\ calls' = calls + 1
    /\ emitting[c] = <<>>
    /\ records' = after
    /\ emitting' = [emitting EXCEPT ![c] = signals]
    /\ UNCHANGED watcher

Outcome(s, r, t, after) ==
    IF after = records THEN <<>>
    ELSE <<Signal(IF At(records, s, r, t) = {} THEN "added" ELSE "updated", s, r)>>

SetWithPersistence(c, s, r, t, m, p) ==
    LET after == SetIn(records, s, r, t, m, p)
    IN  Serve(c, after, Outcome(s, r, t, after))

SetOneWithPersistence(c, s, r, t, m, p) ==
    LET after == SetOneIn(records, s, r, t, m, p)
        displaced == Displaced(records, s, r, t)
    IN  Serve(c, after, Removals(displaced) \o Outcome(s, r, t, after \cup displaced))

(* Only PersistenceChanged is emitted, which no watcher listens for.       *)
SetPersistence(c, s, r, t, p) ==
    /\ At(records, s, r, t) # {}
    /\ Serve(c, WithPersist(records, s, r, t, p), <<>>)

Unset(c, s, r, t) ==
    Serve(c, records \ At(records, s, r, t), Removals(At(records, s, r, t)))

Clear(c, s, r) ==
    LET gone == Under(records, s, r)
    IN  Serve(c, records \ gone,
              IF gone = {} THEN <<>> ELSE Append(Removals(gone), Signal("cleared", s, r)))

\* Slip: nothing is said of the records that go.
ClearSubjectQuietly(c, s) == Serve(c, records \ Of(records, s), <<>>)

ClearSubject(c, s) == Serve(c, records \ Of(records, s), Removals(Of(records, s)))

Emit(c) ==
    /\ emitting[c] # <<>>
    /\ emitting' = [emitting EXCEPT ![c] = Tail(@)]
    /\ LET signal == Head(emitting[c])
       IN  heard' = IF signal.kind \in listening /\ Concerned(signal)
                    THEN [heard EXCEPT ![signal.kind] = @ + 1] ELSE heard
    /\ UNCHANGED <<records, calls, listening, phase, shown>>

-----------------------------------------------------------------------------
(* The watcher: the four subscriptions, the first list, then a list for    *)
(* each signal.                                                            *)

Subscribe ==
    /\ phase = "subscribe"
    /\ LET kind == Kinds[Cardinality(listening) + 1]
       IN  listening' = listening \cup {kind}
    /\ phase' = IF listening' = KindSet THEN "list" ELSE "subscribe"
    /\ UNCHANGED <<records, emitting, calls, heard, shown>>

List ==
    /\ phase = "list"
    /\ shown' = Bare(Concerns(records)) /\ phase' = "wait"
    /\ UNCHANGED <<records, emitting, calls, heard, listening>>

Hear(kind) ==
    /\ phase = "wait" /\ heard[kind] > 0
    /\ heard' = [heard EXCEPT ![kind] = @ - 1] /\ phase' = "list"
    /\ UNCHANGED <<records, emitting, calls, listening, shown>>

Next ==
    \/ \E c \in Callers, s \in Subjects :
        \/ \E r \in RelNames :
            \/ \E t \in Targets, p \in BOOLEAN :
                \/ \E m \in Metadata : \/ SetWithPersistence(c, s, r, t, m, p)
                                       \/ SetOneWithPersistence(c, s, r, t, m, p)
                \/ SetPersistence(c, s, r, t, p)
            \/ \E t \in Targets : Unset(c, s, r, t)
            \/ Clear(c, s, r)
        \/ ClearSubject(c, s)
    \/ \E c \in Callers : Emit(c)
    \/ Subscribe \/ List
    \/ \E kind \in KindSet : Hear(kind)

Spec == Init /\ [][Next]_vars

-----------------------------------------------------------------------------
(* Every variable has its type.                                            *)
TypeOK ==
    /\ records \subseteq Record /\ shown \subseteq Record
    /\ calls \in 0..MaxCalls /\ listening \subseteq KindSet
    /\ phase \in {"subscribe", "list", "wait"} /\ \A k \in KindSet : heard[k] \in Nat

(* When no signal is on its way and the watcher waits, it shows the        *)
(* records of its subjects as the store has them: changes made while it    *)
(* was subscribing are not lost ("Subscribe before the initial List"), and *)
(* signals of two calls that cross do no harm.                             *)
RecordsShown ==
    /\ phase = "wait"
    /\ \A k \in KindSet : heard[k] = 0
    /\ \A c \in Callers : emitting[c] = <<>>
    => shown = Bare(Concerns(records))
=============================================================================
