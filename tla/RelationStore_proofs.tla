------------------------- MODULE RelationStore_proofs -------------------------
(***************************************************************************)
(* Proofs about the locus store, for every set of endpoints, relation      *)
(* names and metadata maps, and about the run of the store and of sessions *)
(* (MCDurable), in which each does what its theorems say.                  *)
(***************************************************************************)
EXTENDS MCDurable, TLAPS

-----------------------------------------------------------------------------
(* Lemmas about the operators on records.                                  *)

\* The durable part of a set of records is a set of records with no duplicate
\* key when the set has none, and is its own durable part.
LEMMA PersistentFacts ==
    ASSUME NEW R, R \subseteq Record, OnePerKey(R)
    PROVE  /\ Persistent(R) \subseteq Record
           /\ OnePerKey(Persistent(R))
           /\ Persistent(Persistent(R)) = Persistent(R)
BY DEF Persistent, OnePerKey

\* set_in_records returns records, one per key if there was one per key
\* (store.rs set_in_records).
LEMMA SetInFacts ==
    ASSUME NEW R, R \subseteq Record, OnePerKey(R),
           NEW s \in Subjects, NEW r \in RelNames, NEW t \in Targets,
           NEW m \in Metadata, NEW p \in Policy
    PROVE  SetIn(R, s, r, t, m, p) \subseteq Record /\ OnePerKey(SetIn(R, s, r, t, m, p))
<1> DEFINE old == At(R, s, r, t)
<1>1. CASE old = {}
  <2>1. Fresh(s, r, t, m, p) \in Record
    BY KeepAssumption DEF Fresh, Record, Policy
  <2>2. SetIn(R, s, r, t, m, p) = R \cup {Fresh(s, r, t, m, p)}
    BY <1>1 DEF SetIn
  <2>3. \A x \in R : KeyOf(x) # KeyOf(Fresh(s, r, t, m, p))
    BY <1>1 DEF At, KeyOf, Fresh
  <2> QED
    BY <2>1, <2>2, <2>3 DEF OnePerKey
<1>2. CASE old # {}
  <2>1. \A x \in old : Updated(x, m, p) \in Record /\ KeyOf(Updated(x, m, p)) = KeyOf(x)
    BY KeepAssumption DEF Updated, Record, Policy, KeyOf, At
  <2>2. SetIn(R, s, r, t, m, p) = (R \ old) \cup {Updated(x, m, p) : x \in old}
    BY <1>2 DEF SetIn
  <2>3. SetIn(R, s, r, t, m, p) \subseteq Record
    BY <2>1, <2>2
  <2>4. \A x, y \in SetIn(R, s, r, t, m, p) : KeyOf(x) = KeyOf(y) => x = y
    BY <2>1, <2>2 DEF OnePerKey, At
  <2> QED
    BY <2>3, <2>4 DEF OnePerKey
<1> QED
  BY <1>1, <1>2

\* Removing records keeps them records with one per key.
LEMMA SubsetFacts ==
    ASSUME NEW R, R \subseteq Record, OnePerKey(R), NEW S, S \subseteq R
    PROVE  S \subseteq Record /\ OnePerKey(S)
BY DEF OnePerKey

\* set_one is a set after a removal (store.rs set_one_with_persistence).
LEMMA SetOneInFacts ==
    ASSUME NEW R, R \subseteq Record, OnePerKey(R),
           NEW s \in Subjects, NEW r \in RelNames, NEW t \in Targets,
           NEW m \in Metadata, NEW p \in Policy
    PROVE  /\ SetOneIn(R, s, r, t, m, p) \subseteq Record
           /\ OnePerKey(SetOneIn(R, s, r, t, m, p))
<1>1. /\ R \ Displaced(R, s, r, t) \subseteq Record
      /\ OnePerKey(R \ Displaced(R, s, r, t))
  BY DEF OnePerKey
<1> QED
  BY <1>1, SetInFacts DEF SetOneIn

\* set_persistence changes a flag and nothing else (store.rs set_persistence).
LEMMA WithPersistFacts ==
    ASSUME NEW R, R \subseteq Record, OnePerKey(R),
           NEW s \in Subjects, NEW r \in RelNames, NEW t \in Targets,
           NEW b \in BOOLEAN
    PROVE  /\ WithPersist(R, s, r, t, b) \subseteq Record
           /\ OnePerKey(WithPersist(R, s, r, t, b))
<1> DEFINE old == At(R, s, r, t)
           W == WithPersist(R, s, r, t, b)
<1>1. W = (R \ old) \cup {[x EXCEPT !.persist = b] : x \in old}
  BY DEF WithPersist
<1>2. \A x \in old : /\ [x EXCEPT !.persist = b] \in Record
                     /\ KeyOf([x EXCEPT !.persist = b]) = KeyOf(x)
  BY DEF Record, KeyOf, At
<1>3. W \subseteq Record
  BY <1>1, <1>2
<1>4. \A x, y \in W : KeyOf(x) = KeyOf(y) => x = y
  BY <1>1, <1>2 DEF OnePerKey, At
<1> QED
  BY <1>3, <1>4 DEF OnePerKey

-----------------------------------------------------------------------------
(* The inductive invariant.                                                *)

USE DEF file

\* Before the daemon starts, any snapshot with one record per key will do.
LEMMA InitIInv == Init => IInv
<1> SUFFICES ASSUME Init PROVE IInv
  OBVIOUS
<1>1. TypeOK
  BY DEF Init, TypeOK, NoTmp
<1>2. SingleRecord
  BY DEF Init, SingleRecord, OnePerKey
<1>3. AlwaysLoadable
  BY GarbageAssumption DEF Init, AlwaysLoadable
<1>4. FileMatchesMemory /\ AllOrNothing
  BY DEF Init, FileMatchesMemory, AllOrNothing
<1>5. WriteInHand
  BY DEF Init, WriteInHand, OnePerKey
<1> QED
  BY <1>1, <1>2, <1>3, <1>4, <1>5 DEF IInv

\* A call that computed a set of records either changes memory alone or starts
\* a write (store.rs persist_changed_records).
LEMMA SubmitIInv ==
    ASSUME IInv, pc = "idle",
           NEW W, W \subseteq Record, OnePerKey(W),
           NEW D, D \subseteq Key,
           Submit(W, D)
    PROVE  IInv'
<1>1. CASE Persistent(W) = Persistent(records)
  <2>1. /\ records' = W /\ promised' = D
        /\ UNCHANGED <<disk, tmp, crashable, unsynced, pc, next, opening, enables>>
    BY <1>1 DEF Submit
  <2> QED
    BY <1>1, <2>1 DEF IInv, TypeOK, SingleRecord, AlwaysLoadable,
        FileMatchesMemory, AllOrNothing, WriteInHand
<1>2. CASE Persistent(W) # Persistent(records)
  <2>1. /\ next' = W /\ enables' = D /\ promised' = {} /\ pc' = "create"
        /\ UNCHANGED <<records, disk, tmp, crashable, unsynced, opening>>
    BY <1>2 DEF Submit
  <2> QED
    BY <2>1 DEF IInv, TypeOK, SingleRecord, AlwaysLoadable,
        FileMatchesMemory, AllOrNothing, WriteInHand
<1> QED
  BY <1>1, <1>2

LEMMA AskedFacts ==
    ASSUME NEW s \in Subjects, NEW r \in RelNames, NEW t \in Targets, NEW p
    PROVE  Asked(s, r, t, p) \subseteq Key
BY DEF Asked, Key

\* Every call of the D-Bus interface comes down to submitting a set of records
\* with one per key.
LEMMA CallSubmits ==
    ASSUME records \subseteq Record, OnePerKey(records), Call
    PROVE  /\ pc = "idle"
           /\ \E W \in SUBSET Record, D \in SUBSET Key : OnePerKey(W) /\ Submit(W, D)
<1> DEFINE Submits == \E W \in SUBSET Record, D \in SUBSET Key :
                        OnePerKey(W) /\ Submit(W, D)
<1>1. PICK s \in Subjects, r \in RelNames :
        \/ Clear(s, r)
        \/ ClearSubject(s)
        \/ \E t \in Targets :
            \/ Unset(s, r, t)
            \/ \E b \in BOOLEAN : SetPersistence(s, r, t, b)
            \/ \E m \in Metadata, p \in Policy :
                \/ Set(s, r, t, m, p)
                \/ SetOne(s, r, t, m, p)
  BY DEF Call
<1>2. ASSUME NEW S \in SUBSET records, Submit(records \ S, {}) PROVE Submits
  <2>1. records \ S \in SUBSET Record /\ OnePerKey(records \ S)
    BY DEF OnePerKey
  <2> QED
    BY <1>2, <2>1
<1>3. CASE Clear(s, r)
  BY <1>2, <1>3 DEF Clear, Under
<1>4. CASE ClearSubject(s)
  BY <1>2, <1>4 DEF ClearSubject, Of
<1>5. ASSUME NEW t \in Targets, Unset(s, r, t) PROVE pc = "idle" /\ Submits
  BY <1>2, <1>5 DEF Unset, At
<1>6. ASSUME NEW t \in Targets, NEW b \in BOOLEAN, SetPersistence(s, r, t, b)
      PROVE  pc = "idle" /\ Submits
  BY <1>6, WithPersistFacts, AskedFacts DEF SetPersistence
<1>7. ASSUME NEW t \in Targets, NEW m \in Metadata, NEW p \in Policy,
             Set(s, r, t, m, p)
      PROVE  pc = "idle" /\ Submits
  BY <1>7, SetInFacts, AskedFacts DEF Set
<1>8. ASSUME NEW t \in Targets, NEW m \in Metadata, NEW p \in Policy,
             SetOne(s, r, t, m, p)
      PROVE  pc = "idle" /\ Submits
  BY <1>8, SetOneInFacts, AskedFacts DEF SetOne
<1>9. CASE Clear(s, r) \/ ClearSubject(s)
  BY <1>3, <1>4, <1>9 DEF Clear, ClearSubject
<1> QED
  BY <1>1, <1>5, <1>6, <1>7, <1>8, <1>9

LEMMA CallIInv == IInv /\ Call => IInv'
BY CallSubmits, SubmitIInv DEF IInv, TypeOK, SingleRecord

\* Opening the store, the system calls of a write, their failures, and the end
\* of the process or the machine preserve the invariant.
LEMMA FileIInv ==
    ASSUME IInv,
           OpenClean \/ OpenRewrite \/ WriteTmp \/ SyncTmp \/ Rename \/ SyncDir
              \/ Fail \/ Crash \/ PowerLoss
    PROVE  IInv'
<1> USE DEF IInv
<1>1. CASE OpenClean
  BY <1>1 DEF OpenClean, TypeOK, SingleRecord, AlwaysLoadable,
        FileMatchesMemory, AllOrNothing, WriteInHand
<1>2. CASE OpenRewrite
  <2>1. /\ Persistent(disk) \subseteq Record /\ OnePerKey(Persistent(disk))
        /\ Persistent(Persistent(disk)) = Persistent(disk)
    BY <1>2, PersistentFacts DEF OpenRewrite, TypeOK, SingleRecord
  <2> QED
    BY <1>2, <2>1 DEF OpenRewrite, TypeOK, SingleRecord, AlwaysLoadable,
        FileMatchesMemory, AllOrNothing, WriteInHand
<1>3. CASE WriteTmp
  <2>1. Persistent(next) \subseteq Record
    BY DEF TypeOK, Persistent
  <2> QED
    BY <1>3, <2>1 DEF WriteTmp, TypeOK, SingleRecord, AlwaysLoadable,
        FileMatchesMemory, AllOrNothing, WriteInHand
<1>4. CASE SyncTmp
  BY <1>4 DEF SyncTmp, TypeOK, SingleRecord, AlwaysLoadable,
        FileMatchesMemory, AllOrNothing, WriteInHand
<1>5. CASE Rename
  <2>1. /\ disk' = Persistent(next)
        /\ crashable' = crashable \cup {Persistent(next)}
        /\ tmp' = NoTmp /\ unsynced' = TRUE /\ pc' = "renamed"
        /\ UNCHANGED <<records, next, opening, enables, promised>>
    BY <1>5 DEF Rename, WriteInHand
  <2>2. /\ Persistent(next) \subseteq Record /\ OnePerKey(Persistent(next))
        /\ Persistent(next) # Garbage
    BY PersistentFacts, GarbageAssumption DEF TypeOK, WriteInHand
  <2> QED
    BY <2>1, <2>2 DEF TypeOK, NoTmp, SingleRecord, AlwaysLoadable,
        FileMatchesMemory, AllOrNothing, WriteInHand
<1>6. CASE SyncDir
  BY <1>6 DEF SyncDir, TypeOK, SingleRecord, AlwaysLoadable,
        FileMatchesMemory, AllOrNothing, WriteInHand, OnePerKey
<1>7. CASE Fail
  <2>1. TypeOK' /\ SingleRecord' /\ AlwaysLoadable'
    BY <1>7 DEF Fail, TypeOK, NoTmp, SingleRecord, AlwaysLoadable, OnePerKey
  <2>2. FileMatchesMemory'
    BY <1>7 DEF Fail, FileMatchesMemory, AllOrNothing, WriteInHand
  <2>3. AllOrNothing'
    BY <1>7 DEF Fail, AllOrNothing
  <2>4. WriteInHand'
    BY <1>7 DEF Fail, WriteInHand, OnePerKey
  <2> QED
    BY <2>1, <2>2, <2>3, <2>4
<1>8. CASE Crash
  BY <1>8 DEF Crash, Stopped, TypeOK, NoTmp, SingleRecord, AlwaysLoadable,
        FileMatchesMemory, AllOrNothing, WriteInHand, OnePerKey
<1>9. CASE PowerLoss
  <2>1. /\ pc' = "down" /\ records' = {} /\ next' = {} /\ tmp' = NoTmp
        /\ opening' = FALSE /\ unsynced' = FALSE /\ enables' = {} /\ promised' = {}
        /\ disk' \in crashable /\ crashable' = {disk'}
    BY <1>9 DEF PowerLoss, Stopped
  <2>2. disk' # Garbage /\ disk' \subseteq Record /\ OnePerKey(disk')
    BY <2>1 DEF TypeOK, SingleRecord, AlwaysLoadable
  <2>3. TypeOK'
    BY <2>1, <2>2 DEF TypeOK, NoTmp
  <2>4. SingleRecord' /\ AlwaysLoadable'
    BY <2>1, <2>2 DEF SingleRecord, AlwaysLoadable, OnePerKey
  <2>5. FileMatchesMemory' /\ AllOrNothing' /\ WriteInHand'
    BY <2>1 DEF FileMatchesMemory, AllOrNothing, WriteInHand, OnePerKey
  <2> QED
    BY <2>3, <2>4, <2>5
<1> QED
  BY <1>1, <1>2, <1>3, <1>4, <1>5, <1>6, <1>7, <1>8, <1>9

LEMMA StutterIInv == IInv /\ UNCHANGED vars => IInv'
BY DEF vars, IInv, TypeOK, SingleRecord, AlwaysLoadable,
    FileMatchesMemory, AllOrNothing, WriteInHand

\* The invariant holds in every reachable state of the store.
THEOREM StoreInvariant == Spec => []IInv
<1>1. IInv /\ [Next]_vars => IInv'
  BY CallIInv, FileIInv, StutterIInv DEF Next
<1> QED
  BY InitIInv, <1>1, PTL DEF Spec

\* Type correctness of the store's variables.
THEOREM TypeCorrect == Spec => []TypeOK
<1>1. IInv => TypeOK
  BY DEF IInv
<1> QED
  BY <1>1, StoreInvariant, PTL

\* At most one record per key, in memory and in every snapshot a restart loads.
THEOREM RecordsUnique == Spec => []SingleRecord
<1>1. IInv => SingleRecord
  BY DEF IInv
<1> QED
  BY <1>1, StoreInvariant, PTL

\* No crash or power loss leaves a file that open() refuses.
THEOREM FileAlwaysLoadable == Spec => []AlwaysLoadable
<1>1. IInv => AlwaysLoadable
  BY DEF IInv
<1> QED
  BY <1>1, StoreInvariant, PTL

\* Between calls the file, and all a power loss leaves of it, is the durable
\* part of memory, unless a directory sync is outstanding.
THEOREM FileAndMemoryAgree == Spec => []FileMatchesMemory
<1>1. IInv => FileMatchesMemory
  BY DEF IInv
<1> QED
  BY <1>1, StoreInvariant, PTL

\* A power loss during a call leaves the records from before or after it.
THEOREM CallsAreAtomic == Spec => []AllOrNothing
<1>1. IInv => AllOrNothing
  BY DEF IInv
<1> QED
  BY <1>1, StoreInvariant, PTL

\* No call changes the durable records in memory by itself: the end of a write
\* does (store.rs: self.records = next comes after persist_changed_records).
LEMMA CallKeepsDurable == IInv /\ Call => Persistent(records') = Persistent(records)
<1>1. \A W, D : Submit(W, D) => Persistent(records') = Persistent(records)
  BY DEF Submit
<1> QED
  BY <1>1, CallSubmits DEF IInv, TypeOK, SingleRecord

\* Memory shows a durable change only once the file holds it.
THEOREM MemoryNeverAhead == Spec => MemoryFollowsFile
<1> DEFINE Ahead == Persistent(records') # Persistent(records) /\ pc' = "idle"
           InFile == /\ disk' = Persistent(records')
                     /\ (pc # "down" => crashable' = {disk'})
<1>1. IInv /\ [Next]_vars => [Ahead => InFile]_vars
  <2> SUFFICES ASSUME IInv, Next, Ahead PROVE InFile
    BY DEF vars
  <2>1. CASE OpenClean
    BY <2>1 DEF OpenClean
  <2>2. CASE SyncDir
    BY <2>2 DEF SyncDir, IInv, AllOrNothing
  <2>3. CASE Call
    BY <2>3, CallKeepsDurable
  <2>4. CASE OpenRewrite \/ WriteTmp \/ SyncTmp \/ Rename \/ Fail
    BY <2>4 DEF OpenRewrite, WriteTmp, SyncTmp, Rename, Fail
  <2>5. CASE Crash \/ PowerLoss
    BY <2>5 DEF Crash, PowerLoss, Stopped
  <2> QED
    BY <2>1, <2>2, <2>3, <2>4, <2>5 DEF Next
<1> QED
  BY <1>1, StoreInvariant, PTL DEF Spec, MemoryFollowsFile

-----------------------------------------------------------------------------
(* Nothing becomes durable unasked.                                        *)

\* Of the durable records of W, those that are not durable in R.
Unasked(W, R, D) ==
    {x \in Persistent(W) : KeyOf(x) \notin D /\ \A y \in Persistent(R) : KeyOf(y) # KeyOf(x)}

\* The write in hand adds what the call asked for.
Requested ==
    pc \in {"create", "written", "synced", "renamed"} /\ ~opening =>
        Unasked(next, records, enables) = {}

\* Setting a record makes it durable only when the call says so
\* (store.rs set_in_records: an absent argument keeps the flag, or is FALSE).
LEMMA SetInAsked ==
    ASSUME NEW Q, Q \subseteq Record, NEW R, R \subseteq Q,
           NEW s \in Subjects, NEW r \in RelNames, NEW t \in Targets,
           NEW m \in Metadata, NEW p \in Policy
    PROVE  Unasked(SetIn(R, s, r, t, m, p), Q, Asked(s, r, t, p)) = {}
<1> SUFFICES ASSUME NEW x \in SetIn(R, s, r, t, m, p), x.persist,
                    \A y \in Persistent(Q) : KeyOf(y) # KeyOf(x)
             PROVE  KeyOf(x) \in Asked(s, r, t, p)
  BY DEF Unasked, Persistent
<1>1. x \notin R
  BY DEF Persistent
<1>2. CASE At(R, s, r, t) = {}
  <2>1. x = Fresh(s, r, t, m, p)
    BY <1>1, <1>2 DEF SetIn
  <2>2. KeyOf(x) = [subject |-> s, relation |-> r, target |-> t]
    BY <2>1 DEF Fresh, KeyOf
  <2>3. p = TRUE
    BY <2>1, KeepAssumption DEF Fresh, Policy
  <2> QED
    BY <2>2, <2>3 DEF Asked
<1>3. CASE At(R, s, r, t) # {}
  <2>1. PICK old \in At(R, s, r, t) : x = Updated(old, m, p)
    BY <1>1, <1>3 DEF SetIn
  <2>2. old \in Q /\ old \in Record /\ old.subject = s /\ old.relation = r /\ old.target = t
    BY DEF At
  <2>3. KeyOf(x) = KeyOf(old) /\ KeyOf(old) = [subject |-> s, relation |-> r, target |-> t]
    BY <2>1, <2>2 DEF Updated, KeyOf, Record
  <2>4. ~old.persist
    BY <2>2, <2>3 DEF Persistent
  <2>5. p = TRUE
    BY <2>1, <2>2, <2>4, KeepAssumption DEF Updated, Policy, Record
  <2> QED
    BY <2>3, <2>5 DEF Asked
<1> QED
  BY <1>2, <1>3

\* So does set_persistence.
LEMMA WithPersistAsked ==
    ASSUME NEW R, R \subseteq Record,
           NEW s \in Subjects, NEW r \in RelNames, NEW t \in Targets, NEW b \in BOOLEAN
    PROVE  Unasked(WithPersist(R, s, r, t, b), R, Asked(s, r, t, b)) = {}
<1> SUFFICES ASSUME NEW x \in WithPersist(R, s, r, t, b), x.persist,
                    \A y \in Persistent(R) : KeyOf(y) # KeyOf(x)
             PROVE  KeyOf(x) \in Asked(s, r, t, b)
  BY DEF Unasked, Persistent
<1>1. PICK old \in At(R, s, r, t) : x = [old EXCEPT !.persist = b]
  BY DEF WithPersist, Persistent
<1>2. old \in Record /\ old.subject = s /\ old.relation = r /\ old.target = t
  BY DEF At
<1>3. KeyOf(x) = [subject |-> s, relation |-> r, target |-> t] /\ b = TRUE
  BY <1>1, <1>2 DEF KeyOf, Record
<1> QED
  BY <1>3 DEF Asked

LEMMA CallAsks ==
    ASSUME records \subseteq Record, Call
    PROVE  \E W, D : Submit(W, D) /\ Unasked(W, records, D) = {}
<1> DEFINE Asks == \E W, D : Submit(W, D) /\ Unasked(W, records, D) = {}
<1>1. PICK s \in Subjects, r \in RelNames :
        \/ Clear(s, r)
        \/ ClearSubject(s)
        \/ \E t \in Targets :
            \/ Unset(s, r, t)
            \/ \E b \in BOOLEAN : SetPersistence(s, r, t, b)
            \/ \E m \in Metadata, p \in Policy :
                \/ Set(s, r, t, m, p)
                \/ SetOne(s, r, t, m, p)
  BY DEF Call
<1>2. ASSUME NEW S, Submit(records \ S, {}) PROVE Asks
  <2>1. Unasked(records \ S, records, {}) = {}
    BY DEF Unasked, Persistent
  <2> QED
    BY <1>2, <2>1
<1>3. CASE Clear(s, r) \/ ClearSubject(s)
  BY <1>2, <1>3 DEF Clear, ClearSubject
<1>4. ASSUME NEW t \in Targets, Unset(s, r, t) PROVE Asks
  BY <1>2, <1>4 DEF Unset
<1>5. ASSUME NEW t \in Targets, NEW b \in BOOLEAN, SetPersistence(s, r, t, b) PROVE Asks
  BY <1>5, WithPersistAsked DEF SetPersistence
<1>6. ASSUME NEW t \in Targets, NEW m \in Metadata, NEW p \in Policy, Set(s, r, t, m, p)
      PROVE  Asks
  BY <1>6, SetInAsked DEF Set
<1>7. ASSUME NEW t \in Targets, NEW m \in Metadata, NEW p \in Policy, SetOne(s, r, t, m, p)
      PROVE  Asks
  <2>1. records \ Displaced(records, s, r, t) \subseteq records
    OBVIOUS
  <2>2. Unasked(SetOneIn(records, s, r, t, m, p), records, Asked(s, r, t, p)) = {}
    BY <2>1, SetInAsked DEF SetOneIn
  <2> QED
    BY <1>7, <2>2 DEF SetOne
<1> QED
  BY <1>1, <1>3, <1>4, <1>5, <1>6, <1>7

LEMMA RequestedHolds == IInv /\ Requested /\ [Next]_vars => Requested'
<1> SUFFICES ASSUME IInv, Requested, [Next]_vars PROVE Requested'
  OBVIOUS
<1>1. CASE Call
  <2>1. PICK W, D : Submit(W, D) /\ Unasked(W, records, D) = {}
    BY <1>1, CallAsks DEF IInv, TypeOK
  <2>2. pc = "idle"
    BY <1>1, CallSubmits DEF IInv, TypeOK, SingleRecord
  <2> QED
    BY <2>1, <2>2 DEF Submit, Requested
<1>2. CASE OpenClean \/ OpenRewrite \/ SyncDir \/ Fail \/ Crash \/ PowerLoss
  BY <1>2 DEF OpenClean, OpenRewrite, SyncDir, Fail, Crash, PowerLoss, Stopped, Requested
<1>3. CASE WriteTmp \/ SyncTmp \/ Rename
  BY <1>3 DEF WriteTmp, SyncTmp, Rename, Requested
<1>4. CASE UNCHANGED vars
  BY <1>4 DEF vars, Requested
<1> QED
  BY <1>1, <1>2, <1>3, <1>4 DEF Next

(* A record becomes durable in memory by a call that asked for it, or by   *)
(* loading it at start, and by no other step (store.rs set, set_one and    *)
(* set_persistence).                                                       *)
THEOREM DurableOnRequest == Spec => OnlyOnRequest
<1> DEFINE Request ==
            \A x \in Persistent(records') :
                \/ \E y \in Persistent(records) : KeyOf(y) = KeyOf(x)
                \/ KeyOf(x) \in promised'
                \/ pc = "down" \/ opening
<1>1. Init => Requested
  BY DEF Init, Requested
<1>2. IInv /\ Requested /\ [Next]_vars => [Request]_vars
  <2> SUFFICES ASSUME IInv, Requested, Next PROVE Request
    BY DEF vars
  <2>1. CASE SyncDir
    <3>1. records' = next /\ promised' = enables /\ pc = "renamed"
      BY <2>1 DEF SyncDir
    <3>2. ~opening => Unasked(next, records, enables) = {}
      BY <3>1 DEF Requested
    <3> QED
      BY <3>1, <3>2 DEF Unasked
  <2>2. CASE Call
    BY <2>2, CallKeepsDurable
  <2>3. CASE OpenClean \/ OpenRewrite
    BY <2>3 DEF OpenClean, OpenRewrite
  <2>4. CASE WriteTmp \/ SyncTmp \/ Rename \/ Fail
    BY <2>4 DEF WriteTmp, SyncTmp, Rename, Fail
  <2>5. CASE Crash \/ PowerLoss
    BY <2>5 DEF Crash, PowerLoss, Stopped, Persistent
  <2> QED
    BY <2>1, <2>2, <2>3, <2>4, <2>5 DEF Next
<1> QED
  BY <1>1, <1>2, RequestedHolds, StoreInvariant, PTL DEF Spec, OnlyOnRequest

-----------------------------------------------------------------------------
(* The store implements DurableRelations.                                  *)

USE DEF Durable!Persistent, Durable!Record

\* What a power loss may leave is, durable part for durable part, a snapshot.
LEMMA SavedAreSnapshots ==
    ASSUME IInv, NEW c \in crashable
    PROVE  Persistent(c) \in Durable!Snapshots
BY DEF IInv, TypeOK, AlwaysLoadable, Durable!Snapshots, Persistent, Record

\* A call is a change of session-only records, or a write that has not been
\* saved yet.
LEMMA SubmitImplements ==
    ASSUME IInv, pc = "idle",
           NEW W, W \subseteq Record, NEW D, Submit(W, D)
    PROVE  Durable!Next \/ UNCHANGED Durable!vars
<1>1. CASE Persistent(W) = Persistent(records)
  <2>1. records' = W /\ UNCHANGED <<pc, crashable, opening>>
    BY <1>1 DEF Submit
  <2>2. ~opening
    BY DEF IInv, WriteInHand
  <2> QED
    BY <1>1, <2>1, <2>2 DEF Durable!Next, Durable!ChangeSession, Persistent, Record
<1>2. CASE Persistent(W) # Persistent(records)
  <2>1. pc' = "create" /\ UNCHANGED <<records, crashable, opening>>
    BY <1>2 DEF Submit
  <2> QED
    BY <2>1 DEF Durable!vars
<1> QED
  BY <1>1, <1>2

LEMMA CallImplements ==
    ASSUME IInv, Call PROVE Durable!Next \/ UNCHANGED Durable!vars
BY CallSubmits, SubmitImplements DEF IInv, TypeOK, SingleRecord

\* Every step of the store is a step of the promise, or none at all.
LEMMA StepImplements == IInv /\ [Next]_vars => [Durable!Next]_(Durable!vars)
<1> SUFFICES ASSUME IInv, [Next]_vars
             PROVE  Durable!Next \/ UNCHANGED Durable!vars
  OBVIOUS
<1>1. CASE OpenClean
  <2>1. Persistent(disk) \in {Persistent(c) : c \in crashable}
    BY DEF IInv, WriteInHand
  <2>2. records' = Persistent(disk) /\ pc = "down" /\ pc' = "idle"
        /\ UNCHANGED <<crashable, opening>> /\ ~opening
    BY <1>1 DEF OpenClean, IInv, WriteInHand
  <2> QED
    BY <2>1, <2>2 DEF Durable!Next, Durable!Start, Persistent
<1>2. CASE OpenRewrite
  BY <1>2 DEF OpenRewrite, Durable!vars
<1>3. CASE Call
  BY <1>3, CallImplements
<1>4. CASE WriteTmp
  BY <1>4 DEF WriteTmp, Durable!vars
<1>5. CASE SyncTmp
  BY <1>5 DEF SyncTmp, Durable!vars
<1>6. CASE Rename
  <2>1. /\ crashable' = crashable \cup {Persistent(next)}
        /\ pc = "synced" /\ pc' = "renamed"
        /\ UNCHANGED <<records, opening>>
    BY <1>6 DEF Rename, IInv, WriteInHand
  <2>2. /\ Persistent(next) \in Durable!Snapshots
        /\ Persistent(Persistent(next)) = Persistent(next)
    BY DEF IInv, TypeOK, Durable!Snapshots, Persistent, Record
  <2>3. {Persistent(c) : c \in crashable'}
            = {Persistent(c) : c \in crashable} \cup {Persistent(next)}
    BY <2>1, <2>2
  <2> QED
    BY <2>1, <2>2, <2>3 DEF Durable!Next, Durable!Attempt, Persistent
<1>7. CASE SyncDir
  <2>1. /\ records' = next /\ crashable' = {disk} /\ disk = Persistent(next)
        /\ pc = "renamed" /\ pc' = "idle" /\ opening' = FALSE
        /\ disk \in crashable /\ next \subseteq Record
        /\ opening => next = Persistent(next)
    BY <1>7 DEF SyncDir, IInv, TypeOK, AllOrNothing, WriteInHand
  <2>2. Persistent(disk) = Persistent(next)
    BY <2>1 DEF Persistent
  <2>3. {Persistent(c) : c \in crashable'} = {Persistent(next)}
    BY <2>1, <2>2
  <2>4. CASE opening
    BY <2>1, <2>2, <2>3, <2>4 DEF Durable!Next, Durable!Start, Persistent
  <2>5. CASE ~opening
    BY <2>1, <2>3, <2>5 DEF Durable!Next, Durable!ChangeDurable, Persistent, Record
  <2> QED
    BY <2>4, <2>5
<1>8. CASE Fail
  <2>1. /\ UNCHANGED <<records, crashable>> /\ opening' = FALSE
        /\ pc' = IF opening THEN "down" ELSE "idle"
        /\ pc # "down"
    BY <1>8 DEF Fail
  <2> QED
    BY <2>1 DEF Durable!vars
<1>9. CASE Crash
  <2>1. pc' = "down" /\ records' = {} /\ UNCHANGED crashable
    BY <1>9 DEF Crash, Stopped
  <2> QED
    BY <2>1 DEF Durable!Next, Durable!Stop, Persistent
<1>10. CASE PowerLoss
  <2>1. pc' = "down" /\ records' = {}
        /\ disk' \in crashable /\ crashable' = {disk'}
    BY <1>10 DEF PowerLoss, Stopped
  <2>2. {Persistent(c) : c \in crashable'} = {Persistent(disk')}
    BY <2>1
  <2> QED
    BY <2>1, <2>2 DEF Durable!Next, Durable!Stop, Persistent
<1>11. CASE UNCHANGED vars
  BY <1>11 DEF vars, Durable!vars
<1> QED
  BY <1>1, <1>2, <1>3, <1>4, <1>5, <1>6, <1>7, <1>8, <1>9, <1>10, <1>11 DEF Next

\* The store with its file implements the promise that mentions no file.
THEOREM StoreKeepsItsPromise == Spec => KeepsItsPromise
<1>1. Init => Durable!Init
  <2> SUFFICES ASSUME Init PROVE Durable!Init
    OBVIOUS
  <2>1. Persistent(disk) \in Durable!Snapshots
    BY DEF Init, Persistent, Record, Durable!Snapshots
  <2>2. {Persistent(c) : c \in crashable} = {Persistent(disk)}
    BY DEF Init
  <2> QED
    BY <2>1, <2>2 DEF Init, Durable!Init, Persistent
<1> QED
  BY <1>1, StepImplements, StoreInvariant, PTL DEF Spec, KeepsItsPromise, Durable!Spec

-----------------------------------------------------------------------------
(* The run: the store and the sessions do what their theorems say of them. *)

P == INSTANCE SessionRestore_proofs

LEMMA DesktopSame == Sessions!Desktop <=> P!Desktop
<1>1. Sessions!Open <=> P!Open
  BY DEF Sessions!source, P!source, Sessions!records, P!records, Sessions!history, P!history,
        Sessions!With, P!With, Sessions!Meaningful, P!Meaningful, Sessions!Noticed, P!Noticed,
        Sessions!Event, P!Event, Sessions!Open, P!Open
<1>2. \A l : Sessions!Appear(l) <=> P!Appear(l)
  BY DEF Sessions!source, P!source, Sessions!records, P!records, Sessions!history, P!history,
        Sessions!bounds, P!bounds, Sessions!With, P!With, Sessions!Meaningful, P!Meaningful,
        Sessions!Noticed, P!Noticed, Sessions!Appear, P!Appear
<1>3. \A w : Sessions!Unassign(w) <=> P!Unassign(w)
  BY DEF Sessions!source, P!source, Sessions!history, P!history, Sessions!NoBinding,
        P!NoBinding, Sessions!Meaningful, P!Meaningful, Sessions!Noticed, P!Noticed,
        Sessions!Event, P!Event, Sessions!Unlocked, P!Unlocked, Sessions!Unassign, P!Unassign
<1>4. \A x : Sessions!Close(x) <=> P!Close(x)
  BY DEF Sessions!source, P!source, Sessions!records, P!records, Sessions!history, P!history,
        Sessions!Meaningful, P!Meaningful, Sessions!Noticed, P!Noticed, Sessions!Event, P!Event,
        Sessions!Close, P!Close
<1>5. \A x, w : Sessions!Move(x, w) <=> P!Move(x, w)
  BY DEF Sessions!source, P!source, Sessions!records, P!records, Sessions!history, P!history,
        Sessions!Meaningful, P!Meaningful, Sessions!Noticed, P!Noticed, Sessions!Event, P!Event,
        Sessions!Move, P!Move
<1>6. Sessions!Lose <=> P!Lose
  BY DEF Sessions!source, P!source, Sessions!records, P!records, Sessions!history, P!history,
        Sessions!Meaningful, P!Meaningful, Sessions!Noticed, P!Noticed, Sessions!Event, P!Event,
        Sessions!Lose, P!Lose
<1>7. Sessions!Connect <=> P!Connect
  BY DEF Sessions!source, P!source, Sessions!records, P!records, Sessions!history, P!history,
        Sessions!bounds, P!bounds, Sessions!Meaningful, P!Meaningful, Sessions!Noticed,
        P!Noticed, Sessions!Connect, P!Connect
<1>8. \A p : Sessions!RemoveProject(p) <=> P!RemoveProject(p)
  BY DEF Sessions!source, P!source, Sessions!records, P!records, Sessions!history, P!history,
        Sessions!Event, P!Event, Sessions!RemoveProject, P!RemoveProject
<1>9. \A w, p : Sessions!Bind(w, p) <=> P!Bind(w, p)
  BY DEF Sessions!source, P!source, Sessions!history, P!history, Sessions!Workspaces,
        P!Workspaces, Sessions!NoLink, P!NoLink, Sessions!NoBinding, P!NoBinding,
        Sessions!Meaningful, P!Meaningful, Sessions!Noticed, P!Noticed, Sessions!Event, P!Event,
        Sessions!Unlocked, P!Unlocked, Sessions!Fit, P!Fit, Sessions!Bound, P!Bound,
        Sessions!Bind, P!Bind
<1>10. Sessions!ReconcileProjects <=> P!ReconcileProjects
  BY DEF Sessions!source, P!source, Sessions!history, P!history, Sessions!bounds, P!bounds,
        Sessions!Workspaces, P!Workspaces, Sessions!NoBinding, P!NoBinding, Sessions!Meaningful,
        P!Meaningful, Sessions!NoticedIf, P!NoticedIf, Sessions!Unlocked, P!Unlocked,
        Sessions!ReconcileProjects, P!ReconcileProjects
<1>11. Sessions!Expire <=> P!Expire
  BY DEF Sessions!source, P!source, Sessions!history, P!history, Sessions!bounds, P!bounds,
        Sessions!Workspaces, P!Workspaces, Sessions!NoLink, P!NoLink, Sessions!NoBinding,
        P!NoBinding, Sessions!Meaningful, P!Meaningful, Sessions!NoticedIf, P!NoticedIf,
        Sessions!Unlocked, P!Unlocked, Sessions!Fit, P!Fit, Sessions!Expire, P!Expire
<1>12. Sessions!Unset <=> P!Unset
  BY DEF Sessions!source, P!source, Sessions!history, P!history, Sessions!bounds, P!bounds,
        Sessions!Workspaces, P!Workspaces, Sessions!NoLink, P!NoLink, Sessions!Unlocked,
        P!Unlocked, Sessions!Unset, P!Unset
<1> QED
  BY <1>1, <1>2, <1>3, <1>4, <1>5, <1>6, <1>7, <1>8, <1>9, <1>10, <1>11, <1>12 DEF
        Sessions!Desktop, P!Desktop, Sessions!Workspaces, P!Workspaces

LEMMA CaptureSame == Sessions!Capture <=> P!Capture
<1>1. Sessions!Automatic <=> P!Automatic
  BY DEF Sessions!source, P!source, Sessions!records, P!records, Sessions!history, P!history,
        Sessions!bounds, P!bounds, Sessions!Idle, P!Idle, Sessions!Begin, P!Begin,
        Sessions!Automatic, P!Automatic
<1>2. \A n : Sessions!Save(n) <=> P!Save(n)
  BY DEF Sessions!source, P!source, Sessions!records, P!records, Sessions!history, P!history,
        Sessions!Idle, P!Idle, Sessions!Begin, P!Begin, Sessions!Save, P!Save
<1>3. Sessions!Timeout <=> P!Timeout
  BY DEF Sessions!source, P!source, Sessions!records, P!records, Sessions!Idle, P!Idle,
        Sessions!Explicitly, P!Explicitly, Sessions!GiveUp, P!GiveUp, Sessions!Timeout,
        P!Timeout
<1>4. Sessions!ReadSource <=> P!ReadSource
  BY DEF Sessions!source, P!source, Sessions!records, P!records, Sessions!history, P!history,
        Sessions!bounds, P!bounds, Sessions!At, P!At, Sessions!Capturing, P!Capturing,
        Sessions!ReadSource, P!ReadSource
<1>5. Sessions!Describe <=> P!Describe
  BY DEF Sessions!source, P!source, Sessions!history, P!history, Sessions!bounds, P!bounds,
        Sessions!Workspaces, P!Workspaces, Sessions!NoLink, P!NoLink, Sessions!Members,
        P!Members, Sessions!With, P!With, Sessions!Fresh, P!Fresh, Sessions!At, P!At,
        Sessions!Capturing, P!Capturing, Sessions!Known, P!Known, Sessions!BoundTo, P!BoundTo,
        Sessions!Described, P!Described, Sessions!Old, P!Old, Sessions!KeptKey, P!KeptKey,
        Sessions!Live, P!Live, Sessions!Describe, P!Describe, Sessions!Cardinality,
        P!Cardinality, Sessions!IsFiniteSet, P!IsFiniteSet
<1>6. Sessions!ReadAgain <=> P!ReadAgain
  BY DEF Sessions!source, P!source, Sessions!records, P!records, Sessions!history, P!history,
        Sessions!bounds, P!bounds, Sessions!At, P!At, Sessions!Capturing, P!Capturing,
        Sessions!SeenAt, P!SeenAt, Sessions!Again, P!Again, Sessions!SameSource, P!SameSource,
        Sessions!ReadAgain, P!ReadAgain
<1>7. Sessions!ReadBindings <=> P!ReadBindings
  BY DEF Sessions!source, P!source, Sessions!records, P!records, Sessions!history, P!history,
        Sessions!bounds, P!bounds, Sessions!At, P!At, Sessions!Capturing, P!Capturing,
        Sessions!SeenAt, P!SeenAt, Sessions!Again, P!Again, Sessions!ReadBindings,
        P!ReadBindings
<1>8. Sessions!PutFails <=> P!PutFails
  BY DEF Sessions!source, P!source, Sessions!records, P!records, Sessions!Idle, P!Idle,
        Sessions!Valid, P!Valid, Sessions!Explicitly, P!Explicitly, Sessions!GiveUp, P!GiveUp,
        Sessions!At, P!At, Sessions!Capturing, P!Capturing, Sessions!PutFails, P!PutFails
<1>9. Sessions!WriteSession <=> P!WriteSession
  BY DEF Sessions!source, P!source, Sessions!records, P!records, Sessions!bounds, P!bounds,
        Sessions!Valid, P!Valid, Sessions!Put, P!Put, Sessions!Explicitly, P!Explicitly,
        Sessions!At, P!At, Sessions!Capturing, P!Capturing, Sessions!Armed, P!Armed,
        Sessions!WriteSession, P!WriteSession
<1>10. Sessions!WriteLast <=> P!WriteLast
  BY DEF Sessions!source, P!source, Sessions!records, P!records, Sessions!history, P!history,
        Sessions!bounds, P!bounds, Sessions!Valid, P!Valid, Sessions!Put, P!Put, Sessions!At,
        P!At, Sessions!Capturing, P!Capturing, Sessions!WriteLast, P!WriteLast
<1>11. Sessions!ArmAndExpire <=> P!ArmAndExpire
  BY DEF Sessions!source, P!source, Sessions!history, P!history, Sessions!bounds, P!bounds,
        Sessions!Workspaces, P!Workspaces, Sessions!NoLink, P!NoLink, Sessions!Idle, P!Idle,
        Sessions!At, P!At, Sessions!Capturing, P!Capturing, Sessions!Known, P!Known,
        Sessions!ArmAndExpire, P!ArmAndExpire
<1> QED
  BY <1>1, <1>2, <1>3, <1>4, <1>5, <1>6, <1>7, <1>8, <1>9, <1>10, <1>11 DEF Sessions!Capture,
        P!Capture

LEMMA ReopenSame == Sessions!Reopen <=> P!Reopen
<1>1. \A n : Sessions!Restore(n) <=> P!Restore(n)
  BY DEF Sessions!source, P!source, Sessions!records, P!records, Sessions!history, P!history,
        Sessions!Restore, P!Restore
<1>2. \A l : Sessions!BeginRestore(l) <=> P!BeginRestore(l)
  BY DEF Sessions!source, P!source, Sessions!records, P!records, Sessions!history, P!history,
        Sessions!bounds, P!bounds, Sessions!Idle, P!Idle, Sessions!Done, P!Done,
        Sessions!BeginRestore, P!BeginRestore
<1>3. Sessions!NextWorkspace <=> P!NextWorkspace
  BY DEF Sessions!source, P!source, Sessions!history, P!history, Sessions!bounds, P!bounds,
        Sessions!With, P!With, Sessions!At, P!At, Sessions!Restoring, P!Restoring,
        Sessions!Rest, P!Rest, Sessions!NextWorkspace, P!NextWorkspace
<1>4. Sessions!ChooseWorkspace <=> P!ChooseWorkspace
  BY DEF Sessions!source, P!source, Sessions!history, P!history, Sessions!bounds, P!bounds,
        Sessions!Workspaces, P!Workspaces, Sessions!NoLink, P!NoLink, Sessions!NoBinding,
        P!NoBinding, Sessions!Members, P!Members, Sessions!With, P!With, Sessions!Least,
        P!Least, Sessions!Greatest, P!Greatest, Sessions!Meaningful, P!Meaningful,
        Sessions!NoticedIf, P!NoticedIf, Sessions!At, P!At, Sessions!Restoring, P!Restoring,
        Sessions!Known, P!Known, Sessions!Rest, P!Rest, Sessions!Issue, P!Issue,
        Sessions!Existing, P!Existing, Sessions!NamedSo, P!NamedSo, Sessions!Blank, P!Blank,
        Sessions!Candidate, P!Candidate, Sessions!Usable, P!Usable, Sessions!ChooseWorkspace,
        P!ChooseWorkspace
<1>5. Sessions!BindRestored <=> P!BindRestored
  BY DEF Sessions!source, P!source, Sessions!history, P!history, Sessions!bounds, P!bounds,
        Sessions!Workspaces, P!Workspaces, Sessions!NoLink, P!NoLink, Sessions!NoBinding,
        P!NoBinding, Sessions!Meaningful, P!Meaningful, Sessions!NoticedIf, P!NoticedIf,
        Sessions!Unlocked, P!Unlocked, Sessions!Fit, P!Fit, Sessions!Bound, P!Bound,
        Sessions!At, P!At, Sessions!Restoring, P!Restoring, Sessions!Rest, P!Rest,
        Sessions!Issue, P!Issue, Sessions!BindRestored, P!BindRestored
<1>6. \A s : Sessions!FindWindow(s) <=> P!FindWindow(s)
  BY DEF Sessions!source, P!source, Sessions!bounds, P!bounds, Sessions!With, P!With,
        Sessions!Least, P!Least, Sessions!At, P!At, Sessions!Restoring, P!Restoring,
        Sessions!Rest, P!Rest, Sessions!InWorkspace, P!InWorkspace, Sessions!LoseWindow,
        P!LoseWindow, Sessions!Remember, P!Remember, Sessions!Placing, P!Placing,
        Sessions!Pending, P!Pending, Sessions!FindWindow, P!FindWindow, Sessions!Cardinality,
        P!Cardinality, Sessions!IsFiniteSet, P!IsFiniteSet
<1>7. \A s : Sessions!Launch(s) <=> P!Launch(s)
  BY DEF Sessions!source, P!source, Sessions!With, P!With, Sessions!At, P!At,
        Sessions!Restoring, P!Restoring, Sessions!Rest, P!Rest, Sessions!InWorkspace,
        P!InWorkspace, Sessions!LoseWindow, P!LoseWindow, Sessions!Pending, P!Pending,
        Sessions!Launch, P!Launch
<1>8. Sessions!Match <=> P!Match
  BY DEF Sessions!source, P!source, Sessions!bounds, P!bounds, Sessions!With, P!With,
        Sessions!At, P!At, Sessions!Restoring, P!Restoring, Sessions!Rest, P!Rest,
        Sessions!InWorkspace, P!InWorkspace, Sessions!LoseWindow, P!LoseWindow,
        Sessions!Remember, P!Remember, Sessions!Placing, P!Placing, Sessions!Of, P!Of,
        Sessions!Match, P!Match, Sessions!Cardinality, P!Cardinality, Sessions!IsFiniteSet,
        P!IsFiniteSet
<1>9. Sessions!Place <=> P!Place
  BY DEF Sessions!source, P!source, Sessions!records, P!records, Sessions!history, P!history,
        Sessions!bounds, P!bounds, Sessions!With, P!With, Sessions!Meaningful, P!Meaningful,
        Sessions!NoticedIf, P!NoticedIf, Sessions!At, P!At, Sessions!Restoring, P!Restoring,
        Sessions!Rest, P!Rest, Sessions!InWorkspace, P!InWorkspace, Sessions!NextWindow,
        P!NextWindow, Sessions!LoseWindow, P!LoseWindow, Sessions!Place, P!Place
<1>10. Sessions!SetLayout <=> P!SetLayout
  BY DEF Sessions!source, P!source, Sessions!records, P!records, Sessions!history, P!history,
        Sessions!bounds, P!bounds, Sessions!At, P!At, Sessions!Restoring, P!Restoring,
        Sessions!Rest, P!Rest, Sessions!Issue, P!Issue, Sessions!SetLayout, P!SetLayout
<1>11. Sessions!EndRestore <=> P!EndRestore
  BY DEF Sessions!source, P!source, Sessions!bounds, P!bounds, Sessions!Idle, P!Idle,
        Sessions!At, P!At, Sessions!Restoring, P!Restoring, Sessions!Done, P!Done,
        Sessions!EndRestore, P!EndRestore
<1> QED
  BY <1>1, <1>2, <1>3, <1>4, <1>5, <1>6, <1>7, <1>8, <1>9, <1>10, <1>11 DEF Sessions!Reopen,
        P!Reopen, Sessions!Names, P!Names

LEMMA StepsSame == Sessions!Next <=> P!Next
<1>1. Sessions!Restart <=> P!Restart
  BY DEF Sessions!source, P!source, Sessions!records, P!records, Sessions!history, P!history,
        Sessions!Idle, P!Idle, Sessions!Restart, P!Restart
<1> QED
  BY <1>1, DesktopSame, CaptureSame, ReopenSame DEF Sessions!Next, P!Next

LEMMA StartsSame == Sessions!Init <=> P!Init
  BY DEF Sessions!Workspaces, P!Workspaces, Sessions!Names, P!Names, Sessions!NoLink, P!NoLink,
        Sessions!NoBinding, P!NoBinding, Sessions!Idle, P!Idle, Sessions!Fresh, P!Fresh,
        Sessions!Starts, P!Starts, Sessions!Init, P!Init, Sessions!Cardinality, P!Cardinality,
        Sessions!IsFiniteSet, P!IsFiniteSet

LEMMA PromisesSame ==
    /\ Sessions!TypeOK <=> P!TypeOK
    /\ Sessions!LaunchesOnce <=> P!LaunchesOnce
    /\ Sessions!SavesHold <=> P!SavesHold
<1>1. Sessions!TypeOK <=> P!TypeOK
  BY DEF Sessions!Workspaces, P!Workspaces, Sessions!Names, P!Names, Sessions!Description,
        P!Description, Sessions!Link, P!Link, Sessions!TypeOK, P!TypeOK
<1>2. Sessions!LaunchesOnce <=> P!LaunchesOnce
  BY DEF Sessions!Workspaces, P!Workspaces, Sessions!Valid, P!Valid, Sessions!Of, P!Of,
        Sessions!Outstanding, P!Outstanding, Sessions!Twice, P!Twice,
        Sessions!NoDuplicateLaunch, P!NoDuplicateLaunch, Sessions!SavedOnce, P!SavedOnce,
        Sessions!LaunchesOnce, P!LaunchesOnce
<1>3. Sessions!SavesHold <=> P!SavesHold
  BY DEF Sessions!Workspaces, P!Workspaces, Sessions!Names, P!Names, Sessions!Idle, P!Idle,
        Sessions!Members, P!Members, Sessions!At, P!At, Sessions!SavesKeepProjects,
        P!SavesKeepProjects, Sessions!CaptureReal, P!CaptureReal, Sessions!ShownProject,
        P!ShownProject, Sessions!Shown, P!Shown, Sessions!Summary, P!Summary,
        Sessions!CurrentFollows, P!CurrentFollows, Sessions!SavesHold, P!SavesHold,
        Sessions!Cardinality, P!Cardinality, Sessions!IsFiniteSet, P!IsFiniteSet
<1> QED
  BY <1>1, <1>2, <1>3

LEMMA RunsStore == MCSpec => Spec
<1>1. [MCNext]_all => [Next]_vars
  BY DEF MCNext, all, sessions, vars
<1> QED
  BY <1>1, PTL DEF MCSpec, MCInit, Spec

LEMMA RunsSessions == MCSpec => P!Spec
<1>1. MCInit => P!Init
  BY StartsSame DEF MCInit
<1>2. [MCNext]_all => [P!Next]_(P!vars)
  <2>1. MCNext => P!Next \/ UNCHANGED sessions
    BY StepsSame DEF MCNext
  <2>2. UNCHANGED sessions => UNCHANGED P!vars
    BY DEF sessions, P!vars, P!source, P!records, P!history, P!bounds
  <2> QED
    BY <2>1, <2>2 DEF all
<1> QED
  BY <1>1, <1>2, PTL DEF MCSpec, P!Spec

(* In the run of both components, too, the sessions' state has its types   *)
(* and nothing is there twice: no launch that may still answer, no saved   *)
(* window and no saved workspace (restore.rs, capture.rs).                 *)
THEOREM RunLaunchesOnce == ASSUME P!Sensible PROVE MCSpec => []LaunchesOnce
<1>1. P!TypeOK /\ P!LaunchesOnce => LaunchesOnce
  BY PromisesSame DEF LaunchesOnce
<1>2. P!Spec => [](P!TypeOK /\ P!LaunchesOnce)
  BY P!SessionTypes, P!NothingTwice, PTL
<1> QED
  BY <1>1, <1>2, RunsSessions, PTL

(* And there a save is what was there and stays so, and "current" is the   *)
(* desktop at rest (capture.rs, watch.rs, store.rs of the sessions).       *)
THEOREM RunSavesHold == ASSUME P!Sensible PROVE MCSpec => []SavesHold
<1>1. P!SavesHold => SavesHold
  BY PromisesSame DEF SavesHold
<1> QED
  BY <1>1, P!SavesStand, RunsSessions, PTL

(* And there "last" is replaced only by a save of that name or under an    *)
(* epoch that was claimed, and a restore that says it is complete has      *)
(* given every saved window its link (capture.rs, restore.rs).             *)
THEOREM RunRestoresHonest == ASSUME P!Sensible PROVE MCSpec => RestoresHonest
<1>1. UNCHANGED P!vars => UNCHANGED Sessions!vars
  BY DEF P!vars, P!source, P!records, P!history, P!bounds, Sessions!vars, Sessions!source,
         Sessions!records, Sessions!history, Sessions!bounds
<1>2. P!Idle = Sessions!Idle
  BY DEF P!Idle, Sessions!Idle
<1>3. [store'["last"] # store["last"] => op.name = "last" \/ op.epoch \in claimed]_(P!vars)
        => [store'["last"] # store["last"] =>
                op.name = "last" \/ op.epoch \in claimed]_(Sessions!vars)
  BY <1>1
<1>4. [op.kind = "restore" /\ op' = P!Idle /\ report' = "completed" =>
        \A d \in op.session : \A s \in d.windows :
            \E x \in 1..MaxOpened : anchors[x] = [id |-> s, epoch |-> epoch]]_(P!vars)
      => [op.kind = "restore" /\ op' = Sessions!Idle /\ report' = "completed" =>
            \A d \in op.session : \A s \in d.windows :
                \E x \in 1..MaxOpened : anchors[x] = [id |-> s, epoch |-> epoch]]_(Sessions!vars)
  BY <1>1, <1>2
<1>5. P!LastProtected => Sessions!LastProtected
  BY <1>3, PTL DEF P!LastProtected, Sessions!LastProtected
<1>6. P!CompletedIsComplete => Sessions!CompletedIsComplete
  BY <1>4, PTL DEF P!CompletedIsComplete, Sessions!CompletedIsComplete
<1> QED
  BY <1>5, <1>6, P!LastStands, P!CompletedAreComplete, RunsSessions, PTL DEF RestoresHonest
=============================================================================
