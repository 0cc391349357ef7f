---------------------------- MODULE RelationStore ----------------------------
(***************************************************************************)
(* The locus daemon's store with its file (locus/src/store.rs).            *)
(*                                                                         *)
(* A call computes the records it wants to have, writes the durable ones   *)
(* to relations.json when that part changed, and only then replaces the    *)
(* records in memory.  The write is a sequence of system calls, any of     *)
(* which may fail; the process may die or the machine lose power between   *)
(* any two of them.                                                        *)
(*                                                                         *)
(* crashable is the set of contents relations.json may have after a power  *)
(* loss: a rename whose directory has not been synced may or may not have  *)
(* reached the disk, and a file renamed into place before its data was     *)
(* synced may be Garbage.                                                  *)
(***************************************************************************)
EXTENDS Relations, Naturals

CONSTANTS
    Garbage,        \* a file that does not parse
    MaxUnsynced     \* bound: contents a power loss may choose between

ASSUME GarbageAssumption == \A R \in SUBSET Record : Garbage # R

VARIABLES
    records,    \* the records in memory
    disk,       \* what relations.json reads as
    tmp,        \* the temporary file of the write in hand; create truncates a
                \* stale one, so that one is not kept
    crashable,  \* what relations.json may read as after a power loss
    pc,         \* where the call in hand (or open) is
    next,       \* the records the call in hand wants
    opening,    \* the write in hand belongs to open(), not to a call
    enables,    \* the key the call in hand asks to be durable, if any
    promised,   \* the key the last acknowledged call made durable, if any
    unsynced    \* relations.json was renamed and the directory not synced since

vars == <<records, disk, tmp, crashable, pc, next, opening, enables, promised, unsynced>>
file == <<disk, tmp, crashable, unsynced>>

NoTmp == [data |-> {}, synced |-> FALSE]

\* The daemon has not started; the file may be one that another version
\* wrote, with records marked as not persistent.
Init ==
    /\ disk \in {R \in SUBSET Record : OnePerKey(R)}
    /\ crashable = {disk}
    /\ records = {} /\ next = {} /\ tmp = NoTmp
    /\ pc = "down"
    /\ opening = FALSE /\ unsynced = FALSE
    /\ enables = {} /\ promised = {}

-----------------------------------------------------------------------------
(* open(): load the snapshot, drop what is not durable, and rewrite the    *)
(* file if anything was dropped.                                           *)

OpenClean ==
    /\ pc = "down" /\ disk # Garbage
    /\ Persistent(disk) = disk
    /\ records' = disk
    /\ pc' = "idle"
    /\ UNCHANGED <<file, next, opening, enables, promised>>

OpenRewrite ==
    /\ pc = "down" /\ disk # Garbage
    /\ Persistent(disk) # disk
    /\ next' = Persistent(disk)
    /\ opening' = TRUE
    /\ pc' = "create"
    /\ UNCHANGED <<records, file, enables, promised>>

-----------------------------------------------------------------------------
(* The calls.  Submit is persist_changed_records: no write when the durable *)
(* part in memory is already the one wanted.                               *)

\* Slip: a write only when something durable was added or changed.
SubmitAdditions(wanted, durable) ==
    IF Persistent(wanted) \subseteq Persistent(records)
    THEN /\ records' = wanted
         /\ promised' = durable
         /\ UNCHANGED <<file, pc, next, opening, enables>>
    ELSE /\ next' = wanted
         /\ enables' = durable
         /\ promised' = {}
         /\ pc' = "create"
         /\ UNCHANGED <<records, file, opening>>

Submit(wanted, durable) ==
    IF Persistent(wanted) = Persistent(records)
    THEN /\ records' = wanted
         /\ promised' = durable
         /\ UNCHANGED <<file, pc, next, opening, enables>>
    ELSE /\ next' = wanted
         /\ enables' = durable
         /\ promised' = {}
         /\ pc' = "create"
         /\ UNCHANGED <<records, file, opening>>

Asked(s, r, t, p) ==
    IF p = TRUE THEN {[subject |-> s, relation |-> r, target |-> t]} ELSE {}

Set(s, r, t, m, p) ==
    /\ pc = "idle"
    /\ Submit(SetIn(records, s, r, t, m, p), Asked(s, r, t, p))

SetOne(s, r, t, m, p) ==
    /\ pc = "idle"
    /\ Submit(SetOneIn(records, s, r, t, m, p), Asked(s, r, t, p))

Unset(s, r, t) ==
    /\ pc = "idle"
    /\ At(records, s, r, t) # {}
    /\ Submit(records \ At(records, s, r, t), {})

Clear(s, r) ==
    /\ pc = "idle"
    /\ Under(records, s, r) # {}
    /\ Submit(records \ Under(records, s, r), {})

ClearSubject(s) ==
    /\ pc = "idle"
    /\ Of(records, s) # {}
    /\ Submit(records \ Of(records, s), {})

SetPersistence(s, r, t, b) ==
    /\ pc = "idle"
    /\ At(records, s, r, t) # {}
    /\ Submit(WithPersist(records, s, r, t, b), Asked(s, r, t, b))

-----------------------------------------------------------------------------
(* persist_records: create and fill the temporary file, sync it, rename it *)
(* over relations.json, sync the directory.                                *)

\* Slip: relations.json is written in place.
WriteInPlace ==
    /\ pc = "create"
    /\ tmp' = [data |-> Persistent(next), synced |-> FALSE]
    /\ disk' = Persistent(next) /\ crashable' = crashable \cup {Persistent(next)}
    /\ pc' = "written"
    /\ UNCHANGED <<records, unsynced, next, opening, enables, promised>>

WriteTmp ==
    /\ pc = "create"
    /\ tmp' = [data |-> Persistent(next), synced |-> FALSE]
    /\ pc' = "written"
    /\ UNCHANGED <<records, disk, crashable, unsynced, next, opening, enables, promised>>

\* Slip: the temporary file is not synced.
SyncTmpSkipped ==
    /\ pc = "written"
    /\ pc' = "synced"
    /\ UNCHANGED <<records, file, next, opening, enables, promised>>

SyncTmp ==
    /\ pc = "written"
    /\ tmp' = [tmp EXCEPT !.synced = TRUE]
    /\ pc' = "synced"
    /\ UNCHANGED <<records, disk, crashable, unsynced, next, opening, enables, promised>>

Rename ==
    /\ pc = "synced"
    /\ disk' = tmp.data
    /\ crashable' = crashable \cup {IF tmp.synced THEN tmp.data ELSE Garbage}
    /\ Cardinality(crashable') <= MaxUnsynced
    /\ tmp' = NoTmp
    /\ unsynced' = TRUE
    /\ pc' = "renamed"
    /\ UNCHANGED <<records, next, opening, enables, promised>>

\* Slip: the directory is not synced.
SyncDirSkipped ==
    /\ pc = "renamed"
    /\ records' = next
    /\ promised' = enables
    /\ pc' = "idle"
    /\ unsynced' = FALSE
    /\ next' = {} /\ opening' = FALSE /\ enables' = {}
    /\ UNCHANGED <<disk, tmp, crashable>>

\* The directory is synced: the call is acknowledged and memory follows.
SyncDir ==
    /\ pc = "renamed"
    /\ crashable' = {disk}
    /\ records' = next
    /\ promised' = enables
    /\ pc' = "idle"
    /\ unsynced' = FALSE
    /\ next' = {} /\ opening' = FALSE /\ enables' = {}
    /\ UNCHANGED <<disk, tmp>>

\* A system call fails: the call returns the error and memory keeps the old
\* records.  A failed open() ends the process instead.
Fail ==
    /\ pc \in {"create", "written", "synced", "renamed"}
    /\ pc' = IF opening THEN "down" ELSE "idle"
    /\ tmp' = NoTmp
    /\ next' = {} /\ opening' = FALSE /\ enables' = {}
    /\ UNCHANGED <<records, disk, crashable, unsynced, promised>>

-----------------------------------------------------------------------------
(* The process dies, or the machine loses power.                           *)

Stopped ==
    /\ pc' = "down"
    /\ records' = {} /\ next' = {} /\ opening' = FALSE
    /\ enables' = {} /\ promised' = {} /\ tmp' = NoTmp

Crash ==
    /\ pc # "down"
    /\ Stopped
    /\ UNCHANGED <<disk, crashable, unsynced>>

PowerLoss ==
    /\ Stopped
    /\ disk' \in crashable
    /\ crashable' = {disk'}
    /\ unsynced' = FALSE

-----------------------------------------------------------------------------

Call ==
    \E s \in Subjects, r \in RelNames :
        \/ Clear(s, r)
        \/ ClearSubject(s)
        \/ \E t \in Targets :
            \/ Unset(s, r, t)
            \/ \E b \in BOOLEAN : SetPersistence(s, r, t, b)
            \/ \E m \in Metadata, p \in Policy :
                \/ Set(s, r, t, m, p)
                \/ SetOne(s, r, t, m, p)

Next ==
    \/ OpenClean \/ OpenRewrite
    \/ Call
    \/ WriteTmp \/ SyncTmp \/ Rename \/ SyncDir \/ Fail
    \/ Crash \/ PowerLoss

Spec == Init /\ [][Next]_vars

-----------------------------------------------------------------------------
(* Properties.                                                             *)

\* Every variable has its type: memory holds records, the file is a snapshot
\* or garbage (store.rs StoredRecord, RelationStore).
TypeOK ==
    /\ records \subseteq Record /\ next \subseteq Record
    /\ \A c \in crashable \cup {disk} : c = Garbage \/ c \subseteq Record
    /\ tmp \in [data : SUBSET Record, synced : BOOLEAN]
    /\ pc \in {"down", "idle", "create", "written", "synced", "renamed"}
    /\ opening \in BOOLEAN /\ unsynced \in BOOLEAN
    /\ enables \subseteq Key /\ promised \subseteq Key

\* At most one record per subject, relation and target, in memory and in every
\* snapshot a restart may load, so that "the" record a call finds is unique.
SingleRecord ==
    /\ OnePerKey(records)
    /\ \A c \in crashable \cup {disk} : c # Garbage => OnePerKey(c)

\* No crash or power loss, at any step of a write, leaves a file that open()
\* cannot parse and the daemon cannot start from (sync_all before rename).
AlwaysLoadable == disk # Garbage /\ Garbage \notin crashable

\* Between calls, unless a directory sync failed or was cut short, the file and
\* all a power loss can leave of it are exactly the durable records in memory.
FileMatchesMemory ==
    pc = "idle" /\ ~unsynced =>
        disk = Persistent(records) /\ crashable = {Persistent(records)}

\* While a call writes, a power loss leaves the durable records from before the
\* call or those from after it, never a mixture (one rename per call).
AllOrNothing ==
    LET Before == IF opening THEN disk ELSE Persistent(records)
    IN  /\ pc \in {"create", "written", "synced"} /\ ~unsynced =>
                crashable = {Before}
        /\ pc = "renamed" => Persistent(next) \in crashable /\ disk = Persistent(next)

\* Memory never shows what the file does not hold: the step that changes the
\* durable records in memory ends with exactly those on disk.
MemoryFollowsFile ==
    [][Persistent(records') # Persistent(records) /\ pc' = "idle"
        => /\ disk' = Persistent(records')
           /\ (pc # "down" => crashable' = {disk'})]_vars

\* The legacy calls never turn a record durable: a record becomes durable in
\* memory only by a call that asked for it or by loading it at start.
OnlyOnRequest ==
    [][\A x \in Persistent(records') :
        \/ \E y \in Persistent(records) : KeyOf(y) = KeyOf(x)
        \/ KeyOf(x) \in promised'
        \/ pc = "down" \/ opening]_vars

\* README: "Enabling persistence writes and fsyncs the snapshot before
\* acknowledging": what the last acknowledged call made durable survives.
EnablingIsDurable ==
    pc = "idle" => \A k \in promised : \A c \in crashable :
                        c # Garbage /\ \E x \in c : KeyOf(x) = k

\* The inductive invariant: the safety invariants above, and where each step
\* of a write leaves the temporary file, the wanted records and the disk.
WriteInHand ==
    /\ disk \in crashable
    /\ ~unsynced => crashable = {disk}
    /\ OnePerKey(next)
    /\ pc \in {"written", "synced"} => tmp.data = Persistent(next)
    /\ pc = "synced" => tmp.synced
    /\ pc = "renamed" => unsynced
    /\ pc \in {"down", "idle"} => ~opening
    /\ pc = "down" => records = {}
    /\ opening => records = {} /\ next = Persistent(next)
    /\ opening /\ pc # "renamed" => next = Persistent(disk)
    /\ pc \in {"create", "written", "synced"} /\ ~unsynced /\ ~opening =>
            disk = Persistent(records)

IInv ==
    /\ TypeOK /\ SingleRecord /\ AlwaysLoadable
    /\ FileMatchesMemory /\ AllOrNothing /\ WriteInHand

\* The store implements the promise made without files: what a power loss may
\* leave is what a restart may find.
Durable == INSTANCE DurableRelations WITH
    live <- records,
    saved <- {Persistent(c) : c \in crashable},
    serving <- pc # "down" /\ ~opening

KeepsItsPromise == Durable!Spec
=============================================================================
