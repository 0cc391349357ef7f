------------------------------ MODULE Relations ------------------------------
(***************************************************************************)
(* The records of the locus relation store and the pure part of its        *)
(* mutations (locus/src/store.rs).  A record is identified by its subject, *)
(* relation and target; metadata and the persistence flag are its payload. *)
(* The code keeps a Vec and searches it; no caller sees the order (every   *)
(* query sorts), so a set stands for it.  The two timestamps are left out: *)
(* they are written exactly when the payload changes and nothing reads     *)
(* them here.                                                              *)
(***************************************************************************)
EXTENDS FiniteSets

CONSTANTS
    Subjects,   \* endpoints used as subjects
    RelNames,   \* relation names
    Targets,    \* endpoints used as targets
    Metadata,   \* metadata maps
    Keep        \* the absent persistence argument of the legacy calls

ASSUME KeepAssumption == Keep \notin BOOLEAN

Policy == BOOLEAN \cup {Keep}

Key == [subject : Subjects, relation : RelNames, target : Targets]

Record == [subject : Subjects, relation : RelNames, target : Targets,
           metadata : Metadata, persist : BOOLEAN]

\* The records of R with that subject, relation and target.
At(R, s, r, t) ==
    {x \in R : x.subject = s /\ x.relation = r /\ x.target = t}

KeyOf(x) == [subject |-> x.subject, relation |-> x.relation, target |-> x.target]

Of(R, s) == {x \in R : x.subject = s}

Under(R, s, r) == {x \in R : x.subject = s /\ x.relation = r}

\* The part of R that belongs in the snapshot on disk.
Persistent(R) == {x \in R : x.persist}

\* A record updated in place: an absent argument keeps the flag it had.
Updated(x, m, p) ==
    [x EXCEPT !.metadata = m, !.persist = IF p = Keep THEN x.persist ELSE p]

\* Slip: durable by default, as files from before the flag are read.
FreshDurable(s, r, t, m, p) ==
    [subject |-> s, relation |-> r, target |-> t,
     metadata |-> m, persist |-> IF p = Keep THEN TRUE ELSE p]

\* A record set for the first time is session-only unless asked otherwise.
Fresh(s, r, t, m, p) ==
    [subject |-> s, relation |-> r, target |-> t,
     metadata |-> m, persist |-> IF p = Keep THEN FALSE ELSE p]

\* Slip: the update of an existing record is forgotten.
SetInAppending(R, s, r, t, m, p) == R \cup {Fresh(s, r, t, m, p)}

SetIn(R, s, r, t, m, p) ==
    LET old == At(R, s, r, t)
    IN  IF old = {}
        THEN R \cup {Fresh(s, r, t, m, p)}
        ELSE (R \ old) \cup {Updated(x, m, p) : x \in old}

\* What SetOne throws away: the subject's other targets for the relation.
Displaced(R, s, r, t) == {x \in Under(R, s, r) : x.target # t}

SetOneIn(R, s, r, t, m, p) == SetIn(R \ Displaced(R, s, r, t), s, r, t, m, p)

WithPersist(R, s, r, t, b) ==
    LET old == At(R, s, r, t)
    IN  (R \ old) \cup {[x EXCEPT !.persist = b] : x \in old}

OnePerKey(R) == \A x, y \in R : KeyOf(x) = KeyOf(y) => x = y
=============================================================================
