--------------------------- MODULE DurableRelations ---------------------------
(***************************************************************************)
(* What the locus store promises its callers, without files: a set of live *)
(* records, and the snapshots a restart may find.  An acknowledged change  *)
(* of the durable records is the only thing a restart can find; a refused  *)
(* one leaves the live records alone and may or may not have been saved;   *)
(* a restart serves one of the saved snapshots, whole.                     *)
(***************************************************************************)
EXTENDS Relations

VARIABLES
    live,       \* the records callers see
    saved,      \* the snapshots a restart may load
    serving     \* calls are answered

vars == <<live, saved, serving>>

Snapshots == {S \in SUBSET Record : Persistent(S) = S}

Init ==
    /\ live = {} /\ ~serving
    /\ \E S \in Snapshots : saved = {S}

\* The service starts from a snapshot, which it may have to rewrite.
Start ==
    /\ ~serving /\ serving'
    /\ live' \in saved
    /\ saved' \in {saved, {live'}}

\* A change of session-only records touches nothing that is saved.
ChangeSession ==
    /\ serving /\ serving'
    /\ live' \in SUBSET Record
    /\ Persistent(live') = Persistent(live)
    /\ UNCHANGED saved

\* A change of durable records is acknowledged with its snapshot saved.
ChangeDurable ==
    /\ serving /\ serving'
    /\ live' \in SUBSET Record
    /\ saved' = {Persistent(live')}

\* A write under way, or refused: its snapshot may be what a restart finds.
Attempt ==
    /\ UNCHANGED <<live, serving>>
    /\ \E S \in Snapshots : saved' = saved \cup {S}

\* The service stops; a power loss settles which snapshot is left.
Stop ==
    /\ ~serving' /\ live' = {}
    /\ saved' \in {saved} \cup {{S} : S \in saved}

Next == Start \/ ChangeSession \/ ChangeDurable \/ Attempt \/ Stop

Spec == Init /\ [][Next]_vars
=============================================================================
