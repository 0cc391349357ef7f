---------------------------- MODULE ComponentList ----------------------------
(***************************************************************************)
(* A list of row components in a GTK box (shell-core list/box_container):  *)
(* each update is reconciled with the rows that exist, so that rows, which *)
(* have a state and subscriptions of their own, are kept and only moved.   *)
(* A row's identity is a number no row has at the time (next_row_id counts *)
(* on for ever; no one compares a row with one that is gone).              *)
(***************************************************************************)
EXTENDS ListDiff, FiniteSetsExt

CONSTANTS
    Items,      \* items of the list
    KeyOf,      \* the key of each
    MaxLength,  \* bound: length of the list
    MaxUpdates  \* bound: updates; two reach every pair of lists

VARIABLES
    rows,       \* the host's rows: identity and item
    children,   \* the box's children: identities of rows, in order
    wanted,     \* the items given last and whether they were compared by key
    updates     \* updates so far

vars == <<rows, children, wanted, updates>>

Shown(list) == [i \in DOMAIN list |-> list[i].item]
IdsOf(list) == [i \in DOMAIN list |-> list[i].id]
Lists == SeqOf(Items, MaxLength)
RowIds == 1..(2 * MaxLength)

Init ==
    /\ rows = <<>> /\ children = <<>>
    /\ wanted = [items |-> <<>>, keyed |-> FALSE]
    /\ updates = 0

(* apply_diff: an inserted item becomes a row of its own, a moved row is   *)
(* still that row.  A removed row leaves the box.                          *)
Launch(edits) ==
    LET fresh(used, n) == Min(RowIds \ (used \cup ToSet(IdsOf(rows))))
        launch(s, n) ==
            IF edits[n].do # "insert" THEN [s EXCEPT !.edits = Append(@, edits[n])]
            ELSE LET id == fresh(s.used, n)
                 IN  [used |-> s.used \cup {id},
                      edits |-> Append(s.edits,
                        [edits[n] EXCEPT !.item = [id |-> id, item |-> edits[n].item]])]
    IN  FoldLeft(launch, [used |-> {}, edits |-> <<>>], Positions(edits)).edits

(* reconcile_widget_order: a row without a parent is appended, and each    *)
(* row that does not follow the row before it is moved behind that one.    *)
Arrange(box, ids) ==
    LET place(kids, i) ==
            LET all == IF ids[i] \in ToSet(kids) THEN kids ELSE Append(kids, ids[i])
                at == PositionOf(ids[i], all)
                before == IF at = 1 THEN Unmatched ELSE all[at - 1]
                previous == IF i = 1 THEN Unmatched ELSE ids[i - 1]
                others == RemoveAt(all, at)
            IN  IF before = previous THEN all
                ELSE InsertAt(others, IF i = 1 THEN 1 ELSE PositionOf(previous, others) + 1,
                              ids[i])
    IN  FoldLeft(place, box, Positions(ids))

ApplyToRows(edits) ==
    /\ rows' = ApplyDiff(rows, Launch(edits))
    /\ children' = Arrange(SelectSeq(children, LAMBDA id : id \in ToSet(IdsOf(rows'))), IdsOf(rows'))

Update == updates < MaxUpdates /\ updates' = updates + 1

SetComponentList(items) ==
    /\ Update
    /\ wanted' = [items |-> items, keyed |-> FALSE]
    /\ IF Shown(rows) = items THEN UNCHANGED <<rows, children>>
       ELSE ApplyToRows(Diff(Shown(rows), items))

SetComponentListByKey(items) ==
    /\ Update
    /\ wanted' = [items |-> items, keyed |-> TRUE]
    /\ ApplyToRows(DiffByKey(Shown(rows), items, KeyOf))

Next == \E items \in Lists : SetComponentList(items) \/ SetComponentListByKey(items)

Spec == Init /\ [][Next]_vars

-----------------------------------------------------------------------------
Names(list) == IF wanted.keyed THEN [i \in DOMAIN list |-> KeyOf[list[i]]] ELSE list

(* Every variable has its type.                                            *)
TypeOK ==
    /\ Shown(rows) \in Lists /\ wanted.items \in Lists
    /\ \A i \in DOMAIN rows : rows[i].id \in RowIds
    /\ \A i, j \in DOMAIN rows : i # j => rows[i].id # rows[j].id

(* The rows are those asked for, in that order, with items and keys that   *)
(* occur more than once, whatever the rows were before (diff_slices,       *)
(* diff_slices_by_key, apply), and so are the widgets on the screen.       *)
RowsShown == Names(Shown(rows)) = Names(wanted.items) /\ children = IdsOf(rows)

(* No row is built again that could be kept: as many rows survive as there *)
(* are items, or keys, common to the old list and the new ("equal items    *)
(* are retained by identity, including across reorders").                  *)
KeepsRows ==
    LET name(item) == IF wanted'.keyed THEN KeyOf[item] ELSE item
        named(list, n) == {list[i].id : i \in {k \in DOMAIN list : name(list[k].item) = n}}
    IN  \A n \in Items \cup {KeyOf[x] : x \in Items} :
            LET old == named(rows, n)
                new == named(rows', n)
            IN  Cardinality(old \cap new) = Min({Cardinality(old), Cardinality(new)})
RowsKept == [][KeepsRows]_vars
=============================================================================
