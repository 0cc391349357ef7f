------------------------------- MODULE ListDiff -------------------------------
(***************************************************************************)
(* Incremental list updates (shell-source list_diff.rs): the edits that    *)
(* turn one list into another, by equality of the items or by a key of     *)
(* theirs, and their application.  Positions count from 1 here.            *)
(***************************************************************************)
EXTENDS Integers, Sequences, SequencesExt, FiniteSets

Unmatched == 0
Positions(list) == [i \in DOMAIN list |-> i]
PositionOf(x, list) == SelectInSeq(list, LAMBDA y : y = x)
Distance(i, j) == IF i < j THEN j - i ELSE i - j

(* diff_slices: items that stay in place first, then each of the others    *)
(* with the nearest equal item that is left, the lower of two.             *)
Nearest(free, j) ==
    IF free = {} THEN Unmatched
    ELSE CHOOSE i \in free :
            \A k \in free : Distance(i, j) < Distance(k, j)
                            \/ (Distance(i, j) = Distance(k, j) /\ i <= k)

\* Slip: an equal item is only looked for at its place and further on.
MatchEqualInOrder(previous, next) ==
    LET match(m, j) ==
            Append(m, Nearest({i \in DOMAIN previous :
                previous[i] = next[j] /\ i >= j /\ \A k \in DOMAIN m : m[k] # i}, j))
    IN  FoldLeft(match, <<>>, Positions(next))

MatchEqual(previous, next) ==
    LET stays == {i \in DOMAIN previous \cap DOMAIN next : previous[i] = next[i]}
        match(m, j) ==
            IF j \in stays THEN m
            ELSE [m EXCEPT ![j] = Nearest({i \in DOMAIN previous :
                    previous[i] = next[j] /\ \A k \in DOMAIN m : m[k] # i}, j)]
    IN  FoldLeft(match, [j \in DOMAIN next |-> IF j \in stays THEN j ELSE Unmatched],
                 Positions(next))

(* diff_slices_by_key: the first item with the key that is left.           *)
MatchKeys(previous, next, key) ==
    LET match(m, j) ==
            LET free == {i \in DOMAIN previous :
                            key[previous[i]] = key[next[j]] /\ \A k \in DOMAIN m : m[k] # i}
            IN  Append(m, IF free = {} THEN Unmatched
                          ELSE CHOOSE i \in free : \A k \in free : i <= k)
    IN  FoldLeft(match, <<>>, Positions(next))

Removal(i) == [do |-> "remove", at |-> i]
Insertion(i, item) == [do |-> "insert", at |-> i, item |-> item]
Movement(i, j) == [do |-> "move", from |-> i, at |-> j]

(* The unmatched are removed, the last one first, so that each stands      *)
(* where it stood; then each position gets what belongs there.             *)
Edits(previous, next, matched) ==
    LET gone == SelectSeq(Reverse(Positions(previous)),
                          LAMBDA i : \A j \in DOMAIN matched : matched[j] # i)
        kept == SelectSeq(Positions(previous),
                          LAMBDA i : \E j \in DOMAIN matched : matched[j] = i)
        place(s, j) ==
            LET at == PositionOf(matched[j], s.list)
            IN  IF matched[j] = Unmatched
                THEN [list |-> InsertAt(s.list, j, Unmatched),
                      edits |-> Append(s.edits, Insertion(j, next[j]))]
                ELSE IF at = j THEN s
                ELSE [list |-> InsertAt(RemoveAt(s.list, at), j, matched[j]),
                      edits |-> Append(s.edits, Movement(at, j))]
        placed == FoldLeft(place, [list |-> kept, edits |-> <<>>], Positions(next))
    IN  [n \in DOMAIN gone |-> Removal(gone[n])] \o placed.edits

Diff(previous, next) == Edits(previous, next, MatchEqual(previous, next))
DiffByKey(previous, next, key) == Edits(previous, next, MatchKeys(previous, next, key))

(* ListDiff::apply: positions are those just before each edit, and beyond  *)
(* the end mean the end.                                                   *)
Within(i, list) == IF i <= Len(list) THEN i ELSE Len(list) + 1
Put(list, i, x) == InsertAt(list, Within(i, list), x)
ApplyEdit(list, edit) ==
    CASE edit.do = "insert" -> Put(list, edit.at, edit.item)
      [] edit.do = "remove" -> IF edit.at \in DOMAIN list THEN RemoveAt(list, edit.at) ELSE list
      [] edit.do = "move" ->
            IF edit.from \in DOMAIN list
            THEN Put(RemoveAt(list, edit.from), edit.at, list[edit.from]) ELSE list

ApplyDiff(list, edits) == FoldLeft(ApplyEdit, list, edits)
=============================================================================
