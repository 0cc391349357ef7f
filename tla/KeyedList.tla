------------------------------ MODULE KeyedList ------------------------------
(***************************************************************************)
(* keyed_list (shell-source keyed_list.rs): a list of items, each with a   *)
(* source of its own, shown as the list of their values.  One task per key *)
(* follows the item's source and sends what it gives to the loop, which    *)
(* keeps the values and tells the difference to the consumer.              *)
(*                                                                         *)
(* Aborting a task takes effect where it waits: one that has a value or an *)
(* error in hand still sends it.  Events name the key alone.               *)
(***************************************************************************)
EXTENDS ListDiff

CONSTANTS
    Items,      \* items of the outer list
    KeyOf,      \* the key of each
    Values,     \* values of the sources
    MaxLength,  \* bound: length of the outer list
    MaxChanges  \* bound: lists, changes of a source, failures of one

VARIABLES
    value,          \* value of each item's source
    outer,          \* lists the loop has not taken
    items,          \* history: the list taken last
    tasks,          \* tasks made, in order
    events,         \* the channel to the loop
    subscriptions,  \* the item and the task of each key
    values,         \* the last value of keys that gave one
    order,          \* keys in the order of the list
    previous,       \* the values emitted last
    shown,          \* the consumer's list
    changes,        \* changes so far
    failed,         \* history: keys whose source has failed since it was subscribed
    stale           \* history: an event of an earlier source of a key did harm

loop == <<subscriptions, values, order, previous, shown>>
vars == <<value, outer, items, tasks, events, loop, changes, failed, stale>>

Empty == << >>
Keys == {KeyOf[i] : i \in Items}
Lists == SeqOf(Items, MaxLength)
Restricted(f, S) == [x \in DOMAIN f \cap S |-> f[x]]
With(f, k, v) == [x \in DOMAIN f \cup {k} |-> IF x = k THEN v ELSE f[x]]

Init ==
    /\ value \in [Items -> Values]
    /\ outer = <<>> /\ items = <<>> /\ tasks = <<>> /\ events = <<>>
    /\ subscriptions = Empty /\ values = Empty /\ order = <<>> /\ previous = <<>>
    /\ shown = <<>>
    /\ changes = 0 /\ failed = {} /\ stale = FALSE

Spend == changes < MaxChanges /\ changes' = changes + 1

Relist(list) ==
    /\ Spend
    /\ outer' = Append(outer, list)
    /\ UNCHANGED <<value, items, tasks, events, loop, failed, stale>>

SetValue(i, v) ==
    /\ Spend
    /\ v # value[i]
    /\ value' = [value EXCEPT ![i] = v]
    /\ UNCHANGED <<outer, items, tasks, events, loop, failed, stale>>

-----------------------------------------------------------------------------
(* subscribe_value: an item's task.                                        *)

Current(t) ==
    LET k == KeyOf[tasks[t].item] IN k \in DOMAIN subscriptions /\ subscriptions[k].task = t
Waiting(t) == tasks[t].at = "wait" /\ ~tasks[t].aborted

Fetch(t) ==
    /\ Waiting(t) /\ tasks[t].read # <<value[tasks[t].item]>>
    /\ tasks' = [tasks EXCEPT ![t].at = "value", ![t].read = <<value[tasks[t].item]>>]
    /\ UNCHANGED <<value, outer, items, events, loop, changes, failed, stale>>

Fault(t) ==
    /\ Spend
    /\ Waiting(t)
    /\ tasks' = [tasks EXCEPT ![t].at = "error"]
    /\ failed' = failed \cup {KeyOf[tasks[t].item]}
    /\ UNCHANGED <<value, outer, items, events, loop, stale>>

Send(t) ==
    /\ tasks[t].at \in {"value", "error"}
    /\ events' = Append(events, [key |-> KeyOf[tasks[t].item], task |-> t,
                    value |-> IF tasks[t].at = "value" THEN tasks[t].read ELSE <<>>])
    /\ tasks' = [tasks EXCEPT ![t].at = IF tasks[t].at = "value" THEN "wait" ELSE "done"]
    /\ UNCHANGED <<value, outer, items, loop, changes, failed, stale>>

-----------------------------------------------------------------------------
(* The loop (run_keyed_list).                                              *)

\* Slip: what was emitted is not kept.
EmitForgetful(ord, vals) ==
    LET next == [n \in DOMAIN SelectSeq(ord, LAMBDA k : k \in DOMAIN vals) |->
                    vals[SelectSeq(ord, LAMBDA k : k \in DOMAIN vals)[n]]]
    IN  shown' = ApplyDiff(shown, Diff(previous, next)) /\ UNCHANGED previous

Emit(ord, vals) ==
    LET next == [n \in DOMAIN SelectSeq(ord, LAMBDA k : k \in DOMAIN vals) |->
                    vals[SelectSeq(ord, LAMBDA k : k \in DOMAIN vals)[n]]]
    IN  /\ previous' = next
        /\ shown' = IF next = previous THEN shown ELSE ApplyDiff(shown, Diff(previous, next))

FirstOfKey(list) ==
    LET first(n) == \A m \in 1..(n - 1) : KeyOf[list[m]] # KeyOf[list[n]]
        picked == SelectSeq(Positions(list), first)
    IN  [n \in DOMAIN picked |-> list[picked[n]]]

(* An item that is new or differs from the one its key had gets a source   *)
(* of its own, and the value of the key is forgotten; keys that are not    *)
(* listed any more are dropped.                                            *)
TakeList ==
    /\ outer # <<>> /\ outer' = Tail(outer)
    /\ items' = Head(outer)
    /\ LET list == FirstOfKey(Head(outer))
           keys == {KeyOf[list[n]] : n \in DOMAIN list}
           fresh == SelectSeq(list, LAMBDA i :
                        ~(KeyOf[i] \in DOMAIN subscriptions /\ subscriptions[KeyOf[i]].item = i))
           renewed == {KeyOf[fresh[n]] : n \in DOMAIN fresh}
           added == [n \in DOMAIN fresh |->
                        [item |-> fresh[n], at |-> "wait", read |-> <<>>, aborted |-> FALSE]]
       IN  /\ tasks' = [t \in DOMAIN tasks |->
                           IF Current(t) /\ KeyOf[tasks[t].item] \notin keys \ renewed
                           THEN [tasks[t] EXCEPT !.aborted = TRUE] ELSE tasks[t]] \o added
           /\ subscriptions' = [k \in keys |->
                 IF k \notin renewed THEN subscriptions[k]
                 ELSE LET n == CHOOSE n \in DOMAIN fresh : KeyOf[fresh[n]] = k
                      IN  [item |-> fresh[n], task |-> Len(tasks) + n]]
           /\ values' = Restricted(values, keys \ renewed)
           /\ order' = [n \in DOMAIN list |-> KeyOf[list[n]]]
           /\ Emit(order', values')
           /\ failed' = failed \cap (keys \ renewed)
    /\ UNCHANGED <<value, events, changes, stale>>

(* Events of keys that are not listed are dropped; an error ends the       *)
(* subscription of its key.                                                *)
Harmful(event) ==
    LET current == subscriptions[event.key].task
    IN  /\ event.task # current
        /\ \/ event.value = <<>>
           \/ /\ tasks[current].read # <<>> /\ tasks[current].at # "value"
              /\ \A n \in 2..Len(events) : events[n].task # current

TakeEvent ==
    /\ events # <<>> /\ events' = Tail(events)
    /\ LET event == Head(events)
           k == event.key
       IN  IF k \notin DOMAIN subscriptions THEN UNCHANGED <<loop, tasks, stale>>
           ELSE /\ stale' = (stale \/ Harmful(event))
                /\ IF event.value # <<>>
                   THEN /\ values' = With(values, k, event.value[1])
                        /\ UNCHANGED <<subscriptions, tasks>>
                   ELSE /\ subscriptions' = Restricted(subscriptions, Keys \ {k})
                        /\ tasks' = [tasks EXCEPT ![subscriptions[k].task].aborted = TRUE]
                        /\ values' = Restricted(values, Keys \ {k})
                /\ UNCHANGED order
                /\ Emit(order, values')
    /\ UNCHANGED <<value, outer, items, changes, failed>>

Next ==
    \/ \E list \in Lists : Relist(list)
    \/ \E i \in Items, v \in Values : SetValue(i, v)
    \/ \E t \in DOMAIN tasks : Fetch(t) \/ Fault(t) \/ Send(t)
    \/ TakeList \/ TakeEvent

Spec == Init /\ [][Next]_vars

-----------------------------------------------------------------------------
(* Every variable has its type.                                            *)
TypeOK ==
    /\ DOMAIN values \subseteq DOMAIN subscriptions /\ DOMAIN subscriptions \subseteq Keys
    /\ \A k \in DOMAIN subscriptions :
        KeyOf[subscriptions[k].item] = k /\ subscriptions[k].task \in DOMAIN tasks
    /\ order \in SeqOf(Keys, MaxLength) /\ previous \in SeqOf(Values, MaxLength)
    /\ items \in Lists /\ failed \subseteq Keys /\ changes \in 0..MaxChanges

Resting(t) ==
    \/ tasks[t].at = "done" \/ (tasks[t].at = "wait" /\ tasks[t].aborted)
    \/ Waiting(t) /\ tasks[t].read = <<value[tasks[t].item]>>
Quiet == outer = <<>> /\ events = <<>> /\ \A t \in DOMAIN tasks : Resting(t)

(* When nothing is on its way, the consumer's list has the value of every  *)
(* listed item's source, in the order of the list, but of sources that     *)
(* failed; whatever lists, values and failures crossed each other, unless  *)
(* an error of an item that was replaced by then took its successor's row  *)
(* away, or a value of it came after the successor's.                      *)
ValuesShown ==
    Quiet /\ ~stale =>
        LET alive == SelectSeq(FirstOfKey(items), LAMBDA i : KeyOf[i] \notin failed)
        IN  shown = [n \in DOMAIN alive |-> value[alive[n]]]

(* The sources that run are those of the listed items, one for each: no    *)
(* task is left behind (AbortOnDrop).                                      *)
NoStraySource ==
    Quiet => \A t \in DOMAIN tasks : Waiting(t) =>
                Current(t) /\ tasks[t].item \in {items[n] : n \in DOMAIN items}
=============================================================================
