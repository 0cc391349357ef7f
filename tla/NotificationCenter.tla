-------------------------- MODULE NotificationCenter --------------------------
(***************************************************************************)
(* The notifications of the shell (app/src/widgets/notifications): the bus *)
(* service that numbers them, the window with its popups and its center,   *)
(* the policy that decides what the center keeps, popups that expire, the  *)
(* lock state of the session and the HasItems property on the bus.         *)
(*                                                                         *)
(* Messages to the window are handled one at a time, in the order they     *)
(* were sent; timers, clients, the lock and the user send them in any      *)
(* order.  Of a notification the policy sees only its kind.                *)
(***************************************************************************)
EXTENDS Integers, Sequences, FiniteSets, SequencesExt

CONSTANTS
    Width,          \* ids are numbers below it
    Kinds,
    Rules,          \* of the policy: [keep, kinds, locked : sets]
    MaxUpdates,     \* the queue of HasItems
    MaxEvents       \* bound: calls of clients and of the user, locks

VARIABLES
    next,           \* the service's next id
    inbox,
    locked,         \* what the window knows of the session
    session,        \* whether it is locked
    watching,       \* whether the window hears of it: "starting", "on", "off"
    generation, popups, center, shown,
    timers,
    updates, hasItems,
    skipped,        \* history: the latest update of HasItems was dropped
    owed,           \* history: handled and not closed, cleared or replaced since
    events

window == <<locked, generation, popups, center, shown, owed>>
bus == <<updates, hasItems, skipped>>
vars == <<next, inbox, session, watching, window, timers, bus, events>>

Ids == 1..(Width - 1)
Spend == events < MaxEvents /\ events' = events + 1
Send(m) == inbox' = Append(inbox, m)

-----------------------------------------------------------------------------
(* The window.                                                             *)

MinOf(m, n) == IF m <= n THEN m ELSE n

\* The first rule that matches decides.
ShouldStore(n, lock) ==
    LET matching == SelectSeq(Rules, LAMBDA r : n.kind \in r.kinds /\ lock \in r.locked)
    IN  matching # <<>> /\ Head(matching).keep

\* Those of a list that are in a set, in their order (retain, find, filter).
Selected(list, chosen) ==
    LET first[i \in 0..Len(list)] ==
            IF i = 0 THEN <<>>
            ELSE IF list[i] \in chosen THEN Append(first[i - 1], list[i]) ELSE first[i - 1]
    IN  first[Len(list)]

Without(list, id) == Selected(list, {n \in ToSet(list) : n.id # id})
\* Slip: the new one is added only.
UpsertBeside(list, n) == <<n>> \o list
UpsertLatest(list, n) == <<n>> \o Without(list, n.id)

\* publish_has_items, as often as n: what does not fit into the queue is dropped.
Publish(list, n) ==
    LET sent == [i \in 1..n |-> list # <<>>]
    IN  /\ updates' = SubSeq(updates \o sent, 1, MinOf(MaxUpdates, Len(updates) + n))
        /\ skipped' = IF n = 0 THEN skipped ELSE Len(updates) + n > MaxUpdates

\* store_notification, for some in turn.
Store(list, lock) ==
    LET kept == Selected(list, {n \in ToSet(list) : ShouldStore(n, lock)})
        all[i \in 0..Len(kept)] == IF i = 0 THEN center ELSE UpsertLatest(all[i - 1], kept[i])
    IN  /\ center' = all[Len(kept)]
        /\ Publish(center', Len(kept))

\* apply_notification, and the timer of show_notification: what is kept leaves its
\* popup after a while even if it would never expire.
Show(request) ==
    LET n == [id |-> request.id, kind |-> request.kind, expires |-> request.expires,
              generation |-> generation + 1]
    IN  /\ generation' = generation + 1
        /\ owed' = {o \in owed : o.id # n.id} \cup {n}
        /\ IF locked
           THEN Store(<<n>>, TRUE) /\ UNCHANGED <<popups, timers>>
           ELSE /\ popups' = UpsertLatest(popups, n)
                /\ timers' = IF n.expires \/ ShouldStore(n, FALSE)
                             THEN timers \cup {[id |-> n.id, generation |-> n.generation]}
                             ELSE timers
                /\ UNCHANGED <<center, updates, skipped>>
        /\ UNCHANGED <<locked, shown>>

Close(id) ==
    /\ center' = Without(center, id) /\ popups' = Without(popups, id)
    /\ Publish(center', 1)
    /\ owed' = {o \in owed : o.id # id}
    /\ UNCHANGED <<locked, generation, shown, timers>>

IsOf(n, t) == n.id = t.id /\ n.generation = t.generation

\* expire_popup
ExpirePopup(t) ==
    /\ LET expired == {n \in ToSet(popups) : IsOf(n, t)}
       IN  /\ popups' = Selected(popups, ToSet(popups) \ expired)
           /\ Store(Selected(popups, expired), locked)
    /\ UNCHANGED <<locked, generation, shown, owed, timers>>

\* set_session_locked: popups go to the center, the oldest first.
SetLocked(l) ==
    /\ locked' = l
    /\ IF l /\ ~locked
       THEN Store(Reverse(popups), TRUE) /\ popups' = <<>>
       ELSE UNCHANGED <<center, popups, updates, skipped>>
    /\ UNCHANGED <<generation, shown, owed, timers>>

Clear ==
    /\ center' = <<>> /\ popups' = <<>> /\ owed' = {}
    /\ Publish(<<>>, 1)
    /\ UNCHANGED <<locked, generation, shown, timers>>

\* handle_request
Request(visible) ==
    /\ shown' = visible
    /\ UNCHANGED <<locked, generation, popups, center, owed, updates, skipped, timers>>

Handle ==
    /\ inbox # <<>> /\ inbox' = Tail(inbox)
    /\ LET m == Head(inbox)
       IN  \/ m.do = "show" /\ Show(m)
           \/ m.do = "close" /\ Close(m.id)
           \/ m.do = "expire" /\ ExpirePopup(m.timer)
           \/ m.do = "locked" /\ SetLocked(m.locked)
           \/ m.do = "clear" /\ Clear
           \/ m.do = "toggle" /\ Request(~shown)
           \/ m.do = "set" /\ Request(m.visible)
    /\ UNCHANGED <<next, session, watching, hasItems, events>>

-----------------------------------------------------------------------------
(* The service, the timers, the lock and the user.                         *)

AtLeastOne(n) == IF n = 0 THEN 1 ELSE n

\* A client may replace any id, one it was never given included.
Notify(replaces, kind, expires) ==
    /\ Spend
    /\ LET id == IF replaces = 0 THEN AtLeastOne(next) ELSE replaces
       IN  /\ Send([do |-> "show", id |-> id, kind |-> kind, expires |-> expires])
           /\ next' = IF replaces = 0 THEN AtLeastOne((id + 1) % Width) ELSE next
    /\ UNCHANGED <<session, watching, window, timers, bus>>

Sent(m) == Spend /\ Send(m) /\ UNCHANGED <<next, session, watching, window, timers, bus>>

CloseNotification == \E id \in Ids : Sent([do |-> "close", id |-> id])
ClearClicked == center # <<>> /\ shown /\ Sent([do |-> "clear"])
Requested == Sent([do |-> "toggle"])
             \/ \E visible \in BOOLEAN : Sent([do |-> "set", visible |-> visible])

Expire(t) ==
    /\ timers' = timers \ {t}
    /\ Send([do |-> "expire", timer |-> t])
    /\ UNCHANGED <<next, session, watching, window, bus, events>>

Lock ==
    /\ Spend /\ session' = ~session
    /\ IF watching = "on" THEN Send([do |-> "locked", locked |-> ~session]) ELSE UNCHANGED inbox
    /\ UNCHANGED <<next, watching, window, timers, bus>>

\* The source of the lock says what it is at first, and later what changes; when it
\* fails the window is not told any more.
WatchLock ==
    /\ watching = "starting" /\ watching' = "on"
    /\ Send([do |-> "locked", locked |-> session])
    /\ UNCHANGED <<next, session, window, timers, bus, events>>
LockFails ==
    /\ watching # "off" /\ Spend /\ watching' = "off"
    /\ UNCHANGED <<next, inbox, session, window, timers, bus>>

PublishState ==
    /\ updates # <<>> /\ updates' = Tail(updates)
    /\ hasItems' = Head(updates)
    /\ UNCHANGED <<next, inbox, session, watching, window, timers, skipped, events>>

\* The window believes the session locked until it is told.
Init ==
    /\ next = 1 /\ session \in BOOLEAN /\ watching = "starting" /\ inbox = <<>>
    /\ locked = TRUE /\ generation = 0 /\ popups = <<>> /\ center = <<>> /\ shown = FALSE
    /\ timers = {} /\ updates = <<>> /\ hasItems = FALSE
    /\ skipped = FALSE /\ owed = {} /\ events = 0

Next ==
    \/ Handle
    \/ \E replaces \in Ids \cup {0}, kind \in Kinds, expires \in BOOLEAN :
            Notify(replaces, kind, expires)
    \/ CloseNotification \/ ClearClicked \/ Requested
    \/ \E t \in timers : Expire(t)
    \/ Lock \/ WatchLock \/ LockFails \/ PublishState

Spec == Init /\ [][Next]_vars

-----------------------------------------------------------------------------
Has(list, n) == \E i \in DOMAIN list : list[i].id = n.id /\ list[i].generation = n.generation
Once(list) == \A i, j \in DOMAIN list : list[i].id = list[j].id => i = j

(* What the policy keeps whether the session is locked or not is in its    *)
(* popup or in the center until it is closed, cleared or replaced, however *)
(* expiry, lock and replacement meet; each id is in each list once.        *)
KeptStays ==
    /\ \A n \in owed :
            ShouldStore(n, TRUE) /\ ShouldStore(n, FALSE) => Has(popups, n) \/ Has(center, n)
    /\ Once(popups) /\ Once(center)

(* A session that is locked shows no popup, and a popup that should go in  *)
(* the end has its timer.                                                  *)
PopupsGo ==
    /\ locked => popups = <<>>
    /\ \A i \in DOMAIN popups :
            LET n == popups[i]
                timer == [id |-> n.id, generation |-> n.generation]
            IN  \/ timer \in timers
                \/ \E j \in DOMAIN inbox : inbox[j].do = "expire" /\ inbox[j].timer = timer
                \/ ~n.expires /\ ~ShouldStore(n, FALSE)

(* HasItems says whether the center has any, once the updates are through, *)
(* unless the latest did not fit into the queue (service.rs: "the latest   *)
(* state is retried by the next change").                                  *)
HasItemsFollows == updates = <<>> /\ ~skipped => hasItems = (center # <<>>)

(* The window takes the session for locked exactly when it is, once it has *)
(* heard all.                                                              *)
LockFollows == inbox = <<>> /\ watching = "on" => locked = session

TypeOK ==
    /\ next \in Ids /\ locked \in BOOLEAN /\ shown \in BOOLEAN
    /\ Len(updates) <= MaxUpdates
    /\ \A t \in timers : t.generation \in 1..generation
    /\ \A n \in owed : n.id \in Ids /\ n.kind \in Kinds
=============================================================================
