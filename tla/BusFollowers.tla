----------------------------- MODULE BusFollowers -----------------------------
(***************************************************************************)
(* How the shell follows a bus service (shell-source dbus.rs): a property  *)
(* of an object, a property first known from an ObjectManager listing, the *)
(* objects of one interface, or a property at the service's current owner  *)
(* (service_owner in dbus/owner.rs, switched to with switch_map).          *)
(*                                                                         *)
(* A follower is a stream that subscribes to signals, reads, and applies   *)
(* what the signals say.  The service changes, goes and comes back between *)
(* any two of its steps.  A stream that ends with an error is subscribed   *)
(* again by the hub (ShareReplay), which makes a new one.                  *)
(***************************************************************************)
EXTENDS Naturals, Sequences, FiniteSets

CONSTANTS
    Paths,      \* paths of the service's objects
    MaxChanges, \* bound: changes of the service, its ends and its returns
    MaxGarbled  \* bound: signals that do not decode

Kinds == {"property", "seeded", "objects", "owned"}

VARIABLES
    kind,       \* which stream this is
    service,    \* owner (0: nobody), value of the property, paths
    changes,    \* changes so far, also the next value and owner
    garbled,    \* signals so far that do not decode
    phase,      \* the stream: where it is
    on,         \* the stream: its signal subscription exists
    queue,      \* the stream: signals it has not read
    held,       \* the stream: the paths it keeps
    shown,      \* what subscribers were given last
    returned,   \* retry_after_service_return: the owner's return was announced
    watch,      \* service_owner: phase, events, owner given last
    missed      \* history: the stream had no way to learn of a change

stream == <<phase, on, queue, held, shown, returned>>
vars == <<kind, service, changes, garbled, stream, watch, missed>>

Absent == 0
Dest == watch.seen          \* the unique name an owned stream is made for
Reachable == service.owner # Absent /\ (kind = "owned" => service.owner = Dest)
Truth == IF kind = "objects" THEN service.paths ELSE service.value
Shows(v) == [known |-> TRUE, is |-> v]
Unknown == [known |-> FALSE, is |-> 0]
Contents(n) == [owner : {n}, value : {n}, paths : SUBSET Paths]

Init ==
    /\ kind \in Kinds
    /\ service \in Contents(1) \cup {[owner |-> Absent, value |-> 0, paths |-> {}]}
    /\ kind = "seeded" => service.owner # Absent
    /\ changes = 1 /\ garbled = 0
    /\ phase = IF kind = "owned" THEN "off" ELSE "connect"
    /\ on = FALSE /\ queue = <<>> /\ held = {} /\ returned = FALSE
    /\ shown = Unknown
    /\ watch = [phase |-> IF kind = "owned" THEN "subscribe" ELSE "off",
                events |-> <<>>, seen |-> Absent]
    /\ missed = FALSE

-----------------------------------------------------------------------------
(* The service.                                                            *)

Signalled(signal) == queue' = IF on /\ Reachable THEN Append(queue, signal) ELSE queue
OwnerChanges(n) ==
    watch' = IF watch.phase \in {"query", "watch"}
             THEN [watch EXCEPT !.events = Append(@, n)] ELSE watch

Spend == changes < MaxChanges /\ changes' = changes + 1

(* A property changes; its signal has the value or invalidates it.         *)
SetProperty(invalidates) ==
    /\ Spend
    /\ kind # "objects" /\ service.owner # Absent
    /\ service' = [service EXCEPT !.value = changes + 1]
    /\ Signalled(IF invalidates THEN [says |-> "invalidated"]
                 ELSE [says |-> "changed", value |-> changes + 1])
    /\ missed' = (missed \/ (kind = "seeded" /\ ~on))
    /\ UNCHANGED <<kind, garbled, phase, on, held, shown, returned, watch>>

SetPaths(p, garble) ==
    /\ Spend
    /\ kind = "objects" /\ service.owner # Absent
    /\ garbled' = garbled + (IF garble THEN 1 ELSE 0) /\ garbled' <= MaxGarbled
    /\ service' = [service EXCEPT !.paths = IF p \in @ THEN @ \ {p} ELSE @ \cup {p}]
    /\ Signalled(IF garble THEN [says |-> "garbled"]
                 ELSE [says |-> IF p \in service.paths THEN "removed" ELSE "added", path |-> p])
    /\ missed' = (missed \/ (phase = "subscribe" /\ ~on))
    /\ UNCHANGED <<kind, phase, on, held, shown, returned, watch>>

Vanish ==
    /\ Spend
    /\ service.owner # Absent
    /\ service' = [owner |-> Absent, value |-> 0, paths |-> {}]
    /\ OwnerChanges(Absent)
    /\ UNCHANGED <<kind, garbled, stream, missed>>

(* The service comes back under another unique name and says nothing of    *)
(* its properties; only an owned stream is told.                           *)
Appear ==
    /\ Spend
    /\ service.owner = Absent
    /\ service' \in Contents(changes + 1)
    /\ OwnerChanges(changes + 1)
    /\ returned' = (returned \/ (phase \in {"recheck", "park"} /\ kind # "owned"))
    /\ missed' = (missed \/ kind # "owned")
    /\ UNCHANGED <<kind, garbled, phase, on, queue, held, shown>>

-----------------------------------------------------------------------------
(* The stream.                                                             *)

Enter(p) == phase' = p
Restart == Enter("connect") /\ on' = FALSE /\ queue' = <<>>
Emit(v) == shown' = Shows(v)
Unmoved == UNCHANGED <<kind, service, changes, garbled, watch>>

(* Property streams subscribe, then read; the seeded one has the value of  *)
(* the listing it was made from, each time it connects.                    *)
Connect ==
    /\ phase = "connect"
    /\ IF kind = "objects" THEN Enter("read") /\ UNCHANGED <<on, shown, missed>>
       ELSE /\ on' = TRUE
            /\ IF kind = "seeded"
               THEN Enter("watch") /\ Emit(1) /\ missed' = (missed \/ service.value # 1)
               ELSE Enter("read") /\ UNCHANGED <<shown, missed>>
    /\ UNCHANGED <<queue, held, returned>> /\ Unmoved

(* A read is answered by the service as it is then, or fails.  It makes    *)
(* good what was missed, but for signals of an earlier owner that wait.    *)
Read ==
    /\ phase \in {"read", "reread"}
    /\ IF Reachable
       THEN /\ Emit(Truth) /\ missed' = (missed /\ queue # <<>>)
            /\ IF kind = "objects"
               THEN Enter("subscribe") /\ held' = service.paths
               ELSE Enter("watch") /\ UNCHANGED held
       ELSE Enter(IF phase = "read" THEN "check" ELSE "failed")
            /\ UNCHANGED <<shown, held, missed>>
    /\ UNCHANGED <<on, queue, returned>> /\ Unmoved

(* The object stream subscribes when it has no subscription, and that is   *)
(* after its first listing.                                                *)
Subscribe ==
    /\ phase = "subscribe"
    /\ on' = TRUE /\ Enter("watch")
    /\ UNCHANGED <<queue, held, shown, returned, missed>> /\ Unmoved

Deltas(signal) == IF signal.says = "added" THEN held \cup {signal.path} ELSE held \ {signal.path}

Apply ==
    /\ phase = "watch" /\ queue # <<>>
    /\ queue' = Tail(queue)
    /\ CASE Head(queue).says = "changed" ->
              Emit(Head(queue).value) /\ UNCHANGED <<phase, held>>
         [] Head(queue).says = "invalidated" -> Enter("reread") /\ UNCHANGED <<shown, held>>
         [] Head(queue).says = "garbled" -> Enter("read") /\ UNCHANGED <<shown, held>>
         [] OTHER -> held' = Deltas(Head(queue)) /\ Emit(held') /\ UNCHANGED phase
    /\ UNCHANGED <<on, returned, missed>> /\ Unmoved

(* The error ends the stream and the hub makes another.                    *)
Fail ==
    /\ phase = "failed"
    /\ Restart
    /\ UNCHANGED <<held, shown, returned, missed>> /\ Unmoved

(* retry_after_service_return: a service that is there has really failed   *)
(* (the error ends the stream); else listen for its return, look again,    *)
(* and wait.                                                               *)
CheckOwner ==
    /\ phase = "check"
    /\ Enter(IF Reachable THEN "failed" ELSE "listen")
    /\ UNCHANGED <<on, queue, held, shown, returned, missed>> /\ Unmoved

Listen ==
    /\ phase = "listen"
    /\ Enter("recheck") /\ returned' = FALSE
    /\ UNCHANGED <<on, queue, held, shown, missed>> /\ Unmoved

Recheck ==
    /\ phase = "recheck"
    /\ IF Reachable THEN Restart ELSE Enter("park") /\ UNCHANGED <<on, queue>>
    /\ UNCHANGED <<held, shown, returned, missed>> /\ Unmoved

Return ==
    /\ phase = "park" /\ returned
    /\ Restart
    /\ UNCHANGED <<held, shown, returned, missed>> /\ Unmoved

-----------------------------------------------------------------------------
(* service_owner: subscribe, then ask; each owner that differs from the    *)
(* last one given ends the inner stream and makes one for it.              *)

Switch(n) ==
    IF n = watch.seen /\ watch.phase = "watch" THEN UNCHANGED stream
    ELSE /\ on' = FALSE /\ queue' = <<>> /\ held' = {} /\ returned' = FALSE
         /\ IF n = Absent THEN Enter("off") /\ shown' = Unknown
            ELSE Enter("connect") /\ UNCHANGED shown

WatchOwner ==
    /\ watch.phase = "subscribe"
    /\ watch' = [watch EXCEPT !.phase = "query"]
    /\ UNCHANGED <<kind, service, changes, garbled, stream, missed>>

QueryOwner ==
    /\ watch.phase = "query"
    /\ Switch(service.owner)
    /\ watch' = [watch EXCEPT !.phase = "watch", !.seen = service.owner]
    /\ UNCHANGED <<kind, service, changes, garbled, missed>>

NextOwner ==
    /\ watch.phase = "watch" /\ watch.events # <<>>
    /\ Switch(Head(watch.events))
    /\ watch' = [watch EXCEPT !.events = Tail(@), !.seen = Head(watch.events)]
    /\ UNCHANGED <<kind, service, changes, garbled, missed>>

Follow ==
    \/ Connect \/ Read \/ Subscribe \/ Apply \/ Fail
    \/ CheckOwner \/ Listen \/ Recheck \/ Return
    \/ WatchOwner \/ QueryOwner \/ NextOwner

Next ==
    \/ \E invalidates \in BOOLEAN : SetProperty(invalidates)
    \/ \E p \in Paths, garble \in BOOLEAN : SetPaths(p, garble)
    \/ Vanish \/ Appear
    \/ Connect \/ Read \/ Subscribe \/ Apply \/ Fail
    \/ CheckOwner \/ Listen \/ Recheck \/ Return
    \/ WatchOwner \/ QueryOwner \/ NextOwner

Spec == Init /\ [][Next]_vars

-----------------------------------------------------------------------------
(* Every variable has its type.                                            *)
TypeOK ==
    /\ kind \in Kinds /\ changes \in 1..MaxChanges /\ garbled \in 0..MaxGarbled
    /\ service.owner \in 0..changes /\ service.value \in 0..changes
    /\ service.paths \subseteq Paths /\ held \subseteq Paths
    /\ phase \in {"off", "connect", "read", "reread", "subscribe", "watch", "failed",
                  "check", "listen", "recheck", "park"}
    /\ on \in BOOLEAN /\ returned \in BOOLEAN /\ missed \in BOOLEAN
    /\ watch.seen \in 0..changes

(* Follow can take no step.                                                *)
AtRest ==
    /\ phase \in {"off", "watch", "park"} /\ watch.phase \in {"off", "watch"}
    /\ phase = "watch" => queue = <<>>
    /\ phase = "park" => ~returned
    /\ watch.phase = "watch" => watch.events = <<>>

(* When a follower has nothing left to do, it shows the service as it is,  *)
(* however changes, ends and returns of the service fell between its       *)
(* steps: a property at the current owner always, the absence of the owner *)
(* too; a property at a well-known name and a list of objects unless the   *)
(* service restarted under their subscription, or changed while they had   *)
(* none (property_stream, object_model_stream, retry_after_service_return, *)
(* service_owner).  In particular none waits for a service that is there.  *)
FollowersUpToDate ==
    AtRest =>
        /\ ~(phase = "park" /\ Reachable)
        /\ IF service.owner # Absent THEN missed \/ shown = Shows(Truth)
           ELSE kind = "owned" => shown = Unknown

(* models: "the objects currently exposing" the interface, while the       *)
(* service runs.                                                           *)
ObjectsUpToDate ==
    AtRest /\ kind = "objects" /\ service.owner = 1 => shown = Shows(service.paths)
=============================================================================
