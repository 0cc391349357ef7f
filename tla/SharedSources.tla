----------------------------- MODULE SharedSources ----------------------------
(***************************************************************************)
(* What the shell's widgets follow the system with (shell-source           *)
(* support.rs and dbus.rs), side by side: the hub that shares a source,    *)
(* and a stream that follows a bus service.  Each has a state of its own.  *)
(***************************************************************************)

CONSTANTS
    Subscribers, MaxRestarts, MaxVersion, MaxFaults,    \* of the hub: ShareReplay
    Objects, MaxServiceChanges, MaxGarbled              \* of the stream: BusFollowers

VARIABLES
    source, faults, latest, observers, connecting, connection, restarts, thread,
    given, connections, late, spent,
    kind, service, progress, garbled, at, on, signals, held, state, returned, watch, missed

hub == <<source, faults, latest, observers, connecting, connection, restarts, thread,
         given, connections, late, spent>>
bus == <<kind, service, progress, garbled, at, on, signals, held, state, returned,
         watch, missed>>

H == INSTANCE ShareReplay WITH shown <- given, tasks <- connections
B == INSTANCE BusFollowers
        WITH Paths <- Objects, changes <- progress, MaxChanges <- MaxServiceChanges,
             phase <- at, queue <- signals, shown <- state
=============================================================================
