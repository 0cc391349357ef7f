----------------------------- MODULE RequestServer -----------------------------
(***************************************************************************)
(* The request socket of the shell's processes (shell/app/src/request.rs): *)
(* a thread that accepts, a bounded queue, workers that wait for the main  *)
(* thread, and the drop, which blocks the main thread until all of them    *)
(* have ended.  Several lives of the process share one socket file.        *)
(*                                                                         *)
(* A client writes its request and then waits, as run_cli does; what it    *)
(* asks for is good or cannot be parsed.  One process starts at a time.    *)
(***************************************************************************)
EXTENDS Naturals, Sequences, FiniteSets, SequencesExt

CONSTANTS
    Lives,          \* of the process
    Clients,
    Workers,
    QueueSize,
    None

VARIABLES
    file,           \* the socket file: whose listener, or None
    process,        \* by life: "new", "running", "dropping", "gone"
    accepting,      \* by life: "open", "closed", or the connection in hand
    backlog, queue, inbox,  \* by life
    worker,         \* by life and worker: [client, does]
    client,         \* "idle", "waits", or how it ended
    responded,      \* clients the main thread has responded to
    wake,           \* lives whose drop could not connect
    handled,        \* history: how often, by client
    overlapped      \* history: a life began while another was being dropped

connections == <<accepting, backlog, queue, inbox, worker>>
vars == <<file, process, connections, client, responded, wake, handled, overlapped>>

Worker(c, does) == [client |-> c, does |-> does]
Waker == "waker"    \* the connection of a drop, which says nothing

Up(p) == process[p] \in {"running", "dropping"}
Answer(c, how) == client' = [d \in DOMAIN client |-> IF d = c THEN how ELSE client[d]]
Refused(C) == client' = [d \in DOMAIN client |-> IF d \in C THEN "refused" ELSE client[d]]
Of(p) ==
    Range(backlog[p]) \cup Range(queue[p]) \cup {accepting[p]}
    \cup {worker[p][w].client : w \in Workers}

-----------------------------------------------------------------------------
(* The process.                                                            *)

\* start_server_at: a file that nobody listens to is replaced.
Start(p) ==
    /\ process[p] = "new"
    /\ file # None => accepting[file] = "closed"
    /\ file' = p
    /\ process' = [process EXCEPT ![p] = "running"]
    /\ accepting' = [accepting EXCEPT ![p] = "open"]
    /\ overlapped' = (overlapped \/ \E q \in Lives : process[q] = "dropping")
    /\ UNCHANGED <<backlog, queue, inbox, worker, client, responded, wake, handled>>

\* Dropping: the connection is for whoever has the file.
Drop(p) ==
    /\ process[p] = "running"
    /\ process' = [process EXCEPT ![p] = "dropping"]
    /\ IF file # None /\ accepting[file] # "closed"
       THEN backlog' = [backlog EXCEPT ![file] = Append(@, Waker)] /\ UNCHANGED wake
       ELSE wake' = wake \cup {p} /\ UNCHANGED backlog
    /\ UNCHANGED <<file, accepting, queue, inbox, worker, client, responded, handled, overlapped>>

\* All threads have been joined; the file goes.
Dropped(p) ==
    /\ process[p] = "dropping" /\ accepting[p] = "closed"
    /\ \A w \in Workers : worker[p][w].does = "ended"
    /\ process' = [process EXCEPT ![p] = "gone"]
    /\ file' = None
    /\ UNCHANGED <<connections, client, responded, wake, handled, overlapped>>

Crash(p) ==
    /\ Up(p)
    /\ process' = [process EXCEPT ![p] = "gone"]
    /\ accepting' = [accepting EXCEPT ![p] = "closed"]
    /\ Refused(Of(p))
    /\ backlog' = [backlog EXCEPT ![p] = <<>>] /\ queue' = [queue EXCEPT ![p] = <<>>]
    /\ inbox' = [inbox EXCEPT ![p] = <<>>]
    /\ worker' = [worker EXCEPT ![p] = [w \in Workers |-> Worker(None, "ended")]]
    /\ UNCHANGED <<file, responded, wake, handled, overlapped>>

\* The main thread handles a request, unless it is dropping.
Handle(p) ==
    /\ process[p] = "running" /\ inbox[p] # <<>>
    /\ inbox' = [inbox EXCEPT ![p] = Tail(@)]
    /\ responded' = responded \cup {Head(inbox[p])}
    /\ handled' = [handled EXCEPT ![Head(inbox[p])] = @ + 1]
    /\ UNCHANGED <<file, process, accepting, backlog, queue, worker, client, wake, overlapped>>

-----------------------------------------------------------------------------
(* The threads.                                                            *)

\* A connection that is accepted when the server is dropped ends the loop; it and what
\* has not been accepted are closed.
Accept(p) ==
    /\ Up(p) /\ accepting[p] = "open" /\ backlog[p] # <<>>
    /\ IF process[p] = "dropping"
       THEN /\ accepting' = [accepting EXCEPT ![p] = "closed"]
            /\ backlog' = [backlog EXCEPT ![p] = <<>>]
            /\ Refused(Range(backlog[p]))
       ELSE /\ accepting' = [accepting EXCEPT ![p] = Head(backlog[p])]
            /\ backlog' = [backlog EXCEPT ![p] = Tail(@)]
            /\ UNCHANGED client
    /\ UNCHANGED <<file, process, queue, inbox, worker, responded, wake, handled, overlapped>>

\* The queue takes the connection in hand when it has room.
Queue(p) ==
    /\ Up(p) /\ accepting[p] \notin {"open", "closed"} /\ Len(queue[p]) < QueueSize
    /\ queue' = [queue EXCEPT ![p] = Append(@, accepting[p])]
    /\ accepting' = [accepting EXCEPT ![p] = "open"]
    /\ UNCHANGED <<file, process, backlog, inbox, worker, client, responded, wake, handled,
                   overlapped>>

\* A worker takes one, or ends when there will be none any more.
Take(p, w) ==
    /\ Up(p) /\ worker[p][w].does = "takes"
    /\ \/ /\ queue[p] # <<>>
          /\ queue' = [queue EXCEPT ![p] = Tail(@)]
          /\ worker' = [worker EXCEPT ![p][w] = Worker(Head(queue[p]), "reads")]
       \/ /\ queue[p] = <<>> /\ accepting[p] = "closed"
          /\ worker' = [worker EXCEPT ![p][w] = Worker(None, "ended")] /\ UNCHANGED queue
    /\ UNCHANGED <<file, process, accepting, backlog, inbox, client, responded, wake, handled,
                   overlapped>>

Does(p, w, what) == Up(p) /\ worker[p][w].does = what
Ends(p, w, how) ==
    /\ Answer(worker[p][w].client, how)
    /\ worker' = [worker EXCEPT ![p][w] = Worker(None, "takes")]

\* A request that cannot be parsed, or that is empty, is answered by the worker.
Read(p, w, good) ==
    /\ Does(p, w, "reads")
    /\ IF good /\ worker[p][w].client # Waker
       THEN /\ inbox' = [inbox EXCEPT ![p] = Append(@, worker[p][w].client)]
            /\ worker' = [worker EXCEPT ![p][w].does = "waits"]
            /\ UNCHANGED client
       ELSE Ends(p, w, "error") /\ UNCHANGED inbox
    /\ UNCHANGED <<file, process, accepting, backlog, queue, responded, wake, handled, overlapped>>

Respond(p, w) ==
    /\ Does(p, w, "waits")
    /\ worker[p][w].client \in responded
    /\ Ends(p, w, "ok")
    /\ UNCHANGED <<file, process, accepting, backlog, queue, inbox, responded, wake, handled,
                   overlapped>>

\* Slip: a worker waits as long as it takes.
NoTimeOut(p, w) == FALSE /\ UNCHANGED vars
TimeOut(p, w) ==
    /\ Does(p, w, "waits")
    /\ Ends(p, w, "timed out")
    /\ UNCHANGED <<file, process, accepting, backlog, queue, inbox, responded, wake, handled,
                   overlapped>>

\* send_request
Connect(c) ==
    /\ client[c] = "idle"
    /\ IF file # None /\ accepting[file] # "closed"
       THEN Answer(c, "waits") /\ backlog' = [backlog EXCEPT ![file] = Append(@, c)]
       ELSE Answer(c, "refused") /\ UNCHANGED backlog
    /\ UNCHANGED <<file, process, accepting, queue, inbox, worker, responded, wake, handled,
                   overlapped>>

Init ==
    /\ file = None
    /\ process = [p \in Lives |-> "new"] /\ accepting = [p \in Lives |-> "closed"]
    /\ backlog = [p \in Lives |-> <<>>] /\ queue = [p \in Lives |-> <<>>]
    /\ inbox = [p \in Lives |-> <<>>]
    /\ worker = [p \in Lives |-> [w \in Workers |-> Worker(None, "takes")]]
    /\ client = [c \in Clients |-> "idle"] /\ responded = {} /\ wake = {}
    /\ handled = [c \in Clients |-> 0] /\ overlapped = FALSE

(* Some thread runs on when one can: each accepts, reads, answers or times *)
(* out after five seconds, and the main thread comes to its messages;      *)
(* nobody has to start, to crash, to drop or to connect.                   *)
Advance ==
    \E p \in Lives : \/ Accept(p) \/ Queue(p) \/ Handle(p) \/ Dropped(p)
                     \/ \E w \in Workers : \/ Take(p, w) \/ Respond(p, w) \/ TimeOut(p, w)
                                           \/ \E good \in BOOLEAN : Read(p, w, good)

Next ==
    \/ \E p \in Lives : Start(p) \/ Drop(p) \/ Crash(p)
    \/ \E c \in Clients : Connect(c)
    \/ Advance

Spec == Init /\ [][Next]_vars
FairSpec == Spec /\ WF_vars(Advance)

-----------------------------------------------------------------------------
(* A running process is the one that clients reach, unless it began while  *)
(* another was being dropped.                                              *)
Reachable == \A p \in Lives : process[p] = "running" /\ ~overlapped => file = p

(* Each request is handled once at most, and by then if the answer is ok.  *)
HandledOnce ==
    \A c \in Clients : handled[c] <= 1 /\ (client[c] = "ok" => handled[c] = 1)

(* In the end every client has been answered or refused, and every drop    *)
(* has ended, though the main thread that the workers wait for is the one  *)
(* that waits for them (request.rs: "Wake the blocking accept loop so it   *)
(* can observe shutdown"); one that could not wake the loop has overlapped. *)
Served ==
    <>[](/\ \A c \in Clients : client[c] # "waits"
         /\ \A p \in Lives : process[p] = "dropping" => overlapped)

RequestsServed == [](Reachable /\ HandledOnce) /\ Served

TypeOK ==
    /\ file \in Lives \cup {None}
    /\ process \in [Lives -> {"new", "running", "dropping", "gone"}]
    /\ \A p \in Lives : Len(queue[p]) <= QueueSize
    /\ wake # {} => overlapped
=============================================================================
