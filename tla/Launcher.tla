------------------------------- MODULE Launcher -------------------------------
(***************************************************************************)
(* The launcher: the window of rsynapse-ui (launcher/rsynapse-ui/src/      *)
(* main.rs) with its thread that searches, and the last search of          *)
(* rsynapse-daemon (launcher/rsynapse-daemon/src/main.rs), which decides   *)
(* what an id stands for when it is executed.  Keys, bus calls, timers,    *)
(* answers and other clients of the daemon come in any order; messages to  *)
(* the window are handled one at a time, in the order they were sent.      *)
(*                                                                         *)
(* What a search finds depends on its parameters and its text only.  GTK   *)
(* is external: it announces a changed text some time later, and gives     *)
(* keys to the window while that has the keyboard; a row can be clicked as *)
(* long as it is seen.                                                     *)
(***************************************************************************)
EXTENDS Integers, Sequences, FiniteSets, SequencesExt

CONSTANTS
    Params,
    Texts,
    Blank,          \* the empty text
    Found,          \* how many results there are, by parameters and text
    KeptOpen,       \* the parameters whose results leave the launcher open
    None,
    MaxEvents       \* bound: keys, calls, failures and others' searches

VARIABLES
    params, text, mode, preselect,  \* what is asked for
    changing,                       \* GTK has not announced the text yet
    generation, jobs, asked,        \* searches: the latest, queued, in the daemon
    inbox,                          \* messages to the window
    results, selected,              \* what is listed
    visible, revealed, grabbed, held, transition, timers,   \* the window
    cache,                          \* the daemon's last search
    keys,                           \* given to plugins that have not answered
    choices,                        \* being executed: [search, keep, alone]
    failed,                         \* history: a choice made in peace was not executed
    others,                         \* history: somebody else has searched since
    broken,                         \* history: the latest search has failed
    events

request == <<params, text, mode, preselect, changing>>
searches == <<generation, jobs, asked>>
list == <<results, selected, broken>>
window == <<visible, revealed, grabbed, held, transition, timers>>
daemon == <<cache, keys, choices, failed, others>>
vars == <<request, searches, inbox, list, window, daemon, events>>

Modes == {"search", "cycle"}
Requests == [params : Params, text : Texts, mode : Modes, preselect : BOOLEAN]
SearchOf(p, t) == [params |-> p, text |-> t]
Count(s) == IF s = None THEN 0 ELSE Found[s.params][s.text]

Spend == events < MaxEvents /\ events' = events + 1
Send(m) == inbox' = Append(inbox, m)
\* What the user does next may change what is searched for.
Disturb == choices' = {[c EXCEPT !.alone = FALSE] : c \in choices}

-----------------------------------------------------------------------------
(* Searches.                                                               *)

Start(p, t) ==
    /\ generation' = generation + 1
    /\ jobs' = Append(jobs, [generation |-> generation + 1, params |-> p, text |-> t])
    /\ UNCHANGED asked

SearchChanged ==
    /\ changing /\ changing' = FALSE
    /\ Start(params, text)
    /\ UNCHANGED <<params, text, mode, preselect, inbox, list, window, daemon, events>>

\* The thread drops all but the newest of the searches that wait.
Newest(q) == Last(q)
Work ==
    /\ asked = None /\ jobs # <<>>
    /\ asked' = [job |-> Newest(jobs), done |-> FALSE]
    /\ jobs' = <<>>
    /\ UNCHANGED <<request, generation, inbox, list, window, daemon, events>>

\* The daemon remembers what it has found.
Search ==
    /\ asked # None /\ ~asked.done
    /\ asked' = [asked EXCEPT !.done = TRUE]
    /\ cache' = SearchOf(asked.job.params, asked.job.text)
    /\ others' = FALSE
    /\ UNCHANGED <<request, generation, jobs, inbox, list, window, keys, choices, failed, events>>

Answered ==
    /\ asked # None /\ asked.done
    /\ Send([do |-> "results", job |-> asked.job])
    /\ asked' = None
    /\ UNCHANGED <<request, generation, jobs, list, window, daemon, events>>

\* The daemon is not there, or the connection is not.
SearchFails ==
    /\ asked # None /\ Spend
    /\ Send([do |-> "error", job |-> asked.job])
    /\ asked' = None
    /\ Disturb
    /\ UNCHANGED <<request, generation, jobs, list, window, cache, keys, failed, others>>

OtherSearch(p, t) ==
    /\ Spend /\ cache' = SearchOf(p, t) /\ others' = TRUE
    /\ Disturb
    /\ UNCHANGED <<request, searches, inbox, list, window, keys, failed>>

-----------------------------------------------------------------------------
(* The window.                                                             *)

\* set_text: GTK announces a text that is another.
SetText(t) == text' = t /\ changing' = (changing \/ t # text)

Reveal(r) ==
    /\ params' = r.params /\ mode' = r.mode /\ preselect' = r.preselect
    /\ SetText(r.text)
    /\ transition' = transition + 1
    /\ visible' = TRUE /\ revealed' = TRUE /\ grabbed' = TRUE
    /\ held' = (r.mode = "cycle")
    /\ UNCHANGED timers

\* Slip: only another text is searched for.
ShowRequestOfText(r) == Reveal(r) /\ UNCHANGED <<searches, list, daemon>>

\* show_request: a search is started here unless the text will start one.
ShowRequest(r) ==
    /\ Reveal(r)
    /\ IF text = r.text THEN Start(r.params, r.text) ELSE UNCHANGED searches
    /\ UNCHANGED <<list, daemon>>

HideWindow ==
    /\ mode' = "search" /\ held' = FALSE /\ grabbed' = FALSE /\ revealed' = FALSE
    /\ transition' = transition + 1 /\ timers' = timers \cup {transition + 1}
    /\ SetText(Blank)
    /\ UNCHANGED <<params, preselect, visible>>

Hide == HideWindow /\ UNCHANGED <<searches, list, daemon>>

\* The window goes when it has faded, unless it was asked for meanwhile.
Fade(t) ==
    /\ t \in timers /\ timers' = timers \ {t}
    /\ visible' = (visible /\ t # transition)
    /\ UNCHANGED <<request, searches, inbox, list, revealed, grabbed, held, transition,
                   daemon, events>>

Cycle(n) ==
    /\ selected' = IF Count(results) = 0 THEN selected ELSE (selected + n) % Count(results)
    /\ UNCHANGED <<request, searches, results, broken, window, daemon>>

Toggle(r) ==
    IF visible /\ r.mode = "search" THEN Hide
    ELSE IF /\ visible /\ mode = r.mode /\ preselect = r.preselect /\ params = r.params
         THEN /\ held' = TRUE
              /\ selected' = IF Count(results) = 0 THEN selected
                             ELSE (selected + 1) % Count(results)
              /\ UNCHANGED <<request, searches, results, broken, visible, revealed, grabbed,
                             transition, timers, daemon>>
         ELSE ShowRequest(r)

AtRest == ~changing /\ jobs = <<>> /\ asked = None /\ inbox = <<>>

\* activate_selected: the window goes first, unless the result leaves it open.
\* History: a choice is made in peace when nothing else is under way, and hiding
\* the window changes no text.
Activate ==
    IF selected >= Count(results) THEN UNCHANGED <<request, searches, list, window, daemon>>
    ELSE LET keep == results.params \in KeptOpen
             peace == /\ Tail(inbox) = <<>> /\ ~changing /\ jobs = <<>> /\ asked = None
                      /\ keep \/ text = Blank
                      /\ ~others /\ keys = 0 /\ choices = {}
         IN  /\ IF keep THEN UNCHANGED <<request, window>> ELSE HideWindow
             /\ choices' = choices \cup {[search |-> results, keep |-> keep, alone |-> peace]}
             /\ UNCHANGED <<searches, list, cache, keys, failed, others>>

Results(job) ==
    IF job.generation # generation THEN UNCHANGED <<request, searches, list, window, daemon>>
    ELSE /\ results' = SearchOf(job.params, job.text) /\ broken' = FALSE
         /\ selected' = IF preselect /\ Count(results') > 1 THEN 1 ELSE 0
         /\ UNCHANGED <<request, searches, window, daemon>>

SearchError(job) ==
    IF job.generation # generation THEN UNCHANGED <<request, searches, list, window, daemon>>
    ELSE /\ results' = None /\ selected' = 0 /\ broken' = TRUE
         /\ UNCHANGED <<request, searches, window, daemon>>

Refresh == Start(params, text) /\ UNCHANGED <<request, list, window, daemon>>

\* What a plugin has done with a key.
KeyResponse(refresh, close) ==
    /\ IF refresh THEN Start(params, text) ELSE UNCHANGED searches
    /\ IF close THEN HideWindow ELSE UNCHANGED <<request, window>>
    /\ UNCHANGED <<list, daemon>>

Handle ==
    /\ inbox # <<>> /\ inbox' = Tail(inbox)
    /\ LET m == Head(inbox)
       IN  \/ m.do = "results" /\ Results(m.job)
           \/ m.do = "error" /\ SearchError(m.job)
           \/ m.do = "cycle" /\ Cycle(m.by)
           \/ m.do = "activate" /\ Activate
           \/ m.do = "refresh" /\ Refresh
           \/ m.do = "hide" /\ Hide
           \/ m.do = "show" /\ ShowRequest(m.request)
           \/ m.do = "toggle" /\ Toggle(m.request)
           \/ m.do = "key" /\ KeyResponse(m.refresh, m.close)
    /\ UNCHANGED events

-----------------------------------------------------------------------------
(* The user, the bus and the daemon.                                       *)

Command(m) ==
    /\ Spend /\ Send(m) /\ Disturb
    /\ UNCHANGED <<request, searches, list, window, cache, keys, failed, others>>

\* Hiding is for the bus and for a key.
Call ==
    \/ Command([do |-> "hide"])
    \/ \E r \in Requests : \/ Command([do |-> "show", request |-> r])
                          \/ Command([do |-> "toggle", request |-> r])
Key ==
    \/ grabbed /\ \E n \in {1, -1} : Command([do |-> "cycle", by |-> n])
    \/ visible /\ Command([do |-> "activate"])

\* Other keys are for the plugin of the selected result, which answers later.
ForwardKey ==
    /\ grabbed /\ Spend /\ keys' = keys + 1
    /\ Disturb
    /\ UNCHANGED <<request, searches, inbox, list, window, cache, failed, others>>
KeyAnswered(refresh, close) ==
    /\ keys > 0 /\ keys' = keys - 1
    /\ Send([do |-> "key", refresh |-> refresh, close |-> close])
    /\ UNCHANGED <<request, searches, list, window, cache, choices, failed, others, events>>

Type(t) ==
    /\ grabbed /\ mode = "search" /\ t # text /\ Spend
    /\ SetText(t)
    /\ Disturb
    /\ UNCHANGED <<params, mode, preselect, searches, inbox, list, window, cache, keys, failed,
                   others>>

\* The daemon looks the id up in its last search.
Execute(c) ==
    /\ choices' = choices \ {c}
    /\ failed' = (failed \/ (c.alone /\ cache # c.search))
    /\ IF c.keep THEN Send([do |-> "refresh"]) ELSE UNCHANGED inbox
    /\ UNCHANGED <<request, searches, list, window, cache, keys, others, events>>

Init ==
    /\ params \in Params /\ mode \in Modes /\ preselect \in BOOLEAN
    /\ text = Blank /\ changing = FALSE
    /\ generation = 1 /\ jobs = <<[generation |-> 1, params |-> params, text |-> Blank]>>
    /\ asked = None /\ inbox = <<>>
    /\ results = None /\ selected = 0
    /\ visible = TRUE /\ revealed = TRUE /\ grabbed = TRUE /\ held = (mode = "cycle")
    /\ transition = 0 /\ timers = {}
    /\ cache = None /\ keys = 0 /\ broken = FALSE /\ choices = {} /\ failed = FALSE /\ others = FALSE
    /\ events = 0

Next ==
    \/ SearchChanged \/ Work \/ Search \/ Answered \/ SearchFails \/ Handle
    \/ \E p \in Params, t \in Texts : OtherSearch(p, t)
    \/ \E t \in timers : Fade(t)
    \/ Call \/ Key \/ ForwardKey \/ \E t \in Texts : Type(t)
    \/ \E refresh, close \in BOOLEAN : KeyAnswered(refresh, close)
    \/ \E c \in choices : Execute(c)

Spec == Init /\ [][Next]_vars

-----------------------------------------------------------------------------
(* What is listed at rest was found for what is asked for, whatever was    *)
(* dropped, overtaken or late; nothing is listed only if the latest search *)
(* has failed.                                                             *)
ListFollows ==
    AtRest => results = IF broken THEN None ELSE SearchOf(params, text)

(* The keyboard is held exactly while the launcher is shown, a key that    *)
(* cycles only while it is shown for that; a fading window never takes one *)
(* that was asked for again with it, and goes in the end.                  *)
WindowFollows ==
    /\ grabbed = revealed
    /\ revealed => visible
    /\ held <=> revealed /\ mode = "cycle"
    /\ ~revealed /\ visible => transition \in timers

(* A choice made in peace is executed as it was listed: nothing was under  *)
(* way, nobody else searched, and hiding the window searched for nothing   *)
(* (launcher/README.md: "Execute uses the daemon's cached result list from *)
(* the latest search").                                                    *)
ChosenIsExecuted == ~failed

TypeOK ==
    /\ params \in Params /\ text \in Texts /\ mode \in Modes /\ preselect \in BOOLEAN
    /\ results = None \/ results \in [params : Params, text : Texts]
    /\ selected = 0 \/ selected < Count(results)
    /\ cache = None \/ cache \in [params : Params, text : Texts]
    /\ Len(jobs) <= generation
=============================================================================
