---------------------------- MODULE WorkspaceNaming ----------------------------
(***************************************************************************)
(* Steward's namer (namer.rs): the name record of the focused workspace    *)
(* follows its project's name.  The namer combines the latest of four      *)
(* inputs (the focus, the project links, the names, projd's catalog), each *)
(* read anew when it has changed, and works through the combinations one   *)
(* by one; users and projd go on meanwhile.  Beside it, the two other      *)
(* readers of the same records: the context of steward's focus metrics     *)
(* (metrics/context.rs) and the bar (workspace_name.rs).                   *)
(*                                                                         *)
(* A workspace has at most one link and one name, as set_one keeps them;   *)
(* expiry of records is WorkspaceLifecycle's.                              *)
(***************************************************************************)
EXTENDS Naturals, Sequences, FiniteSets

CONSTANTS
    Workspaces, Projects,
    Texts,          \* names that projects and users choose
    None,
    MaxEvents       \* bound: changes by others, and failing requests

VARIABLES
    desktop,    \* the inputs as they are: focused, links, names, catalog
    read,       \* each input as its stream has read it last
    known,      \* each input as the namer combined it last
    queue,      \* combinations the namer has not taken
    hand,       \* the write in hand
    state,      \* of steward: "runs", "failed", or "ended" for good
    expired,    \* history: workspaces whose name expired and was not given again
    events

vars == <<desktop, read, known, queue, hand, state, expired, events>>

Inputs == {"focused", "links", "names", "catalog"}

Sources == {"manual", "project", "default", "random"}
Names == [text : Texts \cup {"empty"}, source : Sources]

\* The name of a workspace's project, if it has one that projd knows.
ProjectName(d, w) == IF d.links[w] = None THEN None ELSE d.catalog[d.links[w]]

-----------------------------------------------------------------------------
(* The others.                                                             *)

\* The bar and the launcher: a name chosen by the user.
Rename(d) == {[d EXCEPT !.names[d.focused] = [text |-> t, source |-> "manual"]] : t \in Texts}

Rebind(d) == {[d EXCEPT !.links[w] = p] : w \in Workspaces, p \in Projects \cup {None}}

\* projd: a project gets another name, or is removed.
Recatalog(d) == {[d EXCEPT !.catalog[p] = t] : p \in Projects, t \in Texts \cup {None}}

Refocus(d) == {[d EXCEPT !.focused = w] : w \in Workspaces \cup {None}}

Changes(d) ==
    (IF d.focused = None THEN {} ELSE Rename(d))
    \cup Rebind(d) \cup Recatalog(d) \cup Refocus(d)

Change ==
    /\ events < MaxEvents /\ events' = events + 1
    /\ desktop' \in Changes(desktop) \ {desktop}
    /\ expired' = {w \in expired : desktop'.names[w] = None}
    /\ UNCHANGED <<read, known, queue, hand, state>>

\* A pass of cleanup takes a name that has no stamp, or an old one.
Expire(w) ==
    /\ events < MaxEvents /\ events' = events + 1
    /\ desktop.names[w] # None
    /\ desktop' = [desktop EXCEPT !.names[w] = None]
    /\ expired' = expired \cup {w}
    /\ UNCHANGED <<read, known, queue, hand, state>>

-----------------------------------------------------------------------------
(* The namer.                                                              *)

\* A signal, and the snapshot asked for then.
Read(i) ==
    /\ state = "runs" /\ read[i] # desktop[i]
    /\ read' = [read EXCEPT ![i] = desktop[i]]
    /\ UNCHANGED <<desktop, known, queue, hand, state, expired, events>>

\* combine_latest, distinct_until_changed
Deliver(i) ==
    /\ state = "runs" /\ known[i] # read[i]
    /\ known' = [known EXCEPT ![i] = read[i]]
    /\ queue' = Append(queue, known')
    /\ UNCHANGED <<desktop, read, hand, state, expired, events>>

\* name_update: a name of another source, the user's, is left alone.
Automatic(name) == name = None \/ name.source \in Sources \ {"manual"}

Wanted(d, w) ==
    IF ProjectName(d, w) # None THEN [text |-> ProjectName(d, w), source |-> "project"]
    ELSE [text |-> "empty", source |-> "default"]

\* Slip: a name is given once, and does not follow.
UpdateOnce(d) ==
    IF d.focused # None /\ d.names[d.focused] = None
    THEN [ws |-> d.focused, name |-> Wanted(d, d.focused)] ELSE None

Update(d) ==
    IF d.focused # None /\ Automatic(d.names[d.focused])
       /\ d.names[d.focused] # Wanted(d, d.focused)
    THEN [ws |-> d.focused, name |-> Wanted(d, d.focused)] ELSE None

Take ==
    /\ state = "runs" /\ hand = None /\ queue # <<>>
    /\ queue' = Tail(queue) /\ hand' = Update(Head(queue))
    /\ UNCHANGED <<desktop, read, known, state, expired, events>>

Write ==
    /\ hand # None
    /\ desktop' = [desktop EXCEPT !.names[hand.ws] = hand.name]
    /\ hand' = None /\ expired' = expired \ {hand.ws}
    /\ UNCHANGED <<read, known, queue, state, events>>

\* A write that fails ends steward with an error, and it is started again.
WriteFails ==
    /\ hand # None
    /\ events < MaxEvents /\ events' = events + 1
    /\ state' = "failed" /\ hand' = None /\ queue' = <<>>
    /\ UNCHANGED <<desktop, read, known, expired>>

Start ==
    /\ state = "failed" /\ state' = "runs"
    /\ read' = desktop /\ known' = desktop /\ queue' = <<desktop>>
    /\ UNCHANGED <<desktop, hand, expired, events>>

\* A snapshot that fails ends the stream, and steward without an error.
ReadFails ==
    /\ state = "runs" /\ hand = None /\ queue = <<>>
    /\ \E i \in Inputs : read[i] # desktop[i]
    /\ events < MaxEvents /\ events' = events + 1
    /\ state' = "ended"
    /\ UNCHANGED <<desktop, read, known, queue, hand, expired>>

-----------------------------------------------------------------------------
Init ==
    /\ desktop \in [focused : {None} \cup Workspaces,
                    links : [Workspaces -> Projects \cup {None}],
                    names : [Workspaces -> {None, [text |-> "empty", source |-> "random"]}],
                    catalog : [Projects -> Texts \cup {None}]]
    /\ read = desktop /\ known = desktop /\ queue = <<desktop>>
    /\ hand = None /\ state = "runs" /\ expired = {} /\ events = 0

Next ==
    \/ Change \/ \E w \in Workspaces : Expire(w)
    \/ \E i \in Inputs : Read(i) \/ Deliver(i)
    \/ Take \/ Write \/ WriteFails \/ Start \/ ReadFails

Spec == Init /\ [][Next]_vars

-----------------------------------------------------------------------------
Record(n) == n = None \/ n \in Names

\* The context of focus metrics, and the text of the bar, of a workspace.
Resolved(d, w) ==
    IF d.names[w] # None /\ d.names[w].source = "manual" THEN d.names[w].text
    ELSE IF ProjectName(d, w) # None \/ d.links[w] # None THEN ProjectName(d, w)
    ELSE "empty"

Shown(d, w) ==
    IF d.names[w] # None /\ d.names[w].source = "manual" THEN d.names[w].text
    ELSE IF ProjectName(d, w) # None THEN ProjectName(d, w) ELSE "empty"

AtRest == state = "runs" /\ hand = None /\ queue = <<>> /\ known = desktop

(* Whatever the inputs' order and however old the combination the namer    *)
(* wrote for, when all is read the focused workspace has the name that the *)
(* bar shows and the focus metrics report, if they report one: the user's, *)
(* else the project's, else "empty" (steward/README.md, namer, metrics).   *)
(* It may have none where one expired: when that comes before the namer    *)
(* has read what it wrote, the names look as they did, and it does nothing.*)
NamesFollow ==
    /\ \A w \in Workspaces : Record(desktop.names[w]) /\ (w \in expired => desktop.names[w] = None)
    /\ AtRest /\ desktop.focused # None =>
        LET w == desktop.focused
        IN  IF desktop.names[w] = None THEN w \in expired
            ELSE /\ desktop.names[w].text = Shown(desktop, w)
                 /\ Resolved(desktop, w) \in {None, desktop.names[w].text}

(* The namer never takes a name away that the user chose                   *)
(* (steward/README.md:66).                                                 *)
ManualNamesSurvive ==
    [][\A w \in Workspaces :
        Write /\ desktop.names[w] # None /\ desktop.names[w].source = "manual"
            => desktop'.names[w] = desktop.names[w]]_vars
=============================================================================
