---------------------------- MODULE FeedContract ----------------------------
(***************************************************************************)
(* What the activity feed promises whoever watches a computer: a page is   *)
(* told of events that were recorded, and of those of the computer it      *)
(* shows at that moment only; what it keeps is the newest of all it was    *)
(* told, in whatever order and however often it was told them.             *)
(***************************************************************************)
EXTENDS Naturals, FiniteSets

CONSTANTS Computer, Page, None, Event, Subject, MAX_ACTIVITY

VARIABLES
    log,       \* the events recorded
    showing,   \* the computer each page shows, or None
    told,      \* all the events each page was told of
    shown      \* those it keeps

dvars == <<log, showing, told, shown>>

\* The n newest of a set of events: ids grow.
Newest(n, S) == {e \in S : Cardinality({f \in S : f > e}) < n}

DInit ==
    /\ log = {}
    /\ showing = [p \in Page |-> None]
    /\ told = [p \in Page |-> {}]
    /\ shown = [p \in Page |-> {}]

Record(e) ==
    /\ e \notin log
    /\ log' = log \cup {e}
    /\ UNCHANGED <<showing, told, shown>>

\* A page goes to another computer.
Turn(p, c) ==
    /\ showing[p] # c
    /\ showing' = [showing EXCEPT ![p] = c]
    /\ UNCHANGED <<log, told, shown>>

\* A page is told of some of the events of the computer it shows.
Tell(p) ==
    /\ \E S \in SUBSET {e \in log : Subject[e] = showing[p]} :
          told' = [told EXCEPT ![p] = @ \cup S]
    /\ shown' = [shown EXCEPT ![p] = Newest(MAX_ACTIVITY, told'[p])]
    /\ UNCHANGED <<log, showing>>

DNext ==
    \/ \E e \in Event : Record(e)
    \/ \E p \in Page : Tell(p) \/ \E c \in Computer : Turn(p, c)

DSpec == DInit /\ [][DNext]_dvars
=============================================================================
