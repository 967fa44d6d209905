---------------------------- MODULE ActivityFeed ----------------------------
(***************************************************************************)
(* The live activity of the computers: events are stored and then          *)
(* published on the computer's Redis channel (services/activity.ts), the   *)
(* events socket of the API replays the newest ones and then forwards the  *)
(* channel (server.ts), and the dashboard merges its history, the replay   *)
(* and the tail into one list, over a socket it opens again whenever it is *)
(* lost (DesktopViewer.tsx).                                               *)
(*                                                                         *)
(* The API process has one Redis connection for all its subscriptions: the *)
(* channel is on or off for every listener at once.                        *)
(***************************************************************************)
EXTENDS Naturals, FiniteSets, Sequences

CONSTANTS
    Computer,      \* the computers whose activity is watched
    Page,          \* browser tabs
    None,          \* no computer
    Subject,       \* the computer each event is about
    REPLAY,        \* events replayed when a socket is opened
    HISTORY,       \* events a page asks for when it is opened
    MAX_ACTIVITY,  \* events a page keeps
    MaxEvents,     \* bound: events
    MaxSockets,    \* bound: sockets
    MaxFaults      \* bound: failed calls of an events socket, and crashes of the API

ASSUME FeedAssumption ==
    /\ None \notin Computer
    /\ Subject \in [1..MaxEvents -> Computer]
    /\ REPLAY \in 1..200 /\ HISTORY \in 1..200
    /\ MAX_ACTIVITY \in Nat \ {0}
    /\ MaxEvents \in Nat /\ MaxSockets \in Nat /\ MaxFaults \in Nat

VARIABLES
    event,     \* the ActivityEvent rows, and how far each has got
    tuned,     \* the channels the API's Redis connection is subscribed to
    commands,  \* its SUBSCRIBE and UNSUBSCRIBE commands that Redis has yet to take
    socket,    \* the events sockets: the connection and the handler in the API
    page,      \* the dashboard's pages
    faults     \* calls that failed and crashes so far

fvars == <<event, tuned, commands, socket, page, faults>>

Event == 1..MaxEvents
Socket == 1..MaxSockets

-----------------------------------------------------------------------------
(* State. *)

Stage == {"absent", "stored", "published"}

\* Where a handler is: each value is the await it is at. "mute": without a
\* subscription to dispose of. up: the connection. on: the listener. missed: the
\* close came before the handler attached its own "close" listener.
Handler == {"recent", "subscribe", "attached", "mute", "gone"}
Handled == [pc : Handler, page : Page, of : Computer, up : BOOLEAN, on : BOOLEAN,
            missed : BOOLEAN, wire : SUBSET Event]

\* asked: the history was. got: all the page was ever sent (for FeedIsNewest).
Tab == [of : Computer \cup {None}, asked : BOOLEAN,
        events : SUBSET Event, got : SUBSET Event]

Command == [op : {"subscribe", "unsubscribe"}, by : Socket]

NoConn == [pc |-> "free", page |-> None, of |-> None, up |-> FALSE, on |-> FALSE,
           missed |-> FALSE, wire |-> {}]
Conn == {NoConn} \cup Handled
NoTab == [of |-> None, asked |-> FALSE, events |-> {}, got |-> {}]

FInit ==
    /\ event = [e \in Event |-> "absent"]
    /\ tuned = {}
    /\ commands = <<>>
    /\ socket = [s \in Socket |-> NoConn]
    /\ page = [p \in Page |-> NoTab]
    /\ faults = 0

-----------------------------------------------------------------------------
(* ActivityHub. *)

\* The n newest of a set of events: ids grow.
Newest(n, S) == {e \in S : Cardinality({f \in S : f > e}) < n}

Stored(c) == {e \in Event : event[e] \in {"stored", "published"} /\ Subject[e] = c}

\* Mutant of recent: the oldest events.
recentAscending(c, limit) ==
    {e \in Stored(c) : Cardinality({f \in Stored(c) : f < e}) < limit}

recent(c, limit) == Newest(limit, Stored(c))

\* Mutant of Hears: a listener takes what comes on any channel.
HearsAll(s, e) == socket[s].on /\ Subject[e] \in tuned

\* The message of an event reaches the listeners of its channel.
Hears(s, e) == socket[s].on /\ Subject[e] \in tuned /\ socket[s].of = Subject[e]

\* record: the row is inserted. Rows become visible in any order of their ids,
\* which are taken from a sequence before the commit.
Store(e) ==
    /\ event[e] = "absent"
    /\ event' = [event EXCEPT ![e] = "stored"]
    /\ UNCHANGED <<tuned, commands, socket, page, faults>>

\* It is then published, unless Redis fails or the process dies.
Publish(e) ==
    /\ event[e] = "stored"
    /\ event' = [event EXCEPT ![e] = "published"]
    /\ socket' = [s \in Socket |->
           IF Hears(s, e) /\ socket[s].up
           THEN [socket[s] EXCEPT !.wire = @ \cup {e}] ELSE socket[s]]
    /\ UNCHANGED <<tuned, commands, page, faults>>

\* Redis takes the commands of the connection in order.
Take ==
    /\ commands # <<>>
    /\ LET m == Head(commands)
           c == socket[m.by].of
       IN tuned' = IF m.op = "subscribe" THEN tuned \cup {c} ELSE tuned \ {c}
    /\ commands' = Tail(commands)
    /\ UNCHANGED <<event, socket, page, faults>>

-----------------------------------------------------------------------------
(* The events socket of the API, between its awaits. *)

Steps(s, pc) == socket' = [socket EXCEPT ![s].pc = pc]

\* The computer is the caller's: its newest events are read and sent, and
\* subscribe puts the listener on.
Replay(s) ==
    /\ socket[s].pc = "recent"
    /\ socket' = [socket EXCEPT ![s].pc = "subscribe", ![s].on = TRUE,
           ![s].wire = IF socket[s].up THEN @ \cup recent(socket[s].of, REPLAY) ELSE @]
    /\ commands' = Append(commands, [op |-> "subscribe", by |-> s])
    /\ UNCHANGED <<event, tuned, page, faults>>

\* Mutant of Subscribed: the subscription is not awaited.
SubscribedAtOnce(s) == TRUE

Subscribed(s) == \A i \in DOMAIN commands : commands[i].by # s

\* The subscription is made: the disposer is kept and "close" is listened to.
Attach(s) ==
    /\ socket[s].pc = "subscribe"
    /\ Subscribed(s)
    /\ Steps(s, "attached")
    /\ UNCHANGED <<event, tuned, commands, page, faults>>

\* The computer is not the caller's, or its events cannot be read: nothing to
\* dispose of.
Mute(s) ==
    /\ socket[s].pc = "recent"
    /\ faults < MaxFaults
    /\ faults' = faults + 1
    /\ Steps(s, "mute")
    /\ UNCHANGED <<event, tuned, commands, page>>

\* Redis refuses a subscription: the listener stays on without a disposer.
Refuse ==
    /\ commands # <<>> /\ Head(commands).op = "subscribe"
    /\ faults < MaxFaults
    /\ faults' = faults + 1
    /\ Steps(Head(commands).by, "mute")
    /\ commands' = Tail(commands)
    /\ UNCHANGED <<event, tuned, page>>

\* Mutant of Closes: the disposer is not called.
ClosesOnly(s) == /\ Steps(s, "gone")
                 /\ UNCHANGED commands

\* The "close" listener: a handler with a disposer takes its listener off and
\* unsubscribes the connection of the process.
Closes(s) ==
    /\ socket' = [socket EXCEPT ![s].pc = "gone",
                                ![s].on = @ /\ socket[s].pc = "mute"]
    /\ commands' = IF socket[s].pc = "attached"
                   THEN Append(commands, [op |-> "unsubscribe", by |-> s]) ELSE commands

\* The API notices that the connection is down: a handler still at an await has
\* no listener for it yet, and gets no other chance.
Notice(s) ==
    /\ socket[s].pc \in Handler \ {"gone"}
    /\ ~socket[s].up /\ ~socket[s].missed
    /\ IF socket[s].pc \in {"attached", "mute"} THEN Closes(s)
       ELSE socket' = [socket EXCEPT ![s].missed = TRUE] /\ UNCHANGED commands
    /\ UNCHANGED <<event, tuned, page, faults>>

\* The API process dies, and with it its connections and its subscriptions.
Crash ==
    /\ faults < MaxFaults
    /\ faults' = faults + 1
    /\ socket' = [s \in Socket |->
           IF socket[s].pc = "free" THEN socket[s]
           ELSE [socket[s] EXCEPT !.pc = "gone", !.up = FALSE, !.on = FALSE, !.wire = {}]]
    /\ tuned' = {}
    /\ commands' = <<>>
    /\ UNCHANGED <<event, page>>

-----------------------------------------------------------------------------
(* The dashboard's page. *)

\* Mutant of Kept: the list is cut from its end.
KeptOldest(S) == {e \in S : Cardinality({f \in S : f < e}) < MAX_ACTIVITY}

Kept(S) == Newest(MAX_ACTIVITY, S)

\* merge: a list without repetitions, sorted by id, is a set.
Merge(t, S) == [t EXCEPT !.events = Kept(@ \cup S), !.got = @ \cup S]

\* Mutant of Hangup: what is under way on a closed connection still arrives.
HangupLate(c) == [c EXCEPT !.up = FALSE]

Hangup(c) == [c EXCEPT !.up = FALSE, !.wire = {}]

\* Mutant of Wants: a page opens sockets whether or not it shows a computer.
WantsAlways(p) == ~\E s \in Socket : socket[s].up /\ socket[s].page = p

\* The page shows a computer and has lost its socket, or never had one.
Wants(p) == /\ page[p].of # None
            /\ ~\E s \in Socket : socket[s].up /\ socket[s].page = p

\* A page shows computer c: opened, or gone to from another computer without
\* being unmounted, in which case the list stays. (A tab that is closed is one
\* whose connection drops and that opens no other.)
Show(p, c) ==
    /\ page[p].of # c
    /\ socket' = [s \in Socket |->
           IF socket[s].up /\ socket[s].page = p THEN Hangup(socket[s]) ELSE socket[s]]
    /\ page' = [page EXCEPT ![p].of = c, ![p].asked = TRUE]
    /\ UNCHANGED <<event, tuned, commands, faults>>

\* What GET /:id/activity answers.
activity(c) == recent(c, HISTORY)

\* The history arrives.
History(p) ==
    /\ page[p].asked
    /\ page' = [page EXCEPT ![p] =
           Merge([@ EXCEPT !.asked = FALSE], activity(page[p].of))]
    /\ UNCHANGED <<event, tuned, commands, socket, faults>>

\* The page opens a socket: at once, or when the timer fires that onclose set.
Open(p, s) ==
    /\ Wants(p)
    /\ socket[s].pc = "free"
    /\ \A r \in Socket : r < s => socket[r].pc # "free"
    /\ socket' = [socket EXCEPT ![s] =
           [NoConn EXCEPT !.pc = "recent", !.page = p, !.of = page[p].of, !.up = TRUE]]
    /\ UNCHANGED <<event, tuned, commands, page, faults>>

\* A message arrives at the page.
Receive(s, e) ==
    /\ e \in socket[s].wire
    /\ page' = [page EXCEPT ![socket[s].page] = Merge(@, {e})]
    /\ socket' = [socket EXCEPT ![s].wire = @ \ {e}]
    /\ UNCHANGED <<event, tuned, commands, faults>>

\* The network loses the connection.
Drop(s) ==
    /\ socket[s].up
    /\ socket' = [socket EXCEPT ![s] = Hangup(@)]
    /\ UNCHANGED <<event, tuned, commands, page, faults>>

-----------------------------------------------------------------------------
Serve(s) == Replay(s) \/ Attach(s) \/ Notice(s)

FNext ==
    \/ \E e \in Event : Store(e) \/ Publish(e)
    \/ Take \/ Refuse
    \/ \E s \in Socket : Serve(s) \/ Mute(s) \/ Drop(s) \/ \E e \in Event : Receive(s, e)
    \/ \E p \in Page : \/ \E c \in Computer : Show(p, c)
                       \/ History(p)
                       \/ \E s \in Socket : Open(p, s)
    \/ Crash

FSpec == FInit /\ [][FNext]_fvars

\* The API, Redis and the browsers go on. Nobody has to record, publish or open
\* anything, and no connection has to break.
FFairness ==
    /\ WF_fvars(Take)
    /\ \A s \in Socket : WF_fvars(Serve(s))
    /\ \A s \in Socket, e \in Event : WF_fvars(Receive(s, e))

FFairSpec == FSpec /\ FFairness

-----------------------------------------------------------------------------
(* Properties. *)

\* The events, the subscriptions, the sockets and the pages have the shape above.
FTypeOK ==
    /\ event \in [Event -> Stage]
    /\ tuned \subseteq Computer
    /\ commands \in Seq(Command)
    /\ socket \in [Socket -> Conn]
    /\ page \in [Page -> Tab]
    /\ faults \in Nat

\* A page shows the newest of all it was ever sent, whatever the order in which
\* the history, replays and late messages were merged and cut (DesktopViewer.tsx,
\* merge).
FeedIsNewest ==
    \A p \in Page : page[p].events = Newest(MAX_ACTIVITY, page[p].got)

\* A socket carries stored events of its own computer and no others, although the
\* listeners of all sockets share one Redis connection (activity.ts, subscribe).
CarriesItsOwn ==
    \A s \in Socket : socket[s].wire \subseteq Stored(socket[s].of)

\* A socket that is attached hears its channel, unless another socket of the same
\* computer was disposed of on this process (activity.ts, the disposer).
DeafOnlyByClosing ==
    \A s \in Socket :
        socket[s].pc = "attached" /\ socket[s].of \notin tuned =>
            \E t \in Socket \ {s} : socket[t].pc = "gone" /\ socket[t].of = socket[s].of

\* FeedContract, with the pages as they are: its log is the stored rows.
Contract == INSTANCE FeedContract WITH
    log <- {e \in Event : event[e] # "absent"},
    showing <- [p \in Page |-> page[p].of],
    told <- [p \in Page |-> page[p].got],
    shown <- [p \in Page |-> page[p].events]

\* The feed keeps its contract: though rows, messages, connections and the page's
\* way from computer to computer interleave, a page is told of recorded events of
\* the computer it shows at that moment only, and keeps the newest
\* (DesktopViewer.tsx, the effect's `disposed` and its socket's close).
FeedContractKept == Contract!DSpec

\* What is among the newest events when a socket is opened reaches its page, be
\* it missed before, published or not, unless newer events take its place, the
\* connection breaks or a call fails (server.ts, the replay).
CatchesUp ==
    \A s \in Socket, e \in Event :
        socket[s].pc \in {"recent"} /\ e \in Newest(REPLAY, Stored(socket[s].of)) ~>
            \/ socket[s].pc \in {"mute", "gone"} \/ ~socket[s].up
            \/ e \in page[socket[s].page].got
            \/ e \notin Newest(REPLAY, Stored(socket[s].of))

\* A socket whose connection breaks once it is attached leaves no listener behind
\* (server.ts, socket.on("close")).
ListenersLeave ==
    \A s \in Socket :
        socket[s].pc = "attached" /\ ~socket[s].missed /\ ~socket[s].up ~> ~socket[s].on

\* What is published is sent to every viewer that is attached and connected
\* (activity.ts, "Persists the event and pushes it to every live viewer").
PushedToLive ==
    [][\A e \in Event, s \in Socket :
          /\ event[e] = "stored" /\ event'[e] = "published"
          /\ socket[s].pc = "attached" /\ socket[s].up /\ socket[s].of = Subject[e]
          => e \in socket'[s].wire]_fvars

=============================================================================
