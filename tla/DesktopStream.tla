---------------------------- MODULE DesktopStream ----------------------------
(***************************************************************************)
(* The live desktop of one computer: the dashboard's page                  *)
(* (DesktopViewer.tsx) opens a socket to the API, whose handler            *)
(* (routes/desktop.ts) looks the computer up, opens a second socket to the *)
(* websockify in the container and relays between the two. The container's *)
(* side is DesktopSupervisor. While an operator's stream is up, a timer of *)
(* the handler renews the operator's control lock (services/control.ts).   *)
(***************************************************************************)
EXTENDS DesktopSupervisor, FiniteSets

CONSTANTS
    Page,    \* the operators, each with a tab of the dashboard
    None,    \* no page, no stream, nobody
    Stream   \* the sockets between tabs and the API

ASSUME StreamAssumption == None \notin Page /\ None \notin Stream

VARIABLES
    conn,    \* the sockets: the browser's end, the handler, the upstream socket
    page,    \* the tabs
    lock,    \* the operator in control
    leaked   \* operators with a timer that no socket will clear

dvars == <<step, alive, flag, faults, conn, page, lock, leaked>>

-----------------------------------------------------------------------------
(* State. *)

\* Where a handler is: at the await of the row, at that of the endpoint, relaying,
\* or done, the socket being closed.
Relay == {"free", "computer", "endpoint", "relay", "closed"}

\* here: the browser's end. shown: the browser sees the desktop. up: the socket to
\* websockify ("lost": its other end is gone).
Conn == [at : Relay, page : Page \cup {None}, here : BOOLEAN, shown : BOOLEAN,
         up : {"none", "opening", "open", "lost"}]

NoConn == [at |-> "free", page |-> None, here |-> FALSE, shown |-> FALSE, up |-> "none"]

\* rfb: the socket of the tab's RFB object. timer: it will connect again. running:
\* what the last status said.
Tab == [open : BOOLEAN, running : BOOLEAN, rfb : Stream \cup {None}, timer : BOOLEAN]

NoTab == [open |-> FALSE, running |-> FALSE, rfb |-> None, timer |-> FALSE]

DInit ==
    /\ SInit
    /\ conn = [n \in Stream |-> NoConn]
    /\ page = [p \in Page |-> NoTab]
    /\ lock = None
    /\ leaked = {}

Running == step # "off"

Serving == {"websockify", "vnc"} \subseteq alive

-----------------------------------------------------------------------------
(* The container. *)

\* What the container does: an upstream socket does not outlive the VNC server and
\* websockify it goes through.
Container ==
    /\ SNext
    /\ conn' = [n \in Stream |->
           IF conn[n].up = "open" /\ ~Serving' THEN [conn[n] EXCEPT !.up = "lost"]
           ELSE conn[n]]
    /\ UNCHANGED <<page, lock, leaked>>

-----------------------------------------------------------------------------
(* The API's handlers. *)

Becomes(n, c) == conn' = [conn EXCEPT ![n] = c]

\* The handler closes the socket; if the browser has left, that is the end of it.
Closed(n) == IF conn[n].here THEN [conn[n] EXCEPT !.at = "closed", !.up = "none"] ELSE NoConn

\* The row is read; a computer that does not run closes the socket (4409).
Resolve(n) ==
    /\ conn[n].at = "computer"
    /\ Becomes(n, IF Running THEN [conn[n] EXCEPT !.at = "endpoint"] ELSE Closed(n))
    /\ UNCHANGED <<step, alive, flag, faults, page, lock, leaked>>

\* The endpoint is known, and in one go the upstream socket is made, the listeners
\* are attached and the timer is set. A browser that left during the awaits has
\* had its "close" before anybody listened: nobody clears the timer.
Bridge(n) ==
    /\ conn[n].at = "endpoint"
    /\ Running
    /\ IF conn[n].here
       THEN /\ Becomes(n, [conn[n] EXCEPT !.at = "relay", !.up = "opening"])
            /\ UNCHANGED leaked
       ELSE /\ Becomes(n, NoConn)
            /\ leaked' = leaked \cup {conn[n].page}
    /\ UNCHANGED <<step, alive, flag, faults, page, lock>>

\* The endpoint is not available: 4503.
NoEndpoint(n) ==
    /\ conn[n].at = "endpoint"
    /\ ~Running
    /\ Becomes(n, Closed(n))
    /\ UNCHANGED <<step, alive, flag, faults, page, lock, leaked>>

\* The upstream socket opens and the desktop is on the screen.
Shows(n) ==
    /\ conn[n].at = "relay" /\ conn[n].here
    /\ \/ conn[n].up = "opening" /\ Serving
       \/ conn[n].up = "open" /\ ~conn[n].shown
    /\ Becomes(n, [conn[n] EXCEPT !.up = "open", !.shown = (conn[n].up = "open")])
    /\ UNCHANGED <<step, alive, flag, faults, page, lock, leaked>>

\* The upstream socket is refused or ends: shutdown.
Shutdown(n) ==
    /\ conn[n].at = "relay"
    /\ conn[n].up = "lost" \/ (conn[n].up = "opening" /\ ~Serving)
    /\ Becomes(n, Closed(n))
    /\ UNCHANGED <<step, alive, flag, faults, page, lock, leaked>>

\* Mutant of Ends: the "close" listener is missing.
EndsNothing(n) == UNCHANGED conn

\* The "close" listeners close the upstream socket and clear the timer.
Ends(n) == Becomes(n, NoConn)

\* The handler is told that the browser has left.
Notice(n) ==
    /\ conn[n].at \in {"relay", "closed"} /\ ~conn[n].here
    /\ Ends(n)
    /\ UNCHANGED <<step, alive, flag, faults, page, lock, leaked>>

\* The API process dies.
Crash ==
    /\ Faulty
    /\ conn' = [n \in Stream |->
           IF conn[n].here THEN [conn[n] EXCEPT !.at = "closed", !.up = "none"] ELSE NoConn]
    /\ leaked' = {}
    /\ UNCHANGED <<step, alive, flag, page, lock>>

-----------------------------------------------------------------------------
(* The control lock. *)

Take(p) ==
    /\ lock' = p
    /\ UNCHANGED <<step, alive, flag, faults, conn, page, leaked>>

Release ==
    /\ lock # None
    /\ lock' = None
    /\ UNCHANGED <<step, alive, flag, faults, conn, page, leaked>>

\* keepAlive: some timer renews the operator's lock.
Kept(p) == p \in leaked \/ \E n \in Stream : conn[n].at = "relay" /\ conn[n].page = p

\* The TTL passes without a renewal.
Expire ==
    /\ lock # None /\ ~Kept(lock)
    /\ lock' = None
    /\ UNCHANGED <<step, alive, flag, faults, conn, page, leaked>>

-----------------------------------------------------------------------------
(* The dashboard's tab. *)

\* Mutant of Hungup: whose the socket was is lost with it.
HungupAnonymous(p) == [n \in Stream |->
    IF n = page[p].rfb THEN [NoConn EXCEPT !.at = conn[n].at] ELSE conn[n]]

\* What is left of the sockets when the tab disconnects its own.
Hungup(p) == [n \in Stream |->
    IF n = page[p].rfb /\ conn[n].here
    THEN [conn[n] EXCEPT !.here = FALSE, !.shown = FALSE] ELSE conn[n]]

\* Mutant of disconnect: the old RFB object is forgotten and left connected.
disconnectForgets(p) == conn

disconnect(p) == Hungup(p)

\* connect: the old socket is closed and a new one is opened. It is reached only
\* while the last status says RUNNING.
connect(p) ==
    \E n \in Stream :
        /\ conn[n].at = "free"
        /\ conn' = [disconnect(p) EXCEPT ![n] =
               [NoConn EXCEPT !.at = "computer", !.page = p, !.here = TRUE]]
        /\ page' = [page EXCEPT ![p].rfb = n, ![p].timer = FALSE, ![p].running = TRUE]

\* The tab is opened.
Visit(p) ==
    /\ ~page[p].open
    /\ page' = [page EXCEPT ![p].open = TRUE]
    /\ UNCHANGED <<step, alive, flag, faults, conn, lock, leaked>>

\* The tab is closed.
Leave(p) ==
    /\ page[p].open
    /\ conn' = disconnect(p)
    /\ page' = [page EXCEPT ![p] = NoTab]
    /\ UNCHANGED <<step, alive, flag, faults, lock, leaked>>

\* The status, polled, has changed: the effect that follows connects or disconnects.
Poll(p) ==
    /\ page[p].open
    /\ \/ Running /\ ~page[p].running /\ connect(p)
       \/ /\ ~Running /\ page[p].running
          /\ conn' = disconnect(p)
          /\ page' = [page EXCEPT ![p] = [NoTab EXCEPT !.open = TRUE]]
    /\ UNCHANGED <<step, alive, flag, faults, lock, leaked>>

\* The timer of scheduleReconnect fires.
Fire(p) ==
    /\ page[p].timer
    /\ connect(p)
    /\ UNCHANGED <<step, alive, flag, faults, lock, leaked>>

\* The operator presses "Reconnect".
Reconnect(p) ==
    /\ page[p].running
    /\ Faulty
    /\ connect(p)
    /\ UNCHANGED <<step, alive, flag, lock, leaked>>

\* The "disconnect" listener: an RFB object that is no longer the tab's is ignored.
Disconnected(n) ==
    page' = [p \in Page |->
        IF page[p].rfb = n THEN [page[p] EXCEPT !.rfb = None, !.timer = TRUE] ELSE page[p]]

\* The browser is told that the API has closed the socket.
Told(n) ==
    /\ conn[n].at = "closed" /\ conn[n].here
    /\ Becomes(n, NoConn)
    /\ Disconnected(n)
    /\ UNCHANGED <<step, alive, flag, faults, lock, leaked>>

\* The network loses the socket.
Drop(n) ==
    /\ conn[n].here
    /\ Faulty
    /\ Becomes(n, [conn[n] EXCEPT !.here = FALSE, !.shown = FALSE])
    /\ Disconnected(n)
    /\ UNCHANGED <<step, alive, flag, lock, leaked>>

-----------------------------------------------------------------------------
Handle(n) ==
    Resolve(n) \/ Bridge(n) \/ NoEndpoint(n) \/ Shows(n) \/ Shutdown(n) \/ Notice(n) \/ Told(n)

DNext ==
    \/ Container
    \/ \E n \in Stream : Handle(n) \/ Drop(n)
    \/ \E p \in Page : Visit(p) \/ Leave(p) \/ Poll(p) \/ Fire(p) \/ Reconnect(p) \/ Take(p)
    \/ Release \/ Expire \/ Crash

DSpec == DInit /\ [][DNext]_dvars

\* The script, the API, the tabs that are open and the TTL go on. Nobody has to
\* open a tab, take or release control, or start a computer.
DFairness ==
    /\ WF_dvars(Container /\ Supervise)
    /\ \A n \in Stream : WF_dvars(Handle(n))
    /\ \A p \in Page : WF_dvars(Poll(p) \/ Fire(p))
    /\ WF_dvars(Expire)

DFairSpec == DSpec /\ DFairness

-----------------------------------------------------------------------------
(* Properties. *)

\* The container, the sockets, the tabs and the lock have the shape above.
DTypeOK ==
    /\ STypeOK
    /\ conn \in [Stream -> Conn]
    /\ page \in [Page -> Tab]
    /\ lock \in Page \cup {None}
    /\ leaked \subseteq Page

\* However its reconnections overlap, a tab has one live stream at most, the one
\* of its RFB object, and waits to connect only when it has none
\* (DesktopViewer.tsx, connect and scheduleReconnect).
OneStream ==
    \A p \in Page :
        /\ page[p].timer => page[p].rfb = None
        /\ \A n \in Stream : conn[n].here /\ conn[n].page = p => page[p].rfb = n

\* An open tab of a computer that keeps running sees its desktop again, whatever
\* component, socket or process was lost (xdigitex-desktop, DesktopViewer.tsx).
StreamReturns ==
    \A p \in Page :
        page[p].open ~>
            \/ ~Running \/ ~page[p].open
            \/ \E n \in Stream : n = page[p].rfb /\ conn[n].shown /\ conn[n].up = "open"

\* The lock of an operator whose tab is closed is freed, unless one of its sockets
\* was closed before the handler listened (control.ts, routes/desktop.ts).
AbandonedFreed ==
    \A p \in Page :
        lock = p /\ ~page[p].open ~> lock # p \/ page[p].open \/ p \in leaked

\* The lock of an operator whose tab is closed is freed ("an abandoned browser tab
\* releases the agent on its own", control.ts).
AbandonedTabReleases ==
    \A p \in Page : lock = p /\ ~page[p].open ~> lock # p \/ page[p].open

=============================================================================
