------------------------ MODULE DesktopStreamProofs ------------------------
(***************************************************************************)
(* What holds of DesktopStream for any number of operators, sockets and    *)
(* faults: the types, that a tab has one live stream at most, that the     *)
(* supervisor starts nothing twice, and that it forgets no restart.        *)
(***************************************************************************)
EXTENDS DesktopStream, TLAPS

\* What may run at each step of the script; the browser, wherever there is a
\* display.
MayRun ==
    CASE step \in {"off", "flag", "xvfb"} -> {}
      [] step \in {"wait", "vnc"} -> {"xvfb", "chromium"}
      [] step = "websockify" -> {"xvfb", "vnc", "chromium"}
      [] step = "session" -> {"xvfb", "vnc", "websockify", "chromium"}
      [] OTHER -> Component

SInv == STypeOK /\ alive \subseteq MayRun

-----------------------------------------------------------------------------
(* The supervisor. *)

\* The script starts with nothing running and keeps to what may run.
LEMMA SessionInit == SInit => SInv
<1>1. ASSUME SInit PROVE STypeOK
    BY <1>1 DEF SInit, STypeOK, Step
<1>2. ASSUME SInit PROVE alive \subseteq MayRun
    BY <1>2 DEF SInit
<1> QED
    BY <1>1, <1>2 DEF SInv

LEMMA SessionStep ==
    ASSUME SInv, SNext
    PROVE  SInv'
<1>t. /\ step \in Step /\ alive \subseteq Component /\ flag \in BOOLEAN /\ faults \in Nat
      /\ alive \subseteq MayRun
    BY DEF SInv, STypeOK
<1>f. Faulty => faults' \in Nat
    BY <1>t DEF Faulty
<1>l. ASSUME NEW x \in Component PROVE Launched(x) \subseteq alive \cup {x}
    BY DEF Launched
<1>1. CASE Begin \/ Boot \/ Halt
    BY <1>1, <1>t DEF Begin, Boot, Halt, SInv, STypeOK, Step, MayRun, Component
<1>2. CASE Launch("xvfb", "wait") \/ Launch("vnc", "websockify")
           \/ Launch("websockify", "session") \/ Launch("session", "chromium")
  <2>1. CASE Launch("xvfb", "wait")
      BY <2>1, <1>t, <1>l DEF Launch, SInv, STypeOK, Step, MayRun, Component
  <2>2. CASE Launch("vnc", "websockify")
      BY <2>2, <1>t, <1>l DEF Launch, SInv, STypeOK, Step, MayRun, Component
  <2>3. CASE Launch("websockify", "session")
      BY <2>3, <1>t, <1>l DEF Launch, SInv, STypeOK, Step, MayRun, Component
  <2>4. CASE Launch("session", "chromium")
      BY <2>4, <1>t, <1>l DEF Launch, SInv, STypeOK, Step, MayRun, Component
  <2> QED
      BY <1>2, <2>1, <2>2, <2>3, <2>4
<1>3. CASE LaunchBrowser
    BY <1>3, <1>t, <1>l DEF LaunchBrowser, Started, SInv, STypeOK, Step, MayRun, Component
<1>4. CASE Appears \/ Alarm \/ Cleanup
    BY <1>4, <1>t DEF Appears, Alarm, Cleanup, SInv, STypeOK, Step, MayRun, Component
<1>5. CASE NoX
    BY <1>5, <1>t, <1>f DEF NoX, GivesUp, SInv, STypeOK, Step, MayRun, Component
<1>6. CASE Touch
    BY <1>6, <1>t, <1>f DEF Touch, SInv, STypeOK, MayRun
<1>7. ASSUME NEW x \in Component, Die(x) PROVE SInv'
    BY <1>7, <1>t, <1>f DEF Die, SInv, STypeOK, MayRun
<1>8. CASE OpenBrowser
  <2>1. step \in {"wait", "vnc", "websockify", "session", "chromium", "watch", "cleanup"}
      BY <1>8, <1>t DEF OpenBrowser, Step, MayRun, Component
  <2>2. alive' \subseteq MayRun
      BY <1>8, <1>t, <1>l, <2>1 DEF OpenBrowser, MayRun, Component
  <2> QED
    <3>1. MayRun' = MayRun /\ MayRun \subseteq Component
        BY <1>8 DEF OpenBrowser, MayRun, Component
    <3> QED
        BY <1>8, <1>t, <2>2, <3>1 DEF OpenBrowser, SInv, STypeOK
<1> QED
    BY <1>1, <1>2, <1>3, <1>4, <1>5, <1>6, <1>7, <1>8 DEF SNext, Supervise

\* All other steps leave the container alone, but for the faults they count.
LEMMA Elsewhere ==
    ASSUME SInv, [DNext]_dvars
    PROVE  Container \/ (UNCHANGED <<step, alive, flag>> /\ faults' \in Nat)
<1>f. faults \in Nat /\ (Faulty => faults' \in Nat)
    BY DEF SInv, STypeOK, Faulty
<1>1. ASSUME NEW n \in Stream, Handle(n) \/ Drop(n)
      PROVE  UNCHANGED <<step, alive, flag>> /\ faults' \in Nat
    BY <1>1, <1>f DEF Handle, Resolve, Bridge, NoEndpoint, Shows, Shutdown, Notice, Told, Drop
<1>2. ASSUME NEW p \in Page,
             Visit(p) \/ Leave(p) \/ Poll(p) \/ Fire(p) \/ Reconnect(p) \/ Take(p)
      PROVE  UNCHANGED <<step, alive, flag>> /\ faults' \in Nat
    BY <1>2, <1>f DEF Visit, Leave, Poll, Fire, Reconnect, Take
<1>3. ASSUME Release \/ Expire \/ Crash \/ UNCHANGED dvars
      PROVE  UNCHANGED <<step, alive, flag>> /\ faults' \in Nat
    BY <1>3, <1>f DEF Release, Expire, Crash, dvars
<1> QED
    BY <1>1, <1>2, <1>3 DEF DNext

LEMMA SessionKept == SInv /\ [DNext]_dvars => SInv'
<1>1. ASSUME SInv, Container PROVE SInv'
    BY <1>1, SessionStep DEF Container
<1>2. ASSUME SInv, UNCHANGED <<step, alive, flag>>, faults' \in Nat PROVE SInv'
    BY <1>2 DEF SInv, STypeOK, MayRun
<1> QED
    BY <1>1, <1>2, Elsewhere

\* When a component is started none of its kind runs.
THEOREM OneSessionHolds == DSpec => []OneSession
<1>1. SInv => OneSession
    BY DEF SInv, STypeOK, MayRun, OneSession, Component
<1>2. DInit => SInv
    BY SessionInit DEF DInit
<1> QED
    BY <1>1, <1>2, SessionKept, PTL DEF DSpec

\* No restart that was asked for is forgotten while the old session runs.
THEOREM RestartNotForgotten == DSpec => RestartHonoured
<1>1. SInv /\ [DNext]_dvars => [flag /\ ~flag' => alive = {}]_svars
  <2> SUFFICES ASSUME SInv, [DNext]_dvars, flag, ~flag' PROVE alive = {}
      OBVIOUS
  <2>1. Container
      BY Elsewhere
  <2>2. SNext
      BY <2>1 DEF Container
  <2>3. Begin
      BY <2>2 DEF SNext, Supervise, Boot, Halt, Touch, OpenBrowser, Die, Launch, Appears, NoX,
                  LaunchBrowser, Started, Alarm, Cleanup
  <2> QED
      BY <2>3 DEF Begin, SInv, MayRun
<1>2. DInit => SInv
    BY SessionInit DEF DInit
<1> QED
    BY <1>1, <1>2, SessionKept, PTL DEF DSpec, RestartHonoured

-----------------------------------------------------------------------------
(* The sockets and the tabs. *)

\* A socket that is in use is a tab's.
Used == [at : Relay \ {"free"}, page : Page, here : BOOLEAN, shown : BOOLEAN,
         up : {"none", "opening", "open", "lost"}]

ConnInv == conn \in [Stream -> Used \cup {NoConn}]

DInv == SInv /\ DTypeOK /\ ConnInv

\* A socket in use is a socket, and one that is not free is in use.
LEMMA UsedTypes ==
    /\ Used \subseteq Conn /\ NoConn \in Conn /\ NoTab \in Tab
    /\ NoConn.at = "free" /\ ~NoConn.here
    /\ ConnInv => \A n \in Stream : conn[n].at # "free" \/ conn[n].here => conn[n] \in Used
<1>1. Used \subseteq Conn
    BY DEF Used, Conn
<1>2. NoConn \in Conn /\ NoTab \in Tab /\ NoConn.at = "free" /\ ~NoConn.here
    BY DEF NoConn, NoTab, Conn, Tab, Relay
<1>3. ASSUME ConnInv, NEW n \in Stream, conn[n].at # "free" \/ conn[n].here
      PROVE  conn[n] \in Used
    BY <1>2, <1>3 DEF ConnInv
<1> QED
    BY <1>1, <1>2, <1>3

\* What a tab's disconnection and a new connection leave are sockets and tabs.
LEMMA TabTypes ==
    ASSUME DTypeOK, ConnInv, NEW p \in Page
    PROVE  /\ disconnect(p) \in [Stream -> Used \cup {NoConn}]
           /\ connect(p) => ConnInv' /\ page' \in [Page -> Tab]
<1>t. conn \in [Stream -> Used \cup {NoConn}] /\ page \in [Page -> Tab]
    BY DEF DTypeOK, ConnInv
<1>1. \A n \in Stream : conn[n].here =>
          [conn[n] EXCEPT !.here = FALSE, !.shown = FALSE] \in Used
    BY <1>t, UsedTypes DEF Used
<1>2. disconnect(p) \in [Stream -> Used \cup {NoConn}]
    BY <1>t, <1>1 DEF disconnect, Hungup
<1>3. ASSUME NEW n \in Stream,
             conn' = [disconnect(p) EXCEPT ![n] =
                         [NoConn EXCEPT !.at = "computer", !.page = p, !.here = TRUE]],
             page' = [page EXCEPT ![p].rfb = n, ![p].timer = FALSE, ![p].running = TRUE]
      PROVE  ConnInv' /\ page' \in [Page -> Tab]
  <2>1. [NoConn EXCEPT !.at = "computer", !.page = p, !.here = TRUE] \in Used
      BY DEF NoConn, Used, Relay
  <2>2. [page[p] EXCEPT !.rfb = n, !.timer = FALSE, !.running = TRUE] \in Tab
      BY <1>t DEF Tab
  <2>3. page' = [page EXCEPT ![p] = [page[p] EXCEPT !.rfb = n, !.timer = FALSE, !.running = TRUE]]
      BY <1>3
  <2>4. ConnInv'
      BY <1>2, <1>3, <2>1 DEF ConnInv
  <2> QED
      BY <1>t, <2>2, <2>3, <2>4
<1> QED
    BY <1>2, <1>3 DEF connect

\* A step of a handler or of the network.
LEMMA HandlerTyped ==
    ASSUME DTypeOK, ConnInv, NEW n \in Stream, Handle(n) \/ Drop(n)
    PROVE  /\ ConnInv' /\ page' \in [Page -> Tab]
           /\ lock' = lock /\ leaked' \subseteq Page
<1>t. /\ conn \in [Stream -> Used \cup {NoConn}] /\ page \in [Page -> Tab]
      /\ leaked \subseteq Page
    BY DEF DTypeOK, ConnInv
<1>n. conn[n].at # "free" \/ conn[n].here
    BY DEF Handle, Resolve, Bridge, NoEndpoint, Shows, Shutdown, Notice, Told, Drop
<1>u. conn[n] \in Used
    BY <1>n, UsedTypes
<1>c. Closed(n) \in Used \cup {NoConn}
    BY <1>u DEF Closed, Used, Relay
<1>b. ASSUME NEW c \in Used \cup {NoConn}, Becomes(n, c) PROVE ConnInv'
    BY <1>b, <1>t DEF Becomes, ConnInv
<1>d. Disconnected(n) => page' \in [Page -> Tab]
  <2>1. \A p \in Page : [page[p] EXCEPT !.rfb = None, !.timer = TRUE] \in Tab
      BY <1>t DEF Tab
  <2> QED
      BY <1>t, <2>1 DEF Disconnected
<1>1. CASE Resolve(n)
  <2>1. [conn[n] EXCEPT !.at = "endpoint"] \in Used
      BY <1>u DEF Used, Relay
  <2> QED
      BY <1>1, <1>t, <1>b, <1>c, <2>1 DEF Resolve
<1>2. CASE Bridge(n)
  <2>1. [conn[n] EXCEPT !.at = "relay", !.up = "opening"] \in Used /\ conn[n].page \in Page
      BY <1>u DEF Used, Relay
  <2> QED
      BY <1>2, <1>t, <1>b, <2>1 DEF Bridge
<1>3. CASE NoEndpoint(n) \/ Shutdown(n)
    BY <1>3, <1>t, <1>b, <1>c DEF NoEndpoint, Shutdown
<1>4. CASE Shows(n)
  <2>1. [conn[n] EXCEPT !.up = "open", !.shown = (conn[n].up = "open")] \in Used
      BY <1>u DEF Used
  <2> QED
      BY <1>4, <1>t, <1>b, <2>1 DEF Shows
<1>5. CASE Notice(n)
    BY <1>5, <1>t, <1>b DEF Notice, Ends
<1>6. CASE Told(n)
    BY <1>6, <1>t, <1>b, <1>d DEF Told
<1>7. CASE Drop(n)
  <2>1. [conn[n] EXCEPT !.here = FALSE, !.shown = FALSE] \in Used
      BY <1>u DEF Used
  <2> QED
      BY <1>7, <1>t, <1>b, <1>d, <2>1 DEF Drop
<1> QED
    BY <1>1, <1>2, <1>3, <1>4, <1>5, <1>6, <1>7 DEF Handle

\* Any other step.
LEMMA OthersTyped ==
    ASSUME DTypeOK, ConnInv,
           \/ Container \/ Release \/ Expire \/ Crash \/ UNCHANGED dvars
           \/ \E p \in Page :
                 Visit(p) \/ Leave(p) \/ Poll(p) \/ Fire(p) \/ Reconnect(p) \/ Take(p)
    PROVE  /\ ConnInv' /\ page' \in [Page -> Tab]
           /\ lock' \in Page \cup {None} /\ leaked' \subseteq Page
<1>t. /\ conn \in [Stream -> Used \cup {NoConn}] /\ page \in [Page -> Tab]
      /\ leaked \subseteq Page /\ lock \in Page \cup {None}
    BY DEF DTypeOK, ConnInv
<1>1. CASE Container
  <2>1. \A n \in Stream : conn[n].up = "open" => [conn[n] EXCEPT !.up = "lost"] \in Used
    <3>1. NoConn.up # "open"
        BY DEF NoConn
    <3> QED
        BY <1>t, <3>1 DEF Used
  <2>2. ConnInv'
      BY <1>1, <1>t, <2>1 DEF Container, ConnInv
  <2> QED
      BY <1>1, <1>t, <2>2 DEF Container
<1>2. CASE Crash
  <2>1. \A n \in Stream : conn[n].here =>
            [conn[n] EXCEPT !.at = "closed", !.up = "none"] \in Used
      BY <1>t, UsedTypes DEF Used, Relay
  <2>2. ConnInv'
      BY <1>2, <1>t, <2>1 DEF Crash, ConnInv
  <2> QED
      BY <1>2, <1>t, <2>2 DEF Crash
<1>3. CASE Release \/ Expire \/ UNCHANGED dvars
    BY <1>3, <1>t DEF Release, Expire, dvars, ConnInv
<1>4. ASSUME NEW p \in Page, Visit(p) \/ Take(p)
      PROVE  /\ ConnInv' /\ page' \in [Page -> Tab]
             /\ lock' \in Page \cup {None} /\ leaked' \subseteq Page
  <2>1. [page[p] EXCEPT !.open = TRUE] \in Tab
      BY <1>t DEF Tab
  <2>2. CASE Visit(p)
      BY <2>2, <1>t, <2>1 DEF Visit, ConnInv
  <2>3. CASE Take(p)
      BY <2>3, <1>t DEF Take, ConnInv
  <2> QED
      BY <1>4, <2>2, <2>3
<1>5. ASSUME NEW p \in Page, Leave(p) \/ Poll(p) \/ Fire(p) \/ Reconnect(p)
      PROVE  /\ ConnInv' /\ page' \in [Page -> Tab]
             /\ lock' \in Page \cup {None} /\ leaked' \subseteq Page
  <2>1. UNCHANGED <<lock, leaked>>
      BY <1>5 DEF Leave, Poll, Fire, Reconnect
  <2>2. \/ connect(p)
        \/ /\ conn' = disconnect(p)
           /\ \E t \in {NoTab, [NoTab EXCEPT !.open = TRUE]} : page' = [page EXCEPT ![p] = t]
      BY <1>5 DEF Leave, Poll, Fire, Reconnect
  <2>3. [NoTab EXCEPT !.open = TRUE] \in Tab /\ NoTab \in Tab
      BY DEF NoTab, Tab
  <2>4. ConnInv' /\ page' \in [Page -> Tab]
      BY <2>2, <2>3, <1>t, TabTypes DEF ConnInv
  <2> QED
      BY <1>t, <2>1, <2>4
<1> QED
    BY <1>1, <1>2, <1>3, <1>4, <1>5

LEMMA DInvStart == DInit => DInv
<1>1. ASSUME DInit PROVE SInv
    BY <1>1, SessionInit DEF DInit
<1> QED
    BY <1>1, UsedTypes DEF DInit, DInv, SInv, DTypeOK, ConnInv

LEMMA DInvStep == DInv /\ [DNext]_dvars => DInv'
<1> SUFFICES ASSUME DInv, [DNext]_dvars PROVE DInv'
    OBVIOUS
<1>1. SInv'
    BY SessionKept DEF DInv
<1>2. /\ ConnInv' /\ page' \in [Page -> Tab]
      /\ lock' \in Page \cup {None} /\ leaked' \subseteq Page
  <2>1. ASSUME NEW n \in Stream, Handle(n) \/ Drop(n)
        PROVE  /\ ConnInv' /\ page' \in [Page -> Tab]
               /\ lock' \in Page \cup {None} /\ leaked' \subseteq Page
      BY <2>1, HandlerTyped DEF DInv, DTypeOK
  <2> QED
      BY <2>1, OthersTyped DEF DInv, DNext
<1>3. conn' \in [Stream -> Conn]
    BY <1>2, UsedTypes DEF ConnInv
<1> QED
    BY <1>1, <1>2, <1>3 DEF DInv, DTypeOK, SInv

\* The types are right in every state.
THEOREM StreamTypes == DSpec => []DTypeOK
<1>1. DInv => DTypeOK
    BY DEF DInv
<1> QED
    BY <1>1, DInvStart, DInvStep, PTL DEF DSpec

\* However it reconnects, a tab has one live stream at most.
THEOREM OneStreamHolds == DSpec => []OneStream
<1>1. DInit => OneStream
    BY DEF DInit, OneStream, NoConn, NoTab
<1>2. DInv /\ OneStream /\ [DNext]_dvars => OneStream'
  <2> SUFFICES ASSUME DInv, OneStream, [DNext]_dvars PROVE OneStream'
      OBVIOUS
  <2>t. /\ conn \in [Stream -> Conn] /\ page \in [Page -> Tab] /\ None \notin Stream
        /\ None \notin Page /\ ConnInv /\ DTypeOK
      BY StreamAssumption DEF DInv, DTypeOK
  <2>k. ASSUME UNCHANGED page,
               \A n \in Stream : conn'[n].here =>
                   conn[n].here /\ conn'[n].page = conn[n].page
        PROVE  OneStream'
      BY <2>k DEF OneStream
  <2>b. ASSUME NEW n \in Stream, NEW c \in Conn, Becomes(n, c)
        PROVE  conn'[n] = c /\ \A m \in Stream : m # n => conn'[m] = conn[m]
      BY <2>b, <2>t DEF Becomes
  <2>1. ASSUME NEW n \in Stream,
               Resolve(n) \/ Bridge(n) \/ NoEndpoint(n) \/ Shows(n) \/ Shutdown(n) \/ Notice(n)
        PROVE  OneStream'
    <3>1. conn[n] \in Used
        BY <2>1, <2>t, UsedTypes DEF Resolve, Bridge, NoEndpoint, Shows, Shutdown, Notice
    <3>2. PICK c : /\ Becomes(n, c)
                   /\ c.here => conn[n].here /\ c.page = conn[n].page
      <4>1. /\ Closed(n).here => conn[n].here /\ Closed(n).page = conn[n].page
            /\ ~NoConn.here
          BY <3>1 DEF Closed, Used, NoConn
      <4>2. CASE Resolve(n)
        <5>1. LET c == [conn[n] EXCEPT !.at = "endpoint"]
              IN  c.here => conn[n].here /\ c.page = conn[n].page
            BY <3>1 DEF Used
        <5> QED
            BY <4>1, <4>2, <5>1 DEF Resolve
      <4>3. CASE Bridge(n)
        <5>1. LET c == [conn[n] EXCEPT !.at = "relay", !.up = "opening"]
              IN  c.here => conn[n].here /\ c.page = conn[n].page
            BY <3>1 DEF Used
        <5> QED
            BY <4>1, <4>3, <5>1 DEF Bridge
      <4>4. CASE Shows(n)
        <5>1. LET c == [conn[n] EXCEPT !.up = "open", !.shown = (conn[n].up = "open")]
              IN  c.here => conn[n].here /\ c.page = conn[n].page
            BY <3>1 DEF Used
        <5> QED
            BY <4>4, <5>1 DEF Shows
      <4>5. CASE NoEndpoint(n) \/ Shutdown(n)
          BY <4>1, <4>5 DEF NoEndpoint, Shutdown
      <4>6. CASE Notice(n)
          BY <4>1, <4>6 DEF Notice, Ends
      <4> QED
          BY <2>1, <4>2, <4>3, <4>4, <4>5, <4>6
    <3>3. conn'[n] = c /\ \A m \in Stream : m # n => conn'[m] = conn[m]
        BY <3>2, <2>t DEF Becomes
    <3>4. UNCHANGED page
        BY <2>1 DEF Resolve, Bridge, NoEndpoint, Shows, Shutdown, Notice
    <3> QED
        BY <3>2, <3>3, <3>4, <2>k
  <2>2. ASSUME NEW n \in Stream, Told(n) \/ Drop(n) PROVE OneStream'
    <3>1. conn[n] \in Used
        BY <2>2, <2>t, UsedTypes DEF Told, Drop
    <3>2. ~conn'[n].here /\ \A m \in Stream : m # n => conn'[m] = conn[m]
      <4>1. CASE Told(n)
          BY <2>b, <4>1, UsedTypes DEF Told
      <4>2. CASE Drop(n)
        <5>1. LET c == [conn[n] EXCEPT !.here = FALSE, !.shown = FALSE]
              IN  c \in Used /\ ~c.here
            BY <3>1 DEF Used
        <5> QED
            BY <2>b, <4>2, <5>1, UsedTypes DEF Drop
      <4> QED
          BY <2>2, <4>1, <4>2
    <3>3. \A p \in Page :
              \/ page[p].rfb = n /\ page'[p].rfb = None
              \/ page[p].rfb # n /\ page'[p] = page[p]
      <4>1. page' = [p \in Page |->
                IF page[p].rfb = n THEN [page[p] EXCEPT !.rfb = None, !.timer = TRUE]
                ELSE page[p]]
          BY <2>2 DEF Told, Drop, Disconnected
      <4>2. SUFFICES ASSUME NEW p \in Page
                     PROVE  \/ page[p].rfb = n /\ page'[p].rfb = None
                            \/ page[p].rfb # n /\ page'[p] = page[p]
          OBVIOUS
      <4>3. page[p] \in Tab
          BY <2>t
      <4>4. CASE page[p].rfb = n
        <5>1. page'[p] = [page[p] EXCEPT !.rfb = None, !.timer = TRUE]
            BY <4>1, <4>4
        <5> QED
            BY <4>3, <4>4, <5>1 DEF Tab
      <4> QED
          BY <4>1, <4>4
    <3> QED
        BY <3>2, <3>3 DEF OneStream
  <2>3. ASSUME NEW p \in Page, Leave(p) \/ Poll(p) \/ Fire(p) \/ Reconnect(p)
        PROVE  OneStream'
    <3>1. \A n \in Stream :
              /\ disconnect(p)[n].here =>
                    n # page[p].rfb /\ conn[n].here /\ disconnect(p)[n].page = conn[n].page
      <4>1. SUFFICES ASSUME NEW n \in Stream, disconnect(p)[n].here
                     PROVE  /\ n # page[p].rfb /\ conn[n].here
                            /\ disconnect(p)[n].page = conn[n].page
          OBVIOUS
      <4>2. CASE n = page[p].rfb /\ conn[n].here
        <5>1. disconnect(p)[n] = [conn[n] EXCEPT !.here = FALSE, !.shown = FALSE]
            BY <4>2 DEF disconnect, Hungup
        <5>2. conn[n] \in Used
            BY <4>2, <2>t, UsedTypes
        <5> QED
            BY <4>1, <5>1, <5>2 DEF Used
      <4> QED
          BY <4>1, <4>2 DEF disconnect, Hungup
    <3>2. \A n \in Stream : disconnect(p)[n].here => disconnect(p)[n].page # p
        BY <3>1 DEF OneStream
    <3>3. CASE connect(p)
      <4>1. PICK n \in Stream :
                /\ conn' = [disconnect(p) EXCEPT ![n] =
                       [NoConn EXCEPT !.at = "computer", !.page = p, !.here = TRUE]]
                /\ page' = [page EXCEPT ![p].rfb = n, ![p].timer = FALSE, ![p].running = TRUE]
          BY <3>3 DEF connect
      <4>2. /\ conn'[n].page = p
            /\ \A m \in Stream : m # n => conn'[m] = disconnect(p)[m]
          BY <4>1, <2>t, TabTypes DEF NoConn
      <4>3. /\ page'[p].rfb = n /\ ~page'[p].timer
            /\ \A q \in Page : q # p => page'[q] = page[q]
          BY <4>1, <2>t DEF Tab
      <4> QED
          BY <3>1, <3>2, <4>2, <4>3 DEF OneStream
    <3>4. CASE /\ conn' = disconnect(p)
               /\ \E t \in {NoTab, [NoTab EXCEPT !.open = TRUE]} : page' = [page EXCEPT ![p] = t]
      <4>1. /\ page'[p].rfb = None /\ ~page'[p].timer
            /\ \A q \in Page : q # p => page'[q] = page[q]
          BY <3>4, <2>t DEF NoTab
      <4> QED
          BY <3>1, <3>2, <3>4, <4>1 DEF OneStream
    <3> QED
        BY <2>3, <3>3, <3>4 DEF Leave, Poll, Fire, Reconnect
  <2>4. ASSUME NEW p \in Page, Visit(p) PROVE OneStream'
    <3>1. /\ page'[p].rfb = page[p].rfb /\ page'[p].timer = page[p].timer
          /\ \A q \in Page : q # p => page'[q] = page[q]
        BY <2>4, <2>t DEF Visit, Tab
    <3> QED
        BY <2>4, <3>1 DEF OneStream, Visit
  <2>5. CASE Container \/ Crash
    <3>1. \A n \in Stream : conn'[n].here => conn[n].here /\ conn'[n].page = conn[n].page
      <4>1. SUFFICES ASSUME NEW n \in Stream, conn'[n].here
                     PROVE  conn[n].here /\ conn'[n].page = conn[n].page
          OBVIOUS
      <4>2. CASE conn[n] \in Used
        <5>1. /\ [conn[n] EXCEPT !.up = "lost"].here = conn[n].here
              /\ [conn[n] EXCEPT !.up = "lost"].page = conn[n].page
              /\ [conn[n] EXCEPT !.at = "closed", !.up = "none"].here = conn[n].here
              /\ [conn[n] EXCEPT !.at = "closed", !.up = "none"].page = conn[n].page
            BY <4>2 DEF Used
        <5>2. CASE Container
          <6>1. \/ conn'[n] = [conn[n] EXCEPT !.up = "lost"]
                \/ conn'[n] = conn[n]
              BY <5>2 DEF Container
          <6> QED
              BY <4>1, <5>1, <6>1
        <5>3. CASE Crash
          <6>1. \/ conn'[n] = [conn[n] EXCEPT !.at = "closed", !.up = "none"]
                \/ conn'[n] = NoConn
              BY <5>3 DEF Crash
          <6> QED
              BY <4>1, <5>1, <6>1, UsedTypes
        <5> QED
            BY <2>5, <5>2, <5>3
      <4>3. CASE conn[n] = NoConn
          BY <2>5, <4>1, <4>3 DEF Container, Crash, NoConn
      <4> QED
          BY <2>t, <4>2, <4>3 DEF ConnInv
    <3> QED
        BY <2>5, <3>1, <2>k DEF Container, Crash
  <2>6. CASE Release \/ Expire \/ UNCHANGED dvars \/ \E p \in Page : Take(p)
      BY <2>6, <2>k DEF Release, Expire, dvars, Take
  <2> QED
      BY <2>1, <2>2, <2>3, <2>4, <2>5, <2>6 DEF DNext, Handle
<1> QED
    BY <1>1, <1>2, DInvStart, DInvStep, PTL DEF DSpec
=============================================================================
