------------------------- MODULE ActivityFeedProofs -------------------------
(***************************************************************************)
(* What holds of ActivityFeed for any number of computers, pages, sockets, *)
(* events and faults: the types, that a page shows the newest of what it   *)
(* was sent, that a socket carries its own computer's events only, that    *)
(* only another socket's end makes an attached one deaf, and that all of   *)
(* it implements FeedContract.                                             *)
(***************************************************************************)
EXTENDS ActivityFeed, TLAPS, FiniteSetTheorems, SequenceTheorems, WellFoundedInduction

\* The commands are those of sockets that were opened.
CommandsOpen == \A i \in DOMAIN commands : socket[commands[i].by].pc # "free"

FInv == FTypeOK /\ CommandsOpen

\* A subscription is awaited by the one socket that asked for it, and a channel
\* is left by a socket that is gone.
CommandsFit ==
    /\ \A i \in DOMAIN commands :
          socket[commands[i].by].pc =
              IF commands[i].op = "subscribe" THEN "subscribe" ELSE "gone"
    /\ \A i, j \in DOMAIN commands :
          commands[i].op = "subscribe" /\ commands[j].by = commands[i].by => i = j

\* Another socket of the same computer is gone.
Left(s) ==
    \E t \in Socket \ {s} : socket[t].pc = "gone" /\ socket[t].of = socket[s].of

\* A socket whose subscription Redis has taken is tuned, or another one left.
TunedOrLeft ==
    \A s \in Socket :
        /\ socket[s].pc = "attached" \/ (socket[s].pc = "subscribe" /\ Subscribed(s))
        /\ socket[s].of \notin tuned
        => Left(s)

DeafInv == CommandsFit /\ TunedOrLeft

-----------------------------------------------------------------------------
(* The newest of a set of events. *)

\* A set of events that is not empty has a newest one.
LEMMA NewestOf ==
    ASSUME NEW G \in SUBSET Event, G # {}
    PROVE  \E g \in G : \A h \in G : ~(h > g)
<1>0. MaxEvents \in Nat /\ Event \subseteq Nat
    BY FeedAssumption DEF Event
<1>1. DEFINE D == {MaxEvents - g : g \in G}
<1>2. D \in SUBSET Nat
    BY <1>0 DEF Event
<1>3. D # {}
    OBVIOUS
<1>a. \E d \in D : \A c \in D : ~(<<c, d>> \in OpToRel(<, Nat))
    <2> HIDE DEF D
    <2> QED BY <1>2, <1>3, WFMin, NatLessThanWellFounded, Zenon
<1>b. \A c, d \in Nat : c < d => <<c, d>> \in OpToRel(<, Nat)
    BY DEF OpToRel
<1>4. PICK d \in D : \A c \in D : d <= c
    <2> HIDE DEF D
    <2>1. PICK d \in D : \A c \in D : ~(<<c, d>> \in OpToRel(<, Nat))
        BY <1>a
    <2>2. \A c \in D : c \in Nat /\ d \in Nat
        BY <1>2
    <2>3. \A c \in D : ~(c < d)
        BY <2>1, <2>2, <1>b, Zenon
    <2> QED
        BY <2>2, <2>3
<1>5. PICK g \in G : d = MaxEvents - g
    BY <1>4
<1>6. \A h \in G : ~(h > g)
    BY <1>0, <1>4, <1>5
<1> QED
    BY <1>6

\* Events are finitely many, and fewer in a part of a set.
LEMMA FewerEvents ==
    ASSUME NEW A \in SUBSET Event, NEW B \in SUBSET A
    PROVE  /\ Cardinality(A) \in Nat /\ Cardinality(B) \in Nat
           /\ Cardinality(B) <= Cardinality(A)
<1>1. IsFiniteSet(Event)
    BY FS_Interval, FeedAssumption DEF Event
<1>2. IsFiniteSet(A)
    BY <1>1, FS_Subset
<1>3. IsFiniteSet(B) /\ Cardinality(B) <= Cardinality(A)
    BY <1>2, FS_Subset
<1> QED
    BY <1>2, <1>3, FS_CardinalityType

\* Cutting a list and then adding to it shows what cutting the whole would.
LEMMA NewestOfNewest ==
    ASSUME NEW A \in SUBSET Event, NEW B \in SUBSET Event, NEW n \in Nat
    PROVE  Newest(n, Newest(n, A) \cup B) = Newest(n, A \cup B)
<1> DEFINE N == Newest(n, A)
           R == N \cup B
           T == A \cup B
           Above(S, e) == {f \in S : f > e}
<1>1. N \subseteq A /\ R \subseteq T /\ T \subseteq Event
    BY DEF Newest
<1>2. \A S \in SUBSET Event : \A e : Above(S, e) \in SUBSET Event
    OBVIOUS
<1>3. ASSUME NEW e \in Newest(n, T) PROVE e \in Newest(n, R)
  <2>1. e \in T /\ Cardinality(Above(T, e)) < n
      BY <1>3 DEF Newest
  <2>2. e \in R
    <3>1. CASE e \in B
        BY <3>1
    <3>2. CASE e \in A
      <4>1. Above(A, e) \subseteq Above(T, e)
          OBVIOUS
      <4>2. Cardinality(Above(A, e)) < n
          BY <2>1, <4>1, <1>1, <1>2, FewerEvents
      <4> QED
          BY <3>2, <4>2 DEF Newest
    <3> QED
        BY <2>1, <3>1, <3>2
  <2>3. Above(R, e) \subseteq Above(T, e)
      BY <1>1
  <2>4. Cardinality(Above(R, e)) < n
      BY <2>1, <2>3, <1>1, <1>2, FewerEvents
  <2> QED
      BY <2>2, <2>4 DEF Newest
<1>4. ASSUME NEW e \in Newest(n, R) PROVE e \in Newest(n, T)
  <2>1. e \in R /\ e \in T /\ Cardinality(Above(R, e)) < n
      BY <1>4, <1>1 DEF Newest
  <2>2. CASE Above(T, e) = Above(R, e)
      BY <2>1, <2>2 DEF Newest
  <2>3. CASE Above(T, e) # Above(R, e)
    <3> DEFINE G == {g \in A \ N : g > e}
    <3>1. G # {}
        BY <2>3, <1>1
    <3>2. PICK g \in G : \A h \in G : ~(h > g)
        BY <3>1, NewestOf
    <3>3. Above(A, g) \subseteq Above(R, e)
      <4> SUFFICES ASSUME NEW f \in A, f > g PROVE f \in R /\ f > e
          OBVIOUS
      <4>1. f > e
          BY <3>2, <2>1, <1>1 DEF Event
      <4>2. f \in N
          BY <4>1, <3>2
      <4> QED
          BY <4>1, <4>2
    <3>4. Cardinality(Above(A, g)) < n
        BY <2>1, <3>3, <1>1, <1>2, FewerEvents
    <3>5. g \in N
        BY <3>4 DEF Newest
    <3> QED
        BY <3>5
  <2> QED
      BY <2>2, <2>3
<1> QED
    BY <1>3, <1>4, Zenon DEF Newest

-----------------------------------------------------------------------------
(* Types. *)

\* What a sequence of commands is without its head, and with one more.
LEMMA Commands ==
    ASSUME NEW q \in Seq(Command)
    PROVE  /\ q # <<>> =>
                 /\ Head(q) \in Command /\ 1 \in DOMAIN q /\ Head(q) = q[1]
                 /\ Tail(q) \in Seq(Command)
                 /\ \A i \in DOMAIN Tail(q) :
                        i + 1 \in DOMAIN q /\ i + 1 # 1 /\ Tail(q)[i] = q[i + 1]
                 /\ \A i \in DOMAIN q : i # 1 =>
                        i - 1 \in DOMAIN Tail(q) /\ Tail(q)[i - 1] = q[i]
           /\ \A m \in Command :
                 /\ Append(q, m) \in Seq(Command)
                 /\ DOMAIN Append(q, m) = DOMAIN q \cup {Len(q) + 1}
                 /\ Len(q) + 1 \notin DOMAIN q
                 /\ \A i \in DOMAIN q : Append(q, m)[i] = q[i]
                 /\ Append(q, m)[Len(q) + 1] = m
           /\ \A i \in DOMAIN q : q[i] \in Command /\ i \in Nat
<1>1. ASSUME q # <<>>
      PROVE  /\ Head(q) \in Command /\ 1 \in DOMAIN q /\ Head(q) = q[1]
             /\ Tail(q) \in Seq(Command)
             /\ \A i \in DOMAIN Tail(q) :
                    i + 1 \in DOMAIN q /\ i + 1 # 1 /\ Tail(q)[i] = q[i + 1]
             /\ \A i \in DOMAIN q : i # 1 =>
                    i - 1 \in DOMAIN Tail(q) /\ Tail(q)[i - 1] = q[i]
  <2>1. Head(q) \in Command /\ Tail(q) \in Seq(Command)
      BY <1>1, HeadTailProperties, Zenon
  <2>2. Len(Tail(q)) = Len(q) - 1 /\ \A i \in 1..Len(Tail(q)) : Tail(q)[i] = q[i + 1]
      BY <1>1, HeadTailProperties, Zenon
  <2>3. Len(q) \in Nat /\ Len(q) # 0 /\ DOMAIN q = 1..Len(q) /\ Head(q) = q[1]
      BY <1>1
  <2>4. DOMAIN Tail(q) = 1..Len(Tail(q))
      BY <2>1
  <2> QED
      BY <2>1, <2>2, <2>3, <2>4
<1>2. ASSUME NEW m \in Command
      PROVE  /\ Append(q, m) \in Seq(Command)
             /\ DOMAIN Append(q, m) = DOMAIN q \cup {Len(q) + 1}
             /\ Len(q) + 1 \notin DOMAIN q
             /\ \A i \in DOMAIN q : Append(q, m)[i] = q[i]
             /\ Append(q, m)[Len(q) + 1] = m
  <2>1. Append(q, m) \in Seq(Command) /\ Len(Append(q, m)) = Len(q) + 1
      BY AppendProperties, Zenon
  <2>2. \A i \in 1..Len(q) : Append(q, m)[i] = q[i]
      BY AppendProperties
  <2>3. Append(q, m)[Len(q) + 1] = m
      BY AppendProperties
  <2>4. DOMAIN q = 1..Len(q) /\ Len(q) \in Nat
      OBVIOUS
  <2>5. DOMAIN Append(q, m) = 1..Len(Append(q, m))
      BY <2>1
  <2> QED
      BY <2>1, <2>2, <2>3, <2>4, <2>5
<1> QED
    BY <1>1, <1>2

\* The parts of an events socket, and what a lost connection leaves of it.
LEMMA SocketTypes ==
    ASSUME FTypeOK, NEW s \in Socket
    PROVE  /\ socket[s].pc = "free" <=> socket[s] = NoConn
           /\ socket[s].pc # "free" => socket[s] \in Handled
           /\ socket[s].up => socket[s].pc # "free"
           /\ socket[s].pc # "free" =>
                 /\ Hangup(socket[s]) \in Handled
                 /\ Hangup(socket[s]).pc = socket[s].pc
                 /\ Hangup(socket[s]).of = socket[s].of
<1>1. socket[s] \in Conn
    BY DEF FTypeOK
<1>2. NoConn.pc = "free" /\ ~NoConn.up
    BY DEF NoConn
<1>3. CASE socket[s] = NoConn
    BY <1>2, <1>3
<1>4. CASE socket[s] \in Handled
  <2>1. socket[s].pc \in Handler
      BY <1>4 DEF Handled
  <2>2. Hangup(socket[s]) \in Handled /\ Hangup(socket[s]).pc = socket[s].pc
        /\ Hangup(socket[s]).of = socket[s].of
      BY <1>4 DEF Handled, Hangup
  <2> QED
      BY <1>2, <1>4, <2>1, <2>2 DEF Handler
<1> QED
    BY <1>1, <1>3, <1>4 DEF Conn

\* The newest are some of the whole.
LEMMA NewestPart == \A n, S : Newest(n, S) \subseteq S
BY DEF Newest

\* A page with more events is a page.
LEMMA MergeTypes ==
    ASSUME NEW t \in Tab, NEW S \in SUBSET Event
    PROVE  /\ Merge(t, S) \in Tab
           /\ Merge(t, S).events = Newest(MAX_ACTIVITY, t.events \cup S)
           /\ Merge(t, S).got = t.got \cup S
<1>1. Kept(t.events \cup S) \in SUBSET Event
    BY NewestPart DEF Kept, Tab
<1> QED
    BY <1>1 DEF Merge, Tab, Kept

\* Nothing is open at first.
LEMMA InitTyped == FInit => FInv
<1>1. NoTab \in Tab /\ NoConn \in Conn
    BY DEF NoTab, Tab, Conn
<1>2. <<>> \in Seq(Command) /\ DOMAIN <<>> = {}
    OBVIOUS
<1> QED
    BY <1>1, <1>2 DEF FInit, FInv, FTypeOK, CommandsOpen, Stage

\* A step of an opened socket keeps its shape, and its commands' sockets open.
LEMMA SocketStep ==
    ASSUME FInv, NEW s \in Socket, NEW c \in Handled,
           socket' = [socket EXCEPT ![s] = c]
    PROVE  /\ socket' \in [Socket -> Conn]
           /\ \A t \in Socket : socket[t].pc # "free" => socket'[t].pc # "free"
           /\ socket'[s].pc # "free"
<1>1. c \in Conn /\ c.pc # "free"
    BY DEF Conn, Handled, Handler
<1> QED
    BY <1>1 DEF FInv, FTypeOK

\* What the sockets that were opened do to the commands.
LEMMA CommandsStep ==
    ASSUME FInv, FTypeOK',
           \A t \in Socket : socket[t].pc # "free" => socket'[t].pc # "free",
           \/ commands' = commands
           \/ commands # <<>> /\ commands' = Tail(commands)
           \/ commands' = <<>>
           \/ \E m \in Command : socket[m.by].pc # "free" /\ commands' = Append(commands, m)
    PROVE  CommandsOpen'
<1>1. commands \in Seq(Command) /\ CommandsOpen
    BY DEF FInv, FTypeOK
<1>2. \A i \in DOMAIN commands : commands[i].by \in Socket
    BY <1>1, Commands DEF Command
<1>3. \A i \in DOMAIN commands : socket'[commands[i].by].pc # "free"
    BY <1>1, <1>2 DEF CommandsOpen
<1>4. CASE commands' = commands
    BY <1>3, <1>4 DEF CommandsOpen
<1>5. CASE commands # <<>> /\ commands' = Tail(commands)
    BY <1>1, <1>3, <1>5, Commands DEF CommandsOpen
<1>6. CASE commands' = <<>>
    BY <1>6 DEF CommandsOpen
<1>7. ASSUME NEW m \in Command, socket[m.by].pc # "free", commands' = Append(commands, m)
      PROVE  CommandsOpen'
  <2>1. socket'[m.by].pc # "free"
      BY <1>7 DEF Command
  <2> QED
      BY <1>1, <1>3, <1>7, <2>1, Commands DEF CommandsOpen
<1> QED
    BY <1>4, <1>5, <1>6, <1>7

\* A step of Redis, of an event, or of the API as a whole.
LEMMA HubTyped ==
    ASSUME FInv,
           (\E e \in Event : Store(e) \/ Publish(e)) \/ Take \/ Refuse \/ Crash
    PROVE  FInv'
<1>t. /\ event \in [Event -> Stage] /\ tuned \subseteq Computer
      /\ commands \in Seq(Command) /\ socket \in [Socket -> Conn]
      /\ page \in [Page -> Tab] /\ faults \in Nat
    BY DEF FInv, FTypeOK
<1>c. FTypeOK
    BY DEF FInv
<1>1. ASSUME NEW e \in Event, Store(e) PROVE FInv'
  <2>1. FTypeOK'
      BY <1>1, <1>t DEF Store, FTypeOK, Stage
  <2> QED
      BY <1>1, <2>1, CommandsStep DEF Store, FInv
<1>2. ASSUME NEW e \in Event, Publish(e) PROVE FInv'
  <2>1. \A t \in Socket : /\ socket'[t] \in Conn
                          /\ socket'[t].pc = socket[t].pc
    <3>1. SUFFICES ASSUME NEW t \in Socket
                   PROVE  /\ socket'[t] \in Conn /\ socket'[t].pc = socket[t].pc
        OBVIOUS
    <3>2. CASE socket'[t] = socket[t]
        BY <3>2, <1>t
    <3>3. CASE socket[t].up /\ socket'[t] = [socket[t] EXCEPT !.wire = @ \cup {e}]
      <4>1. socket[t] \in Handled
          BY <3>3, <1>c, SocketTypes
      <4> QED
          BY <3>3, <4>1 DEF Handled, Conn
    <3> QED
        BY <1>2, <3>2, <3>3 DEF Publish
  <2>2. socket' \in [Socket -> Conn]
      BY <1>2, <2>1 DEF Publish
  <2>3. FTypeOK'
      BY <1>2, <1>t, <2>2 DEF Publish, FTypeOK, Stage
  <2> QED
      BY <1>2, <2>1, <2>3, CommandsStep DEF Publish, FInv
<1>h. ASSUME commands # <<>>
      PROVE  Head(commands).by \in Socket /\ socket[Head(commands).by].pc # "free"
  <2>1. Head(commands) \in Command /\ 1 \in DOMAIN commands
        /\ Head(commands) = commands[1]
      BY <1>h, <1>t, Commands
  <2>2. socket[commands[1].by].pc # "free"
      BY <2>1 DEF FInv, CommandsOpen
  <2> QED
      BY <2>1, <2>2 DEF Command
<1>3. ASSUME Take PROVE FInv'
  <2>1. /\ Head(commands).by \in Socket
        /\ socket[Head(commands).by].pc # "free"
      BY <1>3, <1>h DEF Take
  <2>2. socket[Head(commands).by].of \in Computer
      BY <2>1, <1>c, SocketTypes DEF Handled
  <2>3. tuned' \subseteq Computer
      BY <1>3, <1>t, <2>2 DEF Take
  <2>4. FTypeOK'
      BY <1>3, <1>t, <2>3, Commands DEF Take, FTypeOK
  <2> QED
      BY <1>3, <2>4, CommandsStep DEF Take, FInv
<1>4. ASSUME Refuse PROVE FInv'
  <2> DEFINE b == Head(commands).by
  <2>1. b \in Socket /\ socket[b].pc # "free"
      BY <1>4, <1>h DEF Refuse
  <2>2. socket[b] \in Handled
      BY <2>1, <1>c, SocketTypes
  <2>3. [socket[b] EXCEPT !.pc = "mute"] \in Handled
      BY <2>2 DEF Handled, Handler
  <2>4. socket' = [socket EXCEPT ![b] = [socket[b] EXCEPT !.pc = "mute"]]
      BY <1>4 DEF Refuse, Steps
  <2>5. /\ socket' \in [Socket -> Conn]
        /\ \A t \in Socket : socket[t].pc # "free" => socket'[t].pc # "free"
      BY <2>1, <2>3, <2>4, SocketStep
  <2>6. FTypeOK'
      BY <1>4, <1>t, <2>5, Commands DEF Refuse, FTypeOK
  <2> QED
      BY <1>4, <2>5, <2>6, CommandsStep DEF Refuse, FInv
<1>5. ASSUME Crash PROVE FInv'
  <2>1. \A t \in Socket : /\ socket'[t] \in Conn
                          /\ socket[t].pc # "free" => socket'[t].pc # "free"
    <3>1. SUFFICES ASSUME NEW t \in Socket
                   PROVE  /\ socket'[t] \in Conn
                          /\ socket[t].pc # "free" => socket'[t].pc # "free"
        OBVIOUS
    <3>2. CASE socket[t].pc = "free"
        BY <3>2, <1>5, <1>t DEF Crash
    <3>3. CASE socket[t].pc # "free"
      <4>1. socket[t] \in Handled
          BY <3>3, <1>c, SocketTypes
      <4>2. socket'[t] = [socket[t] EXCEPT !.pc = "gone", !.up = FALSE, !.on = FALSE, !.wire = {}]
          BY <3>3, <1>5 DEF Crash
      <4> QED
          BY <4>1, <4>2 DEF Handled, Handler, Conn
    <3> QED
        BY <3>2, <3>3
  <2>2. socket' \in [Socket -> Conn]
      BY <1>5, <2>1 DEF Crash
  <2>3. <<>> \in Seq(Command)
      OBVIOUS
  <2>4. /\ event' = event /\ page' = page /\ faults' = faults + 1
        /\ tuned' = {} /\ commands' = <<>>
      BY <1>5 DEF Crash
  <2>5. FTypeOK'
      BY <1>t, <2>2, <2>3, <2>4 DEF FTypeOK
  <2> QED
      BY <2>1, <2>4, <2>5, CommandsStep DEF FInv
<1> QED
    BY <1>1, <1>2, <1>3, <1>4, <1>5

\* A step of the API's handlers of events sockets.
LEMMA HandlerTyped ==
    ASSUME FInv, NEW s \in Socket, Serve(s) \/ Mute(s)
    PROVE  FInv'
<1>t. /\ event \in [Event -> Stage] /\ tuned \subseteq Computer
      /\ commands \in Seq(Command) /\ socket \in [Socket -> Conn]
      /\ page \in [Page -> Tab] /\ faults \in Nat
    BY DEF FInv, FTypeOK
<1>c. FTypeOK
    BY DEF FInv
<1>o. socket[s].pc # "free" /\ socket[s] \in Handled
  <2>1. socket[s].pc # "free"
      BY DEF Serve, Mute, Replay, Attach, Notice, Handler
  <2> QED
      BY <2>1, <1>c, SocketTypes
<1>k. ASSUME NEW c \in Handled, socket' = [socket EXCEPT ![s] = c],
             faults' \in Nat, UNCHANGED <<event, tuned, page>>,
             \/ UNCHANGED commands
             \/ \E op \in {"subscribe", "unsubscribe"} :
                   commands' = Append(commands, [op |-> op, by |-> s])
      PROVE  FInv'
  <2>1. /\ socket' \in [Socket -> Conn]
        /\ \A t \in Socket : socket[t].pc # "free" => socket'[t].pc # "free"
      BY <1>k, SocketStep
  <2>2. \/ commands' = commands
        \/ \E m \in Command : socket[m.by].pc # "free" /\ commands' = Append(commands, m)
    <3>1. CASE UNCHANGED commands
        BY <3>1
    <3>2. ASSUME NEW op \in {"subscribe", "unsubscribe"},
                 commands' = Append(commands, [op |-> op, by |-> s])
          PROVE  \E m \in Command : socket[m.by].pc # "free" /\ commands' = Append(commands, m)
      <4>1. [op |-> op, by |-> s] \in Command
          BY <3>2 DEF Command
      <4> QED
          BY <3>2, <4>1, <1>o
    <3> QED
        BY <1>k, <3>1, <3>2
  <2>3. commands' \in Seq(Command)
      BY <2>2, <1>t, Commands
  <2>4. FTypeOK'
      BY <1>k, <1>t, <2>1, <2>3 DEF FTypeOK
  <2> QED
      BY <2>1, <2>2, <2>4, CommandsStep DEF FInv
<1>1. ASSUME Replay(s) PROVE FInv'
  <2> DEFINE c == [socket[s] EXCEPT !.pc = "subscribe", !.on = TRUE,
                      !.wire = IF socket[s].up THEN @ \cup recent(socket[s].of, REPLAY)
                               ELSE @]
  <2>1. recent(socket[s].of, REPLAY) \in SUBSET Event
      BY NewestPart DEF recent, Stored
  <2>2. c \in Handled
      BY <1>o, <2>1 DEF Handled, Handler
  <2>3. socket' = [socket EXCEPT ![s] = c]
      BY <1>1 DEF Replay
  <2> QED
      BY <1>1, <1>t, <2>2, <2>3, <1>k DEF Replay
<1>2. ASSUME Attach(s) PROVE FInv'
  <2>1. [socket[s] EXCEPT !.pc = "attached"] \in Handled
      BY <1>o DEF Handled, Handler
  <2>2. socket' = [socket EXCEPT ![s] = [socket[s] EXCEPT !.pc = "attached"]]
      BY <1>2 DEF Attach, Steps
  <2> QED
      BY <1>2, <1>t, <2>1, <2>2, <1>k DEF Attach
<1>3. ASSUME Mute(s) PROVE FInv'
  <2>1. [socket[s] EXCEPT !.pc = "mute"] \in Handled
      BY <1>o DEF Handled, Handler
  <2>2. socket' = [socket EXCEPT ![s] = [socket[s] EXCEPT !.pc = "mute"]]
      BY <1>3 DEF Mute, Steps
  <2>3. faults' \in Nat /\ UNCHANGED <<event, tuned, page, commands>>
      BY <1>3, <1>t DEF Mute
  <2> QED
      BY <2>1, <2>2, <2>3, <1>k
<1>4. ASSUME Notice(s) PROVE FInv'
  <2> DEFINE gone == [socket[s] EXCEPT !.pc = "gone", !.on = @ /\ socket[s].pc = "mute"]
             late == [socket[s] EXCEPT !.missed = TRUE]
  <2>1. gone \in Handled /\ late \in Handled
      BY <1>o DEF Handled, Handler
  <2>2. CASE Closes(s)
    <3>1. socket' = [socket EXCEPT ![s] = gone]
        BY <2>2 DEF Closes
    <3> QED
        BY <1>4, <2>2, <1>t, <2>1, <3>1, <1>k DEF Notice, Closes
  <2>3. CASE socket' = [socket EXCEPT ![s].missed = TRUE] /\ UNCHANGED commands
    <3>1. socket' = [socket EXCEPT ![s] = late]
        BY <2>3
    <3> QED
        BY <1>4, <2>3, <1>t, <2>1, <3>1, <1>k DEF Notice
  <2> QED
      BY <1>4, <2>2, <2>3 DEF Notice
<1> QED
    BY <1>1, <1>2, <1>3, <1>4 DEF Serve

\* A step of a page or of the network.
LEMMA PageTyped ==
    ASSUME FInv,
           \/ \E s \in Socket : Drop(s) \/ \E e \in Event : Receive(s, e)
           \/ \E p \in Page : \/ \E c \in Computer : Show(p, c)
                              \/ History(p)
                              \/ \E s \in Socket : Open(p, s)
    PROVE  FInv'
<1>t. /\ event \in [Event -> Stage] /\ tuned \subseteq Computer
      /\ commands \in Seq(Command) /\ socket \in [Socket -> Conn]
      /\ page \in [Page -> Tab] /\ faults \in Nat
    BY DEF FInv, FTypeOK
<1>c. FTypeOK
    BY DEF FInv
<1>k. ASSUME UNCHANGED <<event, tuned, commands, faults>>,
             page' \in [Page -> Tab], socket' \in [Socket -> Conn],
             \A t \in Socket : socket[t].pc # "free" => socket'[t].pc # "free"
      PROVE  FInv'
  <2>1. FTypeOK'
      BY <1>k, <1>t DEF FTypeOK
  <2> QED
      BY <1>k, <2>1, CommandsStep DEF FInv
<1>1. ASSUME NEW s \in Socket, Drop(s) PROVE FInv'
  <2>1. socket[s].pc # "free" /\ Hangup(socket[s]) \in Handled
      BY <1>1, <1>c, SocketTypes DEF Drop
  <2>2. socket' = [socket EXCEPT ![s] = Hangup(socket[s])]
      BY <1>1 DEF Drop
  <2> QED
      BY <1>1, <1>t, <2>1, <2>2, SocketStep, <1>k DEF Drop
<1>2. ASSUME NEW s \in Socket, NEW e \in Event, Receive(s, e) PROVE FInv'
  <2>1. socket[s] \in Handled
    <3>1. socket[s] # NoConn
        BY <1>2 DEF Receive, NoConn
    <3> QED
        BY <3>1, <1>c, SocketTypes
  <2>2. [socket[s] EXCEPT !.wire = @ \ {e}] \in Handled
      BY <2>1 DEF Handled
  <2>3. socket' = [socket EXCEPT ![s] = [socket[s] EXCEPT !.wire = @ \ {e}]]
      BY <1>2 DEF Receive
  <2>4. socket[s].page \in Page
      BY <2>1 DEF Handled
  <2>5. Merge(page[socket[s].page], {e}) \in Tab
      BY <2>4, <1>t, MergeTypes
  <2>6. page' \in [Page -> Tab]
      BY <1>2, <1>t, <2>4, <2>5 DEF Receive
  <2> QED
      BY <1>2, <2>2, <2>3, <2>6, SocketStep, <1>k DEF Receive
<1>3. ASSUME NEW p \in Page, NEW c \in Computer, Show(p, c) PROVE FInv'
  <2>1. \A t \in Socket : /\ socket'[t] \in Conn
                          /\ socket[t].pc # "free" => socket'[t].pc # "free"
      BY <1>3, <1>t, <1>c, SocketTypes DEF Show, Conn
  <2>2. socket' \in [Socket -> Conn]
      BY <1>3, <2>1 DEF Show
  <2>3. page' \in [Page -> Tab]
      BY <1>3, <1>t DEF Show, Tab
  <2> QED
      BY <1>3, <2>1, <2>2, <2>3, <1>k DEF Show
<1>4. ASSUME NEW p \in Page, History(p) PROVE FInv'
  <2>1. recent(page[p].of, HISTORY) \in SUBSET Event
      BY NewestPart DEF recent, Stored
  <2>2. [page[p] EXCEPT !.asked = FALSE] \in Tab
      BY <1>t DEF Tab
  <2>3. page' = [page EXCEPT ![p] = Merge([page[p] EXCEPT !.asked = FALSE],
                                          recent(page[p].of, HISTORY))]
      BY <1>4 DEF History, activity
  <2>4. page' \in [Page -> Tab]
      BY <1>t, <2>1, <2>2, <2>3, MergeTypes
  <2> QED
      BY <1>4, <1>t, <2>4, <1>k DEF History
<1>5. ASSUME NEW p \in Page, NEW s \in Socket, Open(p, s) PROVE FInv'
  <2> DEFINE c == [NoConn EXCEPT !.pc = "recent", !.page = p, !.of = page[p].of, !.up = TRUE]
  <2>1. page[p].of \in Computer
      BY <1>5, <1>t DEF Open, Wants, Tab
  <2>3. c \in Handled
      BY <2>1 DEF Handled, Handler, NoConn
  <2>4. socket' = [socket EXCEPT ![s] = c]
      BY <1>5 DEF Open
  <2> QED
      BY <1>5, <1>t, <2>3, <2>4, SocketStep, <1>k DEF Open
<1> QED
    BY <1>1, <1>2, <1>3, <1>4, <1>5

-----------------------------------------------------------------------------
(* What pages show and sockets carry. *)

\* Every step keeps the types, for the theorems below.
LEMMA FInvStep == FInv /\ [FNext]_fvars => FInv'
<1>1. ASSUME FInv, FNext PROVE FInv'
    BY <1>1, HubTyped, HandlerTyped, PageTyped DEF FNext
<1>2. ASSUME FInv, UNCHANGED fvars PROVE FInv'
    BY <1>2 DEF fvars, FInv, FTypeOK, CommandsOpen
<1> QED
    BY <1>1, <1>2

\* The types are right in every state.
THEOREM FeedTypes == FSpec => []FTypeOK
<1>1. FInv => FTypeOK
    BY DEF FInv
<1> QED
    BY InitTyped, FInvStep, <1>1, PTL DEF FSpec

\* However its lists are merged and cut, a page shows the newest of what it was sent.
THEOREM FeedNewest == FSpec => []FeedIsNewest
<1>1. FInit => FeedIsNewest
    BY DEF FInit, FeedIsNewest, NoTab, Newest
<1>2. FInv /\ FeedIsNewest /\ [FNext]_fvars => FeedIsNewest'
  <2> SUFFICES ASSUME FInv, FeedIsNewest, [FNext]_fvars PROVE FeedIsNewest'
      OBVIOUS
  <2>t. page \in [Page -> Tab] /\ MAX_ACTIVITY \in Nat
      BY FeedAssumption DEF FInv, FTypeOK
  <2>k. ASSUME NEW p \in Page, NEW t \in Tab, t.events = page[p].events,
               t.got = page[p].got, NEW S \in SUBSET Event,
               page' = [page EXCEPT ![p] = Merge(t, S)]
        PROVE  FeedIsNewest'
    <3>1. t.events = Newest(MAX_ACTIVITY, t.got) /\ t.got \in SUBSET Event
        BY <2>k DEF FeedIsNewest, Tab
    <3>2. Newest(MAX_ACTIVITY, t.events \cup S) = Newest(MAX_ACTIVITY, t.got \cup S)
        BY <3>1, <2>t, NewestOfNewest
    <3>3. Merge(t, S).events = Newest(MAX_ACTIVITY, Merge(t, S).got)
        BY <2>k, <3>2, MergeTypes
    <3> QED
        BY <2>k, <2>t, <3>3 DEF FeedIsNewest
  <2>1. ASSUME NEW s \in Socket, NEW e \in Event, Receive(s, e) PROVE FeedIsNewest'
    <3>1. socket[s] \in Handled
      <4>1. socket[s] # NoConn
          BY <2>1 DEF Receive, NoConn
      <4> QED
          BY <4>1, SocketTypes DEF FInv
    <3>2. socket[s].page \in Page
        BY <3>1 DEF Handled
    <3> QED
        BY <2>1, <3>2, <2>t, <2>k DEF Receive
  <2>2. ASSUME NEW p \in Page, History(p) PROVE FeedIsNewest'
    <3> DEFINE t == [page[p] EXCEPT !.asked = FALSE]
    <3>1. t \in Tab /\ t.events = page[p].events /\ t.got = page[p].got
        BY <2>t DEF Tab
    <3>2. recent(page[p].of, HISTORY) \in SUBSET Event
        BY NewestPart DEF recent, Stored
    <3>3. page' = [page EXCEPT ![p] = Merge(t, recent(page[p].of, HISTORY))]
        BY <2>2 DEF History, activity
    <3> QED
        BY <3>1, <3>2, <3>3, <2>k
  <2>3. ASSUME NEW p \in Page, NEW c \in Computer, Show(p, c) PROVE FeedIsNewest'
      BY <2>3, <2>t DEF Show, FeedIsNewest, Tab
  <2>4. ASSUME UNCHANGED page PROVE FeedIsNewest'
      BY <2>4 DEF FeedIsNewest
  <2>5. CASE UNCHANGED fvars
      BY <2>4, <2>5 DEF fvars
  <2>6. CASE FNext
    <3>1. ASSUME NEW s \in Socket, Serve(s) \/ Mute(s) \/ Drop(s) PROVE UNCHANGED page
        BY <3>1 DEF Serve, Replay, Attach, Notice, Mute, Drop
    <3>2. ASSUME NEW p \in Page, NEW s \in Socket, Open(p, s) PROVE UNCHANGED page
        BY <3>2 DEF Open
    <3>3. ASSUME (\E e \in Event : Store(e) \/ Publish(e)) \/ Take \/ Refuse \/ Crash
          PROVE  UNCHANGED page
        BY <3>3 DEF Store, Publish, Take, Refuse, Crash
    <3> QED
        BY <2>6, <2>1, <2>2, <2>3, <2>4, <3>1, <3>2, <3>3 DEF FNext
  <2> QED
      BY <2>5, <2>6
<1> QED
    BY InitTyped, FInvStep, <1>1, <1>2, PTL DEF FSpec

\* Whatever is published, a socket carries stored events of its own computer.
THEOREM FeedOwn == FSpec => []CarriesItsOwn
<1>1. FInit => CarriesItsOwn
    BY DEF FInit, CarriesItsOwn, NoConn
<1>2. FInv /\ CarriesItsOwn /\ [FNext]_fvars => CarriesItsOwn'
  <2> SUFFICES ASSUME FInv, CarriesItsOwn, [FNext]_fvars PROVE CarriesItsOwn'
      OBVIOUS
  <2>t. /\ event \in [Event -> Stage] /\ socket \in [Socket -> Conn] /\ FTypeOK
      BY DEF FInv, FTypeOK
  <2>f. ASSUME UNCHANGED event PROVE \A c : Stored(c)' = Stored(c)
      BY <2>f DEF Stored
  <2>k. ASSUME \A c : Stored(c) \subseteq Stored(c)',
               \A t \in Socket : \/ socket[t].wire' \subseteq Stored(socket[t].of)'
                                 \/ /\ socket'[t].wire \subseteq socket[t].wire
                                    /\ socket'[t].of = socket[t].of
        PROVE  CarriesItsOwn'
    <3> SUFFICES ASSUME NEW t \in Socket PROVE (socket[t].wire \subseteq Stored(socket[t].of))'
        BY DEF CarriesItsOwn
    <3>1. CASE socket[t].wire' \subseteq Stored(socket[t].of)'
        BY <3>1
    <3>2. CASE socket'[t].wire \subseteq socket[t].wire /\ socket'[t].of = socket[t].of
      <4>1. socket[t].wire \subseteq Stored(socket[t].of)
          BY DEF CarriesItsOwn
      <4>2. \A c : c = socket[t].of => Stored(c) \subseteq Stored(c)'
          BY <2>k
      <4> QED
          BY <3>2, <4>1, <4>2 DEF Stored
    <3> QED
        BY <2>k, <3>1, <3>2
  <2>1. ASSUME NEW e \in Event, Store(e) PROVE CarriesItsOwn'
    <3>1. \A c : Stored(c) \subseteq Stored(c)'
        BY <2>1, <2>t DEF Store, Stored
    <3> QED
        BY <2>1, <3>1, <2>k DEF Store
  <2>2. ASSUME NEW e \in Event, Publish(e) PROVE CarriesItsOwn'
    <3>1. \A c : Stored(c) \subseteq Stored(c)'
        BY <2>2, <2>t DEF Publish, Stored
    <3>2. e \in Stored(Subject[e])'
        BY <2>2, <2>t DEF Publish, Stored
    <3>3. ASSUME NEW t \in Socket
          PROVE  /\ socket'[t].of = socket[t].of
                 /\ socket'[t].wire \subseteq socket[t].wire \cup
                        (IF socket[t].of = Subject[e] THEN {e} ELSE {})
      <4>1. CASE socket'[t] = socket[t]
          BY <4>1
      <4>2. CASE /\ socket[t].of = Subject[e] /\ socket[t].up
                 /\ socket'[t] = [socket[t] EXCEPT !.wire = @ \cup {e}]
        <5>1. socket[t] \in Handled
            BY <4>2, <2>t, SocketTypes
        <5> QED
            BY <4>2, <5>1 DEF Handled
      <4> QED
          BY <2>2, <4>1, <4>2 DEF Publish, Hears
    <3>4. ASSUME NEW t \in Socket, socket[t].of = Subject[e]
          PROVE  socket[t].wire' \subseteq Stored(socket[t].of)'
      <4>1. socket[t].wire \subseteq Stored(Subject[e])
          BY <3>4 DEF CarriesItsOwn
      <4>2. socket'[t].wire \subseteq Stored(Subject[e])'
          BY <3>1, <3>2, <3>3, <3>4, <4>1 DEF Stored
      <4> QED
          BY <3>3, <3>4, <4>2 DEF Stored
    <3>5. ASSUME NEW t \in Socket, socket[t].of # Subject[e]
          PROVE  socket'[t].wire \subseteq socket[t].wire /\ socket'[t].of = socket[t].of
        BY <3>3, <3>5
    <3> QED
        BY <3>1, <3>4, <3>5, <2>k
  <2>3. ASSUME NEW s \in Socket, Replay(s) PROVE CarriesItsOwn'
    <3>1. \A c : Stored(c)' = Stored(c)
        BY <2>3, <2>f DEF Replay
    <3>2. socket[s] \in Handled
        BY <2>3, <2>t, SocketTypes DEF Replay
    <3>3. recent(socket[s].of, REPLAY) \subseteq Stored(socket[s].of)
        BY NewestPart DEF recent
    <3>4. /\ socket'[s].of = socket[s].of
          /\ socket'[s].wire \subseteq socket[s].wire \cup recent(socket[s].of, REPLAY)
        BY <2>3, <3>2, <2>t DEF Replay, Handled
    <3>5. \A t \in Socket : t # s => socket'[t] = socket[t]
        BY <2>3, <2>t DEF Replay
    <3>6. socket'[s].wire \subseteq Stored(socket'[s].of)
        BY <3>3, <3>4 DEF CarriesItsOwn
    <3> QED
        BY <3>1, <3>5, <3>6 DEF CarriesItsOwn
  <2>4. ASSUME UNCHANGED event,
               \A t \in Socket :
                   /\ socket'[t].wire \subseteq socket[t].wire
                   /\ (socket'[t].of = socket[t].of) \/ socket'[t].wire = {}
        PROVE  CarriesItsOwn'
      BY <2>4, <2>f DEF CarriesItsOwn
  <2>5. ASSUME NEW s \in Socket, Attach(s) \/ Mute(s) \/ Notice(s) \/ Drop(s)
        PROVE  CarriesItsOwn'
    <3>1. socket[s] \in Handled
        BY <2>5, <2>t, SocketTypes DEF Attach, Mute, Notice, Drop, Handler
    <3>2. \A t \in Socket : /\ socket'[t].wire \subseteq socket[t].wire
                            /\ socket'[t].of = socket[t].of
      <4>1. CASE Attach(s) \/ Mute(s)
          BY <4>1, <2>t, <3>1 DEF Attach, Mute, Steps, Handled
      <4>2. CASE Notice(s)
          BY <4>2, <2>t, <3>1 DEF Notice, Closes, Handled
      <4>3. CASE Drop(s)
          BY <4>3, <2>t, <3>1 DEF Drop, Hangup, Handled
      <4> QED
          BY <2>5, <4>1, <4>2, <4>3
    <3>3. UNCHANGED event
        BY <2>5 DEF Attach, Mute, Notice, Drop
    <3> QED
        BY <2>4, <3>2, <3>3
  <2>6. ASSUME NEW s \in Socket, NEW e \in Event, Receive(s, e) PROVE CarriesItsOwn'
    <3>1. socket[s] \in Handled
      <4>1. socket[s] # NoConn
          BY <2>6 DEF Receive, NoConn
      <4> QED
          BY <4>1, <2>t, SocketTypes
    <3>2. \A t \in Socket : /\ socket'[t].wire \subseteq socket[t].wire
                            /\ socket'[t].of = socket[t].of
        BY <2>6, <2>t, <3>1 DEF Receive, Handled
    <3> QED
        BY <2>4, <2>6, <3>2 DEF Receive
  <2>7. ASSUME NEW p \in Page, NEW s \in Socket, Open(p, s) PROVE CarriesItsOwn'
    <3>1. socket'[s].wire = {} /\ \A t \in Socket : t # s => socket'[t] = socket[t]
        BY <2>7, <2>t DEF Open, NoConn
    <3> QED
        BY <2>4, <2>7, <3>1 DEF Open
  <2>8. ASSUME NEW p \in Page, NEW c \in Computer, Show(p, c) PROVE CarriesItsOwn'
    <3>1. \A t \in Socket : /\ socket'[t].wire \subseteq socket[t].wire
                            /\ socket'[t].of = socket[t].of \/ socket'[t].wire = {}
      <4>1. SUFFICES ASSUME NEW t \in Socket
                     PROVE  /\ socket'[t].wire \subseteq socket[t].wire
                            /\ socket'[t].of = socket[t].of \/ socket'[t].wire = {}
          OBVIOUS
      <4>2. CASE socket[t].up
        <5>1. socket[t] \in Handled
            BY <4>2, <2>t, SocketTypes
        <5> QED
            BY <2>8, <5>1 DEF Show, Hangup, Handled
      <4> QED
          BY <2>8, <4>2 DEF Show
    <3> QED
        BY <2>4, <2>8, <3>1 DEF Show
  <2>9. ASSUME Crash PROVE CarriesItsOwn'
    <3>1. \A t \in Socket : /\ socket'[t].wire \subseteq socket[t].wire
                            /\ socket'[t].of = socket[t].of \/ socket'[t].wire = {}
      <4>1. SUFFICES ASSUME NEW t \in Socket
                     PROVE  /\ socket'[t].wire \subseteq socket[t].wire
                            /\ socket'[t].of = socket[t].of \/ socket'[t].wire = {}
          OBVIOUS
      <4>2. CASE socket[t].pc # "free"
        <5>1. socket[t] \in Handled
            BY <4>2, <2>t, SocketTypes
        <5> QED
            BY <2>9, <4>2, <5>1 DEF Crash, Handled
      <4> QED
          BY <2>9, <4>2 DEF Crash
    <3> QED
        BY <2>4, <2>9, <3>1 DEF Crash
  <2>10. ASSUME Take \/ UNCHANGED fvars \/ \E p \in Page : History(p) PROVE CarriesItsOwn'
    <3>1. UNCHANGED <<event, socket>>
        BY <2>10 DEF Take, fvars, History
    <3> QED
        BY <2>4, <3>1
  <2>11. ASSUME Refuse PROVE CarriesItsOwn'
    <3> DEFINE b == Head(commands).by
    <3>1. b \in Socket /\ socket[b].pc # "free"
      <4>1. 1 \in DOMAIN commands /\ Head(commands) = commands[1] /\ Head(commands) \in Command
          BY <2>11, <2>t, Commands DEF Refuse, FTypeOK
      <4> QED
          BY <4>1 DEF FInv, CommandsOpen, Command
    <3>2. socket[b] \in Handled
        BY <3>1, <2>t, SocketTypes
    <3>3. \A t \in Socket : /\ socket'[t].wire \subseteq socket[t].wire
                            /\ socket'[t].of = socket[t].of
        BY <2>11, <2>t, <3>2 DEF Refuse, Steps, Handled
    <3> QED
        BY <2>4, <2>11, <3>3 DEF Refuse
  <2> QED
      BY <2>1, <2>2, <2>3, <2>5, <2>6, <2>7, <2>8, <2>9, <2>10, <2>11 DEF FNext, Serve
<1> QED
    BY InitTyped, FInvStep, <1>1, <1>2, PTL DEF FSpec

-----------------------------------------------------------------------------
(* Who makes a socket deaf. *)

\* A step that leaves the subscriptions and the commands, in which sockets stay
\* where they are, or move without becoming attached.
LEMMA DeafSilent ==
    ASSUME DeafInv, UNCHANGED <<tuned, commands>>,
           \A t \in Socket :
               /\ \/ socket'[t].pc = socket[t].pc
                  \/ /\ socket'[t].pc \notin {"attached", "subscribe"}
                     /\ socket[t].pc \notin {"subscribe", "gone"}
               /\ socket'[t].of = socket[t].of \/ socket[t].pc = "free",
           FInv
    PROVE  DeafInv'
<1>c. \A i \in DOMAIN commands : commands[i].by \in Socket
    BY Commands DEF FInv, FTypeOK, Command
<1>1. CommandsFit'
    BY <1>c DEF DeafInv, CommandsFit
<1>2. \A s \in Socket : Subscribed(s)' = Subscribed(s)
    BY DEF Subscribed
<1>3. ASSUME NEW s \in Socket,
             \/ socket'[s].pc = "attached"
             \/ socket'[s].pc = "subscribe" /\ Subscribed(s)',
             socket'[s].of \notin tuned'
      PROVE  Left(s)'
  <2>1. socket'[s].pc = socket[s].pc
      BY <1>3
  <2>2. socket[s].of = socket'[s].of
      BY <1>3, <2>1
  <2>3. Left(s)
      BY <1>2, <1>3, <2>1, <2>2 DEF DeafInv, TunedOrLeft
  <2>4. PICK t \in Socket \ {s} : socket[t].pc = "gone" /\ socket[t].of = socket[s].of
      BY <2>3 DEF Left
  <2>5. socket'[t].pc = "gone" /\ socket'[t].of = socket'[s].of
      BY <2>2, <2>4
  <2> QED
      BY <2>4, <2>5 DEF Left
<1>4. TunedOrLeft'
    BY <1>3 DEF TunedOrLeft
<1> QED
    BY <1>1, <1>4 DEF DeafInv

\* The gone are gone for good, and what computer they were of is what it was.
LEMMA LeftStays ==
    ASSUME NEW s \in Socket, Left(s), socket'[s].of = socket[s].of,
           \A t \in Socket : socket[t].pc = "gone" =>
               socket'[t].pc = "gone" /\ socket'[t].of = socket[t].of
    PROVE  Left(s)'
BY DEF Left

\* Redis takes or refuses a command, or the API dies.
LEMMA DeafHub ==
    ASSUME FInv, DeafInv, Take \/ Refuse \/ Crash
    PROVE  DeafInv'
<1>t. /\ FTypeOK /\ commands \in Seq(Command) /\ socket \in [Socket -> Conn]
    BY DEF FInv, FTypeOK
<1>d. CommandsFit /\ TunedOrLeft
    BY DEF DeafInv
<1>c. \A i \in DOMAIN commands : commands[i].by \in Socket /\ commands[i] \in Command
    BY <1>t, Commands DEF Command
<1>h. ASSUME commands # <<>>
      PROVE  /\ 1 \in DOMAIN commands /\ Head(commands) = commands[1]
             /\ \A i \in DOMAIN Tail(commands) :
                    i + 1 \in DOMAIN commands /\ i + 1 # 1 /\ Tail(commands)[i] = commands[i + 1]
             /\ \A i \in DOMAIN commands : i # 1 =>
                    i - 1 \in DOMAIN Tail(commands) /\ Tail(commands)[i - 1] = commands[i]
             /\ \A i \in DOMAIN Tail(commands) : i \in Nat
             /\ Tail(commands) \in Seq(Command)
    BY <1>h, <1>t, Commands
<1>f. ASSUME commands # <<>>, commands' = Tail(commands),
             \A i \in DOMAIN Tail(commands) :
                 socket'[Tail(commands)[i].by].pc = socket[Tail(commands)[i].by].pc
      PROVE  CommandsFit'
  <2>1. \A i \in DOMAIN Tail(commands) :
            socket'[Tail(commands)[i].by].pc =
                IF Tail(commands)[i].op = "subscribe" THEN "subscribe" ELSE "gone"
      BY <1>f, <1>h, <1>d DEF CommandsFit
  <2>2. \A i, j \in DOMAIN Tail(commands) :
            Tail(commands)[i].op = "subscribe" /\ Tail(commands)[j].by = Tail(commands)[i].by
            => i = j
    <3>1. SUFFICES ASSUME NEW i \in DOMAIN Tail(commands), NEW j \in DOMAIN Tail(commands),
                          Tail(commands)[i].op = "subscribe",
                          Tail(commands)[j].by = Tail(commands)[i].by
                   PROVE  i = j
        OBVIOUS
    <3>2. /\ i + 1 \in DOMAIN commands /\ j + 1 \in DOMAIN commands
          /\ commands[i + 1].op = "subscribe" /\ commands[j + 1].by = commands[i + 1].by
        BY <1>f, <1>h, <3>1
    <3>3. i + 1 = j + 1
        BY <3>2, <1>d DEF CommandsFit
    <3> QED
        BY <3>3, <1>f, <1>h
  <2> QED
      BY <1>f, <2>1, <2>2 DEF CommandsFit
<1>1. CASE Take
  <2> DEFINE b == commands[1].by
  <2>1. /\ commands # <<>> /\ commands' = Tail(commands) /\ UNCHANGED socket
        /\ tuned' = IF commands[1].op = "subscribe" THEN tuned \cup {socket[b].of}
                    ELSE tuned \ {socket[b].of}
      BY <1>1, <1>h DEF Take
  <2>2. CommandsFit'
      BY <2>1, <1>f
  <2>3. ASSUME NEW s \in Socket,
               \/ socket'[s].pc = "attached"
               \/ socket'[s].pc = "subscribe" /\ Subscribed(s)',
               socket'[s].of \notin tuned'
        PROVE  Left(s)'
    <3>1. socket' = socket
        BY <2>1
    <3>2. CASE commands[1].op = "unsubscribe" /\ socket[b].of = socket[s].of
      <4>1. socket[b].pc = "gone" /\ b \in Socket
          BY <3>2, <1>d, <2>1, <1>h, <1>c DEF CommandsFit
      <4>2. b # s
          BY <4>1, <2>3, <3>1
      <4> QED
          BY <4>1, <4>2, <3>1, <3>2 DEF Left
    <3>3. CASE commands[1].op = "subscribe"
      <4>1. socket[s].of \notin tuned /\ b # s
          BY <3>1, <3>3, <2>1, <2>3
      <4>2. Subscribed(s)' => Subscribed(s)
        <5>1. SUFFICES ASSUME Subscribed(s)', NEW i \in DOMAIN commands
                       PROVE  commands[i].by # s
            BY DEF Subscribed
        <5>2. CASE i = 1
            BY <5>2, <4>1
        <5>3. CASE i # 1
            BY <5>1, <5>3, <1>h, <2>1 DEF Subscribed
        <5> QED
            BY <5>2, <5>3
      <4>3. Left(s)
          BY <4>1, <4>2, <2>3, <3>1, <1>d DEF TunedOrLeft
      <4> QED
          BY <4>3, <3>1, LeftStays
    <3>4. CASE commands[1].op = "unsubscribe" /\ socket[b].of # socket[s].of
      <4>1. socket[s].of \notin tuned
          BY <3>1, <3>4, <2>1, <2>3
      <4>2. CASE socket[s].pc = "attached"
        <5>1. Left(s)
            BY <4>1, <4>2, <1>d DEF TunedOrLeft
        <5> QED
            BY <5>1, <3>1, LeftStays
      <4>3. CASE socket[s].pc = "subscribe" /\ Subscribed(s)'
        <5>1. Subscribed(s)
          <6>1. SUFFICES ASSUME NEW i \in DOMAIN commands PROVE commands[i].by # s
              BY DEF Subscribed
          <6>2. CASE i = 1
              BY <6>2, <3>4
          <6>3. CASE i # 1
              BY <4>3, <6>3, <1>h, <2>1 DEF Subscribed
          <6> QED
              BY <6>2, <6>3
        <5>2. Left(s)
            BY <4>1, <4>3, <5>1, <1>d DEF TunedOrLeft
        <5> QED
            BY <5>2, <3>1, LeftStays
      <4> QED
          BY <2>3, <3>1, <4>2, <4>3
    <3>5. commands[1].op \in {"subscribe", "unsubscribe"}
        BY <2>1, <1>h, <1>c DEF Command
    <3> QED
        BY <3>2, <3>3, <3>4, <3>5
  <2>4. TunedOrLeft'
      BY <2>3 DEF TunedOrLeft
  <2> QED
      BY <2>2, <2>4 DEF DeafInv
<1>2. CASE Refuse
  <2> DEFINE b == commands[1].by
  <2>1. /\ commands # <<>> /\ commands' = Tail(commands) /\ UNCHANGED tuned
        /\ commands[1].op = "subscribe"
        /\ socket' = [socket EXCEPT ![b].pc = "mute"]
      BY <1>2, <1>h DEF Refuse, Steps
  <2>2. b \in Socket /\ socket[b].pc = "subscribe"
      BY <2>1, <1>h, <1>c, <1>d DEF CommandsFit
  <2>3. socket[b] \in Handled
      BY <2>2, <1>t, SocketTypes
  <2>4. /\ socket'[b].pc = "mute" /\ socket'[b].of = socket[b].of
        /\ \A t \in Socket : t # b => socket'[t] = socket[t]
      BY <2>1, <2>2, <2>3, <1>t DEF Handled
  <2>5. \A i \in DOMAIN Tail(commands) : Tail(commands)[i].by # b
    <3>1. SUFFICES ASSUME NEW i \in DOMAIN Tail(commands), Tail(commands)[i].by = b
                   PROVE  FALSE
        OBVIOUS
    <3>2. i + 1 \in DOMAIN commands /\ i + 1 # 1 /\ commands[i + 1].by = commands[1].by
        BY <2>1, <1>h, <3>1
    <3> QED
        BY <3>2, <2>1, <1>h, <1>d DEF CommandsFit
  <2>6. CommandsFit'
    <3>1. \A i \in DOMAIN Tail(commands) : Tail(commands)[i].by \in Socket
        BY <2>1, <1>h, <1>c
    <3> QED
        BY <2>1, <2>4, <2>5, <3>1, <1>f
  <2>7. ASSUME NEW s \in Socket,
               \/ socket'[s].pc = "attached"
               \/ socket'[s].pc = "subscribe" /\ Subscribed(s)',
               socket'[s].of \notin tuned'
        PROVE  Left(s)'
    <3>1. s # b /\ socket'[s] = socket[s]
        BY <2>4, <2>7
    <3>2. Subscribed(s)' => Subscribed(s)
      <4>1. SUFFICES ASSUME Subscribed(s)', NEW i \in DOMAIN commands
                     PROVE  commands[i].by # s
          BY DEF Subscribed
      <4>2. CASE i = 1
          BY <4>2, <3>1
      <4>3. CASE i # 1
          BY <4>1, <4>3, <1>h, <2>1 DEF Subscribed
      <4> QED
          BY <4>2, <4>3
    <3>3. Left(s)
        BY <3>1, <3>2, <2>1, <2>7, <1>d DEF TunedOrLeft
    <3>4. \A t \in Socket : socket[t].pc = "gone" => t # b
        BY <2>2
    <3> QED
        BY <3>1, <3>3, <3>4, <2>4, LeftStays
  <2>8. TunedOrLeft'
      BY <2>7 DEF TunedOrLeft
  <2> QED
      BY <2>6, <2>8 DEF DeafInv
<1>3. CASE Crash
  <2>1. commands' = <<>>
      BY <1>3 DEF Crash
  <2>2. CommandsFit'
      BY <2>1 DEF CommandsFit
  <2>3. ASSUME NEW s \in Socket PROVE socket'[s].pc \in {"free", "gone"}
    <3>1. CASE socket[s].pc = "free"
        BY <3>1, <1>3 DEF Crash
    <3>2. CASE socket[s].pc # "free"
      <4>1. socket[s] \in Handled
          BY <3>2, <1>t, SocketTypes
      <4> QED
          BY <3>2, <4>1, <1>3 DEF Crash, Handled
    <3> QED
        BY <3>1, <3>2
  <2>4. TunedOrLeft'
      BY <2>3 DEF TunedOrLeft
  <2> QED
      BY <2>2, <2>4 DEF DeafInv
<1> QED
    BY <1>1, <1>2, <1>3

\* A handler adds a command, or is told of the answer to its own.
LEMMA DeafServe ==
    ASSUME FInv, DeafInv, NEW s \in Socket, Serve(s)
    PROVE  DeafInv'
<1>t. /\ FTypeOK /\ commands \in Seq(Command) /\ socket \in [Socket -> Conn]
    BY DEF FInv, FTypeOK
<1>d. CommandsFit /\ TunedOrLeft
    BY DEF DeafInv
<1>o. socket[s] \in Handled
    BY <1>t, SocketTypes DEF Serve, Replay, Attach, Notice, Handler
<1>a. ASSUME NEW op \in {"subscribe", "unsubscribe"},
             commands' = Append(commands, [op |-> op, by |-> s])
      PROVE  /\ DOMAIN commands' = DOMAIN commands \cup {Len(commands) + 1}
             /\ Len(commands) + 1 \notin DOMAIN commands
             /\ \A i \in DOMAIN commands : commands'[i] = commands[i]
             /\ commands'[Len(commands) + 1] = [op |-> op, by |-> s]
  <2>1. [op |-> op, by |-> s] \in Command
      BY DEF Command
  <2> QED
      BY <2>1, <1>a, <1>t, Commands
<1>c. \A i \in DOMAIN commands : commands[i].by \in Socket /\ commands[i] \in Command
    BY <1>t, Commands DEF Command
<1>n. ASSUME socket[s].pc \notin {"subscribe", "gone"}
      PROVE  \A i \in DOMAIN commands : commands[i].by # s
    BY <1>n, <1>d DEF CommandsFit
<1>1. CASE Replay(s)
  <2> DEFINE n == Len(commands) + 1
  <2>1. /\ commands' = Append(commands, [op |-> "subscribe", by |-> s])
        /\ UNCHANGED tuned /\ socket[s].pc = "recent"
      BY <1>1 DEF Replay
  <2>2. /\ socket'[s].pc = "subscribe" /\ socket'[s].of = socket[s].of
        /\ \A t \in Socket : t # s => socket'[t] = socket[t]
      BY <1>1, <1>o, <1>t DEF Replay, Handled
  <2>3. CommandsFit'
    <3>1. \A i \in DOMAIN commands' :
              socket'[commands'[i].by].pc =
                  IF commands'[i].op = "subscribe" THEN "subscribe" ELSE "gone"
      <4>1. SUFFICES ASSUME NEW i \in DOMAIN commands'
                     PROVE  socket'[commands'[i].by].pc =
                                IF commands'[i].op = "subscribe" THEN "subscribe" ELSE "gone"
          OBVIOUS
      <4>2. CASE i = n
          BY <4>2, <2>1, <2>2, <1>a
      <4>3. CASE i # n
        <5>1. i \in DOMAIN commands /\ commands'[i] = commands[i] /\ commands[i].by # s
            BY <4>1, <4>3, <2>1, <1>a, <1>n
        <5> QED
            BY <5>1, <2>2, <1>c, <1>d DEF CommandsFit
      <4> QED
          BY <4>2, <4>3
    <3>2. \A i, j \in DOMAIN commands' :
              commands'[i].op = "subscribe" /\ commands'[j].by = commands'[i].by => i = j
      <4>1. SUFFICES ASSUME NEW i \in DOMAIN commands', NEW j \in DOMAIN commands',
                            commands'[i].op = "subscribe", commands'[j].by = commands'[i].by
                     PROVE  i = j
          OBVIOUS
      <4>2. \A k \in DOMAIN commands' :
                \/ k = n /\ commands'[k].by = s
                \/ k \in DOMAIN commands /\ commands'[k] = commands[k] /\ commands[k].by # s
          BY <2>1, <1>a, <1>n
      <4> QED
          BY <4>1, <4>2, <1>d DEF CommandsFit
    <3> QED
        BY <3>1, <3>2 DEF CommandsFit
  <2>4. ASSUME NEW t \in Socket,
               \/ socket'[t].pc = "attached"
               \/ socket'[t].pc = "subscribe" /\ Subscribed(t)',
               socket'[t].of \notin tuned'
        PROVE  Left(t)'
    <3>1. t # s
      <4>1. ~Subscribed(s)'
          BY <2>1, <1>a DEF Subscribed
      <4> QED
          BY <4>1, <2>2, <2>4
    <3>2. Subscribed(t)' => Subscribed(t)
        BY <2>1, <1>a DEF Subscribed
    <3>3. Left(t)
        BY <3>1, <3>2, <2>1, <2>2, <2>4, <1>d DEF TunedOrLeft
    <3> QED
        BY <3>1, <3>3, <2>1, <2>2, LeftStays
  <2>5. TunedOrLeft'
      BY <2>4 DEF TunedOrLeft
  <2> QED
      BY <2>3, <2>5 DEF DeafInv
<1>2. CASE Attach(s)
  <2>1. /\ UNCHANGED <<tuned, commands>> /\ Subscribed(s) /\ socket[s].pc = "subscribe"
        /\ socket'[s].pc = "attached" /\ socket'[s].of = socket[s].of
        /\ \A t \in Socket : t # s => socket'[t] = socket[t]
      BY <1>2, <1>o, <1>t DEF Attach, Steps, Handled
  <2>2. CommandsFit'
      BY <2>1, <1>c, <1>d DEF CommandsFit, Subscribed
  <2>3. ASSUME NEW t \in Socket,
               \/ socket'[t].pc = "attached"
               \/ socket'[t].pc = "subscribe" /\ Subscribed(t)',
               socket'[t].of \notin tuned'
        PROVE  Left(t)'
    <3>1. Subscribed(t)' => Subscribed(t)
        BY <2>1 DEF Subscribed
    <3>2. Left(t)
        BY <3>1, <2>1, <2>3, <1>d DEF TunedOrLeft
    <3>3. \A r \in Socket : socket[r].pc = "gone" => r # s
        BY <2>1
    <3> QED
        BY <2>1, <3>2, <3>3, LeftStays
  <2>4. TunedOrLeft'
      BY <2>3 DEF TunedOrLeft
  <2> QED
      BY <2>2, <2>4 DEF DeafInv
<1>3. CASE Notice(s) /\ socket[s].pc = "attached"
  <2> DEFINE n == Len(commands) + 1
  <2>1. /\ commands' = Append(commands, [op |-> "unsubscribe", by |-> s])
        /\ UNCHANGED tuned
        /\ socket'[s].pc = "gone" /\ socket'[s].of = socket[s].of
        /\ \A t \in Socket : t # s => socket'[t] = socket[t]
      BY <1>3, <1>o, <1>t DEF Notice, Closes, Handled
  <2>2. \A k \in DOMAIN commands' :
            \/ k = n /\ commands'[k] = [op |-> "unsubscribe", by |-> s]
            \/ k \in DOMAIN commands /\ commands'[k] = commands[k] /\ commands[k].by # s
      BY <2>1, <1>a, <1>n, <1>3
  <2>3. \A i \in DOMAIN commands' :
            socket'[commands'[i].by].pc =
                IF commands'[i].op = "subscribe" THEN "subscribe" ELSE "gone"
    <3>1. SUFFICES ASSUME NEW i \in DOMAIN commands'
                   PROVE  socket'[commands'[i].by].pc =
                              IF commands'[i].op = "subscribe" THEN "subscribe" ELSE "gone"
        OBVIOUS
    <3>2. CASE commands'[i] = [op |-> "unsubscribe", by |-> s]
        BY <3>2, <2>1
    <3>3. CASE i \in DOMAIN commands /\ commands'[i] = commands[i] /\ commands[i].by # s
        BY <3>3, <2>1, <1>c, <1>d DEF CommandsFit
    <3> QED
        BY <2>2, <3>2, <3>3
  <2>4. \A i, j \in DOMAIN commands' :
            commands'[i].op = "subscribe" /\ commands'[j].by = commands'[i].by => i = j
    <3>1. SUFFICES ASSUME NEW i \in DOMAIN commands', NEW j \in DOMAIN commands',
                          commands'[i].op = "subscribe", commands'[j].by = commands'[i].by
                   PROVE  i = j
        OBVIOUS
    <3>2. i \in DOMAIN commands /\ commands'[i] = commands[i] /\ commands[i].by # s
        BY <2>2, <3>1
    <3>3. j \in DOMAIN commands /\ commands'[j] = commands[j]
        BY <2>2, <3>1, <3>2
    <3> QED
        BY <3>1, <3>2, <3>3, <1>d DEF CommandsFit
  <2>5. ASSUME NEW t \in Socket,
               \/ socket'[t].pc = "attached"
               \/ socket'[t].pc = "subscribe" /\ Subscribed(t)',
               socket'[t].of \notin tuned'
        PROVE  Left(t)'
    <3>1. t # s
        BY <2>1, <2>5
    <3>2. Subscribed(t)' => Subscribed(t)
        BY <2>1, <1>a DEF Subscribed
    <3>3. Left(t)
        BY <3>1, <3>2, <2>1, <2>5, <1>d DEF TunedOrLeft
    <3> QED
        BY <3>1, <3>3, <2>1, LeftStays
  <2>6. CommandsFit' /\ TunedOrLeft'
      BY <2>3, <2>4, <2>5 DEF CommandsFit, TunedOrLeft
  <2> QED
      BY <2>6 DEF DeafInv
<1>4. CASE Notice(s) /\ socket[s].pc # "attached"
  <2>1. UNCHANGED <<tuned, commands>>
      BY <1>4 DEF Notice, Closes
  <2>2. /\ \/ socket'[s].pc = socket[s].pc
           \/ socket'[s].pc = "gone" /\ socket[s].pc = "mute"
        /\ socket'[s].of = socket[s].of
        /\ \A t \in Socket : t # s => socket'[t] = socket[t]
      BY <1>4, <1>o, <1>t DEF Notice, Closes, Handled
  <2> QED
      BY <2>1, <2>2, DeafSilent
<1> QED
    BY <1>1, <1>2, <1>3, <1>4 DEF Serve

\* Only the end of another socket of its computer leaves an attached one deaf.
THEOREM FeedDeaf == FSpec => []DeafOnlyByClosing
<1>1. FInit => DeafInv
  <2>1. DOMAIN <<>> = {}
      OBVIOUS
  <2> QED
      BY <2>1 DEF FInit, DeafInv, CommandsFit, TunedOrLeft, NoConn
<1>2. FInv /\ DeafInv /\ [FNext]_fvars => DeafInv'
  <2> SUFFICES ASSUME FInv, DeafInv, [FNext]_fvars PROVE DeafInv'
      OBVIOUS
  <2>t. /\ FTypeOK /\ socket \in [Socket -> Conn]
      BY DEF FInv, FTypeOK
  <2>1. ASSUME UNCHANGED <<tuned, commands>>,
               \A t \in Socket : socket'[t].pc = socket[t].pc /\ socket'[t].of = socket[t].of
        PROVE  DeafInv'
      BY <2>1, DeafSilent
  <2>2. ASSUME (\E e \in Event : Store(e) \/ Publish(e)) \/ UNCHANGED fvars
                   \/ \E p \in Page : History(p)
        PROVE  DeafInv'
    <3>1. UNCHANGED <<tuned, commands>>
        BY <2>2 DEF Store, Publish, fvars, History
    <3>2. ASSUME NEW e \in Event, Publish(e), NEW t \in Socket
          PROVE  socket'[t].pc = socket[t].pc /\ socket'[t].of = socket[t].of
      <4>1. CASE socket[t].up
        <5>1. socket[t] \in Handled
            BY <4>1, <2>t, SocketTypes
        <5> QED
            BY <3>2, <5>1 DEF Publish, Handled
      <4> QED
          BY <3>2, <4>1 DEF Publish
    <3> QED
        BY <2>1, <2>2, <3>1, <3>2 DEF Store, fvars, History
  <2>3. ASSUME NEW s \in Socket, Drop(s) PROVE DeafInv'
    <3>1. socket[s] \in Handled
        BY <2>3, <2>t, SocketTypes DEF Drop
    <3> QED
        BY <2>1, <2>3, <2>t, <3>1 DEF Drop, Hangup, Handled
  <2>4. ASSUME NEW s \in Socket, NEW e \in Event, Receive(s, e) PROVE DeafInv'
    <3>1. socket[s] # NoConn
        BY <2>4 DEF Receive, NoConn
    <3>2. socket[s] \in Handled
        BY <3>1, <2>t, SocketTypes
    <3> QED
        BY <2>1, <2>4, <2>t, <3>2 DEF Receive, Handled
  <2>5. ASSUME NEW p \in Page, NEW c \in Computer, Show(p, c) PROVE DeafInv'
    <3>1. ASSUME NEW t \in Socket
          PROVE  socket'[t].pc = socket[t].pc /\ socket'[t].of = socket[t].of
      <4>1. CASE socket[t].up
          BY <2>5, <4>1, <2>t, SocketTypes DEF Show
      <4> QED
          BY <2>5, <4>1 DEF Show
    <3> QED
        BY <2>1, <2>5, <3>1 DEF Show
  <2>6. ASSUME NEW p \in Page, NEW s \in Socket, Open(p, s) PROVE DeafInv'
    <3>1. /\ socket[s].pc = "free" /\ socket'[s].pc = "recent"
          /\ \A t \in Socket : t # s => socket'[t] = socket[t]
        BY <2>6, <2>t DEF Open, NoConn
    <3> QED
        BY <2>6, <3>1, DeafSilent DEF Open
  <2>7. ASSUME NEW s \in Socket, Mute(s) PROVE DeafInv'
    <3>1. socket[s] \in Handled
        BY <2>7, <2>t, SocketTypes DEF Mute
    <3>2. /\ socket[s].pc = "recent" /\ socket'[s].pc = "mute"
          /\ socket'[s].of = socket[s].of
          /\ \A t \in Socket : t # s => socket'[t] = socket[t]
        BY <2>7, <2>t, <3>1 DEF Mute, Steps, Handled
    <3> QED
        BY <2>7, <3>2, DeafSilent DEF Mute
  <2> QED
      BY <2>2, <2>3, <2>4, <2>5, <2>6, <2>7, DeafHub, DeafServe DEF FNext
<1>3. DeafInv => DeafOnlyByClosing
    BY DEF DeafInv, TunedOrLeft, DeafOnlyByClosing, Left
<1> QED
    BY InitTyped, FInvStep, <1>1, <1>2, <1>3, PTL DEF FSpec

-----------------------------------------------------------------------------
(* The feed keeps its contract. *)

\* A connected socket is of the computer its page shows, and nothing is under
\* way on one that is not connected.
OpenShows ==
    \A s \in Socket :
        /\ socket[s].up => socket[s].of = page[socket[s].page].of
        /\ socket[s].wire # {} => socket[s].up

\* No page changes computer, no connection is made, and nothing is sent on a
\* broken one.
LEMMA ShowsStill ==
    ASSUME FTypeOK, OpenShows,
           \A p \in Page : page'[p].of = page[p].of,
           \A t \in Socket :
               /\ socket'[t].up => /\ socket[t].up
                                   /\ socket'[t].of = socket[t].of
                                   /\ socket'[t].page = socket[t].page
               /\ socket'[t].wire # {} => socket'[t].up
    PROVE  OpenShows'
<1> SUFFICES ASSUME NEW t \in Socket, socket'[t].up
             PROVE  socket'[t].of = page'[socket'[t].page].of
    BY DEF OpenShows
<1>1. socket[t] \in Handled
    BY SocketTypes
<1>2. socket[t].page \in Page
    BY <1>1 DEF Handled
<1> QED
    BY <1>2 DEF OpenShows

\* A page that is merged into shows the same computer.
LEMMA MergeShows ==
    ASSUME NEW t \in Tab, NEW S PROVE Merge(t, S).of = t.of
BY DEF Merge, Tab

\* A step of the API or of Redis.
LEMMA ShowsHub ==
    ASSUME FInv, OpenShows,
           \/ \E e \in Event : Store(e) \/ Publish(e)
           \/ Take \/ Refuse \/ Crash
           \/ \E s \in Socket : Serve(s) \/ Mute(s) \/ Drop(s)
    PROVE  OpenShows'
<1>t. FTypeOK /\ socket \in [Socket -> Conn]
    BY DEF FInv, FTypeOK
<1>p. UNCHANGED page
    BY DEF Store, Publish, Take, Refuse, Crash, Serve, Replay, Attach, Notice, Mute, Drop
<1>k. ASSUME NEW s \in Socket, socket[s] \in Handled,
             NEW c, socket' = [socket EXCEPT ![s] = c],
             c.up => socket[s].up /\ c.of = socket[s].of /\ c.page = socket[s].page,
             c.wire # {} => c.up
      PROVE  OpenShows'
  <2>1. \A t \in Socket : socket[t].wire # {} => socket[t].up
      BY DEF OpenShows
  <2> QED
      BY <1>t, <1>p, <1>k, <2>1, ShowsStill
<1>1. ASSUME NEW e \in Event, Publish(e) PROVE OpenShows'
  <2>1. ASSUME NEW t \in Socket
        PROVE  /\ socket'[t].up => /\ socket[t].up
                                   /\ socket'[t].of = socket[t].of
                                   /\ socket'[t].page = socket[t].page
               /\ socket'[t].wire # {} => socket'[t].up
    <3>1. CASE socket'[t] = socket[t]
        BY <3>1 DEF OpenShows
    <3>2. CASE socket[t].up /\ socket'[t] = [socket[t] EXCEPT !.wire = @ \cup {e}]
      <4>1. socket[t] \in Handled
          BY <3>2, <1>t, SocketTypes
      <4> QED
          BY <3>2, <4>1 DEF Handled
    <3> QED
        BY <1>1, <3>1, <3>2 DEF Publish
  <2> QED
      BY <1>t, <1>p, <2>1, ShowsStill
<1>2. ASSUME NEW s \in Socket, Replay(s) PROVE OpenShows'
  <2>1. socket[s] \in Handled
      BY <1>2, <1>t, SocketTypes DEF Replay
  <2>2. socket[s].wire # {} => socket[s].up
      BY DEF OpenShows
  <2>3. PICK w : socket' = [socket EXCEPT ![s] =
                      [socket[s] EXCEPT !.pc = "subscribe", !.on = TRUE, !.wire = w]]
                 /\ (~socket[s].up => w = socket[s].wire)
      BY <1>2, <1>t, <2>1 DEF Replay, Handled
  <2> QED
      BY <1>k, <2>1, <2>2, <2>3 DEF Handled
<1>3. ASSUME NEW s \in Socket, Attach(s) \/ Mute(s) \/ Notice(s) PROVE OpenShows'
  <2>1. socket[s] \in Handled
      BY <1>3, <1>t, SocketTypes DEF Attach, Mute, Notice, Handler
  <2>3. /\ socket'[s].up = socket[s].up /\ socket'[s].of = socket[s].of
        /\ socket'[s].page = socket[s].page /\ socket'[s].wire = socket[s].wire
        /\ \A t \in Socket : t # s => socket'[t] = socket[t]
    <3>1. CASE Attach(s) \/ Mute(s)
        BY <3>1, <1>t, <2>1 DEF Attach, Mute, Steps, Handled
    <3>2. CASE Notice(s) /\ socket[s].pc \in {"attached", "mute"}
        BY <3>2, <1>t, <2>1 DEF Notice, Closes, Handled
    <3>3. CASE Notice(s) /\ socket[s].pc \notin {"attached", "mute"}
        BY <3>3, <1>t, <2>1 DEF Notice, Handled
    <3> QED
        BY <1>3, <3>1, <3>2, <3>3
  <2>4. \A t \in Socket : socket[t].wire # {} => socket[t].up
      BY DEF OpenShows
  <2> QED
      BY <1>t, <1>p, <2>3, <2>4, ShowsStill
<1>4. ASSUME NEW s \in Socket, Drop(s) PROVE OpenShows'
  <2>1. socket[s] \in Handled
      BY <1>4, <1>t, SocketTypes DEF Drop
  <2>2. socket' = [socket EXCEPT ![s] = Hangup(socket[s])]
      BY <1>4 DEF Drop
  <2>3. ~Hangup(socket[s]).up /\ Hangup(socket[s]).wire = {}
      BY <2>1 DEF Hangup, Handled
  <2> QED
      BY <1>k, <2>1, <2>2, <2>3
<1>5. ASSUME Refuse PROVE OpenShows'
  <2> DEFINE b == Head(commands).by
  <2>1. b \in Socket /\ socket[b].pc # "free"
    <3>1. 1 \in DOMAIN commands /\ Head(commands) = commands[1] /\ Head(commands) \in Command
        BY <1>5, <1>t, Commands DEF Refuse, FTypeOK
    <3> QED
        BY <3>1 DEF FInv, CommandsOpen, Command
  <2>2. socket[b] \in Handled
      BY <2>1, <1>t, SocketTypes
  <2>3. socket[b].wire # {} => socket[b].up
      BY <2>1 DEF OpenShows
  <2>4. socket' = [socket EXCEPT ![b] = [socket[b] EXCEPT !.pc = "mute"]]
      BY <1>5 DEF Refuse, Steps
  <2> QED
      BY <1>k, <2>1, <2>2, <2>3, <2>4 DEF Handled
<1>6. ASSUME Crash PROVE OpenShows'
  <2>1. ASSUME NEW t \in Socket PROVE ~socket'[t].up /\ socket'[t].wire = {}
    <3>1. CASE socket[t].pc = "free"
      <4>1. socket'[t] = socket[t] /\ socket[t] = NoConn
          BY <3>1, <1>6, <1>t, SocketTypes DEF Crash
      <4> QED
          BY <4>1 DEF NoConn
    <3>2. CASE socket[t].pc # "free"
      <4>1. socket[t] \in Handled
          BY <3>2, <1>t, SocketTypes
      <4> QED
          BY <1>6, <3>2, <4>1 DEF Crash, Handled
    <3> QED
        BY <3>1, <3>2
  <2> QED
      BY <2>1 DEF OpenShows
<1>7. ASSUME UNCHANGED socket PROVE OpenShows'
    BY <1>p, <1>7 DEF OpenShows
<1> QED
    BY <1>1, <1>2, <1>3, <1>4, <1>5, <1>6, <1>7 DEF Store, Take, Serve

\* A step of a page.
LEMMA ShowsPage ==
    ASSUME FInv, OpenShows,
           \/ \E s \in Socket, e \in Event : Receive(s, e)
           \/ \E p \in Page : \/ \E c \in Computer : Show(p, c)
                              \/ History(p)
                              \/ \E s \in Socket : Open(p, s)
    PROVE  OpenShows'
<1>t. FTypeOK /\ socket \in [Socket -> Conn] /\ page \in [Page -> Tab]
    BY DEF FInv, FTypeOK
<1>1. ASSUME NEW s \in Socket, NEW e \in Event, Receive(s, e) PROVE OpenShows'
  <2>1. socket[s] \in Handled
    <3>1. socket[s] # NoConn
        BY <1>1 DEF Receive, NoConn
    <3> QED
        BY <3>1, <1>t, SocketTypes
  <2>2. \A p \in Page : page'[p].of = page[p].of
      BY <1>1, <1>t, MergeShows DEF Receive
  <2>3. \A t \in Socket :
            /\ socket'[t].up = socket[t].up /\ socket'[t].of = socket[t].of
            /\ socket'[t].page = socket[t].page
            /\ socket'[t].wire \subseteq socket[t].wire
      BY <1>1, <1>t, <2>1 DEF Receive, Handled
  <2>4. \A t \in Socket : socket'[t].wire # {} => socket'[t].up
      BY <2>3 DEF OpenShows
  <2> QED
      BY <1>t, <2>2, <2>3, <2>4, ShowsStill
<1>2. ASSUME NEW p \in Page, NEW c \in Computer, Show(p, c) PROVE OpenShows'
  <2>1. \A q \in Page : q # p => page'[q].of = page[q].of
      BY <1>2, <1>t DEF Show, Tab
  <2>2. ASSUME NEW t \in Socket
        PROVE  /\ socket'[t].up => socket'[t].of = page'[socket'[t].page].of
               /\ socket'[t].wire # {} => socket'[t].up
    <3>1. CASE socket[t].up /\ socket[t].page = p
      <4>1. socket[t] \in Handled
          BY <3>1, <1>t, SocketTypes
      <4> QED
          BY <1>2, <3>1, <4>1 DEF Show, Hangup, Handled
    <3>2. CASE ~(socket[t].up /\ socket[t].page = p)
      <4>1. socket'[t] = socket[t]
          BY <1>2, <3>2 DEF Show
      <4>2. socket[t].up => socket[t].page \in Page
          BY <1>t, SocketTypes DEF Handled
      <4> QED
          BY <2>1, <3>2, <4>1, <4>2 DEF OpenShows
    <3> QED
        BY <3>1, <3>2
  <2> QED
      BY <2>2 DEF OpenShows
<1>3. ASSUME NEW p \in Page, History(p) PROVE OpenShows'
  <2>1. [page[p] EXCEPT !.asked = FALSE] \in Tab
        /\ [page[p] EXCEPT !.asked = FALSE].of = page[p].of
      BY <1>t DEF Tab
  <2>2. \A q \in Page : page'[q].of = page[q].of
      BY <1>3, <1>t, <2>1, MergeShows DEF History
  <2> QED
      BY <1>3, <1>t, <2>2, ShowsStill DEF History, OpenShows
<1>4. ASSUME NEW p \in Page, NEW s \in Socket, Open(p, s) PROVE OpenShows'
  <2>1. /\ socket'[s].page = p /\ socket'[s].of = page[p].of
        /\ socket'[s].up /\ UNCHANGED page
        /\ \A t \in Socket : t # s => socket'[t] = socket[t]
      BY <1>4, <1>t DEF Open, NoConn
  <2> QED
      BY <2>1 DEF OpenShows
<1> QED
    BY <1>1, <1>2, <1>3, <1>4

\* Every step is one of the contract, or none of its business.
LEMMA FeedStep ==
    ASSUME FInv, FeedIsNewest', CarriesItsOwn, OpenShows, [FNext]_fvars
    PROVE  [Contract!DNext]_Contract!dvars
<1>t. /\ event \in [Event -> Stage] /\ page \in [Page -> Tab] /\ FTypeOK
      /\ socket \in [Socket -> Conn]
    BY DEF FInv, FTypeOK
<1>k. ASSUME UNCHANGED event,
             \A p \in Page : /\ page'[p].of = page[p].of
                             /\ page'[p].got = page[p].got
                             /\ page'[p].events = page[p].events
      PROVE  UNCHANGED Contract!dvars
    BY <1>k DEF Contract!dvars
<1>n. ASSUME UNCHANGED <<event, page>> PROVE UNCHANGED Contract!dvars
    BY <1>n, <1>k
<1>m. ASSUME NEW p \in Page, NEW u \in Tab, NEW S \in SUBSET Stored(page[p].of),
             u.of = page[p].of, u.got = page[p].got,
             page' = [page EXCEPT ![p] = Merge(u, S)], UNCHANGED event
      PROVE  Contract!Tell(p)
  <2>0. S \subseteq Event
      BY DEF Stored
  <2>1. /\ page'[p] = Merge(u, S)
        /\ \A q \in Page : q # p => page'[q] = page[q]
        /\ Merge(u, S).of = page[p].of /\ Merge(u, S).got = page[p].got \cup S
      BY <1>m, <1>t, <2>0, MergeTypes, MergeShows
  <2>2. S \in SUBSET {e \in {f \in Event : event[f] # "absent"} :
                         Subject[e] = [q \in Page |-> page[q].of][p]}
      BY DEF Stored
  <2>3. [q \in Page |-> page'[q].got] =
            [[q \in Page |-> page[q].got] EXCEPT ![p] = @ \cup S]
      BY <2>1
  <2>4. page'[p].events = Newest(MAX_ACTIVITY, page'[p].got)
      BY DEF FeedIsNewest
  <2>5. [q \in Page |-> page'[q].events] =
            [[q \in Page |-> page[q].events] EXCEPT
                ![p] = Contract!Newest(MAX_ACTIVITY, [q \in Page |-> page'[q].got][p])]
    <3>1. \A T : Contract!Newest(MAX_ACTIVITY, T) = Newest(MAX_ACTIVITY, T)
      <4>1. \A T : Contract!Cardinality(T) = Cardinality(T)
          BY Zenon DEF Cardinality, Contract!Cardinality
      <4> QED
          BY <4>1 DEF Newest, Contract!Newest
    <3>2. \A q \in Page : q # p => page'[q].events = page[q].events
        BY <2>1
    <3> QED
        BY <2>4, <3>1, <3>2
  <2>6. /\ {e \in Event : event'[e] # "absent"} = {e \in Event : event[e] # "absent"}
        /\ [q \in Page |-> page'[q].of] = [q \in Page |-> page[q].of]
      BY <1>m, <2>1
  <2> QED
      BY <2>2, <2>3, <2>5, <2>6, Zenon DEF Contract!Tell
<1>1. ASSUME NEW e \in Event, Store(e) PROVE Contract!Record(e)
  <2>1. {f \in Event : event'[f] # "absent"} =
            {f \in Event : event[f] # "absent"} \cup {e}
      BY <1>1, <1>t DEF Store, Stage
  <2> QED
      BY <1>1, <2>1 DEF Store, Contract!Record
<1>2. ASSUME NEW e \in Event, Publish(e) PROVE UNCHANGED Contract!dvars
  <2>1. \A f \in Event : event'[f] # "absent" <=> event[f] # "absent"
      BY <1>2, <1>t DEF Publish
  <2> QED
      BY <1>2, <2>1 DEF Publish, Contract!dvars
<1>3. ASSUME NEW s \in Socket, NEW e \in Event, Receive(s, e)
      PROVE  \E p \in Page : Contract!Tell(p)
  <2> DEFINE p == socket[s].page
  <2>1. socket[s] \in Handled
    <3>1. socket[s] # NoConn
        BY <1>3 DEF Receive, NoConn
    <3> QED
        BY <3>1, <1>t, SocketTypes
  <2>2. p \in Page /\ page[p] \in Tab
      BY <1>t, <2>1 DEF Handled
  <2>3. socket[s].of = page[p].of
      BY <1>3 DEF Receive, OpenShows
  <2>4. {e} \in SUBSET Stored(page[p].of)
      BY <1>3, <2>3 DEF Receive, CarriesItsOwn
  <2>5. page' = [page EXCEPT ![p] = Merge(page[p], {e})] /\ UNCHANGED event
      BY <1>3 DEF Receive
  <2> QED
      BY <1>m, <2>2, <2>4, <2>5
<1>4. ASSUME NEW p \in Page, History(p) PROVE Contract!Tell(p)
  <2> DEFINE u == [page[p] EXCEPT !.asked = FALSE]
  <2>1. u \in Tab /\ u.of = page[p].of /\ u.got = page[p].got
      BY <1>t DEF Tab
  <2>2. recent(page[p].of, HISTORY) \in SUBSET Stored(page[p].of)
      BY NewestPart DEF recent
  <2>3. page' = [page EXCEPT ![p] = Merge(u, recent(page[p].of, HISTORY))]
        /\ UNCHANGED event
      BY <1>4 DEF History, activity
  <2> QED
      BY <1>m, <2>1, <2>2, <2>3
<1>5. ASSUME NEW p \in Page, NEW c \in Computer, Show(p, c) PROVE Contract!Turn(p, c)
  <2>1. /\ page'[p].of = c /\ page[p].of # c
        /\ \A q \in Page : /\ q # p => page'[q].of = page[q].of
                           /\ page'[q].got = page[q].got
                           /\ page'[q].events = page[q].events
        /\ UNCHANGED event
    <3>1. /\ page' = [page EXCEPT ![p] = [page[p] EXCEPT !.of = c, !.asked = TRUE]]
          /\ page[p].of # c /\ UNCHANGED event
        BY <1>5, <1>t DEF Show
    <3>2. page[p] \in Tab
        BY <1>t
    <3>3. page'[p] = [page[p] EXCEPT !.of = c, !.asked = TRUE]
          /\ \A q \in Page : q # p => page'[q] = page[q]
        BY <3>1, <1>t
    <3>4. page'[p].of = c /\ page'[p].got = page[p].got /\ page'[p].events = page[p].events
        BY <3>2, <3>3 DEF Tab
    <3> QED
        BY <3>1, <3>3, <3>4
  <2>2. [q \in Page |-> page'[q].of] = [[q \in Page |-> page[q].of] EXCEPT ![p] = c]
      BY <2>1
  <2>3. /\ [q \in Page |-> page'[q].got] = [q \in Page |-> page[q].got]
        /\ [q \in Page |-> page'[q].events] = [q \in Page |-> page[q].events]
    <3>1. \A q \in Page : page'[q].got = page[q].got /\ page'[q].events = page[q].events
        BY <2>1
    <3> QED
        BY <3>1
  <2>4. {f \in Event : event'[f] # "absent"} = {f \in Event : event[f] # "absent"}
      BY <2>1
  <2> QED
      BY <2>1, <2>2, <2>3, <2>4 DEF Contract!Turn
<1>6. ASSUME NEW s \in Socket, Serve(s) \/ Mute(s) \/ Drop(s)
      PROVE  UNCHANGED Contract!dvars
    BY <1>6, <1>n DEF Serve, Replay, Attach, Notice, Mute, Drop
<1>7. ASSUME Take \/ Refuse \/ Crash \/ UNCHANGED fvars
      PROVE  UNCHANGED Contract!dvars
    BY <1>7, <1>n DEF Take, Refuse, Crash, fvars
<1>8. ASSUME NEW p \in Page, NEW s \in Socket, Open(p, s)
      PROVE  UNCHANGED Contract!dvars
    BY <1>8, <1>n DEF Open
<1> QED
    BY <1>1, <1>2, <1>3, <1>4, <1>5, <1>6, <1>7, <1>8 DEF FNext, Contract!DNext

\* Whatever the rows, the messages, the connections and the pages do in whatever
\* order, a page is told of recorded events of the computer it shows at that
\* moment only, and keeps the newest of them.
THEOREM FeedRefines == FSpec => FeedContractKept
<1>1. FInit => OpenShows
    BY DEF FInit, OpenShows, NoConn
<1>2. FInit => Contract!DInit
    BY DEF FInit, Contract!DInit, NoTab
<1>3. FInv /\ OpenShows /\ [FNext]_fvars => OpenShows'
    BY ShowsHub, ShowsPage DEF FNext, OpenShows, fvars
<1>4. /\ FInv /\ FeedIsNewest' /\ CarriesItsOwn /\ OpenShows /\ [FNext]_fvars
      => [Contract!DNext]_Contract!dvars
    BY FeedStep
<1> QED
    BY InitTyped, FInvStep, FeedNewest, FeedOwn, <1>1, <1>2, <1>3, <1>4, PTL
       DEF FSpec, FeedContractKept, Contract!DSpec
=============================================================================
