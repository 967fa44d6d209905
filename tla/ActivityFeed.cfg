\* A page that goes from one computer to another and loses its socket, and a failing call or a crash.
SPECIFICATION FFairSpec
CONSTANTS
  c1 = c1
  c2 = c2
  Computer = {c1, c2}
  Page = {p1}
  None = None
  Subject <- Mine
  REPLAY = 1
  HISTORY = 1
  MAX_ACTIVITY = 1
  MaxEvents = 2
  MaxSockets = 2
  MaxFaults = 1
INVARIANT FTypeOK
INVARIANT FeedIsNewest
INVARIANT CarriesItsOwn
 
PROPERTY FeedContractKept
PROPERTY CatchesUp
PROPERTY ListenersLeave
\* Sockets and events are bounded: the system may come to rest.
CHECK_DEADLOCK FALSE
