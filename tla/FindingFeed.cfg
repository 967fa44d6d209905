\* Two pages of one computer, and one of them is closed.
SPECIFICATION FSpec
CONSTANTS
  c1 = c1
  c2 = c2
  Computer = {c1, c2}
  Page = {p1, p2}
  None = None
  Subject <- Mine
  REPLAY = 1
  HISTORY = 1
  MAX_ACTIVITY = 1
  MaxEvents = 2
  MaxSockets = 2
  MaxFaults = 0
PROPERTY PushedToLive
\* Sockets and events are bounded: the system may come to rest.
CHECK_DEADLOCK FALSE
