\* A crash, and jobs delivered before their transaction commits.
SPECIFICATION RunningFairSpec
CONSTANTS
  Computer = {c1}
  Host = {h1}
  Worker = {w1, w2}
  Request = {r1}
  Key = {}
  None = None
  Actions = {"start", "restart", "stop", "suspend", "resume"}
  TimerOn = FALSE
  Capacity = 2
  ComputerLimit = 2
  RunningLimit = 2
  MaxJobs = 2
  MaxFaults = 0
  MaxCrashes = 1
INVARIANT NothingLost
 
\* The clients and the budgets are finite: the system comes to rest.
CHECK_DEADLOCK FALSE
