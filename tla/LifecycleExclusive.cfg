\* No failures, and no operation that a reconciliation pass follows.
SPECIFICATION RunningSpec
CONSTANTS
  Computer = {c1}
  Host = {h1}
  Worker = {w1, w2}
  Request = {r1, r2}
  Key = {}
  None = None
  Actions = {"start", "restart", "suspend", "resume"}
  TimerOn = FALSE
  Capacity = 2
  ComputerLimit = 2
  RunningLimit = 2
  MaxJobs = 3
  MaxFaults = 0
  MaxCrashes = 0
SYMMETRY Symmetry
INVARIANT ExclusiveOperation
 
\* The clients and the budgets are finite: the system comes to rest.
CHECK_DEADLOCK FALSE
