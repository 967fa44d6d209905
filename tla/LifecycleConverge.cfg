\* The timer repairs what a failure, and passes that overlap jobs, leave.
SPECIFICATION RunningFairSpec
CONSTANTS
  Computer = {c1}
  Host = {h1}
  Worker = {w1}
  Request = {r1}
  Key = {}
  None = None
  Actions = {"stop", "delete"}
  TimerOn = TRUE
  Capacity = 2
  ComputerLimit = 2
  RunningLimit = 2
  MaxJobs = 2
  MaxFaults = 1
  MaxCrashes = 0
PROPERTY StatusConverges
PROPERTY LoadConverges
\* The clients and the budgets are finite: the system comes to rest.
CHECK_DEADLOCK FALSE
