\* A deletion accepted while the PROVISION is under way.
SPECIFICATION Spec
CONSTANTS
  Computer = {c1}
  Host = {h1}
  Worker = {w1, w2}
  Request = {r1}
  Key = {}
  None = None
  Actions = {"delete"}
  TimerOn = FALSE
  Capacity = 2
  ComputerLimit = 2
  RunningLimit = 2
  MaxJobs = 2
  MaxFaults = 0
  MaxCrashes = 0
SYMMETRY Symmetry
INVARIANT DeletionRemoves
\* The clients and the budgets are finite: the system comes to rest.
CHECK_DEADLOCK FALSE
