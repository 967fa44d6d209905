\* Concurrent API handlers and a failing call against one worker.
SPECIFICATION Spec
CONSTANTS
  Computer = {c1}
  Host = {h1}
  Worker = {w1}
  Request = {r1, r2}
  Key = {k1}
  None = None
  Actions = {"provision", "stop", "delete"}
  TimerOn = FALSE
  Capacity = 2
  ComputerLimit = 2
  RunningLimit = 2
  MaxJobs = 2
  MaxFaults = 1
  MaxCrashes = 0
SYMMETRY Symmetry
INVARIANT TypeOK
INVARIANT VerdictsHold
 
INVARIANT AttemptsBounded
PROPERTY AcceptedAtomically
PROPERTY ContractKept
\* The clients and the budgets are finite: the system comes to rest.
CHECK_DEADLOCK FALSE
