\* Handlers, operators and two slots of the worker on one computer.
SPECIFICATION ASpec
CONSTANTS
  Human = {h1, h2}
  Caller = {c1, c2}
  WorkerSlot = {w1, w2}
  ApiSlot = {}
  None = None
  Requests = {"attach", "detach", "control", "input", "summon", "stream", "console", "events"}
  MaxRuns = 1
  MaxSteps = 2
  MaxCrashes = 2
SYMMETRY ASymmetry
INVARIANT ATypeOK
 
INVARIANT OneExecutor
PROPERTY LockLeased
PROPERTY AgentContractKept
\* Clients stop asking and the bounds are finite: the system may come to rest.
CHECK_DEADLOCK FALSE
