\* A run that is detached while it is carried out.
SPECIFICATION ASpec
CONSTANTS
  Human = {h1}
  Caller = {c1}
  WorkerSlot = {w1}
  ApiSlot = {}
  None = None
  Requests = {"attach", "detach"}
  MaxRuns = 1
  MaxSteps = 2
  MaxCrashes = 1
SYMMETRY ASymmetry
PROPERTY DetachedStays
\* Clients stop asking and the bounds are finite: the system may come to rest.
CHECK_DEADLOCK FALSE
