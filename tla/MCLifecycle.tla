---------------------------- MODULE MCLifecycle ----------------------------
(***************************************************************************)
(* Constants and starting states of the TLC runs of Lifecycle.             *)
(***************************************************************************)
EXTENDS Lifecycle, TLC

Everything == LifecycleAction

\* The slots of the worker are interchangeable, and so are the API handlers.
Symmetry == Permutations(Worker) \cup Permutations(Request)

\* Every computer already provisioned, as a PROVISION whose job row is left out
\* leaves it.
InitRunning ==
    \E h \in Host :
        /\ row = [c \in Computer |-> [AbsentRow EXCEPT !.status = "RUNNING",
                      !.hostId = h, !.instance = <<h, 1>>]]
        /\ box = [g \in Host |-> [c \in Computer |->
                      IF g = h THEN [made |-> 1, state |-> "running", volume |-> TRUE]
                      ELSE NoBox]]
        /\ host = [g \in Host |-> [compute |-> IF g = h THEN Cardinality(Computer) ELSE 0,
                      storage |-> IF g = h THEN Cardinality(Computer) ELSE 0,
                      healthy |-> TRUE]]
        /\ job = [j \in Job |-> FreeJob]
        /\ entry = [j \in Job |-> NoEntry]
        /\ worker = [w \in Worker |-> IdleSlot]
        /\ pass = [p \in Pass |-> NoPass]
        /\ request = [r \in Request |-> IdleHandler]
        /\ faults = 0
        /\ crashes = 0

RunningSpec == InitRunning /\ [][Next]_vars

RunningFairSpec == RunningSpec /\ Fairness
=============================================================================
