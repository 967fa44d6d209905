--------------------------- MODULE MCAgentControl ---------------------------
(***************************************************************************)
(* Constants of the TLC runs of AgentControl.                              *)
(***************************************************************************)
EXTENDS AgentControl, TLC

\* Operators, handlers and slots are interchangeable.
ASymmetry ==
    Permutations(Human) \cup Permutations(Caller) \cup Permutations(WorkerSlot)
=============================================================================
