--------------------------- MODULE MCActivityFeed ---------------------------
(***************************************************************************)
(* Constants of the TLC runs of ActivityFeed.                              *)
(***************************************************************************)
EXTENDS ActivityFeed

CONSTANTS c1, c2

\* Every event is about the first computer.
Mine == [e \in 1..MaxEvents |-> c1]
=============================================================================
