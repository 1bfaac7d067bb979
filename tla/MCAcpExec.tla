------------------------------- MODULE MCAcpExec -------------------------------
(* A small instance of AcpExec for TLC. *)
EXTENDS AcpExec

\* A binary that is not there, an agent that stops when asked to, one that only
\* SIGKILL stops, one that leaves a stubborn helper behind.
MCWorlds ==
  {[alive |-> {},         obeys |-> [m \in Members |-> 1]],
   [alive |-> {"leader"}, obeys |-> [m \in Members |-> 1]],
   [alive |-> {"leader"}, obeys |-> [m \in Members |-> 3]],
   [alive |-> Members,    obeys |-> [m \in Members |-> IF m = "leader" THEN 1 ELSE 3]]}
=============================================================================
