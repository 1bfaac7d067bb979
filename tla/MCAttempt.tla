------------------------------- MODULE MCAttempt -------------------------------
(* A small instance of Attempt for TLC. *)
EXTENDS Attempt

\* A program that is not there, a plain one, one that catches what it can, one
\* that leaves a stubborn helper behind.
MCWorlds ==
  {[alive |-> {},         obeys |-> [m \in Members |-> 1]],
   [alive |-> {"leader"}, obeys |-> [m \in Members |-> 2]],
   [alive |-> {"leader"}, obeys |-> [m \in Members |-> 3]],
   [alive |-> Members,    obeys |-> [m \in Members |-> IF m = "leader" THEN 1 ELSE 3]]}
=============================================================================
