----------------------------- MODULE MCRunCommands -----------------------------
(* A small instance of RunCommands for TLC. *)
EXTENDS RunCommands, TLC

Symmetry == Permutations(Processes)
=============================================================================
