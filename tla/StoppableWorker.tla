---------------------------- MODULE StoppableWorker ----------------------------
(***************************************************************************)
(* What an executor promises the orchestrator about the processes it runs, *)
(* one after the other: each settles once; told to stop, it settles within *)
(* Grace seconds; and it is told to stop only while it runs.               *)
(***************************************************************************)
EXTENDS Naturals

CONSTANT Grace     \* seconds from the first request to stop to the end

VARIABLES
  state,           \* "none", "running" or "settled"
  stopping,        \* a timeout or a cancel has told it to stop
  age              \* seconds since then

vars == <<state, stopping, age>>

Init == state = "none" /\ stopping = FALSE /\ age = 0

Start == state # "running" /\ state' = "running" /\ stopping' = FALSE /\ age' = 0

Stop == state = "running" /\ stopping' = TRUE /\ UNCHANGED <<state, age>>

Settle == state = "running" /\ state' = "settled" /\ UNCHANGED <<stopping, age>>

\* A second passes for a process that is stopping.
Age ==
  /\ state = "running" /\ stopping /\ age < Grace
  /\ age' = age + 1
  /\ UNCHANGED <<state, stopping>>

Next == Start \/ Stop \/ Settle \/ Age

Spec == Init /\ [][Next]_vars
=============================================================================
