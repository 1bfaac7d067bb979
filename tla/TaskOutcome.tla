------------------------------ MODULE TaskOutcome ------------------------------
(***************************************************************************)
(* What one attempt may do to its task, as Scheduler assumes it in         *)
(* WorkerSettles, RouteValuesAfter, SealRun and ZombieSettles: the promise *)
(* settles once and writes the outcome, unless the orchestrator has sealed *)
(* the run first and written its own.                                      *)
(***************************************************************************)
CONSTANT Outcomes     \* Scheduler's WorkerOutcomes

VARIABLES
  task,               \* the task's status
  accepted,           \* the promise settled with an accepted result (route_value)
  settled,            \* the attempt's promise has settled
  aborting, sealed    \* runContext

vars == <<task, accepted, settled, aborting, sealed>>

Init ==
  /\ task = "running"
  /\ accepted = FALSE /\ settled = FALSE /\ aborting = FALSE /\ sealed = FALSE

\* RouteValuesAfter: what an outcome tells about the worker's result
AcceptedAfter(status) ==
  CASE status \in {"succeeded", "gate_failed"} -> {TRUE}
    [] status \in {"schema_violation", "timed_out"} -> {FALSE}
    [] OTHER -> BOOLEAN

\* WorkerSettles
Settle(status) ==
  /\ ~settled /\ ~sealed
  /\ status \in Outcomes \/ (aborting /\ status \in {"cancelled", "running"})
  /\ task' = status
  /\ accepted' \in AcceptedAfter(status)
  /\ settled' = TRUE
  /\ UNCHANGED <<aborting, sealed>>

\* ZombieSettles
SettleSealed ==
  /\ ~settled /\ sealed
  /\ settled' = TRUE
  /\ UNCHANGED <<task, accepted, aborting, sealed>>

Abort ==
  /\ ~settled /\ ~aborting /\ aborting' = TRUE
  /\ UNCHANGED <<task, accepted, settled, sealed>>

\* SealRun
Seal(status) ==
  /\ aborting /\ ~sealed /\ sealed' = TRUE
  /\ status \in {"failed", "cancelled"}
  /\ task' = IF task = "running" THEN status ELSE task
  /\ UNCHANGED <<accepted, settled, aborting>>

SettleSome == SettleSealed \/ \E status \in Outcomes \cup {"cancelled", "running"} : Settle(status)

Next == SettleSome \/ Abort \/ \E status \in {"failed", "cancelled"} : Seal(status)

Spec == Init /\ [][Next]_vars

\* The fairness Scheduler gives Settle(t)
FairSpec == Spec /\ WF_vars(SettleSome)
=============================================================================
