----------------------------- MODULE MCScheduler -----------------------------
(***************************************************************************)
(* Small workflows for model checking Scheduler.  Each .cfg picks one of   *)
(* them for the spec constants, and the disturbances it meets.             *)
(***************************************************************************)
EXTENDS Scheduler, TLC

Worker(p, deps, tries) ==
  [phase_id |-> p, depends_on |-> deps, kind |-> "worker",
   retryable |-> tries > 1, max_attempts |-> tries]

Local(p, deps, tries) == [Worker(p, deps, tries) EXCEPT !.kind = "local"]

NoForeach == <<>>
NoRoute == <<>>
NoChildDef == <<>>

-----------------------------------------------------------------------------
(* Pipeline: a phase P that tolerates failures (a may be retried, b waits  *)
(* for it), then a phase Q of two parallel tasks whose failure is fatal.   *)
PipelineTasks ==
  "a" :> Worker("P", {}, 2) @@ "b" :> Worker("P", {"a"}, 1) @@
  "c" :> Worker("Q", {}, 1) @@ "d" :> Worker("Q", {}, 1)
PipelinePhases ==
  "P" :> [depends_on |-> {}, on_failure |-> "continue"] @@
  "Q" :> [depends_on |-> {"P"}, on_failure |-> "fail"]
PipelineOrder == <<"a", "b", "c", "d">>
TwoPhases == <<"P", "Q">>

-----------------------------------------------------------------------------
(* Trip: the router r chooses f or v; f also waits for d, which may fail,  *)
(* and fans out over two items in a phase whose failure is fatal; w, in    *)
(* every case, joins f and v; q competes for the slots.                    *)
TripTasks ==
  "r" :> Worker("P", {}, 1) @@ "d" :> Worker("P", {}, 1) @@
  "f" :> Worker("Q", {"r", "d"}, 2) @@ "v" :> Worker("P", {"r"}, 1) @@
  "w" :> Local("P", {"f", "v"}, 1) @@ "q" :> Worker("P", {}, 1)
TripRoute ==
  "r" :> [values |-> {"x", "y"}, cases |-> ("x" :> {"f", "w"}), default |-> {"v", "w"}]
TripForeach == "f" :> [max_items |-> 2, concurrency |-> 1, tolerated_failure_count |-> 1]
TripChildren ==
  "f.0" :> [parent_task_id |-> "f", item_index |-> 0] @@
  "f.1" :> [parent_task_id |-> "f", item_index |-> 1]
TripPhases ==
  "P" :> [depends_on |-> {}, on_failure |-> "continue"] @@
  "Q" :> [depends_on |-> {}, on_failure |-> "fail"]
TripOrder == <<"r", "d", "f", "v", "w", "q", "f.0", "f.1">>
=============================================================================
