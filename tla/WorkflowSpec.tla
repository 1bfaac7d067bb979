---------------------------- MODULE WorkflowSpec ----------------------------
(***************************************************************************)
(* A validated workflow specification, as the scheduler sees it: the tasks *)
(* and phases of workflow.yaml with their dependencies, retry policies,    *)
(* routes and foreach declarations, and the status sets of constants.js.   *)
(* The assumptions are the rules validateWorkflowSpec enforces at plan     *)
(* time and again on every command (assertKnownRunState).                  *)
(***************************************************************************)
EXTENDS Naturals, FiniteSets, SequencesExt

CONSTANTS
  SpecTasks,       \* tasks declared in the spec
  Children,        \* ids <parent>.<index> foreach expansions may create
  Phases,
  TaskDef,         \* [SpecTasks -> TaskRecord]
  PhaseDef,        \* [Phases -> PhaseRecord]
  Route,           \* routing task -> [values, cases, default]
  Foreach,         \* foreach parent -> [max_items, concurrency, tolerated_failure_count]
  ChildDef,        \* [Children -> [parent_task_id, item_index]]
  TaskOrder,       \* scheduledTasks() order: spec tasks, then children
  PhaseOrder,
  MaxConcurrency,
  MaxAgents

AllTasks == SpecTasks \cup Children

TaskRecord == [phase_id: Phases, depends_on: SUBSET SpecTasks, kind: {"local", "worker"},
               retryable: BOOLEAN, max_attempts: Nat \ {0}]

PhaseRecord == [depends_on: SUBSET Phases, on_failure: {"fail", "continue"}]

\* A foreach child inherits its parent's definition, except that its
\* dependencies were satisfied by the expansion.
DefOf(t) ==
  IF t \in Children
    THEN [TaskDef[ChildDef[t].parent_task_id] EXCEPT !.depends_on = {}]
    ELSE TaskDef[t]

PhaseOf(t) == DefOf(t).phase_id
DependsOn(t) == DefOf(t).depends_on
PhaseTasks(p) == {t \in SpecTasks : TaskDef[t].phase_id = p}
IsLocal(t) == DefOf(t).kind = "local"
ForeachParents == DOMAIN Foreach
Routers == DOMAIN Route
ChildrenOf(p) == {c \in Children : ChildDef[c].parent_task_id = p}

CaseTasks(r) == Route[r].default \cup UNION {Route[r].cases[v] : v \in DOMAIN Route[r].cases}

\* cases[value] when the value has an explicit case, otherwise default
Selected(r, value) ==
  IF value \in DOMAIN Route[r].cases THEN Route[r].cases[value] ELSE Route[r].default

\* Tasks that precede t in scheduledTasks() are offered for launch first.
Rank(t) == CHOOSE i \in DOMAIN TaskOrder : TaskOrder[i] = t
IsFirst(t, S) == t \in S /\ \A u \in S : Rank(t) <= Rank(u)

-----------------------------------------------------------------------------
(* Status sets of constants.js. *)

PermanentFailure ==
  {"failed", "timed_out", "cancelled", "schema_violation", "gate_failed", "skipped"}
NonFailureTerminal == {"succeeded", "skipped_by_route"}
TerminalTask == NonFailureTerminal \cup PermanentFailure
Retryable == {"failed", "timed_out", "schema_violation", "gate_failed"}
Resumable == Retryable \cup {"skipped"}

\* "absent": a child no expansion has created yet
TaskStatus == {"absent", "queued", "running", "expanded"} \cup TerminalTask

FinalPhase == {"succeeded", "failed", "skipped"}
PhaseStatus == {"waiting", "ready", "running"} \cup FinalPhase

TerminalRun == {"completed", "failed", "cancelled"}

-----------------------------------------------------------------------------
(* The graph rules of validateWorkflowSpec. *)

\* Everything a node depends on, directly or not: what every set that holds
\* its dependencies, and those of its members, must hold.
Upstream(deps) ==
  LET closed(X) == \A y \in X : deps[y] \subseteq X
  IN  [x \in DOMAIN deps |->
        {d \in DOMAIN deps : \A X \in SUBSET (DOMAIN deps) :
           deps[x] \subseteq X /\ closed(X) => d \in X}]

\* A task in its own closure is a cycle.
DependencyClosure == Upstream([t \in SpecTasks |-> TaskDef[t].depends_on])

PhaseClosure == Upstream([p \in Phases |-> PhaseDef[p].depends_on])

RoutesListing(t) == {r \in Routers : t \in CaseTasks(r)}

\* V2: a case task is ordered after its routing task.  V3: only case tasks of
\* the same route depend on a case task.  V4: one route per case task.
\* V6: every case task is in some reachable resolution.
RouteTopology ==
  /\ \A r \in Routers : \A c \in CaseTasks(r) :
       /\ c # r
       /\ r \in DependencyClosure[c]
       /\ \E v \in Route[r].values : c \in Selected(r, v)
  /\ \A t \in SpecTasks : Cardinality(RoutesListing(t)) <= 1
  /\ \A t \in SpecTasks : \A d \in TaskDef[t].depends_on :
       RoutesListing(d) # {} => RoutesListing(d) \cap RoutesListing(t) # {}

\* The budget precondition of validateForeachTopology; the children are
\* numbered 0 .. max_items - 1.
ForeachBudget ==
  /\ \A p \in ForeachParents :
       {ChildDef[c].item_index : c \in ChildrenOf(p)} = 0 .. Foreach[p].max_items - 1
  /\ ForeachParents # {} => Cardinality(AllTasks) <= MaxAgents

-----------------------------------------------------------------------------
ASSUME TasksFinite == IsFiniteSet(AllTasks) /\ IsFiniteSet(Phases)

ASSUME TaskDefType == TaskDef \in [SpecTasks -> TaskRecord]

ASSUME PhaseDefType == PhaseDef \in [Phases -> PhaseRecord]

ASSUME ForeachType ==
  /\ ForeachParents \subseteq {t \in SpecTasks : ~IsLocal(t)}
  /\ Foreach \in [ForeachParents ->
                    [max_items: Nat \ {0}, concurrency: Nat \ {0},
                     tolerated_failure_count: Nat]]
  /\ ChildDef \in [Children -> [parent_task_id: ForeachParents, item_index: Nat]]
  /\ SpecTasks \cap Children = {}

ASSUME RouteType ==
  /\ Routers \subseteq {t \in SpecTasks : ~IsLocal(t)} \ ForeachParents
  /\ \A r \in Routers :
       /\ DOMAIN Route[r].cases \subseteq Route[r].values
       /\ CaseTasks(r) \subseteq SpecTasks

ASSUME LimitsType == MaxConcurrency \in Nat \ {0} /\ MaxAgents \in Nat \ {0}

ASSUME GraphRules ==
  /\ \A t \in SpecTasks : t \notin DependencyClosure[t]
  /\ \A p \in Phases : p \notin PhaseClosure[p]
  /\ RouteTopology
  /\ ForeachBudget

ASSUME OrderRules ==
  /\ TaskOrder \in Seq(AllTasks) /\ PhaseOrder \in Seq(Phases)
  /\ IsInjective(TaskOrder) /\ ToSet(TaskOrder) = AllTasks
  /\ \A t \in SpecTasks, c \in Children : Rank(t) < Rank(c)
  /\ IsInjective(PhaseOrder) /\ ToSet(PhaseOrder) = Phases
=============================================================================
