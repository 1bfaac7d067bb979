----------------------------- MODULE PlannedRun -----------------------------
(***************************************************************************)
(* From a draft to the end of its run: an author edits a workflow, plan    *)
(* validates it (SpecRules), and the accepted workflow executes under the  *)
(* default policies (on_failure "fail", one attempt per task, no limit on  *)
(* concurrency).  Retries, crashes, expansion and tolerant phases are the  *)
(* subject of Scheduler; here the workflow itself is the unknown.          *)
(***************************************************************************)
EXTENDS SpecRules, TLC

CONSTANTS
  Drafts,       \* the workflows an author starts from
  Values,       \* the values a route may take
  MaxEdits,     \* bound on the edits made to one of them
  NoRoute       \* the choice of a route not resolved yet

VARIABLES
  spec,         \* workflow.yaml
  edits,        \* edits made so far (bound)
  stage,        \* drafting, refused, running, completed, failed, stranded
  status,       \* run.json: tasks[t].status
  choice,       \* tasks[r].route_value, once route_resolved
  failedRefs    \* references a launch could not resolve

vars == <<spec, edits, stage, status, choice, failedRefs>>

IsRoute(route) ==
  /\ DOMAIN route = {"values", "default", "cases"}
  /\ route.values \subseteq Values /\ route.default \subseteq TaskIds
  /\ DOMAIN route.cases \subseteq Values
  /\ route.cases \in [DOMAIN route.cases -> SUBSET TaskIds]

\* An id that is not declared depends on nothing: taskById.get(id)?.depends_on
IsWorkflow(w) ==
  /\ DOMAIN w = {"tasks", "kind", "phase_id", "depends_on", "phase_depends_on",
                 "refs", "route", "items"}
  /\ w.tasks \subseteq TaskIds
  /\ w.kind \in [TaskIds -> {"codex", "acp", "local"}]
  /\ w.phase_id \in [TaskIds -> PhaseIds]
  /\ w.depends_on \in [TaskIds -> SUBSET TaskIds]
  /\ \A t \in TaskIds \ w.tasks : w.depends_on[t] = {}
  /\ w.phase_depends_on \in [PhaseIds -> SUBSET PhaseIds]
  /\ w.refs \in [TaskIds -> SUBSET TaskIds]
  /\ DOMAIN w.route \subseteq TaskIds /\ \A r \in DOMAIN w.route : IsRoute(w.route[r])
  /\ DOMAIN w.items \subseteq TaskIds /\ w.items \in [DOMAIN w.items -> TaskIds]

ASSUME DraftsType == (\A w \in Drafts : IsWorkflow(w)) /\ NoRoute \notin Values /\ MaxEdits \in Nat

Ended == {"refused", "completed", "failed", "stranded"}
Done == {"succeeded", "skipped_by_route"}
Finished == Done \cup {"failed"}

Init ==
  /\ spec \in Drafts /\ edits = 0 /\ stage = "drafting"
  /\ status = [t \in TaskIds |-> "queued"]
  /\ choice = [t \in TaskIds |-> NoRoute]
  /\ failedRefs = {}

-----------------------------------------------------------------------------
(* The author *)

Edit(w) ==
  /\ stage = "drafting" /\ edits < MaxEdits /\ w # spec
  /\ spec' = w /\ edits' = edits + 1
  /\ UNCHANGED <<stage, status, choice, failedRefs>>

Depend(t, d) == Edit([spec EXCEPT !.depends_on[t] = @ \cup {d}])

DependPhase(p, q) == Edit([spec EXCEPT !.phase_depends_on[p] = @ \cup {q}])

Refer(t, p) == t # p /\ Edit([spec EXCEPT !.refs[t] = @ \cup {p}])

ListCase(r, v, t) == Edit([spec EXCEPT !.route[r].cases[v] = @ \cup {t}])

ListDefault(r, t) == Edit([spec EXCEPT !.route[r].default = @ \cup {t}])

Expand(t, p) ==
  /\ t # p
  /\ Edit([spec EXCEPT !.items = [u \in DOMAIN @ \cup {t} |-> IF u = t THEN p ELSE @[u]]])

\* A task is taken out; what mentions it stays.
Delete(t) ==
  t \notin DOMAIN spec.route \cup DOMAIN spec.items
  /\ Edit([spec EXCEPT !.tasks = @ \ {t}, !.depends_on[t] = {}, !.refs[t] = {}])

Author ==
  \/ \E t, d \in spec.tasks : Depend(t, d) \/ Refer(t, d) \/ Expand(t, d)
  \/ \E p, q \in PhaseIds : DependPhase(p, q)
  \/ \E r \in Routing(spec) : \E t \in spec.tasks :
       ListDefault(r, t) \/ \E v \in DOMAIN spec.route[r].cases : ListCase(r, v, t)
  \/ \E t \in spec.tasks : Delete(t)

-----------------------------------------------------------------------------
(* The run *)

PhaseTasksOf(p) == {t \in spec.tasks : spec.phase_id[t] = p}

PhaseSucceeded(p) == PhaseTasksOf(p) # {} /\ \A t \in PhaseTasksOf(p) : status[t] \in Done

\* Mutant of IsReady: a routed-away dependency does not satisfy.
IsReadyAfterSuccess(t) ==
  /\ status[t] = "queued"
  /\ \A d \in spec.depends_on[t] : status[d] = "succeeded"
  /\ \A q \in spec.phase_depends_on[spec.phase_id[t]] : PhaseSucceeded(q)

IsReady(t) ==
  /\ status[t] = "queued"
  /\ \A d \in spec.depends_on[t] : status[d] \in Done
  /\ \A q \in spec.phase_depends_on[spec.phase_id[t]] : PhaseSucceeded(q)

\* resolveRoute: the queued case tasks the value leaves out are skipped.
RouteAway(board, r, v) ==
  [t \in TaskIds |->
     IF t \in RouteCaseTasks(spec, r) \ Activated(spec, r, v) /\ board[t] = "queued"
       THEN "skipped_by_route" ELSE board[t]]

\* planWorkflow: a workflow with errors is refused, any other is run.
Plan ==
  /\ stage = "drafting"
  /\ stage' = IF Accepts(spec) THEN "running" ELSE "refused"
  /\ UNCHANGED <<spec, edits, status, choice, failedRefs>>

Unrendered(t) == {p \in References(spec, t) : status[p] # "succeeded"}

\* launchTask: the prompt is rendered before the worker starts.
Launch(t) ==
  /\ stage = "running" /\ IsReady(t) /\ Unrendered(t) = {}
  /\ status' = [status EXCEPT ![t] = "running"]
  /\ UNCHANGED <<spec, edits, stage, choice, failedRefs>>

\* template_resolution_failed, which fails the phase and the run.
FailTemplate(t) ==
  /\ stage = "running" /\ IsReady(t) /\ Unrendered(t) # {}
  /\ status' = [status EXCEPT ![t] = "failed"]
  /\ failedRefs' = {<<t, p>> : p \in Unrendered(t)}
  /\ stage' = "failed"
  /\ UNCHANGED <<spec, edits, choice>>

Succeed(t) ==
  /\ stage = "running" /\ status[t] = "running" /\ t \notin Routing(spec)
  /\ status' = [status EXCEPT ![t] = "succeeded"]
  /\ UNCHANGED <<spec, edits, stage, choice, failedRefs>>

SucceedWith(t, v) ==
  /\ stage = "running" /\ status[t] = "running" /\ t \in Routing(spec)
  /\ v \in spec.route[t].values
  /\ status' = RouteAway([status EXCEPT ![t] = "succeeded"], t, v)
  /\ choice' = [choice EXCEPT ![t] = v]
  /\ UNCHANGED <<spec, edits, stage, failedRefs>>

Fail(t) ==
  /\ stage = "running" /\ status[t] = "running"
  /\ status' = [status EXCEPT ![t] = "failed"]
  /\ stage' = "failed"
  /\ UNCHANGED <<spec, edits, choice, failedRefs>>

Idle == \A t \in spec.tasks : ~IsReady(t) /\ status[t] # "running"

\* The end of executeApprovedRun: the run is completed, or tasks remain
\* queued with no runnable work ("Unsatisfiable task dependencies").
FinishRun ==
  /\ stage = "running" /\ Idle
  /\ stage' = IF \A t \in spec.tasks : status[t] \in Done THEN "completed" ELSE "stranded"
  /\ UNCHANGED <<spec, edits, status, choice, failedRefs>>

Next ==
  \/ Author
  \/ Plan
  \/ \E t \in spec.tasks :
       Launch(t) \/ FailTemplate(t) \/ Succeed(t) \/ Fail(t)
       \/ (t \in Routing(spec) /\ \E v \in spec.route[t].values : SucceedWith(t, v))
  \/ FinishRun

Spec == Init /\ [][Next]_vars
-----------------------------------------------------------------------------
(* Properties *)

TypeOK ==
  /\ IsWorkflow(spec) /\ edits \in 0 .. MaxEdits
  /\ stage \in {"drafting", "running"} \cup Ended
  /\ status \in [TaskIds -> {"queued", "running"} \cup Finished]
  /\ choice \in [TaskIds -> Values \cup {NoRoute}]
  /\ failedRefs \subseteq TaskIds \X TaskIds

\* The depth-first search reports a cycle exactly when some task (phase) is
\* reached from itself, missing dependencies and unwinding frames included.
CyclesAreFound ==
  /\ DetectCycle(PhaseList, PhaseIds, spec.phase_depends_on) <=>
       \E p \in PhaseIds : p \in Reach(PhaseIds, spec.phase_depends_on, p)
  /\ DetectCycle(TaskList, spec.tasks, spec.depends_on) <=>
       \E t \in spec.tasks : t \in Closure(spec, t)

\* The memoized closures, built in any state of the memo, are the transitive
\* closures of every workflow without cycles (spec.js: "closures computed
\* inside a cycle may be incomplete, which is acceptable").
MemoIsTheClosure ==
  (\A t \in TaskIds : t \notin Closure(spec, t)) =>
    MemoClosures(spec) = [t \in TaskIds |-> Closure(spec, t)]

\* What the validator finds out about a graph, on every graph an author may
\* draw (util.js:96, spec.js:1293).
GraphsAreReadRight == CyclesAreFound /\ MemoIsTheClosure

\* A case task starts only after its route resolved, and only when the
\* resolution activates it (README: V2 "is what keeps case tasks from
\* launching before the route resolves").
CaseWaitsForRoute ==
  \A r \in Routing(spec) : \A c \in RouteCaseTasks(spec, r) :
    status[c] \in {"running", "succeeded", "failed"} =>
      choice[r] # NoRoute /\ c \in Activated(spec, r, choice[r])

\* V7: no launch finds a task it refers to routed away.
RoutedAwayIsNotReferred == \A e \in failedRefs : status[e[2]] # "skipped_by_route"

\* A reference is unresolved at launch only when a routed-away task stands
\* between consumer and producer: the producer, never routed away itself, is
\* still to come.
HiddenByASkip(consumer, producer) ==
  \E u \in Closure(spec, consumer) :
    status[u] = "skipped_by_route" /\ producer \in Closure(spec, u)

OnlyARouteHidesAProducer ==
  /\ RoutedAwayIsNotReferred
  /\ \A e \in failedRefs : HiddenByASkip(e[1], e[2])

\* "Unsatisfiable task dependencies" is never the fault of a route: the
\* phases and tasks wait for one another, or for a phase without tasks.
Waits == [t \in TaskIds |->
            spec.depends_on[t] \cup
            UNION {PhaseTasksOf(q) : q \in spec.phase_depends_on[spec.phase_id[t]]}]

StrandedByPhases ==
  stage = "stranded" =>
    \/ \E t \in spec.tasks : t \in Reach(TaskIds, Waits, t)
    \/ \E p, q \in PhaseIds : q \in spec.phase_depends_on[p] /\ PhaseTasksOf(q) = {}

\* What plan accepts, the scheduler's own model may assume (WorkflowSpec).
Scheduled ==
  INSTANCE WorkflowSpec WITH
    SpecTasks <- spec.tasks, Children <- {}, Phases <- PhaseIds,
    TaskDef <- [t \in spec.tasks |-> [depends_on |-> spec.depends_on[t]]],
    PhaseDef <- [p \in PhaseIds |-> [depends_on |-> spec.phase_depends_on[p]]],
    Route <- spec.route, Foreach <- <<>>, ChildDef <- <<>>,
    TaskOrder <- TaskList, PhaseOrder <- PhaseList,
    MaxConcurrency <- 1, MaxAgents <- AgentLimit

SchedulerRulesHold ==
  stage = "running" =>
    /\ \A t \in spec.tasks : t \notin Scheduled!DependencyClosure[t]
    /\ \A p \in PhaseIds : p \notin Scheduled!PhaseClosure[p]
    /\ Scheduled!RouteTopology

\* V2, V3 and V4 together rule out a route below a route: a task that waits
\* for the choice of one route makes no choice of its own.
RoutesAreFlat ==
  stage = "running" =>
    \A r \in Routing(spec) : RoutedBy(spec, r) # {} => RouteCaseTasks(spec, r) = {}

\* scheduler.js: "readiness guarantees the referenced producers completed
\* before the consumer launches".
ReferencesAreReady == failedRefs = {}
=============================================================================
