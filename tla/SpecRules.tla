------------------------------ MODULE SpecRules ------------------------------
(***************************************************************************)
(* validateWorkflowSpec (spec.js): the rules a workflow must meet before   *)
(* it is planned.  A workflow is a record                                  *)
(*   tasks      the declared tasks          kind     codex, acp or local   *)
(*   phase_id   the phase of each task      depends_on, phase_depends_on   *)
(*   refs       the tasks a prompt template refers to                      *)
(*   route      routing task -> [values, cases, default]                   *)
(*   items      foreach task -> the producer of its items                  *)
(* Shapes, id patterns and the executor fields are left out; the dotpath   *)
(* of a reference is the subject of TypedOutput.                           *)
(***************************************************************************)
EXTENDS Naturals, FiniteSets, SequencesExt

CONSTANTS
  TaskIds, TaskList,     \* the ids a spec may declare, and the order it lists them in
  PhaseIds, PhaseList,
  MinRouteValues,        \* 2 in spec.js
  MaxItems,              \* foreach.max_items of every foreach task
  AgentLimit             \* max_agents

ASSUME IdsAreFinite == IsFiniteSet(TaskIds) /\ IsFiniteSet(PhaseIds)

\* The lists are the arrays of workflow.yaml.
ASSUME ListsAreComplete ==
  /\ TaskList \in Seq(TaskIds) /\ ToSet(TaskList) = TaskIds
  /\ PhaseList \in Seq(PhaseIds) /\ ToSet(PhaseList) = PhaseIds

-----------------------------------------------------------------------------
(* A loop over a list: f[e] is what the body does for element e.           *)

Sweep(f, start, list) ==
  LET after[k \in 0 .. Len(list)] == IF k = 0 THEN start ELSE f[list[k]][after[k - 1]]
  IN  after[Len(list)]

-----------------------------------------------------------------------------
(* util.js detectCycle: a depth-first search with white, gray and black    *)
(* nodes.  Once a cycle is found the open frames still unwind: they go on  *)
(* through their dependencies, turn black, and may even report another     *)
(* cycle.  The path itself, which only the message shows, is left out; a   *)
(* frame is one call of visit, through its loop.                           *)

Walks(nodes) == [color : [nodes -> {"white", "gray", "black"}], cycle : BOOLEAN]
Frames(nodes) == [walk : Walks(nodes), returned : BOOLEAN]

\* An edge back to a node of the path closes a cycle.  The mutant takes a
\* finished node for one.
OnPathOrDone(walk, d) == walk.color[d] # "white"
OnPath(walk, d) == walk.color[d] = "gray"

\* The loop of a call, for a node with these dependencies: what the calls it
\* makes do is "visit".
Follow(list, nodes, edges, visit) ==
  [d \in ToSet(list) |-> [frame \in Frames(nodes) |->
     IF frame.returned \/ d \notin edges \cap nodes THEN frame
     ELSE IF OnPath(frame.walk, d)
       THEN [walk |-> [frame.walk EXCEPT !.cycle = TRUE], returned |-> TRUE]
     ELSE IF frame.walk.color[d] = "white" THEN [frame EXCEPT !.walk = visit[d][frame.walk]]
     ELSE frame]]

Call(list, nodes, dep, visit) ==
  [v \in nodes |-> [walk \in Walks(nodes) |->
     LET entered == [walk |-> [walk EXCEPT !.color[v] = "gray"], returned |-> FALSE]
         last == Sweep(Follow(list, nodes, dep[v], visit), entered, list)
     IN  IF walk.cycle THEN walk
         ELSE IF last.returned THEN last.walk
         ELSE [last.walk EXCEPT !.color[v] = "black"]]]

\* visit, for calls at most so many deep; every open call has a node of its own.
Visits(list, nodes, dep) ==
  LET visit[depth \in 0 .. Cardinality(nodes)] ==
        IF depth = 0 THEN [v \in nodes |-> [walk \in Walks(nodes) |-> walk]]
        ELSE Call(list, nodes, dep, visit[depth - 1])
  IN  visit

DetectCycle(list, nodes, dep) ==
  LET root == [v \in ToSet(list) |-> [walk \in Walks(nodes) |->
                 IF v \in nodes /\ walk.color[v] = "white"
                   THEN Visits(list, nodes, dep)[Cardinality(nodes)][v][walk] ELSE walk]]
      start == [color |-> [n \in nodes |-> "white"], cycle |-> FALSE]
  IN  Sweep(root, start, list).cycle

\* The same question by definition: n is reached from t when every set that
\* holds t's dependencies and is closed under dependencies holds n.
Reach(nodes, dep, t) ==
  {n \in nodes : \A S \in SUBSET nodes :
     (dep[t] \subseteq S /\ \A u \in S : dep[u] \subseteq S) => n \in S}

-----------------------------------------------------------------------------
(* spec.js dependencyClosure: memoized, with the entry of a task seeded    *)
(* before its dependencies are followed.                                   *)

Memos == UNION {[S -> SUBSET TaskIds] : S \in SUBSET TaskIds}

\* The loop over the dependencies of t: what the calls it makes do is "closure".
AddDependency(w, t, closure) ==
  [d \in ToSet(TaskList) |-> [memo \in Memos |->
     IF d \notin w.depends_on[t] \/ d \in memo[t] THEN memo
     ELSE LET deeper == closure[d][[memo EXCEPT ![t] = @ \cup {d}]]
          IN  [deeper EXCEPT ![t] = @ \cup deeper[d]]]]

CloseOne(w, closure) ==
  [t \in TaskIds |-> [memo \in Memos |->
     IF t \in DOMAIN memo THEN memo
     ELSE Sweep(AddDependency(w, t, closure),
                [u \in DOMAIN memo \cup {t} |-> IF u = t THEN {} ELSE memo[u]],
                TaskList)]]

\* dependencyClosure, for calls at most so many deep; every open call has an
\* entry of its own.
Closures(w) ==
  LET closure[depth \in 0 .. Cardinality(TaskIds)] ==
        IF depth = 0 THEN [t \in TaskIds |-> [memo \in Memos |-> memo]]
        ELSE CloseOne(w, closure[depth - 1])
  IN  closure

MemoClosures(w) == Sweep(Closures(w)[Cardinality(TaskIds)], <<>>, TaskList)

\* What dependencyClosure computes on a workflow without cycles
Closure(w, t) == Reach(TaskIds, w.depends_on, t)

-----------------------------------------------------------------------------
(* Routes *)

Routing(w) == DOMAIN w.route

RouteCaseTasks(w, r) ==
  w.route[r].default \cup UNION {w.route[r].cases[v] : v \in DOMAIN w.route[r].cases}

\* cases[value] when the value has an explicit case, otherwise default
Activated(w, r, v) ==
  IF v \in DOMAIN w.route[r].cases THEN w.route[r].cases[v] ELSE w.route[r].default

\* buildRouteIndex: the routing tasks that list t
RoutedBy(w, t) == {r \in Routing(w) : t \in RouteCaseTasks(w, r)}

\* V1, V5 and V6: neither local nor acp tasks route; a case for a declared
\* value only; not itself; every case task in some resolution.
RouteIsWellFormed(w, r) ==
  /\ w.kind[r] = "codex" /\ r \notin DOMAIN w.items
  /\ Cardinality(w.route[r].values) >= MinRouteValues
  /\ DOMAIN w.route[r].cases \subseteq w.route[r].values
  /\ r \notin RouteCaseTasks(w, r)
  /\ \A c \in RouteCaseTasks(w, r) : \E v \in w.route[r].values : c \in Activated(w, r, v)

\* V2: a case task is ordered after its routing task.  The mutant only asks
\* for a task that exists.
CasesFollowAnyTask(w) ==
  \A r \in Routing(w) : \A c \in RouteCaseTasks(w, r) : c \in w.tasks

CasesFollowTheirRoute(w) ==
  \A r \in Routing(w) : \A c \in RouteCaseTasks(w, r) : c \in w.tasks /\ r \in Closure(w, c)

\* V3: only case tasks of the same route depend on a case task.
CasesAreNotLeft(w) ==
  \A t \in w.tasks : \A d \in w.depends_on[t] \ {t} :
    RoutedBy(w, d) # {} => RoutedBy(w, d) \cap RoutedBy(w, t) # {}

\* V4: one route per case task.  The mutant drops the rule.
CasesHaveOneRouteAtLeast(w) == \A t \in TaskIds : RoutedBy(w, t) \subseteq Routing(w)

CasesHaveOneRoute(w) == \A t \in TaskIds : Cardinality(RoutedBy(w, t)) <= 1

\* V7: a reference to a case task comes from a case task of the same route,
\* and every resolution that activates the consumer activates the producer.
CoActivated(w, consumer, producer) ==
  \A r \in RoutedBy(w, producer) :
    /\ r \in RoutedBy(w, consumer)
    /\ \A v \in w.route[r].values :
         consumer \in Activated(w, r, v) => producer \in Activated(w, r, v)

-----------------------------------------------------------------------------
(* References and foreach items *)

\* validateTasksRef: an explicit dependency path leads to the producer.  The
\* mutant takes the reference for a dependency.
ReferenceIsEnough(w, t, p) == p \in w.tasks /\ CoActivated(w, t, p)

ReferenceIsOrdered(w, t, p) == p \in w.tasks /\ p \in Closure(w, t) /\ CoActivated(w, t, p)

ItemsAreTyped(w, t) == w.kind[t] # "local" /\ w.kind[w.items[t]] # "acp"

References(w, t) == w.refs[t] \cup (IF t \in DOMAIN w.items THEN {w.items[t]} ELSE {})

\* The budget precondition of validateForeachTopology
ForeachFits(w) ==
  DOMAIN w.items # {} =>
    Cardinality(w.tasks) + MaxItems * Cardinality(DOMAIN w.items) <= AgentLimit

-----------------------------------------------------------------------------
(* validateWorkflowSpec: the error list is empty.                          *)

DependenciesExist(w) == \A t \in w.tasks : w.depends_on[t] \subseteq w.tasks

NoCycles(w) ==
  /\ ~DetectCycle(PhaseList, PhaseIds, w.phase_depends_on)
  /\ ~DetectCycle(TaskList, w.tasks, w.depends_on)

RouteTopologyHolds(w) ==
  CasesFollowTheirRoute(w) /\ CasesAreNotLeft(w) /\ CasesHaveOneRoute(w)

Accepts(w) ==
  /\ DependenciesExist(w)
  /\ NoCycles(w)
  /\ \A r \in Routing(w) : RouteIsWellFormed(w, r)
  /\ RouteTopologyHolds(w)
  /\ \A t \in w.tasks : \A p \in References(w, t) : ReferenceIsOrdered(w, t, p)
  /\ \A t \in DOMAIN w.items : ItemsAreTyped(w, t)
  /\ ForeachFits(w)
=============================================================================
