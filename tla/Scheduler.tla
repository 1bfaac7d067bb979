------------------------------ MODULE Scheduler ------------------------------
(***************************************************************************)
(* The orchestrator of one run: executeApprovedRun (scheduler.js) with the *)
(* commands that start, resume and cancel it (commands.js).                *)
(*                                                                         *)
(* The loop is single threaded.  A worker's outcome reaches the run state  *)
(* only while the loop awaits (pc "wait", "sleep" or "aborting"); the      *)
(* steps of one pass of the loop are separate actions so that the process  *)
(* may die between any two of them.  run.json is written by every one of   *)
(* these steps, so the persisted variables are what a resume reads back;   *)
(* the volatile ones are lost with the process.                            *)
(***************************************************************************)
EXTENDS WorkflowSpec

CONSTANTS
  WorkerOutcomes,   \* statuses a finished worker may fold its task to
  NoValue,          \* route_value of a routing task with no accepted result
  FragileTasks,     \* tasks whose template or items may fail to resolve
  ThrowingTasks,    \* tasks whose executor may throw before its first await
  TaskLimits,       \* --max-tasks values a start may use; 0 is no limit
  MayCrash, MaySignal, MayExceedBudget, MayCancel,  \* which disturbances occur
  MayResumeFailed,  \* whether resume may be given --resume-failed
  MaxResumes        \* bound on resume commands

RouteValues == (UNION {Route[r].values : r \in Routers}) \cup {NoValue}

ASSUME OutcomesType ==
  /\ WorkerOutcomes \subseteq {"succeeded"} \cup Retryable
  /\ TaskLimits \subseteq Nat
  /\ FragileTasks \subseteq {t \in AllTasks : ~IsLocal(t)}
  /\ ThrowingTasks \subseteq {t \in AllTasks : ~IsLocal(t)}

ASSUME BoundsType ==
  /\ MaxResumes \in Nat
  /\ {MayCrash, MaySignal, MayExceedBudget, MayCancel, MayResumeFailed} \subseteq BOOLEAN
  /\ \A r \in Routers : NoValue \notin Route[r].values

VARIABLES
  (* run.json, events.ndjson and control/cancel.json *)
  runStatus, outcome,
  task,             \* state.tasks[t].status
  phase,            \* state.phases[p].status
  attempts,         \* keys of state.attempts, as <<task, number>>
  open,             \* attempts whose status is created or running
  routeValue, routeResolved,
  itemCount,        \* items in the parent's tasks_expanded event; 0: no event
  cancelFile,
  (* memory of the orchestrator *)
  pc,
  inFlight,         \* keys of the inFlight map
  settledQueue,
  unflushed,        \* in-flight tasks whose promise has resolved, not yet delivered
  retryAt,          \* keys of the retryAt map
  cooling,          \* those whose backoff has not elapsed
  templateFailures,
  ready,            \* the pass's ready list (at startup: parents left to fold)
  launchedThisRun, expandedThisPass, maxTasks,
  abortAs, abortedIds,
  (* outside *)
  zombies,          \* workers that outlived the abort grace period
  resumes

runVars      == <<runStatus, outcome>>
board        == <<task, phase>>
attemptVars  == <<attempts, open>>
routeVars    == <<routeValue, routeResolved>>
retryVars    == <<retryAt, cooling, templateFailures>>
passVars     == <<ready, launchedThisRun, expandedThisPass, maxTasks>>
abortVars    == <<abortAs, abortedIds>>
flightVars   == <<inFlight, settledQueue, unflushed>>
outsideVars  == <<cancelFile, zombies, resumes>>
persisted    == <<runStatus, outcome, task, phase, attempts, open, routeValue,
                  routeResolved, itemCount, cancelFile>>

vars == <<runStatus, outcome, task, phase, attempts, open, routeValue, routeResolved,
          itemCount, cancelFile, pc, inFlight, settledQueue, unflushed, retryAt, cooling,
          templateFailures, ready, launchedThisRun, expandedThisPass, maxTasks, abortAs,
          abortedIds, zombies, resumes>>

-----------------------------------------------------------------------------
(* Task and phase statuses after the folds.  A board is the pair of maps   *)
(* that propagateSkips and the fold functions update in place.             *)

Boards == [task: [AllTasks -> TaskStatus], phase: [Phases -> PhaseStatus]]
Board == [task |-> task, phase |-> phase]

\* Mutant of SkipTask: a dependency that was routed away counts as a failure.
SkipTaskOnRoute(b, t) ==
  LET blocked == \E d \in DependsOn(t) : b.task[d] \in TerminalTask \ {"succeeded"}
  IN  IF b.task[t] = "queued" /\ blocked THEN [b EXCEPT !.task[t] = "skipped"] ELSE b

SkipTask(b, t) ==
  LET blocked == \E d \in DependsOn(t) : b.task[d] \in PermanentFailure
      unreachable == b.phase[PhaseOf(t)] \in {"skipped", "failed"}
  IN  IF b.task[t] = "queued" /\ (blocked \/ unreachable)
        THEN [b EXCEPT !.task[t] = "skipped"]
        ELSE b

\* Mutant of PhaseVerdict: one success is taken for the success of the phase.
PhaseVerdictTooEarly(b, p) ==
  LET statuses == {b.task[t] : t \in PhaseTasks(p)}
  IN  IF "succeeded" \in statuses THEN "succeeded"
      ELSE IF statuses \subseteq TerminalTask THEN "failed" ELSE b.phase[p]

PhaseVerdict(b, p) ==
  LET statuses == {b.task[t] : t \in PhaseTasks(p)}
      dead == \E q \in PhaseDef[p].depends_on : b.phase[q] \in {"failed", "skipped"}
      done == statuses # {} /\ statuses \subseteq TerminalTask
  IN  CASE dead -> "skipped"
        [] ~dead /\ ~done -> b.phase[p]
        [] ~dead /\ done /\ statuses \subseteq NonFailureTerminal -> "succeeded"
        [] ~dead /\ done /\ statuses = {"skipped"} -> "skipped"
        [] OTHER -> "failed"

SkipPhase(b, p) ==
  IF b.phase[p] \in FinalPhase THEN b ELSE [b EXCEPT !.phase[p] = PhaseVerdict(b, p)]

\* One turn of the while loop: the tasks in order, then the phases in order.
SkipPass(b) == FoldLeft(SkipPhase, FoldLeft(SkipTask, b, TaskOrder), PhaseOrder)

SkipFixpoint[b \in Boards] ==
  LET next == SkipPass(b) IN IF next = b THEN b ELSE SkipFixpoint[next]

PropagateSkips(b) == SkipFixpoint[b]

\* Case tasks the resolution of the routes in R leaves out
Deselected(R) == UNION {CaseTasks(r) \ Selected(r, routeValue[r]) : r \in R}

\* resolveRoute: only tasks that are still queued are routed away.
RouteAway(b, R) ==
  [b EXCEPT !.task = [t \in AllTasks |->
     IF t \in Deselected(R) /\ b.task[t] = "queued" THEN "skipped_by_route" ELSE b.task[t]]]

Unresolved(t) == t \in Routers /\ task[t] = "succeeded" /\ ~routeResolved[t]

\* The tail of foldTaskCompletion for a spec task with no retry left
FoldFailure(b, t) ==
  IF PhaseDef[PhaseOf(t)].on_failure = "fail"
    THEN [b EXCEPT !.phase[PhaseOf(t)] = "failed"]
    ELSE PropagateSkips(b)

FailsRun(t) == PhaseDef[PhaseOf(t)].on_failure = "fail"

(* foldExpandedParent *)
ExpandedChildren(b, p) == {c \in ChildrenOf(p) : b.task[c] # "absent"}
FailedChildren(b, p) == {c \in ExpandedChildren(b, p) : b.task[c] \in PermanentFailure}

\* Mutant of ParentFoldable: the first child to end folds the parent.
ParentFoldableTooEarly(b, p) ==
  /\ b.task[p] = "expanded"
  /\ \E c \in ExpandedChildren(b, p) : b.task[c] \in TerminalTask

ParentFoldable(b, p) ==
  /\ b.task[p] = "expanded"
  /\ ExpandedChildren(b, p) # {}
  /\ \A c \in ExpandedChildren(b, p) : b.task[c] \in TerminalTask

ParentFails(b, p) ==
  /\ ParentFoldable(b, p)
  /\ Cardinality(FailedChildren(b, p)) > Foreach[p].tolerated_failure_count

FoldParent(b, p) ==
  IF ~ParentFoldable(b, p) THEN b
  ELSE IF ParentFails(b, p) THEN FoldFailure([b EXCEPT !.task[p] = "failed"], p)
  ELSE PropagateSkips([b EXCEPT !.task[p] = "succeeded"])

-----------------------------------------------------------------------------
(* Readiness *)

PhaseEntered(p) == \A q \in PhaseDef[p].depends_on : phase[q] = "succeeded"

\* Mutants of TaskIsReady: a failed dependency is good enough; a routed-away
\* one is not; a scheduled retry is never due.
TaskIsReadyAfterAnyEnd(t) ==
  /\ task[t] = "queued" /\ t \notin inFlight /\ t \notin cooling
  /\ phase[PhaseOf(t)] \notin {"failed", "skipped"} /\ PhaseEntered(PhaseOf(t))
  /\ \A d \in DependsOn(t) : task[d] \in TerminalTask

TaskIsReadyAfterSuccess(t) ==
  /\ task[t] = "queued" /\ t \notin inFlight /\ t \notin cooling
  /\ phase[PhaseOf(t)] \notin {"failed", "skipped"} /\ PhaseEntered(PhaseOf(t))
  /\ \A d \in DependsOn(t) : task[d] = "succeeded"

TaskIsReadyUnlessRetried(t) ==
  /\ task[t] = "queued" /\ t \notin inFlight /\ t \notin retryAt
  /\ phase[PhaseOf(t)] \notin {"failed", "skipped"} /\ PhaseEntered(PhaseOf(t))
  /\ \A d \in DependsOn(t) : task[d] \in NonFailureTerminal

TaskIsReady(t) ==
  /\ task[t] = "queued"
  /\ t \notin inFlight
  /\ phase[PhaseOf(t)] \notin {"failed", "skipped"}
  /\ PhaseEntered(PhaseOf(t))
  /\ \A d \in DependsOn(t) : task[d] \in NonFailureTerminal
  /\ t \notin cooling

ChildLimit(p) ==
  IF Foreach[p].concurrency < MaxConcurrency THEN Foreach[p].concurrency ELSE MaxConcurrency

\* Mutant of ForeachChildBlocked: off by one.
ForeachChildBlockedLate(t) ==
  /\ t \in Children
  /\ LET p == ChildDef[t].parent_task_id
     IN  Cardinality(ChildrenOf(p) \cap inFlight) > ChildLimit(p)

ForeachChildBlocked(t) ==
  /\ t \in Children
  /\ LET p == ChildDef[t].parent_task_id
     IN  Cardinality(ChildrenOf(p) \cap inFlight) >= ChildLimit(p)

Launchable == {t \in ready : ~ForeachChildBlocked(t)}

\* The condition of the launch loop
MayLaunch ==
  /\ pc = "launch"
  /\ Cardinality(inFlight) < MaxConcurrency
  /\ maxTasks = 0 \/ launchedThisRun < maxTasks
  /\ Launchable # {}

RetryPending == \E t \in retryAt : task[t] = "queued"

AttemptsOf(t) == {a \in attempts : a[1] = t}
NextAttempt(t) == <<t, Cardinality(AttemptsOf(t)) + 1>>

-----------------------------------------------------------------------------
Init ==
  /\ runStatus = "approved" /\ outcome = "none"
  /\ task = [t \in AllTasks |-> IF t \in Children THEN "absent" ELSE "queued"]
  /\ phase = [p \in Phases |-> IF PhaseDef[p].depends_on = {} THEN "ready" ELSE "waiting"]
  /\ attempts = {} /\ open = {}
  /\ routeValue = [r \in Routers |-> NoValue]
  /\ routeResolved = [r \in Routers |-> FALSE]
  /\ itemCount = [p \in ForeachParents |-> 0]
  /\ cancelFile = FALSE
  /\ pc = "off"
  /\ inFlight = {} /\ settledQueue = <<>> /\ unflushed = <<>>
  /\ retryAt = {} /\ cooling = {} /\ templateFailures = {}
  /\ ready = {} /\ launchedThisRun = 0 /\ expandedThisPass = FALSE /\ maxTasks = 0
  /\ abortAs = "none" /\ abortedIds = {}
  /\ zombies = {} /\ resumes = 0

\* What the process holds in memory is gone
ForgetMemory ==
  /\ inFlight' = {} /\ settledQueue' = <<>> /\ unflushed' = <<>>
  /\ retryAt' = {} /\ cooling' = {} /\ templateFailures' = {}
  /\ ready' = {} /\ launchedThisRun' = 0 /\ expandedThisPass' = FALSE
  /\ abortAs' = "none" /\ abortedIds' = {}

BeginAbort(status) ==
  /\ pc' = "aborting"
  /\ abortAs' = status
  /\ abortedIds' = inFlight

Install(b) == task' = b.task /\ phase' = b.phase

-----------------------------------------------------------------------------
(* Commands *)

\* run: takes the lock and enters the scheduler
StartRun(limit) ==
  /\ pc = "off" /\ runStatus \in {"approved", "paused"}
  /\ runStatus' = "running"
  /\ maxTasks' = limit
  /\ pc' = "routes"
  /\ UNCHANGED <<outcome, board, attemptVars, routeVars, itemCount, flightVars, retryVars,
                 ready, launchedThisRun, expandedThisPass, abortVars, outsideVars>>

\* resume, up to the point where it continues as run
ResumeRun(resumeFailed) ==
  LET resumable == /\ resumeFailed
                   /\ \/ runStatus = "failed"
                      \/ runStatus = "completed" /\ outcome = "partial"
      replayed(c) == task[c] = "absent" /\ ChildDef[c].item_index < itemCount[ChildDef[c].parent_task_id]
  IN  /\ pc = "off" /\ resumes < MaxResumes
      /\ runStatus \notin TerminalRun \/ resumable
      /\ task' = [t \in AllTasks |->
           IF \/ task[t] = "running"
              \/ resumable /\ task[t] \in Resumable
              \/ t \in Children /\ replayed(t)
             THEN "queued" ELSE task[t]]
      /\ phase' = [p \in Phases |->
           CASE phase[p] = "running" -> "ready"
             [] resumable /\ phase[p] \in {"failed", "skipped"} -> "waiting"
             [] OTHER -> phase[p]]
      /\ open' = {}
      /\ IF runStatus \in {"paused", "running"} \/ resumable
           THEN runStatus' = "approved" /\ outcome' = "none"
           ELSE UNCHANGED runVars
      /\ resumes' = resumes + 1
      /\ UNCHANGED <<attempts, routeVars, itemCount, cancelFile, pc, flightVars, retryVars,
                     passVars, abortVars, zombies>>

\* cancel of a live run: the request goes through control/cancel.json
RequestCancel ==
  /\ MayCancel /\ pc # "off" /\ ~cancelFile
  /\ cancelFile' = TRUE
  /\ UNCHANGED <<runVars, board, attemptVars, routeVars, itemCount, pc, flightVars, retryVars,
                 passVars, abortVars, zombies, resumes>>

\* cancel of a run no orchestrator holds
CancelIdleRun ==
  /\ MayCancel /\ pc = "off" /\ runStatus \notin {"completed", "cancelled"}
  /\ runStatus' = "cancelled" /\ outcome' = "cancelled"
  /\ UNCHANGED <<board, attemptVars, routeVars, itemCount, pc, flightVars, retryVars,
                 passVars, abortVars, outsideVars>>

\* The process dies; the lock it leaves names a dead pid.
Crash ==
  /\ MayCrash /\ pc # "off"
  /\ pc' = "off" /\ maxTasks' = 0 /\ zombies' = {}
  /\ ForgetMemory
  /\ UNCHANGED <<runVars, board, attemptVars, routeVars, itemCount, cancelFile, resumes>>

-----------------------------------------------------------------------------
(* Startup: re-apply what a crash may have left unfolded *)

\* Mutant of ReapplyRoutes: the resolution is recorded, not applied.
MarkRoutesResolved ==
  /\ pc = "routes" /\ pc' = "parents" /\ ready' = ForeachParents
  /\ routeResolved' = [r \in Routers |-> routeResolved[r] \/ Unresolved(r)]
  /\ UNCHANGED <<runVars, board, attemptVars, routeValue, itemCount, flightVars, retryVars,
                 launchedThisRun, expandedThisPass, maxTasks, abortVars, outsideVars>>

ReapplyRoutes ==
  LET pending == {r \in Routers : Unresolved(r)}
  IN  /\ pc = "routes"
      /\ IF pending = {} THEN UNCHANGED board
                         ELSE Install(PropagateSkips(RouteAway(Board, pending)))
      /\ routeResolved' = [r \in Routers |-> routeResolved[r] \/ r \in pending]
      /\ ready' = ForeachParents
      /\ pc' = "parents"
      /\ UNCHANGED <<runVars, attemptVars, routeValue, itemCount, flightVars, retryVars,
                     launchedThisRun, expandedThisPass, maxTasks, abortVars, outsideVars>>

RefoldParent(p) ==
  /\ pc = "parents" /\ IsFirst(p, ready)
  /\ Install(FoldParent(Board, p))
  /\ IF ParentFails(Board, p) /\ FailsRun(p)
       THEN BeginAbort("failed") /\ ready' = {}
       ELSE UNCHANGED <<pc, abortVars>> /\ ready' = ready \ {p}
  /\ UNCHANGED <<runVars, attemptVars, routeVars, itemCount, flightVars, retryVars,
                 launchedThisRun, expandedThisPass, maxTasks, outsideVars>>

EnterLoop ==
  /\ pc = "parents" /\ ready = {}
  /\ pc' = "top"
  /\ UNCHANGED <<runVars, board, attemptVars, routeVars, itemCount, flightVars, retryVars,
                 passVars, abortVars, outsideVars>>

-----------------------------------------------------------------------------
(* Top of a pass *)

NoticeCancel ==
  /\ pc = "top" /\ (cancelFile \/ MaySignal)
  /\ BeginAbort("cancelled")
  /\ UNCHANGED <<runVars, board, attemptVars, routeVars, itemCount, flightVars, retryVars,
                 passVars, outsideVars>>

\* max_duration_ms or max_tokens
ExceedBudget ==
  /\ pc = "top" /\ ~cancelFile /\ MayExceedBudget
  /\ BeginAbort("failed")
  /\ UNCHANGED <<runVars, board, attemptVars, routeVars, itemCount, flightVars, retryVars,
                 passVars, outsideVars>>

BeginDrain ==
  /\ pc = "top" /\ ~cancelFile
  /\ pc' = "drain"
  /\ UNCHANGED <<runVars, board, attemptVars, routeVars, itemCount, flightVars, retryVars,
                 passVars, abortVars, outsideVars>>

-----------------------------------------------------------------------------
(* Drain: foldTaskCompletion of the task at the head of settledQueue *)

Draining(t) == pc = "drain" /\ settledQueue # <<>> /\ t = Head(settledQueue)

\* Common end of the folds: the new board, and the abort of a fatal failure
FoldTo(b, fatal) ==
  /\ Install(b)
  /\ settledQueue' = Tail(settledQueue)
  /\ IF fatal THEN BeginAbort("failed") ELSE UNCHANGED <<pc, abortVars>>

\* A child's fold ends with the fold of its parent.
FoldUp(t, b) ==
  IF t \in Children
    THEN LET p == ChildDef[t].parent_task_id
         IN  FoldTo(FoldParent(b, p), ParentFails(b, p) /\ FailsRun(p))
    ELSE FoldTo(b, FALSE)

FoldSucceeded(t) ==
  /\ Draining(t) /\ task[t] = "succeeded"
  /\ LET pending == IF Unresolved(t) THEN {t} ELSE {}
     IN  /\ FoldUp(t, PropagateSkips(RouteAway(Board, pending)))
         /\ routeResolved' = [r \in Routers |-> routeResolved[r] \/ r \in pending]
  /\ UNCHANGED <<runVars, attemptVars, routeValue, itemCount, inFlight, unflushed, retryVars,
                 passVars, outsideVars>>

\* Mutant of RetryAllowed: off by one.
RetryAllowedOnceMore(t) ==
  /\ task[t] \in Retryable /\ t \notin templateFailures \cup ForeachParents
  /\ DefOf(t).retryable /\ Cardinality(AttemptsOf(t)) <= DefOf(t).max_attempts

RetryAllowed(t) ==
  /\ task[t] \in Retryable
  /\ t \notin templateFailures
  /\ t \notin ForeachParents
  /\ DefOf(t).retryable /\ Cardinality(AttemptsOf(t)) < DefOf(t).max_attempts

\* instant: a backoff_ms that has elapsed before the ready list is computed
ScheduleRetry(t, instant) ==
  /\ Draining(t) /\ task[t] # "succeeded" /\ RetryAllowed(t)
  /\ FoldTo([Board EXCEPT !.task[t] = "queued"], FALSE)
  /\ retryAt' = retryAt \cup {t}
  /\ cooling' = IF instant THEN cooling ELSE cooling \cup {t}
  /\ UNCHANGED <<runVars, attemptVars, routeVars, itemCount, inFlight, unflushed,
                 templateFailures, passVars, outsideVars>>

FoldFailed(t) ==
  /\ Draining(t) /\ task[t] # "succeeded" /\ ~RetryAllowed(t)
  /\ IF t \in Children
       THEN FoldUp(t, PropagateSkips(Board))
       ELSE FoldTo(FoldFailure(Board, t), FailsRun(t))
  /\ UNCHANGED <<runVars, attemptVars, routeVars, itemCount, inFlight, unflushed, retryVars,
                 passVars, outsideVars>>

\* settledQueue is empty: the ready list of this pass, unless the run pauses
ReadyTasks == {t \in AllTasks : TaskIsReady(t)}

LimitReached ==
  /\ maxTasks # 0 /\ launchedThisRun >= maxTasks
  /\ \E t \in AllTasks : task[t] = "queued"

BeginLaunch ==
  /\ pc = "drain" /\ settledQueue = <<>> /\ ~LimitReached
  /\ ready' = ReadyTasks
  /\ expandedThisPass' = FALSE
  /\ pc' = "launch"
  /\ UNCHANGED <<runVars, board, attemptVars, routeVars, itemCount, flightVars, retryVars,
                 launchedThisRun, maxTasks, abortVars, outsideVars>>

DrainForPause ==
  /\ pc = "drain" /\ settledQueue = <<>> /\ LimitReached /\ inFlight # {}
  /\ pc' = "wait"
  /\ UNCHANGED <<runVars, board, attemptVars, routeVars, itemCount, flightVars, retryVars,
                 passVars, abortVars, outsideVars>>

PauseRun ==
  /\ pc = "drain" /\ settledQueue = <<>> /\ LimitReached /\ inFlight = {}
  /\ runStatus' = "paused" /\ outcome' = "needs_user_input"
  /\ pc' = "off" /\ maxTasks' = 0
  /\ ForgetMemory
  /\ UNCHANGED <<board, attemptVars, routeVars, itemCount, outsideVars>>

-----------------------------------------------------------------------------
(* Launch loop: the first launchable task of the ready list *)

Offered(t) == MayLaunch /\ IsFirst(t, Launchable)

\* max_agents caps the attempts of the run, over all its lives.
AgentsLeft == Cardinality(attempts) < MaxAgents

Underway(p) == [phase EXCEPT ![p] = IF @ \in {"waiting", "ready"} THEN "running" ELSE @]

\* The children of an earlier expansion are still there.
Reexpand(t) ==
  /\ Offered(t) /\ t \in ForeachParents /\ ExpandedChildren(Board, t) # {}
  /\ task' = [task EXCEPT ![t] = "expanded"]
  /\ phase' = Underway(PhaseOf(t))
  /\ ready' = ready \ {t} /\ expandedThisPass' = TRUE
  /\ UNCHANGED <<runVars, attemptVars, routeVars, itemCount, pc, flightVars, retryVars,
                 launchedThisRun, maxTasks, abortVars, outsideVars>>

\* Items that do not resolve, are no array, too many or too large; or none
ExpandNothing(t, status) ==
  /\ Offered(t) /\ t \in ForeachParents /\ ExpandedChildren(Board, t) = {}
  /\ status = "failed" => t \in FragileTasks
  /\ task' = [task EXCEPT ![t] = status]
  /\ phase' = Underway(PhaseOf(t))
  /\ settledQueue' = Append(settledQueue, t)
  /\ ready' = ready \ {t} /\ expandedThisPass' = TRUE
  /\ UNCHANGED <<runVars, attemptVars, routeVars, itemCount, pc, inFlight, unflushed, retryVars,
                 launchedThisRun, maxTasks, abortVars, outsideVars>>

\* The tasks_expanded event is in the log; run.json is not written yet.
LogExpansion(t, n) ==
  /\ Offered(t) /\ t \in ForeachParents /\ ExpandedChildren(Board, t) = {}
  /\ phase' = Underway(PhaseOf(t))
  /\ itemCount' = [itemCount EXCEPT ![t] = n]
  /\ pc' = "expanding"
  /\ UNCHANGED <<runVars, task, attemptVars, routeVars, flightVars, retryVars, passVars,
                 abortVars, outsideVars>>

SaveExpansion(t) ==
  /\ pc = "expanding" /\ IsFirst(t, Launchable)
  /\ task' = [u \in AllTasks |->
       IF u \in ChildrenOf(t) /\ ChildDef[u].item_index < itemCount[t] THEN "queued"
       ELSE IF u = t THEN "expanded" ELSE task[u]]
  /\ ready' = ready \ {t} /\ expandedThisPass' = TRUE
  /\ pc' = "launch"
  /\ UNCHANGED <<runVars, phase, attemptVars, routeVars, itemCount, flightVars, retryVars,
                 launchedThisRun, maxTasks, abortVars, outsideVars>>

ExhaustAgents(t) ==
  /\ Offered(t) /\ t \notin ForeachParents /\ ~AgentsLeft
  /\ BeginAbort("failed")
  /\ UNCHANGED <<runVars, board, attemptVars, routeVars, itemCount, flightVars, retryVars,
                 passVars, outsideVars>>

FailTemplate(t) ==
  /\ Offered(t) /\ t \in FragileTasks \ ForeachParents /\ AgentsLeft
  /\ task' = [task EXCEPT ![t] = "failed"]
  /\ retryAt' = retryAt \ {t} /\ templateFailures' = templateFailures \cup {t}
  /\ settledQueue' = Append(settledQueue, t)
  /\ ready' = ready \ {t}
  /\ UNCHANGED <<runVars, phase, attemptVars, routeVars, itemCount, pc, inFlight, unflushed,
                 cooling, launchedThisRun, expandedThisPass, maxTasks, abortVars, outsideVars>>

\* What every launch does, to the status and attempt table it reaches
Launch(t, status) ==
  /\ Offered(t) /\ t \notin ForeachParents /\ AgentsLeft
  /\ task' = [task EXCEPT ![t] = status]
  /\ phase' = Underway(PhaseOf(t))
  /\ attempts' = attempts \cup {NextAttempt(t)}
  /\ inFlight' = inFlight \cup {t}
  /\ retryAt' = retryAt \ {t}
  /\ ready' = ready \ {t} /\ launchedThisRun' = launchedThisRun + 1
  /\ UNCHANGED <<runVars, routeVars, itemCount, pc, settledQueue, cooling, templateFailures,
                 expandedThisPass, maxTasks, abortVars, outsideVars>>

\* Mutant of LaunchWorker: attempts numbered by a counter the process keeps.
LaunchWorkerRenumbered(t, throws) ==
  /\ ~IsLocal(t) /\ (throws => t \in ThrowingTasks) /\ Launch(t, "running")
  /\ open' = open \cup {<<t, launchedThisRun + 1>>}
  /\ unflushed' = IF throws THEN Append(unflushed, t) ELSE unflushed

\* A worker process; one whose executor throws settles at the next await.
LaunchWorker(t, throws) ==
  /\ ~IsLocal(t) /\ (throws => t \in ThrowingTasks)
  /\ Launch(t, "running")
  /\ open' = open \cup {NextAttempt(t)}
  /\ unflushed' = IF throws THEN Append(unflushed, t) ELSE unflushed

\* A local attempt runs to its end inside the launch.
LaunchLocal(t, status) ==
  /\ IsLocal(t)
  /\ Launch(t, status)
  /\ open' = open
  /\ unflushed' = Append(unflushed, t)

\* No more launches in this pass: what the loop does next
EndPass(next) ==
  /\ pc = "launch" /\ ~MayLaunch
  /\ pc' = next /\ ready' = {} /\ expandedThisPass' = FALSE
  /\ UNCHANGED <<runVars, board, attemptVars, routeVars, itemCount, flightVars, retryVars,
                 launchedThisRun, maxTasks, abortVars, outsideVars>>

NextPass ==
  /\ \/ expandedThisPass
     \/ inFlight = {} /\ settledQueue # <<>>
     \/ inFlight = {} /\ ~RetryPending /\ ready # {}
  /\ EndPass("top")

AwaitRetry ==
  /\ ~expandedThisPass /\ inFlight = {} /\ settledQueue = <<>> /\ RetryPending
  /\ EndPass("sleep")

AwaitWorkers ==
  /\ ~expandedThisPass /\ inFlight # {}
  /\ EndPass("wait")

\* Nothing in flight, settled, retried or ready: the run is finalized.
OutOfWork ==
  /\ pc = "launch" /\ ~MayLaunch /\ ~expandedThisPass
  /\ inFlight = {} /\ settledQueue = <<>> /\ ~RetryPending /\ ready = {}

\* finalizeCompletion
FinishRun ==
  LET b == PropagateSkips(Board)
      fatal == \E p \in Phases : PhaseDef[p].on_failure = "fail" /\ b.phase[p] = "failed"
      live == \E t \in AllTasks : b.task[t] \in {"queued", "running", "expanded"}
      clean == \A t \in AllTasks : b.task[t] \in NonFailureTerminal \cup {"absent"}
  IN  /\ OutOfWork
      /\ Install(b)
      /\ runStatus' = IF fatal \/ live THEN "failed" ELSE "completed"
      /\ outcome' = CASE fatal \/ live -> "failed"
                      [] ~fatal /\ ~live /\ clean -> "success"
                      [] OTHER -> "partial"
      /\ pc' = "off" /\ maxTasks' = 0
      /\ ForgetMemory
      /\ UNCHANGED <<attemptVars, routeVars, itemCount, outsideVars>>

-----------------------------------------------------------------------------
(* Awaits *)

\* Promises that resolved during the pass are delivered, in launch order.
FlushResolved ==
  /\ pc \in {"wait", "aborting"} /\ unflushed # <<>>
  /\ task' = [t \in AllTasks |->
       IF t \in ToSet(unflushed) /\ task[t] = "running" THEN "failed" ELSE task[t]]
  /\ open' = {a \in open : a[1] \notin ToSet(unflushed)}
  /\ inFlight' = inFlight \ ToSet(unflushed)
  /\ settledQueue' = settledQueue \o unflushed
  /\ unflushed' = <<>>
  /\ pc' = IF pc = "wait" THEN "top" ELSE pc
  /\ UNCHANGED <<runVars, phase, attempts, routeVars, itemCount, retryVars, passVars,
                 abortVars, outsideVars>>

\* route_value is written when the worker's message is accepted, before gates:
\* a router that passes its gates, or fails them, has chosen; one whose message
\* is refused or never comes has not; any other end may be either.
RouteValuesAfter(t, status) ==
  CASE t \notin Routers -> {NoValue}
    [] t \in Routers /\ status \in {"succeeded", "gate_failed"} -> Route[t].values
    [] t \in Routers /\ status \in {"schema_violation", "timed_out"} -> {routeValue[t]}
    [] OTHER -> Route[t].values \cup {routeValue[t]}

\* A worker of this orchestrator ends.  While the run is being aborted it may
\* have been cancelled, or end without folding (a gate phase not started).
WorkerSettles(t, status, value) ==
  /\ pc \in {"wait", "aborting"} /\ unflushed = <<>> /\ t \in inFlight
  /\ \/ status \in WorkerOutcomes
     \/ pc = "aborting" /\ status \in {"cancelled", "running"}
  /\ task' = [task EXCEPT ![t] = status]
  /\ open' = IF status = "running" THEN open ELSE {a \in open : a[1] # t}
  /\ routeValue' = IF t \in Routers THEN [routeValue EXCEPT ![t] = value] ELSE routeValue
  /\ inFlight' = inFlight \ {t}
  /\ settledQueue' = Append(settledQueue, t)
  /\ pc' = IF pc = "wait" THEN "top" ELSE pc
  /\ UNCHANGED <<runVars, phase, attempts, routeResolved, itemCount, unflushed, retryVars,
                 passVars, abortVars, outsideVars>>

\* The poll interval, or the retry delay, has passed.
Wake ==
  /\ pc \in {"wait", "sleep"} /\ unflushed = <<>>
  /\ pc' = "top"
  /\ UNCHANGED <<runVars, board, attemptVars, routeVars, itemCount, flightVars, retryVars,
                 passVars, abortVars, outsideVars>>

BackoffElapses(t) ==
  /\ pc \in {"wait", "sleep"} /\ t \in cooling
  /\ cooling' = cooling \ {t}
  /\ UNCHANGED <<runVars, board, attemptVars, routeVars, itemCount, pc, flightVars, retryAt,
                 templateFailures, passVars, abortVars, outsideVars>>

-----------------------------------------------------------------------------
(* abortInFlight and what follows it *)

\* Mutants of SealRun: every aborted task is overwritten, even one that
\* settled in time; attempts without an end are left open.
SealEveryAborted ==
  /\ pc = "aborting" /\ unflushed = <<>>
  /\ task' = [t \in AllTasks |-> IF t \in abortedIds THEN abortAs ELSE task[t]]
  /\ open' = {} /\ zombies' = zombies \cup inFlight /\ inFlight' = {} /\ pc' = "sealed"
  /\ UNCHANGED <<runVars, phase, attempts, routeVars, itemCount, cancelFile, settledQueue,
                 unflushed, retryVars, passVars, abortVars, resumes>>

SealTasksOnly ==
  /\ pc = "aborting" /\ unflushed = <<>>
  /\ task' = [t \in AllTasks |->
       IF t \in abortedIds /\ task[t] = "running" THEN abortAs ELSE task[t]]
  /\ zombies' = zombies \cup inFlight /\ inFlight' = {} /\ pc' = "sealed"
  /\ UNCHANGED <<runVars, phase, attemptVars, routeVars, itemCount, cancelFile, settledQueue,
                 unflushed, retryVars, passVars, abortVars, resumes>>

\* Every worker has settled, or the grace period is over.
SealRun ==
  /\ pc = "aborting" /\ unflushed = <<>>
  /\ task' = [t \in AllTasks |->
       IF t \in abortedIds /\ task[t] = "running" THEN abortAs ELSE task[t]]
  /\ open' = {}
  /\ zombies' = zombies \cup inFlight
  /\ inFlight' = {}
  /\ pc' = "sealed"
  /\ UNCHANGED <<runVars, phase, attempts, routeVars, itemCount, cancelFile, settledQueue,
                 unflushed, retryVars, passVars, abortVars, resumes>>

CloseRun ==
  /\ pc = "sealed"
  /\ runStatus' = abortAs /\ outcome' = abortAs
  /\ cancelFile' = IF abortAs = "cancelled" THEN FALSE ELSE cancelFile
  /\ pc' = "off" /\ maxTasks' = 0
  /\ ForgetMemory
  /\ UNCHANGED <<board, attemptVars, routeVars, itemCount, zombies, resumes>>

\* Mutant of StatusesAfterZombie: it folds as if the run were its own.
StatusesOverwritten(t, status) == [task EXCEPT ![t] = status]

\* The statuses after a zombie's promise resolved: its context is sealed.
StatusesAfterZombie(t, status) == task

ZombieSettles(t, status) ==
  /\ t \in zombies
  /\ task' = StatusesAfterZombie(t, status)
  /\ zombies' = zombies \ {t}
  /\ UNCHANGED <<runVars, phase, attemptVars, routeVars, itemCount, cancelFile, pc, flightVars,
                 retryVars, passVars, abortVars, resumes>>

-----------------------------------------------------------------------------
Commands ==
  \/ \E limit \in TaskLimits : StartRun(limit)
  \/ ResumeRun(FALSE)
  \/ MayResumeFailed /\ ResumeRun(TRUE)
  \/ RequestCancel
  \/ CancelIdleRun

Startup == ReapplyRoutes \/ (\E p \in ForeachParents : RefoldParent(p)) \/ EnterLoop

Top == NoticeCancel \/ ExceedBudget \/ BeginDrain

Drain ==
  \/ \E t \in AllTasks :
       \/ FoldSucceeded(t)
       \/ \E instant \in BOOLEAN : ScheduleRetry(t, instant)
       \/ FoldFailed(t)
  \/ BeginLaunch
  \/ DrainForPause
  \/ PauseRun

Expand ==
  \E t \in ForeachParents :
    \/ Reexpand(t)
    \/ \E status \in {"failed", "succeeded"} : ExpandNothing(t, status)
    \/ \E n \in 1 .. Foreach[t].max_items : LogExpansion(t, n)
    \/ SaveExpansion(t)

LaunchNext ==
  \E t \in AllTasks :
    \/ ExhaustAgents(t)
    \/ FailTemplate(t)
    \/ \E throws \in BOOLEAN : LaunchWorker(t, throws)
    \/ \E status \in {"succeeded", "failed", "schema_violation"} : LaunchLocal(t, status)

AfterLaunch == NextPass \/ AwaitRetry \/ AwaitWorkers \/ FinishRun

Abort == SealRun \/ CloseRun

\* The loop's own steps: the ones the event loop always gets to take
Loop ==
  \/ Startup \/ Top \/ Drain \/ Expand \/ LaunchNext \/ AfterLaunch
  \/ FlushResolved \/ Wake \/ Abort

Settle(t) ==
  \E status \in WorkerOutcomes \cup {"cancelled", "running"} :
    \E value \in RouteValuesAfter(t, status) : WorkerSettles(t, status, value)

Next ==
  \/ Commands
  \/ Loop
  \/ \E t \in AllTasks : Settle(t) \/ BackoffElapses(t)
  \/ \E t \in AllTasks : \E status \in WorkerOutcomes : ZombieSettles(t, status)
  \/ Crash

Spec == Init /\ [][Next]_vars

(* The event loop keeps turning, and what it waits for happens: every      *)
(* attempt has a timeout that ends its worker, and a backoff is a clock    *)
(* running out.  Both are enabled only while the loop awaits, hence SF.    *)
Fairness ==
  /\ WF_vars(Loop)
  /\ \A t \in AllTasks : SF_vars(Settle(t)) /\ SF_vars(BackoffElapses(t))

FairSpec == Spec /\ Fairness

-----------------------------------------------------------------------------
(* Properties *)

TypeOK ==
  /\ runStatus \in {"approved", "running", "paused"} \cup TerminalRun
  /\ outcome \in {"none", "success", "partial", "failed", "cancelled", "needs_user_input"}
  /\ task \in [AllTasks -> TaskStatus]
  /\ phase \in [Phases -> PhaseStatus]
  /\ attempts \subseteq AllTasks \X Nat /\ open \subseteq attempts
  /\ routeValue \in [Routers -> RouteValues]
  /\ routeResolved \in [Routers -> BOOLEAN]
  /\ itemCount \in [ForeachParents -> Nat]
  /\ cancelFile \in BOOLEAN
  /\ pc \in {"off", "routes", "parents", "top", "drain", "launch", "expanding", "wait",
             "sleep", "aborting", "sealed"}
  /\ inFlight \subseteq AllTasks
  /\ settledQueue \in Seq(AllTasks) /\ unflushed \in Seq(AllTasks)
  /\ retryAt \subseteq AllTasks /\ cooling \subseteq AllTasks /\ templateFailures \subseteq AllTasks
  /\ ready \subseteq AllTasks
  /\ launchedThisRun \in Nat /\ expandedThisPass \in BOOLEAN /\ maxTasks \in TaskLimits \cup {0}
  /\ abortAs \in {"none", "cancelled", "failed"} /\ abortedIds \subseteq AllTasks
  /\ zombies \subseteq AllTasks /\ resumes \in 0 .. MaxResumes

\* The tasks a launch of t relies on: its own dependencies, or those of the
\* foreach parent whose expansion created it.
Prerequisites(t) ==
  IF t \in Children THEN DependsOn(ChildDef[t].parent_task_id) ELSE DependsOn(t)

\* A worker only ever runs with every prerequisite done (succeeded or routed
\* away) and every phase its phase depends on succeeded -- through retries,
\* crashes, resumes that requeue tasks and phases, and re-expansion.
DependenciesSatisfied ==
  \A t \in inFlight :
    /\ \A d \in Prerequisites(t) : task[d] \in NonFailureTerminal
    /\ \A q \in PhaseDef[PhaseOf(t)].depends_on : phase[q] = "succeeded"

\* max_concurrency bounds the workers alive at once, and foreach.concurrency
\* those of one parent.
WithinConcurrency ==
  /\ Cardinality(inFlight) <= MaxConcurrency
  /\ \A p \in ForeachParents : Cardinality(ChildrenOf(p) \cap inFlight) <= Foreach[p].concurrency

\* max_agents bounds the attempts of the whole run, whatever crashes, retries
\* and resumes it goes through.
WithinAgentBudget == Cardinality(attempts) <= MaxAgents

\* Every limit of the run holds at any time (scheduler.js:518, :864).
WithinLimits == WithinConcurrency /\ WithinAgentBudget

\* A retry policy bounds the attempts of a task; each resume may grant one more.
Tries(t) == IF DefOf(t).retryable THEN DefOf(t).max_attempts ELSE 1

RetryPolicyHeld == \A t \in AllTasks : Cardinality(AttemptsOf(t)) <= Tries(t) + resumes

\* A finished or paused run has left nothing running: no worker in flight, no
\* task marked running, no attempt without an end.
NothingLeftRunning ==
  runStatus \in {"completed", "failed", "paused"} =>
    /\ inFlight = {} /\ open = {}
    /\ \A t \in AllTasks : task[t] # "running"

\* A completed run has decided every task and every phase that has tasks, its
\* phases agree with their tasks, and success means that every phase succeeded.
CompletedIsDecided ==
  runStatus = "completed" =>
    /\ \A t \in AllTasks : task[t] \in TerminalTask \cup {"absent"}
    /\ \A p \in Phases : PhaseTasks(p) # {} =>
         /\ phase[p] \in FinalPhase
         /\ phase[p] = "succeeded" => \A t \in PhaseTasks(p) : task[t] \in NonFailureTerminal
         /\ phase[p] = "failed" => \E t \in PhaseTasks(p) : task[t] \in PermanentFailure
    /\ outcome = "success" => \A p \in Phases : PhaseTasks(p) # {} => phase[p] = "succeeded"

\* The scheduler never runs out of work while a task still waits: a validated
\* dependency graph always resolves to a launch, a skip or a fold.
NothingStranded ==
  OutOfWork =>
    \A t \in AllTasks : PropagateSkips(Board).task[t] \notin {"queued", "running", "expanded"}

\* A task is skipped only because something it depends on failed for good
\* (constants.js: "a skip is always derived from a failed blocker"): a
\* dependency, a task of its phase, or a phase its phase depends on.
SkipsHaveCause ==
  runStatus = "completed" =>
    \A t \in AllTasks : task[t] = "skipped" =>
      \/ \E d \in DependsOn(t) : task[d] \in PermanentFailure
      \/ \E u \in PhaseTasks(PhaseOf(t)) : task[u] \in PermanentFailure \ {"skipped"}
      \/ \E q \in PhaseDef[PhaseOf(t)].depends_on : phase[q] \in {"failed", "skipped"}

\* A case task the resolved route left out is never given to a worker.
RouteIsFinal ==
  \A r \in Routers : routeResolved[r] =>
    \A c \in Deselected({r}) : AttemptsOf(c) = {}

\* A foreach parent is folded once: when it has succeeded or failed, every
\* child is done, and it succeeded only within its tolerance.
FoldedParentIsSettled ==
  \A p \in ForeachParents :
    task[p] \in {"succeeded", "failed"} /\ ExpandedChildren(Board, p) # {} =>
      /\ \A c \in ExpandedChildren(Board, p) : task[c] \in TerminalTask
      /\ task[p] = "succeeded" =>
           Cardinality(FailedChildren(Board, p)) <= Foreach[p].tolerated_failure_count

\* What the loop relies on between two of its steps: the tasks it is about to
\* launch still wait, the workers it awaits are the tasks marked running, an
\* abort covers all of them, an expansion meets no earlier children, and what
\* is marked running survives the process only in an unfinished run.
LaunchesWhatWaits ==
  pc \in {"launch", "expanding"} => \A t \in ready : task[t] = "queued" /\ t \notin inFlight

AwaitsWhatRuns ==
  /\ \A t \in inFlight : task[t] = "running" \/ t \in ToSet(unflushed)
  /\ pc \notin {"off", "aborting", "sealed"} =>
       /\ \A t \in AllTasks : task[t] = "running" => t \in inFlight
       /\ \A a \in open : a[1] \in inFlight

AbortsWhatRuns ==
  /\ pc = "aborting" =>
       /\ inFlight \subseteq abortedIds
       /\ \A t \in AllTasks : task[t] = "running" => t \in abortedIds
  /\ pc \in {"aborting", "sealed"} => abortAs # "none"

ExpandsOnce ==
  pc = "expanding" =>
    \A p \in ForeachParents : IsFirst(p, Launchable) => ExpandedChildren(Board, p) = {}

RunningIsUnfinished ==
  /\ pc # "off" => runStatus = "running"
  /\ pc = "off" => inFlight = {}
  /\ pc = "sealed" \/ (pc = "off" /\ runStatus \notin {"running", "cancelled"}) =>
       open = {} /\ \A t \in AllTasks : task[t] # "running"

LoopInvariant ==
  /\ LaunchesWhatWaits /\ AwaitsWhatRuns /\ AbortsWhatRuns
  /\ ExpandsOnce /\ RunningIsUnfinished

\* Accepted work and routing decisions are kept: no step, no crash and no
\* resume takes a task out of succeeded or skipped_by_route.
AcceptedWorkIsKept ==
  [][\A t \in AllTasks : task[t] \in NonFailureTerminal => task'[t] = task[t]]_vars

\* Once the orchestrator has sealed the run, nothing but a resume changes the
\* statuses it recorded -- not a worker that outlived the grace period.
SealedStatusesAreKept ==
  [][(pc \in {"sealed", "off"} /\ resumes' = resumes) => (task' = task /\ phase' = phase)]_vars

\* With one orchestrator at a time, the status of the run changes as RunLifecycle
\* intends: whatever is started, crashes, resumed or cancelled, no step is one of
\* its late ones (commands.js, scheduler.js).
Life == IF runStatus = "completed" /\ outcome = "partial" THEN "partial" ELSE runStatus

Lifecycle == INSTANCE RunLifecycle WITH
  status <- Life, executing <- pc # "off", past <- {}

FollowsLifecycle == [][Lifecycle!Next]_<<Life, pc # "off">>

\* A started run comes to an end: completed, failed, cancelled or paused.
RunEnds == (pc # "off") ~> (pc = "off")

\* A retry that was granted is carried out, unless the run ends first.
RetryIsCarriedOut ==
  \A t \in AllTasks : (t \in retryAt /\ task[t] = "queued") ~> (t \notin retryAt)
=============================================================================
