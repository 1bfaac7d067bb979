# A verified model of the dynamic-workflows orchestrator

TLA+ modules, TLC configurations and TLAPS proofs for the `ccdw` plugin
(`plugins/dynamic-workflows`): a command line and an MCP server that run a YAML
workflow of agent tasks to its end, through failures, retries, crashes, pauses,
cancels and resumes. Paths below are relative to
`plugins/dynamic-workflows/scripts/lib/` unless they start otherwise.

## 1. The system

### Components

| Component | Source | State it keeps | Operations | Modules |
|---|---|---|---|---|
| Scheduler loop, routes, foreach | `scheduler.js` 110-905 | statuses of tasks, phases, attempts; in-flight map, settled queue, retry table, `route_value`, expanded children | `executeApprovedRun`: startup re-application, cancel and budget checks, fold, skip propagation, launch, expand, pause, finalize, abort | `Scheduler` |
| Attempt runners | `scheduler.js` 907-1600 | attempt record, cancel handle | `runCodexAttempt`, `runClaudeAttempt`, `runAcpAttempt`, `runLocalAttempt`, `acceptWorkerMessage`, `runGatePhase` | `Attempt`, `TaskOutcome` |
| Process runner | `process-runner.js` | child, timers | spawn, timeout, cancel, kill ladder, settle | `ChildProcess`, `StoppableWorker` |
| Gate runner | `gates.js` | gate in flight, cancelled flag | sequential gate commands, timeout, kill | `ChildProcess`, `Attempt` |
| Codex and Claude executors | `codex-executor.js`, `claude-executor.js` | the stream read so far | start, read the stream, classify | outcomes in `Attempt` |
| ACP client, executor | `acp-client.js`, `acp-executor.js` | pending requests, session, timers | handshake, prompt, cancel, teardown | `AcpExec` |
| Run commands | `commands.js` | none of their own | `approve`, `run`, `resume`, `cancel`, detached start, `status`, `events` | `RunCommands`, `RunLifecycle`, `Following` |
| Run lock, cancel file | `lock-control.js` | `run.lock`, `control/cancel.json` | acquire, take over, release; request, read, clear | `RunLock`; the cancel file in `Scheduler`, `RunCommands` |
| Run state, event log | `run-state.js` | `run.json`, `events.jsonl` | `recordEvent`, `persistRunState`; `readEvents` | `EventLog`, `Following` |
| Workflow specification | `spec.js`, `util.js` | none | graph, route and reference rules | `SpecRules`, `PlannedRun`; their results as assumptions of `WorkflowSpec` |
| Typed output schemas, templates | `output-schema.js`, `template.js`, `spec.js` | none | normalize and validate a schema, check a value, resolve a reference | `TypedOutput` |
| MCP server | `../dynamic-workflows-mcp.js` | input buffer, calls in progress | framing, dispatch, answers | `McpServer` |
| Status sets | `constants.js` | none | terminal, retryable, resumable statuses | `WorkflowSpec` |
| Approval | `approval.js` | initial `run.json` | plan, hash, approve | initial state in `Scheduler`, `approve` in `RunCommands` |
| Saved workflows, module facade, CLI | `saved-workflows.js`, `core.js`, `../dynamic-workflows.js` | none | file and text processing before a run exists | not modelled |

### How they interact

One orchestrator process per run holds the run lock and turns the scheduler
loop. The loop launches attempts as promises; an attempt writes its task's
status, `route_value` and attempt record when it ends, and queues its task on
`settledQueue`. The loop folds that queue at the top of its next pass. The two
are interleaved at the awaits only: Node runs everything between two awaits in
one piece, but the process may die between any two writes of `run.json`. An
attempt owns at most one child process group at a time, its worker's or a
gate's, and reaches it through a cancel handle that `abortInFlight` may call at
any await. Other processes read `run.json` and the event log at any time, may
request a cancel through `control/cancel.json`, and, once the lock's holder is
gone, resume or cancel the run. MCP clients reach all of this through a server
that reads messages from a byte stream.

### What is hard

* **Two writers of a task's status.** A worker writes its outcome when it ends,
  the loop folds it later: between the two, a skip propagation, an abort or a
  crash sees a status that a retry may still take back.
* **Crash recovery.** `run.json` is written at every step; what the loop knew
  but had not written is lost, and startup has to re-derive it. The event log
  and `run.json` are two writes.
* **Abort with a grace period.** Workers may succeed, fail, be cancelled or
  outlive the grace period after another task failed the run; an attempt may be
  between two processes when the abort calls its handle.
* **Timers against exits.** Timeout, cancel, ladder of signals, teardown and
  the exit of a process race; a signal that comes late hits somebody else.
* **Decisions before the lock.** Commands decide from a state they read before
  they hold the lock.
* **Rules the scheduler takes for granted.** Only the validator enforces them.
* **Byte streams.** Event lines torn by a crash, messages in two framings in
  chunks of any length.
* **Limits.** `max_concurrency`, `foreach.concurrency`, `max_agents`,
  `max_attempts`, `tolerated_failure_count`, `--max-tasks`.

The hazards are listed, each at its line, in `PROJECT.json`, with the
properties that would catch them going wrong.

### What makes each component correct

* Scheduler: a worker runs only when what it depends on is done; limits hold
  over all lives of a run; accepted work and route decisions are kept; a
  finished run has nothing running and a verdict that agrees with its tasks; a
  started run ends, and granted retries happen.
* Attempt, processes, gates: a promise settles once and does to its task no
  more than the scheduler expects; whatever is told to stop is gone in time; no
  signal strays; a sealed run leaves nothing alive.
* ACP: success is the pinned model's answer to the prompt; a timely turn
  stands; the end always comes.
* Commands: the status follows the life of a run; results are kept; nothing is
  inherited from a dead orchestrator.
* Lock: contenders do not all lose; nothing is left locked.
* Event log: a client reads every event once, in order; no parent expands twice.
* Specification: graphs are read right; the rules of routes are enough for a
  run; a reference plan accepts resolves.
* MCP server: each request is answered once, as it was framed.

## 2. Modules

| Module | Contents |
|---|---|
| `WorkflowSpec` | the constants of a workflow, status sets of `constants.js`, and the rules `validateWorkflowSpec` enforces, as named assumptions |
| `Scheduler` | the orchestrator of one run with the commands that start, resume and cancel it |
| `ChildProcess` | the effect of every callback on a process group: spawn, timer, signal, exit, settle (no variables) |
| `StoppableWorker` | abstract: processes that are gone within a grace once told to stop |
| `TaskOutcome` | abstract: what one attempt may do to its task, as `Scheduler` assumes it |
| `Attempt` | one attempt of any kind with its gates against the abort; implements `TaskOutcome` and `StoppableWorker` |
| `AcpExec` | one ACP turn: handshake, timers, cancel, teardown; implements `StoppableWorker` |
| `RunLock` | the lock file, at the granularity of system calls |
| `RunLifecycle` | abstract: the life of a run, and the late commands that depart from it; `Scheduler` and `RunCommands` implement it |
| `RunCommands` | several processes that give commands over one run; implements `RunLifecycle` |
| `EventLog` | appends, torn lines, `run.json` beside it, `readEvents` byte by byte |
| `Following` | a client that follows an `EventLog` by its cursor |
| `McpServer` | byte stream, framings, calls and answers |
| `SpecRules` | cycle detection, memoized closures, route and reference rules as the code computes them |
| `PlannedRun` | a workflow being edited, planned and run under default policies |
| `TypedOutput` | typed results from declaration to reference |
| `MC*` | the instances TLC checks |
| `*Proofs` | the inductive invariants and theorems (section 5) |

A `Mutant of X` comment marks an operator that changes definition `X` the way a
plausible bug would. It is used by no specification; replacing `X` by it must
break the property `PROJECT.json` names, which shows that the property bites.

### How they compose

`Scheduler` takes an attempt for one step, `Settle`, with any outcome its runner
may fold to. `TaskOutcome` writes down that assumption; `Attempt` shows that the
runners implement it (`ImplementsTaskOutcome`), fairness included. `Attempt`
takes an ACP worker as a process with the longer ladder of `AcpLadder`, and
counts on it being gone eight seconds after it is told to stop; `AcpExec` shows
that it is (`GoneInTime`). `Scheduler` assumes the rules of `WorkflowSpec`;
`PlannedRun` shows that every workflow the validator accepts meets them
(`SchedulerRulesHold`, an `INSTANCE` of `WorkflowSpec` on the workflow of the
moment). `RunCommands` takes the lock in one step, as the protocol of `RunLock`
intends, and an execution as one task with one attempt, with the outcomes
`Scheduler` gives them. `Following` extends `EventLog`.

### Scheduler: state and steps

The persisted variables (`runStatus`, `outcome`, `task`, `phase`, `attempts`,
`open`, `routeValue`, `routeResolved`, `itemCount`, `cancelFile`) are `run.json`,
the `tasks_expanded` events and the cancel file. The others are the memory of
the process (`inFlight`, `settledQueue`, `retryAt`, ...) and are lost by `Crash`.
`unflushed` are promises that resolved before the loop's next await (a local
task runs to its end inside its launch; an executor may throw before it
awaits): they reach the settled queue at that await, in launch order.
`cooling` are the retries whose backoff has not elapsed.

`pc` is the place in `executeApprovedRun`:

    off -> routes -> parents -> top -> drain -> launch -> top | wait | sleep | off
                                                launch -> expanding -> launch
    (parents | top | drain | launch) -> aborting -> sealed -> off

Each action is a whole step of the code up to the next write after which a crash
matters: a fold includes the skip propagation, the route resolution and the
parent's fold it triggers (`FoldSucceeded`, `FoldFailed`, `ScheduleRetry`); a
launch includes the phase's start and the attempt's record; an expansion is two
steps because its event and its save are two writes. A crash *inside* a fold,
between two of its writes, is the one crash point left out: `Crash` happens
before a fold or after it. `propagateSkips` is the function `SkipFixpoint`,
iterated over tasks and phases in declaration order exactly as the while loop
does. TLC evaluates it, and the proofs reason about it: that it ends, and where.

Abstractions: payloads, prompts and messages are left out; a `route_value` is
one of the declared values; items of an expansion are counted; a template either
resolves or fails (`FragileTasks`), an executor either starts or throws
(`ThrowingTasks`); `max_duration_ms` and `max_tokens` are one event that may
happen at the top of a pass (`ExceedBudget`).

### Processes and attempts

A process is a record: who of its group is alive (the leader, perhaps a helper
it left behind that keeps the pipes open), which signals each member obeys, the
timers armed for it in whole seconds, whether it was cancelled or timed out, how
its leader exited. The functions of `ChildProcess` are the callbacks
(`Spawned`, `Expired`, `Cancelled`, `Settled`, ...); a field `stray` remembers a signal sent to a
group that is gone. `Attempt` owns two such records, the worker (or the version
probe before it) and the gate. Its `pc` names the awaits: `probe`, `work` and
`gate` wait for a process; `probed`, `fold` and `gated` are the moments after it
settled and before the code behind the await runs, where an abort may still come
in between. `Tick` lets a second pass, only when no callback is due. The abort
begins at any time, as `failed` or `cancelled`, and seals the run after its grace
of eight seconds or as soon as the attempt is done.

`AcpExec` owns one record, with the request timers of the handshake beside the
attempt's. `step` is the request awaited (`initialize`, `session/new`,
`session/set_model`, `session/prompt`, or `over`). The agent answers well or
badly, late, without the final newline, or not at all. Requests the agent sends
are refused in the callback that reads them and leave no state.

### Commands, lock, log

In `RunCommands` a process reads `run.json`, decides, takes the lock, reads
again, writes and releases, each a step of its own (`pc`), and may die at each.
`disk` is `run.json`, `mem[p]` what process p holds of it. In `RunLock`, `file` is
who created the lock file, `written` whether its content is there yet; `Create`,
`Write`, `Read`, `Unlink`, `Release` are the system calls; the run starts with no
lock, or with one left by a process that died, with or without content.

In `EventLog` the log is a sequence of bytes of four sorts, enough for what
`readEvents` tells apart: text, a character of two bytes, a newline. An
orchestrator that dies within an append leaves a torn line of any length in
`Tears`. `McpServer` uses the same device for its stream: a message is an
opening and a closing byte, a header is one, and chunks end anywhere.

### Workflows and results

`PlannedRun` starts from a draft; `Author` changes dependencies, references,
routes or phases of a task; `Plan` applies `Accepts`, the rules of `SpecRules` in
the code's order; an accepted workflow runs under the default policies.
`DetectCycle` is the depth-first search with its colours, a recursion over the
depth of its calls whose loops are `Sweep` (the path is left out: only the message
shows it); `MemoClosures` is the memoized recursion with its seeded entries. Both
are compared with reachability as a least fixpoint. `TypedOutput` declares a schema, normalizes it,
checks a result against it and resolves a reference in what was accepted.

## 3. What TLC checks

| Run | Instance | Shows |
|---|---|---|
| `Pipeline.cfg` | phase P (a, retried once; b after a), then fatal phase Q (c, d); crash, signal, budget, cancel, `--max-tasks 1`, two resumes with `--resume-failed`, `max_agents` 7 | types; launches wait for prerequisites and phases; attempts bounded by policy and resumes; nothing left running; verdicts agree; accepted work and sealed statuses kept |
| `RoutedFanout.cfg` | r routes to f or v; f, alone in a phase whose failure is fatal, waits for d too and expands into f.0 and f.1, one at a time; w joins f and v in every case; q competes and may throw; f and f.0 may fail to render; all disturbances, one resume without `--resume-failed` | unselected tasks never run; nobody is stranded; every skip has a failed cause; a parent folds once, on settled children, within tolerance; `WithinLimits` |
| `Fair.cfg` | Pipeline under fairness, one resume | every started run ends; every granted retry is carried out |
| `RunLock.cfg` | three processes, two tries, one death, a predecessor's lock | someone wins, nothing is left locked |
| `Attempt.cfg` | every kind, up to two gates, timeouts to three seconds, four worlds of processes, abort at any second | no stray signal; nothing survives the run; processes stop in time; `TaskOutcome` is implemented |
| `Acp.cfg` | request timeout one second, attempt timeout to two, four worlds of agents | success is a turn; no stray signal; a timely turn stands; the end comes, in time |
| `Commands.cfg` | two processes, four commands, one death | nothing inherited; success kept; `RunLifecycle` is implemented |
| `Following.cfg` | two parents, five events, two crashes that tear one or three bytes, limits 1 and 4 | every event once, in order, in the end; no second expansion |
| `Mcp.cfg` | three messages from a menu of nine: events, slow runs, lists, garbage, a notification, in both framings, with blank lines | answered as asked, and answered |
| `Planned.cfg` | four tasks, two phases, two route values; five drafts, up to three edits; run with every outcome | graphs are read right; cases wait for routes; only a route hides a producer; stranded only by phases; the scheduler's assumptions hold |
| `Typed.cfg` | schemas of two levels below the root over an ordinary and an inherited name, with arrays, nullables and unions; values of the same depth | the checker accepts what conforms; planned references resolve |
| `Unready.cfg` | the instance of `Planned.cfg` that shows it | the finding of section 4 (violated) |

`CHECK_DEADLOCK FALSE` where a system is over for good: a run completed,
cancelled or out of resumes; an attempt done; contenders that stopped; a client
out of messages.

**Bounds.** In the scheduler's instances each rule has a task that obeys it and
a neighbour that disturbs it: a dependency and a phase dependency, a retry and a
sibling that fails meanwhile, a selected and an unselected case and a join, a
child limit (1) below the workflow limit (2), a tolerance (1) that one failure
meets and two exceed. Two resumes distinguish "a resume repairs" from "a resume
of a resume repairs". `max_agents` is set where the resumed run reaches it.
`RunLock` needs three processes so that one can be between its read and its
unlink while the other two replace the file. Two gates distinguish the last from
one before it; a timeout of up to three seconds falls before, at and after the
rungs of the ladders (2, 4, 6, 8 s), which keep their real distances. Four
commands of two processes are what it takes for one to decide, be overtaken, and
meet the consequence. Three bytes are the shortest tear behind a whole line's
text. Three edits turn each draft into the neighbours a rule refuses. Every bound
is a constant (`MaxResumes`, `MaxGates`, `MaxTimeout`, `MaxCommands`, `MaxCrashes`,
`MaxEvents`, `MaxMessages`, `MaxEdits`, `MaxItems`).

**Fairness.** `Scheduler`: `WF(Loop)`, the event loop keeps turning; `SF(Settle(t))`,
a worker in flight ends, which `Attempt` shows from the timers of its processes;
`SF(BackoffElapses(t))`, a backoff is a clock. The last two are strong because
they are enabled only while the loop awaits, which it leaves and re-enters at
every poll. `MayCrash` is off in that run: a crash is an end of the run's life.
`Attempt` and `AcpExec`: weak fairness of the code behind an await and of the
callbacks that are due (timers fire, pipes close, seconds pass); nothing is
assumed of the child, which may hang for ever until it is killed. `Following`: the
client keeps polling; nothing is assumed of the orchestrator. `McpServer`: the
server keeps serving; clients may stop. `TaskOutcome`: what `Scheduler` assumes.

## 4. Finding and known limits

**Finding** (`Unready.cfg`, `ReferencesAreReady`). `validateTasksRef`
(`spec.js:1172-1178`) accepts a reference to a task in the dependency closure. When
the only path goes through a case task that its route leaves out, that task is
done as soon as it is skipped (`scheduler.js:172-174`), while the producer it was
waiting for may still be queued or running. The consumer is launched, its
template does not resolve, and it fails for good with
`template_resolution_failed`. The comment at `scheduler.js:1671-1672` says that
"readiness guarantees the referenced producers completed before the consumer
launches". `OnlyARouteHidesAProducer` shows that this is the only way.

**Known limits.** Behaviours met while modelling that the properties above step
around, each where a property would otherwise have to be stated. They can be
seen by turning on the constant or dropping the exception that is named.

1. *Stranded phase* (`scheduler.js:753`): after a crash between the save of a phase's last
   success and its fold, startup does not propagate skips; in a run of several
   phases the resume may end in "Unsatisfiable task dependencies".
   `NothingStranded` is checked on phases that do not wait for each other. After a
   crash in the abort of a fatal phase, a resume ends the children that waited there
   without folding their parent, which the failed run then leaves expanded; in
   `RoutedFanout.cfg`, and for `SchedulerStrandsNobody`, a foreach parent shares its
   phase with other tasks only if a failure there is not fatal.
2. *Rerouted task* (`scheduler.js:287`): `resolveRoute` routes away only queued tasks; a case
   task skipped before is requeued by `--resume-failed`. `RouteIsFinal` is checked
   with `MayResumeFailed` off.
3. *Lost retry* (`scheduler.js:252`): of two tasks that settle in one drain, the fold of the first
   may fail the phase while the second, which has a retry left, still reads
   failed; it is requeued into a failed phase. `RetryIsCarriedOut` is checked on a
   workflow in which nothing else of its phase runs beside a task with a retry.
   In the same way two children that fail in one drain fold their parent while
   one is retried.
4. *Cancelled sibling* (`scheduler.js:1096`): in a fail-closed abort, a sibling that dies within
   the grace folds to `cancelled`, which `--resume-failed` does not requeue.
5. *Stale aggregate* (`commands.js:360`): `--resume-failed` reruns tolerated failed children of
   a succeeded parent; its aggregate is not rebuilt. `FoldedParentIsSettled` is
   checked with `MayResumeFailed` off.
6. *Two lock holders* (`lock-control.js:54`): the file exists before its content, and a takeover
   is three steps. `RunLock` reaches states with two holders. With one try instead
   of the code's two, contention could leave no winner at all.
7. *Late commands* (`commands.js:494`): `cancel` may overwrite `completed`; a
   `resume --resume-failed` decided before the lock may reopen a cancelled run;
   the note of a `resume` with nothing to do writes the state it read, without the
   lock. They are the last three actions of `RunLifecycle`, and the exception in
   `SucceededIsKept`. A stale `cancel.json` cancels a later resume. `plan --force`
   checks the lock and then writes without it.
8. *Event log* (`commands.js:606`): a torn line is glued to the next append, and both
   are read as one unparseable event. `next_offset` is computed from the decoded text;
   if the line was torn within a character of two bytes, a replacement character of
   three stands for its half, and the offset lies two bytes beyond the end of the
   line. A client that passes it on misses the start of the next event. With 2 in
   `Tears`, `Following.cfg` reaches this at once (`InStep` is violated); it is the only
   way, as `FollowedInStep` shows.
9. *ACP*: a cancel during the handshake sends no `session/cancel`; a last response
   without a newline is lost when stdout closes last; the last rung of the
   ladder, at eight seconds, coincides with the abort's grace, the exception in
   `DiesWithTheRun`.
10. *MCP*: two blank lines before a header drop the buffer, batches are not
    answered, and the end of stdin exits with slow calls pending.
11. *Validation*: rings of phases and tasks taken together, and dependencies on a phase
    without tasks, are accepted and end as unsatisfiable (`StrandedByPhases`); the
    path in the message of `detectCycle`, which the model leaves out, need not be a
    cycle, though its verdict is right (`DetectCycleIsRight`);
    `in` instead of an own-property test lets a result lack a property named like an
    inherited one, the case `Typed.cfg` has `valueOf` for.

`SkipsHaveCause` is checked where only a parent and its children, alone in a phase
whose failure is fatal, have a second try: with retries in a tolerant phase a sibling's fold may skip the tasks that wait for a task about to
be retried (limit 3), which `CHANGELOG.md:175-178` records.

## 5. What is proved

For every value of the constants that meets the named assumptions:

| Module | Theorem | Says |
|---|---|---|
| `SchedulerProofs` | `SchedulerTypeOK`, `SchedulerLoopInvariant` | types; what one step of the loop leaves for the next |
| | `SchedulerLeavesNothingRunning` | `NothingLeftRunning` |
| | `SchedulerLimits` (from `SchedulerAgentBudget`, `SchedulerConcurrency`) | `WithinLimits` |
| | `SchedulerRetryPolicy` | `RetryPolicyHeld` |
| | `SchedulerKeepsAcceptedWork`, `SchedulerSealsStatuses` | `AcceptedWorkIsKept`, `SealedStatusesAreKept` |
| | `PropagateSkipsEnds` | `propagateSkips` ends for every board, with nothing left to skip |
| | `VerdictHolds` | phases, started tasks, the settled queue and routes agree |
| | `SchedulerDependencies`, `SchedulerDecides` | `DependenciesSatisfied`, `CompletedIsDecided` |
| | `SchedulerFollowsLifecycle` | `FollowsLifecycle`, stated in `Scheduler` and left to the proof: it implements `RunLifecycle` and takes no late step |
| | `SchedulerRouteIsFinal`, without `--resume-failed` | `RouteIsFinal` |
| | `SchedulerFoldsParentsOnce`, without `--resume-failed`, children with one try | `FoldedParentIsSettled` |
| | `SchedulerSkipsHaveCause`, without `--resume-failed`, all tasks with one try | `SkipsHaveCause` |
| | `SchedulerStrandsNobody`, without `--resume-failed`, phases and parents as in `Untangled` | `NothingStranded` |
| `AttemptProofs` | `NoSignalStrays`, `AllDieWithTheRun`, `ProcessesStop` (from `WorkersStop` and a lemma on gates) | `NoStraySignal`, `DiesWithTheRun`, `ProcessesStopInTime` |
| | `InLockstep`, `SuccessEarned`, `NoStartInAbort`, `OutcomeIsFinal` | properties stated in `Attempt` and left to the proof |
| | `RefinesTaskOutcome` | every step is a step of `TaskOutcome`, or none |
| `AcpExecProofs` | `SuccessIsAlwaysATurn`, `NoSignalStrays`, `TurnStands`, `AgentGoesInTime` | the safety properties of `Acp.cfg` |
| `RunLockProofs` | `OneOfThemWins` (for two tries or more), `NothingIsLeftLocked` | `SomeoneWins`, `NothingLeftLocked` |
| `RunCommandsProofs` | `NothingIsInherited`, `SuccessIsKept`, `RefinesLifecycle`, `AlwaysApprovedFirst` | the properties of `Commands.cfg`, and that nothing unapproved is executed |
| `PlannedRunProofs` | `CasesWait`, `HiddenByARoute` (with `RoutedAwayNotReferred`), `NoNestedRoutes` | `CaseWaitsForRoute`, `OnlyARouteHidesAProducer`, and that routes do not nest |
| | `DetectCycleIsRight`, `MemoIsRight` | for every graph, the search finds a cycle just when there is one, and every memoized closure is complete |
| | `GraphsReadRight`, `PlannedRulesHold` | `GraphsAreReadRight`, `SchedulerRulesHold`: what is accepted meets the rules `Scheduler` assumes |
| | `StrandedOnlyByPhases` | `StrandedByPhases` |
| `McpServerProofs` | `StreamReadsRight` | the inductive invariant: buffer and wire together read as what was sent |
| | `AnsweredRight` | `AnsweredAsAsked` |
| `FollowingProofs` | `FollowedInStep`, if no line is torn within a character | `InStep` |
| | `ExpandedAtMostOnce`, however lines are torn | `ExpandedOnce` |

Each module also has `TypeCorrect`, the type invariant of its specification; that
of `Following` shares the hypothesis of `FollowedInStep`, and `LogTypeCorrect` needs none.

**Arguments.** *Scheduler.* `Inductive` is `TypeOK`, the finiteness of `attempts`,
and `LoopInvariant`: ready tasks still wait; a task in flight reads running, or
its promise has already resolved, and during the loop every running task is in
flight; an abort lists every running task; an expansion being saved meets no
earlier children; outside a life of the process only an unfinished run has
running tasks. None of the properties is inductive without it: `AcceptedWorkIsKept`
needs that a settling worker's task still reads running and that a launched task
still reads queued. Folds are handled once: `Settles(b, c)` says that from board
`b` to board `c` only queued or expanded tasks change, and they end; every part of
a fold settles, and settling composes. The retry bound needs `RetryBudget`: a task
that waits (queued, or a child not created yet) has a try left; a launch uses it up,
and a task waits again only by a retry its policy allows or by a counted resume.

*Scheduler, verdicts.* `propagateSkips` is a loop to a fixpoint over tasks and
phases, here a recursive function on boards. A pass that changes something leaves
fewer queued tasks and open phases (`Pending`), so the recursion is well founded,
and a fact that every pass keeps (`SkipClosed`) holds of its result: it only skips
tasks that waited and decides open phases, and no further pass has work to do
(`PropagateSkipsEnds`). On that rests `VerdictInvariant`, of four parts that
need each other. `PhasesAgree`: a phase's verdict has tasks that explain it.
`EnteredOnce`: whatever was ever started has its prerequisites done and its phase
entered. `QueueAgrees`: a task is in flight or in the queue once, with a status
its fold knows. `RoutesAgree`: routes are resolved before their cases are tried.
A fold is several writes, each of which keeps `PhasesAgree` on a board; `Advances`
says what they may do together, and composes. That `finalizeCompletion` leaves
nothing undecided needs one argument more: a queued task that is neither ready nor
skipped waits for another such task, so along the acyclic dependencies of tasks and
phases one finds one that waits for nothing (`DescentEnds`).
`FoldedParentIsSettled` adds `ChildrenCreated` (a partial expansion is a prefix of
the children, and replay creates the rest before the parent is folded);
`SkipsHaveCause` adds `CausesHold`, which gives every skip its failed blocker, every
phase its cause, and every child its parent's.

*Scheduler, nobody stranded.* `NothingStranded` looks at one moment, the end of the
loop, but what is true then was settled long before. `StrandInvariant` has five
parts: the phase of an expanded parent is open, so that no fold skips its children
(`Spares` is what every part of a fold does to them); a backoff belongs to a retry
that is known, and the ready list is complete; an expanded parent has children;
a parent is launched before children an earlier life left queued; and something
that will fold each expanded parent is pending: a child that has not ended, a
child in the queue, or the startup that has yet to look at it (`FoldsPending`). Out
of work, nothing is pending, so no parent is expanded, and no worker runs; a task
that still waits was not ready, so it depends on one that still waits, and
`DescentEnds` leaves none.

The hypotheses of `SchedulerRouteIsFinal`, `SchedulerFoldsParentsOnce`,
`SchedulerSkipsHaveCause` and `SchedulerStrandsNobody` are limits 1, 2, 3, 5 and 11
of section 4: they keep the workflows and commands out for which the properties
are false of the code. `Untangled`, that of the last one, says that no phase
depends on another (limits 1 and 11: a phase whose verdict a crash delayed, or
which waits for its own tasks in a ring, strands what comes after) and that a
foreach parent in a fatal phase is alone in it (limit 1). `RoutedFanout.cfg` meets
all of them but one place: its parent f, and so its children, have two tries and a child limit
of one. That removes the two failures in one drain, which is what limit 3 takes.

*Attempt.* `Inductive` is `Typed` (what a process record can be, whoever owns it),
`Place` (which processes may be alive at which await), `Result` (task, record and
gates passed at each place), `Aborted` (an abort has called the handle of what
runs) and `Reaped` (the clock of the abort against the clocks of the ladders).
That a process stops in time is an argument over its armed timers: told to stop,
it is gone, or a timer that ends in SIGKILL is due within what is left of the
grace (`InTime`); each callback of `ChildProcess` has a lemma of its own, used
for workers and gates alike.

*AcpExec.* `AcpInv` is `TypeOK`, `ProcessFits` (record and place agree),
`TurnFits` (what was learnt follows what was sent), `StopFits`, `TimersFit` and
`ClocksFit` (teardown and ladder against their timers).

*RunLock.* `LockInv`: the file is somebody's who is at work on it, or a dead
one's, and a loser has lost to somebody; from that, the last to lose is
followed by a winner when each has two tries. *RunCommands.* `CommandsInv`: states are sound, who is past the lock holds
it, an unlocked `run.json` is the latest, approval and doom stay, and each
process is where its command puts it. *PlannedRun.* `RoutesInv`: what runs was
accepted, tasks started after their dependencies, a routed-away task is left out
by a resolved route and the reverse; the closure is used as the least fixpoint
it is (`ReachIsLeast`).

*PlannedRun, graphs.* The search is right by two inductions. Downwards, on the depth
of its calls: the fuel of a call covers the white nodes it may still meet, every
gray node leads to the node being visited, a black node is settled (all it leads
to is black, and it lies on no cycle); `VisitsWell` says that a call keeps this and
blackens its node or reports a cycle that is there, `SweepKeeps` that a loop of
such calls does. Along the memo: an entry is the whole closure of its task, or of a
task that waits for one still open, which is what the seeded entries are
(`MayClose`, `Closed`); in an acyclic graph no task waits for itself, so what is
returned is whole. `StrandedOnlyByPhases` starts from a stranded task of a run in
which nothing failed: each waits for another stranded one, so if the graph of tasks
and phases together had no cycle, the descent would end (`DescentCloses`).

*Following.* Newlines and lines are recursive functions over bytes, so the module
begins with induction over the length of a sequence (from the least element of a
nonempty set of numbers; no operator parameter is needed) and shows what they are:
`NewlinesEnumerate`, every newline in order, and `LinesConcat`, that behind whole
lines the lines start anew. `FollowInv` says that offsets are ends of lines and
that neither half of a character is without the other; an answer is then the
lines of the bytes it steps over (`AnswerIsWhole`), and what the orchestrator adds
lies behind them (`Grown`). For `ExpandedOnce` the log is whole lines and a tail
(`TailOf`). `Follows` is what one more piece does to what a resume would read: its
last event becomes the new one or unparseable, because a piece glued to a tail
never parses (`ParsedGlued`), and the rest stays. `OnceInv`: a working
orchestrator knows every expansion a resume would read, a resuming one knows it
or has yet to replay it; so what it expands is not there yet.

*McpServer.* `McpInv` says what is in the buffer and on the wire: up to two blank
lines, then the frames of the messages behind the k-th, each where the sum of the
lengths before it puts it (`Reads`); what is answered and what is pending is what
the first k messages ask for (`Told`). A step of the reader takes a blank line, a
whole frame or nothing, and the frames behind it keep their places; a chunk moves
bytes from wire to buffer and leaves their concatenation alone. `Polite` keeps
limit 10 out: no header stands behind two blank lines.

**Assumptions.** Those of the modules, named there and evaluated by TLC: finite
sets of tasks, processes and ids, types of declarations and limits, outcomes a
worker may report, lists that name every task and every phase (`ListsAreComplete`),
a predecessor that is not a contender, worlds and messages that are well formed.

**Only model-checked.** Liveness, out of the prover's reach: `RunEnds`,
`RetryIsCarriedOut`, `AlwaysEnds`, `EveryLineIsRead`, `EveryRequestIsAnswered` and
the fairness part of `ImplementsTaskOutcome`. All of `TypedOutput`: its schemas and
values are nested data, read by recursive operators, which the prover cannot
unfold.

## 6. Not modelled, and why

* Saved workflows, the CLI and the facade `core.js`: sequential text and file
  processing before a run exists; unit tests reach it.
* The approval summary and hash, prompts, arguments, environments and logs: text
  that no decision of the system depends on.
* Field-by-field shape checks of `spec.js` and of `run.json`, id patterns, defaults
  and counting limits of schemas: each is one comparison.
* `plan` with `--force`, `list` and `validate`: the first replaces a run on request, the others
  only read.
* In `McpServer`: null ids, batches, internal errors and a wrong Content-Length; in
  `AcpExec`: oversized lines and the agent's own requests.
* A crash between two writes of one fold. What it leaves is part of the fold's
  skips and phase verdicts; a later `propagateSkips` completes them.

What would come next: the writes of one fold as steps of their own, and
`TypedOutput` over schemas of bounded depth, without recursive operators.
