-------------------------------- MODULE Attempt --------------------------------
(***************************************************************************)
(* One attempt at a task, from the promise launch() creates to its end     *)
(* (scheduler.js: runCodexAttempt, runClaudeAttempt, runAcpAttempt,        *)
(* runLocalAttempt, acceptWorkerMessage, runGatePhase; gates.js: runGates), *)
(* against the orchestrator's abortInFlight.                               *)
(*                                                                         *)
(* Every await is a place where the abort may come in between: pc "probe", *)
(* "work" and "gate" wait for a process; "probed", "fold" and "gated" are  *)
(* the moments after it settled and before the code behind the await runs. *)
(***************************************************************************)
EXTENDS ChildProcess

CONSTANTS
  Kinds,           \* executors to consider: "codex", "claude", "acp", "local"
  MaxGates,        \* bound on the gates of the task
  MaxTimeout,      \* bound on the timeouts of worker and gates, in seconds
  ProcessWorlds    \* the processes that may be met, a subset of Worlds

ASSUME ConstantsType ==
  /\ Kinds \subseteq {"codex", "claude", "acp", "local"}
  /\ MaxGates \in Nat /\ MaxTimeout \in Nat
  /\ ProcessWorlds \subseteq Worlds

\* abortInFlight waits 8 s for the workers; the version probe is given 2 s.
AbortGrace == 8
ProbeTimeout == 2
ProbeLadder == {<<0, "SIGKILL">>}

\* AcpExec's cancel: the ladder, after a grace period of two seconds
AcpLadder == {<<r[1] + 2, r[2]>> : r \in NdjsonLadder}

WorkerLadder(k) == IF k = "acp" THEN AcpLadder ELSE NdjsonLadder

VARIABLES
  kind, gates,             \* the task's executor, the number of its gates
  pc,
  worker, gate,            \* processes: the worker (or its probe), the gate
  target,                  \* what handle.cancel points to
  gatesCancelled,          \* the cancelled flag of runGates
  passed,                  \* gates passed
  task, attempt,           \* state.tasks[t].status, state.attempts[a].status
  accepted,                \* result.json and route_value are written
  aborting, sealed,        \* runContext
  abortAs, abortLeft       \* the abort's status, and the rest of its grace

taskVars  == <<task, attempt, accepted>>
gateVars  == <<gate, gatesCancelled, passed>>
abortVars == <<aborting, sealed, abortAs, abortLeft>>
vars == <<kind, gates, pc, worker, gate, target, gatesCancelled, passed, task, attempt,
          accepted, aborting, sealed, abortAs, abortLeft>>

Timeouts == 1 .. MaxTimeout

Init ==
  /\ kind \in Kinds /\ gates \in 0 .. MaxGates
  /\ pc = "start"
  /\ worker = NoProcess /\ gate = NoProcess
  /\ target = "nobody"
  /\ gatesCancelled = FALSE /\ passed = 0
  /\ task = "running" /\ attempt = "created" /\ accepted = FALSE
  /\ aborting = FALSE /\ sealed = FALSE /\ abortAs = "none" /\ abortLeft = 0

\* createFinishAttempt, quarantineWorkerOutput and the catch of launch(): the
\* attempt's and the task's status change together, and the promise resolves.
Finish(attemptStatus, taskStatus) ==
  /\ attempt' = attemptStatus /\ task' = taskStatus
  /\ pc' = "done"

\* The promise resolves and writes nothing.
Return == pc' = "done" /\ UNCHANGED <<task, attempt>>

-----------------------------------------------------------------------------
(* Start of the attempt *)

SpawnWorker(timeout, world) ==
  /\ worker' = Spawned(WorkerLadder(kind), timeout, world)
  /\ target' = "worker"
  /\ attempt' = "running"
  /\ pc' = "work"

\* codex and claude spawn at once.
StartWorker(timeout, world) ==
  /\ pc = "start" /\ kind \in {"codex", "claude"}
  /\ SpawnWorker(timeout, world)
  /\ UNCHANGED <<kind, gates, gateVars, task, accepted, abortVars>>

\* acp asks the binary for its version first; nothing can cancel that.
StartProbe(world) ==
  /\ pc = "start" /\ kind = "acp"
  /\ worker' = Spawned(ProbeLadder, ProbeTimeout, world)
  /\ pc' = "probe"
  /\ UNCHANGED <<kind, gates, target, gateVars, taskVars, abortVars>>

ProbeAnswered(timeout, world) ==
  /\ pc = "probed"
  /\ IF aborting \/ sealed
       THEN Return /\ UNCHANGED <<worker, target>>
       ELSE SpawnWorker(timeout, world) /\ task' = task
  /\ UNCHANGED <<kind, gates, gateVars, accepted, abortVars>>

\* A local task computes its result inside the launch.
RunLocalAttempt(status) ==
  /\ pc = "start" /\ kind = "local"
  /\ Finish(IF status = "schema_violation" THEN "quarantined" ELSE status, status)
  /\ accepted' = (status # "schema_violation")
  /\ UNCHANGED <<kind, gates, worker, target, gateVars, abortVars>>

\* What the executor does may throw: an argument refused before the spawn, an
\* input that does not exist, a gate's log that cannot be written.
ExecutorThrows ==
  /\ pc \in {"start", "probed", "gated"}
  /\ IF sealed THEN Return ELSE Finish("failed", "failed")
  /\ UNCHANGED <<kind, gates, worker, target, gateVars, accepted, abortVars>>

-----------------------------------------------------------------------------
(* The outcome of the worker *)

\* The orchestrator has folded this attempt already.
Awaited == pc = "fold" /\ ~sealed
DropSealed ==
  /\ pc = "fold" /\ sealed
  /\ Return
  /\ UNCHANGED <<kind, gates, worker, target, gateVars, accepted, abortVars>>

\* Mutant of FoldCancelled: the late end of a worker is folded once more.
FoldCancelledAnyway ==
  /\ pc = "fold" /\ worker.cancelled
  /\ Finish("cancelled", "cancelled")
  /\ UNCHANGED <<kind, gates, worker, target, gateVars, accepted, abortVars>>

FoldCancelled ==
  /\ Awaited /\ worker.cancelled
  /\ Finish("cancelled", "cancelled")
  /\ UNCHANGED <<kind, gates, worker, target, gateVars, accepted, abortVars>>

FoldTimedOut ==
  /\ Awaited /\ ~worker.cancelled /\ worker.timedOut
  /\ Finish("timed_out", "timed_out")
  /\ UNCHANGED <<kind, gates, worker, target, gateVars, accepted, abortVars>>

Finished == Awaited /\ ~worker.cancelled /\ ~worker.timedOut

\* A broken stream, a refused model, an overflow: whatever the exit code says
FoldWorkerFailed ==
  /\ Finished
  /\ Finish("failed", "failed")
  /\ UNCHANGED <<kind, gates, worker, target, gateVars, accepted, abortVars>>

\* The message is no valid result, or claude ran out of structured-output
\* retries, which it may report with any exit code.
QuarantineOutput ==
  /\ Finished /\ (worker.exit = "zero" \/ kind = "claude")
  /\ Finish("quarantined", "schema_violation")
  /\ UNCHANGED <<kind, gates, worker, target, gateVars, accepted, abortVars>>

\* acceptWorkerMessage: the result is valid and saved, with its route.
Accept == Finished /\ worker.exit = "zero" /\ accepted' = TRUE

AcceptFailure ==
  /\ Accept
  /\ Finish("failed", "failed")
  /\ UNCHANGED <<kind, gates, worker, target, gateVars, abortVars>>

AcceptSuccess ==
  /\ Accept /\ gates = 0
  /\ Finish("succeeded", "succeeded")
  /\ UNCHANGED <<kind, gates, worker, target, gateVars, abortVars>>

StartGate(timeout, world) ==
  /\ gate' = Spawned(GateLadder, timeout, world)
  /\ pc' = "gate"

\* Mutant of EnterGates: handle.cancel still points to the worker.
EnterGatesUnpointed(timeout, world) ==
  /\ Accept /\ gates > 0
  /\ IF aborting THEN Return /\ UNCHANGED gate
                 ELSE StartGate(timeout, world) /\ UNCHANGED <<task, attempt>>
  /\ UNCHANGED <<kind, gates, worker, target, gatesCancelled, passed, abortVars>>

EnterGates(timeout, world) ==
  /\ Accept /\ gates > 0
  /\ IF aborting
       THEN Return /\ UNCHANGED <<target, gate>>
       ELSE target' = "gates" /\ StartGate(timeout, world) /\ UNCHANGED <<task, attempt>>
  /\ UNCHANGED <<kind, gates, worker, gatesCancelled, passed, abortVars>>

-----------------------------------------------------------------------------
(* runGates *)

GatePassed == gate.exit = "zero" /\ ~gate.timedOut

NextGate(timeout, world) ==
  /\ pc = "gated" /\ GatePassed /\ passed + 1 < gates /\ ~gatesCancelled
  /\ passed' = passed + 1
  /\ StartGate(timeout, world)
  /\ UNCHANGED <<kind, gates, worker, target, gatesCancelled, taskVars, abortVars>>

\* The last gate passed: the task succeeds, even if a cancel came meanwhile.
GatesPassed ==
  /\ pc = "gated" /\ GatePassed /\ passed + 1 = gates
  /\ passed' = passed + 1
  /\ IF sealed THEN Return ELSE Finish("succeeded", "succeeded")
  /\ UNCHANGED <<kind, gates, worker, target, gate, gatesCancelled, accepted, abortVars>>

\* A gate failed, or the loop found the cancelled flag before the next one.
GatesStopped ==
  /\ pc = "gated"
  /\ ~GatePassed \/ (gatesCancelled /\ passed + 1 < gates)
  /\ IF sealed THEN Return
     ELSE IF gatesCancelled THEN Finish("cancelled", "cancelled")
     ELSE Finish("gate_failed", "gate_failed")
  /\ UNCHANGED <<kind, gates, worker, target, gateVars, accepted, abortVars>>

-----------------------------------------------------------------------------
(* Processes and time *)

WorkerStep(p) ==
  /\ worker' = p
  /\ UNCHANGED <<kind, gates, target, gateVars, taskVars, abortVars>>

GateStep(p) ==
  /\ gate' = p
  /\ UNCHANGED <<kind, gates, worker, target, gatesCancelled, passed, taskVars, abortVars>>

WorkerEnds(code) ==
  /\ worker.state = "running" /\ "leader" \in worker.alive
  /\ WorkerStep(Ended(worker, code)) /\ pc' = pc

WorkerHelperEnds ==
  /\ worker.state = "running" /\ "helper" \in worker.alive
  /\ WorkerStep([worker EXCEPT !.alive = @ \ {"helper"}]) /\ pc' = pc

WorkerTimer(t, code) ==
  /\ t \in Due(worker)
  /\ WorkerStep(Expired(worker, t, code)) /\ pc' = pc

WorkerSettles ==
  /\ Closable(worker)
  /\ WorkerStep(Settled(worker))
  /\ pc' = IF pc = "probe" THEN "probed" ELSE "fold"

GateEnds(code) ==
  /\ gate.state = "running" /\ "leader" \in gate.alive
  /\ GateStep(Ended(gate, code)) /\ pc' = pc

GateHelperEnds ==
  /\ gate.state = "running" /\ "helper" \in gate.alive
  /\ GateStep([gate EXCEPT !.alive = @ \ {"helper"}]) /\ pc' = pc

GateTimer(t, code) ==
  /\ t \in Due(gate)
  /\ GateStep(Expired(gate, t, code)) /\ pc' = pc

GateSettles ==
  /\ Closable(gate)
  /\ GateStep(Settled(gate)) /\ pc' = "gated"

\* A second passes when nothing else is left to do in this one.
Waiting == pc \in {"probe", "work", "gate"}

Tick ==
  /\ Waiting /\ Idle(worker) /\ Idle(gate)
  /\ aborting /\ ~sealed => abortLeft > 0
  /\ worker' = OneSecondLater(worker) /\ gate' = OneSecondLater(gate)
  /\ abortLeft' = IF abortLeft > 0 THEN abortLeft - 1 ELSE 0
  /\ UNCHANGED <<kind, gates, pc, target, gatesCancelled, passed, taskVars, aborting, sealed,
                 abortAs>>

-----------------------------------------------------------------------------
(* abortInFlight, as far as it concerns this attempt *)

\* entry.cancel?.() for the one in flight, then the wait
BeginAbort(status) ==
  /\ ~aborting /\ pc \notin {"start", "done"}
  /\ aborting' = TRUE /\ abortAs' = status /\ abortLeft' = AbortGrace
  /\ worker' = IF target = "worker" THEN Cancelled(worker) ELSE worker
  /\ gatesCancelled' = (target = "gates")
  /\ gate' = IF target = "gates" THEN Cancelled(gate) ELSE gate
  /\ UNCHANGED <<kind, gates, pc, target, passed, taskVars, sealed>>

\* The promise is in, or the wait is over; what is due in the same second as
\* the end of the wait may come before or after it.
SealAttempt ==
  /\ aborting /\ ~sealed
  /\ pc = "done" \/ (abortLeft = 0 /\ Waiting)
  /\ sealed' = TRUE
  /\ task' = IF task = "running" THEN abortAs ELSE task
  /\ attempt' = IF attempt \in {"created", "running"} THEN abortAs ELSE attempt
  /\ UNCHANGED <<kind, gates, pc, worker, target, gateVars, accepted, aborting, abortAs,
                 abortLeft>>

-----------------------------------------------------------------------------
ExitCodes == {"zero", "nonzero"}

Start ==
  \/ \E w \in ProcessWorlds : StartProbe(w) \/ \E s \in Timeouts : StartWorker(s, w)
  \/ \E status \in {"succeeded", "failed", "schema_violation"} : RunLocalAttempt(status)

Continue ==
  \/ \E w \in ProcessWorlds, s \in Timeouts : ProbeAnswered(s, w) \/ EnterGates(s, w) \/ NextGate(s, w)
  \/ ExecutorThrows
  \/ DropSealed \/ FoldCancelled \/ FoldTimedOut \/ FoldWorkerFailed
  \/ QuarantineOutput \/ AcceptFailure \/ AcceptSuccess
  \/ GatesPassed \/ GatesStopped

\* The system's own steps; what a process does of itself is not among them.
Callbacks ==
  \/ WorkerSettles \/ GateSettles \/ Tick \/ SealAttempt
  \/ \E code \in ExitCodes :
       \/ \E t \in worker.timers : WorkerTimer(t, code)
       \/ \E t \in gate.timers : GateTimer(t, code)

Environment ==
  \/ \E code \in ExitCodes : WorkerEnds(code) \/ GateEnds(code)
  \/ WorkerHelperEnds \/ GateHelperEnds
  \/ \E status \in {"failed", "cancelled"} : BeginAbort(status)

Next == Start \/ Continue \/ Callbacks \/ Environment

Spec == Init /\ [][Next]_vars

(* The event loop runs what is due, and the clock advances.                *)
FairSpec == Spec /\ WF_vars(Start) /\ WF_vars(Continue) /\ WF_vars(Callbacks)

-----------------------------------------------------------------------------
(* Properties *)

TypeOK ==
  /\ kind \in Kinds /\ gates \in 0 .. MaxGates
  /\ pc \in {"start", "probe", "probed", "work", "fold", "gate", "gated", "done"}
  /\ worker \in Processes /\ gate \in Processes
  /\ target \in {"nobody", "worker", "gates"}
  /\ gatesCancelled \in BOOLEAN /\ passed \in 0 .. gates
  /\ task \in {"running", "succeeded", "failed", "schema_violation", "timed_out",
               "gate_failed", "cancelled"}
  /\ attempt \in {"created", "running", "succeeded", "failed", "quarantined", "timed_out",
                  "gate_failed", "cancelled"}
  /\ accepted \in BOOLEAN
  /\ aborting \in BOOLEAN /\ sealed \in BOOLEAN
  /\ abortAs \in {"none", "failed", "cancelled"} /\ abortLeft \in 0 .. AbortGrace

\* Attempt status and task status stay in lockstep across executors, ends and
\* aborts (scheduler.js:934).
Lockstep ==
  \/ task = "running" /\ attempt \in {"created", "running"}
  \/ task = "schema_violation" /\ attempt = "quarantined"
  \/ task # "running" /\ attempt = task

\* No signal is sent to a process group that is gone and may be somebody
\* else's by now (process-runner.js:118): not by a cancel that races the exit,
\* not by a timer nobody cleared.
NoStraySignal == ~worker.stray /\ ~gate.stray

\* A task succeeds only on the word of a worker that ended by itself, whose
\* result was accepted and whose gates all passed.
SuccessIsEarned ==
  task = "succeeded" /\ kind # "local" =>
    /\ accepted /\ passed = gates
    /\ worker.exit = "zero" /\ ~worker.timedOut /\ ~worker.cancelled

\* No worker and no gate is started in a run that is being torn down: nothing
\* would kill it (scheduler.js:1544).
NothingStartsInAbort ==
  [][aborting =>
       /\ gate'.state = "running" => gate.state = "running"
       /\ pc' = "work" => pc = "work"]_vars

\* When the run is sealed its processes are gone: gates, probes and workers are
\* reaped within the abort's grace period.  An acp worker that ignores both
\* SIGINT and SIGTERM is the exception: its SIGKILL is due as the grace ends.
Stubborn(p) == \E m \in p.alive : p.obeys[m] = 3
DiesWithTheRun ==
  sealed => gate.alive = {} /\ (worker.alive = {} \/ (kind = "acp" /\ Stubborn(worker)))

\* A sealed run is not written to any more (scheduler.js:118): one outcome per
\* attempt, from the promise or from the abort, never from both.
OneOutcome ==
  [][(task # "running" => UNCHANGED <<task, attempt>>) /\ (sealed => UNCHANGED taskVars)]_vars

\* The attempt does to its task what Scheduler assumes of it, and it settles.
Outcome == INSTANCE TaskOutcome WITH
  Outcomes <- {"succeeded", "failed", "schema_violation", "timed_out", "gate_failed"},
  accepted <- accepted /\ pc = "done",
  settled  <- pc = "done"

ImplementsTaskOutcome == Outcome!FairSpec

\* A gate that is told to stop, by its timeout or by the abort, is gone within
\* three seconds, whatever it catches and whatever it left behind (gates.js:103);
\* a worker within six, an acp worker within eight (process-runner.js:36).
GateLimit == INSTANCE StoppableWorker WITH
  Grace <- 3, state <- gate.state, stopping <- Stopping(gate), age <- gate.age
GateStopsInTime == GateLimit!Spec

WorkerLimit == INSTANCE StoppableWorker WITH
  Grace <- IF "acp" \in Kinds THEN 8 ELSE 6,
  state <- worker.state, stopping <- Stopping(worker), age <- worker.age
WorkerStopsInTime == WorkerLimit!Spec

ProcessesStopInTime == GateStopsInTime /\ WorkerStopsInTime
=============================================================================
