---------------------------- MODULE AttemptProofs ----------------------------
(***************************************************************************)
(* What one attempt guarantees for every executor, every number of gates,  *)
(* every timeout and every behaviour of the processes it runs.             *)
(***************************************************************************)
EXTENDS Attempt, TLAPS

-----------------------------------------------------------------------------
(* Processes.  One that does not run has no timers and nobody alive, and   *)
(* no signal was ever sent to it.                                          *)

ProcessOK(p) ==
  /\ p \in Processes /\ ~p.stray
  /\ p.state # "running" => p.timers = {} /\ p.alive = {}
  /\ \A t \in p.timers : t.what \in Signals \cup {"timeout"}

\* What a callback on a process leaves alone
Keeps(p, q) ==
  /\ q.state = p.state /\ q.ladder = p.ladder /\ q.obeys = p.obeys
  /\ q.alive \subseteq p.alive /\ q.cancelled = p.cancelled

Ladders == SUBSET (Nat \X Signals)

LEMMA LaddersType ==
  /\ \A k : WorkerLadder(k) \in Ladders
  /\ ProbeLadder \in Ladders /\ GateLadder \in Ladders
  BY DEF Ladders, WorkerLadder, ProbeLadder, GateLadder, NdjsonLadder, AcpLadder, Signals

LEMMA NoProcessOK == ProcessOK(NoProcess)
  BY DEF ProcessOK, NoProcess, Processes

LEMMA SpawnedOK ==
  ASSUME NEW ladder \in Ladders, NEW timeout \in Nat, NEW world \in Worlds
  PROVE  /\ ProcessOK(Spawned(ladder, timeout, world))
         /\ Spawned(ladder, timeout, world).state = "running"
         /\ Spawned(ladder, timeout, world).ladder = ladder
         /\ Spawned(ladder, timeout, world).cancelled = FALSE
<1> DEFINE first == [left |-> timeout, what |-> "timeout"]
<1>1. first \in Timers /\ first.what = "timeout"
  BY DEF Timers
<1>2. /\ Spawned(ladder, timeout, world) \in Processes
      /\ Spawned(ladder, timeout, world).timers = {first}
      /\ Spawned(ladder, timeout, world).state = "running"
      /\ Spawned(ladder, timeout, world).ladder = ladder
      /\ Spawned(ladder, timeout, world).cancelled = FALSE
      /\ ~Spawned(ladder, timeout, world).stray
  BY <1>1 DEF Spawned, NoProcess, Processes, Worlds, Ladders
<1> QED BY <1>1, <1>2 DEF ProcessOK

LEMMA SpawnedTimers ==
  ASSUME NEW ladder, NEW timeout, NEW world
  PROVE  Spawned(ladder, timeout, world).timers = {[left |-> timeout, what |-> "timeout"]}
  BY DEF Spawned, NoProcess

LEMMA EndedOK ==
  ASSUME NEW p, ProcessOK(p), NEW code \in ExitCodes
  PROVE  ProcessOK(Ended(p, code)) /\ Keeps(p, Ended(p, code))
         /\ Ended(p, code).timers = p.timers
  BY DEF ProcessOK, Ended, Processes, ExitCodes, Keeps

LEMMA HelperEndedOK ==
  ASSUME NEW p, ProcessOK(p), NEW q, q = [p EXCEPT !.alive = @ \ {"helper"}]
  PROVE  ProcessOK(q) /\ Keeps(p, q) /\ q.timers = p.timers
  BY DEF ProcessOK, Processes, Keeps

LEMMA EscalatedOK ==
  ASSUME NEW p, ProcessOK(p), p.state = "running"
  PROVE  ProcessOK(Escalated(p)) /\ Keeps(p, Escalated(p))
<1>1. \A r \in p.ladder : [left |-> r[1], what |-> r[2]] \in Timers
  BY DEF ProcessOK, Processes, Timers
<1>2. \A r \in p.ladder : r[2] \in Signals
  BY DEF ProcessOK, Processes
<1> QED BY <1>1, <1>2 DEF ProcessOK, Escalated, Processes, Keeps

LEMMA SignalledOK ==
  ASSUME NEW p, ProcessOK(p), p.state = "running", NEW signal \in Signals, NEW code \in ExitCodes
  PROVE  ProcessOK(Signalled(p, signal, code)) /\ Keeps(p, Signalled(p, signal, code))
         /\ Signalled(p, signal, code).timers = p.timers
         /\ \A m \in Signalled(p, signal, code).alive : p.obeys[m] > Rank(signal)
<1> DEFINE dead == {m \in p.alive : p.obeys[m] <= Rank(signal)}
           left == [p EXCEPT !.alive = @ \ dead, !.stray = @ \/ p.state = "settled"]
<1>1. /\ left \in Processes /\ ~left.stray /\ left.state = "running" /\ Keeps(p, left)
      /\ left.alive = p.alive \ dead /\ left.timers = p.timers
  BY DEF ProcessOK, Processes, Keeps
<1>2. \A m \in left.alive : p.obeys[m] > Rank(signal)
  <2>1. \A m \in p.alive : p.obeys[m] \in 1 .. 3
    BY DEF ProcessOK, Processes
  <2>2. Rank(signal) \in Nat
    BY DEF Rank
  <2> QED BY <1>1, <2>1, <2>2
<1>3. CASE "leader" \notin dead
  BY <1>1, <1>2, <1>3 DEF Signalled, ProcessOK
<1>4. CASE "leader" \in dead
  <2> DEFINE q == [left EXCEPT !.exit = IF signal = "SIGKILL" THEN "nonzero" ELSE code]
  <2>1. Signalled(p, signal, code) = q
    BY <1>4 DEF Signalled
  <2> HIDE DEF left
  <2>2. q \in Processes /\ ~q.stray /\ q.state = "running" /\ Keeps(p, q)
        /\ q.alive = left.alive /\ q.timers = p.timers
    BY <1>1 DEF Processes, Keeps, ExitCodes
  <2> QED BY <1>2, <2>1, <2>2 DEF ProcessOK
<1> QED BY <1>3, <1>4

\* Only a running process has timers: what expires never signals a process
\* that is gone.
LEMMA ExpiredOK ==
  ASSUME NEW p, ProcessOK(p), NEW t \in Due(p), NEW code \in ExitCodes
  PROVE  /\ ProcessOK(Expired(p, t, code)) /\ Keeps(p, Expired(p, t, code))
         /\ p.timers \ {t} \subseteq Expired(p, t, code).timers
         /\ t.what \in Signals =>
              \A m \in Expired(p, t, code).alive : p.obeys[m] > Rank(t.what)
         /\ t.what = "timeout" =>
              \A r \in p.ladder : [left |-> r[1], what |-> r[2]] \in Expired(p, t, code).timers
<1> DEFINE q == [p EXCEPT !.timers = @ \ {t}]
<1>1. p.state = "running" /\ ProcessOK(q) /\ q.state = "running" /\ Keeps(p, q)
      /\ q.timers = p.timers \ {t} /\ q.obeys = p.obeys /\ q.ladder = p.ladder
  BY DEF ProcessOK, Processes, Due, Keeps
<1>2. CASE t.what = "timeout"
  <2> DEFINE late == [q EXCEPT !.timedOut = TRUE]
  <2>1. Expired(p, t, code) = Escalated(late)
    BY <1>2 DEF Expired
  <2> HIDE DEF q
  <2>2. ProcessOK(late) /\ late.state = "running" /\ Keeps(q, late)
        /\ late.timers = q.timers /\ late.ladder = p.ladder
    BY <1>1 DEF ProcessOK, Processes, Keeps
  <2>3. ProcessOK(Escalated(late)) /\ Keeps(late, Escalated(late))
    BY <2>2, EscalatedOK
  <2>4. Escalated(late).timers = late.timers \cup {[left |-> r[1], what |-> r[2]] : r \in late.ladder}
    BY <2>2 DEF Escalated, ProcessOK, Processes
  <2>5. t.what \notin Signals
    BY <1>2 DEF Signals
  <2> QED BY <1>1, <2>1, <2>2, <2>3, <2>4, <2>5 DEF Keeps
<1>3. CASE t.what \in Signals
  <2>1. Expired(p, t, code) = Signalled(q, t.what, code) /\ t.what # "timeout"
    BY <1>3 DEF Expired, Signals
  <2> HIDE DEF q
  <2>2. /\ ProcessOK(Signalled(q, t.what, code)) /\ Keeps(q, Signalled(q, t.what, code))
        /\ Signalled(q, t.what, code).timers = q.timers
        /\ \A m \in Signalled(q, t.what, code).alive : q.obeys[m] > Rank(t.what)
    BY <1>1, <1>3, SignalledOK
  <2>3. Keeps(p, Signalled(q, t.what, code))
    BY <1>1, <2>2 DEF Keeps
  <2> QED BY <1>1, <2>1, <2>2, <2>3
<1>4. t.what \in Signals \cup {"timeout"}
  BY DEF ProcessOK, Due
<1> QED BY <1>2, <1>3, <1>4

LEMMA CancelledOK ==
  ASSUME NEW p, ProcessOK(p)
  PROVE  /\ ProcessOK(Cancelled(p))
         /\ p.state # "running" => Cancelled(p) = p
         /\ p.state = "running" =>
              /\ Cancelled(p).state = "running" /\ Cancelled(p).ladder = p.ladder
              /\ Cancelled(p).obeys = p.obeys /\ Cancelled(p).alive = p.alive
              /\ \A r \in p.ladder : [left |-> r[1], what |-> r[2]] \in Cancelled(p).timers
<1>1. CASE p.state = "running"
  <2> DEFINE q == [p EXCEPT !.cancelled = TRUE]
  <2>1. ProcessOK(q) /\ q.state = "running" /\ q.ladder = p.ladder /\ q.obeys = p.obeys
        /\ q.alive = p.alive
    BY <1>1 DEF ProcessOK, Processes
  <2>2. Cancelled(p) = Escalated(q)
    BY <1>1 DEF Cancelled
  <2> HIDE DEF q
  <2>3. /\ Escalated(q).timers = q.timers \cup {[left |-> r[1], what |-> r[2]] : r \in q.ladder}
        /\ Escalated(q).alive = q.alive /\ Escalated(q).obeys = q.obeys
        /\ Escalated(q).ladder = q.ladder /\ Escalated(q).state = q.state
    BY <2>1 DEF Escalated, ProcessOK, Processes
  <2> QED BY <1>1, <2>1, <2>2, <2>3, EscalatedOK
<1>2. CASE p.state # "running"
  BY <1>2 DEF Cancelled
<1> QED BY <1>1, <1>2

LEMMA SettledOK ==
  ASSUME NEW p, ProcessOK(p), Closable(p)
  PROVE  /\ ProcessOK(Settled(p)) /\ Settled(p).state = "settled"
         /\ Settled(p).cancelled = p.cancelled /\ Settled(p).obeys = p.obeys
         /\ Settled(p).alive = p.alive
  BY DEF ProcessOK, Settled, Closable, Processes

LEMMA SecondOK ==
  ASSUME NEW p, ProcessOK(p), Idle(p)
  PROVE  /\ ProcessOK(OneSecondLater(p)) /\ Keeps(p, OneSecondLater(p))
         /\ OneSecondLater(p).alive = p.alive
         /\ \A t \in p.timers : [left |-> t.left - 1, what |-> t.what] \in OneSecondLater(p).timers
<1>1. \A t \in p.timers : /\ t \in Timers /\ t.left - 1 \in Nat
                          /\ [t EXCEPT !.left = @ - 1] = [left |-> t.left - 1, what |-> t.what]
                          /\ [t EXCEPT !.left = @ - 1] \in Timers
  BY DEF Idle, Due, ProcessOK, Processes, Timers
<1> DEFINE later == {[t EXCEPT !.left = @ - 1] : t \in p.timers}
           older == IF Stopping(p) /\ p.state = "running" THEN p.age + 1 ELSE p.age
<1>2. later \subseteq Timers /\ older \in Nat /\ (p.timers = {} => later = {})
  <2>1. p.age \in Nat /\ p.age + 1 \in Nat
    BY DEF ProcessOK, Processes
  <2>2. older \in Nat
    BY <2>1
  <2> QED BY <1>1, <2>2
<1>5. \A u \in later : u.what \in Signals \cup {"timeout"}
  BY <1>1 DEF ProcessOK
<1>3. OneSecondLater(p) = [p EXCEPT !.timers = later, !.age = older]
  BY DEF OneSecondLater
<1>4. \A t \in p.timers : [left |-> t.left - 1, what |-> t.what] \in later
  BY <1>1
<1> HIDE DEF later, older
<1> QED BY <1>2, <1>3, <1>4, <1>5 DEF ProcessOK, Processes, Keeps

-----------------------------------------------------------------------------
(* The inductive invariant *)

Typed == TypeOK /\ ProcessOK(worker) /\ ProcessOK(gate)

\* Where pc stands: which process runs, whom a cancel reaches.
Place ==
  /\ worker.state = "running" <=> pc \in {"probe", "work"}
  /\ gate.state = "running" <=> pc = "gate"
  /\ pc \in {"probe", "probed"} => kind = "acp"
  /\ pc \in {"start", "probe", "probed"} => target = "nobody"
  /\ pc \in {"work", "fold"} => target = "worker"
  /\ pc \in {"gate", "gated"} => target = "gates"

\* What is known of the result before the promise settles, and after.
Result ==
  /\ pc # "done" /\ ~sealed => task = "running"
  /\ pc \in {"start", "probe", "probed", "work", "fold"} => ~accepted /\ passed = 0
  /\ pc \in {"gate", "gated"} =>
       /\ accepted /\ passed < gates
       /\ worker.exit = "zero" /\ ~worker.timedOut /\ ~worker.cancelled
  /\ SuccessIsEarned /\ Lockstep

\* What the abort has reached
Aborted ==
  /\ pc = "start" => ~aborting
  /\ aborting => abortAs \in {"failed", "cancelled"}
  /\ sealed => aborting /\ pc \notin {"start", "probe", "probed", "gate", "gated"}
  /\ sealed /\ pc = "work" => kind = "acp" /\ abortLeft = 0
  /\ worker.cancelled \/ gatesCancelled => aborting
  /\ pc \in {"gate", "gated"} /\ aborting => gatesCancelled

\* Nobody of p is alive, or one of the timers W is due within n seconds.
EndsBefore(p, W, n) == p.alive = {} \/ \E t \in p.timers : t.what \in W /\ t.left < n

\* The signals that end what the abort waits for come before its grace is over.
Reaped ==
  /\ pc = "gate" =>
       /\ gate.ladder = GateLadder
       /\ aborting => abortLeft > 0 /\ EndsBefore(gate, {"SIGKILL"}, abortLeft)
  /\ pc = "probe" =>
       /\ worker.ladder = ProbeLadder
       /\ EndsBefore(worker, {"SIGKILL", "timeout"}, ProbeTimeout + 1)
       /\ aborting => abortLeft > 0 /\ EndsBefore(worker, {"SIGKILL", "timeout"}, abortLeft)
  /\ pc = "work" =>
       /\ worker.ladder = WorkerLadder(kind)
       /\ aborting /\ kind # "acp" => abortLeft > 0 /\ EndsBefore(worker, {"SIGKILL"}, abortLeft)
       /\ aborting /\ kind = "acp" =>
            \/ \A m \in worker.alive : worker.obeys[m] = 3
            \/ \E t \in worker.timers : t.what = "SIGTERM" /\ t.left < abortLeft

Inductive == Typed /\ Place /\ Result /\ Aborted /\ Reaped

LEMMA InitInductive == Init => Inductive
<1> SUFFICES ASSUME Init PROVE Inductive
  OBVIOUS
<1> USE DEF Init
<1>1. Typed
  <2>1. ProcessOK(worker) /\ ProcessOK(gate)
    BY NoProcessOK
  <2>2. worker \in Processes /\ gate \in Processes
    BY <2>1 DEF ProcessOK
  <2>3. passed \in 0 .. gates /\ abortLeft \in 0 .. AbortGrace
    BY ConstantsType DEF AbortGrace
  <2> QED BY <2>1, <2>2, <2>3 DEF Typed, TypeOK
<1>2. worker.state = "none" /\ gate.state = "none" /\ ~worker.cancelled
  BY DEF NoProcess
<1>3. Place /\ Result /\ Aborted /\ Reaped
  BY <1>2 DEF Place, Result, Aborted, Reaped, SuccessIsEarned, Lockstep
<1> QED BY <1>1, <1>3 DEF Inductive

-----------------------------------------------------------------------------
(* Steps that leave the processes and the abort alone *)

\* The promise resolves: it writes an outcome, or nothing.
Resolves ==
  /\ pc' = "done"
  /\ UNCHANGED <<kind, gates, worker, gate, target, gatesCancelled, abortVars>>
  /\ passed' \in 0 .. gates /\ accepted' \in BOOLEAN
  /\ \/ UNCHANGED <<task, attempt>> /\ (task = "succeeded" => UNCHANGED <<passed, accepted>>)
     \/ \E o \in {"succeeded", "failed", "timed_out", "gate_failed", "cancelled"} :
          attempt' = o /\ task' = o
     \/ attempt' = "quarantined" /\ task' = "schema_violation"
  /\ pc \in {"start", "probed", "fold", "gated"}

LEMMA ResolvesInductive ==
  ASSUME Inductive, Resolves, SuccessIsEarned'
  PROVE  Inductive'
<1> USE DEF Inductive, Resolves, abortVars
<1>1. Typed'
  BY DEF Typed, TypeOK, ProcessOK
<1>2. Place' /\ Aborted' /\ Reaped'
  BY DEF Place, Aborted, Reaped
<1>3. Result'
  BY DEF Result, Lockstep
<1> QED BY <1>1, <1>2, <1>3

LEMMA LocalStep ==
  ASSUME Inductive, NEW status \in {"succeeded", "failed", "schema_violation"},
         RunLocalAttempt(status)
  PROVE  Inductive'
<1>1. Resolves
  BY DEF RunLocalAttempt, Resolves, Finish, gateVars, abortVars, Inductive, Typed, TypeOK
<1>2. SuccessIsEarned'
  BY DEF RunLocalAttempt, SuccessIsEarned
<1> QED BY <1>1, <1>2, ResolvesInductive

LEMMA ThrowsStep == ASSUME Inductive, ExecutorThrows PROVE Inductive'
<1>1. Resolves
  BY DEF ExecutorThrows, Resolves, Finish, Return, gateVars, abortVars, Inductive, Typed, TypeOK
<1>2. SuccessIsEarned'
  BY DEF ExecutorThrows, Finish, Return, gateVars, SuccessIsEarned, Inductive, Result
<1> QED BY <1>1, <1>2, ResolvesInductive

LEMMA FoldStep ==
  ASSUME Inductive,
         \/ DropSealed \/ FoldCancelled \/ FoldTimedOut \/ FoldWorkerFailed
         \/ QuarantineOutput \/ AcceptFailure \/ AcceptSuccess
  PROVE  Inductive'
<1> USE DEF DropSealed, FoldCancelled, FoldTimedOut, FoldWorkerFailed, QuarantineOutput,
            AcceptFailure, AcceptSuccess, Accept, Finished, Awaited, Finish, Return
<1>1. Resolves
  BY DEF Resolves, gateVars, abortVars, Inductive, Typed, TypeOK
<1>2. SuccessIsEarned'
  BY DEF gateVars, SuccessIsEarned, Inductive, Result, Typed, TypeOK
<1> QED BY <1>1, <1>2, ResolvesInductive

LEMMA GatesEndStep == ASSUME Inductive, GatesPassed \/ GatesStopped PROVE Inductive'
<1> USE DEF GatesPassed, GatesStopped, Finish, Return
<1>0. ~sealed /\ task = "running" /\ pc = "gated"
  BY DEF Inductive, Aborted, Result
<1>1. Resolves
  BY <1>0 DEF Resolves, gateVars, abortVars, Inductive, Typed, TypeOK
<1>2. SuccessIsEarned'
  BY <1>0 DEF gateVars, SuccessIsEarned, Inductive, Result, Typed, TypeOK
<1> QED BY <1>1, <1>2, ResolvesInductive

-----------------------------------------------------------------------------
(* Steps that spawn a process *)

LEMMA StartWorkerStep ==
  ASSUME Inductive, NEW w \in ProcessWorlds, NEW s \in Timeouts, StartWorker(s, w)
  PROVE  Inductive'
<1>1. /\ ProcessOK(worker') /\ worker'.state = "running" /\ worker'.cancelled = FALSE
      /\ worker'.ladder = WorkerLadder(kind)
  <2>1. s \in Nat /\ w \in Worlds /\ WorkerLadder(kind) \in Ladders
    BY LaddersType, ConstantsType DEF Timeouts
  <2>2. worker' = Spawned(WorkerLadder(kind), s, w)
    BY DEF StartWorker, SpawnWorker
  <2>3. /\ ProcessOK(Spawned(WorkerLadder(kind), s, w)) /\ Spawned(WorkerLadder(kind), s, w).state = "running"
        /\ Spawned(WorkerLadder(kind), s, w).ladder = WorkerLadder(kind)
        /\ Spawned(WorkerLadder(kind), s, w).cancelled = FALSE
    BY <2>1, SpawnedOK
  <2> QED BY <2>2, <2>3
<1>2. /\ pc = "start" /\ pc' = "work" /\ target' = "worker" /\ attempt' = "running"
      /\ UNCHANGED <<kind, gates, gate, gatesCancelled, passed, task, accepted, aborting, sealed,
                     abortAs, abortLeft>>
  BY DEF StartWorker, SpawnWorker, gateVars, abortVars
<1>3. Typed'
  BY <1>1, <1>2 DEF Inductive, Typed, TypeOK, ProcessOK
<1>4. Place'
  BY <1>1, <1>2 DEF Inductive, Place
<1>5. Result'
  BY <1>2 DEF Inductive, Result, SuccessIsEarned, Lockstep, Aborted
<1>6. Aborted' /\ Reaped'
  BY <1>1, <1>2 DEF Inductive, Aborted, Reaped
<1> QED BY <1>3, <1>4, <1>5, <1>6 DEF Inductive

LEMMA StartProbeStep ==
  ASSUME Inductive, NEW w \in ProcessWorlds, StartProbe(w)
  PROVE  Inductive'
<1> DEFINE first == [left |-> ProbeTimeout, what |-> "timeout"]
<1>1. /\ ProcessOK(worker') /\ worker'.state = "running" /\ worker'.cancelled = FALSE
      /\ worker'.ladder = ProbeLadder /\ worker'.timers = {first}
  <2>1. ProbeTimeout \in Nat /\ w \in Worlds /\ ProbeLadder \in Ladders
    BY LaddersType, ConstantsType DEF ProbeTimeout
  <2>2. worker' = Spawned(ProbeLadder, ProbeTimeout, w)
    BY DEF StartProbe
  <2>3. /\ ProcessOK(Spawned(ProbeLadder, ProbeTimeout, w)) /\ Spawned(ProbeLadder, ProbeTimeout, w).state = "running"
        /\ Spawned(ProbeLadder, ProbeTimeout, w).ladder = ProbeLadder
        /\ Spawned(ProbeLadder, ProbeTimeout, w).cancelled = FALSE
    BY <2>1, SpawnedOK
  <2> QED BY <2>2, <2>3, SpawnedTimers
<1>2. /\ pc = "start" /\ pc' = "probe" /\ kind = "acp"
      /\ UNCHANGED <<kind, gates, target, gate, gatesCancelled, passed, task, attempt, accepted,
                     aborting, sealed, abortAs, abortLeft>>
  BY DEF StartProbe, gateVars, taskVars, abortVars
<1>3. Typed'
  BY <1>1, <1>2 DEF Inductive, Typed, TypeOK, ProcessOK
<1>4. Place'
  BY <1>1, <1>2 DEF Inductive, Place
<1>5. Result'
  BY <1>2 DEF Inductive, Result, SuccessIsEarned, Lockstep, Aborted
<1>6. EndsBefore(worker', {"SIGKILL", "timeout"}, ProbeTimeout + 1)
  BY <1>1 DEF EndsBefore, ProbeTimeout
<1>7. Aborted' /\ Reaped'
  BY <1>1, <1>2, <1>6 DEF Inductive, Aborted, Reaped
<1> QED BY <1>3, <1>4, <1>5, <1>7 DEF Inductive

LEMMA ProbeAnsweredStep ==
  ASSUME Inductive, NEW w \in ProcessWorlds, NEW s \in Timeouts, ProbeAnswered(s, w)
  PROVE  Inductive'
<1>1. CASE aborting \/ sealed
  <2>1. Resolves
    BY <1>1 DEF ProbeAnswered, Resolves, Return, gateVars, abortVars, Inductive, Typed, TypeOK
  <2>2. SuccessIsEarned'
    BY <1>1 DEF ProbeAnswered, Return, gateVars, SuccessIsEarned, Inductive, Result
  <2> QED BY <2>1, <2>2, ResolvesInductive
<1>2. CASE ~aborting /\ ~sealed
  <2>1. /\ ProcessOK(worker') /\ worker'.state = "running" /\ worker'.cancelled = FALSE
        /\ worker'.ladder = WorkerLadder(kind)
    <3>1. s \in Nat /\ w \in Worlds /\ WorkerLadder(kind) \in Ladders
      BY LaddersType, ConstantsType DEF Timeouts
    <3>2. worker' = Spawned(WorkerLadder(kind), s, w)
      BY <1>2 DEF ProbeAnswered, SpawnWorker
    <3>3. /\ ProcessOK(Spawned(WorkerLadder(kind), s, w)) /\ Spawned(WorkerLadder(kind), s, w).state = "running"
          /\ Spawned(WorkerLadder(kind), s, w).ladder = WorkerLadder(kind)
          /\ Spawned(WorkerLadder(kind), s, w).cancelled = FALSE
      BY <3>1, SpawnedOK
    <3> QED BY <3>2, <3>3
  <2>2. /\ pc = "probed" /\ pc' = "work" /\ target' = "worker" /\ attempt' = "running"
        /\ UNCHANGED <<kind, gates, gate, gatesCancelled, passed, task, accepted, aborting, sealed,
                       abortAs, abortLeft>>
    BY <1>2 DEF ProbeAnswered, SpawnWorker, gateVars, abortVars
  <2>3. Typed'
    BY <2>1, <2>2 DEF Inductive, Typed, TypeOK, ProcessOK
  <2>4. Place'
    BY <2>1, <2>2 DEF Inductive, Place
  <2>5. Result'
    BY <1>2, <2>2 DEF Inductive, Result, SuccessIsEarned, Lockstep, Aborted
  <2>6. Aborted' /\ Reaped'
    BY <1>2, <2>1, <2>2 DEF Inductive, Aborted, Reaped
  <2> QED BY <2>3, <2>4, <2>5, <2>6 DEF Inductive
<1> QED BY <1>1, <1>2

\* A gate is spawned in a run that goes on.
LEMMA StartGateStep ==
  ASSUME Inductive, NEW w \in ProcessWorlds, NEW s \in Timeouts, StartGate(s, w),
         ~aborting, ~sealed, ~gatesCancelled, target' = "gates", accepted',
         pc \in {"fold", "gated"}, passed' \in 0 .. gates, passed' < gates,
         worker.exit = "zero" /\ ~worker.timedOut /\ ~worker.cancelled,
         UNCHANGED <<kind, gates, worker, gatesCancelled, task, attempt, abortVars>>
  PROVE  Inductive'
<1>1. ProcessOK(gate') /\ gate'.state = "running" /\ gate'.ladder = GateLadder /\ pc' = "gate"
  <2>1. s \in Nat /\ w \in Worlds /\ GateLadder \in Ladders
    BY LaddersType, ConstantsType DEF Timeouts
  <2>2. gate' = Spawned(GateLadder, s, w) /\ pc' = "gate"
    BY DEF StartGate
  <2>3. /\ ProcessOK(Spawned(GateLadder, s, w)) /\ Spawned(GateLadder, s, w).state = "running"
        /\ Spawned(GateLadder, s, w).ladder = GateLadder
        /\ Spawned(GateLadder, s, w).cancelled = FALSE
    BY <2>1, SpawnedOK
  <2> QED BY <2>2, <2>3
<1>2. task = "running"
  BY DEF Inductive, Result
<1>3. Typed'
  BY <1>1 DEF Inductive, Typed, TypeOK, ProcessOK, abortVars
<1>4. Place'
  BY <1>1 DEF Inductive, Place, abortVars
<1>5. Result'
  BY <1>1, <1>2 DEF Inductive, Result, SuccessIsEarned, Lockstep, abortVars
<1>6. Aborted' /\ Reaped'
  BY <1>1 DEF Inductive, Aborted, Reaped, abortVars
<1> QED BY <1>3, <1>4, <1>5, <1>6 DEF Inductive

LEMMA EnterGatesStep ==
  ASSUME Inductive, NEW w \in ProcessWorlds, NEW s \in Timeouts, EnterGates(s, w)
  PROVE  Inductive'
<1> USE DEF EnterGates, Accept, Finished, Awaited
<1>1. CASE aborting
  <2>1. Resolves
    BY <1>1 DEF Resolves, Return, abortVars, Inductive, Typed, TypeOK, Result
  <2>2. SuccessIsEarned'
    BY <1>1 DEF Return, SuccessIsEarned, Inductive, Result
  <2> QED BY <2>1, <2>2, ResolvesInductive
<1>2. CASE ~aborting
  <2>1. ~gatesCancelled /\ passed = 0
    BY <1>2 DEF Inductive, Aborted, Result
  <2>2. passed' \in 0 .. gates /\ passed' < gates
    BY <2>1 DEF Inductive, Typed, TypeOK
  <2> QED BY <1>2, <2>1, <2>2, StartGateStep
<1> QED BY <1>1, <1>2

LEMMA NextGateStep ==
  ASSUME Inductive, NEW w \in ProcessWorlds, NEW s \in Timeouts, NextGate(s, w)
  PROVE  Inductive'
<1>1. ~aborting /\ ~sealed /\ pc = "gated" /\ target' = "gates" /\ accepted'
  BY DEF NextGate, taskVars, Inductive, Aborted, Place, Result
<1>2. passed' \in 0 .. gates /\ passed' < gates
  BY DEF NextGate, Inductive, Typed, TypeOK
<1> QED BY <1>1, <1>2, StartGateStep DEF NextGate, taskVars, abortVars, Inductive, Result

-----------------------------------------------------------------------------
(* Steps of a process *)

\* A process may lose members; what is due stays due.
LEMMA EndsBeforeKept ==
  ASSUME NEW p, NEW q, NEW W, NEW n, q.alive \subseteq p.alive, p.timers \subseteq q.timers,
         EndsBefore(p, W, n)
  PROVE  EndsBefore(q, W, n)
  BY DEF EndsBefore

\* The timer that counts expires: nobody is left, or its SIGKILL is due at once.
LEMMA EndsBeforeExpired ==
  ASSUME NEW p, ProcessOK(p), NEW t \in Due(p), NEW code \in ExitCodes,
         NEW W \in {{"SIGKILL"}, {"SIGKILL", "timeout"}}, NEW n \in Nat, n > 0,
         "timeout" \in W => <<0, "SIGKILL">> \in p.ladder,
         EndsBefore(p, W, n)
  PROVE  EndsBefore(Expired(p, t, code), W, n)
<1> DEFINE q == Expired(p, t, code)
<1>1. /\ Keeps(p, q) /\ p.timers \ {t} \subseteq q.timers
      /\ t.what \in Signals => \A m \in q.alive : p.obeys[m] > Rank(t.what)
      /\ t.what = "timeout" => \A r \in p.ladder : [left |-> r[1], what |-> r[2]] \in q.timers
  BY ExpiredOK
<1> SUFFICES EndsBefore(q, W, n)
  OBVIOUS
<1> HIDE DEF q
<1>2. CASE p.alive = {}
  BY <1>1, <1>2 DEF EndsBefore, Keeps
<1>3. CASE \E u \in p.timers \ {t} : u.what \in W /\ u.left < n
  BY <1>1, <1>3 DEF EndsBefore
<1>4. CASE t.what = "SIGKILL"
  <2>1. \A m \in q.alive : p.obeys[m] \in 1 .. 3 /\ p.obeys[m] > 3
    BY <1>1, <1>4 DEF Signals, Rank, Keeps, ProcessOK, Processes
  <2>2. q.alive = {}
    BY <2>1
  <2> QED BY <2>2 DEF EndsBefore
<1>5. CASE t.what = "timeout" /\ "timeout" \in W
  <2> DEFINE kill == [left |-> 0, what |-> "SIGKILL"]
  <2>1. kill \in q.timers
    BY <1>1, <1>5
  <2>2. kill.what \in W /\ kill.left < n
    OBVIOUS
  <2> QED BY <2>1, <2>2 DEF EndsBefore
<1> QED BY <1>2, <1>3, <1>4, <1>5 DEF EndsBefore

\* A second passes for a process somebody of which is alive.
LEMMA EndsBeforeSecond ==
  ASSUME NEW p, ProcessOK(p), Idle(p), p.state = "running", NEW W, NEW n \in Nat,
         EndsBefore(p, W, n)
  PROVE  n > 1 /\ EndsBefore(OneSecondLater(p), W, n - 1)
<1>1. p.alive # {}
  BY DEF Idle, Closable
<1>2. PICK t \in p.timers : t.what \in W /\ t.left < n
  BY <1>1 DEF EndsBefore
<1>3. t.left \in Nat /\ t.left # 0
  BY DEF Idle, Due, ProcessOK, Processes, Timers
<1> DEFINE u == [left |-> t.left - 1, what |-> t.what]
<1>4. u \in OneSecondLater(p).timers
  BY SecondOK
<1>5. u.what \in W /\ u.left < n - 1
  BY <1>2, <1>3
<1> QED BY <1>2, <1>3, <1>4, <1>5 DEF EndsBefore

\* A cancel that the ladder answers with SIGKILL in r seconds
LEMMA EndsBeforeCancelled ==
  ASSUME NEW p, ProcessOK(p), p.state = "running", NEW r \in p.ladder, NEW n, r[1] < n
  PROVE  EndsBefore(Cancelled(p), {r[2]}, n)
<1> DEFINE u == [left |-> r[1], what |-> r[2]]
<1>1. u \in Cancelled(p).timers
  BY CancelledOK
<1>2. u.what \in {r[2]} /\ u.left < n
  OBVIOUS
<1> QED BY <1>1, <1>2 DEF EndsBefore

-----------------------------------------------------------------------------
(* The worker and the gate at work *)

\* A callback on the worker that leaves it running, or as it was.
LEMMA WorkerMoves ==
  ASSUME Inductive, NEW p, WorkerStep(p), pc' = pc, ProcessOK(p), Keeps(worker, p),
         worker.state = "running",
         pc = "probe" => \A n \in Nat : n > 0 /\ EndsBefore(worker, {"SIGKILL", "timeout"}, n)
                           => EndsBefore(p, {"SIGKILL", "timeout"}, n),
         \A n \in Nat : n > 0 /\ EndsBefore(worker, {"SIGKILL"}, n) => EndsBefore(p, {"SIGKILL"}, n),
         \A u \in worker.timers : u.what = "SIGTERM" /\ u \notin p.timers =>
           \A m \in p.alive : worker.obeys[m] = 3
  PROVE  Inductive'
<1> USE DEF WorkerStep, gateVars, taskVars, abortVars
<1>1. pc \in {"probe", "work"} /\ p.state = "running"
  BY DEF Inductive, Place, Keeps
<1>2. Typed'
  <2>1. p \in Processes
    BY DEF ProcessOK
  <2> QED BY <2>1 DEF Inductive, Typed, TypeOK
<1>3. Place'
  BY <1>1 DEF Inductive, Place, Keeps
<1>4. Result'
  BY <1>1 DEF Inductive, Result, SuccessIsEarned, Lockstep, Aborted
<1>5. Aborted'
  BY DEF Inductive, Aborted, Keeps
<1>6. Reaped'
  <2>1. abortLeft \in Nat /\ ProbeTimeout + 1 \in Nat /\ ProbeTimeout + 1 > 0
    BY DEF Inductive, Typed, TypeOK, ProbeTimeout, AbortGrace
  <2>2. p.ladder = worker.ladder /\ p.obeys = worker.obeys /\ p.alive \subseteq worker.alive
    BY DEF Keeps
  <2> QED BY <1>1, <2>1, <2>2 DEF Inductive, Reaped
<1> QED BY <1>2, <1>3, <1>4, <1>5, <1>6 DEF Inductive

LEMMA WorkerEndsStep ==
  ASSUME Inductive, WorkerHelperEnds \/ \E code \in ExitCodes : WorkerEnds(code)
  PROVE  Inductive'
<1>1. PICK p : /\ WorkerStep(p) /\ pc' = pc /\ worker.state = "running"
               /\ ProcessOK(p) /\ Keeps(worker, p) /\ p.timers = worker.timers
  <2>1. ProcessOK(worker)
    BY DEF Inductive, Typed
  <2> QED BY <2>1, EndedOK, HelperEndedOK DEF WorkerEnds, WorkerHelperEnds
<1>2. \A W, n : EndsBefore(worker, W, n) => EndsBefore(p, W, n)
  BY <1>1, EndsBeforeKept DEF Keeps
<1> QED BY <1>1, <1>2, WorkerMoves

LEMMA WorkerTimerStep ==
  ASSUME Inductive, NEW t, NEW code \in ExitCodes, WorkerTimer(t, code)
  PROVE  Inductive'
<1> DEFINE p == Expired(worker, t, code)
<1>1. ProcessOK(worker) /\ t \in Due(worker) /\ WorkerStep(p) /\ pc' = pc
  BY DEF WorkerTimer, Inductive, Typed
<1>2. worker.state = "running" /\ t \in worker.timers
  BY <1>1 DEF ProcessOK, Due
<1>3. /\ ProcessOK(p) /\ Keeps(worker, p) /\ worker.timers \ {t} \subseteq p.timers
      /\ t.what \in Signals => \A m \in p.alive : worker.obeys[m] > Rank(t.what)
  BY <1>1, ExpiredOK
<1>4. \A n \in Nat : n > 0 /\ EndsBefore(worker, {"SIGKILL"}, n) => EndsBefore(p, {"SIGKILL"}, n)
  <2>1. "timeout" \notin {"SIGKILL"}
    OBVIOUS
  <2> QED BY <1>1, <2>1, EndsBeforeExpired
<1>5. pc = "probe" => \A n \in Nat : n > 0 /\ EndsBefore(worker, {"SIGKILL", "timeout"}, n)
                       => EndsBefore(p, {"SIGKILL", "timeout"}, n)
  <2>1. pc = "probe" => <<0, "SIGKILL">> \in worker.ladder
    BY DEF Inductive, Reaped, ProbeLadder
  <2> QED BY <1>1, <2>1, EndsBeforeExpired
<1>6. \A u \in worker.timers : u.what = "SIGTERM" /\ u \notin p.timers =>
        \A m \in p.alive : worker.obeys[m] = 3
  <2> SUFFICES ASSUME t.what = "SIGTERM", NEW m \in p.alive PROVE worker.obeys[m] = 3
    BY <1>3
  <2>1. worker.obeys[m] > 2 /\ worker.obeys[m] \in 1 .. 3
    BY <1>1, <1>3 DEF Signals, Rank, Keeps, ProcessOK, Processes
  <2> QED BY <2>1
<1> HIDE DEF p
<1> QED BY <1>1, <1>2, <1>3, <1>4, <1>5, <1>6, WorkerMoves

LEMMA WorkerSettlesStep == ASSUME Inductive, WorkerSettles PROVE Inductive'
<1> USE DEF gateVars, taskVars, abortVars
<1>1. /\ ProcessOK(worker') /\ worker'.state = "settled" /\ worker'.cancelled = worker.cancelled
      /\ worker.state = "running"
  BY SettledOK DEF WorkerSettles, WorkerStep, Inductive, Typed, Closable
<1>2. /\ UNCHANGED <<kind, gates, target, gate, gatesCancelled, passed, task, attempt, accepted,
                     aborting, sealed, abortAs, abortLeft>>
      /\ pc \in {"probe", "work"} /\ pc' = IF pc = "probe" THEN "probed" ELSE "fold"
  BY <1>1 DEF WorkerSettles, WorkerStep, Inductive, Place
<1>3. Typed'
  BY <1>1, <1>2 DEF Inductive, Typed, TypeOK, ProcessOK
<1>4. Place'
  BY <1>1, <1>2 DEF Inductive, Place
<1>5. Result'
  BY <1>2 DEF Inductive, Result, SuccessIsEarned, Lockstep, Aborted
<1>6. Aborted' /\ Reaped'
  BY <1>1, <1>2 DEF Inductive, Aborted, Reaped
<1> QED BY <1>3, <1>4, <1>5, <1>6 DEF Inductive

\* A callback on the gate that leaves it running, or as it was.
LEMMA GateMoves ==
  ASSUME Inductive, NEW p, GateStep(p), pc' = pc, ProcessOK(p), Keeps(gate, p),
         gate.state = "running",
         \A n \in Nat : n > 0 /\ EndsBefore(gate, {"SIGKILL"}, n) => EndsBefore(p, {"SIGKILL"}, n)
  PROVE  Inductive'
<1> USE DEF GateStep, taskVars, abortVars
<1>1. pc = "gate" /\ p.state = "running"
  BY DEF Inductive, Place, Keeps
<1>2. Typed'
  <2>1. p \in Processes
    BY DEF ProcessOK
  <2> QED BY <2>1 DEF Inductive, Typed, TypeOK
<1>3. Place'
  BY <1>1 DEF Inductive, Place, Keeps
<1>4. Result'
  BY <1>1 DEF Inductive, Result, SuccessIsEarned, Lockstep, Aborted
<1>5. Aborted'
  BY DEF Inductive, Aborted, Keeps
<1>6. Reaped'
  <2>1. abortLeft \in Nat
    BY DEF Inductive, Typed, TypeOK, AbortGrace
  <2>2. p.ladder = gate.ladder
    BY DEF Keeps
  <2> QED BY <1>1, <2>1, <2>2 DEF Inductive, Reaped
<1> QED BY <1>2, <1>3, <1>4, <1>5, <1>6 DEF Inductive

LEMMA GateEndsStep ==
  ASSUME Inductive, GateHelperEnds \/ \E code \in ExitCodes : GateEnds(code)
  PROVE  Inductive'
<1>1. PICK p : /\ GateStep(p) /\ pc' = pc /\ gate.state = "running"
               /\ ProcessOK(p) /\ Keeps(gate, p) /\ p.timers = gate.timers
  <2>1. ProcessOK(gate)
    BY DEF Inductive, Typed
  <2> QED BY <2>1, EndedOK, HelperEndedOK DEF GateEnds, GateHelperEnds
<1>2. \A W, n : EndsBefore(gate, W, n) => EndsBefore(p, W, n)
  BY <1>1, EndsBeforeKept DEF Keeps
<1> QED BY <1>1, <1>2, GateMoves

LEMMA GateTimerStep ==
  ASSUME Inductive, NEW t, NEW code \in ExitCodes, GateTimer(t, code)
  PROVE  Inductive'
<1> DEFINE p == Expired(gate, t, code)
<1>1. ProcessOK(gate) /\ t \in Due(gate) /\ GateStep(p) /\ pc' = pc
  BY DEF GateTimer, Inductive, Typed
<1>2. gate.state = "running"
  BY <1>1 DEF ProcessOK, Due
<1>3. ProcessOK(p) /\ Keeps(gate, p)
  BY <1>1, ExpiredOK
<1>4. \A n \in Nat : n > 0 /\ EndsBefore(gate, {"SIGKILL"}, n) => EndsBefore(p, {"SIGKILL"}, n)
  <2>1. "timeout" \notin {"SIGKILL"}
    OBVIOUS
  <2> QED BY <1>1, <2>1, EndsBeforeExpired
<1> HIDE DEF p
<1> QED BY <1>1, <1>2, <1>3, <1>4, GateMoves

LEMMA GateSettlesStep == ASSUME Inductive, GateSettles PROVE Inductive'
<1> USE DEF taskVars, abortVars
<1>1. ProcessOK(gate') /\ gate'.state = "settled" /\ gate.state = "running"
  BY SettledOK DEF GateSettles, GateStep, Inductive, Typed, Closable
<1>2. /\ UNCHANGED <<kind, gates, worker, target, gatesCancelled, passed, task, attempt, accepted,
                     aborting, sealed, abortAs, abortLeft>>
      /\ pc = "gate" /\ pc' = "gated"
  BY <1>1 DEF GateSettles, GateStep, Inductive, Place
<1>3. Typed'
  BY <1>1, <1>2 DEF Inductive, Typed, TypeOK, ProcessOK
<1>4. Place'
  BY <1>1, <1>2 DEF Inductive, Place
<1>5. Result'
  BY <1>2 DEF Inductive, Result, SuccessIsEarned, Lockstep
<1>6. Aborted' /\ Reaped'
  BY <1>1, <1>2 DEF Inductive, Aborted, Reaped
<1> QED BY <1>3, <1>4, <1>5, <1>6 DEF Inductive

\* A second passes: every timer and the abort's grace are one second nearer.
LEMMA TickStep == ASSUME Inductive, Tick PROVE Inductive'
<1> USE DEF taskVars
<1>1. /\ ProcessOK(worker) /\ ProcessOK(gate) /\ Idle(worker) /\ Idle(gate)
      /\ worker' = OneSecondLater(worker) /\ gate' = OneSecondLater(gate)
      /\ abortLeft \in 0 .. AbortGrace /\ pc \in {"probe", "work", "gate"}
      /\ abortLeft' = IF abortLeft > 0 THEN abortLeft - 1 ELSE 0
      /\ UNCHANGED <<kind, gates, pc, target, gatesCancelled, passed, task, attempt, accepted,
                     aborting, sealed, abortAs>>
  BY DEF Tick, Waiting, Inductive, Typed, TypeOK
<1>2. /\ ProcessOK(worker') /\ Keeps(worker, worker')
      /\ ProcessOK(gate') /\ Keeps(gate, gate')
      /\ \A t \in worker.timers : [left |-> t.left - 1, what |-> t.what] \in worker'.timers
  BY <1>1, SecondOK
<1>3. worker'.exit = worker.exit /\ worker'.timedOut = worker.timedOut
  BY <1>1 DEF OneSecondLater, ProcessOK, Processes
<1>4. Typed'
  <2>1. abortLeft' \in 0 .. AbortGrace
    BY <1>1 DEF AbortGrace
  <2>2. worker' \in Processes /\ gate' \in Processes
    BY <1>2 DEF ProcessOK
  <2> QED BY <1>1, <1>2, <2>1, <2>2 DEF Inductive, Typed, TypeOK
<1>5. Place'
  BY <1>1, <1>2 DEF Inductive, Place, Keeps
<1>6. Result'
  BY <1>1, <1>2, <1>3 DEF Inductive, Result, SuccessIsEarned, Lockstep, Keeps
<1>7. Aborted'
  BY <1>1, <1>2 DEF Inductive, Aborted, Keeps
<1>8. Reaped'
  <2>1. ASSUME NEW W, NEW n \in Nat, worker.state = "running", EndsBefore(worker, W, n)
        PROVE  n > 1 /\ EndsBefore(worker', W, n - 1)
    BY <1>1, <2>1, EndsBeforeSecond
  <2>2. ASSUME NEW W, NEW n \in Nat, gate.state = "running", EndsBefore(gate, W, n)
        PROVE  n > 1 /\ EndsBefore(gate', W, n - 1)
    BY <1>1, <2>2, EndsBeforeSecond
  <2>3. abortLeft \in Nat /\ (abortLeft > 1 => abortLeft' = abortLeft - 1 /\ abortLeft' > 0)
    BY <1>1 DEF AbortGrace
  <2>4. CASE pc = "gate"
    BY <1>1, <1>2, <2>2, <2>3, <2>4 DEF Inductive, Place, Reaped, Keeps
  <2>5. CASE pc = "probe"
    <3>1. EndsBefore(worker', {"SIGKILL", "timeout"}, ProbeTimeout)
      BY <2>1, <2>5 DEF Inductive, Place, Reaped, ProbeTimeout
    <3>2. EndsBefore(worker', {"SIGKILL", "timeout"}, ProbeTimeout + 1)
      BY <1>2, <3>1 DEF EndsBefore, ProbeTimeout, ProcessOK, Processes, Timers
    <3> QED BY <1>1, <1>2, <2>1, <2>3, <2>5, <3>2 DEF Inductive, Place, Reaped, Keeps
  <2>6. CASE pc = "work" /\ kind # "acp"
    BY <1>1, <1>2, <2>1, <2>3, <2>6 DEF Inductive, Place, Reaped, Keeps
  <2>7. CASE pc = "work" /\ kind = "acp"
    <3>1. ASSUME NEW t \in worker.timers, t.what = "SIGTERM", t.left < abortLeft
          PROVE  \E u \in worker'.timers : u.what = "SIGTERM" /\ u.left < abortLeft'
      <4> DEFINE u == [left |-> t.left - 1, what |-> t.what]
      <4>1. t.left \in Nat /\ t.left # 0
        BY <1>1 DEF Idle, Due, ProcessOK, Processes, Timers
      <4>2. u \in worker'.timers
        BY <1>2
      <4>3. u.what = "SIGTERM" /\ u.left < abortLeft'
        BY <1>1, <2>3, <3>1, <4>1
      <4> QED BY <4>2, <4>3
    <3> QED BY <1>1, <1>2, <2>7, <3>1 DEF Inductive, Reaped, Keeps
  <2> QED BY <1>1, <2>4, <2>5, <2>6, <2>7
<1> QED BY <1>4, <1>5, <1>6, <1>7, <1>8 DEF Inductive

-----------------------------------------------------------------------------
(* The abort *)

LEMMA BeginAbortStep ==
  ASSUME Inductive, NEW status \in {"failed", "cancelled"}, BeginAbort(status)
  PROVE  Inductive'
<1> USE DEF taskVars
<1>1. /\ ProcessOK(worker) /\ ProcessOK(gate) /\ ~aborting /\ ~sealed
      /\ pc \notin {"start", "done"}
      /\ aborting' = TRUE /\ abortAs' = status /\ abortLeft' = 8
      /\ worker' = IF target = "worker" THEN Cancelled(worker) ELSE worker
      /\ gatesCancelled' = (target = "gates")
      /\ gate' = IF target = "gates" THEN Cancelled(gate) ELSE gate
      /\ UNCHANGED <<kind, gates, pc, target, passed, task, attempt, accepted, sealed>>
  BY DEF BeginAbort, AbortGrace, Inductive, Typed, Aborted
<1>2. ProcessOK(worker') /\ ProcessOK(gate')
  BY <1>1, CancelledOK
<1>3. Typed'
  <2>1. worker' \in Processes /\ gate' \in Processes
    BY <1>2 DEF ProcessOK
  <2> QED BY <1>1, <1>2, <2>1 DEF Inductive, Typed, TypeOK, AbortGrace
<1>4. worker'.state = worker.state /\ gate'.state = gate.state
  BY <1>1, CancelledOK DEF ProcessOK, Processes
<1>5. Place'
  BY <1>1, <1>4 DEF Inductive, Place
<1>6. Result'
  BY <1>1 DEF Inductive, Result, Place, SuccessIsEarned, Lockstep
<1>7. Aborted'
  BY <1>1 DEF Inductive, Aborted, Place
<1>8. Reaped'
  <2>1. CASE pc = "gate"
    <3>1. gate.state = "running" /\ gate' = Cancelled(gate) /\ gate.ladder = GateLadder
      BY <1>1, <2>1 DEF Inductive, Place, Reaped
    <3>2. <<3, "SIGKILL">> \in gate.ladder /\ gate'.ladder = GateLadder
      BY <1>1, <3>1, CancelledOK DEF GateLadder
    <3>3. EndsBefore(gate', {"SIGKILL"}, 8)
      BY <1>1, <3>1, <3>2, EndsBeforeCancelled
    <3> QED BY <1>1, <2>1, <3>2, <3>3 DEF Reaped
  <2>2. CASE pc = "probe"
    <3>1. worker' = worker /\ ProbeTimeout + 1 < 8
      BY <1>1, <2>2 DEF Inductive, Place, ProbeTimeout
    <3>2. EndsBefore(worker, {"SIGKILL", "timeout"}, 8)
      BY <1>1, <2>2, <3>1 DEF Inductive, Reaped, EndsBefore, ProbeTimeout, ProcessOK, Processes, Timers
    <3> QED BY <1>1, <2>2, <3>1, <3>2 DEF Inductive, Reaped
  <2>3. CASE pc = "work"
    <3>1. /\ worker.state = "running" /\ worker' = Cancelled(worker)
          /\ worker.ladder = WorkerLadder(kind) /\ worker'.ladder = WorkerLadder(kind)
      BY <1>1, <2>3, CancelledOK DEF Inductive, Place, Reaped
    <3>2. CASE kind # "acp"
      <4>1. <<6, "SIGKILL">> \in worker.ladder
        BY <3>1, <3>2 DEF WorkerLadder, NdjsonLadder
      <4>2. EndsBefore(worker', {"SIGKILL"}, 8)
        BY <1>1, <3>1, <4>1, EndsBeforeCancelled
      <4> QED BY <1>1, <2>3, <3>1, <3>2, <4>2 DEF Reaped
    <3>3. CASE kind = "acp"
      <4>1. <<3, "SIGTERM">> \in NdjsonLadder
        BY DEF NdjsonLadder
      <4>2. <<5, "SIGTERM">> \in worker.ladder
        BY <3>1, <3>3, <4>1 DEF WorkerLadder, AcpLadder
      <4> DEFINE u == [left |-> 5, what |-> "SIGTERM"]
      <4>3. u \in worker'.timers
        BY <1>1, <3>1, <4>2, CancelledOK
      <4>4. u.what = "SIGTERM" /\ u.left < abortLeft'
        BY <1>1
      <4> QED BY <1>1, <2>3, <3>1, <3>3, <4>3, <4>4 DEF Reaped
    <3> QED BY <3>2, <3>3
  <2> QED BY <1>1, <2>1, <2>2, <2>3 DEF Reaped
<1> QED BY <1>3, <1>5, <1>6, <1>7, <1>8 DEF Inductive

LEMMA SealStep == ASSUME Inductive, SealAttempt PROVE Inductive'
<1> USE DEF gateVars
<1>1. /\ aborting /\ ~sealed /\ sealed' = TRUE
      /\ pc = "done" \/ (pc = "work" /\ kind = "acp" /\ abortLeft = 0)
      /\ task' = IF task = "running" THEN abortAs ELSE task
      /\ attempt' = IF attempt \in {"created", "running"} THEN abortAs ELSE attempt
      /\ UNCHANGED <<kind, gates, pc, worker, target, gate, gatesCancelled, passed, accepted,
                     aborting, abortAs, abortLeft>>
  BY DEF SealAttempt, Waiting, Inductive, Reaped
<1>2. abortAs \in {"failed", "cancelled"}
  BY <1>1 DEF Inductive, Aborted
<1>3. Typed'
  BY <1>1, <1>2 DEF Inductive, Typed, TypeOK, ProcessOK
<1>4. Place' /\ Aborted' /\ Reaped'
  BY <1>1 DEF Inductive, Place, Aborted, Reaped
<1>5. Lockstep'
  BY <1>1, <1>2 DEF Inductive, Result, Lockstep, Typed, TypeOK
<1>6. Result'
  BY <1>1, <1>2, <1>5 DEF Inductive, Result, SuccessIsEarned
<1> QED BY <1>3, <1>4, <1>6 DEF Inductive

-----------------------------------------------------------------------------
LEMMA InductiveStep == ASSUME Inductive, [Next]_vars PROVE Inductive'
<1>1. CASE Start
  BY <1>1, StartProbeStep, StartWorkerStep, LocalStep DEF Start
<1>2. CASE Continue
  BY <1>2, ProbeAnsweredStep, EnterGatesStep, NextGateStep, ThrowsStep, FoldStep, GatesEndStep
     DEF Continue
<1>3. CASE Callbacks
  BY <1>3, WorkerSettlesStep, GateSettlesStep, TickStep, SealStep, WorkerTimerStep, GateTimerStep
     DEF Callbacks
<1>4. CASE Environment
  BY <1>4, WorkerEndsStep, GateEndsStep, BeginAbortStep DEF Environment
<1>5. CASE UNCHANGED vars
  BY <1>5 DEF vars, Inductive, Typed, TypeOK, Place, Result, Aborted, Reaped, SuccessIsEarned, Lockstep
<1> QED BY <1>1, <1>2, <1>3, <1>4, <1>5 DEF Next

LEMMA InductiveAlways == Spec => []Inductive
  BY InitInductive, InductiveStep, PTL DEF Spec

-----------------------------------------------------------------------------
(* The theorems *)

\* Every attempt is well typed, its processes included.
THEOREM TypeCorrect == Spec => []TypeOK
<1>1. Inductive => TypeOK
  BY DEF Inductive, Typed
<1> QED BY <1>1, InductiveAlways, PTL

\* The status of the attempt and of its task stay in lockstep, across every
\* executor, every end and every abort.
THEOREM InLockstep == Spec => []Lockstep
<1>1. Inductive => Lockstep
  BY DEF Inductive, Result
<1> QED BY <1>1, InductiveAlways, PTL

\* No signal is ever sent to a process group that is gone.
THEOREM NoSignalStrays == Spec => []NoStraySignal
<1>1. Inductive => NoStraySignal
  BY DEF Inductive, Typed, ProcessOK, NoStraySignal
<1> QED BY <1>1, InductiveAlways, PTL

\* A success is earned: accepted, on the word of a worker nobody stopped, with
\* every gate passed.
THEOREM SuccessEarned == Spec => []SuccessIsEarned
<1>1. Inductive => SuccessIsEarned
  BY DEF Inductive, Result
<1> QED BY <1>1, InductiveAlways, PTL

\* When the run is sealed its processes are gone, but for an acp worker that
\* ignores both SIGINT and SIGTERM.
THEOREM AllDieWithTheRun == Spec => []DiesWithTheRun
<1>1. Inductive => DiesWithTheRun
  <2> SUFFICES ASSUME Inductive, sealed
               PROVE  gate.alive = {} /\ (worker.alive = {} \/ (kind = "acp" /\ Stubborn(worker)))
    BY DEF DiesWithTheRun
  <2>1. aborting /\ pc \notin {"start", "probe", "probed", "gate", "gated"}
    BY DEF Inductive, Aborted
  <2>2. gate.alive = {}
    BY <2>1 DEF Inductive, Place, Typed, ProcessOK
  <2>3. CASE pc # "work"
    BY <2>1, <2>2, <2>3 DEF Inductive, Place, Typed, ProcessOK
  <2>4. CASE pc = "work"
    <3>1. kind = "acp" /\ abortLeft = 0
      BY <2>4 DEF Inductive, Aborted
    <3>2. \A t \in worker.timers : ~(t.left < abortLeft)
      BY <3>1 DEF Inductive, Typed, ProcessOK, Processes, Timers
    <3>3. \A m \in worker.alive : worker.obeys[m] = 3
      BY <2>1, <2>4, <3>1, <3>2 DEF Inductive, Reaped
    <3> QED BY <2>2, <3>1, <3>3 DEF Stubborn
  <2> QED BY <2>3, <2>4
<1> QED BY <1>1, InductiveAlways, PTL

\* No worker and no gate is started once the abort has begun.
THEOREM NoStartInAbort == Spec => NothingStartsInAbort
<1> DEFINE Holds == aborting =>
             /\ gate'.state = "running" => gate.state = "running"
             /\ pc' = "work" => pc = "work"
<1>1. Inductive /\ Inductive' /\ [Next]_vars => [Holds]_vars
  <2> SUFFICES ASSUME Inductive, Inductive', Next, aborting, pc' # pc
               PROVE  pc' \notin {"gate", "work"}
    BY DEF Inductive, Place, vars
  <2>1. CASE Start
    BY <2>1 DEF Start, StartProbe, StartWorker, RunLocalAttempt, Inductive, Aborted
  <2>2. CASE Continue
    BY <2>2 DEF Continue, ProbeAnswered, EnterGates, NextGate, Accept, Finished, Awaited,
       ExecutorThrows, DropSealed, FoldCancelled, FoldTimedOut, FoldWorkerFailed, QuarantineOutput,
       AcceptFailure, AcceptSuccess, GatesPassed, GatesStopped, Finish, Return, Inductive, Aborted
  <2>3. CASE Callbacks
    BY <2>3 DEF Callbacks, WorkerSettles, GateSettles, Tick, SealAttempt, WorkerTimer, GateTimer
  <2>4. CASE Environment
    BY <2>4 DEF Environment, WorkerEnds, GateEnds, WorkerHelperEnds, GateHelperEnds, BeginAbort
  <2> QED BY <2>1, <2>2, <2>3, <2>4 DEF Next
<1> QED BY <1>1, InductiveAlways, PTL DEF Spec, NothingStartsInAbort

\* What a step does to the task, the attempt and the result: one outcome, from
\* the promise or from the abort.
LEMMA OutcomeStep ==
  ASSUME Inductive, Next
  PROVE  /\ task # "running" => UNCHANGED <<task, attempt>>
         /\ sealed => UNCHANGED taskVars
<1>1. task # "running" => pc = "done" \/ sealed
  BY DEF Inductive, Result
<1>2. sealed => pc \notin {"start", "probe", "probed", "gate", "gated"}
  BY DEF Inductive, Aborted
<1>3. CASE Start
  BY <1>1, <1>2, <1>3 DEF Start, StartProbe, StartWorker, RunLocalAttempt
<1>4. CASE Continue
  BY <1>1, <1>2, <1>4 DEF Continue, ProbeAnswered, EnterGates, NextGate, Accept, Finished, Awaited,
     ExecutorThrows, DropSealed, FoldCancelled, FoldTimedOut, FoldWorkerFailed, QuarantineOutput,
     AcceptFailure, AcceptSuccess, GatesPassed, GatesStopped, Return, taskVars
<1>5. CASE Callbacks
  BY <1>5 DEF Callbacks, WorkerSettles, GateSettles, Tick, SealAttempt, WorkerTimer, GateTimer,
     WorkerStep, GateStep, taskVars, Inductive, Result, Lockstep, Typed, TypeOK
<1>6. CASE Environment
  BY <1>6 DEF Environment, WorkerEnds, GateEnds, WorkerHelperEnds, GateHelperEnds, BeginAbort,
     WorkerStep, GateStep, taskVars
<1> QED BY <1>3, <1>4, <1>5, <1>6 DEF Next

\* A sealed run is not written to any more, and an outcome is final.
THEOREM OutcomeIsFinal == Spec => OneOutcome
<1> DEFINE Holds == (task # "running" => UNCHANGED <<task, attempt>>) /\ (sealed => UNCHANGED taskVars)
<1>1. Inductive /\ [Next]_vars => [Holds]_vars
  BY OutcomeStep
<1> QED BY <1>1, InductiveAlways, PTL DEF Spec, OneOutcome

-----------------------------------------------------------------------------
(* The attempt implements TaskOutcome *)

Outcomes == {"succeeded", "failed", "schema_violation", "timed_out", "gate_failed"}

\* A promise that settles in a run that is not sealed settles as Scheduler
\* assumes; one that settles late writes nothing.
LEMMA SettlesAsAssumed ==
  ASSUME Inductive, Next, pc # "done", pc' = "done"
  PROVE  /\ UNCHANGED <<aborting, sealed>>
         /\ sealed => UNCHANGED task /\ ~accepted'
         /\ ~sealed =>
              /\ task' \in Outcomes \/ (aborting /\ task' \in {"cancelled", "running"})
              /\ task' \in {"succeeded", "gate_failed"} => accepted'
              /\ task' \in {"schema_violation", "timed_out"} => ~accepted'
<1>1. /\ pc \in {"gate", "gated"} => accepted
      /\ pc \in {"start", "probe", "probed", "work", "fold"} => ~accepted
      /\ ~sealed => task = "running"
      /\ sealed => pc \notin {"start", "probe", "probed", "gate", "gated"}
      /\ worker.cancelled \/ gatesCancelled => aborting
      /\ pc \in {"start", "probe", "probed", "work", "fold", "gate", "gated"}
  BY DEF Inductive, Result, Aborted, Typed, TypeOK
<1>2. CASE Start
  BY <1>1, <1>2 DEF Start, StartProbe, StartWorker, SpawnWorker, RunLocalAttempt, Finish, abortVars,
     Outcomes
<1>3. CASE Continue
  <2>1. CASE \E w \in ProcessWorlds, s \in Timeouts :
               ProbeAnswered(s, w) \/ EnterGates(s, w) \/ NextGate(s, w)
    BY <1>1, <2>1 DEF ProbeAnswered, SpawnWorker, EnterGates, NextGate, StartGate, Accept, Finished,
       Awaited, Return, abortVars
  <2>2. CASE ExecutorThrows \/ GatesPassed \/ GatesStopped
    BY <1>1, <2>2 DEF ExecutorThrows, GatesPassed, GatesStopped, Finish, Return, abortVars, Outcomes
  <2>3. CASE DropSealed \/ FoldCancelled \/ FoldTimedOut \/ FoldWorkerFailed
    BY <1>1, <2>3 DEF DropSealed, FoldCancelled, FoldTimedOut, FoldWorkerFailed, Finished, Awaited,
       Finish, Return, abortVars, Outcomes
  <2>4. CASE QuarantineOutput \/ AcceptFailure \/ AcceptSuccess
    BY <1>1, <2>4 DEF QuarantineOutput, AcceptFailure, AcceptSuccess, Accept, Finished, Awaited,
       Finish, abortVars, Outcomes
  <2> QED BY <1>3, <2>1, <2>2, <2>3, <2>4 DEF Continue
<1>4. CASE Callbacks
  BY <1>4 DEF Callbacks, WorkerSettles, GateSettles, Tick, SealAttempt, WorkerTimer, GateTimer
<1>5. CASE Environment
  BY <1>5 DEF Environment, WorkerEnds, GateEnds, WorkerHelperEnds, GateHelperEnds, BeginAbort
<1> QED BY <1>2, <1>3, <1>4, <1>5 DEF Next

\* Any other step starts the abort, seals the run, or is none of the
\* orchestrator's business.
LEMMA OtherStepsStutter ==
  ASSUME Inductive, Next, pc = "done" \/ pc' # "done"
  PROVE  /\ pc = "done" => pc' = "done"
         /\ \/ UNCHANGED <<task, accepted, aborting, sealed>>
            \/ pc # "done" /\ UNCHANGED <<task, aborting, sealed>>
            \/ pc # "done" /\ ~aborting /\ aborting' = TRUE /\ UNCHANGED <<task, accepted, sealed>>
            \/ /\ aborting /\ ~sealed /\ sealed' = TRUE /\ UNCHANGED <<accepted, aborting>>
               /\ abortAs \in {"failed", "cancelled"}
               /\ task' = IF task = "running" THEN abortAs ELSE task
<1>1. CASE Start
  BY <1>1 DEF Start, StartProbe, StartWorker, SpawnWorker, RunLocalAttempt, Finish, abortVars, taskVars
<1>2. CASE Continue
  BY <1>2 DEF Continue, ProbeAnswered, SpawnWorker, EnterGates, NextGate, StartGate, Accept, Finished,
     Awaited, ExecutorThrows, DropSealed, FoldCancelled, FoldTimedOut, FoldWorkerFailed,
     QuarantineOutput, AcceptFailure, AcceptSuccess, GatesPassed, GatesStopped, Finish, Return,
     abortVars, taskVars
<1>3. CASE Callbacks
  <2>1. CASE SealAttempt
    BY <2>1 DEF SealAttempt, Inductive, Aborted
  <2>2. CASE WorkerSettles \/ GateSettles
    BY <2>2 DEF WorkerSettles, GateSettles, WorkerStep, GateStep, Closable, abortVars, taskVars,
       Inductive, Place
  <2>3. CASE Tick \/ \E code \in ExitCodes : \/ \E t \in worker.timers : WorkerTimer(t, code)
                                           \/ \E t \in gate.timers : GateTimer(t, code)
    BY <2>3 DEF Tick, WorkerTimer, GateTimer, WorkerStep, GateStep, abortVars, taskVars
  <2> QED BY <1>3, <2>1, <2>2, <2>3 DEF Callbacks
<1>4. CASE Environment
  BY <1>4 DEF Environment, WorkerEnds, GateEnds, WorkerHelperEnds, GateHelperEnds, BeginAbort,
     WorkerStep, GateStep, abortVars, taskVars
<1> QED BY <1>1, <1>2, <1>3, <1>4 DEF Next

\* The attempt does to its task what Scheduler assumes of it, in every
\* interleaving with the abort.
THEOREM RefinesTaskOutcome == Spec => Outcome!Spec
<1>1. Init => Outcome!Init
  BY DEF Init, Outcome!Init
<1>2. Inductive /\ [Next]_vars => [Outcome!Next]_Outcome!vars
  <2>1. CASE UNCHANGED vars
    BY <2>1 DEF vars, Outcome!vars
  <2>2. ASSUME Inductive, Next, pc # "done", pc' = "done" PROVE Outcome!Next
    <3>1. CASE sealed
      BY <2>2, <3>1, SettlesAsAssumed DEF Outcome!Next, Outcome!SettleSome, Outcome!SettleSealed
    <3>2. CASE ~sealed
      <4>1. accepted' \in BOOLEAN /\ ((accepted /\ pc = "done")' <=> accepted')
        BY <2>2, InductiveStep DEF Inductive, Typed, TypeOK
      <4>2. (accepted /\ pc = "done")' \in Outcome!AcceptedAfter(task')
        BY <2>2, <3>2, <4>1, SettlesAsAssumed DEF Outcome!AcceptedAfter
      <4>3. Outcome!Settle(task')
        BY <2>2, <3>2, <4>2, SettlesAsAssumed DEF Outcome!Settle, Outcomes
      <4>4. task' \in Outcomes \cup {"cancelled", "running"}
        BY <2>2, <3>2, SettlesAsAssumed
      <4> QED BY <4>3, <4>4 DEF Outcome!Next, Outcome!SettleSome, Outcomes
    <3> QED BY <3>1, <3>2
  <2>3. ASSUME Inductive, Next, pc = "done" \/ pc' # "done" PROVE [Outcome!Next]_Outcome!vars
    <3>1. pc = "done" <=> pc' = "done"
      BY <2>3, OtherStepsStutter
    <3>2. CASE UNCHANGED <<task, accepted, aborting, sealed>>
      BY <3>1, <3>2 DEF Outcome!vars
    <3>3. CASE pc # "done" /\ UNCHANGED <<task, aborting, sealed>>
      BY <3>1, <3>3 DEF Outcome!vars
    <3>4. CASE pc # "done" /\ ~aborting /\ aborting' = TRUE /\ UNCHANGED <<task, accepted, sealed>>
      <4>1. Outcome!Abort
        BY <3>1, <3>4 DEF Outcome!Abort
      <4> QED BY <4>1 DEF Outcome!Next
    <3>5. CASE /\ aborting /\ ~sealed /\ sealed' = TRUE /\ UNCHANGED <<accepted, aborting>>
               /\ abortAs \in {"failed", "cancelled"}
               /\ task' = IF task = "running" THEN abortAs ELSE task
      <4>1. Outcome!Seal(abortAs)
        BY <3>1, <3>5 DEF Outcome!Seal
      <4> QED BY <3>5, <4>1 DEF Outcome!Next
    <3> QED BY <2>3, <3>2, <3>3, <3>4, <3>5, OtherStepsStutter
  <2> QED BY <2>1, <2>2, <2>3
<1> QED BY <1>1, <1>2, InductiveAlways, PTL DEF Spec, Outcome!Spec

-----------------------------------------------------------------------------
(* Told to stop, a process is gone in time *)

\* p, which may run for G seconds once told to stop, has its SIGKILL ahead.
InTime(p, G) ==
  p.state = "running" =>
    /\ \E r \in p.ladder : r[2] = "SIGKILL" /\ r[1] <= G
    /\ IF Stopping(p) THEN EndsBefore(p, {"SIGKILL"}, G + 1 - p.age) ELSE p.age = 0

\* From p to q: what StoppableWorker allows, or a stutter
Allowed(p, q, G) ==
  \/ q.state = p.state /\ Stopping(q) = Stopping(p) /\ q.age = p.age
  \/ p.state # "running" /\ q.state = "running" /\ ~Stopping(q) /\ q.age = 0
  \/ p.state = "running" /\ q.state = "running" /\ Stopping(q) /\ q.age = p.age
  \/ p.state = "running" /\ q.state = "settled" /\ Stopping(q) = Stopping(p) /\ q.age = p.age
  \/ /\ p.state = "running" /\ q.state = "running" /\ Stopping(p) /\ Stopping(q)
     /\ p.age < G /\ q.age = p.age + 1

LEMMA SpawnedInTime ==
  ASSUME NEW p, ProcessOK(p), p.state # "running", NEW G,
         NEW ladder \in Ladders, NEW timeout \in Nat, NEW w \in Worlds,
         \E r \in ladder : r[2] = "SIGKILL" /\ r[1] <= G
  PROVE  /\ InTime(Spawned(ladder, timeout, w), G)
         /\ Allowed(p, Spawned(ladder, timeout, w), G)
<1> DEFINE q == Spawned(ladder, timeout, w)
<1>1. q.state = "running" /\ q.ladder = ladder /\ ~Stopping(q) /\ q.age = 0
  BY DEF Spawned, NoProcess, Stopping
<1> HIDE DEF q
<1>2. InTime(q, G) /\ Allowed(p, q, G)
  BY <1>1 DEF InTime, Allowed
<1> QED BY <1>2 DEF q

LEMMA EndedInTime ==
  ASSUME NEW p, ProcessOK(p), NEW G, InTime(p, G), NEW q,
         \/ \E code \in ExitCodes : q = Ended(p, code)
         \/ q = [p EXCEPT !.alive = @ \ {"helper"}]
  PROVE  InTime(q, G) /\ Allowed(p, q, G)
<1>1. /\ q.state = p.state /\ q.ladder = p.ladder /\ q.age = p.age /\ q.timers = p.timers
      /\ Stopping(q) = Stopping(p) /\ q.alive \subseteq p.alive
  BY DEF Ended, Stopping, ProcessOK, Processes
<1>2. \A n : EndsBefore(p, {"SIGKILL"}, n) => EndsBefore(q, {"SIGKILL"}, n)
  BY <1>1, EndsBeforeKept
<1> QED BY <1>1, <1>2 DEF InTime, Allowed

LEMMA ExpiredInTime ==
  ASSUME NEW p, ProcessOK(p), NEW G \in Nat, InTime(p, G), NEW t \in Due(p), NEW code \in ExitCodes
  PROVE  InTime(Expired(p, t, code), G) /\ Allowed(p, Expired(p, t, code), G)
<1> DEFINE q == Expired(p, t, code)
<1>1. /\ p.state = "running" /\ t.left = 0 /\ t.what \in Signals \cup {"timeout"} /\ p.age \in Nat
      /\ t \in p.timers
  BY DEF ProcessOK, Due, Processes
<1>2. /\ ProcessOK(q) /\ Keeps(p, q) /\ p.timers \ {t} \subseteq q.timers
      /\ t.what \in Signals => \A m \in q.alive : p.obeys[m] > Rank(t.what)
      /\ t.what = "timeout" => \A r \in p.ladder : [left |-> r[1], what |-> r[2]] \in q.timers
  BY ExpiredOK
<1>3. q.age = p.age /\ (t.what = "timeout" => q.timedOut)
      /\ (t.what # "timeout" => q.timedOut = p.timedOut)
  BY DEF Expired, Escalated, Signalled, ProcessOK, Processes
<1> HIDE DEF q
<1>4. CASE t.what = "timeout"
  <2>1. Stopping(q) /\ q.state = "running" /\ q.ladder = p.ladder
    BY <1>1, <1>2, <1>3, <1>4 DEF Stopping, Keeps
  <2>2. CASE Stopping(p)
    <3>1. EndsBefore(p, {"SIGKILL"}, G + 1 - p.age)
      BY <1>1, <2>2 DEF InTime
    <3>2. EndsBefore(q, {"SIGKILL"}, G + 1 - p.age)
      BY <1>2, <1>4, <3>1 DEF EndsBefore, Keeps
    <3> QED BY <1>1, <1>3, <2>1, <3>2 DEF InTime, Allowed, q
  <2>3. CASE ~Stopping(p)
    <3>1. PICK r \in p.ladder : r[2] = "SIGKILL" /\ r[1] <= G
      BY <1>1 DEF InTime
    <3> DEFINE u == [left |-> r[1], what |-> r[2]]
    <3>2. u \in q.timers /\ r[1] \in Nat
      BY <1>2, <1>4 DEF ProcessOK, Processes
    <3>3. p.age = 0
      BY <1>1, <2>3 DEF InTime
    <3>4. u.what \in {"SIGKILL"} /\ u.left < G + 1 - p.age
      BY <3>1, <3>2, <3>3
    <3>5. EndsBefore(q, {"SIGKILL"}, G + 1 - p.age)
      BY <3>2, <3>4 DEF EndsBefore
    <3> QED BY <1>1, <1>3, <2>1, <3>1, <3>5 DEF InTime, Allowed, q
  <2> QED BY <2>2, <2>3
<1>5. CASE t.what # "timeout"
  <2>1. Stopping(q) = Stopping(p) /\ q.state = p.state /\ q.ladder = p.ladder
    BY <1>2, <1>3, <1>5 DEF Stopping, Keeps
  <2>2. ASSUME Stopping(p) PROVE EndsBefore(q, {"SIGKILL"}, G + 1 - p.age)
    <3>1. EndsBefore(p, {"SIGKILL"}, G + 1 - p.age)
      BY <1>1, <2>2 DEF InTime
    <3>2. CASE t.what = "SIGKILL"
      <4>1. \A m \in q.alive : p.obeys[m] \in 1 .. 3 /\ p.obeys[m] > 3
        BY <1>1, <1>2, <3>2 DEF Signals, Rank, Keeps, ProcessOK, Processes
      <4> QED BY <4>1 DEF EndsBefore
    <3>3. CASE t.what # "SIGKILL"
      BY <1>2, <3>1, <3>3 DEF EndsBefore, Keeps
    <3> QED BY <3>2, <3>3
  <2> QED BY <1>1, <1>3, <2>1, <2>2 DEF InTime, Allowed, q
<1> QED BY <1>4, <1>5

LEMMA CancelledInTime ==
  ASSUME NEW p, ProcessOK(p), NEW G \in Nat, InTime(p, G)
  PROVE  InTime(Cancelled(p), G) /\ Allowed(p, Cancelled(p), G)
<1> DEFINE q == Cancelled(p)
<1>1. CASE p.state # "running"
  BY <1>1, CancelledOK DEF Allowed
<1>2. CASE p.state = "running"
  <2>1. /\ q.state = "running" /\ q.ladder = p.ladder /\ q.alive = p.alive
        /\ \A r \in p.ladder : [left |-> r[1], what |-> r[2]] \in q.timers
    BY <1>2, CancelledOK
  <2>2. q.age = p.age /\ Stopping(q) /\ p.timers \subseteq q.timers /\ p.age \in Nat
    BY <1>2 DEF Cancelled, Escalated, Stopping, ProcessOK, Processes
  <2> HIDE DEF q
  <2>3. PICK r \in p.ladder : r[2] = "SIGKILL" /\ r[1] <= G
    BY <1>2 DEF InTime
  <2>4. EndsBefore(q, {"SIGKILL"}, G + 1 - p.age)
    <3>1. CASE Stopping(p)
      BY <1>2, <2>1, <2>2, <3>1, EndsBeforeKept DEF InTime
    <3>2. CASE ~Stopping(p)
      <4> DEFINE u == [left |-> r[1], what |-> r[2]]
      <4>1. p.age = 0 /\ u \in q.timers /\ r[1] \in Nat
        BY <1>2, <2>1, <3>2 DEF InTime, ProcessOK, Processes
      <4>2. u.what \in {"SIGKILL"} /\ u.left < G + 1 - p.age
        BY <2>3, <4>1
      <4> QED BY <4>1, <4>2 DEF EndsBefore
    <3> QED BY <3>1, <3>2
  <2> QED BY <1>2, <2>1, <2>2, <2>3, <2>4 DEF InTime, Allowed, q
<1> QED BY <1>1, <1>2

LEMMA SettledInTime ==
  ASSUME NEW p, ProcessOK(p), Closable(p), NEW G
  PROVE  InTime(Settled(p), G) /\ Allowed(p, Settled(p), G)
<1>1. /\ p.state = "running" /\ Settled(p).state = "settled" /\ Settled(p).age = p.age
      /\ Stopping(Settled(p)) = Stopping(p)
  BY DEF Closable, Settled, Stopping, ProcessOK, Processes
<1> QED BY <1>1 DEF InTime, Allowed

LEMMA SecondInTime ==
  ASSUME NEW p, ProcessOK(p), Idle(p), NEW G \in Nat, InTime(p, G)
  PROVE  InTime(OneSecondLater(p), G) /\ Allowed(p, OneSecondLater(p), G)
<1> DEFINE q == OneSecondLater(p)
<1>1. /\ q.state = p.state /\ q.ladder = p.ladder /\ Stopping(q) = Stopping(p)
      /\ q.age = IF Stopping(p) /\ p.state = "running" THEN p.age + 1 ELSE p.age
      /\ p.age \in Nat
  BY DEF OneSecondLater, Stopping, ProcessOK, Processes
<1>2. CASE p.state = "running" /\ Stopping(p)
  <2>1. EndsBefore(p, {"SIGKILL"}, G + 1 - p.age)
    BY <1>2 DEF InTime
  <2>2. G + 1 - p.age \in Nat
    <3>1. PICK t \in p.timers : t.left < G + 1 - p.age
      BY <1>2, <2>1 DEF EndsBefore, Idle, Closable
    <3>2. t.left \in Nat
      BY DEF ProcessOK, Processes, Timers
    <3> QED BY <1>1, <3>1, <3>2
  <2> DEFINE n == G + 1 - p.age
  <2>3. n > 1 /\ EndsBefore(q, {"SIGKILL"}, n - 1)
    <3> HIDE DEF n
    <3>1. n \in Nat /\ EndsBefore(p, {"SIGKILL"}, n)
      BY <2>1, <2>2 DEF n
    <3> QED BY <1>2, <3>1, EndsBeforeSecond
  <2>4. q.age = p.age + 1 /\ p.age < G
    BY <1>1, <1>2, <2>3
  <2>5. n - 1 = G + 1 - q.age
    BY <1>1, <2>4
  <2> HIDE DEF q, n
  <2>6. EndsBefore(q, {"SIGKILL"}, G + 1 - q.age)
    BY <2>3, <2>5
  <2> QED BY <1>1, <1>2, <2>4, <2>6 DEF InTime, Allowed, q
<1>3. CASE ~(p.state = "running" /\ Stopping(p))
  <2> HIDE DEF q
  <2> QED BY <1>1, <1>3 DEF InTime, Allowed, q
<1> QED BY <1>2, <1>3

GateGrace == 3
WorkerGrace == IF "acp" \in Kinds THEN 8 ELSE 6

LEMMA GateInTime ==
  ASSUME Inductive, InTime(gate, GateGrace), Next
  PROVE  InTime(gate', GateGrace) /\ Allowed(gate, gate', GateGrace)
<1>1. ProcessOK(gate) /\ GateGrace \in Nat /\ (pc # "gate" => gate.state # "running")
  BY DEF Inductive, Typed, Place, GateGrace
<1>2. CASE gate' = gate
  BY <1>2 DEF Allowed
<1>3. ASSUME NEW w \in ProcessWorlds, NEW s \in Timeouts, StartGate(s, w), pc \in {"fold", "gated"}
      PROVE  InTime(gate', GateGrace) /\ Allowed(gate, gate', GateGrace)
  <2>1. s \in Nat /\ w \in Worlds /\ GateLadder \in Ladders
    BY LaddersType, ConstantsType DEF Timeouts
  <2>2. <<3, "SIGKILL">> \in GateLadder /\ gate' = Spawned(GateLadder, s, w)
    BY <1>3 DEF GateLadder, StartGate
  <2>3. \E r \in GateLadder : r[2] = "SIGKILL" /\ r[1] <= GateGrace
    BY <2>2 DEF GateGrace
  <2> QED BY <1>1, <1>3, <2>1, <2>2, <2>3, SpawnedInTime
<1>4. CASE Start
  BY <1>2, <1>4 DEF Start, StartProbe, StartWorker, RunLocalAttempt, gateVars
<1>5. CASE Continue
  BY <1>2, <1>3, <1>5 DEF Continue, ProbeAnswered, EnterGates, NextGate, Accept, Finished, Awaited,
     ExecutorThrows, DropSealed, FoldCancelled, FoldTimedOut, FoldWorkerFailed, QuarantineOutput,
     AcceptFailure, AcceptSuccess, GatesPassed, GatesStopped, gateVars
<1>6. CASE WorkerSettles \/ SealAttempt \/ (\E code \in ExitCodes, t \in worker.timers : WorkerTimer(t, code))
           \/ (\E code \in ExitCodes : WorkerEnds(code)) \/ WorkerHelperEnds
  BY <1>2, <1>6 DEF WorkerSettles, SealAttempt, WorkerTimer, WorkerEnds, WorkerHelperEnds, WorkerStep, gateVars
<1>7. CASE GateSettles
  BY <1>1, <1>7, SettledInTime DEF GateSettles, GateStep
<1>8. CASE Tick
  BY <1>1, <1>8, SecondInTime DEF Tick
<1>9. CASE \E code \in ExitCodes, t \in gate.timers : GateTimer(t, code)
  BY <1>1, <1>9, ExpiredInTime DEF GateTimer, GateStep
<1>10. CASE (\E code \in ExitCodes : GateEnds(code)) \/ GateHelperEnds
  BY <1>1, <1>10, EndedInTime DEF GateEnds, GateHelperEnds, GateStep
<1>11. CASE \E status \in {"failed", "cancelled"} : BeginAbort(status)
  BY <1>1, <1>2, <1>11, CancelledInTime DEF BeginAbort
<1> QED BY <1>4, <1>5, <1>6, <1>7, <1>8, <1>9, <1>10, <1>11 DEF Next, Callbacks, Environment

\* A gate told to stop, by its timeout or by the abort, is gone within three
\* seconds, for every timeout and whatever it catches or leaves behind.
THEOREM GatesStop == Spec => GateStopsInTime
<1>1. Init => InTime(gate, GateGrace)
  BY DEF Init, InTime, NoProcess
<1>2. Inductive /\ InTime(gate, GateGrace) /\ [Next]_vars => InTime(gate, GateGrace)'
  BY GateInTime DEF vars
<1>3. Init => GateLimit!Init
  BY DEF Init, GateLimit!Init, NoProcess, Stopping
<1>4. Inductive /\ InTime(gate, GateGrace) /\ [Next]_vars => [GateLimit!Next]_GateLimit!vars
  <2>1. CASE UNCHANGED vars
    BY <2>1 DEF vars, GateLimit!vars
  <2>2. ASSUME Allowed(gate, gate', GateGrace), Inductive, Inductive'
        PROVE [GateLimit!Next]_GateLimit!vars
    <3>1. Stopping(gate) \in BOOLEAN /\ Stopping(gate') \in BOOLEAN
      BY DEF Stopping
    <3> QED BY <2>2, <3>1 DEF Allowed, GateGrace, GateLimit!Next, GateLimit!Start, GateLimit!Stop,
               GateLimit!Settle, GateLimit!Age, GateLimit!vars
  <2> QED BY <2>1, <2>2, GateInTime, InductiveStep
<1> QED BY <1>1, <1>2, <1>3, <1>4, InductiveAlways, PTL DEF Spec, GateStopsInTime, GateLimit!Spec

LEMMA WorkerInTime ==
  ASSUME Inductive, InTime(worker, WorkerGrace), Next
  PROVE  InTime(worker', WorkerGrace) /\ Allowed(worker, worker', WorkerGrace)
<1>1. ProcessOK(worker) /\ WorkerGrace \in Nat /\ kind \in Kinds
      /\ (pc \notin {"probe", "work"} => worker.state # "running")
  BY DEF Inductive, Typed, TypeOK, Place, WorkerGrace
<1>2. CASE worker' = worker
  BY <1>2 DEF Allowed
<1>3. ASSUME NEW w \in ProcessWorlds, NEW s \in Timeouts, SpawnWorker(s, w), pc \in {"start", "probed"}
      PROVE  InTime(worker', WorkerGrace) /\ Allowed(worker, worker', WorkerGrace)
  <2>1. s \in Nat /\ w \in Worlds /\ WorkerLadder(kind) \in Ladders
    BY LaddersType, ConstantsType DEF Timeouts
  <2>2. worker' = Spawned(WorkerLadder(kind), s, w)
    BY <1>3 DEF SpawnWorker
  <2>3. <<6, "SIGKILL">> \in NdjsonLadder
    BY DEF NdjsonLadder
  <2>4. \E r \in WorkerLadder(kind) : r[2] = "SIGKILL" /\ r[1] <= WorkerGrace
    <3>1. CASE kind = "acp"
      <4>1. <<8, "SIGKILL">> \in WorkerLadder(kind)
        BY <2>3, <3>1 DEF WorkerLadder, AcpLadder
      <4> QED BY <1>1, <3>1, <4>1 DEF WorkerGrace
    <3>2. CASE kind # "acp"
      <4>1. <<6, "SIGKILL">> \in WorkerLadder(kind)
        BY <2>3, <3>2 DEF WorkerLadder
      <4> QED BY <4>1 DEF WorkerGrace
    <3> QED BY <3>1, <3>2
  <2> QED BY <1>1, <1>3, <2>1, <2>2, <2>4, SpawnedInTime
<1>4. ASSUME NEW w \in ProcessWorlds, StartProbe(w)
      PROVE  InTime(worker', WorkerGrace) /\ Allowed(worker, worker', WorkerGrace)
  <2>1. ProbeTimeout \in Nat /\ w \in Worlds /\ ProbeLadder \in Ladders
    BY LaddersType, ConstantsType DEF ProbeTimeout
  <2>2. worker' = Spawned(ProbeLadder, ProbeTimeout, w) /\ worker.state # "running"
    BY <1>1, <1>4 DEF StartProbe
  <2>3. \E r \in ProbeLadder : r[2] = "SIGKILL" /\ r[1] <= WorkerGrace
    BY DEF ProbeLadder, WorkerGrace
  <2> QED BY <1>1, <2>1, <2>2, <2>3, SpawnedInTime
<1>5. CASE Start
  BY <1>2, <1>3, <1>4, <1>5 DEF Start, StartWorker, RunLocalAttempt
<1>6. CASE Continue
  BY <1>2, <1>3, <1>6 DEF Continue, ProbeAnswered, EnterGates, NextGate, Accept, Finished, Awaited,
     ExecutorThrows, DropSealed, FoldCancelled, FoldTimedOut, FoldWorkerFailed, QuarantineOutput,
     AcceptFailure, AcceptSuccess, GatesPassed, GatesStopped
<1>7. CASE GateSettles \/ SealAttempt \/ (\E code \in ExitCodes, t \in gate.timers : GateTimer(t, code))
           \/ (\E code \in ExitCodes : GateEnds(code)) \/ GateHelperEnds
  BY <1>2, <1>7 DEF GateSettles, SealAttempt, GateTimer, GateEnds, GateHelperEnds, GateStep
<1>8. CASE WorkerSettles
  BY <1>1, <1>8, SettledInTime DEF WorkerSettles, WorkerStep
<1>9. CASE Tick
  BY <1>1, <1>9, SecondInTime DEF Tick
<1>10. CASE \E code \in ExitCodes, t \in worker.timers : WorkerTimer(t, code)
  BY <1>1, <1>10, ExpiredInTime DEF WorkerTimer, WorkerStep
<1>11. CASE (\E code \in ExitCodes : WorkerEnds(code)) \/ WorkerHelperEnds
  BY <1>1, <1>11, EndedInTime DEF WorkerEnds, WorkerHelperEnds, WorkerStep
<1>12. CASE \E status \in {"failed", "cancelled"} : BeginAbort(status)
  BY <1>1, <1>2, <1>12, CancelledInTime DEF BeginAbort
<1> QED BY <1>5, <1>6, <1>7, <1>8, <1>9, <1>10, <1>11, <1>12 DEF Next, Callbacks, Environment

\* A worker told to stop is gone within six seconds, an acp worker within
\* eight, for every timeout and whatever it catches or leaves behind.
THEOREM WorkersStop == Spec => WorkerStopsInTime
<1>1. Init => InTime(worker, WorkerGrace)
  BY DEF Init, InTime, NoProcess
<1>2. Inductive /\ InTime(worker, WorkerGrace) /\ [Next]_vars => InTime(worker, WorkerGrace)'
  BY WorkerInTime DEF vars, WorkerGrace
<1>3. Init => WorkerLimit!Init
  BY DEF Init, WorkerLimit!Init, NoProcess, Stopping
<1>4. Inductive /\ InTime(worker, WorkerGrace) /\ [Next]_vars => [WorkerLimit!Next]_WorkerLimit!vars
  <2>1. CASE UNCHANGED vars
    BY <2>1 DEF vars, WorkerLimit!vars
  <2>2. ASSUME Allowed(worker, worker', WorkerGrace)
        PROVE [WorkerLimit!Next]_WorkerLimit!vars
    <3>1. Stopping(worker) \in BOOLEAN /\ Stopping(worker') \in BOOLEAN
      BY DEF Stopping
    <3> QED BY <2>2, <3>1 DEF Allowed, WorkerGrace, WorkerLimit!Next, WorkerLimit!Start,
               WorkerLimit!Stop, WorkerLimit!Settle, WorkerLimit!Age, WorkerLimit!vars
  <2> QED BY <2>1, <2>2, WorkerInTime
<1> QED BY <1>1, <1>2, <1>3, <1>4, InductiveAlways, PTL DEF Spec, WorkerStopsInTime, WorkerLimit!Spec

\* Both limits together: no process of an attempt outstays its welcome.
THEOREM ProcessesStop == Spec => ProcessesStopInTime
  BY GatesStop, WorkersStop, PTL DEF ProcessesStopInTime
=============================================================================
