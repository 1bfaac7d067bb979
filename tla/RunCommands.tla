------------------------------ MODULE RunCommands ------------------------------
(***************************************************************************)
(* The commands on one run, by several processes at once (commands.js):    *)
(* approve, run, resume, cancel, detach.  Each reads run.json, decides,    *)
(* takes the lock, reads again, writes, releases; other processes come in  *)
(* between, and any of them may die.                                       *)
(*                                                                         *)
(* The lock is taken in one step, as the protocol of RunLock intends; a    *)
(* lock whose holder died is "stale" and anybody's.  The run has one task  *)
(* with one attempt at a time; Scheduler has the details of the execution. *)
(***************************************************************************)
EXTENDS Naturals, FiniteSets

CONSTANTS
  Processes,
  MaxCommands,     \* bound on the commands given
  MaxCrashes       \* bound on the processes that die

ASSUME CommandConstants ==
  MaxCommands \in Nat /\ MaxCrashes \in Nat /\ Processes \cap {"none", "stale"} = {}

Commands == {"approve", "run", "resume", "cancel", "detach"}

VARIABLES
  disk,            \* run.json
  lock,            \* run.lock: its holder, "none" or "stale"
  cancelFile,      \* control/cancel.json is there
  pc, cmd,         \* of each process
  flag,            \* --approve, --resume-failed
  then,            \* the command this one goes on with
  mem,             \* its copy of run.json
  given, crashes,
  ended            \* history: the final statuses the run has had

vars == <<disk, lock, cancelFile, pc, cmd, flag, then, mem, given, crashes, ended>>

Terminal == {"completed", "failed", "cancelled"}

RunStates ==
  [status   : {"awaiting_approval", "approved", "running", "paused"} \cup Terminal,
   outcome  : {"none", "succeeded", "partial", "failed", "cancelled"},
   approved : BOOLEAN,
   task     : {"queued", "running", "succeeded", "failed", "cancelled"},
   attempt  : {"none", "running", "over", "orphaned"}]

\* planWorkflow
Planned ==
  [status |-> "awaiting_approval", outcome |-> "none", approved |-> FALSE,
   task |-> "queued", attempt |-> "none"]

Init ==
  /\ disk = Planned /\ lock = "none" /\ cancelFile = FALSE
  /\ pc = [p \in Processes |-> "idle"] /\ cmd = [p \in Processes |-> "run"]
  /\ flag = [p \in Processes |-> FALSE] /\ then = [p \in Processes |-> "none"]
  /\ mem = [p \in Processes |-> Planned]
  /\ given = 0 /\ crashes = 0 /\ ended = {}

Live == lock \in Processes

Goto(p, label) == pc' = [pc EXCEPT ![p] = label]
StatusOf(state) == IF state.outcome = "partial" THEN "partial" ELSE state.status

\* run.json is replaced.
Save(state) ==
  /\ disk' = state
  /\ ended' = ended \cup ({StatusOf(state)} \cap (Terminal \cup {"partial"}))

Keep == UNCHANGED <<cmd, flag, then, mem, given, crashes, ended>>

-----------------------------------------------------------------------------
(* Before the lock *)

\* detach looks at the lock before anything else.
Give(p, c, f) ==
  /\ pc[p] = "idle" /\ given < MaxCommands
  /\ c = "detach" => ~Live
  /\ given' = given + 1
  /\ cmd' = [cmd EXCEPT ![p] = c] /\ flag' = [flag EXCEPT ![p] = f]
  /\ then' = [then EXCEPT ![p] = "none"]
  /\ Goto(p, "read")
  /\ UNCHANGED <<disk, lock, cancelFile, mem, crashes, ended>>

Read(p) ==
  /\ pc[p] = "read"
  /\ mem' = [mem EXCEPT ![p] = disk]
  /\ Goto(p, "decide")
  /\ UNCHANGED <<disk, lock, cancelFile, cmd, flag, then, given, crashes, ended>>

Deciding(p, c) == pc[p] = "decide" /\ cmd[p] = c
Status(p) == mem[p].status

\* The command is done, or refused: what it was to go on with is dropped.
Refuse(p) ==
  /\ Goto(p, "idle")
  /\ UNCHANGED <<disk, lock, cancelFile>> /\ Keep

GoOn(p) ==
  /\ Goto(p, IF then[p] = "none" THEN "idle" ELSE "read")
  /\ cmd' = [cmd EXCEPT ![p] = IF then[p] = "none" THEN @ ELSE then[p]]
  /\ then' = [then EXCEPT ![p] = "none"]
  /\ flag' = [flag EXCEPT ![p] = FALSE]
  /\ UNCHANGED <<mem, given, crashes, ended>>

Ready(p) ==
  /\ Goto(p, "acquire")
  /\ UNCHANGED <<disk, lock, cancelFile>> /\ Keep

DecideApprove(p) ==
  /\ Deciding(p, "approve")
  /\ CASE Status(p) = "awaiting_approval" -> Ready(p)
       [] Status(p) \in {"approved", "running"} -> GoOn(p) /\ UNCHANGED <<disk, lock, cancelFile>>
       [] OTHER -> Refuse(p)

\* run --approve approves first, and reads again.
DecideRun(p) ==
  /\ Deciding(p, "run")
  /\ CASE Status(p) = "awaiting_approval" /\ flag[p] ->
            /\ cmd' = [cmd EXCEPT ![p] = "approve"] /\ then' = [then EXCEPT ![p] = "run"]
            /\ Goto(p, "read")
            /\ UNCHANGED <<disk, lock, cancelFile, flag, mem, given, crashes, ended>>
       [] Status(p) \in {"approved", "paused", "completed"} -> Ready(p)
       [] OTHER -> Refuse(p)

\* The process started for it is a run of its own.
DecideDetach(p) ==
  /\ Deciding(p, "detach")
  /\ IF Status(p) \in Terminal \/ (Status(p) = "awaiting_approval" /\ ~flag[p])
       THEN Refuse(p)
       ELSE /\ cmd' = [cmd EXCEPT ![p] = "run"] /\ Goto(p, "read")
            /\ UNCHANGED <<disk, lock, cancelFile, flag, then, mem, given, crashes, ended>>

\* resumableFailure: flag[p] tells from here on whether this resume is one.
ResumableFailure(p) ==
  flag[p] /\ (Status(p) = "failed" \/ (Status(p) = "completed" /\ mem[p].outcome = "partial"))

DecideResume(p) ==
  /\ Deciding(p, "resume")
  /\ IF Live THEN Refuse(p)
     ELSE /\ flag' = [flag EXCEPT ![p] = ResumableFailure(p)]
          /\ Goto(p, IF Status(p) \in Terminal /\ ~ResumableFailure(p) THEN "note" ELSE "acquire")
          /\ UNCHANGED <<disk, lock, cancelFile, cmd, then, mem, given, crashes, ended>>

\* resume_noop: recordEvent writes the state that was read, without the lock.
NoteNothingToResume(p) ==
  /\ pc[p] = "note"
  /\ Save(mem[p])
  /\ Goto(p, "idle")
  /\ UNCHANGED <<lock, cancelFile, cmd, flag, then, mem, given, crashes>>

\* A live orchestrator is asked to cancel; a run without one is cancelled here.
DecideCancel(p) ==
  /\ Deciding(p, "cancel")
  /\ IF Status(p) \in {"completed", "cancelled"} THEN Refuse(p)
     ELSE IF ~Live THEN Ready(p)
     ELSE /\ cancelFile' = TRUE
          /\ Goto(p, "idle")
          /\ UNCHANGED <<disk, lock>> /\ Keep

-----------------------------------------------------------------------------
(* Under the lock *)

\* Mutant of Acquire: what was read before the lock is good enough.
AcquireUnread(p) ==
  /\ pc[p] = "acquire"
  /\ IF Live THEN Refuse(p)
     ELSE /\ lock' = p /\ Goto(p, "locked")
          /\ UNCHANGED <<disk, cancelFile, mem, cmd, flag, then, given, crashes, ended>>

\* acquireRunLock, and the second reading
Acquire(p) ==
  /\ pc[p] = "acquire"
  /\ IF Live THEN Refuse(p)
     ELSE /\ lock' = p
          /\ mem' = [mem EXCEPT ![p] = disk]
          /\ Goto(p, "locked")
          /\ UNCHANGED <<disk, cancelFile, cmd, flag, then, given, crashes, ended>>

Locked(p, c) == pc[p] = "locked" /\ cmd[p] = c

\* What a process changes in its copy goes to run.json with the next event.
Write(p, state, label) ==
  /\ mem' = [mem EXCEPT ![p] = state] /\ Save(state)
  /\ Goto(p, label)
  /\ UNCHANGED <<lock, cancelFile, cmd, flag, then, given, crashes>>

\* The finally of withRunLock and of runWorkflow
Release(p) ==
  /\ pc[p] = "release"
  /\ lock' = "none"
  /\ GoOn(p)
  /\ UNCHANGED <<disk, cancelFile>>

Pass(p) ==
  /\ Goto(p, "release")
  /\ UNCHANGED <<disk, lock, cancelFile>> /\ Keep

\* An error under the lock ends the command.
Fail(p) ==
  /\ Goto(p, "release") /\ then' = [then EXCEPT ![p] = "none"]
  /\ UNCHANGED <<disk, lock, cancelFile, cmd, flag, mem, given, crashes, ended>>

Approve(p) ==
  /\ Locked(p, "approve")
  /\ IF Status(p) = "awaiting_approval"
       THEN Write(p, [mem[p] EXCEPT !.status = "approved", !.approved = TRUE], "release")
       ELSE Pass(p)

CancelledState(state) == [state EXCEPT !.status = "cancelled", !.outcome = "cancelled"]

Cancel(p) ==
  /\ Locked(p, "cancel")
  /\ IF Status(p) = "cancelled" THEN Pass(p)
     ELSE Write(p, CancelledState(mem[p]), "release")

\* Mutant of Repaired: every task is queued again.
RepairedFromScratch(state, failedToo) ==
  [state EXCEPT !.attempt = IF @ = "running" THEN "orphaned" ELSE @, !.task = "queued"]

\* Attempts of the orchestrator that died are orphans, its tasks are queued again.
Repaired(state, failedToo) ==
  [state EXCEPT
     !.attempt = IF @ = "running" THEN "orphaned" ELSE @,
     !.task = IF @ = "running" \/ (failedToo /\ @ = "failed") THEN "queued" ELSE @]

\* The run may go on, unless it was only to be repaired (continueRun).
Resumed(p, state, again) ==
  LET saved == IF again THEN [state EXCEPT !.status = "approved", !.outcome = "none"] ELSE state
  IN  /\ Save(saved) /\ mem' = [mem EXCEPT ![p] = saved]
      /\ then' \in {[then EXCEPT ![p] = "run"], then}
      /\ Goto(p, "release")
      /\ UNCHANGED <<lock, cancelFile, cmd, flag, given, crashes>>

\* Mutant of Resume: the attempts of the orchestrator that died are left alone.
ResumeUnrepaired(p) ==
  /\ Locked(p, "resume")
  /\ Resumed(p, mem[p], flag[p] \/ Status(p) \in {"paused", "running"})

Resume(p) ==
  /\ Locked(p, "resume")
  /\ Resumed(p, Repaired(mem[p], flag[p]), flag[p] \/ Status(p) \in {"paused", "running"})

\* prepareLockedRunStart, run_started
Begin(p) ==
  /\ Locked(p, "run")
  /\ IF Status(p) \in {"approved", "paused"}
       THEN Write(p, [mem[p] EXCEPT !.status = "running"], "work")
       ELSE IF Status(p) = "completed" THEN Write(p, mem[p], "release")
       ELSE Fail(p)

-----------------------------------------------------------------------------
(* The orchestrator at work, which never reads run.json *)

Task(p) == mem[p].task

Launch(p) ==
  /\ pc[p] = "work" /\ Task(p) = "queued"
  /\ Write(p, [mem[p] EXCEPT !.task = "running", !.attempt = "running"], "work")

Settle(p, result) ==
  /\ pc[p] = "work" /\ Task(p) = "running"
  /\ Write(p, [mem[p] EXCEPT !.task = result, !.attempt = "over"], "work")

\* A task that failed fails the run, or is left out of a partial outcome.
Conclude(p, status) ==
  /\ pc[p] = "work" /\ Task(p) \in {"succeeded", "failed", "cancelled"}
  /\ status = "failed" => Task(p) # "succeeded"
  /\ Write(p, [mem[p] EXCEPT !.status = status,
                 !.outcome = CASE status = "failed" -> "failed"
                               [] Task(p) = "succeeded" -> "succeeded" [] OTHER -> "partial"],
           "persist")

\* maxTasks
Pause(p) ==
  /\ pc[p] = "work" /\ Task(p) = "queued"
  /\ Write(p, [mem[p] EXCEPT !.status = "paused"], "persist")

\* abortInFlight
Folded(state) ==
  [state EXCEPT !.task = IF @ = "running" THEN "cancelled" ELSE @,
                !.attempt = IF @ = "running" THEN "over" ELSE @]

HearCancel(p) ==
  /\ pc[p] = "work" /\ cancelFile
  /\ cancelFile' = FALSE
  /\ LET folded == CancelledState(Folded(mem[p]))
     IN  mem' = [mem EXCEPT ![p] = folded] /\ Save(folded)
  /\ Goto(p, "persist")
  /\ UNCHANGED <<lock, cmd, flag, then, given, crashes>>

Persist(p) ==
  /\ pc[p] = "persist"
  /\ Write(p, mem[p], "release")

-----------------------------------------------------------------------------
Die(p) ==
  /\ pc[p] # "idle" /\ crashes < MaxCrashes
  /\ crashes' = crashes + 1
  /\ lock' = IF lock = p THEN "stale" ELSE lock
  /\ Goto(p, "idle")
  /\ UNCHANGED <<disk, cancelFile, cmd, flag, then, mem, given, ended>>

Decide(p) ==
  DecideApprove(p) \/ DecideRun(p) \/ DecideDetach(p) \/ DecideResume(p) \/ DecideCancel(p)

Change(p) == Approve(p) \/ Cancel(p) \/ Resume(p) \/ Begin(p)

Work(p) ==
  \/ Launch(p) \/ Pause(p) \/ HearCancel(p) \/ Persist(p)
  \/ \E result \in {"succeeded", "failed"} : Settle(p, result)
  \/ \E status \in {"completed", "failed"} : Conclude(p, status)

Step(p) ==
  Read(p) \/ Decide(p) \/ NoteNothingToResume(p) \/ Acquire(p) \/ Change(p) \/ Work(p) \/ Release(p)

Next ==
  \E p \in Processes :
    Step(p) \/ Die(p) \/ \E c \in Commands, f \in BOOLEAN : Give(p, c, f)

Spec == Init /\ [][Next]_vars

-----------------------------------------------------------------------------
(* Properties *)

TypeOK ==
  /\ disk \in RunStates /\ lock \in Processes \cup {"none", "stale"} /\ cancelFile \in BOOLEAN
  /\ pc \in [Processes -> {"idle", "read", "decide", "note", "acquire", "locked", "work",
                           "persist", "release"}]
  /\ cmd \in [Processes -> Commands] /\ then \in [Processes -> {"none", "run"}]
  /\ flag \in [Processes -> BOOLEAN] /\ mem \in [Processes -> RunStates]
  /\ given \in 0 .. MaxCommands /\ crashes \in 0 .. MaxCrashes
  /\ ended \subseteq Terminal \cup {"partial"}

AtWork(p) == pc[p] \in {"work", "persist"}

\* Nothing is executed that nobody approved, by whatever way a run got to its
\* orchestrator (commands.js:217).
ApprovedFirst == \A p \in Processes : AtWork(p) => mem[p].approved

\* An orchestrator never takes over a task or an attempt that a dead one left
\* running: it was repaired on the way (commands.js:345).
NothingInherited ==
  [][\A p \in Processes : AtWork(p)' /\ ~AtWork(p) =>
       mem'[p].task # "running" /\ mem'[p].attempt # "running"]_vars

\* The run as the process that holds the lock knows it, or else as it is on disk
Holds(p) == pc[p] \in {"locked", "work", "persist", "release"}
Known == IF \E p \in Processes : Holds(p) THEN mem[CHOOSE p \in Processes : Holds(p)] ELSE disk

\* Whatever order the commands come in and wherever one of them dies, the
\* status of the run changes as RunLifecycle says.
Lifecycle == INSTANCE RunLifecycle WITH
  status <- StatusOf(Known),
  executing <- \E p \in Processes : AtWork(p),
  past <- ended
ImplementsLifecycle == Lifecycle!Spec

\* A result is kept: a task that succeeded is not run again, whatever is
\* resumed; only a late note of a resume may bring back an older state, or have
\* been written over what the holder of the lock knows.
SucceededIsKept ==
  [][disk.task = "succeeded" /\ disk'.task # "succeeded" =>
       \E p \in Processes : (pc[p] = "note" /\ pc'[p] = "idle") \/ (Holds(p) /\ mem[p] # disk)]_vars
=============================================================================
