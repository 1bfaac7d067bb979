-------------------------- MODULE RunCommandsProofs --------------------------
(***************************************************************************)
(* Whatever the commands on a run and wherever their processes die, the    *)
(* run is approved before it is executed, what a dead orchestrator left is *)
(* repaired before another takes over, and the life of the run is the one  *)
(* RunLifecycle describes.                                                 *)
(***************************************************************************)
EXTENDS RunCommands, TLAPS

Final == Terminal \cup {"partial"}
Labels == {"idle", "read", "decide", "note", "acquire", "locked", "work", "persist", "release"}

\* What is true of every state of the run that is written.
Sound(state) ==
  /\ state.task = "running" <=> state.attempt = "running"
  /\ state.task = "running" => state.status \in {"running", "cancelled"}
  /\ state.status = "awaiting_approval" => ~state.approved
  /\ state.status \notin {"awaiting_approval", "cancelled"} => state.approved
  /\ state.status \notin Terminal => state.outcome = "none"
  /\ state.outcome = "partial" => state.status = "completed"

Recorded(state) == StatusOf(state) \in Final => StatusOf(state) \in ended

StatesAreSound ==
  /\ Sound(disk) /\ Recorded(disk)
  /\ \A p \in Processes : Sound(mem[p]) /\ Recorded(mem[p])

\* One process at a time holds the lock.
HoldersHold == \A p \in Processes : Holds(p) <=> lock = p

\* What a holder knows is what is on disk, up to the late note of a resume.
DiskIsKnown ==
  \A p \in Processes : Holds(p) => StatusOf(disk) = StatusOf(mem[p]) \/ StatusOf(disk) \in ended

Approved == disk.approved \/ \E p \in Processes : mem[p].approved

\* An approval is never lost ...
ApprovalStays ==
  Approved => disk.approved /\ \A p \in Processes : Holds(p) => mem[p].approved

\* ... nor the cancellation of a run that was not approved.
Doomed(state) == state.status = "cancelled" /\ ~state.approved

SomeDoomed == Doomed(disk) \/ \E p \in Processes : Doomed(mem[p])

DoomStays ==
  SomeDoomed => Doomed(disk) /\ \A p \in Processes : Holds(p) => Doomed(mem[p])

\* What a process has found out stays true where it relies on it.
Placed(p) ==
  /\ pc[p] = "note" => Status(p) \in Terminal
  /\ pc[p] = "work" => Status(p) = "running"
  /\ pc[p] \in {"work", "persist"} => mem[p].approved
  /\ pc[p] \in {"acquire", "locked"} /\ cmd[p] = "resume" /\ flag[p] => disk.approved

AllPlaced == \A p \in Processes : Placed(p)

CommandsInv ==
  /\ TypeOK /\ StatesAreSound /\ HoldersHold /\ DiskIsKnown
  /\ ApprovalStays /\ DoomStays /\ AllPlaced

-----------------------------------------------------------------------------
(* The shapes of the steps, as far as the run and its lock are concerned *)

Same(p) == UNCHANGED <<disk, ended>> /\ mem'[p] = mem[p]

Asks(p) ==
  /\ ~Holds(p) /\ ~Holds(p)'
  /\ UNCHANGED <<disk, lock, ended>> /\ mem'[p] \in {mem[p], disk}

Notes(p) ==
  /\ ~Holds(p) /\ ~Holds(p)' /\ Status(p) \in Terminal
  /\ pc[p] = "note" /\ pc'[p] = "idle"
  /\ disk' = mem[p] /\ mem'[p] = mem[p] /\ lock' = lock
  /\ ended' = ended \cup ({StatusOf(mem[p])} \cap Final)

Takes(p) ==
  /\ ~Holds(p) /\ Holds(p)' /\ ~AtWork(p)'
  /\ lock \notin Processes /\ lock' = p
  /\ UNCHANGED <<disk, ended>> /\ mem'[p] = disk

Passes(p) == Holds(p) /\ Holds(p)' /\ ~AtWork(p) /\ ~AtWork(p)' /\ lock' = lock /\ Same(p)

Leaves(p) ==
  /\ ~Holds(p)' /\ Same(p)
  /\ Holds(p) => lock' \notin Processes
  /\ ~Holds(p) => lock' = lock

\* What the status may become when the holder of the lock writes.
Moves(p, from, to) ==
  \/ from = to /\ (AtWork(p)' => AtWork(p))
  \/ ~AtWork(p) /\ ~AtWork(p)' /\ from = "awaiting_approval" /\ to = "approved"
  \/ ~AtWork(p) /\ ~AtWork(p)' /\ from \in {"running", "paused"} \cup Final /\ to = "approved"
  \/ ~AtWork(p) /\ ~AtWork(p)' /\ from # "cancelled" /\ to = "cancelled"
  \/ ~AtWork(p) /\ AtWork(p)' /\ from \in {"approved", "paused"} /\ to = "running"
  \/ AtWork(p) /\ AtWork(p)' /\ from = "running" /\ to \in Final \cup {"paused"}

Writes(p, state) ==
  /\ Holds(p) /\ Holds(p)' /\ lock' = lock
  /\ disk' = state /\ mem'[p] = state
  /\ ended' = ended \cup ({StatusOf(state)} \cap Final)
  /\ Sound(state)
  /\ mem[p].approved => state.approved
  /\ Doomed(mem[p]) => Doomed(state)
  /\ mem[p].task = "succeeded" => state.task = "succeeded"
  /\ AtWork(p)' /\ ~AtWork(p) => state.task # "running"
  /\ Moves(p, StatusOf(mem[p]), StatusOf(state))

Others(p) ==
  \A q \in Processes \ {p} :
    pc'[q] = pc[q] /\ cmd'[q] = cmd[q] /\ flag'[q] = flag[q] /\ mem'[q] = mem[q]

Shaped(p) ==
  /\ Others(p) /\ Placed(p)'
  /\ Asks(p) \/ Notes(p) \/ Takes(p) \/ Passes(p) \/ Leaves(p) \/ Writes(p, disk')

-----------------------------------------------------------------------------
\* The states the commands make of a state.
LEMMA MadeStates ==
  ASSUME NEW state \in RunStates, NEW failedToo \in BOOLEAN
  PROVE  /\ CancelledState(state) \in RunStates /\ Folded(state) \in RunStates
         /\ Repaired(state, failedToo) \in RunStates
<1>1. CancelledState(state) \in RunStates
  BY DEF RunStates, Terminal, CancelledState
<1>2. Folded(state) \in RunStates
  BY DEF RunStates, Folded
<1>3. Repaired(state, failedToo) \in RunStates
  BY DEF RunStates, Repaired
<1> QED
  BY <1>1, <1>2, <1>3

\* Every step keeps the types.
LEMMA TypeStep == TypeOK /\ [Next]_vars => TypeOK'
<1> SUFFICES ASSUME TypeOK, [Next]_vars PROVE TypeOK'
  OBVIOUS
<1> USE CommandConstants DEF TypeOK
<1>1. CASE UNCHANGED vars
  BY <1>1 DEF vars
<1>2. ASSUME NEW p \in Processes PROVE mem[p] \in RunStates /\ flag[p] \in BOOLEAN
  OBVIOUS
<1>3. ASSUME NEW p \in Processes, Die(p) PROVE TypeOK'
  <2>1. crashes' \in 0 .. MaxCrashes
    BY <1>3 DEF Die
  <2> QED
    BY <1>3, <2>1 DEF Die, Goto
<1>4. ASSUME NEW p \in Processes, NEW c \in Commands, NEW f \in BOOLEAN, Give(p, c, f) PROVE TypeOK'
  <2>1. given' \in 0 .. MaxCommands
    BY <1>4 DEF Give
  <2> QED
    BY <1>4, <2>1 DEF Give, Goto
<1>5. ASSUME NEW p \in Processes, Read(p) PROVE TypeOK'
  BY <1>5 DEF Read, Goto
<1>6. ASSUME NEW p \in Processes, Decide(p) PROVE TypeOK'
  <2> USE DEF Goto, Ready, Refuse, GoOn, Keep, Deciding, Commands
  <2>1. CASE DecideApprove(p)
    BY <2>1 DEF DecideApprove
  <2>2. CASE DecideRun(p)
    BY <2>2 DEF DecideRun
  <2>3. CASE DecideDetach(p)
    BY <2>3 DEF DecideDetach
  <2>4. CASE DecideResume(p)
    <3>1. ResumableFailure(p) \in BOOLEAN
      BY <1>2 DEF ResumableFailure
    <3>2. CASE Live
      BY <2>4, <3>2 DEF DecideResume
    <3>3. CASE ~Live
      BY <2>4, <3>1, <3>3 DEF DecideResume
    <3> QED
      BY <3>2, <3>3
  <2>5. CASE DecideCancel(p)
    BY <2>5 DEF DecideCancel
  <2> QED
    BY <1>6, <2>1, <2>2, <2>3, <2>4, <2>5 DEF Decide
<1>7. ASSUME NEW state \in RunStates, Save(state) PROVE disk' \in RunStates /\ ended' \subseteq Final
  BY <1>7 DEF Save, Final
<1>8. ASSUME NEW p \in Processes, NoteNothingToResume(p) PROVE TypeOK'
  BY <1>2, <1>7, <1>8 DEF NoteNothingToResume, Goto, Final
<1>9. ASSUME NEW p \in Processes, Acquire(p) PROVE TypeOK'
  BY <1>9 DEF Acquire, Refuse, Keep, Goto
<1>10. ASSUME NEW p \in Processes, NEW state \in RunStates, NEW label \in {"work", "persist", "release"},
              Write(p, state, label)
       PROVE  TypeOK'
  BY <1>7, <1>10 DEF Write, Goto, Final
<1>11. ASSUME NEW p \in Processes, Change(p) PROVE TypeOK'
  <2> mem[p] \in RunStates
    BY <1>2
  <2>1. CASE Pass(p) \/ Fail(p)
    BY <2>1 DEF Pass, Fail, Keep, Goto
  <2>2. CASE Approve(p)
    <3>1. [mem[p] EXCEPT !.status = "approved", !.approved = TRUE] \in RunStates
      BY DEF RunStates
    <3> QED
      BY <1>10, <2>1, <2>2, <3>1 DEF Approve
  <2>3. CASE Cancel(p)
    BY <1>2, <1>10, <2>1, <2>3, MadeStates DEF Cancel
  <2>4. CASE Begin(p)
    <3>1. [mem[p] EXCEPT !.status = "running"] \in RunStates
      BY DEF RunStates
    <3> QED
      BY <1>10, <2>1, <2>4, <3>1 DEF Begin
  <2>5. CASE Resume(p)
    <3>1. Repaired(mem[p], flag[p]) \in RunStates
      BY <1>2, MadeStates
    <3>2. [Repaired(mem[p], flag[p]) EXCEPT !.status = "approved", !.outcome = "none"] \in RunStates
      BY <3>1 DEF RunStates
    <3>3. PICK state \in RunStates :
            /\ Save(state) /\ mem' = [mem EXCEPT ![p] = state]
            /\ then' \in {[then EXCEPT ![p] = "run"], then}
            /\ Goto(p, "release")
            /\ UNCHANGED <<lock, cancelFile, cmd, flag, given, crashes>>
      BY <2>5, <3>1, <3>2 DEF Resume, Resumed
    <3> QED
      BY <1>7, <3>3 DEF Goto, Final
  <2> QED
    BY <1>11, <2>2, <2>3, <2>4, <2>5 DEF Change
<1>12. ASSUME NEW p \in Processes, Work(p) PROVE TypeOK'
  <2> mem[p] \in RunStates
    BY <1>2
  <2>1. CASE Launch(p)
    <3>1. [mem[p] EXCEPT !.task = "running", !.attempt = "running"] \in RunStates
      BY DEF RunStates
    <3> QED
      BY <1>10, <2>1, <3>1 DEF Launch
  <2>2. CASE Pause(p)
    <3>1. [mem[p] EXCEPT !.status = "paused"] \in RunStates
      BY DEF RunStates
    <3> QED
      BY <1>10, <2>2, <3>1 DEF Pause
  <2>3. CASE Persist(p)
    BY <1>10, <2>3 DEF Persist
  <2>4. ASSUME NEW result \in {"succeeded", "failed"}, Settle(p, result) PROVE TypeOK'
    <3>1. [mem[p] EXCEPT !.task = result, !.attempt = "over"] \in RunStates
      BY DEF RunStates
    <3> QED
      BY <1>10, <2>4, <3>1 DEF Settle
  <2>5. ASSUME NEW status \in {"completed", "failed"}, Conclude(p, status) PROVE TypeOK'
    <3>1. ASSUME NEW outcome \in {"failed", "succeeded", "partial"}
          PROVE  [mem[p] EXCEPT !.status = status, !.outcome = outcome] \in RunStates
      BY DEF RunStates, Terminal
    <3>2. PICK outcome \in {"failed", "succeeded", "partial"} :
            Write(p, [mem[p] EXCEPT !.status = status, !.outcome = outcome], "persist")
      BY <2>5 DEF Conclude
    <3> QED
      BY <1>10, <3>1, <3>2
  <2>6. CASE HearCancel(p)
    <3>1. CancelledState(Folded(mem[p])) \in RunStates
      BY <1>2, MadeStates
    <3>2. PICK state \in RunStates : mem' = [mem EXCEPT ![p] = state] /\ Save(state)
      BY <2>6, <3>1 DEF HearCancel
    <3>3. /\ pc' = [pc EXCEPT ![p] = "persist"] /\ cancelFile' = FALSE
          /\ UNCHANGED <<lock, cmd, flag, then, given, crashes>>
      BY <2>6 DEF HearCancel, Goto
    <3>4. disk' \in RunStates /\ ended' \subseteq Final
      BY <1>7, <3>2
    <3> QED
      BY <3>2, <3>3, <3>4 DEF Final
  <2> QED
    BY <1>12, <2>1, <2>2, <2>3, <2>4, <2>5, <2>6 DEF Work
<1>13. ASSUME NEW p \in Processes, Release(p) PROVE TypeOK'
  BY <1>13 DEF Release, GoOn, Goto, Commands
<1> QED
  BY <1>1, <1>3, <1>4, <1>5, <1>6, <1>8, <1>9, <1>11, <1>12, <1>13 DEF Next, Step
-----------------------------------------------------------------------------
\* What a command makes of a sound state is sound, and keeps what was approved
\* and what succeeded.
Keeps(state, new) ==
  /\ Sound(new)
  /\ state.approved => new.approved
  /\ Doomed(state) => Doomed(new)
  /\ state.task = "succeeded" => new.task = "succeeded"

LEMMA CancelledKeeps ==
  ASSUME NEW state \in RunStates, Sound(state)
  PROVE  /\ Keeps(state, CancelledState(state))
         /\ StatusOf(CancelledState(state)) = "cancelled"
BY DEF RunStates, Keeps, Sound, Doomed, CancelledState, StatusOf, Terminal

LEMMA FoldedKeeps ==
  ASSUME NEW state \in RunStates, Sound(state)
  PROVE  Keeps(state, Folded(state))
BY DEF RunStates, Keeps, Sound, Doomed, Folded, Terminal

LEMMA RepairedKeeps ==
  ASSUME NEW state \in RunStates, Sound(state), NEW failedToo \in BOOLEAN
  PROVE  /\ Keeps(state, Repaired(state, failedToo))
         /\ Repaired(state, failedToo).task # "running"
         /\ Repaired(state, failedToo).status = state.status
         /\ StatusOf(Repaired(state, failedToo)) = StatusOf(state)
BY DEF RunStates, Keeps, Sound, Doomed, Repaired, StatusOf, Terminal

Wrote(p, state, label) ==
  /\ Save(state) /\ mem' = [mem EXCEPT ![p] = state]
  /\ Goto(p, label) /\ UNCHANGED <<lock, cmd, flag>>

\* A write under the lock has the shape of one.
LEMMA WriteShape ==
  ASSUME TypeOK, NEW p \in Processes, NEW state \in RunStates,
         NEW label \in {"work", "persist", "release"},
         Holds(p), Wrote(p, state, label), Keeps(mem[p], state),
         label = "work" => state.status = "running",
         Placed(p),
         label \in {"work", "persist"} /\ ~AtWork(p) => state.task # "running" /\ state.approved,
         LET next == label \in {"work", "persist"}
             from == StatusOf(mem[p])
             to == StatusOf(state)
         IN  \/ from = to /\ (next => AtWork(p))
             \/ ~AtWork(p) /\ ~next /\ from = "awaiting_approval" /\ to = "approved"
             \/ ~AtWork(p) /\ ~next /\ from \in {"running", "paused"} \cup Final /\ to = "approved"
             \/ ~AtWork(p) /\ ~next /\ from # "cancelled" /\ to = "cancelled"
             \/ ~AtWork(p) /\ next /\ from \in {"approved", "paused"} /\ to = "running"
             \/ AtWork(p) /\ next /\ from = "running" /\ to \in Final \cup {"paused"}
  PROVE  Shaped(p)
<1> USE DEF TypeOK
<1>1. /\ mem' = [mem EXCEPT ![p] = state] /\ pc' = [pc EXCEPT ![p] = label]
      /\ disk' = state /\ ended' = ended \cup ({StatusOf(state)} \cap Final)
      /\ UNCHANGED <<lock, cmd, flag>>
  BY DEF Wrote, Save, Goto, Final
<1>2. Others(p)
  BY <1>1 DEF Others
<1>3. Placed(p)'
  BY <1>1 DEF Placed, Status, AtWork, Keeps
<1>4. /\ Holds(p)' /\ AtWork(p)' = (label \in {"work", "persist"})
      /\ mem'[p] = state
  BY <1>1 DEF Holds, AtWork
<1>5. Moves(p, StatusOf(mem[p]), StatusOf(state))
  BY <1>4 DEF Moves
<1>6. Writes(p, disk')
  BY <1>1, <1>4, <1>5 DEF Writes, Keeps
<1> QED
  BY <1>2, <1>3, <1>6 DEF Shaped

\* What an orchestrator does has the shape of a write.
LEMMA WorkShape ==
  ASSUME CommandsInv, NEW p \in Processes, Work(p) PROVE Shaped(p)
<1> DEFINE s == mem[p]
<1>1. TypeOK /\ s \in RunStates /\ Sound(s) /\ Placed(p)
  BY DEF CommandsInv, TypeOK, StatesAreSound, AllPlaced
<1>2. Holds(p) /\ AtWork(p)
  BY DEF Holds, AtWork, Work, Launch, Pause, HearCancel, Persist, Settle, Conclude
<1>3. ASSUME NEW state, NEW label, Write(p, state, label) PROVE Wrote(p, state, label)
  BY <1>3 DEF Write, Wrote
<1>4. CASE Persist(p)
  <2>1. Wrote(p, s, "release")
    BY <1>3, <1>4 DEF Persist
  <2>2. Keeps(s, s)
    BY <1>1 DEF Keeps
  <2> QED
    BY <1>1, <1>2, <2>1, <2>2, WriteShape
<1>5. CASE pc[p] = "work"
  <2>1. s.status = "running" /\ StatusOf(s) = "running"
    BY <1>1, <1>5 DEF Placed, Status, Sound, StatusOf, Terminal
  <2>2. CASE Launch(p)
    <3> DEFINE t == [s EXCEPT !.task = "running", !.attempt = "running"]
    <3>1. t \in RunStates /\ t.status = "running" /\ StatusOf(t) = "running"
      BY <1>1, <2>1 DEF RunStates, StatusOf
    <3>2. Keeps(s, t)
      BY <1>1, <2>1, <2>2 DEF RunStates, Keeps, Sound, Doomed, Terminal, Launch, Task
    <3>3. Wrote(p, t, "work")
      BY <1>3, <2>2 DEF Launch
    <3> HIDE DEF t
    <3> QED
      BY <1>1, <1>2, <2>1, <3>1, <3>2, <3>3, WriteShape
  <2>3. ASSUME NEW result \in {"succeeded", "failed"}, Settle(p, result) PROVE Shaped(p)
    <3> DEFINE t == [s EXCEPT !.task = result, !.attempt = "over"]
    <3>1. t \in RunStates /\ t.status = "running" /\ StatusOf(t) = "running"
      BY <1>1, <2>1 DEF RunStates, StatusOf
    <3>2. Keeps(s, t)
      BY <1>1, <2>1, <2>3 DEF RunStates, Keeps, Sound, Doomed, Terminal, Settle, Task
    <3>3. Wrote(p, t, "work")
      BY <1>3, <2>3 DEF Settle
    <3> HIDE DEF t
    <3> QED
      BY <1>1, <1>2, <2>1, <3>1, <3>2, <3>3, WriteShape
  <2>4. CASE Pause(p)
    <3> DEFINE t == [s EXCEPT !.status = "paused"]
    <3>1. t \in RunStates /\ StatusOf(t) = "paused"
      BY <1>1, <2>1 DEF RunStates, StatusOf, Sound, Terminal
    <3>2. Keeps(s, t)
      BY <1>1, <2>1, <2>4 DEF RunStates, Keeps, Sound, Doomed, Terminal, Pause, Task
    <3>3. Wrote(p, t, "persist")
      BY <1>3, <2>4 DEF Pause
    <3> HIDE DEF t
    <3> QED
      BY <1>1, <1>2, <2>1, <3>1, <3>2, <3>3, WriteShape
  <2>5. ASSUME NEW status \in {"completed", "failed"}, Conclude(p, status) PROVE Shaped(p)
    <3>1. PICK outcome \in {"failed", "succeeded", "partial"} :
            /\ outcome = "partial" => status = "completed"
            /\ Write(p, [s EXCEPT !.status = status, !.outcome = outcome], "persist")
      BY <2>5 DEF Conclude
    <3> DEFINE t == [s EXCEPT !.status = status, !.outcome = outcome]
    <3>2. t \in RunStates /\ StatusOf(t) \in Final
      BY <1>1 DEF RunStates, StatusOf, Terminal, Final
    <3>3. Keeps(s, t)
      BY <1>1, <2>1, <2>5, <3>1 DEF RunStates, Keeps, Sound, Doomed, Terminal, Conclude, Task
    <3>4. Wrote(p, t, "persist")
      BY <1>3, <3>1
    <3> HIDE DEF t
    <3> QED
      BY <1>1, <1>2, <2>1, <3>2, <3>3, <3>4, WriteShape
  <2>6. CASE HearCancel(p)
    <3> DEFINE t == CancelledState(Folded(s))
    <3>1. Folded(s) \in RunStates /\ Keeps(s, Folded(s))
      BY <1>1, MadeStates, FoldedKeeps
    <3>2. t \in RunStates /\ Keeps(Folded(s), t) /\ StatusOf(t) = "cancelled"
      BY <3>1, MadeStates, CancelledKeeps DEF Keeps
    <3>3. Keeps(s, t)
      BY <3>1, <3>2 DEF Keeps
    <3>4. Wrote(p, t, "persist")
      BY <2>6 DEF HearCancel, Wrote
    <3> HIDE DEF t
    <3> QED
      BY <1>1, <1>2, <2>1, <3>2, <3>3, <3>4, WriteShape DEF Final, Terminal
  <2> QED
    BY <1>4, <2>2, <2>3, <2>4, <2>5, <2>6 DEF Work
<1> QED
  BY <1>4, <1>5 DEF Work, Launch, Pause, HearCancel, Settle, Conclude

\* What a command does under the lock has the shape of a write, or changes
\* nothing.
LEMMA ChangeShape ==
  ASSUME CommandsInv, NEW p \in Processes, Change(p) PROVE Shaped(p)
<1> DEFINE s == mem[p]
<1>1. TypeOK /\ s \in RunStates /\ Sound(s) /\ Placed(p) /\ flag[p] \in BOOLEAN
  BY DEF CommandsInv, TypeOK, StatesAreSound, AllPlaced
<1>2. pc[p] = "locked" /\ Holds(p) /\ ~AtWork(p)
  BY DEF Holds, AtWork, Change, Approve, Cancel, Resume, Begin, Locked
<1>3. ASSUME NEW state, NEW label, Write(p, state, label) PROVE Wrote(p, state, label)
  BY <1>3 DEF Write, Wrote
<1>4. CASE Pass(p) \/ Fail(p)
  <2>1. /\ pc' = [pc EXCEPT ![p] = "release"]
        /\ UNCHANGED <<disk, lock, ended, mem, cmd, flag>>
    BY <1>4 DEF Pass, Fail, Goto, Keep
  <2>2. Others(p) /\ pc'[p] = "release"
    BY <1>1, <2>1 DEF Others, TypeOK
  <2>3. Placed(p)' /\ Passes(p)
    BY <1>2, <2>1, <2>2 DEF Placed, Passes, Same, Holds, AtWork
  <2> QED
    BY <2>2, <2>3 DEF Shaped
<1>5. CASE Approve(p)
  <2> DEFINE t == [s EXCEPT !.status = "approved", !.approved = TRUE]
  <2>1. CASE s.status = "awaiting_approval"
    <3>1. /\ t \in RunStates /\ StatusOf(t) = "approved" /\ StatusOf(s) = "awaiting_approval"
          /\ Keeps(s, t)
      BY <1>1, <2>1 DEF RunStates, StatusOf, Keeps, Sound, Doomed, Terminal
    <3>2. Wrote(p, t, "release")
      BY <1>3, <1>5, <2>1 DEF Approve, Status
    <3> HIDE DEF t
    <3> QED
      BY <1>1, <1>2, <3>1, <3>2, WriteShape
  <2> QED
    BY <1>4, <1>5, <2>1 DEF Approve, Status
<1>6. CASE Cancel(p)
  <2> DEFINE t == CancelledState(s)
  <2>1. CASE s.status # "cancelled"
    <3>1. /\ t \in RunStates /\ StatusOf(t) = "cancelled" /\ StatusOf(s) # "cancelled"
          /\ Keeps(s, t)
      <4>1. StatusOf(s) # "cancelled"
        BY <2>1 DEF StatusOf
      <4> QED
        BY <1>1, <4>1, MadeStates, CancelledKeeps
    <3>2. Wrote(p, t, "release")
      BY <1>3, <1>6, <2>1 DEF Cancel, Status
    <3> HIDE DEF t
    <3> QED
      BY <1>1, <1>2, <3>1, <3>2, WriteShape
  <2> QED
    BY <1>4, <1>6, <2>1 DEF Cancel, Status
<1>7. CASE Resume(p)
  <2> DEFINE again == flag[p] \/ s.status \in {"paused", "running"}
             fixed == Repaired(s, flag[p])
             t == [fixed EXCEPT !.status = "approved", !.outcome = "none"]
  <2>1. /\ fixed \in RunStates /\ Keeps(s, fixed) /\ fixed.task # "running"
        /\ fixed.status = s.status /\ StatusOf(fixed) = StatusOf(s)
    BY <1>1, MadeStates, RepairedKeeps
  <2>2. CASE again
    <3>1. s.approved
      <4>1. CASE flag[p]
        <5>1. cmd[p] = "resume"
          BY <1>7 DEF Resume, Locked
        <5>2. disk.approved
          BY <1>1, <1>2, <4>1, <5>1 DEF Placed
        <5> QED
          BY <1>2, <5>2 DEF CommandsInv, ApprovalStays, Approved
      <4>2. CASE s.status \in {"paused", "running"}
        BY <1>1, <4>2 DEF Sound
      <4> QED
        BY <2>2, <4>1, <4>2
    <3>2. t \in RunStates /\ StatusOf(t) = "approved" /\ Keeps(s, t)
      <4> HIDE DEF fixed
      <4> QED
        BY <2>1, <3>1 DEF RunStates, StatusOf, Keeps, Sound, Doomed, Terminal
    <3>3. StatusOf(s) \in {"approved", "running", "paused"} \cup Final
      BY <1>1, <3>1 DEF RunStates, StatusOf, Sound, Terminal, Final
    <3>4. Wrote(p, t, "release")
      BY <1>7, <2>2 DEF Resume, Resumed, Wrote, Status
    <3> HIDE DEF t
    <3> QED
      BY <1>1, <1>2, <3>2, <3>3, <3>4, WriteShape
  <2>3. CASE ~again
    <3>1. Wrote(p, fixed, "release")
      BY <1>7, <2>3 DEF Resume, Resumed, Wrote, Status
    <3> HIDE DEF fixed
    <3> QED
      BY <1>1, <1>2, <2>1, <3>1, WriteShape
  <2> QED
    BY <2>2, <2>3
<1>8. CASE Begin(p)
  <2> DEFINE t == [s EXCEPT !.status = "running"]
  <2>1. CASE s.status \in {"approved", "paused"}
    <3>1. /\ t \in RunStates /\ StatusOf(t) = "running" /\ t.status = "running"
          /\ StatusOf(s) \in {"approved", "paused"} /\ Keeps(s, t)
          /\ t.task # "running" /\ t.approved
      BY <1>1, <2>1 DEF RunStates, StatusOf, Keeps, Sound, Doomed, Terminal
    <3>2. Wrote(p, t, "work")
      BY <1>3, <1>8, <2>1 DEF Begin, Status
    <3> HIDE DEF t
    <3> QED
      BY <1>1, <1>2, <3>1, <3>2, WriteShape
  <2>2. CASE s.status = "completed"
    <3>1. Wrote(p, s, "release") /\ Keeps(s, s)
      BY <1>1, <1>3, <1>8, <2>2 DEF Begin, Status, Keeps
    <3> QED
      BY <1>1, <1>2, <3>1, WriteShape
  <2> QED
    BY <1>4, <1>8, <2>1, <2>2 DEF Begin, Status
<1> QED
  BY <1>5, <1>6, <1>7, <1>8 DEF Change

\* Nothing is done to the run before the lock, but the late note of a resume.
LEMMA DecideShape ==
  ASSUME CommandsInv, NEW p \in Processes, Decide(p) PROVE Shaped(p)
<1>1. TypeOK /\ Sound(mem[p]) /\ mem[p] \in RunStates
  BY DEF CommandsInv, StatesAreSound, TypeOK
<1> USE <1>1 DEF TypeOK
<1>2. pc[p] = "decide"
  BY DEF Decide, Deciding, DecideApprove, DecideRun, DecideDetach, DecideResume, DecideCancel
<1>3. UNCHANGED <<disk, lock, ended, mem>>
  BY DEF Decide, DecideApprove, DecideRun, DecideDetach, DecideResume, DecideCancel,
         Ready, Refuse, GoOn, Keep
<1>4. PICK label \in {"idle", "read", "note", "acquire"} : pc' = [pc EXCEPT ![p] = label]
  BY DEF Decide, DecideApprove, DecideRun, DecideDetach, DecideResume, DecideCancel,
         Ready, Refuse, GoOn, Goto
<1>5. \A q \in Processes \ {p} : cmd'[q] = cmd[q] /\ flag'[q] = flag[q]
  BY DEF Decide, DecideApprove, DecideRun, DecideDetach, DecideResume, DecideCancel,
         Ready, Refuse, GoOn, Keep
<1>6. Others(p) /\ pc'[p] = label
  BY <1>3, <1>4, <1>5 DEF Others
<1>7. Asks(p)
  BY <1>2, <1>3, <1>6 DEF Asks, Holds
<1>8. Placed(p)'
  <2>1. CASE DecideResume(p)
    <3>1. flag'[p] => flag[p] \/ ResumableFailure(p)
      BY <2>1 DEF DecideResume, Refuse, Keep
    <3>2. pc'[p] \in {"acquire", "note"} => flag'[p] = ResumableFailure(p)
      BY <2>1 DEF DecideResume, Refuse, Goto
    <3>3. ResumableFailure(p) => disk.approved
      BY DEF ResumableFailure, Status, Sound, CommandsInv, ApprovalStays, Approved
    <3>4. pc'[p] = "note" => Status(p) \in Terminal
      BY <2>1 DEF DecideResume, Refuse, Goto
    <3> QED
      BY <1>3, <1>6, <3>2, <3>3, <3>4 DEF Placed, Status
  <2>2. CASE ~DecideResume(p)
    <3>1. pc'[p] # "note"
      BY <2>2 DEF Decide, DecideApprove, DecideRun, DecideDetach, DecideCancel,
                  Ready, Refuse, GoOn, Goto
    <3>2. pc'[p] = "acquire" => cmd'[p] # "resume"
      BY <2>2 DEF Decide, DecideApprove, DecideRun, DecideDetach, DecideCancel, Deciding,
                  Ready, Refuse, GoOn, Goto, Keep
    <3> QED
      BY <1>6, <3>1, <3>2 DEF Placed
  <2> QED
    BY <2>1, <2>2
<1> QED
  BY <1>6, <1>7, <1>8 DEF Shaped

\* So has every other step its shape.
LEMMA OtherShapes ==
  ASSUME CommandsInv, NEW p \in Processes,
         \/ Read(p) \/ NoteNothingToResume(p) \/ Acquire(p) \/ Release(p) \/ Die(p)
         \/ \E c \in Commands, f \in BOOLEAN : Give(p, c, f)
  PROVE  Shaped(p)
<1>1. TypeOK /\ HoldersHold /\ Placed(p)
  BY DEF CommandsInv, AllPlaced
<1> USE <1>1 DEF TypeOK
<1>2. CASE Read(p)
  <2>1. Others(p) /\ pc[p] = "read" /\ pc'[p] = "decide" /\ mem'[p] = disk
    BY <1>2 DEF Read, Goto, Others
  <2> QED
    BY <1>2, <2>1 DEF Read, Shaped, Asks, Placed, Holds
<1>3. CASE NoteNothingToResume(p)
  <2>1. Others(p) /\ pc[p] = "note" /\ pc'[p] = "idle" /\ mem'[p] = mem[p]
    BY <1>3 DEF NoteNothingToResume, Goto, Others
  <2>2. Notes(p)
    BY <1>3, <2>1 DEF NoteNothingToResume, Save, Notes, Placed, Holds, Final
  <2> QED
    BY <2>1, <2>2 DEF Shaped, Placed
<1>4. CASE Acquire(p)
  <2>1. CASE Live
    <3>1. Others(p) /\ pc[p] = "acquire" /\ pc'[p] = "idle" /\ UNCHANGED <<disk, lock, ended, mem>>
      BY <1>4, <2>1 DEF Acquire, Refuse, Keep, Goto, Others
    <3> QED
      BY <3>1 DEF Shaped, Asks, Placed, Holds
  <2>2. CASE ~Live
    <3>1. /\ Others(p) /\ pc[p] = "acquire" /\ pc'[p] = "locked" /\ mem'[p] = disk
          /\ lock' = p /\ UNCHANGED <<disk, ended, cmd, flag>>
      BY <1>4, <2>2 DEF Acquire, Goto, Others
    <3>2. Takes(p)
      BY <2>2, <3>1 DEF Takes, Holds, AtWork, Live
    <3>3. Placed(p)'
      BY <3>1 DEF Placed
    <3> QED
      BY <3>1, <3>2, <3>3 DEF Shaped
  <2> QED
    BY <2>1, <2>2
<1>5. CASE Release(p)
  <2>1. /\ Others(p) /\ pc[p] = "release" /\ pc'[p] \in {"idle", "read"} /\ mem'[p] = mem[p]
        /\ UNCHANGED <<disk, ended>> /\ lock' = "none"
    BY <1>5 DEF Release, GoOn, Goto, Others
  <2>2. Leaves(p) /\ Placed(p)'
    BY <2>1, CommandConstants DEF Leaves, Same, Holds, Placed
  <2> QED
    BY <2>1, <2>2 DEF Shaped
<1>6. CASE Die(p)
  <2>1. /\ Others(p) /\ pc'[p] = "idle" /\ mem'[p] = mem[p] /\ UNCHANGED <<disk, ended>>
        /\ lock' = IF lock = p THEN "stale" ELSE lock
    BY <1>6 DEF Die, Goto, Others
  <2>2. Leaves(p) /\ Placed(p)'
    BY <2>1, CommandConstants DEF Leaves, Same, Holds, Placed, HoldersHold
  <2> QED
    BY <2>1, <2>2 DEF Shaped
<1>7. ASSUME NEW c \in Commands, NEW f \in BOOLEAN, Give(p, c, f) PROVE Shaped(p)
  <2>1. /\ Others(p) /\ pc[p] = "idle" /\ pc'[p] = "read"
        /\ UNCHANGED <<disk, lock, ended, mem>>
    BY <1>7 DEF Give, Goto, Others
  <2> QED
    BY <2>1 DEF Shaped, Asks, Placed, Holds
<1> QED
  BY <1>2, <1>3, <1>4, <1>5, <1>6, <1>7

\* Every step has one of the shapes.
LEMMA EveryStepIsShaped ==
  ASSUME CommandsInv, Next PROVE \E p \in Processes : Shaped(p)
BY WorkShape, ChangeShape, DecideShape, OtherShapes DEF Next, Step

-----------------------------------------------------------------------------
(* The invariant, by the shapes *)

\* The processes that a step of p leaves alone hold the lock as before.
LEMMA OthersHold ==
  ASSUME NEW p \in Processes, Others(p), NEW q \in Processes, q # p
  PROVE  /\ Holds(q)' <=> Holds(q)
         /\ AtWork(q)' <=> AtWork(q)
         /\ mem'[q] = mem[q]
BY DEF Others, Holds, AtWork

LEMMA HoldersStep ==
  ASSUME HoldersHold, NEW p \in Processes, Shaped(p) PROVE HoldersHold'
<1> SUFFICES ASSUME NEW q \in Processes PROVE Holds(q)' <=> lock' = q
  BY DEF HoldersHold
<1>1. q # p => (Holds(q)' <=> Holds(q))
  BY OthersHold DEF Shaped
<1> QED
  BY <1>1 DEF HoldersHold, Shaped, Asks, Notes, Takes, Passes, Leaves, Writes

\* The statuses a run has had are never forgotten.
LEMMA EndedGrows ==
  ASSUME NEW p \in Processes, Shaped(p) PROVE ended \subseteq ended'
BY DEF Shaped, Asks, Notes, Takes, Passes, Leaves, Same, Writes

LEMMA SoundStep ==
  ASSUME StatesAreSound, NEW p \in Processes, Shaped(p) PROVE StatesAreSound'
<1>1. ended \subseteq ended'
  BY EndedGrows
<1>2. ASSUME NEW q \in Processes, q # p
      PROVE  Sound(mem'[q]) /\ (StatusOf(mem'[q]) \in Final => StatusOf(mem'[q]) \in ended')
  <2>1. mem'[q] = mem[q]
    BY <1>2 DEF Shaped, Others
  <2> QED
    BY <1>1, <1>2, <2>1 DEF StatesAreSound, Recorded
<1>3. Sound(disk') /\ (StatusOf(disk') \in Final => StatusOf(disk') \in ended')
  BY <1>1 DEF StatesAreSound, Recorded, Shaped, Asks, Notes, Takes, Passes, Leaves, Same, Writes
<1>4. Sound(mem'[p]) /\ (StatusOf(mem'[p]) \in Final => StatusOf(mem'[p]) \in ended')
  BY <1>1 DEF StatesAreSound, Recorded, Shaped, Asks, Notes, Takes, Passes, Leaves, Same, Writes
<1> QED
  BY <1>2, <1>3, <1>4 DEF StatesAreSound, Recorded, StatusOf, Sound, Final, Terminal

LEMMA DiskStep ==
  ASSUME CommandsInv, NEW p \in Processes, Shaped(p) PROVE DiskIsKnown'
<1> SUFFICES ASSUME NEW q \in Processes, Holds(q)'
             PROVE  StatusOf(disk') = StatusOf(mem'[q]) \/ StatusOf(disk') \in ended'
  BY DEF DiskIsKnown, StatusOf
<1>1. ended \subseteq ended' /\ HoldersHold /\ DiskIsKnown /\ StatesAreSound
  BY EndedGrows DEF CommandsInv
<1>2. CASE Notes(p)
  <2>1. StatusOf(mem[p]) \in Final
    BY <1>2 DEF Notes, Status, StatusOf, Final
  <2>2. StatusOf(disk') \in ended'
    BY <1>2, <2>1 DEF Notes
  <2> QED
    BY <2>2
<1>3. CASE ~Notes(p) /\ q = p
  BY <1>1, <1>3 DEF Shaped, Asks, Takes, Passes, Leaves, Same, Writes, DiskIsKnown
<1>4. CASE ~Notes(p) /\ q # p
  <2>1. Holds(q) /\ mem'[q] = mem[q]
    BY <1>4, OthersHold DEF Shaped
  <2>2. ~Holds(p)
    BY <1>1, <1>4, <2>1 DEF HoldersHold
  <2>3. disk' = disk
    BY <1>4, <2>2 DEF Shaped, Asks, Takes, Passes, Leaves, Same, Writes
  <2> QED
    BY <1>1, <2>1, <2>3 DEF DiskIsKnown
<1> QED
  BY <1>2, <1>3, <1>4

\* A step of a process that writes nothing adds no state of the run.
LEMMA QuietStep ==
  ASSUME CommandsInv, NEW p \in Processes, Shaped(p), ~Writes(p, disk')
  PROVE  /\ disk' = disk \/ (Notes(p) /\ disk' = mem[p])
         /\ \A q \in Processes :
              /\ mem'[q] = mem[q] \/ mem'[q] = disk
              /\ Holds(q)' /\ ~Holds(q) => mem'[q] = disk /\ disk' = disk
              /\ Holds(q)' /\ Holds(q) => mem'[q] = mem[q]
<1> SUFFICES ASSUME NEW q \in Processes
             PROVE  /\ mem'[q] = mem[q] \/ mem'[q] = disk
                    /\ Holds(q)' /\ ~Holds(q) => mem'[q] = disk /\ disk' = disk
                    /\ Holds(q)' /\ Holds(q) => mem'[q] = mem[q]
  BY DEF Shaped, Asks, Notes, Takes, Passes, Leaves, Same
<1>1. q # p => (Holds(q)' <=> Holds(q)) /\ mem'[q] = mem[q]
  BY OthersHold DEF Shaped
<1> QED
  BY <1>1 DEF Shaped, Asks, Notes, Takes, Passes, Leaves, Same

\* When the holder of the lock writes, nobody else holds it.
LEMMA WriterIsAlone ==
  ASSUME CommandsInv, NEW p \in Processes, Shaped(p), Writes(p, disk'), NEW q \in Processes, q # p
  PROVE  ~Holds(q)' /\ mem'[q] = mem[q]
BY OthersHold DEF CommandsInv, HoldersHold, Writes, Shaped

\* The late note of a resume does not undo an approval: the only final state
\* without one is that of a cancelled run, and such a run is not approved.
LEMMA NoteKeepsApproval ==
  ASSUME CommandsInv, NEW p \in Processes, Notes(p), disk.approved PROVE mem[p].approved
<1>1. DoomStays /\ StatesAreSound
  BY DEF CommandsInv
<1>2. ASSUME ~mem[p].approved PROVE FALSE
  <2>1. Doomed(mem[p])
    BY <1>1, <1>2 DEF Notes, StatesAreSound, Sound, Doomed, Status, Terminal
  <2> QED
    BY <1>1, <2>1 DEF DoomStays, SomeDoomed, Doomed
<1> QED
  BY <1>2

LEMMA ApprovalStep ==
  ASSUME CommandsInv, NEW p \in Processes, Shaped(p) PROVE ApprovalStays'
<1>1. ApprovalStays /\ DoomStays /\ StatesAreSound
  BY DEF CommandsInv
<1> SUFFICES ASSUME Approved'
             PROVE  disk'.approved /\ \A q \in Processes : Holds(q)' => mem'[q].approved
  BY DEF ApprovalStays
<1>2. CASE Writes(p, disk')
  <2>1. disk'.approved
    <3>1. CASE Approved
      BY <1>1, <1>2, <3>1 DEF ApprovalStays, Writes
    <3>2. CASE ~Approved
      BY <1>2, <3>2, WriterIsAlone DEF Approved, Writes
    <3> QED
      BY <3>1, <3>2
  <2> QED
    BY <1>2, <2>1, WriterIsAlone DEF Writes
<1>3. CASE ~Writes(p, disk')
  <2>1. Approved
    BY <1>3, QuietStep DEF Approved
  <2>2. disk.approved /\ \A q \in Processes : Holds(q) => mem[q].approved
    BY <1>1, <2>1 DEF ApprovalStays
  <2>3. Notes(p) => mem[p].approved
    BY <2>2, NoteKeepsApproval
  <2> QED
    BY <1>3, <2>2, <2>3, QuietStep
<1> QED
  BY <1>2, <1>3

LEMMA DoomStep ==
  ASSUME CommandsInv, NEW p \in Processes, Shaped(p) PROVE DoomStays'
<1>1. ApprovalStays /\ DoomStays /\ StatesAreSound
  BY DEF CommandsInv
<1> SUFFICES ASSUME SomeDoomed'
             PROVE  Doomed(disk') /\ \A q \in Processes : Holds(q)' => Doomed(mem'[q])
  BY DEF DoomStays, Doomed
<1>2. CASE Writes(p, disk')
  <2>1. Doomed(disk')
    <3>1. CASE SomeDoomed
      BY <1>1, <1>2, <3>1 DEF DoomStays, Writes
    <3>2. CASE ~SomeDoomed
      BY <1>2, <3>2, WriterIsAlone DEF SomeDoomed, Writes, Doomed
    <3> QED
      BY <3>1, <3>2
  <2> QED
    BY <1>2, <2>1, WriterIsAlone DEF Writes
<1>3. CASE ~Writes(p, disk')
  <2>1. SomeDoomed
    BY <1>3, QuietStep DEF SomeDoomed, Doomed
  <2>2. Doomed(disk) /\ \A q \in Processes : Holds(q) => Doomed(mem[q])
    BY <1>1, <2>1 DEF DoomStays
  <2>3. Notes(p) => Doomed(mem[p])
    <3>1. ASSUME Notes(p) PROVE ~mem[p].approved
      BY <1>1, <2>2 DEF ApprovalStays, Approved, Doomed
    <3> QED
      BY <1>1, <3>1 DEF Notes, StatesAreSound, Sound, Doomed, Status, Terminal
  <2> QED
    BY <1>3, <2>2, <2>3, QuietStep
<1> QED
  BY <1>2, <1>3

LEMMA PlacesStep ==
  ASSUME CommandsInv, NEW p \in Processes, Shaped(p) PROVE AllPlaced'
<1> SUFFICES ASSUME NEW q \in Processes, q # p PROVE Placed(q)'
  BY DEF AllPlaced, Shaped
<1>1. pc'[q] = pc[q] /\ cmd'[q] = cmd[q] /\ flag'[q] = flag[q] /\ mem'[q] = mem[q]
  BY DEF Shaped, Others
<1>2. Placed(q)
  BY DEF CommandsInv, AllPlaced
<1>3. disk.approved => disk'.approved
  <2>1. CASE Writes(p, disk')
    BY <2>1 DEF Writes, CommandsInv, ApprovalStays, Approved
  <2>2. CASE ~Writes(p, disk') /\ disk.approved
    BY <2>2, QuietStep, NoteKeepsApproval
  <2> QED
    BY <2>1, <2>2
<1> QED
  BY <1>1, <1>2, <1>3 DEF Placed, Status

\* The inductive invariant.
LEMMA CommandsInvAlways == Spec => []CommandsInv
<1>1. Init => CommandsInv
  <2> SUFFICES ASSUME Init PROVE CommandsInv
    OBVIOUS
  <2> USE DEF Init, Planned
  <2>1. Planned \in RunStates
    BY DEF RunStates
  <2>2. TypeOK
    <3>1. 0 \in 0 .. MaxCommands /\ 0 \in 0 .. MaxCrashes
      BY CommandConstants
    <3>2. /\ cmd \in [Processes -> Commands] /\ then \in [Processes -> {"none", "run"}]
          /\ flag \in [Processes -> BOOLEAN] /\ mem \in [Processes -> RunStates]
      BY <2>1 DEF Commands
    <3> QED
      BY <2>1, <3>1, <3>2 DEF TypeOK
  <2>3. Sound(Planned) /\ Planned.status = "awaiting_approval" /\ ~Planned.approved
        /\ StatusOf(Planned) \notin Final
    BY DEF Sound, Terminal, StatusOf, Final
  <2>4. \A p \in Processes : mem[p] = Planned /\ pc[p] = "idle" /\ ~Holds(p) /\ lock # p
    BY CommandConstants DEF Holds
  <2>5. StatesAreSound
    BY <2>3, <2>4 DEF StatesAreSound, Recorded
  <2>6. HoldersHold /\ DiskIsKnown
    BY <2>4 DEF HoldersHold, DiskIsKnown
  <2>7. ApprovalStays /\ DoomStays
    BY <2>3, <2>4 DEF ApprovalStays, DoomStays, Approved, SomeDoomed, Doomed
  <2>8. AllPlaced
    BY <2>4 DEF AllPlaced, Placed
  <2> QED
    BY <2>2, <2>5, <2>6, <2>7, <2>8 DEF CommandsInv
<1>2. CommandsInv /\ [Next]_vars => CommandsInv'
  <2>1. ASSUME CommandsInv, Next PROVE CommandsInv'
    <3>1. TypeOK'
      BY <2>1, TypeStep DEF CommandsInv
    <3>2. PICK p \in Processes : Shaped(p)
      BY <2>1, EveryStepIsShaped
    <3>3. /\ StatesAreSound' /\ HoldersHold' /\ DiskIsKnown'
          /\ ApprovalStays' /\ DoomStays' /\ AllPlaced'
      BY <2>1, <3>2, SoundStep, HoldersStep, DiskStep, ApprovalStep, DoomStep, PlacesStep
      DEF CommandsInv
    <3> QED
      BY <3>1, <3>3 DEF CommandsInv
  <2>2. ASSUME CommandsInv, UNCHANGED vars PROVE CommandsInv'
    <3> USE <2>2 DEF vars
    <3>1. TypeOK' /\ HoldersHold' /\ AllPlaced'
      BY DEF CommandsInv, TypeOK, HoldersHold, Holds, AllPlaced, Placed, Status
    <3>2. StatesAreSound' /\ DiskIsKnown'
      BY DEF CommandsInv, StatesAreSound, Recorded, Sound, StatusOf, DiskIsKnown, Holds
    <3>3. ApprovalStays' /\ DoomStays'
      BY DEF CommandsInv, ApprovalStays, Approved, DoomStays, SomeDoomed, Doomed, Holds
    <3> QED
      BY <3>1, <3>2, <3>3 DEF CommandsInv
  <2> QED
    BY <2>1, <2>2
<1> QED
  BY <1>1, <1>2, PTL DEF Spec

-----------------------------------------------------------------------------
\* TypeOK holds: a repaired task is queued, a repaired attempt orphaned.
THEOREM TypeCorrect == Spec => []TypeOK
<1>1. CommandsInv => TypeOK
  BY DEF CommandsInv
<1> QED
  BY <1>1, CommandsInvAlways, PTL

\* No orchestrator ever works on a run that nobody approved, however many
\* commands decide on what they read before they held the lock.
THEOREM AlwaysApprovedFirst == Spec => []ApprovedFirst
<1>1. CommandsInv => ApprovedFirst
  BY DEF CommandsInv, AllPlaced, Placed, ApprovedFirst, AtWork
<1> QED
  BY <1>1, CommandsInvAlways, PTL

\* No orchestrator takes over what a dead one left running.
THEOREM NothingIsInherited == Spec => NothingInherited
<1>1. ASSUME CommandsInv, CommandsInv', [Next]_vars
      PROVE  [\A p \in Processes : AtWork(p)' /\ ~AtWork(p) =>
                mem'[p].task # "running" /\ mem'[p].attempt # "running"]_vars
  <2> SUFFICES ASSUME Next, NEW q \in Processes, AtWork(q)', ~AtWork(q)
               PROVE  mem'[q].task # "running" /\ mem'[q].attempt # "running"
    BY <1>1
  <2>1. PICK p \in Processes : Shaped(p)
    BY <1>1, EveryStepIsShaped
  <2>2. p = q
    BY <2>1, OthersHold DEF Shaped
  <2>3. Writes(q, disk')
    BY <2>1, <2>2 DEF Shaped, Asks, Notes, Takes, Passes, Leaves, AtWork, Holds
  <2> QED
    BY <2>3 DEF Writes, Sound
<1> QED
  BY <1>1, CommandsInvAlways, PTL DEF Spec, NothingInherited

\* Nothing that succeeded is run again, the late note of a resume apart.
THEOREM SuccessIsKept == Spec => SucceededIsKept
<1>1. ASSUME CommandsInv, [Next]_vars
      PROVE  [disk.task = "succeeded" /\ disk'.task # "succeeded" =>
                \E p \in Processes :
                  (pc[p] = "note" /\ pc'[p] = "idle") \/ (Holds(p) /\ mem[p] # disk)]_vars
  <2> SUFFICES ASSUME Next, disk.task = "succeeded", disk'.task # "succeeded"
               PROVE  \E p \in Processes :
                        (pc[p] = "note" /\ pc'[p] = "idle") \/ (Holds(p) /\ mem[p] # disk)
    BY <1>1
  <2>1. PICK p \in Processes : Shaped(p)
    BY <1>1, EveryStepIsShaped
  <2>2. Notes(p) \/ Writes(p, disk')
    BY <2>1 DEF Shaped, Asks, Takes, Passes, Leaves, Same
  <2> QED
    BY <2>2 DEF Notes, Writes
<1> QED
  BY <1>1, CommandsInvAlways, PTL DEF Spec, SucceededIsKept

-----------------------------------------------------------------------------
(* The life of the run *)

Executing == \E p \in Processes : AtWork(p)

\* The run is what the holder of the lock knows it to be.
LEMMA KnownIs ==
  ASSUME HoldersHold
  PROVE  /\ \A p \in Processes : Holds(p) => Known = mem[p] /\ (Executing <=> AtWork(p))
         /\ (\A p \in Processes : ~Holds(p)) => Known = disk /\ ~Executing
<1>1. ASSUME NEW p \in Processes, Holds(p) PROVE Known = mem[p] /\ (Executing <=> AtWork(p))
  <2>1. (CHOOSE q \in Processes : Holds(q)) = p
    BY <1>1 DEF HoldersHold
  <2>2. \A q \in Processes : AtWork(q) => q = p
    BY <1>1 DEF HoldersHold, Holds, AtWork
  <2> QED
    BY <1>1, <2>1, <2>2 DEF Known, Executing
<1>2. (\A p \in Processes : ~Holds(p)) => Known = disk /\ ~Executing
  BY DEF Known, Executing, AtWork, Holds
<1> QED
  BY <1>1, <1>2

\* And so it is after a step.
LEMMA KnownIsNext ==
  ASSUME HoldersHold'
  PROVE  /\ \A p \in Processes : Holds(p)' => Known' = mem'[p] /\ (Executing' <=> AtWork(p)')
         /\ (\A p \in Processes : ~Holds(p)') => Known' = disk' /\ ~Executing'
<1>1. ASSUME NEW p \in Processes, Holds(p)' PROVE Known' = mem'[p] /\ (Executing' <=> AtWork(p)')
  <2>1. (CHOOSE q \in Processes : Holds(q)') = p
    BY <1>1 DEF HoldersHold
  <2>2. \A q \in Processes : AtWork(q)' => q = p
    BY <1>1 DEF HoldersHold, Holds, AtWork
  <2> QED
    BY <1>1, <2>1, <2>2 DEF Known, Executing
<1>2. (\A p \in Processes : ~Holds(p)') => Known' = disk' /\ ~Executing'
  BY DEF Known, Executing, AtWork, Holds
<1> QED
  BY <1>1, <1>2

\* Whatever is written, the statuses the run has had stay up to date.
LEMMA PastIsKept ==
  ASSUME CommandsInv, CommandsInv', NEW p \in Processes, Shaped(p)
  PROVE  ended' = ended \cup ({StatusOf(Known')} \cap Final)
<1>1. StatesAreSound /\ StatesAreSound' /\ HoldersHold'
  BY DEF CommandsInv
<1>2. CASE Writes(p, disk')
  <2>1. Known' = disk'
    BY <1>1, <1>2, KnownIsNext DEF Writes
  <2> QED
    BY <1>2, <2>1 DEF Writes
<1>3. CASE ~Writes(p, disk')
  <2>1. ended' = ended
    BY <1>1, <1>3 DEF StatesAreSound, Recorded, Shaped, Asks, Notes, Takes, Passes, Leaves, Same
  <2>2. Known' = disk' \/ \E q \in Processes : Known' = mem'[q]
    BY <1>1, KnownIsNext
  <2>3. /\ StatusOf(disk') \in Final => StatusOf(disk') \in ended'
        /\ \A q \in Processes : StatusOf(mem'[q]) \in Final => StatusOf(mem'[q]) \in ended'
    BY <1>1 DEF StatesAreSound, Recorded, StatusOf, Final, Terminal
  <2>4. StatusOf(Known') \in Final => StatusOf(Known') \in ended'
    BY <2>2, <2>3
  <2> QED
    BY <2>1, <2>4
<1> QED
  BY <1>2, <1>3

\* What a step does to the run as it is known: nothing, what the holder
\* writes, or what a late note brings to light.
LEMMA StepsOfLife ==
  ASSUME CommandsInv, CommandsInv', NEW p \in Processes, Shaped(p)
  PROVE  \/ StatusOf(Known') = StatusOf(Known) /\ (Executing' => Executing)
         \/ StatusOf(Known') \in ended /\ (Executing' => Executing) /\ ended' = ended
         \/ /\ Writes(p, disk') /\ Moves(p, StatusOf(Known), StatusOf(Known'))
            /\ Executing <=> AtWork(p)
            /\ Executing' <=> AtWork(p)'
<1>1. StatesAreSound /\ HoldersHold /\ HoldersHold' /\ DiskIsKnown
  BY DEF CommandsInv
<1>2. CASE Writes(p, disk')
  <2>1. Known = mem[p] /\ (Executing <=> AtWork(p))
    BY <1>1, <1>2, KnownIs DEF Writes
  <2>2. Known' = disk' /\ (Executing' <=> AtWork(p)')
    BY <1>1, <1>2, KnownIsNext DEF Writes
  <2> QED
    BY <1>2, <2>1, <2>2 DEF Writes
<1>3. CASE ~Writes(p, disk') /\ \E q \in Processes \ {p} : Holds(q)
  <2>1. PICK q \in Processes \ {p} : Holds(q)
    BY <1>3
  <2>2. Holds(q)' /\ mem'[q] = mem[q] /\ (AtWork(q)' <=> AtWork(q))
    BY <2>1, OthersHold DEF Shaped
  <2>3. Known = mem[q] /\ (Executing <=> AtWork(q))
    BY <1>1, <2>1, KnownIs
  <2>4. Known' = mem'[q] /\ (Executing' <=> AtWork(q)')
    BY <1>1, <2>1, <2>2, KnownIsNext
  <2> QED
    BY <2>2, <2>3, <2>4
<1>4. CASE ~Writes(p, disk') /\ \A q \in Processes \ {p} : ~Holds(q)
  <2>0. \A q \in Processes \ {p} : ~Holds(q)'
    BY <1>4, OthersHold DEF Shaped
  <2>1. Holds(p) => Known = mem[p] /\ (Executing <=> AtWork(p))
    BY <1>1, KnownIs
  <2>2. ~Holds(p) => Known = disk /\ ~Executing
    BY <1>1, <1>4, KnownIs
  <2>3. Holds(p)' => Known' = mem'[p] /\ (Executing' <=> AtWork(p)')
    BY <1>1, KnownIsNext
  <2>4. ~Holds(p)' => Known' = disk' /\ ~Executing'
    BY <1>1, <2>0, KnownIsNext
  <2>5. CASE Asks(p) \/ Takes(p) \/ Passes(p)
    BY <2>1, <2>2, <2>3, <2>4, <2>5 DEF Asks, Takes, Passes, Same
  <2>6. CASE Leaves(p)
    BY <1>1, <2>1, <2>2, <2>4, <2>6 DEF Leaves, Same, DiskIsKnown
  <2>7. CASE Notes(p)
    <3>1. StatusOf(mem[p]) \in Final
      BY <2>7 DEF Notes, Status, StatusOf, Final
    <3>2. StatusOf(mem[p]) \in ended /\ ended' = ended
      BY <1>1, <2>7, <3>1 DEF Notes, StatesAreSound, Recorded
    <3> QED
      BY <2>4, <2>7, <3>2 DEF Notes
  <2> QED
    BY <1>4, <2>5, <2>6, <2>7 DEF Shaped
<1> QED
  BY <1>2, <1>3, <1>4

\* The life of the run is the one RunLifecycle describes, of which the late
\* actions are part.
THEOREM RefinesLifecycle == Spec => ImplementsLifecycle
<1> USE DEF Lifecycle!Over
<1>1. Init => Lifecycle!Init
  <2> SUFFICES ASSUME Init PROVE Lifecycle!Init
    OBVIOUS
  <2>1. \A p \in Processes : ~Holds(p) /\ ~AtWork(p)
    BY DEF Init, Holds, AtWork
  <2>2. Known = Planned /\ StatusOf(Planned) = "awaiting_approval"
    BY <2>1 DEF Init, Known, Planned, StatusOf
  <2> QED
    BY <2>1, <2>2 DEF Init, Lifecycle!Init
<1>2. ASSUME CommandsInv, CommandsInv', Next
      PROVE  [(Lifecycle!Next \/ Lifecycle!Late)
              /\ ended' = ended \cup ({StatusOf(Known)'} \cap Lifecycle!Over)]_Lifecycle!vars
  <2>1. PICK p \in Processes : Shaped(p)
    BY <1>2, EveryStepIsShaped
  <2>2. StatusOf(Known)' = StatusOf(Known')
    BY DEF StatusOf
  <2>3. ended' = ended \cup ({StatusOf(Known)'} \cap Lifecycle!Over)
    BY <1>2, <2>1, <2>2, PastIsKept DEF Final, Terminal
  <2> DEFINE E == \E q \in Processes : AtWork(q)
  <2>4. (E <=> Executing) /\ (E' <=> Executing')
    BY DEF Executing
  <2>5. CASE StatusOf(Known') = StatusOf(Known) /\ (Executing' => Executing)
    <3>1. CASE Executing <=> Executing'
      <4>1. StatusOf(Known) \in Final => StatusOf(Known) \in ended
        BY <1>2, KnownIs DEF CommandsInv, StatesAreSound, Recorded
      <4>2. ended' = ended
        BY <2>2, <2>3, <2>5, <4>1 DEF Final, Terminal
      <4>3. E' = E
        BY <2>4, <3>1
      <4> QED
        BY <2>2, <2>5, <4>2, <4>3 DEF Lifecycle!vars
    <3>2. CASE Executing /\ ~Executing'
      <4>1. Lifecycle!Leave
        BY <2>2, <2>4, <2>5, <3>2 DEF Lifecycle!Leave
      <4> QED
        BY <2>3, <4>1 DEF Lifecycle!Next
    <3> QED
      BY <2>5, <3>1, <3>2
  <2>6. CASE StatusOf(Known') \in ended /\ (Executing' => Executing)
    <3>1. Lifecycle!NoteLate
      BY <2>2, <2>4, <2>6 DEF Lifecycle!NoteLate
    <3> QED
      BY <2>3, <3>1 DEF Lifecycle!Late
  <2>7. CASE /\ Moves(p, StatusOf(Known), StatusOf(Known'))
             /\ Executing <=> AtWork(p)
             /\ Executing' <=> AtWork(p)'
             /\ ~(StatusOf(Known') = StatusOf(Known) /\ (Executing' => Executing))
    <3>1. Lifecycle!Next \/ Lifecycle!Late
      BY <2>2, <2>4, <2>7
      DEF Moves, Final, Terminal, Lifecycle!Next, Lifecycle!Late, Lifecycle!Approve, Lifecycle!Begin,
          Lifecycle!End, Lifecycle!Recover, Lifecycle!ResumeFailed, Lifecycle!Cancel,
          Lifecycle!CancelLate, Lifecycle!ResumeLate
    <3> QED
      BY <2>3, <3>1
  <2> QED
    BY <1>2, <2>1, <2>5, <2>6, <2>7, StepsOfLife
<1>3. ASSUME CommandsInv, UNCHANGED vars PROVE UNCHANGED Lifecycle!vars
  BY <1>3 DEF vars, Lifecycle!vars, Known, Holds, AtWork, StatusOf
<1> QED
  BY <1>1, <1>2, <1>3, CommandsInvAlways, PTL
  DEF Spec, ImplementsLifecycle, Lifecycle!Spec
=============================================================================
