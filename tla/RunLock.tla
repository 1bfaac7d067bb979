------------------------------- MODULE RunLock -------------------------------
(***************************************************************************)
(* The lock that makes a run single-writer (lock-control.js): every command*)
(* that changes a run takes it, orchestrators hold it while they execute.  *)
(*                                                                         *)
(* The steps are the file system calls, which other processes may come     *)
(* between: the exclusive create, the write of the holder's pid, the read  *)
(* of a contender, the unlink of a lock taken for dead, the release.       *)
(***************************************************************************)
EXTENDS Naturals, FiniteSets

CONSTANTS
  Processes,    \* processes that run a command on the run, once each
  Predecessor,  \* a process that died holding the lock
  Tries,        \* attempts of acquireRunLock
  MaxCrashes    \* bound on the processes that die

ASSUME LockConstants ==
  /\ IsFiniteSet(Processes) /\ Predecessor \notin Processes
  /\ "none" \notin Processes \cup {Predecessor}
  /\ Tries \in Nat \ {0} /\ MaxCrashes \in Nat

VARIABLES
  file,     \* who created the lock file; "none" when there is no file
  written,  \* whether its pid has been written
  pc,       \* what each process does next
  tries,    \* attempts it has started
  dead      \* processes that died

vars == <<file, written, pc, tries, dead>>

Stopped == {"released", "refused", "exhausted"}

\* Mutant of LiveLock: any lock file is a live one.
AnyLock == file # "none"

\* readLiveLock: an empty file is not JSON, a dead pid is not alive.
LiveLock == file \notin {"none"} \cup dead /\ written

Init ==
  /\ \/ file = "none" /\ written = FALSE
     \/ file = Predecessor /\ written \in BOOLEAN
  /\ pc = [p \in Processes |-> "create"]
  /\ tries = [p \in Processes |-> 0]
  /\ dead = {Predecessor}

At(p, label) == pc[p] = label /\ p \notin dead
Goto(p, label) == pc' = [pc EXCEPT ![p] = label]

\* writeFileSync with flag "wx": the file is there, its content is not yet.
Create(p) ==
  /\ At(p, "create") /\ tries[p] < Tries
  /\ tries' = [tries EXCEPT ![p] = @ + 1]
  /\ IF file = "none"
       THEN file' = p /\ written' = FALSE /\ Goto(p, "write")
       ELSE UNCHANGED <<file, written>> /\ Goto(p, "read")
  /\ UNCHANGED dead

\* The content goes to the file p created, even if it was unlinked meanwhile.
Write(p) ==
  /\ At(p, "write")
  /\ written' = (written \/ file = p)
  /\ Goto(p, "held")
  /\ UNCHANGED <<file, tries, dead>>

Read(p) ==
  /\ At(p, "read")
  /\ Goto(p, IF LiveLock THEN "refused" ELSE "unlink")
  /\ UNCHANGED <<file, written, tries, dead>>

RemoveFile == file' = "none" /\ written' = FALSE

Unlink(p) ==
  /\ At(p, "unlink")
  /\ RemoveFile
  /\ Goto(p, "create")
  /\ UNCHANGED <<tries, dead>>

GiveUp(p) ==
  /\ At(p, "create") /\ tries[p] = Tries
  /\ Goto(p, "exhausted")
  /\ UNCHANGED <<file, written, tries, dead>>

\* Mutant of Release: the lock file is left behind.
ReleaseForgotten(p) ==
  /\ At(p, "held") /\ Goto(p, "released") /\ UNCHANGED <<file, written, tries, dead>>

\* releaseRunLock unlinks the path, whoever's file it is by now.
Release(p) ==
  /\ At(p, "held")
  /\ RemoveFile
  /\ Goto(p, "released")
  /\ UNCHANGED <<tries, dead>>

Die(p) ==
  /\ p \notin dead /\ pc[p] \notin Stopped
  /\ Cardinality(dead \ {Predecessor}) < MaxCrashes
  /\ dead' = dead \cup {p}
  /\ UNCHANGED <<file, written, pc, tries>>

Step(p) == Create(p) \/ Write(p) \/ Read(p) \/ Unlink(p) \/ GiveUp(p) \/ Release(p)

Next == \E p \in Processes : Step(p) \/ Die(p)

Spec == Init /\ [][Next]_vars

-----------------------------------------------------------------------------
TypeOK ==
  /\ file \in Processes \cup {"none", Predecessor} /\ written \in BOOLEAN
  /\ pc \in [Processes -> {"create", "write", "held", "read", "unlink"} \cup Stopped]
  /\ tries \in [Processes -> 0 .. Tries]
  /\ dead \subseteq Processes \cup {Predecessor}

\* Contenders do not all lose: when every one has stopped and none has died,
\* one of them held the lock -- whatever lock a dead process left, and however
\* they unlinked each other's files.
SomeoneWins ==
  (Processes # {} /\ dead = {Predecessor} /\ \A p \in Processes : pc[p] \in Stopped) =>
    \E p \in Processes : pc[p] = "released"

\* Once everyone has stopped, no lock file is left, unless by a process that died.
NothingLeftLocked ==
  (\A p \in Processes : pc[p] \in Stopped \/ p \in dead) => file \in {"none"} \cup dead
=============================================================================
