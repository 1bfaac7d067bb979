---------------------------- MODULE RunLockProofs ----------------------------
(***************************************************************************)
(* Whoever contends for the lock of a run, and whoever dies meanwhile: no  *)
(* lock is left by a process that lived to release it, and of contenders   *)
(* that all live and try at least twice, one gets it.                      *)
(***************************************************************************)
EXTENDS RunLock, TLAPS

\* The file on disk belongs to a dead process or to one that will remove it.
FileIsOwned ==
  /\ Predecessor \in dead
  /\ file \in Processes => pc[file] \in {"write", "held"} \/ file \in dead

Winning == \E q \in Processes : pc[q] \in {"write", "held", "released"}

\* While nobody has died, a contender that lost the file of the predecessor
\* out of its way, or was refused, lost to somebody.
LostToSomebody ==
  dead = {Predecessor} =>
    \A p \in Processes :
      /\ pc[p] = "refused" \/ tries[p] > 1 => Winning
      /\ pc[p] = "exhausted" => tries[p] = Tries
      /\ pc[p] = "create" /\ tries[p] > 0 => file # Predecessor

LockInv == TypeOK /\ FileIsOwned /\ LostToSomebody

-----------------------------------------------------------------------------
\* Every step keeps the types.
LEMMA TypeStep == TypeOK /\ [Next]_vars => TypeOK'
<1> SUFFICES ASSUME TypeOK, [Next]_vars PROVE TypeOK'
  OBVIOUS
<1> USE LockConstants DEF TypeOK, Stopped
<1>1. CASE UNCHANGED vars
  BY <1>1 DEF vars
<1>2. ASSUME NEW p \in Processes, Step(p) \/ Die(p) PROVE TypeOK'
  <2>1. CASE Create(p)
    <3>1. tries[p] < Tries /\ tries' = [tries EXCEPT ![p] = @ + 1] /\ dead' = dead
      BY <2>1 DEF Create
    <3>2. tries' \in [Processes -> 0 .. Tries]
      BY <3>1
    <3>3. /\ file' \in Processes \cup {"none", Predecessor} /\ written' \in BOOLEAN
          /\ pc' \in [Processes -> {"create", "write", "held", "read", "unlink"} \cup Stopped]
      BY <2>1 DEF Create, Goto
    <3> QED
      BY <3>1, <3>2, <3>3
  <2>2. CASE Write(p)
    BY <2>2 DEF Write, At, Goto
  <2>3. CASE Read(p)
    BY <2>3 DEF Read, At, Goto
  <2>4. CASE Unlink(p)
    BY <2>4 DEF Unlink, RemoveFile, At, Goto
  <2>5. CASE GiveUp(p)
    BY <2>5 DEF GiveUp, At, Goto
  <2>6. CASE Release(p)
    BY <2>6 DEF Release, RemoveFile, At, Goto
  <2>7. CASE Die(p)
    BY <2>7 DEF Die
  <2> QED
    BY <1>2, <2>1, <2>2, <2>3, <2>4, <2>5, <2>6, <2>7 DEF Step
<1> QED
  BY <1>1, <1>2 DEF Next

\* Every step leaves the file with an owner who is dead or will remove it.
LEMMA OwnerStep == TypeOK /\ FileIsOwned /\ [Next]_vars => FileIsOwned'
<1> SUFFICES ASSUME TypeOK, FileIsOwned, [Next]_vars PROVE FileIsOwned'
  OBVIOUS
<1> USE LockConstants DEF TypeOK, FileIsOwned
<1>1. CASE UNCHANGED vars
  BY <1>1 DEF vars
<1>2. ASSUME NEW p \in Processes, Step(p) \/ Die(p) PROVE FileIsOwned'
  <2>1. CASE Create(p)
    BY <2>1 DEF Create, At, Goto
  <2>2. CASE Write(p)
    BY <2>2 DEF Write, At, Goto
  <2>3. CASE Read(p)
    BY <2>3 DEF Read, At, Goto
  <2>4. CASE Unlink(p)
    <3>1. file' = "none" /\ dead' = dead /\ pc' = [pc EXCEPT ![p] = "create"]
      BY <2>4 DEF Unlink, RemoveFile, Goto
    <3> QED
      BY <3>1, LockConstants
  <2>5. CASE GiveUp(p)
    BY <2>5 DEF GiveUp, At, Goto
  <2>6. CASE Release(p)
    BY <2>6, LockConstants DEF Release, RemoveFile, At, Goto
  <2>7. CASE Die(p)
    BY <2>7 DEF Die
  <2> QED
    BY <1>2, <2>1, <2>2, <2>3, <2>4, <2>5, <2>6, <2>7 DEF Step
<1> QED
  BY <1>1, <1>2 DEF Next

\* Somebody who is winning goes on to win.
LEMMA WinningStays ==
  ASSUME TypeOK, NEW p \in Processes, Step(p), Winning PROVE Winning'
<1> USE DEF TypeOK, Winning, At, Goto
<1>1. PICK q \in Processes : pc[q] \in {"write", "held", "released"}
  OBVIOUS
<1>2. pc'[q] \in {"write", "held", "released"}
  BY <1>1 DEF Step, Create, Write, Read, Unlink, GiveUp, Release
<1> QED
  BY <1>2

\* Every step keeps the account of who lost to whom.
LEMMA LosersStep == LockInv /\ [Next]_vars => LostToSomebody'
<1> SUFFICES ASSUME LockInv, [Next]_vars, (dead = {Predecessor})' PROVE
      \A q \in Processes :
        /\ pc'[q] = "refused" \/ tries'[q] > 1 => Winning'
        /\ pc'[q] = "exhausted" => tries'[q] = Tries
        /\ pc'[q] = "create" /\ tries'[q] > 0 => file' # Predecessor
  BY DEF LostToSomebody
<1> USE LockConstants DEF TypeOK
<1>0. TypeOK /\ FileIsOwned /\ LostToSomebody
  BY DEF LockInv
<1>1. CASE UNCHANGED vars
  BY <1>0, <1>1 DEF vars, LostToSomebody, Winning
<1>2. ASSUME NEW p \in Processes, Die(p) PROVE FALSE
  BY <1>2 DEF Die
<1>3. ASSUME NEW p \in Processes, Step(p), NEW q \in Processes PROVE
        /\ pc'[q] = "refused" \/ tries'[q] > 1 => Winning'
        /\ pc'[q] = "exhausted" => tries'[q] = Tries
        /\ pc'[q] = "create" /\ tries'[q] > 0 => file' # Predecessor
  <2>1. dead = {Predecessor}
    BY <1>3 DEF Step, Create, Write, Read, Unlink, GiveUp, Release
  <2>2. file \in Processes => Winning
    BY <1>0, <2>1 DEF FileIsOwned, Winning
  <2>3. Winning => Winning'
    BY <1>0, <1>3, WinningStays
  <2>4. /\ pc[q] = "refused" \/ tries[q] > 1 => Winning
        /\ pc[q] = "exhausted" => tries[q] = Tries
        /\ pc[q] = "create" /\ tries[q] > 0 => file # Predecessor
    BY <1>0, <2>1 DEF LostToSomebody
  <2> USE <1>0 DEF At, Goto
  <2>5. CASE Create(p)
    <3>1. CASE file = "none"
      <4>1. pc'[p] = "write" /\ file' = p
        BY <2>5, <3>1 DEF Create
      <4>2. Winning'
        BY <4>1 DEF Winning
      <4> QED
        BY <2>4, <2>5, <3>1, <4>1, <4>2 DEF Create
    <3>2. CASE file # "none"
      <4>1. /\ file' = file /\ pc' = [pc EXCEPT ![p] = "read"]
            /\ tries' = [tries EXCEPT ![p] = @ + 1] /\ pc[p] = "create"
        BY <2>5, <3>2 DEF Create
      <4>2. ASSUME q = p, tries'[q] > 1 PROVE Winning'
        <5>1. tries[q] > 0
          BY <4>1, <4>2
        <5>2. file \in Processes
          BY <2>4, <3>2, <4>1, <4>2, <5>1
        <5> QED
          BY <2>2, <2>3, <5>2
      <4> QED
        BY <2>3, <2>4, <4>1, <4>2
    <3> QED
      BY <3>1, <3>2
  <2>6. CASE Write(p)
    BY <2>3, <2>4, <2>6 DEF Write
  <2>7. CASE Read(p)
    <3>1. LiveLock => Winning
      BY <2>1, <2>2 DEF LiveLock
    <3> QED
      BY <2>3, <2>4, <2>7, <3>1 DEF Read
  <2>8. CASE Unlink(p)
    BY <2>3, <2>4, <2>8, LockConstants DEF Unlink, RemoveFile
  <2>9. CASE GiveUp(p)
    BY <2>3, <2>4, <2>9 DEF GiveUp
  <2>10. CASE Release(p)
    BY <2>3, <2>4, <2>10, LockConstants DEF Release, RemoveFile
  <2> QED
    BY <1>3, <2>5, <2>6, <2>7, <2>8, <2>9, <2>10 DEF Step
<1> QED
  BY <1>1, <1>2, <1>3 DEF Next

\* The inductive invariant.
LEMMA LockInvAlways == Spec => []LockInv
<1>1. Init => LockInv
  <2> SUFFICES ASSUME Init PROVE LockInv
    OBVIOUS
  <2>1. TypeOK
    <3>1. tries \in [Processes -> 0 .. Tries]
      BY LockConstants DEF Init
    <3>2. pc \in [Processes -> {"create", "write", "held", "read", "unlink"} \cup Stopped]
      BY DEF Init
    <3> QED
      BY <3>1, <3>2 DEF Init, TypeOK
  <2>2. FileIsOwned
    BY LockConstants DEF Init, FileIsOwned
  <2>3. ASSUME NEW p \in Processes PROVE pc[p] = "create" /\ tries[p] = 0
    BY <2>3 DEF Init
  <2>4. LostToSomebody
    BY <2>3 DEF LostToSomebody
  <2> QED
    BY <2>1, <2>2, <2>4 DEF LockInv
<1>2. LockInv /\ [Next]_vars => LockInv'
  BY TypeStep, OwnerStep, LosersStep DEF LockInv
<1> QED
  BY <1>1, <1>2, PTL DEF Spec

-----------------------------------------------------------------------------
\* TypeOK holds: the attempts are counted up to their number and no further,
\* and the file is always one of a contender or of the predecessor.
THEOREM TypeCorrect == Spec => []TypeOK
<1>1. LockInv => TypeOK
  BY DEF LockInv
<1> QED
  BY <1>1, LockInvAlways, PTL

\* Once every process has stopped or died, the lock is free or a dead one's
\* (releaseRunLock unlinks the path, whoever's file it is by now).
THEOREM NothingIsLeftLocked == Spec => []NothingLeftLocked
<1>1. LockInv => NothingLeftLocked
  BY LockConstants DEF LockInv, TypeOK, FileIsOwned, NothingLeftLocked, Stopped
<1> QED
  BY <1>1, LockInvAlways, PTL

\* With two attempts, as acquireRunLock makes, contenders that unlink each
\* other's files do not all lose.  With one they may: the attempt is spent on
\* the lock of the dead.
THEOREM OneOfThemWins == ASSUME Tries > 1 PROVE Spec => []SomeoneWins
<1>1. LockInv => SomeoneWins
  <2> SUFFICES ASSUME LockInv, Processes # {}, dead = {Predecessor},
                      \A p \in Processes : pc[p] \in Stopped
               PROVE  \E p \in Processes : pc[p] = "released"
    BY DEF SomeoneWins
  <2>1. PICK p \in Processes : TRUE
    OBVIOUS
  <2>2. pc[p] \in {"released", "refused", "exhausted"}
    BY <2>1 DEF Stopped
  <2>3. pc[p] # "released" => Winning
    BY <2>1, <2>2, LockConstants DEF LockInv, LostToSomebody, TypeOK
  <2> QED
    BY <2>1, <2>2, <2>3 DEF Winning, Stopped
<1> QED
  BY <1>1, LockInvAlways, PTL
=============================================================================
