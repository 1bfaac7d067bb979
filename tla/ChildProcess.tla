----------------------------- MODULE ChildProcess -----------------------------
(***************************************************************************)
(* One child process as startNdjsonProcess (process-runner.js) and         *)
(* runSingleGate (gates.js) run it: spawned at the head of its own process *)
(* group, stopped by a ladder of signals, settled once when its pipes      *)
(* close.  The module has no variables: it gives the effect of every       *)
(* callback on a process record, for the modules that own one.             *)
(*                                                                         *)
(* A timer counts down in whole seconds.  The group has a leader, the      *)
(* spawned process, and possibly a helper it left behind that keeps the    *)
(* pipes open; each member dies of the signals it does not catch.          *)
(***************************************************************************)
EXTENDS Naturals

Signals == {"SIGINT", "SIGTERM", "SIGKILL"}
Rank(signal) == CASE signal = "SIGINT" -> 1 [] signal = "SIGTERM" -> 2 [] OTHER -> 3
Members == {"leader", "helper"}

\* Rungs of escalate: seconds after the request, and the signal then sent
NdjsonLadder == {<<0, "SIGINT">>, <<3, "SIGTERM">>, <<6, "SIGKILL">>}
GateLadder   == {<<0, "SIGTERM">>, <<3, "SIGKILL">>}

Timers == [left : Nat, what : Signals \cup {"timeout", "grace", "guard", "request"}]

\* What the spawned program turns out to be.  Nobody alive: the spawn failed.
Worlds == [alive : SUBSET Members, obeys : [Members -> 1 .. 3]]

Processes ==
  [state     : {"none", "running", "settled"},
   timedOut  : BOOLEAN,
   cancelled : BOOLEAN,
   timers    : SUBSET Timers,
   ladder    : SUBSET (Nat \X Signals),
   alive     : SUBSET Members,
   obeys     : [Members -> 1 .. 3],   \* lowest rank of a signal it dies of
   exit      : {"unknown", "zero", "nonzero"},
   age       : Nat,                   \* seconds since it was first told to stop
   stray     : BOOLEAN]               \* a signal was sent after it settled

NoProcess ==
  [state |-> "none", timedOut |-> FALSE, cancelled |-> FALSE, timers |-> {}, ladder |-> {},
   alive |-> {}, obeys |-> [m \in Members |-> 1], exit |-> "unknown", age |-> 0,
   stray |-> FALSE]

Spawned(ladder, timeout, world) ==
  [NoProcess EXCEPT
     !.state = "running", !.ladder = ladder,
     !.timers = {[left |-> timeout, what |-> "timeout"]},
     !.alive = world.alive, !.obeys = world.obeys,
     !.exit = IF world.alive = {} THEN "nonzero" ELSE "unknown"]

Stopping(p) == p.timedOut \/ p.cancelled

\* The leader ends, on its own account or by a signal.
Ended(p, code) == [p EXCEPT !.alive = @ \ {"leader"}, !.exit = code]

\* killGroup: the whole group, or whoever has the number of a group that is
\* gone.  A handler may turn a signal into any exit code, SIGKILL has none.
Signalled(p, signal, code) ==
  LET dead == {m \in p.alive : p.obeys[m] <= Rank(signal)}
      left == [p EXCEPT !.alive = @ \ dead, !.stray = @ \/ p.state = "settled"]
  IN  IF "leader" \notin dead THEN left
      ELSE [left EXCEPT !.exit = IF signal = "SIGKILL" THEN "nonzero" ELSE code]

\* escalate, requestKill: a rung at 0 is a signal on its way.
Escalated(p) ==
  [p EXCEPT !.timers = @ \cup {[left |-> r[1], what |-> r[2]] : r \in p.ladder}]

\* Mutant of Cancelled: the settled guard is missing.
CancelledAnyway(p) == Escalated([p EXCEPT !.cancelled = TRUE])

\* cancel(): a no-op once the promise has settled
Cancelled(p) ==
  IF p.state # "running" THEN p ELSE Escalated([p EXCEPT !.cancelled = TRUE])

Due(p) == {t \in p.timers : t.left = 0}

Expired(p, t, code) ==
  LET q == [p EXCEPT !.timers = @ \ {t}]
  IN  IF t.what = "timeout" THEN Escalated([q EXCEPT !.timedOut = TRUE])
                            ELSE Signalled(q, t.what, code)

\* "close" fires when the leader is gone and nobody holds its pipes; "error"
\* when there never was one.
Closable(p) == p.state = "running" /\ p.alive = {}

\* Mutant of Settled: finalize forgets the timers of the ladder.
SettledArmed(p) == [p EXCEPT !.state = "settled"]

\* finalize
Settled(p) == [p EXCEPT !.state = "settled", !.timers = {}]

\* A second passes only when nothing is due.
Idle(p) == Due(p) = {} /\ ~Closable(p)

OneSecondLater(p) ==
  [p EXCEPT
     !.timers = {[t EXCEPT !.left = @ - 1] : t \in p.timers},
     !.age = IF Stopping(p) /\ p.state = "running" THEN @ + 1 ELSE @]
=============================================================================
