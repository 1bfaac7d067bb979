---------------------------- MODULE AcpExecProofs ----------------------------
(***************************************************************************)
(* What one ACP turn guarantees for every timeout and whatever the agent   *)
(* answers, leaves out, catches or leaves behind.                          *)
(***************************************************************************)
EXTENDS AcpExec, TLAPS

\* Something due ends p within n + 6 seconds of the moment that was since
\* seconds ago: the timer that begins the ladder, or the SIGKILL at its top.
Soon(p, kind, n, since) ==
  \/ p.alive = {}
  \/ \E t \in p.timers : \/ t.what = kind /\ t.left + since <= n
                         \/ t.what = "SIGKILL" /\ t.left + since <= n + 6

\* The process is there until it is settled, and then nothing is armed for it.
ProcessFits ==
  /\ proc.state \in {"running", "settled"} /\ proc.ladder = NdjsonLadder /\ ~proc.stray
  /\ proc.state = "settled" => proc.timers = {} /\ ~reading /\ step = "over"

\* What the handshake has got to
TurnFits ==
  /\ step = "session/prompt" \/ turn # "none" \/ "session/prompt" \in sent => modelSet
  /\ turn # "none" => "session/prompt" \in sent

StopFits ==
  /\ cancelStarted <=> Stopping(proc)
  /\ "session/cancel" \in sent => cancelStarted
  /\ ~Stopping(proc) => proc.age = 0

TimersFit ==
  /\ step = "over" => \A t \in proc.timers : t.what \notin {"timeout", "request"}
  /\ step # "over" => teardown = 0

ClocksFit ==
  proc.state = "running" =>
    /\ Stopping(proc) => Soon(proc, "grace", 2, proc.age)
    /\ step = "over" => Soon(proc, "guard", 3, teardown)
    /\ proc.age <= 8 /\ teardown <= 9

AcpInv == TypeOK /\ ProcessFits /\ TurnFits /\ StopFits /\ TimersFit /\ ClocksFit

\* A step keeps the invariant, the promise of a stoppable worker, and after the
\* turn its word on the timeout.
KeepsAll ==
  /\ AcpInv'
  /\ [Limit!Next]_(Limit!vars)
  /\ step = "over" => proc'.timedOut = proc.timedOut

-----------------------------------------------------------------------------
(* What the callbacks do to the process *)

Codes == {"zero", "nonzero"}
Ladders == SUBSET (Nat \X Signals)

\* From p to q everything stays but the timers, and some may be dead.
Alike(p, q) ==
  /\ q \in Processes /\ q.state = p.state /\ q.stray = p.stray /\ q.age = p.age
  /\ q.ladder = p.ladder /\ q.alive \subseteq p.alive

SameStop(p, q) == q.timedOut = p.timedOut /\ q.cancelled = p.cancelled

LEMMA UntimedAlike ==
  ASSUME NEW p \in Processes, NEW T \in SUBSET Timers
  PROVE  LET q == [p EXCEPT !.timers = T]
         IN  Alike(p, q) /\ SameStop(p, q) /\ q.timers = T /\ q.alive = p.alive
  BY DEF Alike, SameStop, Processes

\* The end of the handshake leaves the ladder and the grace, and arms a guard.
LEMMA OverAlike ==
  ASSUME NEW p \in Processes
  PROVE  LET q == With(Without(p, {"timeout", "request"}), 3, "guard")
         IN  /\ Alike(p, q) /\ SameStop(p, q) /\ q.alive = p.alive
             /\ q.timers = {t \in p.timers : t.what \notin {"timeout", "request"}}
                             \cup {[left |-> 3, what |-> "guard"]}
<1> DEFINE kept == {t \in p.timers : t.what \notin {"timeout", "request"}}
           T == kept \cup {[left |-> 3, what |-> "guard"]}
<1>1. T \in SUBSET Timers
  BY DEF Processes, Timers
<1>2. With(Without(p, {"timeout", "request"}), 3, "guard") = [p EXCEPT !.timers = T]
  BY DEF With, Without, Processes
<1> HIDE DEF T
<1>3. LET q == [p EXCEPT !.timers = T]
      IN  Alike(p, q) /\ SameStop(p, q) /\ q.timers = T /\ q.alive = p.alive
  BY <1>1, UntimedAlike
<1> QED
  BY <1>2, <1>3 DEF T

\* Going on arms and disarms nothing but a request's own timer.
LEMMA AdvanceAlike ==
  ASSUME TypeOK, NEW s, Advance(s)
  PROVE  /\ Alike(proc, proc') /\ SameStop(proc, proc') /\ proc'.alive = proc.alive
         /\ \A t \in proc.timers : t.what # "request" => t \in proc'.timers
<1> DEFINE kept == {t \in proc.timers : t.what \notin {"request"}}
           T == kept \cup RequestTimers(s)
<1>1. RequestTimers(s) \subseteq Timers
  BY AcpConstants DEF RequestTimers, Timers, TypeOK
<1>2. T \in SUBSET Timers
  BY <1>1 DEF TypeOK, Processes
<1>3. proc' = [proc EXCEPT !.timers = T]
  BY DEF Advance, Without, TypeOK, Processes
<1>4. \A t \in proc.timers : t.what # "request" => t \in T
  OBVIOUS
<1> HIDE DEF T
<1>5. LET q == [proc EXCEPT !.timers = T]
      IN  Alike(proc, q) /\ SameStop(proc, q) /\ q.timers = T /\ q.alive = proc.alive
  BY <1>2, UntimedAlike DEF TypeOK
<1> QED
  BY <1>3, <1>4, <1>5

\* The ladder is armed up to its SIGKILL.
LEMMA EscalatedAlike ==
  ASSUME NEW p \in Processes, p.ladder = NdjsonLadder
  PROVE  LET q == Escalated(p)
         IN  /\ Alike(p, q) /\ SameStop(p, q) /\ q.alive = p.alive /\ p.timers \subseteq q.timers
             /\ [left |-> 6, what |-> "SIGKILL"] \in q.timers
             /\ \A t \in q.timers : t \in p.timers \/ t.what \in Signals
<1> DEFINE rungs == {[left |-> r[1], what |-> r[2]] : r \in p.ladder}
           T == p.timers \cup rungs
<1>1. \A r \in p.ladder : [left |-> r[1], what |-> r[2]] \in Timers /\ r[2] \in Signals
  BY DEF Processes, Timers
<1>2. T \in SUBSET Timers
  BY <1>1 DEF Processes
<1>3. [left |-> 6, what |-> "SIGKILL"] \in rungs
  <2>1. <<6, "SIGKILL">> \in p.ladder
    BY DEF NdjsonLadder
  <2> QED
    BY <2>1
<1>4. \A t \in rungs : t.what \in Signals
  BY <1>1
<1>5. Escalated(p) = [p EXCEPT !.timers = T]
  BY DEF Escalated
<1>6. [left |-> 6, what |-> "SIGKILL"] \in T /\ p.timers \subseteq T
      /\ \A t \in T : t \in p.timers \/ t.what \in Signals
  BY <1>3, <1>4
<1> HIDE DEF T
<1>7. LET q == [p EXCEPT !.timers = T]
      IN  Alike(p, q) /\ SameStop(p, q) /\ q.timers = T /\ q.alive = p.alive
  BY <1>2, UntimedAlike
<1> QED
  BY <1>5, <1>6, <1>7

\* A signal to a running group changes only who is alive and the exit, and
\* nobody survives SIGKILL.
LEMMA SignalledAlike ==
  ASSUME NEW p \in Processes, p.state = "running", NEW signal \in Signals, NEW code \in Codes
  PROVE  LET q == Signalled(p, signal, code)
         IN  /\ Alike(p, q) /\ SameStop(p, q) /\ q.timers = p.timers
             /\ signal = "SIGKILL" => q.alive = {}
<1> DEFINE dead == {m \in p.alive : p.obeys[m] <= Rank(signal)}
           left == [p EXCEPT !.alive = @ \ dead, !.stray = @ \/ p.state = "settled"]
<1>1. /\ Alike(p, left) /\ SameStop(p, left) /\ left.timers = p.timers
      /\ left.alive = p.alive \ dead
  BY DEF Alike, SameStop, Processes
<1>2. signal = "SIGKILL" => p.alive \ dead = {}
  BY DEF Processes, Rank
<1>3. CASE "leader" \notin dead
  BY <1>1, <1>2, <1>3 DEF Signalled
<1>4. CASE "leader" \in dead
  <2> DEFINE q == [left EXCEPT !.exit = IF signal = "SIGKILL" THEN "nonzero" ELSE code]
  <2>1. Signalled(p, signal, code) = q
    BY <1>4 DEF Signalled
  <2> HIDE DEF left
  <2>2. /\ Alike(left, q) /\ SameStop(left, q) /\ q.timers = left.timers
        /\ q.alive = left.alive
    BY <1>1 DEF Alike, SameStop, Processes, Codes
  <2> HIDE DEF q
  <2> QED
    BY <1>1, <1>2, <2>1, <2>2 DEF Alike, SameStop
<1> QED
  BY <1>3, <1>4

-----------------------------------------------------------------------------
(* The clocks *)

\* What neither disarms the clock nor raises the dead leaves the end as soon.
LEMMA SoonStays ==
  ASSUME NEW p, NEW q, NEW kind, NEW n, NEW since, Soon(p, kind, n, since),
         q.alive \subseteq p.alive,
         \A t \in p.timers : t.what \in {kind, "SIGKILL"} => t \in q.timers
  PROVE  Soon(q, kind, n, since)
  BY DEF Soon

\* The first timer of the clock, expired, has armed the ladder.
LEMMA SoonClimbs ==
  ASSUME NEW p, NEW q, NEW kind, NEW n \in Nat, NEW since \in Nat, Soon(p, kind, n, since),
         NEW u \in p.timers, u.left = 0,
         q.alive \subseteq p.alive, p.timers \ {u} \subseteq q.timers,
         u.what = "SIGKILL" => q.alive = {},
         u.what = kind => [left |-> 6, what |-> "SIGKILL"] \in q.timers
  PROVE  Soon(q, kind, n, since)
<1>1. CASE p.alive = {} \/ q.alive = {}
  BY <1>1 DEF Soon
<1>2. CASE p.alive # {} /\ q.alive # {}
  <2>1. PICK t \in p.timers : \/ t.what = kind /\ t.left + since <= n
                              \/ t.what = "SIGKILL" /\ t.left + since <= n + 6
    BY <1>2 DEF Soon
  <2>2. CASE t # u
    BY <2>1, <2>2 DEF Soon
  <2>3. CASE t = u
    <3>1. t.what = kind /\ since <= n
      BY <1>2, <2>1, <2>3
    <3> DEFINE top == [left |-> 6, what |-> "SIGKILL"]
    <3>2. top \in q.timers /\ top.what = "SIGKILL" /\ top.left + since <= n + 6
      BY <2>3, <3>1
    <3> HIDE DEF top
    <3> QED
      BY <3>2 DEF Soon
  <2> QED
    BY <2>2, <2>3
<1> QED
  BY <1>1, <1>2

\* A second brings the end a second closer.
LEMMA SoonSecond ==
  ASSUME NEW p \in Processes, p.state = "running", Idle(p), NEW kind, NEW n \in Nat,
         NEW since \in Nat, Soon(p, kind, n, since)
  PROVE  Soon(OneSecondLater(p), kind, n, since + 1) /\ since < n + 6
<1>1. PICK t \in p.timers : \/ t.what = kind /\ t.left + since <= n
                            \/ t.what = "SIGKILL" /\ t.left + since <= n + 6
  BY DEF Soon, Idle, Closable
<1>2. t \in Timers /\ t.left \in Nat \ {0}
  BY DEF Processes, Timers, Idle, Due
<1> DEFINE u == [t EXCEPT !.left = @ - 1]
<1>3. u \in OneSecondLater(p).timers /\ u.what = t.what /\ u.left = t.left - 1
  <2>1. OneSecondLater(p).timers = {[x EXCEPT !.left = @ - 1] : x \in p.timers}
    BY DEF OneSecondLater, Processes
  <2> QED
    BY <1>2, <2>1 DEF Timers
<1> HIDE DEF u
<1>4. \/ u.what = kind /\ u.left + (since + 1) <= n
      \/ u.what = "SIGKILL" /\ u.left + (since + 1) <= n + 6
  BY <1>1, <1>2, <1>3
<1> QED
  BY <1>1, <1>2, <1>3, <1>4 DEF Soon

-----------------------------------------------------------------------------
(* The steps *)

LEMMA SpawnedFits ==
  ASSUME NEW ladder \in Ladders, NEW left \in Nat, NEW w \in Worlds
  PROVE  LET p == Spawned(ladder, left, w)
         IN  /\ p \in Processes /\ p.state = "running" /\ p.ladder = ladder /\ p.age = 0
             /\ ~p.stray /\ p.timedOut = FALSE /\ p.cancelled = FALSE
<1> DEFINE first == [left |-> left, what |-> "timeout"]
<1>1. first \in Timers
  BY DEF Timers
<1> QED
  BY <1>1 DEF Spawned, NoProcess, Processes, Worlds, Ladders

LEMMA InitInv == Init => AcpInv
<1> SUFFICES ASSUME Init PROVE AcpInv
  OBVIOUS
<1>1. PICK w \in ProcessWorlds :
        /\ proc = [Spawned(NdjsonLadder, timeout, w) EXCEPT !.timers = @ \cup RequestTimers("initialize")]
        /\ sent = IF w.alive = {} THEN {} ELSE {"initialize"}
  BY DEF Init
<1> DEFINE p == Spawned(NdjsonLadder, timeout, w)
           T == p.timers \cup RequestTimers("initialize")
<1>2. timeout \in Nat /\ timeout \in 1 .. MaxTimeout /\ w \in Worlds
  BY AcpConstants DEF Init
<1>3. RequestTimers("initialize") \subseteq Timers
  BY <1>2, AcpConstants DEF RequestTimers, Timers
<1>4. /\ p \in Processes /\ p.state = "running" /\ p.ladder = NdjsonLadder /\ p.age = 0
      /\ ~p.stray /\ ~p.timedOut /\ ~p.cancelled
  <2>1. NdjsonLadder \in Ladders
    BY DEF NdjsonLadder, Signals, Ladders
  <2> QED
    BY <1>2, <2>1, SpawnedFits
<1>5. T \in SUBSET Timers
  BY <1>3, <1>4 DEF Processes
<1> HIDE DEF p, T
<1>6. Alike(p, proc) /\ SameStop(p, proc)
  <2>1. proc = [p EXCEPT !.timers = T]
    BY <1>1 DEF p, T
  <2> QED
    BY <1>4, <1>5, <2>1, UntimedAlike
<1>7. /\ proc \in Processes /\ proc.state = "running" /\ ~proc.stray /\ proc.ladder = NdjsonLadder
      /\ ~Stopping(proc) /\ proc.age = 0
  BY <1>4, <1>6 DEF Alike, SameStop, Stopping
<1>8. TypeOK
  BY <1>1, <1>2, <1>7 DEF Init, TypeOK, Requests
<1>9. ProcessFits /\ TurnFits /\ StopFits /\ TimersFit /\ ClocksFit
  BY <1>1, <1>7 DEF Init, ProcessFits, TurnFits, StopFits, TimersFit, ClocksFit
<1> QED
  BY <1>8, <1>9 DEF AcpInv

\* What the invariant says of the process, for a reader of one step
LEMMA Now ==
  ASSUME AcpInv
  PROVE  /\ TypeOK /\ proc \in Processes /\ proc.age \in Nat /\ teardown \in Nat
         /\ proc.ladder = NdjsonLadder
         /\ step # "over" \/ reading \/ proc.timers # {} => proc.state = "running"
         /\ \A t \in proc.timers : t \in Timers
  BY DEF AcpInv, TypeOK, ProcessFits, Processes

\* A step that neither stops the agent nor settles it, and lets no time pass
LEMMA OrdinaryStep ==
  ASSUME AcpInv, TypeOK', TurnFits', proc.state = "running",
         Alike(proc, proc'), SameStop(proc, proc'),
         cancelStarted' = cancelStarted, teardown' = teardown,
         "session/cancel" \in sent' => "session/cancel" \in sent,
         step' = "over" => \A t \in proc'.timers : t.what \notin {"timeout", "request"},
         step' # "over" => step # "over",
         Stopping(proc) => Soon(proc', "grace", 2, proc.age),
         step' = "over" => Soon(proc', "guard", 3, teardown)
  PROVE  KeepsAll
<1>1. Stopping(proc') = Stopping(proc)
  BY DEF SameStop, Stopping
<1>2. ProcessFits'
  BY DEF AcpInv, ProcessFits, Alike
<1>3. StopFits'
  BY <1>1 DEF AcpInv, StopFits, Alike, Stopping
<1>4. TimersFit'
  BY DEF AcpInv, TimersFit
<1>5. ClocksFit'
  <2>1. proc.age <= 8 /\ teardown <= 9
    BY DEF AcpInv, ClocksFit
  <2> QED
    BY <1>1, <2>1 DEF ClocksFit, Alike, Stopping, Soon
<1>6. UNCHANGED Limit!vars /\ proc'.timedOut = proc.timedOut
  BY <1>1 DEF Limit!vars, Alike, SameStop
<1> QED
  BY <1>2, <1>3, <1>4, <1>5, <1>6 DEF AcpInv, KeepsAll

\* The clocks that run go on when no signal of theirs is disarmed.
LEMMA ClocksStay ==
  ASSUME AcpInv, NEW q, q.alive \subseteq proc.alive, proc.state = "running",
         \A t \in proc.timers : t.what \in {"grace", "guard", "SIGKILL"} => t \in q.timers
  PROVE  /\ Stopping(proc) => Soon(q, "grace", 2, proc.age)
         /\ step = "over" => Soon(q, "guard", 3, teardown)
<1>1. /\ Stopping(proc) => Soon(proc, "grace", 2, proc.age)
      /\ step = "over" => Soon(proc, "guard", 3, teardown)
  BY DEF AcpInv, ClocksFit
<1> QED
  BY <1>1, SoonStays

\* The handshake ends.
LEMMA OverStep ==
  ASSUME AcpInv, TypeOK', TurnFits', step # "over",
         NEW p \in Processes, Alike(proc, p), SameStop(proc, p), Over(p),
         \A t \in proc.timers : t.what # "request" => t \in p.timers,
         cancelStarted' = cancelStarted, teardown' = teardown,
         "session/cancel" \in sent' => "session/cancel" \in sent
  PROVE  KeepsAll
<1>1. proc' = With(Without(p, {"timeout", "request"}), 3, "guard") /\ step' = "over"
  BY DEF Over
<1>2. /\ Alike(p, proc') /\ SameStop(p, proc') /\ proc'.alive = p.alive
      /\ proc'.timers = {t \in p.timers : t.what \notin {"timeout", "request"}}
                          \cup {[left |-> 3, what |-> "guard"]}
  BY <1>1, OverAlike
<1>3. Alike(proc, proc') /\ SameStop(proc, proc') /\ proc.state = "running"
  BY <1>2, Now DEF Alike, SameStop
<1>4. \A t \in proc'.timers : t.what \notin {"timeout", "request"}
  BY <1>2
<1>5. Stopping(proc) => Soon(proc', "grace", 2, proc.age)
  BY <1>2, <1>3, ClocksStay DEF Alike
<1>6. Soon(proc', "guard", 3, teardown)
  <2> DEFINE guard == [left |-> 3, what |-> "guard"]
  <2>1. guard \in proc'.timers /\ guard.what = "guard" /\ guard.left + teardown <= 3
    BY <1>2 DEF AcpInv, TimersFit
  <2> HIDE DEF guard
  <2> QED
    BY <2>1 DEF Soon
<1> QED
  BY <1>1, <1>3, <1>4, <1>5, <1>6, OrdinaryStep

LEMMA SameIsAlike ==
  ASSUME AcpInv PROVE Alike(proc, proc) /\ SameStop(proc, proc)
  BY Now DEF Alike, SameStop

LEMMA RefusedStep == ASSUME AcpInv, Refused PROVE KeepsAll
<1>1. Over(proc) /\ step \in Requests /\ step # "over"
  BY Now DEF Refused, TypeOK, Requests
<1>2. proc' \in Processes
  BY <1>1, Now, OverAlike DEF Over, Alike
<1>3. TypeOK' /\ TurnFits'
  BY <1>1, <1>2, Now DEF AcpInv, Refused, Over, TypeOK, TurnFits, turnVars
<1> QED
  BY <1>1, <1>3, Now, SameIsAlike, OverStep DEF Refused

LEMMA AnsweredStep == ASSUME AcpInv, NEW result \in {"good", "bad"}, Answered(result) PROVE KeepsAll
<1>1. /\ step \in Requests /\ step # "over" /\ step \in sent /\ reading
      /\ UNCHANGED <<timeout, message, tail, reading, cancelStarted, teardown>>
  BY Now DEF Answered, Readable, TypeOK, Requests
<1>2. /\ session' \in BOOLEAN /\ modelSet' \in BOOLEAN /\ turn' \in {"none", "end_turn", "other"}
      /\ modelSet => modelSet'
      /\ step = "session/set_model" => modelSet'
      /\ turn' # turn => step = "session/prompt"
  BY Now DEF Answered, Learn, TypeOK
<1>3. CASE NextStep(step) = "over"
  <2>1. Over(proc) /\ UNCHANGED sent
    BY <1>3 DEF Answered
  <2>2. proc' \in Processes
    BY <2>1, Now, OverAlike DEF Over, Alike
  <2>3. TypeOK'
    BY <1>1, <1>2, <2>1, <2>2, Now DEF Over, TypeOK
  <2>4. TurnFits'
    BY <1>1, <1>2, <2>1 DEF AcpInv, TurnFits, Over
  <2> QED
    BY <1>1, <2>1, <2>3, <2>4, Now, SameIsAlike, OverStep
<1>4. CASE NextStep(step) # "over"
  <2> DEFINE s == NextStep(step)
  <2>1. Advance(s) /\ s \in Requests /\ s # "over" /\ step # "session/prompt"
        /\ (s = "session/prompt" => step = "session/set_model")
    BY <1>1, <1>4 DEF Answered, NextStep, Requests
  <2> HIDE DEF s
  <2>2. step' = s /\ stdinOpen' = stdinOpen /\ (sent' = sent \/ sent' = sent \cup {s})
    BY <2>1 DEF Advance, Write
  <2>3. /\ Alike(proc, proc') /\ SameStop(proc, proc') /\ proc'.alive = proc.alive
        /\ \A t \in proc.timers : t.what # "request" => t \in proc'.timers
    BY <2>1, Now, AdvanceAlike
  <2>4. TypeOK'
    BY <1>1, <1>2, <2>1, <2>2, <2>3, Now DEF TypeOK, Alike
  <2>5. TurnFits'
    BY <1>1, <1>2, <2>1, <2>2 DEF AcpInv, TurnFits, TypeOK, Requests
  <2>6. proc.state = "running" /\ ("session/cancel" \in sent' => "session/cancel" \in sent)
    BY <1>1, <2>1, <2>2, Now DEF Requests
  <2>7. Stopping(proc) => Soon(proc', "grace", 2, proc.age)
    BY <2>3, <2>6, ClocksStay
  <2> QED
    BY <1>1, <2>1, <2>2, <2>3, <2>4, <2>5, <2>6, <2>7, OrdinaryStep
<1> QED
  BY <1>3, <1>4

LEMMA StdoutClosesStep == ASSUME AcpInv, StdoutCloses PROVE KeepsAll
<1>1. reading /\ proc.state = "running" /\ UNCHANGED <<timeout, sent, message, tail, cancelStarted, teardown>>
  BY Now DEF StdoutCloses
<1>2. /\ session' \in BOOLEAN /\ modelSet' \in BOOLEAN /\ turn' \in {"none", "end_turn", "other"}
      /\ modelSet => modelSet'
      /\ turn' # turn => step = "session/prompt" /\ step \in sent
  <2>1. CASE tail # "none" /\ step \in sent
    BY <2>1, Now DEF StdoutCloses, Learn, TypeOK
  <2>2. CASE ~(tail # "none" /\ step \in sent)
    BY <2>2, Now DEF StdoutCloses, TypeOK
  <2> QED
    BY <2>1, <2>2
<1>3. CASE step = "over"
  <2>1. UNCHANGED <<proc, step, stdinOpen>>
    BY <1>3 DEF StdoutCloses
  <2>2. TypeOK'
    BY <1>1, <1>2, <2>1, Now DEF TypeOK, StdoutCloses
  <2>3. TurnFits'
    BY <1>1, <1>2, <1>3, <2>1 DEF AcpInv, TurnFits
  <2>4. /\ Stopping(proc) => Soon(proc', "grace", 2, proc.age)
        /\ step = "over" => Soon(proc', "guard", 3, teardown)
        /\ step' = "over" => \A t \in proc'.timers : t.what \notin {"timeout", "request"}
    BY <1>1, <2>1 DEF AcpInv, ClocksFit, TimersFit
  <2> QED
    BY <1>1, <1>3, <2>1, <2>2, <2>3, <2>4, SameIsAlike, OrdinaryStep
<1>4. CASE step # "over"
  <2>1. Over(proc)
    BY <1>4 DEF StdoutCloses
  <2>2. proc' \in Processes
    BY <2>1, Now, OverAlike DEF Over, Alike
  <2>3. TypeOK'
    BY <1>1, <1>2, <2>1, <2>2, Now DEF Over, TypeOK, StdoutCloses
  <2>4. TurnFits'
    BY <1>1, <1>2, <1>4, <2>1 DEF AcpInv, TurnFits, Over
  <2> QED
    BY <1>1, <1>4, <2>1, <2>3, <2>4, Now, SameIsAlike, OverStep
<1> QED
  BY <1>3, <1>4

\* A timer that is due is armed for a process that runs.
LEMMA DueIsArmed ==
  ASSUME AcpInv, NEW t \in Due(proc), NEW q, q = [proc EXCEPT !.timers = @ \ {t}]
  PROVE  /\ t \in proc.timers /\ t \in Timers /\ t.left = 0 /\ proc.state = "running"
         /\ q.timers = proc.timers \ {t} /\ q.alive = proc.alive
         /\ q \in Processes /\ Alike(proc, q) /\ SameStop(proc, q)
<1> DEFINE T == proc.timers \ {t}
<1>1. t \in proc.timers /\ t \in Timers /\ t.left = 0 /\ proc.state = "running" /\ proc \in Processes
  BY Now DEF Due
<1>2. T \in SUBSET Timers /\ q = [proc EXCEPT !.timers = T]
  BY <1>1 DEF Processes
<1> HIDE DEF T
<1>3. LET p == [proc EXCEPT !.timers = T]
      IN  Alike(proc, p) /\ SameStop(proc, p) /\ p.timers = T /\ p.alive = proc.alive
  BY <1>1, <1>2, UntimedAlike
<1>4. Alike(proc, q) /\ SameStop(proc, q) /\ q.timers = T /\ q.alive = proc.alive
  BY <1>2, <1>3
<1> QED
  BY <1>1, <1>4 DEF Alike, T

LEMMA RequestExpiresStep == ASSUME AcpInv, NEW t \in Due(proc), RequestExpires(t) PROVE KeepsAll
<1> DEFINE q == [proc EXCEPT !.timers = @ \ {t}]
<1>1. /\ t \in proc.timers /\ q.timers = proc.timers \ {t} /\ q \in Processes
      /\ Alike(proc, q) /\ SameStop(proc, q)
  BY DueIsArmed
<1>2. Over(q) /\ t.what = "request" /\ UNCHANGED <<timeout, sent, turnVars, reading, cancelStarted, teardown>>
  BY DEF RequestExpires
<1> HIDE DEF q
<1>3. step # "over"
  BY <1>1, <1>2 DEF AcpInv, TimersFit
<1>4. proc' \in Processes
  BY <1>1, <1>2, OverAlike DEF Over, Alike
<1>5. TypeOK' /\ TurnFits'
  BY <1>2, <1>3, <1>4, Now DEF AcpInv, Over, TypeOK, TurnFits, turnVars
<1> QED
  BY <1>1, <1>2, <1>3, <1>5, OverStep

LEMMA EscalatesStep == ASSUME AcpInv, NEW t \in Due(proc), Escalates(t) PROVE KeepsAll
<1> DEFINE q == [proc EXCEPT !.timers = @ \ {t}]
<1>1. /\ t \in proc.timers /\ t.left = 0 /\ q.timers = proc.timers \ {t} /\ q \in Processes
      /\ Alike(proc, q) /\ SameStop(proc, q) /\ q.alive = proc.alive /\ proc.state = "running"
  BY DueIsArmed
<1>2. /\ proc' = Escalated(q) /\ t.what \in {"grace", "guard"} /\ stdinOpen' = (stdinOpen /\ t.what # "grace")
      /\ UNCHANGED <<timeout, step, sent, turnVars, reading, cancelStarted, teardown>>
  BY DEF Escalates
<1> HIDE DEF q
<1>3. q.ladder = NdjsonLadder
  BY <1>1, Now DEF Alike
<1>4. /\ Alike(q, proc') /\ SameStop(q, proc') /\ proc'.alive = q.alive /\ q.timers \subseteq proc'.timers
      /\ [left |-> 6, what |-> "SIGKILL"] \in proc'.timers
      /\ \A u \in proc'.timers : u \in q.timers \/ u.what \in Signals
  BY <1>1, <1>2, <1>3, EscalatedAlike
<1>5. Alike(proc, proc') /\ SameStop(proc, proc')
  BY <1>1, <1>4 DEF Alike, SameStop
<1>6. TypeOK' /\ TurnFits'
  BY <1>2, <1>5, Now DEF AcpInv, TypeOK, TurnFits, turnVars, Alike
<1>7. Stopping(proc) => Soon(proc', "grace", 2, proc.age)
  <2>1. ASSUME Stopping(proc) PROVE Soon(proc, "grace", 2, proc.age)
    BY <1>1, <2>1 DEF AcpInv, ClocksFit
  <2> QED
    BY <1>1, <1>2, <1>4, <2>1, Now, SoonClimbs
<1>8. step = "over" => Soon(proc', "guard", 3, teardown)
  <2>1. ASSUME step = "over" PROVE Soon(proc, "guard", 3, teardown)
    BY <1>1, <2>1 DEF AcpInv, ClocksFit
  <2> QED
    BY <1>1, <1>2, <1>4, <2>1, Now, SoonClimbs
<1>9. step' = "over" => \A u \in proc'.timers : u.what \notin {"timeout", "request"}
  BY <1>1, <1>2, <1>4 DEF AcpInv, TimersFit, Signals
<1> QED
  BY <1>1, <1>2, <1>5, <1>6, <1>7, <1>8, <1>9, OrdinaryStep

LEMMA SignalGoesStep ==
  ASSUME AcpInv, NEW t \in Due(proc), NEW code \in Codes, SignalGoes(t, code) PROVE KeepsAll
<1> DEFINE q == [proc EXCEPT !.timers = @ \ {t}]
<1>1. /\ t \in proc.timers /\ t.left = 0 /\ q.timers = proc.timers \ {t} /\ q \in Processes
      /\ Alike(proc, q) /\ SameStop(proc, q) /\ q.alive = proc.alive /\ proc.state = "running"
  BY DueIsArmed
<1>2. /\ proc' = Signalled(q, t.what, code) /\ t.what \in Signals
      /\ UNCHANGED <<timeout, step, sent, turnVars, reading, stdinOpen, cancelStarted, teardown>>
  BY DEF SignalGoes
<1> HIDE DEF q
<1>3. q.state = "running"
  BY <1>1 DEF Alike
<1>4. /\ Alike(q, proc') /\ SameStop(q, proc') /\ proc'.timers = q.timers
      /\ t.what = "SIGKILL" => proc'.alive = {}
  BY <1>1, <1>2, <1>3, SignalledAlike
<1>5. Alike(proc, proc') /\ SameStop(proc, proc')
  BY <1>1, <1>4 DEF Alike, SameStop
<1>6. TypeOK' /\ TurnFits'
  BY <1>2, <1>5, Now DEF AcpInv, TypeOK, TurnFits, turnVars, Alike
<1>7. t.what \notin {"grace", "guard"} /\ proc'.alive \subseteq proc.alive
  BY <1>2, <1>5 DEF Signals, Alike
<1>8. Stopping(proc) => Soon(proc', "grace", 2, proc.age)
  <2>1. ASSUME Stopping(proc) PROVE Soon(proc, "grace", 2, proc.age)
    BY <1>1, <2>1 DEF AcpInv, ClocksFit
  <2> QED
    BY <1>1, <1>4, <1>7, <2>1, Now, SoonClimbs
<1>9. step = "over" => Soon(proc', "guard", 3, teardown)
  <2>1. ASSUME step = "over" PROVE Soon(proc, "guard", 3, teardown)
    BY <1>1, <2>1 DEF AcpInv, ClocksFit
  <2> QED
    BY <1>1, <1>4, <1>7, <2>1, Now, SoonClimbs
<1>10. step' = "over" => \A u \in proc'.timers : u.what \notin {"timeout", "request"}
  BY <1>1, <1>2, <1>4 DEF AcpInv, TimersFit
<1> QED
  BY <1>1, <1>2, <1>5, <1>6, <1>8, <1>9, <1>10, OrdinaryStep

\* The agent's own doings, and its end, arm and disarm nothing.
LEMMA AgentStep ==
  ASSUME AcpInv, TypeOK', TurnFits', proc.state = "running",
         Alike(proc, proc'), SameStop(proc, proc'), proc'.timers = proc.timers,
         UNCHANGED <<step, sent, cancelStarted, teardown>>
  PROVE  KeepsAll
<1>1. step' = "over" => \A t \in proc'.timers : t.what \notin {"timeout", "request"}
  BY DEF AcpInv, TimersFit
<1>2. proc'.alive \subseteq proc.alive
  BY DEF Alike
<1>3. /\ Stopping(proc) => Soon(proc', "grace", 2, proc.age)
      /\ step = "over" => Soon(proc', "guard", 3, teardown)
  BY <1>2, ClocksStay
<1> QED
  BY <1>1, <1>3, OrdinaryStep

LEMMA MessageChunkStep ==
  ASSUME AcpInv, NEW total \in {"some", "overflow"}, MessageChunk(total) PROVE KeepsAll
<1>1. TypeOK' /\ TurnFits'
  BY Now DEF AcpInv, MessageChunk, TypeOK, TurnFits
<1> QED
  BY <1>1, Now, SameIsAlike, AgentStep DEF MessageChunk

LEMMA UnterminatedAnswerStep ==
  ASSUME AcpInv, NEW result \in {"good", "bad"}, UnterminatedAnswer(result) PROVE KeepsAll
<1>1. TypeOK' /\ TurnFits'
  BY Now DEF AcpInv, UnterminatedAnswer, TypeOK, TurnFits
<1> QED
  BY <1>1, Now, SameIsAlike, AgentStep DEF UnterminatedAnswer, Readable

LEMMA AgentEndsStep ==
  ASSUME AcpInv, NEW code \in Codes, AgentEnds(code) \/ HelperEnds PROVE KeepsAll
<1>1. /\ Alike(proc, proc') /\ SameStop(proc, proc') /\ proc'.timers = proc.timers
      /\ proc.state = "running"
  BY Now DEF AgentEnds, HelperEnds, Ended, Alike, SameStop, Processes, Codes
<1>2. UNCHANGED <<timeout, step, sent, turnVars, reading, stdinOpen, cancelStarted, teardown>>
  BY DEF AgentEnds, HelperEnds
<1>3. TypeOK' /\ TurnFits'
  BY <1>1, <1>2, Now DEF AcpInv, TypeOK, TurnFits, turnVars, Alike
<1> QED
  BY <1>1, <1>2, <1>3, AgentStep

\* Both reasons to stop begin the same sequence, once.
LEMMA CancelSequenceStep ==
  ASSUME AcpInv, proc.state = "running",
         NEW p \in Processes, Alike(proc, p), p.alive = proc.alive, Stopping(p), CancelSequence(p),
         p.timers \subseteq proc.timers,
         \A t \in proc.timers : t.what # "timeout" => t \in p.timers,
         step = "over" => p.timedOut = proc.timedOut
  PROVE  KeepsAll
<1> DEFINE grace == [left |-> 2, what |-> "grace"]
<1>1. /\ cancelStarted' = TRUE
      /\ UNCHANGED <<timeout, step, turnVars, reading, stdinOpen, teardown>>
      /\ sent \subseteq sent' /\ sent' \subseteq sent \cup {"session/cancel"}
  BY DEF CancelSequence, Write
<1>2. /\ Alike(p, proc') /\ SameStop(p, proc') /\ proc'.alive = p.alive
      /\ p.timers \subseteq proc'.timers /\ proc'.timers \subseteq p.timers \cup {grace}
      /\ ~cancelStarted => grace \in proc'.timers
  <2>1. CASE cancelStarted
    BY <2>1 DEF CancelSequence, Alike, SameStop
  <2>2. CASE ~cancelStarted
    <3> DEFINE T == p.timers \cup {grace}
    <3>1. proc' = [p EXCEPT !.timers = T]
      BY <2>2 DEF CancelSequence, With
    <3>2. T \in SUBSET Timers
      BY DEF Processes, Timers
    <3>3. p.timers \subseteq T /\ grace \in T /\ T = p.timers \cup {grace}
      OBVIOUS
    <3> HIDE DEF T, grace
    <3>4. LET q == [p EXCEPT !.timers = T]
          IN  Alike(p, q) /\ SameStop(p, q) /\ q.timers = T /\ q.alive = p.alive
      BY <3>2, UntimedAlike
    <3> QED
      BY <3>1, <3>3, <3>4
  <2> QED
    BY <2>1, <2>2
<1>3. Alike(proc, proc') /\ Stopping(proc') /\ proc'.timedOut = p.timedOut
  BY <1>2 DEF Alike, SameStop, Stopping
<1>4. TypeOK' /\ TurnFits'
  BY <1>1, <1>3, Now DEF AcpInv, TypeOK, TurnFits, turnVars, Alike
<1>5. ProcessFits' /\ StopFits'
  BY <1>1, <1>3 DEF AcpInv, ProcessFits, StopFits, Alike
<1>6. TimersFit'
  BY <1>1, <1>2 DEF AcpInv, TimersFit
<1>7. \A t \in proc.timers : t.what \in {"grace", "guard", "SIGKILL"} => t \in proc'.timers
  BY <1>2
<1>8. Soon(proc', "grace", 2, proc.age)
  <2>1. CASE Stopping(proc)
    BY <1>3, <1>7, <2>1, ClocksStay DEF Alike
  <2>2. CASE ~Stopping(proc)
    <3>1. grace \in proc'.timers /\ grace.what = "grace" /\ grace.left + proc.age <= 2
      BY <1>2, <2>2 DEF AcpInv, StopFits
    <3> HIDE DEF grace
    <3> QED
      BY <3>1 DEF Soon
  <2> QED
    BY <2>1, <2>2
<1>9. step = "over" => Soon(proc', "guard", 3, teardown)
  BY <1>3, <1>7, ClocksStay DEF Alike
<1>10. ClocksFit'
  <2>1. proc.age <= 8 /\ teardown <= 9 /\ proc'.age = proc.age
    BY <1>3 DEF AcpInv, ClocksFit, Alike
  <2> QED
    BY <1>1, <1>8, <1>9, <2>1 DEF ClocksFit, Soon
<1>11. [Limit!Next]_(Limit!vars)
  BY <1>3 DEF Limit!Next, Limit!Stop, Alike
<1>12. step = "over" => proc'.timedOut = proc.timedOut
  BY <1>3
<1> QED
  BY <1>4, <1>5, <1>6, <1>10, <1>11, <1>12 DEF KeepsAll, AcpInv

LEMMA CancelStep == ASSUME AcpInv, Cancel PROVE KeepsAll
<1> DEFINE p == [proc EXCEPT !.cancelled = TRUE]
<1>1. /\ p \in Processes /\ Alike(proc, p) /\ p.alive = proc.alive /\ Stopping(p)
      /\ p.timers = proc.timers /\ p.timedOut = proc.timedOut
  BY Now DEF Alike, Stopping, Processes
<1>2. CancelSequence(p) /\ proc.state = "running"
  BY DEF Cancel
<1> HIDE DEF p
<1> QED
  BY <1>1, <1>2, CancelSequenceStep

LEMMA TimeoutExpiresStep == ASSUME AcpInv, NEW t \in Due(proc), TimeoutExpires(t) PROVE KeepsAll
<1> DEFINE q == [proc EXCEPT !.timers = @ \ {t}]
           p == [q EXCEPT !.timedOut = TRUE]
<1>1. /\ t \in proc.timers /\ q.timers = proc.timers \ {t} /\ q \in Processes
      /\ Alike(proc, q) /\ q.alive = proc.alive /\ proc.state = "running"
  BY DueIsArmed
<1>2. t.what = "timeout" /\ CancelSequence([proc EXCEPT !.timedOut = TRUE, !.timers = @ \ {t}])
  BY DEF TimeoutExpires
<1>3. [proc EXCEPT !.timedOut = TRUE, !.timers = @ \ {t}] = p
  BY Now DEF Processes
<1>4. CancelSequence(p)
  BY <1>2, <1>3
<1> HIDE DEF q
<1>5. /\ p \in Processes /\ Alike(q, p) /\ p.alive = q.alive /\ Stopping(p)
      /\ p.timers = q.timers
  BY <1>1 DEF Alike, Stopping, Processes
<1> HIDE DEF p
<1>6. Alike(proc, p)
  BY <1>1, <1>5 DEF Alike
<1>7. step # "over"
  BY <1>1, <1>2 DEF AcpInv, TimersFit
<1> QED
  BY <1>1, <1>2, <1>4, <1>5, <1>6, <1>7, CancelSequenceStep

LEMMA FinalizeStep == ASSUME AcpInv, Finalize PROVE KeepsAll
<1>1. /\ proc'.state = "settled" /\ proc'.timers = {} /\ proc' \in Processes
      /\ proc'.stray = proc.stray /\ proc'.ladder = proc.ladder /\ proc'.age = proc.age
      /\ SameStop(proc, proc')
  BY Now DEF Finalize, Settled, SameStop, Processes
<1>2. /\ step' = "over" /\ reading' = FALSE /\ proc.state = "running"
      /\ UNCHANGED <<timeout, sent, turnVars, stdinOpen, cancelStarted, teardown>>
  BY DEF Finalize, Closable
<1>3. Stopping(proc') = Stopping(proc)
  BY <1>1 DEF SameStop, Stopping
<1>4. TypeOK' /\ ProcessFits'
  BY <1>1, <1>2, Now DEF AcpInv, TypeOK, ProcessFits, turnVars
<1>5. TurnFits' /\ StopFits' /\ TimersFit' /\ ClocksFit'
  BY <1>1, <1>2, <1>3 DEF AcpInv, TurnFits, StopFits, TimersFit, ClocksFit, turnVars, Stopping
<1>6. [Limit!Next]_(Limit!vars)
  BY <1>1, <1>2, <1>3 DEF Limit!Next, Limit!Settle
<1> QED
  BY <1>1, <1>4, <1>5, <1>6 DEF KeepsAll, AcpInv, SameStop

\* The clocks of a second ago
LEMMA TickStep == ASSUME AcpInv, Tick PROVE KeepsAll
<1>1. /\ proc.state = "running" /\ Idle(proc) /\ proc \in Processes /\ proc' = OneSecondLater(proc)
      /\ proc.age \in Nat /\ teardown \in Nat
      /\ UNCHANGED <<timeout, step, sent, turnVars, reading, stdinOpen, cancelStarted>>
      /\ teardown' = IF step = "over" THEN teardown + 1 ELSE teardown
  BY Now DEF Tick
<1> DEFINE T == {[t EXCEPT !.left = @ - 1] : t \in proc.timers}
           n == IF Stopping(proc) THEN proc.age + 1 ELSE proc.age
<1>2. \A t \in proc.timers : t \in Timers /\ t.left \in Nat \ {0}
  BY <1>1 DEF Processes, Timers, Idle, Due
<1>3. T \in SUBSET Timers
  BY <1>2 DEF Timers
<1>4. n \in Nat /\ proc' = [proc EXCEPT !.timers = T, !.age = n]
  BY <1>1 DEF OneSecondLater
<1>5. step = "over" => \A t \in T : t.what \notin {"timeout", "request"}
  <2>1. step = "over" => \A t \in proc.timers : t.what \notin {"timeout", "request"}
    BY DEF AcpInv, TimersFit
  <2> QED
    BY <1>2, <2>1 DEF Timers
<1> HIDE DEF T
<1>6. /\ proc' \in Processes /\ proc'.state = "running" /\ proc'.stray = proc.stray
      /\ proc'.ladder = proc.ladder /\ proc'.timers = T /\ SameStop(proc, proc')
      /\ proc'.age = n
  BY <1>1, <1>3, <1>4 DEF SameStop, Processes
<1>7. Stopping(proc') = Stopping(proc)
  BY <1>6 DEF SameStop, Stopping
<1>8. Stopping(proc) => Soon(proc', "grace", 2, proc.age + 1) /\ proc.age < 8
  <2>1. ASSUME Stopping(proc) PROVE Soon(proc, "grace", 2, proc.age)
    BY <1>1, <2>1 DEF AcpInv, ClocksFit
  <2> QED
    BY <1>1, <2>1, SoonSecond
<1>9. step = "over" => Soon(proc', "guard", 3, teardown + 1) /\ teardown < 9
  <2>1. ASSUME step = "over" PROVE Soon(proc, "guard", 3, teardown)
    BY <1>1, <2>1 DEF AcpInv, ClocksFit
  <2> QED
    BY <1>1, <2>1, SoonSecond
<1>10. TypeOK' /\ TurnFits'
  BY <1>1, <1>6, Now DEF AcpInv, TypeOK, TurnFits, turnVars
<1>11. ProcessFits' /\ StopFits' /\ TimersFit'
  BY <1>1, <1>5, <1>6, <1>7 DEF AcpInv, ProcessFits, StopFits, TimersFit, turnVars, Stopping
<1>12. ClocksFit'
  <2>1. proc.age <= 8 /\ teardown <= 9
    BY <1>1 DEF AcpInv, ClocksFit
  <2>2. Stopping(proc') => Soon(proc', "grace", 2, proc'.age)
    BY <1>6, <1>7, <1>8
  <2>3. step' = "over" => Soon(proc', "guard", 3, teardown')
    BY <1>1, <1>9
  <2>4. proc'.age <= 8 /\ teardown' <= 9
    BY <1>1, <1>6, <1>8, <1>9, <2>1
  <2> QED
    BY <2>2, <2>3, <2>4 DEF ClocksFit, Soon, Stopping
<1>13. [Limit!Next]_(Limit!vars)
  <2>1. CASE Stopping(proc)
    BY <1>1, <1>6, <1>7, <1>8, <2>1 DEF Limit!Next, Limit!Age
  <2>2. CASE ~Stopping(proc)
    BY <1>1, <1>6, <1>7, <2>2 DEF Limit!vars
  <2> QED
    BY <2>1, <2>2
<1> QED
  BY <1>6, <1>10, <1>11, <1>12, <1>13 DEF KeepsAll, AcpInv, SameStop

LEMMA StutterStep == ASSUME AcpInv, UNCHANGED vars PROVE KeepsAll
<1>1. TypeOK' /\ ProcessFits' /\ TurnFits'
  BY DEF AcpInv, TypeOK, ProcessFits, TurnFits, vars, turnVars
<1>2. StopFits' /\ TimersFit' /\ ClocksFit'
  BY DEF AcpInv, StopFits, TimersFit, ClocksFit, vars, turnVars, Stopping, Soon
<1> QED
  BY <1>1, <1>2 DEF KeepsAll, AcpInv, vars, Limit!vars, Stopping

-----------------------------------------------------------------------------
(* The theorems *)

LEMMA EveryStep == ASSUME AcpInv, [Next]_vars PROVE KeepsAll
<1>1. CASE UNCHANGED vars
  BY <1>1, StutterStep
<1>2. CASE Callbacks
  <2>1. ASSUME NEW t \in Due(proc), TimeoutExpires(t) \/ RequestExpires(t) \/ Escalates(t) PROVE KeepsAll
    BY <2>1, TimeoutExpiresStep, RequestExpiresStep, EscalatesStep
  <2>2. ASSUME NEW t \in Due(proc), NEW code \in Codes, SignalGoes(t, code) PROVE KeepsAll
    BY <2>2, SignalGoesStep
  <2> QED
    BY <1>2, <2>1, <2>2, FinalizeStep, TickStep DEF Callbacks, Codes
<1>3. CASE Agent
  <2>1. "zero" \in Codes
    BY DEF Codes
  <2> QED
    BY <1>3, <2>1, RefusedStep, AnsweredStep, MessageChunkStep, UnterminatedAnswerStep,
       StdoutClosesStep, AgentEndsStep DEF Agent, Codes
<1>4. CASE Cancel
  BY <1>4, CancelStep
<1> QED
  BY <1>1, <1>2, <1>3, <1>4 DEF Next

LEMMA AcpInvAlways == Spec => []AcpInv
<1>1. AcpInv /\ [Next]_vars => AcpInv'
  BY EveryStep DEF KeepsAll
<1> QED
  BY <1>1, InitInv, PTL DEF Spec

\* Every variable keeps its type.
THEOREM TypeCorrect == Spec => []TypeOK
<1>1. AcpInv => TypeOK
  BY DEF AcpInv
<1> QED
  BY <1>1, AcpInvAlways, PTL

\* No prompt goes to a model the agent did not accept (acp-executor.js:439).
THEOREM ModelAlwaysPinned == Spec => []ModelIsPinned
<1>1. AcpInv => ModelIsPinned
  BY DEF AcpInv, TurnFits, ModelIsPinned
<1> QED
  BY <1>1, AcpInvAlways, PTL

\* What runAcpAttempt takes for a success is the answer to a prompt nobody asked
\* to stop (acp-executor.js:458).
THEOREM SuccessIsAlwaysATurn == Spec => []SuccessIsATurn
<1>1. ASSUME AcpInv PROVE SuccessIsATurn
  <2>1. ASSUME StreamSuccess
        PROVE  modelSet /\ {"session/prompt"} = sent \ {"initialize", "session/new", "session/set_model"}
    <3>1. turn # "none" /\ ~Stopping(proc)
      BY <2>1 DEF StreamSuccess, Stopping
    <3>2. "session/prompt" \in sent /\ "session/cancel" \notin sent
      BY <1>1, <3>1 DEF AcpInv, TurnFits, StopFits
    <3>4. modelSet
      BY <1>1, <2>1 DEF AcpInv, TurnFits, StreamSuccess
    <3>3. sent \subseteq Requests \cup {"session/cancel"}
      BY <1>1 DEF AcpInv, TypeOK
    <3> QED
      BY <3>2, <3>3, <3>4 DEF Requests
  <2> QED
    BY <2>1 DEF SuccessIsATurn
<1> QED
  BY <1>1, AcpInvAlways, PTL

\* No signal goes to a process group that is gone (acp-executor.js:533).
THEOREM NoSignalStrays == Spec => []NoStraySignal
<1>1. AcpInv => NoStraySignal
  BY DEF AcpInv, ProcessFits, NoStraySignal
<1> QED
  BY <1>1, AcpInvAlways, PTL

\* Nine seconds after the turn the agent is gone (acp-executor.js:480).
THEOREM TornDown == Spec => []TornDownInTime
<1>1. AcpInv => TornDownInTime
  BY DEF AcpInv, ClocksFit, TornDownInTime
<1> QED
  BY <1>1, AcpInvAlways, PTL

\* A turn that ended in time never becomes a timeout (acp-executor.js:472).
THEOREM TurnStands == Spec => TimelyTurnStands
<1>1. AcpInv /\ [Next]_vars => [step = "over" => proc'.timedOut = proc.timedOut]_vars
  BY EveryStep DEF KeepsAll
<1> QED
  BY <1>1, AcpInvAlways, PTL DEF Spec, TimelyTurnStands

\* Told to stop, the agent is gone within eight seconds.
THEOREM AgentStops == Spec => StopsInTime
<1>1. AcpInv /\ [Next]_vars => [Limit!Next]_(Limit!vars)
  BY EveryStep DEF KeepsAll
<1> QED
  BY <1>1, AcpInvAlways, PTL DEF Spec, StopsInTime

\* No agent outstays its turn, whether the turn ended or was ended.
THEOREM AgentGoesInTime == Spec => GoneInTime
<1>1. AcpInv /\ [Next]_vars => [TornDownInTime' /\ [Limit!Next]_(Limit!vars)]_vars
  BY EveryStep DEF KeepsAll, AcpInv, ClocksFit, TornDownInTime
<1> QED
  BY <1>1, AcpInvAlways, PTL DEF Spec, GoneInTime
=============================================================================
