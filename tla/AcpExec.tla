-------------------------------- MODULE AcpExec --------------------------------
(***************************************************************************)
(* One turn of an ACP agent (acp-executor.js: startAcpExec; acp-client.js: *)
(* createAcpConnection): a handshake of four requests over the agent's     *)
(* stdin and stdout, against a timeout, a cancel, a slow or silent agent   *)
(* and a process that goes away.                                           *)
(*                                                                         *)
(* The handshake awaits one request at a time, so the requests in flight   *)
(* are at most its current step.  What the code awaits runs before the     *)
(* next callback does, and a step of the model is one callback with what   *)
(* it awakens.  Requests of the agent are refused in the callback that     *)
(* reads them and leave no state, as does a late or unknown response.      *)
(***************************************************************************)
EXTENDS ChildProcess

CONSTANTS
  RequestTimeout,      \* HANDSHAKE_REQUEST_TIMEOUT_MS, in seconds
  MaxTimeout,          \* bound on the attempt's timeout, in seconds
  ProcessWorlds        \* the agents that may be met

ASSUME AcpConstants ==
  RequestTimeout \in Nat /\ MaxTimeout \in Nat /\ ProcessWorlds \subseteq Worlds

VARIABLES
  proc,                \* the agent's process, with all the timers armed for it
  timeout,             \* timeoutMs
  step,                \* the request the handshake awaits, or "over"
  sent,                \* what was written to the agent
  session,             \* threadId is known
  modelSet,            \* session/set_model succeeded
  turn,                \* stopReason: "none", "end_turn", "other"
  message,             \* the last message: "none", "some", "overflow"
  tail,                \* a response whose newline the agent owes, or "none"
  reading,             \* the connection is not closed
  stdinOpen,
  cancelStarted,       \* cancelSequenceStarted
  teardown             \* seconds the process has outlived the handshake

turnVars == <<session, modelSet, turn, message, tail>>
vars == <<proc, timeout, step, sent, session, modelSet, turn, message, tail, reading,
          stdinOpen, cancelStarted, teardown>>

Requests == {"initialize", "session/new", "session/set_model", "session/prompt"}

NextStep(s) ==
  CASE s = "initialize"        -> "session/new"
    [] s = "session/new"       -> "session/set_model"
    [] s = "session/set_model" -> "session/prompt"
    [] OTHER                   -> "over"

\* Handshake requests are bounded, the turn itself is left to the attempt timer.
RequestTimers(s) ==
  IF s \in {"session/prompt", "over"} THEN {}
  ELSE {[left |-> IF timeout < RequestTimeout THEN timeout ELSE RequestTimeout,
         what |-> "request"]}

Without(p, kinds) == [p EXCEPT !.timers = {t \in @ : t.what \notin kinds}]
With(p, left, what) == [p EXCEPT !.timers = @ \cup {[left |-> left, what |-> what]}]
Write(messages) == sent' = IF reading /\ stdinOpen THEN sent \cup messages ELSE sent

Init ==
  /\ timeout \in 1 .. MaxTimeout
  /\ \E w \in ProcessWorlds :
       /\ proc = [Spawned(NdjsonLadder, timeout, w) EXCEPT !.timers = @ \cup RequestTimers("initialize")]
       /\ sent = IF w.alive = {} THEN {} ELSE {"initialize"}
  /\ step = "initialize"
  /\ session = FALSE /\ modelSet = FALSE /\ turn = "none"
  /\ message = "none" /\ tail = "none"
  /\ reading = TRUE /\ stdinOpen = TRUE /\ cancelStarted = FALSE /\ teardown = 0

-----------------------------------------------------------------------------
(* The handshake *)

\* Mutant of Over: the attempt's timer is left armed into the teardown.
OverTimed(p) ==
  /\ step' = "over" /\ stdinOpen' = FALSE
  /\ proc' = With(Without(p, {"request"}), 3, "guard")

\* Mutant of Over: nobody watches over the teardown.
OverUnguarded(p) ==
  /\ step' = "over" /\ stdinOpen' = FALSE
  /\ proc' = Without(p, {"timeout", "request"})

\* Mutant of Over: the guard waits for the whole ladder before it begins it.
OverPatient(p) ==
  /\ step' = "over" /\ stdinOpen' = FALSE
  /\ proc' = With(Without(p, {"timeout", "request"}), 6, "guard")

\* Its end, by an answer, an error or a closed connection: stdin is ended, and
\* the agent has three seconds to go.
Over(p) ==
  /\ step' = "over" /\ stdinOpen' = FALSE
  /\ proc' = With(Without(p, {"timeout", "request"}), 3, "guard")

Advance(s) ==
  /\ step' = s /\ Write({s})
  /\ proc' = [Without(proc, {"request"}) EXCEPT !.timers = @ \cup RequestTimers(s)]
  /\ stdinOpen' = stdinOpen

\* handleLine gets a whole line, from an agent that was there once.
Readable == reading /\ tail = "none" /\ sent # {}

\* The agent answers the request with an error.
Refused ==
  /\ Readable /\ step \in sent
  /\ Over(proc)
  /\ UNCHANGED <<timeout, sent, turnVars, reading, cancelStarted, teardown>>

\* What a result tells: a session id, if it is there; how the turn ended.
Learn(result) ==
  /\ session' = IF step = "session/new" THEN result = "good" ELSE session
  /\ modelSet' = (modelSet \/ step = "session/set_model")
  /\ turn' = IF step # "session/prompt" THEN turn
             ELSE IF result = "good" THEN "end_turn" ELSE "other"

Answered(result) ==
  /\ Readable /\ step \in sent
  /\ Learn(result)
  /\ IF NextStep(step) = "over" THEN Over(proc) /\ UNCHANGED sent
                                ELSE Advance(NextStep(step))
  /\ UNCHANGED <<timeout, message, tail, reading, cancelStarted, teardown>>

\* agent_message_chunk: a total beyond the cap is remembered for good.
MessageChunk(total) ==
  /\ Readable /\ proc.state = "running"
  /\ message' = IF message = "overflow" THEN message ELSE total
  /\ UNCHANGED <<proc, timeout, step, sent, session, modelSet, turn, tail, reading, stdinOpen,
                 cancelStarted, teardown>>

\* The agent writes its answer and leaves out the newline.
UnterminatedAnswer(result) ==
  /\ Readable /\ step \in sent
  /\ tail' = result
  /\ UNCHANGED <<proc, timeout, step, sent, session, modelSet, turn, message, reading,
                 stdinOpen, cancelStarted, teardown>>

\* The stream ends and the connection is sealed: the line in the buffer counts
\* even without a newline, but nothing can be asked any more.
StdoutCloses ==
  /\ reading /\ reading' = FALSE
  /\ IF tail # "none" /\ step \in sent
       THEN Learn(tail) ELSE UNCHANGED <<session, modelSet, turn>>
  /\ IF step = "over" THEN UNCHANGED <<proc, step, stdinOpen>> ELSE Over(proc)
  /\ UNCHANGED <<timeout, sent, message, tail, cancelStarted, teardown>>

-----------------------------------------------------------------------------
(* Stopping *)

\* cancelSequence: once; a session is asked to cancel its turn, and in two
\* seconds the ladder begins.
CancelSequence(p) ==
  /\ cancelStarted' = TRUE
  /\ IF cancelStarted
       THEN proc' = p /\ UNCHANGED sent
       ELSE proc' = With(p, 2, "grace")
            /\ Write(IF session THEN {"session/cancel"} ELSE {})
  /\ UNCHANGED <<timeout, step, turnVars, reading, stdinOpen, teardown>>

\* Mutant of Cancel: the settled guard is missing.
CancelAnyway ==
  /\ ~proc.cancelled
  /\ CancelSequence([proc EXCEPT !.cancelled = TRUE])

Cancel ==
  /\ proc.state = "running" /\ ~proc.cancelled
  /\ CancelSequence([proc EXCEPT !.cancelled = TRUE])

TimeoutExpires(t) ==
  /\ t.what = "timeout"
  /\ CancelSequence([proc EXCEPT !.timedOut = TRUE, !.timers = @ \ {t}])

RequestExpires(t) ==
  /\ t.what = "request"
  /\ Over([proc EXCEPT !.timers = @ \ {t}])
  /\ UNCHANGED <<timeout, sent, turnVars, reading, cancelStarted, teardown>>

\* The grace of a cancel, or the guard of the teardown, is over.
Escalates(t) ==
  /\ t.what \in {"grace", "guard"}
  /\ proc' = Escalated([proc EXCEPT !.timers = @ \ {t}])
  /\ stdinOpen' = (stdinOpen /\ t.what # "grace")
  /\ UNCHANGED <<timeout, step, sent, turnVars, reading, cancelStarted, teardown>>

SignalGoes(t, code) ==
  /\ t.what \in Signals
  /\ proc' = Signalled([proc EXCEPT !.timers = @ \ {t}], t.what, code)
  /\ UNCHANGED <<timeout, step, sent, turnVars, reading, stdinOpen, cancelStarted, teardown>>

-----------------------------------------------------------------------------
(* The process and time *)

AgentEnds(code) ==
  /\ proc.state = "running" /\ "leader" \in proc.alive
  /\ proc' = Ended(proc, code)
  /\ UNCHANGED <<timeout, step, sent, turnVars, reading, stdinOpen, cancelStarted, teardown>>

HelperEnds ==
  /\ proc.state = "running" /\ "helper" \in proc.alive
  /\ proc' = [proc EXCEPT !.alive = @ \ {"helper"}]
  /\ UNCHANGED <<timeout, step, sent, turnVars, reading, stdinOpen, cancelStarted, teardown>>

\* finalize: all timers are cleared and a request still in flight is rejected.
\* Node counts the closed pipes of a child in listeners it registers at the
\* spawn, so when stdout is the last to close, "close" of the child comes before
\* the connection's own listener and StdoutCloses finds the connection sealed.
Finalize ==
  /\ Closable(proc)
  /\ proc' = Settled(proc)
  /\ step' = "over" /\ reading' = FALSE
  /\ UNCHANGED <<timeout, sent, turnVars, stdinOpen, cancelStarted, teardown>>

\* A second passes as long as anything is armed and nothing is due.
Tick ==
  /\ proc.timers # {} /\ Idle(proc)
  /\ proc' = OneSecondLater(proc)
  /\ teardown' = IF step = "over" /\ proc.state = "running" THEN teardown + 1 ELSE teardown
  /\ UNCHANGED <<timeout, step, sent, turnVars, reading, stdinOpen, cancelStarted>>

-----------------------------------------------------------------------------
Callbacks ==
  \/ \E t \in Due(proc) : TimeoutExpires(t) \/ RequestExpires(t) \/ Escalates(t)
  \/ \E t \in Due(proc), code \in {"zero", "nonzero"} : SignalGoes(t, code)
  \/ Finalize
  \/ Tick

Agent ==
  \/ Refused \/ \E result \in {"good", "bad"} : Answered(result)
  \/ \E total \in {"some", "overflow"} : MessageChunk(total)
  \/ \E result \in {"good", "bad"} : UnterminatedAnswer(result)
  \/ StdoutCloses
  \/ \E code \in {"zero", "nonzero"} : AgentEnds(code)
  \/ HelperEnds

Next == Callbacks \/ Agent \/ Cancel

Spec == Init /\ [][Next]_vars

(* Timers and the end of the process are served; the agent owes nothing.   *)
FairSpec == Spec /\ WF_vars(Callbacks)

-----------------------------------------------------------------------------
(* Properties *)

TypeOK ==
  /\ proc \in Processes /\ timeout \in 1 .. MaxTimeout
  /\ step \in Requests \cup {"over"}
  /\ sent \subseteq Requests \cup {"session/cancel"}
  /\ session \in BOOLEAN /\ modelSet \in BOOLEAN
  /\ turn \in {"none", "end_turn", "other"} /\ message \in {"none", "some", "overflow"}
  /\ tail \in {"none", "good", "bad"}
  /\ reading \in BOOLEAN /\ stdinOpen \in BOOLEAN /\ cancelStarted \in BOOLEAN
  /\ teardown \in Nat

\* A prompt is never sent to a model the agent did not accept: without it the
\* agent falls back to an ambient default and still reports end_turn, exit 0
\* (acp-executor.js:439).
ModelIsPinned == turn = "end_turn" \/ "session/prompt" \in sent => modelSet

\* Mutant of StreamSuccess: the agent's stopReason outranks the cancel.
StreamSuccessThoughCancelled ==
  /\ proc.state = "settled" /\ ~proc.timedOut
  /\ message = "some" /\ proc.exit = "zero" /\ turn = "end_turn"

\* What runAcpAttempt takes for a success
StreamSuccess ==
  /\ proc.state = "settled" /\ ~proc.cancelled /\ ~proc.timedOut
  /\ message = "some" /\ proc.exit = "zero" /\ turn = "end_turn"

\* A success is the answer of the pinned model to the prompt, in a session nobody
\* asked to stop: a cancelled turn may still report end_turn and exit 0
\* (acp-executor.js:458).
SuccessIsATurn ==
  StreamSuccess =>
    modelSet /\ {"session/prompt"} = sent \ {"initialize", "session/new", "session/set_model"}

\* A turn that ended in time does not become a timeout while the agent takes
\* its time to exit (acp-executor.js:472).
TimelyTurnStands == [][step = "over" => proc'.timedOut = proc.timedOut]_vars

\* No signal to a process group that is gone (acp-executor.js:533).
NoStraySignal == ~proc.stray

\* An agent that neither exits at the end of its stdin nor listens to signals
\* is gone nine seconds after its turn (acp-executor.js:480).
TornDownInTime == proc.state = "running" => teardown <= 9

\* No request hangs on a dead or silent agent, and the promise resolves
\* (acp-client.js:162).
AlwaysEnds == <>(proc.state = "settled" /\ step = "over")

\* Told to stop, the agent is gone within eight seconds: two of grace and the
\* ladder.  Attempt and abortInFlight's wait count on it.
Limit == INSTANCE StoppableWorker WITH
  Grace <- 8, state <- proc.state, stopping <- Stopping(proc), age <- proc.age
StopsInTime == [][Limit!Next]_(Limit!vars)

\* No agent outstays its turn, ended by itself or by the runner.
GoneInTime == [][TornDownInTime' /\ [Limit!Next]_(Limit!vars)]_vars
=============================================================================
