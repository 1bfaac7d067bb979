-------------------------------- MODULE EventLog --------------------------------
(***************************************************************************)
(* The event log of a run and the run state saved beside it (run-state.js, *)
(* commands.js).  recordEvent appends a line to events.jsonl and then      *)
(* replaces run.json; an orchestrator that dies in between, or within the  *)
(* line, leaves the two apart.  A resume replays the expansions it finds   *)
(* in the log.  Readers take the log from a byte offset, at any time.      *)
(*                                                                         *)
(* A byte is a record [part, of]: "text" is the JSON text of the event up  *)
(* to a character of two bytes, "lead" and "trail", that closes it; "nl"   *)
(* is the newline.  The last value of "of" is never looked at by a reader  *)
(* but to tell one event from another.                                     *)
(***************************************************************************)
EXTENDS Naturals, Sequences, FiniteSets, FiniteSetsExt

CONSTANTS
  Parents,         \* foreach tasks
  MaxEvents,       \* bound on the events recorded
  MaxCrashes,      \* bound on the orchestrators that die
  Tears            \* how many bytes of a line a dying orchestrator may leave

ASSUME EventLogAssumption ==
  /\ MaxEvents \in Nat /\ MaxCrashes \in Nat /\ Tears \subseteq 0 .. 3
  /\ {"note", "unparseable"} \cap Parents = {}

VARIABLES
  log,             \* events.jsonl
  disk,            \* run.json: the expansions it knows, event_log_offset
  mem,             \* the expansions the orchestrator knows
  phase,           \* of the orchestrator: "working", "down", "resuming"
  todo,            \* expansions of the log that the resume has yet to replay
  unsaved,         \* an event is appended, run.json not yet replaced
  written, crashes

logVars == <<log, disk, mem, phase, todo, unsaved, written, crashes>>

\* An event is what it tells (the expansion of a parent, or something else) and
\* its number.
Event == (Parents \cup {"note"}) \X (1 .. MaxEvents)
Unparseable == <<"unparseable", 0>>

Parts == <<"text", "lead", "trail", "nl">>
Line(event) == [i \in 1 .. 4 |-> [part |-> Parts[i], of |-> event]]

LogInit ==
  /\ log = <<>> /\ disk = [expanded |-> {}, offset |-> 0]
  /\ mem = {} /\ phase = "working" /\ todo = {} /\ unsaved = FALSE
  /\ written = 0 /\ crashes = 0

-----------------------------------------------------------------------------
(* Reading *)

\* The places of the newlines, in no order and in order, and the lines they end
Ends(bytes) == {i \in 1 .. Len(bytes) : bytes[i].part = "nl"}

Newlines(bytes) ==
  LET upTo[i \in 0 .. Len(bytes)] ==
        IF i = 0 THEN <<>>
        ELSE IF bytes[i].part = "nl" THEN Append(upTo[i - 1], i) ELSE upTo[i - 1]
  IN  upTo[Len(bytes)]

Lines(bytes) ==
  LET ends == Newlines(bytes)
  IN  [k \in 1 .. Len(ends) |->
         SubSeq(bytes, IF k = 1 THEN 1 ELSE ends[k - 1] + 1, ends[k] - 1)]

\* JSON.parse of a line
Parsed(line) ==
  IF Len(line) = 3 /\ line = SubSeq(Line(line[1].of), 1, 3) THEN line[1].of ELSE Unparseable

EventsOf(lines) == [k \in 1 .. Len(lines) |-> Parsed(lines[k])]

\* Half a character is decoded to a replacement character of three bytes.
Halves(bytes) ==
  {i \in 1 .. Len(bytes) :
     \/ bytes[i].part = "lead" /\ (i = Len(bytes) \/ bytes[i + 1].part # "trail")
     \/ bytes[i].part = "trail" /\ (i = 1 \/ bytes[i - 1].part # "lead")}

\* Mutant of ReadEvents: the next offset is the size of the log.
ReadEventsToTheEnd(chunk, since, limit) ==
  LET ends == Newlines(chunk)
      last == IF limit < Len(ends) THEN limit ELSE Len(ends)
  IN  [events |-> SubSeq(EventsOf(Lines(chunk)), 1, last),
       next   |-> Len(log)]

\* Mutant of ReadEvents: a line that does not parse is waited for.
ReadEventsUpToAnError(chunk, since, limit) ==
  LET events == EventsOf(Lines(chunk))
      good   == {k \in 1 .. Len(events) : \A j \in 1 .. k : events[j] # Unparseable}
      last   == IF limit < Cardinality(good) THEN limit ELSE Cardinality(good)
  IN  [events |-> SubSeq(events, 1, last),
       next   |-> since + (IF last = 0 THEN 0 ELSE Newlines(chunk)[last])]

\* readWorkflowEvents, of the bytes it finds after the offset; a log has no
\* blank lines to skip.
ReadEvents(chunk, since, limit) ==
  LET ends     == Newlines(chunk)
      last     == IF limit < Len(ends) THEN limit ELSE Len(ends)
      consumed == IF last = 0 THEN 0 ELSE ends[last]
  IN  IF since >= Len(log) THEN [events |-> <<>>, next |-> Len(log)]
      ELSE [events |-> SubSeq(EventsOf(Lines(chunk)), 1, last),
            next   |-> since + consumed + 2 * Cardinality(Halves(chunk) \cap 1 .. consumed)]

\* What a resume finds: the end of the file ends a line too.
ExpandedIn(bytes) ==
  LET lines == Lines(bytes \o SubSeq(Line(<<"note", 0>>), 4, 4))
  IN  {p \in Parents : \E k \in 1 .. Len(lines) : Parsed(lines[k])[1] = p}

-----------------------------------------------------------------------------
(* Writing *)

\* The first half of recordEvent: the line, and what the state in memory says
Record(what, known) ==
  /\ ~unsaved /\ written < MaxEvents
  /\ written' = written + 1
  /\ log' = log \o Line(<<what, written + 1>>)
  /\ mem' = known /\ unsaved' = TRUE
  /\ UNCHANGED <<disk, crashes>>

\* The second half of recordEvent
Save ==
  /\ unsaved
  /\ disk' = [expanded |-> mem, offset |-> Len(log)]
  /\ unsaved' = FALSE
  /\ UNCHANGED <<log, mem, phase, todo, written, crashes>>

Work ==
  /\ phase = "working"
  /\ Record("note", mem)
  /\ UNCHANGED <<phase, todo>>

\* expandForeachTask: a parent whose children exist is not expanded again.
Expand(p) ==
  /\ phase = "working" /\ p \notin mem
  /\ Record(p, mem \cup {p})
  /\ UNCHANGED <<phase, todo>>

\* Mutant of Resume: only run.json
ResumeWithoutLog ==
  /\ phase = "down"
  /\ mem' = disk.expanded /\ todo' = {}
  /\ phase' = "resuming"
  /\ UNCHANGED <<log, disk, unsaved, written, crashes>>

\* resumeWorkflow: run.json, and the log as it is now
Resume ==
  /\ phase = "down"
  /\ mem' = disk.expanded /\ todo' = ExpandedIn(log) \ disk.expanded
  /\ phase' = "resuming"
  /\ UNCHANGED <<log, disk, unsaved, written, crashes>>

\* replayExpandedTaskEvents
Replay(p) ==
  /\ phase = "resuming" /\ p \in todo
  /\ Record("note", mem \cup {p})
  /\ todo' = todo \ {p}
  /\ UNCHANGED phase

\* The event every resume ends with; the run goes on.
ResumeRequested ==
  /\ phase = "resuming" /\ todo = {}
  /\ Record("note", mem)
  /\ phase' = "working"
  /\ UNCHANGED todo

\* What the orchestrator may be writing when it dies
Writing ==
  IF unsaved \/ written = MaxEvents THEN {}
  ELSE {"note"} \cup (IF phase = "working" THEN Parents \ mem ELSE {})

Die ==
  /\ phase # "down" /\ crashes < MaxCrashes
  /\ crashes' = crashes + 1
  /\ phase' = "down" /\ unsaved' = FALSE /\ todo' = {} /\ mem' = {}
  /\ \/ UNCHANGED <<log, written>>
     \/ \E what \in Writing, bytes \in Tears :
          /\ log' = log \o SubSeq(Line(<<what, written + 1>>), 1, bytes)
          /\ written' = written + 1
  /\ UNCHANGED disk

LogNext ==
  \/ Work \/ Save \/ Resume \/ ResumeRequested \/ Die
  \/ \E p \in Parents : Expand(p) \/ Replay(p)

-----------------------------------------------------------------------------
(* Properties *)

LogTypeOK ==
  /\ \A i \in 1 .. Len(log) : log[i].part \in {Parts[k] : k \in 1 .. 4} /\ log[i].of \in Event
  /\ disk \in [expanded : SUBSET Parents, offset : 0 .. Len(log)]
  /\ mem \subseteq Parents /\ todo \subseteq Parents
  /\ phase \in {"working", "down", "resuming"} /\ unsaved \in BOOLEAN
  /\ written \in 0 .. MaxEvents /\ crashes \in 0 .. MaxCrashes

\* A foreach task is expanded once: no two expansions of it can be read in the
\* log, whatever died between the log and run.json (commands.js:339-341).
ExpandedOnce ==
  LET events == EventsOf(Lines(log))
  IN  \A p \in Parents : Cardinality({k \in 1 .. Len(events) : events[k][1] = p}) <= 1
=============================================================================
