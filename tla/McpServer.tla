-------------------------------- MODULE McpServer --------------------------------
(***************************************************************************)
(* The MCP server (dynamic-workflows-mcp.js): what arrives on its standard *)
(* input in pieces of any length, the messages it takes out of it, one per *)
(* line or framed by a header, and the answers.                            *)
(*                                                                         *)
(* A byte is a record [sort, of]: "{" opens the text of message "of", "}"  *)
(* closes it, "header" is a Content-Length, "nl" a newline.  The client's  *)
(* half of the connection is modelled from what the server reads: it       *)
(* writes whole, well-framed messages, and perhaps blank lines after one,  *)
(* though never two in front of a header.                                  *)
(***************************************************************************)
EXTENDS Naturals, Sequences, FiniteSets, FiniteSetsExt

CONSTANTS
  Menu,            \* what the client may ask: records [kind, framing, blanks]
  MaxMessages      \* bound on what it asks

VARIABLES
  sent,            \* the client's messages, in their order
  wire,            \* bytes on their way to the server
  closed,          \* the client's end is closed
  buffer,          \* inputBuffer
  draining,        \* drainMessages is running
  calls,           \* tool calls whose answers are still to come
  answers,         \* the answers, in their order
  server           \* "up", or "gone"

vars == <<sent, wire, closed, buffer, draining, calls, answers, server>>

\* What a message is to the server: a tool call that is done when callTool
\* returns ("events"), one that takes its time ("run"), a method answered at
\* once ("list", or one nobody knows), a notification, something that does not
\* parse.
Kinds == {"events", "run", "list", "notification", "garbage"}
Framings == {"jsonl", "headers"}

ASSUME McpAssumption ==
  /\ MaxMessages \in Nat
  /\ Menu \subseteq [kind : Kinds, framing : Framings, blanks : Nat]

Byte(sort, n) == [sort |-> sort, of |-> n]
Text(n) == <<Byte("{", n), Byte("}", n)>>
Blank(n) == <<Byte("nl", n)>>

Framed(framing, n) ==
  IF framing = "jsonl" THEN Text(n) \o Blank(n)
  ELSE <<Byte("header", n)>> \o Blank(n) \o Blank(n) \o Text(n)
Blanks(n, count) == [i \in 1 .. count |-> Byte("nl", n)]

Init ==
  /\ sent = <<>> /\ wire = <<>> /\ closed = FALSE
  /\ buffer = <<>> /\ draining = FALSE /\ calls = {} /\ answers = <<>> /\ server = "up"

-----------------------------------------------------------------------------
(* The client *)

Ask(message) ==
  LET n == Len(sent) + 1
  IN  /\ ~closed /\ n <= MaxMessages
      /\ message.framing = "headers" /\ n > 1 => sent[n - 1].blanks < 2
      /\ sent' = Append(sent, message)
      /\ wire' = wire \o Framed(message.framing, n) \o Blanks(n, message.blanks)
      /\ UNCHANGED <<closed, buffer, draining, calls, answers, server>>

Close ==
  /\ ~closed /\ closed' = TRUE
  /\ UNCHANGED <<sent, wire, buffer, draining, calls, answers, server>>

-----------------------------------------------------------------------------
(* Taking messages out of the buffer *)

Sorted(sort) == {i \in 1 .. Len(buffer) : buffer[i].sort = sort}
Solid == {i \in 1 .. Len(buffer) : buffer[i].sort # "nl"}
Boundaries == {i \in Sorted("nl") : i + 1 \in Sorted("nl")}

LooksLikeJsonLine == Solid # {} /\ buffer[Min(Solid)].sort = "{"

\* The promise a tool call returns is waited for; its answer is sent when the
\* callbacks of the promises run, after drainMessages and before anything else
\* arrives, or, if the command takes its time, later.
Prompt == {call \in calls : sent[call.of].kind = "events"}

\* stdin "data"
Arrive(count) ==
  /\ server = "up" /\ ~draining /\ Prompt = {}
  /\ count \in 1 .. Len(wire)
  /\ buffer' = buffer \o SubSeq(wire, 1, count)
  /\ wire' = SubSeq(wire, count + 1, Len(wire))
  /\ draining' = TRUE
  /\ UNCHANGED <<sent, closed, calls, answers, server>>

\* The buffer without its first bytes; drainMessages goes on.
Cut(count) == buffer' = SubSeq(buffer, count + 1, Len(buffer)) /\ draining' = TRUE

Answer(id, framing) == [id |-> id, framing |-> framing]
NoAnswer == UNCHANGED <<calls, answers>>

\* Mutant of Handle: the framing of a message is forgotten while its tool works.
HandleUnframed(bytes, framing) ==
  LET n == bytes[1].of
  IN  IF bytes # Text(n) \/ sent[n].kind = "garbage"
        THEN answers' = Append(answers, Answer(0, framing)) /\ UNCHANGED calls
        ELSE calls' = calls \cup {[of |-> n, framing |-> "headers"]} /\ UNCHANGED answers

\* handleRawMessage, handleMessage and callTool.  The bytes are those of message
\* n if they are all there is of it.
Handle(bytes, framing) ==
  LET n == bytes[1].of
  IN  IF bytes # Text(n) \/ sent[n].kind = "garbage"
        THEN answers' = Append(answers, Answer(0, framing)) /\ UNCHANGED calls
        ELSE CASE sent[n].kind = "notification" -> NoAnswer
               [] sent[n].kind = "list" ->
                    answers' = Append(answers, Answer(n, framing)) /\ UNCHANGED calls
               [] OTHER ->
                    /\ calls' = calls \cup {[of |-> n, framing |-> framing]}
                    /\ UNCHANGED answers

Draining == server = "up" /\ draining

\* Blank lines before a message are skipped one at a time.
TakeLine ==
  /\ Draining /\ LooksLikeJsonLine /\ Sorted("nl") # {}
  /\ LET end == Min(Sorted("nl"))
     IN  /\ Cut(end)
         /\ IF end = 1 THEN NoAnswer ELSE Handle(SubSeq(buffer, 1, end - 1), "jsonl")
  /\ UNCHANGED <<sent, wire, closed, server>>

\* The header in front of the first blank line, and the bytes it announces
Boundary == Min(Boundaries)
Announced == 2
HasHeader == \E i \in Sorted("header") : i < Boundary

TakeFramed ==
  /\ Draining /\ ~LooksLikeJsonLine /\ Boundaries # {} /\ HasHeader
  /\ Len(buffer) >= Boundary + 1 + Announced
  /\ Cut(Boundary + 1 + Announced)
  /\ Handle(SubSeq(buffer, Boundary + 2, Boundary + 1 + Announced), "headers")
  /\ UNCHANGED <<sent, wire, closed, server>>

\* Blank lines that are no header's: everything that has arrived is dropped.
DropHeader ==
  /\ Draining /\ ~LooksLikeJsonLine /\ Boundaries # {} /\ ~HasHeader
  /\ buffer' = <<>> /\ draining' = FALSE
  /\ NoAnswer
  /\ UNCHANGED <<sent, wire, closed, server>>

Waits ==
  \/ buffer = <<>>
  \/ LooksLikeJsonLine /\ Sorted("nl") = {}
  \/ ~LooksLikeJsonLine /\ Boundaries = {}
  \/ ~LooksLikeJsonLine /\ Boundaries # {} /\ HasHeader /\ Len(buffer) < Boundary + 1 + Announced

\* Mutant of Wait: one message is taken of what has arrived.
WaitAnyway ==
  /\ Draining
  /\ draining' = FALSE
  /\ NoAnswer
  /\ UNCHANGED <<sent, wire, closed, buffer, server>>

Wait ==
  /\ Draining /\ Waits
  /\ draining' = FALSE
  /\ NoAnswer
  /\ UNCHANGED <<sent, wire, closed, buffer, server>>

\* A tool call is answered.
Reply(call) ==
  /\ server = "up" /\ ~draining /\ call \in calls
  /\ Prompt # {} => call \in Prompt
  /\ calls' = calls \ {call}
  /\ answers' = Append(answers, Answer(call.of, call.framing))
  /\ UNCHANGED <<sent, wire, closed, buffer, draining, server>>

\* stdin "end": the process exits whatever it still owes.
Exit ==
  /\ server = "up" /\ ~draining /\ Prompt = {} /\ closed /\ wire = <<>>
  /\ server' = "gone"
  /\ UNCHANGED <<sent, wire, closed, buffer, draining, calls, answers>>

\* What the server does by itself
Serve ==
  \/ TakeLine \/ TakeFramed \/ DropHeader \/ Wait \/ Exit
  \/ \E count \in 1 .. Len(wire) : Arrive(count)
  \/ \E call \in calls : Reply(call)

Next == Serve \/ Close \/ \E message \in Menu : Ask(message)

Spec == Init /\ [][Next]_vars

\* The server runs, its input arrives, and the answers of its tools come.
FairSpec == Spec /\ WF_vars(Serve)

-----------------------------------------------------------------------------
(* Properties *)

Requests == {n \in 1 .. Len(sent) : sent[n].kind \notin {"notification", "garbage"}}
Bytes == [sort : {"{", "}", "header", "nl"}, of : 1 .. MaxMessages]

TypeOK ==
  /\ sent \in Seq(Menu) /\ Len(sent) <= MaxMessages
  /\ wire \in Seq(Bytes) /\ buffer \in Seq(Bytes)
  /\ closed \in BOOLEAN /\ draining \in BOOLEAN /\ server \in {"up", "gone"}
  /\ calls \subseteq [of : Requests, framing : Framings]
  /\ answers \in Seq([id : {0} \cup Requests, framing : Framings])

AnswersTo(n) == {i \in 1 .. Len(answers) : answers[i].id = n}
Garbage(framing) == {n \in 1 .. Len(sent) : sent[n].kind = "garbage" /\ sent[n].framing = framing}

\* No request is answered twice, or in the other framing than its own; what is
\* not a request is not answered, and an error with no id stands for something
\* that did not parse.  However the stream was cut (dynamic-workflows-mcp.js:171).
AnsweredAsAsked ==
  /\ \A n \in 1 .. Len(sent) :
       Cardinality(AnswersTo(n)) <= IF n \in Requests THEN 1 ELSE 0
  /\ \A n \in Requests : \A i \in AnswersTo(n) : answers[i].framing = sent[n].framing
  /\ \A framing \in Framings :
       Cardinality({i \in AnswersTo(0) : answers[i].framing = framing})
         <= Cardinality(Garbage(framing))

\* Every request is answered in the end, whatever pieces it arrives in and
\* whatever comes before and after it, unless the client hangs up.
EveryRequestIsAnswered ==
  \A n \in 1 .. MaxMessages :
    (Len(sent) >= n /\ n \in Requests) ~> (AnswersTo(n) # {} \/ server = "gone")
=============================================================================
