-------------------------------- MODULE Following --------------------------------
(***************************************************************************)
(* A client follows a run while its orchestrator works, dies and is        *)
(* resumed (EventLog).  The client, which is no part of the repository,    *)
(* asks as the description of the tool says: it passes the previous        *)
(* next_offset (dynamic-workflows-mcp.js:110).  It begins at 0, or at the  *)
(* event_log_offset that a status shows.                                   *)
(***************************************************************************)
EXTENDS EventLog

CONSTANT Limits    \* the limits the client asks with

ASSUME FollowingAssumption == Limits \subseteq Nat

VARIABLES
  start, cursor,   \* where it began, where it is
  got              \* the events it was given

clientVars == <<start, cursor, got>>
vars == <<logVars, clientVars>>

Init == LogInit /\ start = 0 /\ cursor = 0 /\ got = <<>>

\* statusWorkflow shows what run.json says.
StartHere ==
  /\ cursor = 0
  /\ start' = disk.offset /\ cursor' = disk.offset
  /\ UNCHANGED <<logVars, got>>

\* The events command, and the tool of the MCP server
Poll(limit) ==
  /\ \E chunk \in {SubSeq(log, cursor + 1, Len(log))} :
     \E answer \in {ReadEvents(chunk, cursor, limit)} :
       got' = got \o answer.events /\ cursor' = answer.next
  /\ UNCHANGED <<logVars, start>>

Run == LogNext /\ UNCHANGED clientVars

Next == Run \/ StartHere \/ \E limit \in Limits : Poll(limit)

Spec == Init /\ [][Next]_vars

\* The client keeps asking; what the orchestrator began to write it writes or
\* dies.
FairSpec == Spec /\ WF_vars(\E limit \in Limits : Poll(limit))

-----------------------------------------------------------------------------
(* Properties *)

TypeOK == LogTypeOK /\ start \in 0 .. Len(log) /\ cursor \in start .. Len(log)

\* A client that passes the previous next_offset gets every event after the
\* place where it began exactly once and in order, whole lines only, whatever
\* the orchestrator does meanwhile (dynamic-workflows-mcp.js:110).
InStep ==
  /\ {start, cursor} \subseteq {0} \cup Ends(log)
  /\ got = EventsOf(Lines(SubSeq(log, start + 1, cursor)))

\* Everything in the log that a newline ends is read at last.
EveryLineIsRead ==
  \A k \in 1 .. MaxEvents :
    (Cardinality(Ends(log)) >= k) ~> (Cardinality(Ends(log) \cap (1 .. cursor)) >= k)
=============================================================================
