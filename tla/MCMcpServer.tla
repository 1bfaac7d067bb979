------------------------------ MODULE MCMcpServer ------------------------------
(* A small instance of McpServer for TLC. *)
EXTENDS McpServer

Item(kind, framing, blanks) == [kind |-> kind, framing |-> framing, blanks |-> blanks]

MCMenu ==
  {Item("events", "headers", 0), Item("events", "jsonl", 2), Item("run", "headers", 1),
   Item("run", "jsonl", 0), Item("list", "headers", 0), Item("list", "jsonl", 1),
   Item("garbage", "headers", 0), Item("garbage", "jsonl", 0), Item("notification", "jsonl", 0)}
=============================================================================
