---------------------------- MODULE MCTypedOutput ----------------------------
(***************************************************************************)
(* Schemas of two levels below the root over an ordinary name and an       *)
(* inherited one, and the results a worker may send for them.              *)
(***************************************************************************)
EXTENDS TypedOutput

Names == {"p", "valueOf"}

Maps(values) == UNION {[D -> values] : D \in SUBSET Names}

Leaves == {Node("string"), Union("string")}
Inner == Leaves \cup {ArrayNode(n) : n \in Leaves} \cup {ObjectNode(f) : f \in Maps(Leaves)}
MCSchemas ==
  {ObjectNode(f) : f \in Maps(Inner)}
  \cup {[ObjectNode(f) EXCEPT !.required = {D}] : f \in Maps(Leaves), D \in SUBSET Names}
  \cup {ObjectNode([name \in {"p"} |-> ArrayNode(ObjectNode(f))]) : f \in Maps(Leaves)}

Small == {Json("string"), Json("number"), Json("null")}
Middle == Small \cup {JsonArray(<<>>)} \cup {JsonArray(<<v>>) : v \in Small}
          \cup {JsonObject(f) : f \in Maps(Small)}
MCResults == Small \cup {JsonObject(f) : f \in Maps(Middle)}

MCPaths ==
  {<<"summary">>, <<"output">>}
  \cup {<<"output", a>> : a \in Names} \cup {<<"output", a, b>> : a, b \in Names}
=============================================================================
