----------------------------- MODULE TypedOutput -----------------------------
(***************************************************************************)
(* The typed result of a task, from its declaration to the prompt that     *)
(* refers to it: plan validates and normalizes output_schema               *)
(* (output-schema.js) and walks the reference through it (spec.js          *)
(* walkSchemaPath); the runner checks the worker's envelope against it;    *)
(* the consumer's template resolves the path in the accepted result        *)
(* (template.js).  The three must agree, for a reference plan accepts is   *)
(* not checked again before the consumer launches.                         *)
(*                                                                         *)
(* A schema node is [type, nullable, properties, items, required]: items   *)
(* and required hold at most one element.  A JSON value is                 *)
(* [json, fields, elements].                                               *)
(***************************************************************************)
EXTENDS Naturals, FiniteSets, SequencesExt

CONSTANTS
  Schemas,        \* the output_schema a task may declare
  Results,        \* the output a worker may send
  Paths,          \* the dotpaths a template may follow below the result
  Inherited,      \* names every JavaScript object answers to ("x" in {})
  MaxDepth,       \* MAX_NESTING_DEPTH
  MaxProperties,  \* MAX_TOTAL_PROPERTIES
  MaxNullable     \* MAX_NULLABLE_UNIONS

VARIABLES
  stage,          \* authored, refused, planned, accepted, quarantined, rendered, unresolved
  schema,         \* tasks[].output_schema, as stored
  path,           \* the reference {{tasks.<id>.result.<path>}} of a consumer
  result          \* result.json of the task

vars == <<stage, schema, path, result>>

-----------------------------------------------------------------------------
(* Schema nodes and values *)

Node(type) == [type |-> type, nullable |-> FALSE, properties |-> <<>>, items |-> {}, required |-> {}]
ObjectNode(f) == [Node("object") EXCEPT !.properties = f]
ArrayNode(n) == [Node("array") EXCEPT !.items = {n}]
Union(type) == [Node(type) EXCEPT !.nullable = TRUE]
TheItems(node) == CHOOSE n \in node.items : TRUE

Json(kind) == [json |-> kind, fields |-> <<>>, elements |-> <<>>]
JsonObject(f) == [Json("object") EXCEPT !.fields = f]
JsonArray(s) == [Json("array") EXCEPT !.elements = s]

Scalars == {"string", "number", "boolean"}

\* JavaScript's "name in value" and Object.hasOwn(value, name)
Has(f, name) == name \in DOMAIN f \cup Inherited
HasOwn(f, name) == name \in DOMAIN f

-----------------------------------------------------------------------------
(* validateOutputSchemaDecl *)

RECURSIVE PropertiesIn(_)
PropertiesIn(node) ==
  Cardinality(DOMAIN node.properties)
  + FoldSet(LAMBDA name, n : n + PropertiesIn(node.properties[name]), 0, DOMAIN node.properties)
  + (IF node.items = {} THEN 0 ELSE PropertiesIn(TheItems(node)))

RECURSIVE NullableIn(_)
NullableIn(node) ==
  (IF node.nullable THEN 1 ELSE 0)
  + FoldSet(LAMBDA name, n : n + NullableIn(node.properties[name]), 0, DOMAIN node.properties)
  + (IF node.items = {} THEN 0 ELSE NullableIn(TheItems(node)))

\* required is accepted only in the form the runner generates.
CanonicalRequired(node) == node.required \subseteq {DOMAIN node.properties}

RECURSIVE NodeIsValid(_, _)
NodeIsValid(node, depth) ==
  /\ depth <= MaxDepth
  /\ node.nullable => node.type \in Scalars
  /\ node.type = "object" =>
       /\ DOMAIN node.properties # {} /\ node.items = {}
       /\ CanonicalRequired(node)
       /\ \A name \in DOMAIN node.properties : NodeIsValid(node.properties[name], depth + 1)
  /\ node.type # "object" => node.properties = <<>> /\ node.required = {}
  /\ node.type = "array" => node.items # {} /\ NodeIsValid(TheItems(node), depth + 1)
  /\ node.type \in Scalars => node.items = {}

DeclIsValid(decl) ==
  /\ decl.type = "object"
  /\ NodeIsValid(decl, 1)
  /\ PropertiesIn(decl) <= MaxProperties /\ NullableIn(decl) <= MaxNullable

\* normalizeNode: every property becomes required.
RECURSIVE Normalize(_)
Normalize(node) ==
  CASE node.type = "object" ->
         [ObjectNode([name \in DOMAIN node.properties |-> Normalize(node.properties[name])])
            EXCEPT !.required = {DOMAIN node.properties}]
    [] node.type = "array" -> ArrayNode(Normalize(TheItems(node)))
    [] OTHER -> node

\* synthesizeWorkerSchema: the envelope of a typed task (status, errors and
\* the identity fields are scalars like summary).
Envelope(decl) ==
  [ObjectNode([name \in {"summary", "output"} |->
                 IF name = "summary" THEN Node("string") ELSE decl])
     EXCEPT !.required = {{"summary", "output"}}]

-----------------------------------------------------------------------------
(* The three readings of the schema *)

\* Mutant of WalkSchema: a path may end on a nullable property.
RECURSIVE WalkSchemaToNullable(_, _)
WalkSchemaToNullable(node, p) ==
  IF p = <<>> THEN TRUE
  ELSE /\ node.type = "object" /\ HasOwn(node.properties, Head(p))
       /\ WalkSchemaToNullable(node.properties[Head(p)], Tail(p))

\* walkSchemaPath: declared properties of non-nullable objects only; the
\* caller refuses a nullable leaf.
RECURSIVE WalkSchema(_, _)
WalkSchema(node, p) ==
  IF p = <<>> THEN ~node.nullable
  ELSE /\ node.type = "object" /\ HasOwn(node.properties, Head(p))
       /\ WalkSchema(node.properties[Head(p)], Tail(p))

\* A field the schema does not declare has no schema to be checked against,
\* whether or not its name is inherited.  The mutant lets it through.
FieldsMayBeExtra(value, node) == TRUE
FieldsAreDeclared(value, node) == DOMAIN value.fields \subseteq DOMAIN node.properties

RequiredArePresent(value, node) ==
  \A name \in UNION node.required : Has(value.fields, name)

\* validateValueAgainstSchema
RECURSIVE ValueIsValid(_, _)
ValueIsValid(value, node) ==
  CASE node.type = "object" ->
         /\ value.json = "object"
         /\ RequiredArePresent(value, node) /\ FieldsAreDeclared(value, node)
         /\ \A name \in DOMAIN value.fields :
              HasOwn(node.properties, name) =>
                ValueIsValid(value.fields[name], node.properties[name])
    [] node.type = "array" ->
         /\ value.json = "array"
         /\ \A i \in DOMAIN value.elements : ValueIsValid(value.elements[i], TheItems(node))
    [] OTHER -> value.json = node.type \/ (node.nullable /\ value.json = "null")

\* walkPath and requireValue: an own property at every segment, and no null
\* at the end.
RECURSIVE Resolves(_, _)
Resolves(value, p) ==
  IF p = <<>> THEN value.json # "null"
  ELSE /\ value.json = "object" /\ HasOwn(value.fields, Head(p))
       /\ Resolves(value.fields[Head(p)], Tail(p))

-----------------------------------------------------------------------------
Init ==
  /\ stage = "authored" /\ schema \in Schemas /\ path \in Paths
  /\ result = Json("null")

Stored == Normalize(schema)

\* plan: an invalid schema is kept as authored, and refused.
Plan ==
  /\ stage = "authored"
  /\ stage' = IF DeclIsValid(schema) /\ WalkSchema(Envelope(Stored), path)
                THEN "planned" ELSE "refused"
  /\ schema' = IF DeclIsValid(schema) THEN Stored ELSE schema
  /\ UNCHANGED <<path, result>>

\* The worker's final message, accepted or quarantined
Accept(output) ==
  /\ stage = "planned"
  /\ result' = JsonObject([name \in {"summary", "output"} |->
                             IF name = "summary" THEN Json("string") ELSE output])
  /\ stage' = IF ValueIsValid(result', Envelope(schema)) THEN "accepted" ELSE "quarantined"
  /\ UNCHANGED <<schema, path>>

\* The consumer launches.
Render ==
  /\ stage = "accepted"
  /\ stage' = IF Resolves(result, path) THEN "rendered" ELSE "unresolved"
  /\ UNCHANGED <<schema, path, result>>

Next == Plan \/ (\E output \in Results : Accept(output)) \/ Render

Spec == Init /\ [][Next]_vars
-----------------------------------------------------------------------------
(* Properties *)

\* What a schema means: the values of a node, independent of the checker.
RECURSIVE Conforms(_, _)
Conforms(value, node) ==
  CASE node.nullable -> value.json \in {node.type, "null"}
    [] node.type = "object" ->
         /\ value.json = "object" /\ DOMAIN value.fields = DOMAIN node.properties
         /\ \A name \in DOMAIN value.fields : Conforms(value.fields[name], node.properties[name])
    [] node.type = "array" ->
         value.json = "array" /\ \A v \in ToSet(value.elements) : Conforms(v, TheItems(node))
    [] OTHER -> value.json = node.type

RECURSIVE NamesIn(_)
NamesIn(node) ==
  DOMAIN node.properties
  \cup UNION {NamesIn(node.properties[name]) : name \in DOMAIN node.properties}
  \cup UNION {NamesIn(n) : n \in node.items}

\* The runner quarantines every result the schema does not describe and no
\* other, unless the schema declares an inherited name: "in" finds it on
\* every object, so its absence goes unnoticed.
AcceptsWhatConforms ==
  stage \in {"accepted", "quarantined"} =>
    /\ Conforms(result, Envelope(schema)) => stage = "accepted"
    /\ stage = "accepted" =>
         Conforms(result, Envelope(schema)) \/ Inherited \cap NamesIn(schema) # {}

\* A reference plan accepted resolves in every result the runner accepts; it
\* fails only along an inherited name, which the check takes for present.
PlannedReferencesResolve ==
  stage = "unresolved" => \E i \in DOMAIN path : path[i] \in Inherited
=============================================================================
