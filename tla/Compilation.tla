---------------------------- MODULE Compilation ----------------------------
(***************************************************************************)
(* compile_schema, src/src/validation/compilation.rs: the compiled tree of *)
(* a raw schema, cut at the depth cap.                                     *)
(***************************************************************************)
EXTENDS Rules, Values

\* What stands for a subtree past the cap: a node that knows nothing of its
\* schema, not even its default, and holds one failed result.
MarkerNode ==
  [validations     |-> <<SchemaTooDeepMarker>>,
   properties      |-> <<>>,
   items           |-> {},
   additional      |-> {},
   isMap           |-> FALSE,
   preserveUnknown |-> FALSE,
   embedded        |-> FALSE,
   format          |-> "none",
   default         |-> {},
   allOf           |-> <<>>,
   oneOf           |-> <<>>,
   anyOf           |-> <<>>]

SubSchemas(s) ==
  {s.properties[k] : k \in DOMAIN s.properties} \cup s.items \cup s.additional
    \cup ToSet(s.allOf) \cup ToSet(s.oneOf) \cup ToSet(s.anyOf)

AllSubSchemas(nodes) == UNION {SubSchemas(s) : s \in nodes}

\* The nodes of a schema at each depth, to the first past the cap.
NodesAt(schema) ==
  LET at[depth \in 0..MaxDepth + 1] ==
        IF depth = 0 THEN {schema} ELSE AllSubSchemas(at[depth - 1])
  IN  at

\* One node, given the compiled nodes below.
CompileSchemaInner(schema, below) ==
  LET option(ss) == {below[s] : s \in ss}
      array(ss)  == [i \in DOMAIN ss |-> below[ss[i]]]
  IN  [validations     |-> CompileSchemaValidations(schema.validations),
       properties      |-> [k \in DOMAIN schema.properties |->
                              below[schema.properties[k]]],
       items           |-> option(schema.items),
       additional      |-> option(schema.additional),
       isMap           |-> schema.additionalProperties \notin {"absent", "false"},
       preserveUnknown |-> schema.preserveUnknown,
       embedded        |-> schema.embedded,
       format          |-> SchemaFormat(schema),
       default         |-> schema.default,
       allOf           |-> array(schema.allOf),
       oneOf           |-> array(schema.oneOf),
       anyOf           |-> array(schema.anyOf)]

\* Nodes that have so many levels left up to the cap, compiled.
CompiledOf(nodes, left, below) ==
  [s \in nodes |-> IF left = 0 THEN MarkerNode ELSE CompileSchemaInner(s, below)]

\* The recursion, from the deepest nodes up.
CompiledAt(schema, cap) ==
  LET at[left \in 0..cap + 1] ==
        CompiledOf(NodesAt(schema)[cap + 1 - left], left, at[left - 1])
  IN  at

\* A slip: the guards count from different depths.
CompileSchemaFromOne(schema) == CompiledAt(schema, MaxDepth - 1)[MaxDepth][schema]

CompileSchema(schema) == CompiledAt(schema, MaxDepth)[MaxDepth + 1][schema]
=============================================================================
