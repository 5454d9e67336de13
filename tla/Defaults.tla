------------------------------ MODULE Defaults ------------------------------
(***************************************************************************)
(* Schema defaulting, src/src/validation/defaults.rs: once over the raw    *)
(* schema and once over the compiled tree.                                 *)
(***************************************************************************)
EXTENDS Documents

\* A slip: an explicit null is taken for a missing field.
FillMissingOrNull(fields, properties) ==
  LET missing == {k \in DOMAIN properties :
                    /\ properties[k].default # {}
                    /\ k \in DOMAIN fields => fields[k] = Null}
  IN  [k \in DOMAIN fields \cup missing |->
         IF k \in missing THEN CHOOSE d \in properties[k].default : TRUE
         ELSE fields[k]]

\* The object with the defaults of the declared properties it lacks.
FillMissing(fields, properties) ==
  LET missing == {k \in DOMAIN properties \ DOMAIN fields :
                    properties[k].default # {}}
  IN  [k \in DOMAIN fields \cup missing |->
         IF k \in DOMAIN fields THEN fields[k]
         ELSE CHOOSE d \in properties[k].default : TRUE]

\* The schema that a field is defaulted under, an Option: a declared property
\* has its own, any other field the map schema.
SchemaOfField(schema, k) ==
  IF k \in DOMAIN schema.properties THEN {schema.properties[k]}
  ELSE IF schema.preserveUnknown THEN {} ELSE schema.additional

\* The recursive calls of one call, pairs of a schema and a value: only the
\* fields the object came with are descended into.
CallsBelow(schema, v) ==
  IF IsObject(v)
  THEN UNION {SchemaOfField(schema, k) \X {v.fields[k]} : k \in Keys(v)}
  ELSE IF IsArray(v)
  THEN UNION {schema.items \X {v.elems[i]} : i \in DOMAIN v.elems}
  ELSE {}

\* A value is answered as it is where there is no schema to descend with.
AnswerFor(schemas, w, answer) ==
  IF schemas = {} THEN w ELSE answer[<<CHOOSE s \in schemas : TRUE, w>>]

\* One call, given the answers of the calls below.
ApplyDefaultsInner(schema, v, answer) ==
  IF IsObject(v)
  THEN Object(FillMissing(
         [k \in Keys(v) |-> AnswerFor(SchemaOfField(schema, k), v.fields[k], answer)],
         schema.properties))
  ELSE IF IsArray(v)
  THEN Array([i \in DOMAIN v.elems |-> AnswerFor(schema.items, v.elems[i], answer)])
  ELSE v

CalledBy(calls) == UNION {CallsBelow(c[1], c[2]) : c \in calls}

\* What calls answer that have so many levels left up to the cap: past it a value
\* is answered as it is.
AnswersOf(calls, left, below) ==
  [c \in calls |-> IF left = 0 THEN c[2] ELSE ApplyDefaultsInner(c[1], c[2], below)]

\* The recursion: the calls at each depth, and from the deepest up what they
\* answer.
CallsAt(schema, v) ==
  LET at[depth \in 0..MaxDepth + 1] ==
        IF depth = 0 THEN {<<schema, v>>} ELSE CalledBy(at[depth - 1])
  IN  at

AnswersAt(schema, v) ==
  LET at[left \in 0..MaxDepth + 1] ==
        AnswersOf(CallsAt(schema, v)[MaxDepth + 1 - left], left, at[left - 1])
  IN  at

ApplyDefaults(schema, v) == AnswersAt(schema, v)[MaxDepth + 1][<<schema, v>>]

\* The second copy of the code reads the same fields of a compiled node that the
\* first reads of a raw one.
ApplyDefaultsCompiled(compiled, v) == ApplyDefaults(compiled, v)

---------------------------------------------------------------------------
\* Where a call starts: both documents are defaulted at the root, whose schema
\* is the raw one, or a compiled node (the root that compile_schema returned or
\* one of the nodes below it, which are public fields).
RawRootFrame(c) ==
  [node  |-> c.schema,
   value |-> ApplyDefaults(c.schema, c.object),
   old   |-> {ApplyDefaults(c.schema, o) : o \in c.old},
   path  |-> <<>>,
   depth |-> 0,
   root  |-> c.root]

CompiledRootFrame(c) ==
  [node  |-> c.schema,
   value |-> ApplyDefaultsCompiled(c.schema, c.object),
   old   |-> {ApplyDefaultsCompiled(c.schema, o) : o \in c.old},
   path  |-> <<>>,
   depth |-> 0,
   root  |-> c.root]
=============================================================================
