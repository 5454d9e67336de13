------------------------------ MODULE RawWalk ------------------------------
(***************************************************************************)
(* What walk_schema of src/src/validation/mod.rs does at a node of the raw *)
(* JSON schema: which rules the node has and what is visited below it.  A  *)
(* schema node is a record                                                 *)
(*   [validations, properties, items, additionalProperties, additional,    *)
(*    preserveUnknown, embedded, format, intOrString, default, allOf,      *)
(*    oneOf, anyOf]                                                        *)
(* whose additionalProperties is "absent", "false", "true" or "schema";    *)
(* items, additional and default are Options, properties a function from   *)
(* names, and the junctors are sequences.                                  *)
(***************************************************************************)
EXTENDS Rules

\* The rules of a node are compiled on every visit.
RawResults(f) == CompileSchemaValidations(f.node.validations)

\* Declared properties, in the schema's order, as far as the value has them.
PropertyFrames(f) ==
  LET present == MapOrder(DOMAIN f.node.properties \cap Keys(f.value))
  IN  [i \in DOMAIN present |->
         LET k == present[i]
         IN  ChildFrame(f, f.node.properties[k], f.value.fields[k],
                        FieldOf(f.old, k), JoinPath(f.path, k))]

\* A slip: every item is compared with the whole old array.
ItemFramesWithOldArray(f) ==
  IF f.node.items = {} \/ ~IsArray(f.value) THEN <<>>
  ELSE LET schema == CHOOSE s \in f.node.items : TRUE
       IN  [i \in DOMAIN f.value.elems |->
              ChildFrame(f, schema, f.value.elems[i], f.old,
                         JoinPathIndex(f.path, i))]

\* Array items; the old value of an item is the old array's item at its index.
ItemFrames(f) ==
  IF f.node.items = {} \/ ~IsArray(f.value) THEN <<>>
  ELSE LET schema == CHOOSE s \in f.node.items : TRUE
       IN  [i \in DOMAIN f.value.elems |->
              ChildFrame(f, schema, f.value.elems[i], ItemOf(f.old, i),
                         JoinPathIndex(f.path, i))]

\* A slip: map values are walked only where no property is declared.
AdditionalFramesOfPureMaps(f) ==
  IF f.node.preserveUnknown \/ f.node.additional = {}
       \/ DOMAIN f.node.properties # {}
  THEN <<>>
  ELSE LET schema == CHOOSE s \in f.node.additional : TRUE
           extra  == MapOrder(Keys(f.value))
       IN  [i \in DOMAIN extra |->
              LET k == extra[i]
              IN  ChildFrame(f, schema, f.value.fields[k], FieldOf(f.old, k),
                             JoinPath(f.path, k))]

\* Map values: the keys that no declared property covers.
AdditionalFrames(f) ==
  IF f.node.preserveUnknown \/ f.node.additional = {} THEN <<>>
  ELSE LET schema == CHOOSE s \in f.node.additional : TRUE
           extra  == MapOrder(Keys(f.value) \ DOMAIN f.node.properties)
       IN  [i \in DOMAIN extra |->
              LET k == extra[i]
              IN  ChildFrame(f, schema, f.value.fields[k], FieldOf(f.old, k),
                             JoinPath(f.path, k))]

\* The branches of the three junctors see the node's own value and path.
BranchFrames(f) ==
  LET branches == f.node.allOf \o f.node.oneOf \o f.node.anyOf
  IN  [i \in DOMAIN branches |-> BranchFrame(f, branches[i])]

RawChildren(f) ==
  {PropertyFrames(f) \o ItemFrames(f) \o AdditionalFrames(f) \o BranchFrames(f)}
=============================================================================
