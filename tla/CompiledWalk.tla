---------------------------- MODULE CompiledWalk ----------------------------
(***************************************************************************)
(* What walk_compiled of src/src/validation/mod.rs does at a node of a     *)
(* CompiledSchema.  Its control is that of the raw walk, but the node      *)
(* holds its compiled rules and keeps its properties in a HashMap, whose   *)
(* iteration order is any order.                                           *)
(***************************************************************************)
EXTENDS Rules, SequencesExt

CompiledResults(f) == f.node.validations

\* A slip: a property is compared with the old object around it.
PropertyFramesWithOldObject(f, names) ==
  [i \in DOMAIN names |->
     LET k == names[i]
     IN  ChildFrame(f, f.node.properties[k], f.value.fields[k], f.old,
                    JoinPath(f.path, k))]

PropertyFrames(f, names) ==
  [i \in DOMAIN names |->
     LET k == names[i]
     IN  ChildFrame(f, f.node.properties[k], f.value.fields[k],
                    FieldOf(f.old, k), JoinPath(f.path, k))]

ItemFrames(f) ==
  IF f.node.items = {} \/ ~IsArray(f.value) THEN <<>>
  ELSE LET compiled == CHOOSE n \in f.node.items : TRUE
       IN  [i \in DOMAIN f.value.elems |->
              ChildFrame(f, compiled, f.value.elems[i], ItemOf(f.old, i),
                         JoinPathIndex(f.path, i))]

\* A slip: a declared property is walked under the map schema as well.
AdditionalFramesOfAllKeys(f) ==
  IF f.node.preserveUnknown \/ f.node.additional = {} THEN <<>>
  ELSE LET compiled == CHOOSE n \in f.node.additional : TRUE
           extra    == MapOrder(Keys(f.value))
       IN  [i \in DOMAIN extra |->
              LET k == extra[i]
              IN  ChildFrame(f, compiled, f.value.fields[k],
                             FieldOf(f.old, k), JoinPath(f.path, k))]

AdditionalFrames(f) ==
  IF f.node.preserveUnknown \/ f.node.additional = {} THEN <<>>
  ELSE LET compiled == CHOOSE n \in f.node.additional : TRUE
           extra    == MapOrder(Keys(f.value) \ DOMAIN f.node.properties)
       IN  [i \in DOMAIN extra |->
              LET k == extra[i]
              IN  ChildFrame(f, compiled, f.value.fields[k],
                             FieldOf(f.old, k), JoinPath(f.path, k))]

BranchFrames(f) ==
  LET branches == f.node.allOf \o f.node.oneOf \o f.node.anyOf
  IN  [i \in DOMAIN branches |-> BranchFrame(f, branches[i])]

CompiledChildren(f) ==
  LET present == DOMAIN f.node.properties \cap Keys(f.value)
  IN  {PropertyFrames(f, names) \o ItemFrames(f) \o AdditionalFrames(f)
         \o BranchFrames(f) : names \in SetToSeqs(present)}
=============================================================================
