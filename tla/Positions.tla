------------------------------ MODULE Positions ------------------------------
(***************************************************************************)
(* Which positions of an object a walk has to judge, and by which schema   *)
(* nodes: read off the position's path alone, without the frames of the    *)
(* walk.                                                                   *)
(***************************************************************************)
EXTENDS Traversal

CONSTANT Path   \* the paths of the positions asked about

ASSUME PathAssumption ==
  \A p \in Path :
    /\ IsSequence(p)
    /\ \A i \in DOMAIN p : p[i][1] \in {"name", "index"} /\ p[i] = <<p[i][1], p[i][2]>>

\* A call starts with its own schema at the root path.
ASSUME WalkAssumption ==
  /\ \A f \in Frame : IsFrame(f)
  /\ \A c \in Call : /\ RootFrame(c).path = <<>>
                     /\ RootFrame(c).root = c.root
                     /\ RootFrame(c).node = c.schema

---------------------------------------------------------------------------
\* The branches of the junctors of some nodes.
Branches(nodes) ==
  UNION {ToSet(n.allOf) \cup ToSet(n.oneOf) \cup ToSet(n.anyOf) : n \in nodes}

AndBranches(nodes) == nodes \cup Branches(nodes)

\* A node governs together with the branches of its junctors, and they with
\* theirs; nested deeper than the cap they would be refused.
WithBranches(nodes) ==
  LET upTo[nesting \in 0..MaxDepth] ==
        IF nesting = 0 THEN nodes
        ELSE AndBranches(upTo[nesting - 1])
  IN  upTo[MaxDepth]

\* A declared property comes before the map schema.
NodesBelow(n, segment) ==
  CASE segment[1] = "index" -> n.items
    [] segment[1] = "name" /\ segment[2] \in DOMAIN n.properties ->
         {n.properties[segment[2]]}
    [] OTHER -> IF n.preserveUnknown THEN {} ELSE n.additional

GoverningBelow(nodes, segment) ==
  WithBranches(UNION {NodesBelow(n, segment) : n \in nodes})

\* The nodes that govern the positions along a path, those of its start given,
\* and the ones that govern the position at its end.
Governors(nodes, path) ==
  LET at[i \in 0..Len(path)] ==
        IF i = 0 THEN nodes ELSE GoverningBelow(at[i - 1], path[i])
  IN  at

Governing(schema, path) == Governors(WithBranches({schema}), path)[Len(path)]

\* No position escapes: once a call answers without having refused a subtree,
\* every schema node that governs a position of the defaulted object was walked
\* at that position, with the value that is found there (the properties, items,
\* additionalProperties and junctor loops of walk_schema).
EveryPositionJudged ==
  /\ verdict # "running"
  /\ \A i \in DOMAIN errors : errors[i].kind # "SchemaTooDeep"
  /\ PathsNamePlaces
  => \A p \in Path :
       \A v \in Resolve({RootFrame(call).value}, p) :
         \A n \in Governing(call.schema, p) :
           \E f \in answered : f.path = p /\ f.value = v /\ f.node = n

---------------------------------------------------------------------------
\* A document filled in: every position of the given document keeps its kind,
\* its value and its indices, an explicit null included, and whatever is new is
\* declared as the default of the property it was added for.
OnlyFilled(schema, given, filled) ==
  \A p \in Path :
    /\ \A v \in Resolve({given}, p) : \E w \in Resolve({filled}, p) :
         IF IsObject(v) THEN IsObject(w)
         ELSE IF IsArray(v) THEN IsArray(w) /\ DOMAIN w.elems = DOMAIN v.elems
         ELSE w = v
    /\ Resolve({given}, p) = {} /\ Resolve({given}, Front(p)) # {} =>
         \A w \in Resolve({filled}, p) :
           \E n \in Governing(schema, p) : w \in n.default

\* Defaulting only fills gaps, in the object and in the old object (the
\* contains_key test and the recursion of apply_defaults_inner).
DefaultsOnlyFill ==
  verdict # "running" =>
    /\ OnlyFilled(call.schema, call.object, RootFrame(call).value)
    /\ \A old \in call.old : \E filled \in RootFrame(call).old :
         OnlyFilled(call.schema, old, filled)

\* "Recursively applies default values from an OpenAPI schema to a JSON value,
\* filling in missing fields" (src/src/validation/defaults.rs:3-4): no walked
\* object lacks a property whose schema declares a default.
NoDefaultMissing ==
  verdict # "running" =>
    \A f \in answered : ~TooDeep(f) /\ IsObject(f.value) =>
      \A k \in DOMAIN f.node.properties :
        f.node.properties[k].default # {} => k \in Keys(f.value)
=============================================================================
