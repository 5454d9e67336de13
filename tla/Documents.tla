----------------------------- MODULE Documents -----------------------------
(***************************************************************************)
(* JSON documents, field paths and the frames of a schema walk: the data   *)
(* both walkers of src/src/validation/mod.rs work on.                      *)
(*                                                                         *)
(* A document is a record with a "kind": an object carries a function from *)
(* field names to documents, an array a sequence of documents, a scalar an *)
(* opaque atom.  A field name is a sequence of characters, so the empty    *)
(* name is <<>>.  An Option is a set with at most one element.             *)
(*                                                                         *)
(* A path is the sequence of segments that the code joins into one string: *)
(* <<"name", k>> for ".k" and <<"index", i>> for "[i]".                    *)
(***************************************************************************)
EXTENDS Integers, SequencesExt

CONSTANTS
  MaxDepth,      \* MAX_SCHEMA_DEPTH, 64 in the code
  MapOrder(_)    \* a set of keys as a serde_json::Map, a BTreeMap, lists it

ASSUME DepthAssumption == MaxDepth \in Nat

Null        == [kind |-> "null"]
Scalar(a)   == [kind |-> "scalar", atom |-> a]
Object(fs)  == [kind |-> "object", fields |-> fs]
Array(es)   == [kind |-> "array", elems |-> es]

IsObject(v) == v.kind = "object"
IsArray(v)  == v.kind = "array"

\* The names of an object's fields; a document of another kind has none.
Keys(v) == IF IsObject(v) THEN DOMAIN v.fields ELSE {}

\* serde_json's Value::get on an optional document: by field name, by index.
FieldOf(opt, k) == {v.fields[k] : v \in {w \in opt : k \in Keys(w)}}
ItemOf(opt, i)  ==
  {v.elems[i] : v \in {w \in opt : IsArray(w) /\ i \in DOMAIN w.elems}}

\* Along one segment, and along a path: what each segment leads to in turn.
Step(opt, segment) ==
  IF segment[1] = "name" THEN FieldOf(opt, segment[2]) ELSE ItemOf(opt, segment[2])

Trail(opt, path) ==
  LET at[i \in 0..Len(path)] ==
        IF i = 0 THEN opt ELSE Step(at[i - 1], path[i])
  IN  at

Resolve(opt, path) == Trail(opt, path)[Len(path)]

---------------------------------------------------------------------------
\* Joining onto the empty string drops the separator, so the empty name
\* joined onto the root path is the root path again.
JoinPath(base, name) ==
  IF base = <<>> /\ name = <<>> THEN <<>> ELSE Append(base, <<"name", name>>)

JoinPathIndex(base, i) == Append(base, <<"index", i>>)

\* A rule's fieldPath is appended to the node's path.  Only a fieldPath with a
\* leading dot at the root keeps that dot in the result.
EffectivePath(base, fieldPath) ==
  IF fieldPath = {} THEN base
  ELSE LET fp == CHOOSE p \in fieldPath : TRUE
       IN  IF base = <<>> /\ fp.leadingDot THEN <<<<"dot">>>> \o fp.segments
           ELSE base \o fp.segments

---------------------------------------------------------------------------
\* A slip: the RootContext is handed on to children.
ChildFrameKeepingRoot(f, node, value, old, path) ==
  [node |-> node, value |-> value, old |-> old, path |-> path,
   depth |-> f.depth + 1, root |-> f.root]

\* The arguments of one recursive call of a walker.  "root" says whether the
\* caller's RootContext is passed on.
ChildFrame(f, node, value, old, path) ==
  [node |-> node, value |-> value, old |-> old, path |-> path,
   depth |-> f.depth + 1, root |-> FALSE]

BranchFrame(f, node) == [f EXCEPT !.node = node, !.depth = @ + 1]

---------------------------------------------------------------------------
IsSequence(s) == s \in Seq(ToSet(s))
IsOption(S)   == \A s \in S, t \in S : s = t

\* A map lists its keys: all of them, each once, and no other.
Lists(order, ks) ==
  order \in Seq(ks) /\ ks \subseteq ToSet(order) /\ Len(order) = Cardinality(ks)

\* A list that has the entries of another, each as often, in some order.
Reorders(q, p) ==
  \E pi \in Bijection(DOMAIN q, DOMAIN p) : \A i \in DOMAIN q : q[i] = p[pi[i]]

\* A schema node and the arguments of a recursive call as JSON and the walkers
\* have them: arrays, rules and branches are sequences, and an object has finitely
\* many fields.
IsNode(n) ==
  /\ IsSequence(n.validations)
  /\ IsSequence(n.allOf) /\ IsSequence(n.oneOf) /\ IsSequence(n.anyOf)
  /\ IsOption(n.items) /\ IsOption(n.additional)

IsFrame(f) ==
  /\ f = [node |-> f.node, value |-> f.value, old |-> f.old, path |-> f.path,
          depth |-> f.depth, root |-> f.root]
  /\ IsNode(f.node)
  /\ IsArray(f.value) => IsSequence(f.value.elems)
  /\ IsFiniteSet(Keys(f.value))
  /\ \A ks \in SUBSET Keys(f.value) : Lists(MapOrder(ks), ks)
=============================================================================
