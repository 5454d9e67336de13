--------------------------- MODULE MCRawValidator ---------------------------
(***************************************************************************)
(* Validator::validate_with_context of src/src/validation/mod.rs, a        *)
(* Traversal over the raw schema whose rules are compiled at every node:   *)
(* on the schemas of every shape over a small set of rule lists, against   *)
(* documents that match, miss or exceed those shapes.                      *)
(***************************************************************************)
EXTENDS Positions, RawWalk, Values, Defaults, MCUniverse

MCCall ==
  [schema : Schemas, object : Objects, old : Olds, root : {TRUE}]
    \cup EmptyNameCall

\* A default that is an object whose own schema declares a default, inside
\* objects that have or lack the field.
NestedDefault ==
  Prop(a, Defaulted(Prop(b, Defaulted(Leaf(<<Rule("true")>>), y)), Nothing))

MCNestedCall ==
  [schema : {NestedDefault, MapOf(NestedDefault), Items(NestedDefault)},
   object : {Nothing, Obj1(a, Nothing), Obj1(b, Obj1(a, Nothing)),
             Array(<<Nothing>>)},
   old : {{}}, root : {TRUE}]

\* The frames reachable from a set of frames, level by level.
RECURSIVE Below(_)
Below(fs) ==
  IF fs = {} THEN {}
  ELSE fs \cup Below(UNION {UNION {ToSet(order) : order \in RawChildren(f)} :
                             f \in {g \in fs : g.depth <= MaxDepth}})

\* (A constant that the .cfg replaces by a name of its own is kept as a set
\* TLC can search fast.)
Frames == Below({RawRootFrame(c) : c \in MCCall \cup MCNestedCall})

MCFrame == Frames

\* The paths of all positions of a document.
RECURSIVE PathsOf(_)
PathsOf(v) ==
  {<<>>}
    \cup UNION {{<<<<"name", k>>>> \o p : p \in PathsOf(v.fields[k])} :
                  k \in Keys(v)}
    \cup IF IsArray(v)
         THEN UNION {{<<<<"index", i>>>> \o p : p \in PathsOf(v.elems[i])} :
                       i \in DOMAIN v.elems}
         ELSE {}

\* Every position of every document.
AllPaths ==
  UNION {PathsOf(v) : v \in UNION {{f.value} \cup f.old : f \in
           {RawRootFrame(c) : c \in MCCall \cup MCNestedCall}}}

MCPath == AllPaths

AllResults == UNION {ToSet(RawResults(f)) : f \in Frames}

MCResult == AllResults

\* No document reaches the bound on nesting, with its defaults filled in.
ASSUME NestingSuffices ==
  \A c \in MCCall \cup MCNestedCall :
    LET f == RawRootFrame(c)
    IN  NestsWithinBound(f.value) /\ \A o \in f.old : NestsWithinBound(o)
=============================================================================
