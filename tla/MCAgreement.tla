---------------------------- MODULE MCAgreement ----------------------------
(***************************************************************************)
(* Agreement on the schemas of every shape, with two properties side by    *)
(* side so that the order of a HashMap shows, with schemas that are cut at *)
(* the depth cap, and with those whose conversion depends on the node.     *)
(***************************************************************************)
EXTENDS Agreement, MCUniverse

Pair(s) == Props(a, s, b, Defaulted(s, x))

MCRawCall ==
  [schema : Schemas \cup {Pair(s) : s \in Leaves} \cup Conversions,
   object : Objects \cup {Obj1(aDotB, x), Obj2(a_b, t, aDotB, x)},
   old    : {{}, {Obj1(a, Obj1(a, x))}},
   root   : {TRUE}]
  \cup EmptyNameCall

\* A default on the node just past the cap, next to one just before it.
DeepDefault(n) ==
  CASE n = 0 -> Prop(a, Defaulted(Leaf(<<Rule("false")>>), x))
    [] n = 1 -> Prop(a, Prop(b, Defaulted(Leaf(<<Rule("false")>>), x)))
    [] n = 2 -> Prop(a, Prop(a, Prop(b, Defaulted(Leaf(<<Rule("false")>>), x))))

MCDeepCall ==
  [schema : {DeepDefault(n) : n \in 0..2},
   object : {Nothing, Obj1(a, Nothing), Obj1(a, Obj1(a, Nothing))},
   old    : {{}},
   root   : {TRUE}]

\* No document reaches the bound on nesting, with its defaults filled in.
ASSUME NestingSuffices ==
  \A c \in RawCall :
    LET f == RawRootFrame(c)
    IN  NestsWithinBound(f.value) /\ \A o \in f.old : NestsWithinBound(o)
=============================================================================
