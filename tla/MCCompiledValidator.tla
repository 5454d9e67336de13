------------------------ MODULE MCCompiledValidator ------------------------
(***************************************************************************)
(* Validator::validate_compiled_with_context of                            *)
(* src/src/validation/mod.rs, a Traversal over a compiled tree: on the     *)
(* compiled schemas of every shape, and on nodes inside a tree that        *)
(* compile_schema had to cut.                                              *)
(***************************************************************************)
EXTENDS Positions, CompiledWalk, Compilation, Defaults, MCUniverse

Pair(s) == Props(a, s, b, s)

CutTree == CompileSchema(Prop(a, Prop(a, Prop(a, Leaf(<<Rule("false")>>)))))

\* The node one level below the root of the cut tree, and the marker itself.
CutNodes ==
  {CutTree, CutTree.properties[a],
   CutTree.properties[a].properties[a].properties[a]}

CompiledSchemas ==
  {CompileSchema(s) : s \in Schemas \cup {Pair(s) : s \in Leaves}} \cup CutNodes

MCCall ==
  [schema : CompiledSchemas, object : Objects \cup {Obj2(a, x, b, x)},
   old : Olds, root : {TRUE}]

RECURSIVE Below(_)
Below(fs) ==
  IF fs = {} THEN {}
  ELSE fs \cup Below(UNION {UNION {ToSet(order) : order \in CompiledChildren(f)} :
                             f \in {g \in fs : g.depth <= MaxDepth}})

Frames == Below({CompiledRootFrame(c) : c \in MCCall})

MCFrame == Frames

AllResults == UNION {ToSet(CompiledResults(f)) : f \in Frames}

MCResult == AllResults

MCPath == {<<>>}

\* No document reaches the bound on nesting, with its defaults filled in.
ASSUME NestingSuffices ==
  \A c \in MCCall :
    LET f == CompiledRootFrame(c)
    IN  NestsWithinBound(f.value) /\ \A o \in f.old : NestsWithinBound(o)
=============================================================================
