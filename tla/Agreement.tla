----------------------------- MODULE Agreement -----------------------------
(***************************************************************************)
(* The two ways to validate the same object against the same schema:       *)
(* validate_with_context on the raw schema, then compile_schema and        *)
(* validate_compiled_with_context on the tree it returns.  A call goes     *)
(* through both, the variables of the second walk carrying the suffix C.   *)
(***************************************************************************)
EXTENDS Compilation, Defaults, SequencesExt

CONSTANT RawCall   \* the calls: records [schema, object, old, root]

VARIABLES call, stage, frames, next, scope, errors, verdict, answered,
          callC, stageC, framesC, nextC, scopeC, errorsC, verdictC, answeredC

rawVars      == <<call, stage, frames, next, scope, errors, verdict, answered>>
compiledVars == <<callC, stageC, framesC, nextC, scopeC, errorsC, verdictC,
                  answeredC>>

RawW      == INSTANCE RawWalk
CompiledW == INSTANCE CompiledWalk

ResultsR(f)   == RawW!RawResults(f)
ChildrenR(f)  == RawW!RawChildren(f)
ResultsC(f)   == CompiledW!CompiledResults(f)
ChildrenC(f)  == CompiledW!CompiledChildren(f)

\* (Frame and Result occur in the assumptions and the type invariants of the walks
\* only, which are checked on each walk alone.)
Raw ==
  INSTANCE Traversal
    WITH Call <- RawCall, Frame <- {}, Result <- {},
         RootFrame <- RawRootFrame, Results <- ResultsR, Children <- ChildrenR,
         Convert <- JsonToCelWithSchema

CompiledCall(c) == [c EXCEPT !.schema = CompileSchema(@)]

CompiledCalls == {CompiledCall(c) : c \in RawCall}

Tree ==
  INSTANCE Traversal
    WITH Call <- CompiledCalls,
         Frame <- {}, Result <- {},
         RootFrame <- CompiledRootFrame, Results <- ResultsC, Children <- ChildrenC,
         Convert <- JsonToCelWithCompiled,
         call <- callC, stage <- stageC, frames <- framesC, next <- nextC,
         scope <- scopeC, errors <- errorsC, verdict <- verdictC,
         answered <- answeredC

\* The frames the two walks pass through.
RawFrames      == UNION {Raw!Walked(c) : c \in RawCall}
CompiledFrames == UNION {Tree!Walked(c) : c \in CompiledCalls}

\* Calls, schemas and frames are as JSON and the walkers have them.
ASSUME CallAssumption ==
  \A c \in RawCall :
    /\ c = [schema |-> c.schema, object |-> c.object, old |-> c.old, root |-> c.root]
    /\ \A depth \in 0..MaxDepth + 1 : \A n \in NodesAt(c.schema)[depth] : IsNode(n)

ASSUME WalksAssumption ==
  /\ \A f \in RawFrames : IsFrame(f) /\ (~Raw!TooDeep(f) => Raw!DeclaredIfBound(f))
  /\ \A f \in CompiledFrames : IsFrame(f) /\ (~Tree!TooDeep(f) => Tree!DeclaredIfBound(f))

Init ==
  /\ Raw!Init
  /\ callC = CompiledCall(call)
  /\ Tree!Init

ValidateRaw == Raw!Next /\ UNCHANGED compiledVars

ValidateCompiled ==
  /\ verdict # "running"
  /\ Tree!Next
  /\ UNCHANGED rawVars

Next == ValidateRaw \/ ValidateCompiled

Spec == Init /\ [][Next]_<<rawVars, compiledVars>>

---------------------------------------------------------------------------
\* No node of the schema lies past the cap.
FitsUnderCap(schema) == NodesAt(schema)[MaxDepth + 1] = {}

BothAnswered == verdict # "running" /\ verdictC # "running"

\* Compiling first changes nothing: for a schema within the depth cap both
\* validations report the same errors, each as often, whatever order the
\* compiled properties are walked in (walk_compiled against walk_schema).
SameErrors ==
  BothAnswered /\ FitsUnderCap(call.schema) =>
    ToBag(errors) = ToBag(errorsC)

\* Some node just past the cap declares a default.
DefaultPastCap(schema) == \E s \in NodesAt(schema)[MaxDepth + 1] : s.default # {}

TooDeepPaths(errs) ==
  {e.path : e \in {d \in ToSet(errs) : d.kind = "SchemaTooDeep"}}

\* An object is refused past the cap in both validations or in neither: the
\* three depth guards meet at the same schema nodes, unless a schema declares
\* a default just past the cap (compile_schema_inner's marker).
SameRefusals ==
  BothAnswered /\ ~DefaultPastCap(call.schema) =>
    TooDeepPaths(errors) = TooDeepPaths(errorsC)

\* "The compiled defaulter must produce the same result as the schema one"
\* (src/src/validation/defaults.rs:282), and so both validations the same
\* verdict, at whatever depth a default is declared.
SameVerdict == BothAnswered => verdict = verdictC
=============================================================================
