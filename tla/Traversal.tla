----------------------------- MODULE Traversal -----------------------------
(***************************************************************************)
(* The control flow of one validate call: walk_schema and walk_compiled    *)
(* of src/src/validation/mod.rs have the same shape, and this module is    *)
(* that shape, over whatever schema tree the frames carry.  RawWalk and    *)
(* CompiledWalk say what a node's rules and children are for each of them. *)
(*                                                                         *)
(* The recursion is a stack of frames still to be walked, its head the     *)
(* frame being walked.  A call defaults its documents, walks the tree in   *)
(* preorder, evaluates a node's rules one by one and turns the collected   *)
(* errors into a verdict.                                                  *)
(***************************************************************************)
EXTENDS Rules, SequencesExt

CONSTANTS
  Call,           \* the calls: records [schema, object, old, root]
  Frame,          \* the frames those calls can give rise to
  Result,         \* the entries a node's compiled rules can have
  RootFrame(_),   \* the first frame of a call, its documents defaulted
  Results(_),     \* the compiled rules of a frame's node, in order
  Children(_),    \* the orders in which a frame's children may be walked
  Convert(_, _)   \* the CEL value of a document under a node

TooDeep(f) == f.depth > MaxDepth

\* Every call has a root frame, and the walk of a frame leads to frames again.
ASSUME FrameAssumption ==
  /\ \A c \in Call : RootFrame(c) \in Frame
  /\ \A f \in Frame : f.depth \in Nat /\ Results(f) \in Seq(Result)
  /\ \A f \in Frame : ~TooDeep(f) =>
       /\ Children(f) # {}
       /\ \A order \in Children(f) : order \in Seq(Frame)

ChildSet(f) == UNION {ToSet(order) : order \in Children(f)}

\* Each recursive call is one deeper than its caller.
ASSUME DeeperAssumption ==
  /\ \A c \in Call : RootFrame(c).depth = 0
  /\ \A f \in Frame : ~TooDeep(f) =>
       \A g \in ChildSet(f) : g.depth = f.depth + 1

\* A frame's children are the same frames, each as often, in whatever order they
\* are walked.
ASSUME OrderAssumption ==
  \A f \in Frame : ~TooDeep(f) => \A p, q \in Children(f) : Reorders(q, p)

\* A compiled entry is what compiling its rule gives.
ASSUME CompiledAssumption ==
  \A f \in Frame : ~TooDeep(f) =>
    \A i \in DOMAIN Results(f) :
      LET res == Results(f)[i]
      IN  res.status = "compiled" => res = Compiled(res.raw)

VARIABLES
  call,      \* the arguments of the call
  stage,     \* "call", "enter", "evaluate" or "return": where the code is
  frames,    \* the frames still to be walked, the current one first
  next,      \* the index of the current node's next result to evaluate
  scope,     \* the current node's scope: self, oldSelf, root variables
  errors,    \* the errors collected so far
  verdict,   \* "running", then "ok" or "rejected"
  answered   \* history: the frames that were entered or refused

vars == <<call, stage, frames, next, scope, errors, verdict, answered>>

---------------------------------------------------------------------------
\* A node's scope.  The RootContext is bound only where the path is empty.
ScopeOf(f) ==
  [self    |-> Convert(f.node, f.value),
   oldSelf |-> {Convert(f.node, o) : o \in f.old},
   root    |-> f.root /\ f.path = <<>>]

\* The interpreter answers "undeclared" only for what a rule refers to and the
\* scope it runs in does not bind.
DeclaredIfBound(f) ==
  \A i \in DOMAIN Results(f) :
    LET res   == Results(f)[i]
        bound == IF EffectiveScope(res, ScopeOf(f)).oldSelf = {}
                 THEN {"self"} ELSE {"self", "oldSelf"}
    IN  (/\ res.status = "compiled"
         /\ Execute(res.raw.rule, EffectiveScope(res, ScopeOf(f))) = "undeclared")
        => ~ (References(res.raw.rule) \subseteq bound)

ASSUME InterpreterAssumption == \A f \in Frame : ~TooDeep(f) => DeclaredIfBound(f)

NoScope == [self |-> Null, oldSelf |-> {}, root |-> FALSE]

Init ==
  /\ call \in Call
  /\ stage = "call"
  /\ frames = <<>>
  /\ next = 1
  /\ scope = NoScope
  /\ errors = <<>>
  /\ verdict = "running"
  /\ answered = {}

\* Default the object and the old object, and start at the root.
Start ==
  /\ stage = "call"
  /\ stage' = "enter"
  /\ frames' = <<RootFrame(call)>>
  /\ UNCHANGED <<call, next, scope, errors, verdict, answered>>

\* Slips: an over-deep subtree is dropped without an error, or refused with an
\* error that has lost the path.
RefuseSilently ==
  /\ stage = "enter"
  /\ frames # <<>>
  /\ TooDeep(Head(frames))
  /\ answered' = answered \cup {Head(frames)}
  /\ frames' = Tail(frames)
  /\ UNCHANGED <<call, stage, next, scope, errors, verdict>>

RefuseWithoutPath ==
  /\ stage = "enter"
  /\ frames # <<>>
  /\ TooDeep(Head(frames))
  /\ errors' = Append(errors, SchemaTooDeepError(<<>>))
  /\ answered' = answered \cup {Head(frames)}
  /\ frames' = Tail(frames)
  /\ UNCHANGED <<call, stage, next, scope, verdict>>

\* Past the depth cap the subtree is refused with an error of its own.
RefuseDeep ==
  /\ stage = "enter"
  /\ frames # <<>>
  /\ TooDeep(Head(frames))
  /\ errors' = Append(errors, SchemaTooDeepError(Head(frames).path))
  /\ answered' = answered \cup {Head(frames)}
  /\ frames' = Tail(frames)
  /\ UNCHANGED <<call, stage, next, scope, verdict>>

\* A slip: the rules of a node run in the scope of the node before it.
EnterNodeInOldScope ==
  /\ stage = "enter"
  /\ frames # <<>>
  /\ ~TooDeep(Head(frames))
  /\ stage' = "evaluate"
  /\ next' = 1
  /\ answered' = answered \cup {Head(frames)}
  /\ UNCHANGED <<call, frames, scope, errors, verdict>>

\* Convert the value and the old value and bind the node's scope.
EnterNode ==
  /\ stage = "enter"
  /\ frames # <<>>
  /\ ~TooDeep(Head(frames))
  /\ stage' = "evaluate"
  /\ next' = 1
  /\ scope' = ScopeOf(Head(frames))
  /\ answered' = answered \cup {Head(frames)}
  /\ UNCHANGED <<call, frames, errors, verdict>>

EvaluateNext ==
  /\ stage = "evaluate"
  /\ next <= Len(Results(Head(frames)))
  /\ errors' = errors \o EvaluateResult(Results(Head(frames))[next], scope,
                                        Head(frames).path)
  /\ next' = next + 1
  /\ UNCHANGED <<call, stage, frames, scope, verdict, answered>>

\* After the node's own rules, its children and branches.
Descend ==
  /\ stage = "evaluate"
  /\ next > Len(Results(Head(frames)))
  /\ stage' = "enter"
  /\ \E order \in Children(Head(frames)) : frames' = order \o Tail(frames)
  /\ UNCHANGED <<call, next, scope, errors, verdict, answered>>

\* A slip: the first error ends the walk.
ReturnAtFirstError ==
  /\ stage = "enter"
  /\ frames = <<>> \/ errors # <<>>
  /\ stage' = "return"
  /\ verdict' = IF errors = <<>> THEN "ok" ELSE "rejected"
  /\ UNCHANGED <<call, frames, next, scope, errors, answered>>

\* into_result: Ok exactly when no error was collected.
Return ==
  /\ stage = "enter"
  /\ frames = <<>>
  /\ stage' = "return"
  /\ verdict' = IF errors = <<>> THEN "ok" ELSE "rejected"
  /\ UNCHANGED <<call, frames, next, scope, errors, answered>>

Next == Start \/ RefuseDeep \/ EnterNode \/ EvaluateNext \/ Descend \/ Return

\* The call runs on the caller's thread, without waiting for anything.
Spec == Init /\ [][Next]_vars /\ WF_vars(Next)

---------------------------------------------------------------------------
\* The errors the walk of one frame has to report.
ErrorsOf(f) ==
  IF TooDeep(f) THEN {SchemaTooDeepError(f.path)}
  ELSE UNION {ToSet(EvaluateResult(Results(f)[i], ScopeOf(f), f.path)) :
                i \in DOMAIN Results(f)}

\* Every rule of the frame's node holds for the frame's value.
Sound(f) ==
  /\ ~TooDeep(f)
  /\ \A i \in DOMAIN Results(f) : Satisfied(Results(f)[i], ScopeOf(f))

TypeOK ==
  /\ call \in Call
  /\ stage \in {"call", "enter", "evaluate", "return"}
  /\ frames \in Seq(Frame)
  /\ next \in Nat \ {0}
  /\ \A i \in DOMAIN errors : errors[i].kind \in ErrorKinds
  /\ verdict \in {"running", "ok", "rejected"}
  /\ answered \subseteq Frame
  /\ stage = "evaluate" => frames # <<>> /\ scope = ScopeOf(Head(frames))

\* Fail closed: a call answers Ok only after it has walked its root and,
\* from every frame it walked, all children, and no walked frame lies past the
\* depth cap or has a rule that is broken, malformed or unevaluable
\* (into_result, schema_too_deep_error and evaluate_compiled_results).
FailClosed ==
  verdict = "ok" =>
    /\ RootFrame(call) \in answered
    /\ \A f \in answered : Sound(f) /\ ChildSet(f) \subseteq answered

\* No false alarm: a collected error is one that some walked frame has to
\* report, with that frame's path and rule (evaluate_rule's error paths).
ReportedForCause ==
  errors \in Seq(UNION {ErrorsOf(f) : f \in answered})

\* Paths name places: no field of the object has the empty name, which would
\* join to the path of the object itself.
PathsNamePlaces == <<>> \notin Keys(RootFrame(call).value)

\* Every frame pairs a value with the old value of the same position: both are
\* what the frame's path leads to in the two defaulted documents (the
\* child_old, old_item and old_val of the walkers).
OldOfTheSamePosition ==
  PathsNamePlaces =>
    \A i \in DOMAIN frames :
      /\ Resolve({RootFrame(call).value}, frames[i].path) = {frames[i].value}
      /\ Resolve(RootFrame(call).old, frames[i].path) = frames[i].old

\* The RootContext variables are bound for the object as a whole and for no
\* part of it, even where a part's path is empty too (evaluate_compiled_results
\* and the None the walkers pass to children).
RootVariablesOnlyAtRoot ==
  stage = "evaluate" /\ scope.root =>
    /\ call.root
    /\ Head(frames).value = RootFrame(call).value

\* A rule over self and oldSelf alone is never answered with an unsupported
\* reference: whatever the old object lacks, the rule is skipped, or sees the
\* old value, or sees null (evaluate_rule's transition handling).
OldSelfNeverUnbound ==
  \A i \in DOMAIN errors :
    errors[i].kind = "UnsupportedReference" =>
      ~ (References(errors[i].rule) \subseteq {"self", "oldSelf"})

---------------------------------------------------------------------------
\* The frames a walk of a call has to pass through, depth by depth.
CalledFrom(fs) == UNION {ChildSet(f) : f \in {g \in fs : ~TooDeep(g)}}

Levels(c) ==
  LET at[depth \in 0..MaxDepth + 1] ==
        IF depth = 0 THEN {RootFrame(c)} ELSE CalledFrom(at[depth - 1])
  IN  at

Walked(c) == UNION {Levels(c)[depth] : depth \in 0..MaxDepth + 1}

Expected(c) == UNION {ErrorsOf(f) : f \in Walked(c)}

Promise == INSTANCE Admission WITH report <- ToSet(errors)

\* The worklist with its rule-by-rule error list keeps the promise of a call:
\* when it answers, exactly the errors due have been collected
\* (validate_with_context up to into_result).
KeepsPromise == Promise!Spec
=============================================================================
