-------------------------- MODULE Traversal_proofs --------------------------
(***************************************************************************)
(* Theorems about Traversal for every schema tree, every interpreter and   *)
(* every set of calls: the walk is type correct, reports nothing that no   *)
(* frame has to report, and fails closed.                                  *)
(***************************************************************************)
EXTENDS Traversal, Foundations

\* The frames that were walked or are still to be walked.
Scheduled == answered \cup ToSet(frames)

\* The frame whose rules are being evaluated.
Current(f) == stage = "evaluate" /\ f = Head(frames)

(***************************************************************************)
(* FailClosed speaks of the answer only.  What holds on the way to it: the *)
(* root is scheduled, the children of a walked frame are scheduled unless  *)
(* the frame is current, and while no error was collected every rule that  *)
(* was evaluated is satisfied.                                             *)
(***************************************************************************)
RootScheduled == stage # "call" => RootFrame(call) \in Scheduled

ChildrenScheduled ==
  \A f \in answered : TooDeep(f) \/ Current(f) \/ ChildSet(f) \subseteq Scheduled

SatisfiedSoFar(f) ==
  /\ ~TooDeep(f)
  /\ \A i \in DOMAIN Results(f) :
       Satisfied(Results(f)[i], ScopeOf(f)) \/ (Current(f) /\ i >= next)

SilentSoFar == errors = <<>> => \A f \in answered : SatisfiedSoFar(f)

Settled ==
  /\ stage = "call" => answered = {}
  /\ stage = "evaluate" =>
       frames # <<>> /\ Head(frames) \in answered /\ ~TooDeep(Head(frames))
  /\ verdict # "running" => stage = "return"
  /\ stage = "return" => frames = <<>>
  /\ verdict = "ok" => frames = <<>> /\ errors = <<>>

IInv ==
  /\ TypeOK
  /\ ReportedForCause
  /\ RootScheduled
  /\ ChildrenScheduled
  /\ SilentSoFar
  /\ Settled

---------------------------------------------------------------------------
\* A failed rule's error has one of the kinds of ErrorKind.
LEMMA FailureKinds ==
  ASSUME NEW outcome
  PROVE  FailureKind(outcome) \in ErrorKinds
  BY DEF FailureKind, ErrorKinds

\* An entry of a node's results adds no error, or one (evaluate_rule and the
\* match of evaluate_compiled_results).
LEMMA OneErrorAtMost ==
  ASSUME NEW res, NEW s, NEW path
  PROVE  \/ EvaluateResult(res, s, path) = <<>>
         \/ \E e : /\ EvaluateResult(res, s, path) = <<e>>
                  /\ e.kind \in ErrorKinds
<1>1. ASSUME NEW rule, NEW kind \in ErrorKinds, NEW at, NEW message
      PROVE  ErrorAt(rule, kind, at, message).kind \in ErrorKinds
  BY DEF ErrorAt
<1>2. CASE res.status = "compiled"
  <2>1. EvaluateResult(res, s, path) = EvaluateRule(res, s, path)
    BY <1>2 DEF EvaluateResult
  <2> QED BY <2>1, <1>1, FailureKinds DEF EvaluateRule
<1>3. CASE res.status = "SchemaTooDeep"
  <2>1. EvaluateResult(res, s, path) = <<SchemaTooDeepError(path)>>
    BY <1>3 DEF EvaluateResult
  <2> QED BY <2>1, <1>1 DEF SchemaTooDeepError, ErrorKinds
<1>4. CASE res.status = "InvalidRule"
  <2>1. EvaluateResult(res, s, path)
          = <<ErrorAt("", "InvalidRule", path, "builtin")>>
    BY <1>4 DEF EvaluateResult
  <2> QED BY <2>1, <1>1 DEF ErrorKinds
<1>5. CASE res.status \notin {"compiled", "SchemaTooDeep", "InvalidRule"}
  <2>1. EvaluateResult(res, s, path)
          = <<ErrorAt(res.rule, "CompilationFailure", path, "builtin")>>
    BY <1>5 DEF EvaluateResult
  <2> QED BY <2>1, <1>1 DEF ErrorKinds
<1> QED BY <1>2, <1>3, <1>4, <1>5

\* A rule that adds no error is satisfied: an entry that did not compile always
\* adds one, and a skipped rule lacks an old value it does not call optional.
LEMMA SilenceIsSatisfaction ==
  ASSUME NEW res, NEW s, NEW path, EvaluateResult(res, s, path) = <<>>
  PROVE  Satisfied(res, s)
<1>1. res.status = "compiled"
  BY DEF EvaluateResult
<1>2. EvaluateRule(res, s, path) = <<>>
  BY <1>1 DEF EvaluateResult
<1>3. \/ Skipped(res, s)
      \/ Execute(res.raw.rule, EffectiveScope(res, s)) = "true"
  BY <1>2 DEF EvaluateRule
<1> QED BY <1>1, <1>3 DEF Skipped, EffectiveScope, Satisfied

---------------------------------------------------------------------------
\* Whatever order the children of a frame are walked in, they are its ChildSet.
LEMMA ChildrenOfOrder ==
  ASSUME NEW f \in Frame, ~TooDeep(f), NEW order \in Children(f)
  PROVE  order \in Seq(Frame) /\ ChildSet(f) = ToSet(order)
<1>1. ASSUME NEW p \in Children(f)
      PROVE  ToSet(p) = ToSet(order)
  <2>1. PICK pi \in Bijection(DOMAIN p, DOMAIN order) :
          \A i \in DOMAIN p : p[i] = order[pi[i]]
    BY OrderAssumption DEF Reorders
  <2>2. /\ \A i \in DOMAIN p : pi[i] \in DOMAIN order
        /\ \A j \in DOMAIN order : \E i \in DOMAIN p : pi[i] = j
    BY DEF Bijection, Injection, Surjection
  <2> QED BY <2>1, <2>2 DEF ToSet
<1>2. order \in Seq(Frame)
  BY FrameAssumption
<1> QED BY <1>1, <1>2 DEF ChildSet

\* What a frame calls is a frame.
LEMMA ChildrenAreFrames ==
  ASSUME NEW f \in Frame, ~TooDeep(f)
  PROVE  ChildSet(f) \subseteq Frame
<1>1. ASSUME NEW order \in Children(f)
      PROVE  ToSet(order) \subseteq Frame
  <2>1. order \in Seq(Frame)
    BY FrameAssumption
  <2> QED BY <2>1 DEF ToSet
<1> QED BY <1>1 DEF ChildSet

---------------------------------------------------------------------------
\* The invariant holds before the call begins.
THEOREM InitInvariant == Init => IInv
<1> SUFFICES ASSUME Init
             PROVE  IInv
  OBVIOUS
<1>1. TypeOK
  BY DEF Init, TypeOK
<1>2. ReportedForCause
  BY DEF Init, ReportedForCause
<1>3. RootScheduled /\ ChildrenScheduled /\ SilentSoFar /\ Settled
  BY DEF Init, RootScheduled, ChildrenScheduled, SilentSoFar, Settled
<1> QED BY <1>1, <1>2, <1>3 DEF IInv

\* The head of the stack is a frame, and to take it off loses nothing else.
LEMMA HeadOfFrames ==
  ASSUME TypeOK, frames # <<>>
  PROVE  /\ Head(frames) \in Frame
         /\ Tail(frames) \in Seq(Frame)
         /\ ToSet(frames) = {Head(frames)} \cup ToSet(Tail(frames))
  BY MembersOfHeadTail DEF TypeOK

\* An error that some walked frame has to report may be appended.
LEMMA ReportOneMore ==
  ASSUME ReportedForCause, NEW e, NEW f \in answered', e \in ErrorsOf(f),
         answered \subseteq answered', errors' = Append(errors, e)
  PROVE  ReportedForCause'
<1> DEFINE Due(fs) == UNION {ErrorsOf(g) : g \in fs}
<1>1. errors \in Seq(Due(answered'))
  <2>1. Due(answered) \subseteq Due(answered')
    OBVIOUS
  <2>2. errors \in Seq(Due(answered))
    BY DEF ReportedForCause
  <2> HIDE DEF Due
  <2> QED BY <2>1, <2>2
<1>2. e \in Due(answered')
  OBVIOUS
<1>3. errors' \in Seq(Due(answered'))
  <2> HIDE DEF Due
  <2> QED BY <1>1, <1>2
<1> QED BY <1>3 DEF ReportedForCause

\* Every step of a walk keeps the invariant (walk_schema, evaluate_compiled_results
\* and into_result).
THEOREM StepInvariant == IInv /\ [Next]_vars => IInv'
<1> SUFFICES ASSUME IInv, [Next]_vars
             PROVE  IInv'
  OBVIOUS
<1> USE DEF IInv
<1>1. CASE Start
  <2> USE <1>1 DEF Start
  <2>1. frames' = <<RootFrame(call)>> /\ RootFrame(call) \in Frame
    BY FrameAssumption DEF TypeOK
  <2>2. TypeOK'
    BY <2>1 DEF TypeOK
  <2>3. ReportedForCause'
    BY DEF ReportedForCause
  <2>4. RootFrame(call) \in ToSet(frames')
    BY <2>1 DEF ToSet
  <2>5. RootScheduled'
    BY <2>4 DEF RootScheduled, Scheduled
  <2>6. ChildrenScheduled' /\ SilentSoFar' /\ Settled'
    BY DEF ChildrenScheduled, SilentSoFar, Settled, TypeOK
  <2> QED BY <2>2, <2>3, <2>5, <2>6
<1>2. CASE RefuseDeep
  <2> USE <1>2 DEF RefuseDeep
  <2> DEFINE h == Head(frames)
             e == SchemaTooDeepError(h.path)
  <2>1. /\ h \in Frame /\ Tail(frames) \in Seq(Frame)
        /\ ToSet(frames) = {h} \cup ToSet(frames')
    BY HeadOfFrames
  <2>2. e \in ErrorsOf(h)
    BY DEF ErrorsOf
  <2>3. ReportedForCause'
    BY <2>2, ReportOneMore
  <2>4. TypeOK'
    <3>1. e.kind \in ErrorKinds
      BY DEF SchemaTooDeepError, ErrorAt, ErrorKinds
    <3>2. errors \in Seq(UNION {ErrorsOf(f) : f \in answered})
      BY DEF ReportedForCause
    <3>3. \A i \in DOMAIN errors' : errors'[i].kind \in ErrorKinds
      BY <3>1, <3>2 DEF TypeOK
    <3> QED BY <2>1, <3>3 DEF TypeOK
  <2>5. Scheduled' = Scheduled
    BY <2>1 DEF Scheduled
  <2>6. RootScheduled'
    BY <2>5 DEF RootScheduled
  <2>7. ChildrenScheduled'
    BY <2>5 DEF ChildrenScheduled, Current
  <2>8. errors' # <<>>
    <3>1. errors \in Seq(UNION {ErrorsOf(f) : f \in answered})
      BY DEF ReportedForCause
    <3> QED BY <3>1
  <2>9. SilentSoFar' /\ Settled'
    BY <2>8 DEF SilentSoFar, Settled
  <2> QED BY <2>3, <2>4, <2>6, <2>7, <2>9
<1>3. CASE EnterNode
  <2> USE <1>3 DEF EnterNode
  <2> DEFINE h == Head(frames)
  <2>1. h \in Frame /\ h \in ToSet(frames)
    BY HeadOfFrames
  <2>2. TypeOK'
    BY <2>1 DEF TypeOK
  <2>3. ReportedForCause'
    BY DEF ReportedForCause
  <2>4. Scheduled' = Scheduled
    BY <2>1 DEF Scheduled
  <2>5. RootScheduled'
    BY <2>4 DEF RootScheduled
  <2>6. ChildrenScheduled'
    BY <2>4 DEF ChildrenScheduled, Current
  <2>7. SilentSoFar'
    <3> SUFFICES ASSUME errors' = <<>>, NEW f \in answered'
                 PROVE  SatisfiedSoFar(f)'
      BY DEF SilentSoFar
    <3>1. CASE f = h
      <4>1. \A i \in DOMAIN Results(h) : i >= 1
        BY <2>1, FrameAssumption
      <4> QED BY <3>1, <4>1 DEF SatisfiedSoFar, Current
    <3>2. CASE f \in answered
      BY <3>2 DEF SilentSoFar, SatisfiedSoFar, Current
    <3> QED BY <3>1, <3>2
  <2>8. Settled'
    BY DEF Settled
  <2> QED BY <2>2, <2>3, <2>5, <2>6, <2>7, <2>8
<1>4. CASE EvaluateNext
  <2> USE <1>4 DEF EvaluateNext
  <2> DEFINE h   == Head(frames)
             res == Results(h)[next]
             add == EvaluateResult(res, scope, h.path)
  <2>1. h \in Frame /\ h \in answered /\ ~TooDeep(h) /\ scope = ScopeOf(h)
    BY HeadOfFrames DEF Settled, TypeOK
  <2>2. next \in DOMAIN Results(h)
    <3>1. Results(h) \in Seq(Result)
      BY <2>1, FrameAssumption
    <3> QED BY <3>1 DEF TypeOK
  <2>3. errors \in Seq(UNION {ErrorsOf(f) : f \in answered})
    BY DEF ReportedForCause
  <2>4. \/ add = <<>> /\ errors' = errors
        \/ \E e : /\ add = <<e>> /\ e.kind \in ErrorKinds
                 /\ e \in ErrorsOf(h) /\ errors' = Append(errors, e)
    <3>1. CASE add = <<>>
      BY <3>1, <2>3
    <3>2. ASSUME NEW e, add = <<e>>, e.kind \in ErrorKinds
          PROVE  e \in ErrorsOf(h) /\ errors' = Append(errors, e)
      <4>1. e \in ToSet(EvaluateResult(Results(h)[next], ScopeOf(h), h.path))
        BY <3>2, <2>1 DEF ToSet
      <4>2. e \in ErrorsOf(h)
        BY <4>1, <2>1, <2>2 DEF ErrorsOf
      <4>3. errors \o <<e>> = Append(errors, e)
        BY <2>3
      <4> QED BY <4>2, <4>3, <3>2
    <3>3. add = <<>> \/ \E e : add = <<e>> /\ e.kind \in ErrorKinds
      BY OneErrorAtMost
    <3> QED BY <3>1, <3>2, <3>3
  <2>5. ReportedForCause'
    <3>1. CASE errors' = errors
      BY <3>1 DEF ReportedForCause
    <3>2. ASSUME NEW e, e \in ErrorsOf(h), errors' = Append(errors, e)
          PROVE  ReportedForCause'
      BY <3>2, <2>1, ReportOneMore
    <3> HIDE DEF add, h
    <3> QED BY <2>4, <3>1, <3>2
  <2>6. TypeOK'
    <3>1. \A i \in DOMAIN errors' : errors'[i].kind \in ErrorKinds
      <4> HIDE DEF add, h
      <4> QED BY <2>3, <2>4 DEF TypeOK
    <3>2. next' \in Nat \ {0}
      BY DEF TypeOK
    <3> QED BY <3>1, <3>2 DEF TypeOK
  <2>7. RootScheduled' /\ ChildrenScheduled' /\ Settled'
    BY DEF RootScheduled, ChildrenScheduled, Settled, Scheduled, Current
  <2>8. SilentSoFar'
    <3> SUFFICES ASSUME errors' = <<>>, NEW f \in answered
                 PROVE  SatisfiedSoFar(f)'
      BY DEF SilentSoFar
    <3>1. add = <<>> /\ errors = <<>>
      <4> HIDE DEF add, h
      <4> QED BY <2>3, <2>4
    <3>2. Satisfied(res, ScopeOf(h))
      BY <3>1, <2>1, SilenceIsSatisfaction
    <3>3. SatisfiedSoFar(f)
      BY <3>1 DEF SilentSoFar
    <3>4. ASSUME NEW i \in DOMAIN Results(f)
          PROVE  \/ Satisfied(Results(f)[i], ScopeOf(f))
                 \/ Current(f)' /\ i >= next'
      <4>1. CASE f = h /\ i = next
        BY <4>1, <3>2
      <4>2. CASE ~(f = h /\ i = next)
        <5>1. Results(f) \in Seq(Result)
          BY FrameAssumption DEF TypeOK
        <5>2. i \in Nat /\ next \in Nat
          BY <5>1 DEF TypeOK
        <5> QED BY <3>3, <4>2, <5>2 DEF SatisfiedSoFar, Current
      <4> QED BY <4>1, <4>2
    <3> QED BY <3>3, <3>4 DEF SatisfiedSoFar
  <2> QED BY <2>5, <2>6, <2>7, <2>8
<1>5. CASE Descend
  <2> USE <1>5 DEF Descend
  <2> DEFINE h == Head(frames)
  <2>1. /\ h \in Frame /\ Tail(frames) \in Seq(Frame)
        /\ ToSet(frames) = {h} \cup ToSet(Tail(frames))
        /\ h \in answered /\ ~TooDeep(h)
    BY HeadOfFrames DEF Settled
  <2>2. PICK order \in Children(h) : frames' = order \o Tail(frames)
    BY Zenon
  <2>3. order \in Seq(Frame) /\ ChildSet(h) = ToSet(order)
    BY <2>1, ChildrenOfOrder
  <2>4. /\ frames' \in Seq(Frame)
        /\ ToSet(frames') = ChildSet(h) \cup ToSet(Tail(frames))
    <3>1. order \in Seq(Frame) /\ Tail(frames) \in Seq(Frame)
      BY <2>1, <2>3
    <3>2. /\ order \o Tail(frames) \in Seq(Frame)
          /\ ToSet(order \o Tail(frames)) = ToSet(order) \cup ToSet(Tail(frames))
      BY ONLY <3>1, MembersOfConcat
    <3>3. frames' = order \o Tail(frames)
      BY <2>2
    <3>4. ToSet(order) = ChildSet(h)
      BY <2>3
    <3> QED BY ONLY <3>2, <3>3, <3>4
  <2>5. Scheduled' = Scheduled \cup ChildSet(h)
    BY <2>1, <2>4 DEF Scheduled
  <2>6. TypeOK'
    BY <2>4 DEF TypeOK
  <2>7. ReportedForCause'
    BY DEF ReportedForCause
  <2>8. RootScheduled'
    BY <2>5 DEF RootScheduled
  <2>9. ChildrenScheduled'
    BY <2>5 DEF ChildrenScheduled, Current
  <2>10. SilentSoFar'
    <3> SUFFICES ASSUME errors = <<>>, NEW f \in answered
                 PROVE  SatisfiedSoFar(f)'
      BY DEF SilentSoFar
    <3>1. SatisfiedSoFar(f)
      BY DEF SilentSoFar
    <3>2. ASSUME NEW i \in DOMAIN Results(f)
          PROVE  Satisfied(Results(f)[i], ScopeOf(f))
      <4>1. Results(f) \in Seq(Result)
        BY FrameAssumption DEF TypeOK
      <4>2. ~(f = h /\ i >= next)
        BY <4>1 DEF TypeOK
      <4> QED BY <3>1, <4>2 DEF SatisfiedSoFar, Current
    <3> QED BY <3>1, <3>2 DEF SatisfiedSoFar
  <2>11. Settled'
    BY DEF Settled
  <2> QED BY <2>6, <2>7, <2>8, <2>9, <2>10, <2>11
<1>6. CASE Return
  <2> USE <1>6 DEF Return
  <2>1. TypeOK' /\ ReportedForCause'
    BY DEF TypeOK, ReportedForCause
  <2>2. RootScheduled' /\ ChildrenScheduled'
    BY DEF RootScheduled, ChildrenScheduled, Scheduled, Current
  <2>3. SilentSoFar' /\ Settled'
    BY DEF SilentSoFar, SatisfiedSoFar, Settled, Current
  <2> QED BY <2>1, <2>2, <2>3
<1>7. CASE UNCHANGED vars
  BY <1>7 DEF vars, TypeOK, ReportedForCause, RootScheduled, ChildrenScheduled,
     SilentSoFar, SatisfiedSoFar, Settled, Scheduled, Current
<1> QED BY <1>1, <1>2, <1>3, <1>4, <1>5, <1>6, <1>7 DEF Next

---------------------------------------------------------------------------
(***************************************************************************)
(* Whatever set holds the root frame of each call, and with a frame those  *)
(* below it, holds all the frames of a walk.                               *)
(***************************************************************************)
LEMMA WalkStaysWithin ==
  ASSUME NEW G,
         \A c \in Call : RootFrame(c) \in G[c],
         \A c \in Call : \A f \in Frame \cap G[c] :
           ~TooDeep(f) => ChildSet(f) \subseteq G[c],
         IInv, Scheduled \subseteq G[call], [Next]_vars
  PROVE  Scheduled' \subseteq G[call']
<1>1. CASE Start
  <2>1. ToSet(frames') = {RootFrame(call)}
    BY <1>1 DEF Start, ToSet
  <2>2. call' = call /\ answered' = answered
    BY <1>1 DEF Start
  <2>3. RootFrame(call) \in G[call]
    BY DEF IInv, TypeOK
  <2> QED BY <2>1, <2>2, <2>3 DEF Scheduled
<1>2. CASE RefuseDeep \/ EnterNode
  <2>1. ToSet(frames) = {Head(frames)} \cup ToSet(Tail(frames))
    BY <1>2, HeadOfFrames DEF IInv, RefuseDeep, EnterNode
  <2>2. /\ call' = call
        /\ answered' = answered \cup {Head(frames)}
        /\ frames' = Tail(frames) \/ frames' = frames
    BY <1>2 DEF RefuseDeep, EnterNode
  <2> QED BY <2>1, <2>2 DEF Scheduled
<1>3. CASE Descend
  <2> DEFINE h == Head(frames)
  <2>1. /\ h \in Frame /\ Tail(frames) \in Seq(Frame)
        /\ ToSet(frames) = {h} \cup ToSet(Tail(frames))
        /\ h \in answered /\ ~TooDeep(h)
    BY <1>3, HeadOfFrames DEF Descend, IInv, Settled
  <2>2. PICK order \in Children(h) : frames' = order \o Tail(frames)
    BY <1>3, Zenon DEF Descend
  <2>3. order \in Seq(Frame) /\ ChildSet(h) = ToSet(order)
    BY <2>1, ChildrenOfOrder
  <2>4. ToSet(frames') = ChildSet(h) \cup ToSet(Tail(frames))
    <3>1. order \in Seq(Frame) /\ Tail(frames) \in Seq(Frame)
      BY <2>1, <2>3
    <3>2. ToSet(order \o Tail(frames)) = ToSet(order) \cup ToSet(Tail(frames))
      BY ONLY <3>1, MembersOfConcat
    <3> QED BY <3>2, <2>2, <2>3
  <2>5. ChildSet(h) \subseteq G[call]
    BY <2>1 DEF Scheduled, IInv, TypeOK
  <2> QED BY <1>3, <2>1, <2>4, <2>5 DEF Descend, Scheduled
<1>4. CASE EvaluateNext \/ Return \/ UNCHANGED vars
  BY <1>4 DEF EvaluateNext, Return, vars, Scheduled
<1> QED BY <1>1, <1>2, <1>3, <1>4 DEF Next

---------------------------------------------------------------------------
\* An unsupported reference comes of a compiled rule that was not skipped and
\* that the interpreter could not resolve in the rule's scope.
LEMMA UnsupportedIsUndeclared ==
  ASSUME NEW res, NEW s, NEW path, NEW e \in ToSet(EvaluateResult(res, s, path)),
         e.kind = "UnsupportedReference"
  PROVE  /\ res.status = "compiled"
         /\ ~Skipped(res, s)
         /\ Execute(res.raw.rule, EffectiveScope(res, s)) = "undeclared"
         /\ e.rule = res.raw.rule
<1>1. ASSUME NEW d, EvaluateResult(res, s, path) = <<d>>
      PROVE  d = e
  BY <1>1 DEF ToSet
<1>2. res.status = "compiled"
  <2>1. CASE res.status = "SchemaTooDeep"
    <3>1. EvaluateResult(res, s, path) = <<SchemaTooDeepError(path)>>
      BY <2>1 DEF EvaluateResult
    <3>2. SchemaTooDeepError(path) = e
      BY <3>1, <1>1
    <3>3. SchemaTooDeepError(path).kind = "SchemaTooDeep"
      BY DEF SchemaTooDeepError, ErrorAt
    <3> QED BY <3>2, <3>3
  <2>2. CASE res.status = "InvalidRule"
    <3>1. EvaluateResult(res, s, path)
            = <<ErrorAt("", "InvalidRule", path, "builtin")>>
      BY <2>2 DEF EvaluateResult
    <3>2. ErrorAt("", "InvalidRule", path, "builtin") = e
      BY <3>1, <1>1
    <3>3. ErrorAt("", "InvalidRule", path, "builtin").kind = "InvalidRule"
      BY DEF ErrorAt
    <3> QED BY <3>2, <3>3
  <2>3. CASE res.status \notin {"compiled", "SchemaTooDeep", "InvalidRule"}
    <3>1. EvaluateResult(res, s, path)
            = <<ErrorAt(res.rule, "CompilationFailure", path, "builtin")>>
      BY <2>3 DEF EvaluateResult
    <3>2. ErrorAt(res.rule, "CompilationFailure", path, "builtin") = e
      BY <3>1, <1>1
    <3>3. ErrorAt(res.rule, "CompilationFailure", path, "builtin").kind = "CompilationFailure"
      BY DEF ErrorAt
    <3> QED BY <3>2, <3>3
  <2> QED BY <2>1, <2>2, <2>3
<1> DEFINE outcome == Execute(res.raw.rule, EffectiveScope(res, s))
           at      == EffectivePath(path, res.raw.fieldPath)
<1>3. EvaluateResult(res, s, path) = EvaluateRule(res, s, path)
  BY <1>2 DEF EvaluateResult
<1>4. ~Skipped(res, s) /\ outcome # "true"
  <2>1. EvaluateResult(res, s, path) # <<>>
    BY DEF ToSet
  <2> QED BY <2>1, <1>3 DEF EvaluateRule
<1>5. PICK message :
        EvaluateResult(res, s, path)
          = <<ErrorAt(res.raw.rule, FailureKind(outcome), at, message)>>
  BY <1>3, <1>4 DEF EvaluateRule
<1>6. e.kind = FailureKind(outcome) /\ e.rule = res.raw.rule
  BY <1>5, <1>1 DEF ErrorAt
<1>7. outcome = "undeclared"
  BY <1>6 DEF FailureKind
<1> QED BY <1>2, <1>4, <1>6, <1>7

\* A rule over self and oldSelf alone has both bound wherever it is not
\* skipped (evaluate_rule's transition handling).
LEMMA BoundWhereEvaluated ==
  ASSUME NEW f \in Frame, ~TooDeep(f), NEW i \in DOMAIN Results(f),
         NEW e \in ToSet(EvaluateResult(Results(f)[i], ScopeOf(f), f.path)),
         e.kind = "UnsupportedReference"
  PROVE  ~ (References(e.rule) \subseteq {"self", "oldSelf"})
<1> DEFINE res == Results(f)[i]
           s   == ScopeOf(f)
<1>1. /\ res.status = "compiled"
      /\ ~Skipped(res, s)
      /\ Execute(res.raw.rule, EffectiveScope(res, s)) = "undeclared"
      /\ e.rule = res.raw.rule
  BY UnsupportedIsUndeclared
<1> SUFFICES ASSUME References(res.raw.rule) \subseteq {"self", "oldSelf"}
             PROVE  FALSE
  BY <1>1
<1>2. EffectiveScope(res, s).oldSelf = {} /\ "oldSelf" \in References(res.raw.rule)
  BY <1>1, InterpreterAssumption DEF DeclaredIfBound
<1>3. s.oldSelf = {} /\ res.raw.optionalOldSelf # "true"
  BY <1>2 DEF EffectiveScope, ScopeOf
<1>4. res.transition
  <2>1. res = Compiled(res.raw)
    BY <1>1, CompiledAssumption
  <2>2. Compiled(res.raw).transition = ("oldSelf" \in References(res.raw.rule))
    BY DEF Compiled
  <2> HIDE DEF res
  <2> QED BY <2>1, <2>2, <1>2, Zenon
<1> QED BY <1>1, <1>3, <1>4 DEF Skipped

---------------------------------------------------------------------------
\* The invariant holds at every moment of every walk.
THEOREM AlwaysInvariant == Spec => []IInv
<1>1. Init => IInv
  BY InitInvariant
<1>2. IInv /\ [Next]_vars => IInv'
  BY StepInvariant
<1> QED BY <1>1, <1>2, PTL DEF Spec

\* The walk is type correct: in particular a node's rules are evaluated in the
\* scope of that node's frame and of no other (the cel_value and cel_old of
\* walk_schema).
THEOREM TypeCorrect == Spec => []TypeOK
<1>1. IInv => TypeOK
  BY DEF IInv
<1> QED BY <1>1, AlwaysInvariant, PTL

\* A call answers Ok only when every frame below its root was walked and every
\* rule of every walked frame is satisfied: no rule is lost by an early return,
\* by a failed compilation or by the depth cap (into_result and
\* evaluate_compiled_results).
THEOREM FailsClosed == Spec => []FailClosed
<1>1. IInv => FailClosed
  <2> SUFFICES ASSUME IInv, verdict = "ok"
               PROVE  /\ RootFrame(call) \in answered
                      /\ \A f \in answered :
                           Sound(f) /\ ChildSet(f) \subseteq answered
    BY DEF FailClosed
  <2>1. stage = "return" /\ frames = <<>> /\ errors = <<>>
    BY DEF IInv, Settled
  <2>2. Scheduled = answered
    BY <2>1 DEF Scheduled, ToSet
  <2>3. RootFrame(call) \in answered
    BY <2>1, <2>2 DEF IInv, RootScheduled
  <2>4. ASSUME NEW f \in answered
        PROVE  Sound(f) /\ ChildSet(f) \subseteq answered
    <3>1. SatisfiedSoFar(f) /\ ~Current(f)
      BY <2>1 DEF IInv, SilentSoFar, Current
    <3>2. Sound(f)
      BY <3>1 DEF SatisfiedSoFar, Sound
    <3>3. ChildSet(f) \subseteq answered
      BY <3>1, <2>2 DEF IInv, ChildrenScheduled, SatisfiedSoFar
    <3> QED BY <3>2, <3>3
  <2> QED BY <2>3, <2>4
<1> QED BY <1>1, AlwaysInvariant, PTL

\* Every collected error is one that a walked frame has to report (the pushes
\* of walk_schema and evaluate_compiled_results).
THEOREM ReportsForCause == Spec => []ReportedForCause
<1>1. IInv => ReportedForCause
  BY DEF IInv
<1> QED BY <1>1, AlwaysInvariant, PTL

\* Whatever the old object lacks, a rule over self and oldSelf alone is never
\* answered with an unsupported reference: it is skipped, sees the old value or
\* sees null (the three flags of evaluate_rule).
THEOREM OldSelfIsBound == Spec => []OldSelfNeverUnbound
<1>1. IInv => OldSelfNeverUnbound
  <2> SUFFICES ASSUME IInv, NEW i \in DOMAIN errors,
                      errors[i].kind = "UnsupportedReference"
               PROVE  ~ (References(errors[i].rule) \subseteq {"self", "oldSelf"})
    BY DEF OldSelfNeverUnbound
  <2>1. PICK f \in answered : errors[i] \in ErrorsOf(f)
    BY DEF IInv, ReportedForCause
  <2>2. f \in Frame
    BY DEF IInv, TypeOK
  <2>3. CASE TooDeep(f)
    <3>1. errors[i] = SchemaTooDeepError(f.path)
      BY <2>1, <2>3 DEF ErrorsOf
    <3>2. SchemaTooDeepError(f.path).kind = "SchemaTooDeep"
      BY DEF SchemaTooDeepError, ErrorAt
    <3> QED BY <3>1, <3>2
  <2>4. CASE ~TooDeep(f)
    <3>1. PICK j \in DOMAIN Results(f) :
            errors[i] \in ToSet(EvaluateResult(Results(f)[j], ScopeOf(f), f.path))
      BY <2>1, <2>4 DEF ErrorsOf
    <3> QED BY <2>2, <2>4, <3>1, BoundWhereEvaluated
  <2> QED BY <2>3, <2>4
<1> QED BY <1>1, AlwaysInvariant, PTL

---------------------------------------------------------------------------
(***************************************************************************)
(* The walk keeps the promise of Admission.  The frames that are scheduled *)
(* are frames the walk has to pass through, and what a walked frame has to *)
(* report is collected, unless its rules are still being evaluated.        *)
(***************************************************************************)

\* The levels exist: each is given by the one above it.
LEMMA LevelsExist ==
  ASSUME NEW c, NEW n \in Nat
  PROVE  \E at : at = [d \in 0..n |-> IF d = 0 THEN {RootFrame(c)}
                                      ELSE CalledFrom(at[d - 1])]
<1> DEFINE Is(at, m) == at = [d \in 0..m |-> IF d = 0 THEN {RootFrame(c)}
                                             ELSE CalledFrom(at[d - 1])]
           S == {m \in Nat : \E at : Is(at, m)}
<1>1. 0 \in S
  <2>1. Is([d \in 0..0 |-> {RootFrame(c)}], 0)
    OBVIOUS
  <2>2. \E at : Is(at, 0)
    BY <2>1
  <2> QED BY <2>2
<1>2. ASSUME NEW m \in S
      PROVE  m + 1 \in S
  <2>1. PICK at : Is(at, m)
    OBVIOUS
  <2> DEFINE longer == [d \in 0..m + 1 |->
                          IF d = m + 1 THEN CalledFrom(at[m]) ELSE at[d]]
  <2>2. ASSUME NEW d \in 0..m + 1
        PROVE  longer[d] = IF d = 0 THEN {RootFrame(c)} ELSE CalledFrom(longer[d - 1])
    <3>1. CASE d = m + 1
      BY <3>1
    <3>2. CASE d \in 0..m
      <4>1. at[d] = IF d = 0 THEN {RootFrame(c)} ELSE CalledFrom(at[d - 1])
        BY <3>2, <2>1
      <4>2. longer[d] = at[d] /\ (d # 0 => longer[d - 1] = at[d - 1])
        BY <3>2
      <4> QED BY <4>1, <4>2, Zenon
    <3> QED BY <3>1, <3>2
  <2>3. Is(longer, m + 1)
    BY <2>2
  <2>4. \E g : Is(g, m + 1)
    BY <2>3
  <2> QED BY <2>4
<1>3. n \in S
  <2> HIDE DEF S
  <2> QED BY <1>1, <1>2, Induct
<1> QED BY <1>3

\* The levels of a call, one called from the other.
LEMMA LevelStep ==
  ASSUME NEW c
  PROVE  /\ Levels(c)[0] = {RootFrame(c)}
         /\ \A d \in 0..MaxDepth : Levels(c)[d + 1] = CalledFrom(Levels(c)[d])
<1> DEFINE n == MaxDepth + 1
           at == Levels(c)
<1>1. n \in Nat
  BY DepthAssumption
<1>2. at = [d \in 0..n |-> IF d = 0 THEN {RootFrame(c)} ELSE CalledFrom(at[d - 1])]
  BY <1>1, LevelsExist DEF Levels
<1> HIDE DEF at
<1>3. \A d \in 0..n : at[d] = IF d = 0 THEN {RootFrame(c)} ELSE CalledFrom(at[d - 1])
  BY <1>2
<1>4. at[0] = {RootFrame(c)}
  BY <1>1, <1>3
<1>5. ASSUME NEW d \in 0..MaxDepth
      PROVE  at[d + 1] = CalledFrom(at[d])
  <2>1. d + 1 \in 0..n /\ d + 1 # 0 /\ (d + 1) - 1 = d
    BY DepthAssumption
  <2>2. at[d + 1] = IF d + 1 = 0 THEN {RootFrame(c)} ELSE CalledFrom(at[(d + 1) - 1])
    BY <2>1, <1>3
  <2> QED BY <2>1, <2>2
<1> QED BY <1>4, <1>5 DEF at

\* The frames of a call, each on the level of its depth.
OnLevel(c) ==
  {f \in Frame : f.depth \in 0..MaxDepth + 1 /\ f \in Levels(c)[f.depth]}

LevelInv == Scheduled \subseteq OnLevel(call)

\* Every step schedules frames only on the level of their depth.
LEMMA LevelInvariant ==
  ASSUME IInv, LevelInv, [Next]_vars
  PROVE  LevelInv'
<1> DEFINE G == [c \in Call |-> OnLevel(c)]
<1>1. ASSUME NEW c \in Call
      PROVE  RootFrame(c) \in G[c]
  <2>1. /\ RootFrame(c) \in Frame /\ RootFrame(c).depth = 0
        /\ 0 \in 0..MaxDepth + 1 /\ RootFrame(c) \in Levels(c)[0]
    BY FrameAssumption, DeeperAssumption, DepthAssumption, LevelStep
  <2> QED BY <2>1 DEF OnLevel
<1>2. ASSUME NEW c \in Call, NEW f \in Frame \cap G[c], ~TooDeep(f),
             NEW g \in ChildSet(f)
      PROVE  g \in G[c]
  <2>1. f \in Frame /\ f.depth \in 0..MaxDepth + 1 /\ f \in Levels(c)[f.depth]
    BY DEF OnLevel
  <2>2. f.depth \in 0..MaxDepth
    BY <2>1, <1>2, DepthAssumption DEF TooDeep
  <2>3. g \in Frame /\ g.depth = f.depth + 1
    BY <2>1, <1>2, ChildrenAreFrames, DeeperAssumption
  <2>4. g \in CalledFrom(Levels(c)[f.depth])
    BY <2>1, <1>2 DEF CalledFrom
  <2>5. g \in Levels(c)[f.depth + 1]
    BY <2>2, <2>4, LevelStep
  <2>6. f.depth + 1 \in 0..MaxDepth + 1
    BY <2>2, DepthAssumption
  <2> QED BY <2>3, <2>5, <2>6 DEF OnLevel
<1>3. call \in Call /\ call' \in Call
  BY StepInvariant DEF IInv, TypeOK
<1>4. Scheduled \subseteq G[call]
  BY <1>3 DEF LevelInv
<1>5. Scheduled' \subseteq G[call']
  <2> HIDE DEF G
  <2> QED BY <1>1, <1>2, <1>4, WalkStaysWithin
<1> QED BY <1>3, <1>5 DEF LevelInv

\* Only frames that have to be walked are scheduled, and all of them have been
\* walked once the root and the children of whatever was walked have.
LEMMA ScheduledAreWalked ==
  ASSUME LevelInv
  PROVE  Scheduled \subseteq Walked(call)
  BY DEF LevelInv, OnLevel, Walked

\* A set with the root frame that is closed under the calls holds every frame a
\* walk has to pass through.
LEMMA ClosedIsWalked ==
  ASSUME NEW c, NEW fs, RootFrame(c) \in fs,
         \A f \in fs : ~TooDeep(f) => ChildSet(f) \subseteq fs
  PROVE  Walked(c) \subseteq fs
<1> DEFINE S == {d \in Nat : d <= MaxDepth + 1 => Levels(c)[d] \subseteq fs}
<1>1. 0 \in S
  BY LevelStep
<1>2. ASSUME NEW d \in Nat, d \in S
      PROVE  d + 1 \in S
  <2> SUFFICES ASSUME d + 1 <= MaxDepth + 1
               PROVE  Levels(c)[d + 1] \subseteq fs
    OBVIOUS
  <2>1. d \in 0..MaxDepth /\ Levels(c)[d] \subseteq fs
    BY <1>2, DepthAssumption
  <2>2. Levels(c)[d + 1] = CalledFrom(Levels(c)[d])
    BY <2>1, LevelStep
  <2> QED BY <2>1, <2>2 DEF CalledFrom
<1>3. Nat \subseteq S
  <2> HIDE DEF S
  <2> QED BY <1>1, <1>2, Induct
<1>4. \A d \in 0..MaxDepth + 1 : Levels(c)[d] \subseteq fs
  BY <1>3, DepthAssumption
<1> QED BY <1>4 DEF Walked

---------------------------------------------------------------------------
\* What a frame has to report is in the report, entry by entry.
ReportedSoFar(f) ==
  IF TooDeep(f) THEN SchemaTooDeepError(f.path) \in ToSet(errors)
  ELSE \A i \in DOMAIN Results(f) :
         \/ ToSet(EvaluateResult(Results(f)[i], ScopeOf(f), f.path)) \subseteq ToSet(errors)
         \/ Current(f) /\ i >= next

ReportInv == \A f \in answered : ReportedSoFar(f)

\* A sequence of errors grows by what is joined on to it.
LEMMA ReportGrows ==
  ASSUME NEW S, NEW s \in Seq(S), NEW e
  PROVE  /\ ToSet(Append(s, e)) = ToSet(s) \cup {e}
         /\ s \o <<e>> = Append(s, e) /\ s \o <<>> = s
<1> DEFINE T == S \cup {e}
           one == <<e>>
<1>1. s \in Seq(T) /\ one \in Seq(T)
  OBVIOUS
<1> HIDE DEF T
<1>2. ToSet(one) = {e}
  BY DEF ToSet
<1>3. Append(s, e) = s \o one
  OBVIOUS
<1> HIDE DEF one
<1>4. ToSet(s \o one) = ToSet(s) \cup ToSet(one)
  BY ONLY <1>1, MembersOfConcat
<1>5. s \o <<>> = s
  OBVIOUS
<1> QED BY <1>2, <1>3, <1>4, <1>5 DEF one

\* Every step keeps the report complete up to the rule that is evaluated.
LEMMA ReportInvariant ==
  ASSUME IInv, ReportInv, [Next]_vars
  PROVE  ReportInv'
<1> USE DEF IInv
<1> DEFINE Due == UNION {ErrorsOf(f) : f \in answered}
<1>1. errors \in Seq(Due)
  BY DEF ReportedForCause
<1> HIDE DEF Due
<1>2. answered \subseteq Frame
  BY DEF TypeOK
<1>3. CASE RefuseDeep
  <2> USE <1>3 DEF RefuseDeep
  <2> DEFINE e == SchemaTooDeepError(Head(frames).path)
  <2>1. ToSet(errors') = ToSet(errors) \cup {e}
    <3> HIDE DEF e
    <3>1. errors' = Append(errors, e)
      BY DEF e
    <3> QED BY <3>1, <1>1, ReportGrows
  <2>2. ASSUME NEW f \in answered'
        PROVE  ReportedSoFar(f)'
    <3>1. CASE f = Head(frames)
      BY <3>1, <2>1 DEF ReportedSoFar
    <3>2. CASE f \in answered
      BY <3>2, <2>1 DEF ReportInv, ReportedSoFar, Current
    <3> QED BY <3>1, <3>2
  <2> QED BY <2>2 DEF ReportInv
<1>4. CASE EnterNode
  <2> USE <1>4 DEF EnterNode
  <2> SUFFICES ASSUME NEW f \in answered'
               PROVE  ReportedSoFar(f)'
    BY DEF ReportInv
  <2>1. CASE f = Head(frames)
    <3>1. Results(f) \in Seq(Result)
      BY <2>1, HeadOfFrames, FrameAssumption
    <3>2. \A i \in DOMAIN Results(f) : i >= 1
      BY <3>1
    <3> QED BY <2>1, <3>2 DEF ReportedSoFar, Current
  <2>2. CASE f \in answered
    BY <2>2 DEF ReportInv, ReportedSoFar, Current
  <2> QED BY <2>1, <2>2
<1>5. CASE EvaluateNext
  <2> USE <1>5 DEF EvaluateNext
  <2> DEFINE h   == Head(frames)
             add == EvaluateResult(Results(h)[next], scope, h.path)
  <2>1. h \in Frame /\ h \in answered /\ ~TooDeep(h) /\ scope = ScopeOf(h)
    BY HeadOfFrames DEF Settled, TypeOK
  <2>2. ToSet(errors') = ToSet(errors) \cup ToSet(add)
    <3>1. add = <<>> \/ \E e : add = <<e>>
      BY OneErrorAtMost
    <3>2. errors' = errors \o add
      OBVIOUS
    <3> HIDE DEF add, h
    <3>3. CASE add = <<>>
      BY <3>2, <3>3, <1>1, ReportGrows DEF ToSet
    <3>4. ASSUME NEW e, add = <<e>>
          PROVE  ToSet(errors') = ToSet(errors) \cup ToSet(add)
      <4>1. ToSet(add) = {e}
        BY <3>4 DEF ToSet
      <4>2. errors' = Append(errors, e)
        BY <3>2, <3>4, <1>1, ReportGrows
      <4> QED BY <4>1, <4>2, <1>1, ReportGrows
    <3> QED BY <3>1, <3>3, <3>4
  <2> SUFFICES ASSUME NEW f \in answered
               PROVE  ReportedSoFar(f)'
    BY DEF ReportInv
  <2>3. ReportedSoFar(f)
    BY DEF ReportInv
  <2>4. CASE TooDeep(f)
    BY <2>2, <2>3, <2>4 DEF ReportedSoFar
  <2>5. ASSUME ~TooDeep(f), NEW i \in DOMAIN Results(f)
        PROVE  \/ ToSet(EvaluateResult(Results(f)[i], ScopeOf(f), f.path))
                    \subseteq ToSet(errors')
               \/ Current(f)' /\ i >= next'
    <3>1. CASE f = h /\ i = next
      BY <3>1, <2>1, <2>2
    <3>2. CASE ~(f = h /\ i = next)
      <4>1. Results(f) \in Seq(Result)
        BY <1>2, <2>5, FrameAssumption
      <4>2. i \in Nat /\ next \in Nat
        BY <4>1 DEF TypeOK
      <4>3. \/ ToSet(EvaluateResult(Results(f)[i], ScopeOf(f), f.path))
                 \subseteq ToSet(errors)
            \/ Current(f) /\ i >= next
        BY <2>3, <2>5 DEF ReportedSoFar
      <4> HIDE DEF add
      <4> QED BY <4>2, <4>3, <2>2, <3>2 DEF Current
    <3> QED BY <3>1, <3>2
  <2> QED BY <2>4, <2>5 DEF ReportedSoFar
<1>6. CASE Descend
  <2> USE <1>6 DEF Descend
  <2> SUFFICES ASSUME NEW f \in answered
               PROVE  ReportedSoFar(f)'
    BY DEF ReportInv
  <2>1. ASSUME NEW i \in DOMAIN Results(f), ~TooDeep(f), Current(f)
        PROVE  ~(i >= next)
    <3>1. Results(f) \in Seq(Result)
      BY <1>2, <2>1, FrameAssumption
    <3>2. i <= Len(Results(f)) /\ Len(Results(f)) < next /\ next \in Nat /\ i \in Nat
          /\ Len(Results(f)) \in Nat
      BY <2>1, <3>1 DEF Current, TypeOK
    <3> QED BY <3>2
  <2> QED BY <2>1 DEF ReportInv, ReportedSoFar
<1>7. CASE Start \/ Return \/ UNCHANGED vars
  BY <1>7 DEF Start, Return, vars, ReportInv, ReportedSoFar, Current
<1> QED BY <1>3, <1>4, <1>5, <1>6, <1>7 DEF Next

---------------------------------------------------------------------------
PInv == IInv /\ LevelInv /\ ReportInv

\* Every error of the report is due, and when nothing is left to walk every
\* error that is due is in the report.
LEMMA ReportIsDue ==
  ASSUME PInv
  PROVE  ToSet(errors) \subseteq Expected(call)
<1>1. errors \in Seq(UNION {ErrorsOf(f) : f \in answered})
  BY DEF PInv, IInv, ReportedForCause
<1>2. answered \subseteq Walked(call)
  BY ScheduledAreWalked DEF PInv, Scheduled
<1>3. UNION {ErrorsOf(f) : f \in answered} \subseteq Expected(call)
  BY <1>2 DEF Expected
<1>4. ASSUME NEW i \in DOMAIN errors
      PROVE  errors[i] \in UNION {ErrorsOf(f) : f \in answered}
  BY <1>1
<1> QED BY <1>3, <1>4 DEF ToSet

\* When nothing is left to walk, every error that is due is in the report.
LEMMA ReportIsComplete ==
  ASSUME PInv, stage = "enter", frames = <<>>
  PROVE  Expected(call) \subseteq ToSet(errors)
<1>1. Scheduled = answered
  BY DEF Scheduled, ToSet
<1>2. RootFrame(call) \in answered
  BY <1>1 DEF PInv, IInv, RootScheduled
<1>3. \A f \in answered : ~TooDeep(f) => ChildSet(f) \subseteq answered
  BY <1>1 DEF PInv, IInv, ChildrenScheduled, Current
<1>4. Walked(call) \subseteq answered
  BY <1>2, <1>3, ClosedIsWalked
<1>5. ASSUME NEW f \in answered
      PROVE  ErrorsOf(f) \subseteq ToSet(errors)
  <2>1. ReportedSoFar(f) /\ ~Current(f)
    BY DEF PInv, ReportInv, Current
  <2> QED BY <2>1 DEF ReportedSoFar, ErrorsOf
<1> QED BY <1>4, <1>5 DEF Expected

\* Each step of the walk reports a due error, or none, and the return answers.
LEMMA StepKeepsPromise ==
  ASSUME PInv, [Next]_vars
  PROVE  [Promise!Next]_(Promise!vars)
<1> USE DEF Promise!vars
<1>1. PInv'
  BY LevelInvariant, ReportInvariant, StepInvariant DEF PInv
<1>2. errors \in Seq(UNION {ErrorsOf(f) : f \in answered})
  BY DEF PInv, IInv, ReportedForCause
<1>3. ASSUME call' = call, verdict' = verdict, verdict = "running",
             NEW e, errors' = Append(errors, e)
      PROVE  [Promise!Next]_(Promise!vars)
  <2>1. ToSet(errors') = ToSet(errors) \cup {e}
    BY <1>2, <1>3, ReportGrows
  <2>2. e \in Expected(call)
    <3>1. ToSet(errors') \subseteq Expected(call')
      <4>1. (ToSet(errors) \subseteq Expected(call))'
        BY <1>1, ReportIsDue, PTL
      <4> QED BY <4>1
    <3> QED BY <3>1, <2>1, <1>3
  <2>3. CASE e \in ToSet(errors)
    BY <2>1, <2>3, <1>3
  <2>4. CASE e \notin ToSet(errors)
    <3>1. e \in Expected(call) \ ToSet(errors)
      BY <2>2, <2>4
    <3>2. Promise!Report
      BY <3>1, <2>1, <1>3 DEF Promise!Report
    <3> QED BY <3>2 DEF Promise!Next
  <2> QED BY <2>3, <2>4
<1>4. CASE RefuseDeep
  <2>1. verdict = "running"
    BY <1>4 DEF RefuseDeep, PInv, IInv, Settled
  <2> QED BY <2>1, <1>3, <1>4 DEF RefuseDeep
<1>5. CASE EvaluateNext
  <2> DEFINE add == EvaluateResult(Results(Head(frames))[next], scope,
                                   Head(frames).path)
  <2>1. verdict = "running"
    BY <1>5 DEF EvaluateNext, PInv, IInv, Settled
  <2>2. call' = call /\ verdict' = verdict /\ errors' = errors \o add
    BY <1>5 DEF EvaluateNext
  <2>3. add = <<>> \/ \E e : add = <<e>>
    BY OneErrorAtMost
  <2> HIDE DEF add
  <2>4. CASE add = <<>>
    <3>1. errors' = errors
      BY <2>2, <2>4, <1>2, ReportGrows
    <3> QED BY <3>1, <2>2
  <2>5. ASSUME NEW e, add = <<e>>
        PROVE  [Promise!Next]_(Promise!vars)
    <3>1. errors' = Append(errors, e)
      BY <2>2, <2>5, <1>2, ReportGrows
    <3> QED BY <3>1, <2>1, <2>2, <1>3
  <2> QED BY <2>3, <2>4, <2>5
<1>6. CASE Return
  <2>1. verdict = "running"
    BY <1>6 DEF Return, PInv, IInv, Settled
  <2>2. ToSet(errors) = Expected(call)
    BY <1>6, ReportIsDue, ReportIsComplete DEF Return
  <2>3. errors = <<>> <=> ToSet(errors) = {}
    BY <1>2 DEF ToSet
  <2>4. Promise!Answer
    BY <1>6, <2>1, <2>2, <2>3 DEF Return, Promise!Answer
  <2> QED BY <2>4 DEF Promise!Next
<1>7. CASE Start \/ EnterNode \/ Descend \/ UNCHANGED vars
  BY <1>7 DEF Start, EnterNode, Descend, vars
<1> QED BY <1>4, <1>5, <1>6, <1>7 DEF Next

\* Before the call begins nothing is scheduled and nothing is reported.
LEMMA InitPromise == Init => PInv /\ Promise!Init
<1> SUFFICES ASSUME Init
             PROVE  PInv /\ Promise!Init
  OBVIOUS
<1>1. IInv
  BY InitInvariant
<1>2. Scheduled = {} /\ ToSet(errors) = {}
  BY DEF Init, Scheduled, ToSet
<1>3. LevelInv /\ ReportInv
  BY <1>2 DEF LevelInv, ReportInv, Init
<1> QED BY <1>1, <1>2, <1>3 DEF PInv, Promise!Init, Init

\* What is scheduled and what is collected, at every moment of a walk.
LEMMA AlwaysPromising == Spec => []PInv
<1>1. PInv /\ [Next]_vars => PInv'
  BY LevelInvariant, ReportInvariant, StepInvariant DEF PInv
<1> QED BY <1>1, InitPromise, PTL DEF Spec

\* The walk, frame by frame and rule by rule, implements the promise of a
\* validate call: its collected errors are at every moment errors that are due,
\* and it answers when they are all of them (validate_with_context up to
\* into_result).
THEOREM ImplementsPromise == Spec => Promise!Init /\ [][Promise!Next]_(Promise!vars)
<1>1. PInv /\ [Next]_vars => [Promise!Next]_(Promise!vars)
  BY StepKeepsPromise
<1> QED BY <1>1, InitPromise, AlwaysPromising, PTL DEF Spec

---------------------------------------------------------------------------
(***************************************************************************)
(* How often each error is reported.  The walk of a frame, and of all that *)
(* is below it, has to report an error as often as the frame itself does   *)
(* and the walks of its children do, and that does not depend on the order *)
(* of the children.                                                        *)
(***************************************************************************)
\* The results of a frame's node, from one on, that report an error.
HitsFrom(f, e, from) ==
  {i \in DOMAIN Results(f) :
     i >= from /\ e \in ToSet(EvaluateResult(Results(f)[i], ScopeOf(f), f.path))}

DueHere(f, e) ==
  IF ~TooDeep(f) THEN Cardinality(HitsFrom(f, e, 1))
  ELSE IF e = SchemaTooDeepError(f.path) THEN 1 ELSE 0

SomeOrder(f) == CHOOSE order \in Children(f) : TRUE

\* For frames that have so many levels left, given what is due one level down.
DueOf(e, left, below) ==
  [f \in Frame |->
     DueHere(f, e) + IF TooDeep(f) \/ left = 0 THEN 0 ELSE TotalOf(SomeOrder(f), below)]

DueAt(e) ==
  LET at[left \in 0..MaxDepth + 1] == DueOf(e, left, at[left - 1])
  IN  at

LevelsLeft(f) == IF TooDeep(f) THEN 0 ELSE MaxDepth + 1 - f.depth

Due(e) == [f \in Frame |-> DueAt(e)[LevelsLeft(f)][f]]

\* What the rest of the walk has still to report.
Outstanding(e) ==
  CASE stage = "call"     -> Due(e)[RootFrame(call)]
    [] stage = "enter"    -> TotalOf(frames, Due(e))
    [] stage = "evaluate" -> Cardinality(HitsFrom(Head(frames), e, next))
                               + TotalOf(SomeOrder(Head(frames)), Due(e))
                               + TotalOf(Tail(frames), Due(e))
    [] stage = "return"   -> 0

\* What was reported and what is outstanding is at every moment what is due.
Counted(e) == Occurrences(errors, e) + Outstanding(e) = Due(e)[RootFrame(call)]

\* The table of what is due exists.
LEMMA DueExists ==
  ASSUME NEW e, NEW n \in Nat
  PROVE  \E at : at = [left \in 0..n |-> DueOf(e, left, at[left - 1])]
<1> DEFINE Is(at, m) == at = [left \in 0..m |-> DueOf(e, left, at[left - 1])]
           S == {m \in Nat : \E at : Is(at, m)}
<1>0. \A x, y : DueOf(e, 0, x) = DueOf(e, 0, y)
  BY DEF DueOf
<1>1. 0 \in S
  <2> DEFINE first == DueOf(e, 0, {})
             at    == [left \in 0..0 |-> first]
  <2>1. \A below : DueOf(e, 0, below) = first
    BY <1>0
  <2> HIDE DEF first
  <2>2. Is(at, 0)
    BY <2>1
  <2>3. \E g : Is(g, 0)
    BY <2>2
  <2> QED BY <2>3
<1>2. ASSUME NEW m \in S
      PROVE  m + 1 \in S
  <2>1. PICK at : Is(at, m)
    OBVIOUS
  <2> DEFINE longer == [left \in 0..m + 1 |->
                          IF left = m + 1 THEN DueOf(e, m + 1, at[m]) ELSE at[left]]
  <2>2. ASSUME NEW left \in 0..m + 1
        PROVE  longer[left] = DueOf(e, left, longer[left - 1])
    <3>1. CASE left = m + 1
      BY <3>1
    <3>2. CASE left \in 1..m
      BY <3>2, <2>1
    <3>3. CASE left = 0
      <4>1. longer[0] = DueOf(e, 0, at[0 - 1])
        BY <3>3, <2>1
      <4> HIDE DEF longer
      <4>2. longer[0] = DueOf(e, 0, longer[0 - 1])
        BY <4>1, <1>0, Zenon
      <4> QED BY <3>3, <4>2
    <3> QED BY <3>1, <3>2, <3>3
  <2>3. Is(longer, m + 1)
    BY <2>2
  <2> HIDE DEF Is
  <2>4. m + 1 \in Nat
    OBVIOUS
  <2> QED BY <2>3, <2>4
<1>3. n \in S
  <2> HIDE DEF S
  <2> QED BY <1>1, <1>2, Induct
<1> QED BY <1>3

\* It has the rows that its definition says.
LEMMA DueRows ==
  ASSUME NEW e
  PROVE  \A left \in 0..MaxDepth + 1 : DueAt(e)[left] = DueOf(e, left, DueAt(e)[left - 1])
<1> DEFINE Is(at) == at = [left \in 0..MaxDepth + 1 |-> DueOf(e, left, at[left - 1])]
           table == DueAt(e)
<1>1. table = CHOOSE at : Is(at)
  BY DEF DueAt
<1>2. MaxDepth + 1 \in Nat
  BY DepthAssumption
<1>3. \E at : Is(at)
  <2> DEFINE n == MaxDepth + 1
  <2> HIDE DEF n
  <2>1. \E at : at = [left \in 0..n |-> DueOf(e, left, at[left - 1])]
    BY <1>2, DueExists DEF n
  <2> QED BY <2>1 DEF n
<1>4. Is(table)
  BY <1>1, <1>3, Zenon
<1> HIDE DEF table
<1> QED BY <1>4 DEF table

\* What a frame has to report itself is a number.
LEMMA DueHereIsNat ==
  ASSUME NEW f \in Frame, NEW e, NEW from
  PROVE  /\ DueHere(f, e) \in Nat
         /\ IsFiniteSet(HitsFrom(f, e, from)) /\ Cardinality(HitsFrom(f, e, from)) \in Nat
<1>1. \A m : IsFiniteSet(HitsFrom(f, e, m)) /\ Cardinality(HitsFrom(f, e, m)) \in Nat
  <2> TAKE m
  <2> DEFINE H == HitsFrom(f, e, m)
             n == Len(Results(f))
  <2>1. Results(f) \in Seq(Result)
    BY FrameAssumption
  <2>2. n \in Nat /\ DOMAIN Results(f) = 1..n
    BY <2>1
  <2>3. H \subseteq DOMAIN Results(f)
    BY DEF HitsFrom
  <2>4. H \in SUBSET Nat /\ \A i \in H : i <= n
    BY <2>2, <2>3
  <2> HIDE DEF H, n
  <2>5. IsFiniteSet(H)
    BY <2>2, <2>4, FS_BoundedSetOfNaturals
  <2>6. Cardinality(H) \in Nat
    BY <2>5, FS_CardinalityType
  <2> QED BY <2>5, <2>6 DEF H
<1> QED BY <1>1 DEF DueHere

\* The order in which children are walked is a sequence of frames.
LEMMA SomeOrderIsOne ==
  ASSUME NEW f \in Frame, ~TooDeep(f)
  PROVE  SomeOrder(f) \in Children(f) /\ SomeOrder(f) \in Seq(Frame)
<1>1. Children(f) # {}
  BY FrameAssumption
<1>2. SomeOrder(f) \in Children(f)
  BY <1>1, Zenon DEF SomeOrder
<1> QED BY <1>2, FrameAssumption

\* So often is a natural number, for frames with so many levels left,
LEMMA DueAtIsNat ==
  ASSUME NEW e, NEW left \in 0..MaxDepth + 1
  PROVE  DueAt(e)[left] \in [Frame -> Nat]
<1> DEFINE S == {m \in Nat : m <= MaxDepth + 1 => DueAt(e)[m] \in [Frame -> Nat]}
<1>1. \A below : DueOf(e, 0, below) \in [Frame -> Nat]
  BY DueHereIsNat DEF DueOf
<1>2. ASSUME NEW n, NEW w \in [Frame -> Nat]
      PROVE  DueOf(e, n, w) \in [Frame -> Nat]
  <2>1. ASSUME NEW f \in Frame, ~TooDeep(f)
        PROVE  TotalOf(SomeOrder(f), w) \in Nat
    BY <2>1, SomeOrderIsOne, TotalIsNat
  <2>2. \A f \in Frame : DueHere(f, e) \in Nat
    BY DueHereIsNat
  <2> QED BY <2>1, <2>2 DEF DueOf
<1>3. 0 \in 0..MaxDepth + 1
  BY DepthAssumption
<1>4. 0 \in S
  BY <1>1, <1>3, DueRows
<1>5. ASSUME NEW m \in S
      PROVE  m + 1 \in S
  <2> SUFFICES ASSUME m + 1 <= MaxDepth + 1
               PROVE  DueAt(e)[m + 1] \in [Frame -> Nat]
    OBVIOUS
  <2> DEFINE l == m + 1
  <2>1. m \in Nat /\ l \in 0..MaxDepth + 1 /\ l - 1 = m
    BY DepthAssumption
  <2>2. DueAt(e)[m] \in [Frame -> Nat]
    BY <2>1, DepthAssumption
  <2> HIDE DEF l
  <2>3. DueAt(e)[l] = DueOf(e, l, DueAt(e)[l - 1])
    BY <2>1, DueRows
  <2>4. DueAt(e)[l] \in [Frame -> Nat]
    BY <1>2, <2>1, <2>2, <2>3
  <2> QED BY <2>4 DEF l
<1>6. Nat \subseteq S
  <2> HIDE DEF S
  <2> QED BY <1>4, <1>5, Induct
<1>7. left \in Nat /\ left <= MaxDepth + 1
  BY DepthAssumption
<1> QED BY <1>6, <1>7

\* of which a frame has none exactly when it is refused,
LEMMA LevelsLeftAreBound ==
  ASSUME NEW f \in Frame
  PROVE  /\ LevelsLeft(f) \in 0..MaxDepth + 1
         /\ LevelsLeft(f) = 0 <=> TooDeep(f)
  BY FrameAssumption, DepthAssumption DEF LevelsLeft, TooDeep

\* and for every frame.
LEMMA DueIsNat ==
  ASSUME NEW e
  PROVE  Due(e) \in [Frame -> Nat]
<1> SUFFICES ASSUME NEW f \in Frame
             PROVE  DueAt(e)[LevelsLeft(f)][f] \in Nat
  BY DEF Due
<1> DEFINE l == LevelsLeft(f)
<1>1. l \in 0..MaxDepth + 1
  BY LevelsLeftAreBound
<1> HIDE DEF l
<1>2. DueAt(e)[l] \in [Frame -> Nat]
  BY <1>1, DueAtIsNat
<1> QED BY <1>2 DEF l

\* An over-deep frame has its own error due; any other the errors of its rules
\* and what is due for its children, in whatever order they are walked.
LEMMA DueStep ==
  ASSUME NEW e, NEW f \in Frame
  PROVE  /\ TooDeep(f) => Due(e)[f] = IF e = SchemaTooDeepError(f.path) THEN 1 ELSE 0
         /\ ~TooDeep(f) => \A order \in Children(f) :
              Due(e)[f] = Cardinality(HitsFrom(f, e, 1)) + TotalOf(order, Due(e))
<1> DEFINE l == LevelsLeft(f)
<1>1. l \in 0..MaxDepth + 1 /\ (l = 0 <=> TooDeep(f))
  BY LevelsLeftAreBound
<1>2. Due(e)[f] = DueAt(e)[l][f]
  BY DEF Due
<1>3. DueAt(e)[l] = DueOf(e, l, DueAt(e)[l - 1])
  <2> HIDE DEF l
  <2> QED BY <1>1, DueRows
<1>4. CASE TooDeep(f)
  <2>1. DueAt(e)[l][f] = DueHere(f, e) + 0
    BY <1>3, <1>4 DEF DueOf
  <2>2. DueHere(f, e) = IF e = SchemaTooDeepError(f.path) THEN 1 ELSE 0
    BY <1>4 DEF DueHere
  <2> QED BY <1>2, <1>4, <2>1, <2>2
<1>5. CASE ~TooDeep(f)
  <2> DEFINE w == DueAt(e)[l - 1]
             p == SomeOrder(f)
  <2>1. p \in Children(f) /\ p \in Seq(Frame)
    BY <1>5, SomeOrderIsOne
  <2>2. Due(e)[f] = Cardinality(HitsFrom(f, e, 1)) + TotalOf(p, w)
    BY <1>1, <1>2, <1>3, <1>5 DEF DueOf, DueHere
  <2>3. ASSUME NEW g \in ChildSet(f)
        PROVE  g \in Frame /\ LevelsLeft(g) = l - 1
    <3>1. g \in Frame /\ g.depth = f.depth + 1
      BY <1>5, ChildrenAreFrames, DeeperAssumption
    <3>2. f.depth \in Nat /\ f.depth <= MaxDepth
      BY <1>5, FrameAssumption, DepthAssumption DEF TooDeep
    <3> QED BY <3>1, <3>2, <1>5, DepthAssumption DEF LevelsLeft, TooDeep
  <2>4. ASSUME NEW i \in DOMAIN p
        PROVE  w[p[i]] = Due(e)[p[i]]
    <3>1. p[i] \in ChildSet(f)
      BY <2>1, <2>4 DEF ChildSet, ToSet
    <3> QED BY <2>3, <3>1 DEF Due
  <2> HIDE DEF w, l
  <2>5. TotalOf(p, w) = TotalOf(p, Due(e))
    <3> HIDE DEF p
    <3> QED BY <2>4, TotalAlike
  <2>6. ASSUME NEW order \in Children(f)
        PROVE  TotalOf(p, Due(e)) = TotalOf(order, Due(e))
    <3>1. order \in Seq(Frame) /\ Due(e) \in [Frame -> Nat]
      BY <1>5, FrameAssumption, DueIsNat
    <3>2. PICK pi \in Bijection(DOMAIN p, DOMAIN order) :
            \A i \in DOMAIN p : p[i] = order[pi[i]]
      BY <1>5, <2>1, OrderAssumption DEF Reorders
    <3> HIDE DEF p
    <3> QED BY <2>1, <3>1, <3>2, TotalReordered
  <2> QED BY <1>5, <2>2, <2>5, <2>6
<1> QED BY <1>4, <1>5

\* The next result reports the error or not.
LEMMA HitsStep ==
  ASSUME NEW f \in Frame, NEW e, NEW n \in Nat \ {0}, n <= Len(Results(f))
  PROVE  Cardinality(HitsFrom(f, e, n)) =
           Cardinality(HitsFrom(f, e, n + 1))
             + IF e \in ToSet(EvaluateResult(Results(f)[n], ScopeOf(f), f.path))
               THEN 1 ELSE 0
<1> DEFINE A == HitsFrom(f, e, n)
           B == HitsFrom(f, e, n + 1)
           hit == e \in ToSet(EvaluateResult(Results(f)[n], ScopeOf(f), f.path))
<1>1. Results(f) \in Seq(Result)
  BY FrameAssumption
<1>2. n \in DOMAIN Results(f) /\ DOMAIN Results(f) \subseteq Nat
  BY <1>1
<1>3. n \notin B
  BY DEF HitsFrom
<1>4. A = IF hit THEN B \cup {n} ELSE B
  <2>1. \A i \in Nat : i >= n <=> (i = n \/ i >= n + 1)
    OBVIOUS
  <2> HIDE DEF hit
  <2>2. \A i \in DOMAIN Results(f) : i \in A <=> ((i = n /\ hit) \/ i \in B)
    BY <1>2, <2>1 DEF HitsFrom, hit
  <2>3. A \subseteq DOMAIN Results(f) /\ B \subseteq DOMAIN Results(f)
    BY DEF HitsFrom
  <2> HIDE DEF A, B
  <2> QED BY <2>2, <2>3, <1>2
<1>5. IsFiniteSet(B) /\ Cardinality(B) \in Nat
  BY DueHereIsNat
<1> HIDE DEF A, B, hit
<1>6. Cardinality(B \cup {n}) = IF n \in B THEN Cardinality(B) ELSE Cardinality(B) + 1
  BY ONLY <1>5, FS_AddElement
<1>7. Cardinality(A) = Cardinality(B) + IF hit THEN 1 ELSE 0
  BY <1>3, <1>4, <1>5, <1>6
<1> QED BY <1>7 DEF A, B, hit

\* Before the call everything is outstanding.
LEMMA CountInit ==
  ASSUME Init, NEW e
  PROVE  Counted(e)
<1>1. errors = <<>> /\ stage = "call" /\ call \in Call
  BY DEF Init
<1>2. RootFrame(call) \in Frame
  BY <1>1, FrameAssumption
<1>3. Due(e)[RootFrame(call)] \in Nat
  BY <1>2, DueIsNat
<1>4. Occurrences(<<>>, e) = 0
  <2>1. {i \in DOMAIN <<>> : <<>>[i] = e} = {}
    OBVIOUS
  <2> QED BY <2>1, FS_EmptySet DEF Occurrences
<1> QED BY <1>1, <1>3, <1>4 DEF Counted, Outstanding

\* And no step of the walk loses an error or reports one twice.
LEMMA CountStep ==
  ASSUME IInv, [Next]_vars, NEW e, Counted(e)
  PROVE  Counted(e)'
<1> DEFINE w == Due(e)
           f == Head(frames)
           r == Tail(frames)
<1>1. w \in [Frame -> Nat]
  BY DueIsNat
<1>2. /\ call \in Call /\ frames \in Seq(Frame) /\ next \in Nat \ {0}
      /\ errors \in Seq(UNION {ErrorsOf(g) : g \in answered})
  BY DEF IInv, TypeOK, ReportedForCause
<1>3. RootFrame(call) \in Frame /\ w[RootFrame(call)] \in Nat
  BY <1>1, <1>2, FrameAssumption
<1>4. Occurrences(errors, e) \in Nat
  BY <1>2, OccurrencesAreNat
<1>5. ASSUME frames # <<>>
      PROVE  /\ f \in Frame /\ r \in Seq(Frame) /\ TotalOf(r, w) \in Nat /\ w[f] \in Nat
             /\ TotalOf(frames, w) = w[f] + TotalOf(r, w)
  <2>1. f \in Frame /\ r \in Seq(Frame)
    BY <1>2, <1>5
  <2>2. TotalOf(frames, w) = w[Head(frames)] + TotalOf(Tail(frames), w)
    <3> HIDE DEF w
    <3> QED BY <1>1, <1>2, <1>5, TotalOfHead
  <2> HIDE DEF w, r
  <2>3. TotalOf(r, w) \in Nat
    BY <1>1, <2>1, TotalIsNat
  <2> QED BY <1>1, <2>1, <2>2, <2>3 DEF r
<1>6. CASE Start
  <2>1. /\ stage = "call" /\ stage' = "enter" /\ frames' = <<RootFrame(call)>>
        /\ errors' = errors /\ call' = call
    BY <1>6 DEF Start
  <2>2. TotalOf(<<RootFrame(call)>>, w) = w[RootFrame(call)]
    <3> HIDE DEF w
    <3> QED BY <1>1, <1>3, TotalOfOne
  <2> HIDE DEF f, r
  <2> QED BY <2>1, <2>2 DEF Counted, Outstanding
<1>7. CASE RefuseDeep
  <2> DEFINE d == SchemaTooDeepError(f.path)
  <2>1. /\ stage = "enter" /\ stage' = "enter" /\ frames # <<>> /\ TooDeep(f)
        /\ frames' = r /\ errors' = Append(errors, d) /\ call' = call
    BY <1>7 DEF RefuseDeep
  <2>2. w[f] = IF e = d THEN 1 ELSE 0
    BY <2>1, <1>5, DueStep
  <2> HIDE DEF d, f, r, w
  <2>3. Occurrences(Append(errors, d), e) = Occurrences(errors, e) + IF d = e THEN 1 ELSE 0
    BY <1>2, OccurrencesOfOneMore
  <2>4. Occurrences(errors, e) + TotalOf(frames, w) = w[RootFrame(call)]
    BY <2>1 DEF Counted, Outstanding, w
  <2>5. Occurrences(errors', e) + TotalOf(frames', w) = w[RootFrame(call)]
    BY <2>1, <2>2, <2>3, <2>4, <1>4, <1>5
  <2> QED BY <2>1, <2>5 DEF Counted, Outstanding, w
<1>8. CASE EnterNode
  <2>1. /\ stage = "enter" /\ stage' = "evaluate" /\ frames # <<>> /\ ~TooDeep(f)
        /\ frames' = frames /\ errors' = errors /\ call' = call /\ next' = 1
    BY <1>8 DEF EnterNode
  <2> DEFINE here == Cardinality(HitsFrom(f, e, 1))
             below == TotalOf(SomeOrder(f), w)
  <2>2. w[f] = here + below
    BY <2>1, <1>5, DueStep, SomeOrderIsOne
  <2>3. here \in Nat /\ below \in Nat
    <3>1. SomeOrder(f) \in Seq(Frame) /\ f \in Frame
      BY <2>1, <1>5, SomeOrderIsOne
    <3> HIDE DEF w
    <3> QED BY <1>1, <3>1, TotalIsNat, DueHereIsNat
  <2>4. Occurrences(errors, e) + TotalOf(frames, w) = w[RootFrame(call)]
    BY <2>1 DEF Counted, Outstanding
  <2>5. Outstanding(e)' = here + below + TotalOf(r, w)
    BY <2>1 DEF Outstanding
  <2> HIDE DEF w, here, below, f, r
  <2>6. here + below + TotalOf(r, w) = TotalOf(frames, w)
    BY <2>1, <2>2, <2>3, <1>5
  <2> QED BY <2>1, <2>4, <2>5, <2>6 DEF Counted, w
<1>9. CASE EvaluateNext
  <2> DEFINE res == EvaluateResult(Results(f)[next], scope, f.path)
             hit == IF e \in ToSet(res) THEN 1 ELSE 0
             now == Cardinality(HitsFrom(f, e, next))
             then == Cardinality(HitsFrom(f, e, next + 1))
             below == TotalOf(SomeOrder(f), w)
  <2>1. /\ stage = "evaluate" /\ stage' = "evaluate" /\ next <= Len(Results(f))
        /\ frames' = frames /\ errors' = errors \o res /\ call' = call /\ next' = next + 1
    BY <1>9 DEF EvaluateNext
  <2>2. frames # <<>> /\ scope = ScopeOf(f) /\ ~TooDeep(f)
    BY <2>1 DEF IInv, TypeOK, Settled
  <2>3. now = then + hit
    BY <1>2, <1>5, <2>1, <2>2, HitsStep
  <2>4. then \in Nat /\ below \in Nat
    <3>1. SomeOrder(f) \in Seq(Frame) /\ f \in Frame
      BY <2>2, <1>5, SomeOrderIsOne
    <3> HIDE DEF w
    <3> QED BY <1>1, <3>1, TotalIsNat, DueHereIsNat
  <2>5. Occurrences(errors, e) + (now + below + TotalOf(r, w)) = w[RootFrame(call)]
    BY <2>1 DEF Counted, Outstanding
  <2>6. Outstanding(e)' = then + below + TotalOf(r, w)
    BY <2>1 DEF Outstanding
  <2>7. Occurrences(errors', e) = Occurrences(errors, e) + hit
    <3>1. CASE res = <<>>
      <4>1. hit = 0
        BY <3>1 DEF ToSet
      <4>2. errors' = errors
        BY <3>1, <2>1, <1>2
      <4> QED BY <4>1, <4>2, <1>4
    <3>2. CASE \E d : res = <<d>>
      <4>1. PICK d : res = <<d>>
        BY <3>2
      <4>2. hit = IF d = e THEN 1 ELSE 0
        BY <4>1 DEF ToSet
      <4> HIDE DEF hit, res
      <4>3. errors' = Append(errors, d)
        <5>1. errors \o <<d>> = Append(errors, d)
          BY <1>2, ReportGrows
        <5> QED BY <5>1, <4>1, <2>1
      <4>4. Occurrences(Append(errors, d), e) =
              Occurrences(errors, e) + IF d = e THEN 1 ELSE 0
        BY <1>2, OccurrencesOfOneMore
      <4> QED BY <4>2, <4>3, <4>4
    <3> QED BY <3>1, <3>2, OneErrorAtMost
  <2>8. hit \in Nat
    OBVIOUS
  <2>9. TotalOf(r, w) \in Nat
    BY <2>2, <1>5
  <2> DEFINE rest == TotalOf(r, w)
  <2> HIDE DEF w, now, then, below, hit, res, f, r, rest
  <2>10. Occurrences(errors', e) + (then + below + rest) = w[RootFrame(call)]
    BY <2>3, <2>4, <2>5, <2>7, <2>8, <2>9, <1>4 DEF rest
  <2> QED BY <2>1, <2>6, <2>10 DEF Counted, w, rest
<1>10. CASE Descend
  <2>1. /\ stage = "evaluate" /\ stage' = "enter" /\ next > Len(Results(f))
        /\ errors' = errors /\ call' = call
    BY <1>10 DEF Descend
  <2>2. PICK order \in Children(f) : frames' = order \o r
    BY <1>10 DEF Descend
  <2>3. frames # <<>> /\ ~TooDeep(f)
    BY <2>1 DEF IInv, TypeOK, Settled
  <2>4. HitsFrom(f, e, next) = {}
    <3>1. f \in Frame
      BY <2>3, <1>5
    <3>2. Results(f) \in Seq(Result)
      BY <3>1, FrameAssumption
    <3> HIDE DEF f
    <3> QED BY <3>2, <2>1, <1>2 DEF HitsFrom
  <2> DEFINE here == Cardinality(HitsFrom(f, e, 1))
             below == TotalOf(SomeOrder(f), w)
  <2>5. w[f] = here + below /\ w[f] = here + TotalOf(order, w)
    BY <2>2, <2>3, <1>5, DueStep, SomeOrderIsOne
  <2>6. order \in Seq(Frame) /\ SomeOrder(f) \in Seq(Frame) /\ f \in Frame
    BY <2>2, <2>3, <1>5, SomeOrderIsOne, FrameAssumption
  <2>7. here \in Nat /\ below \in Nat /\ TotalOf(order, w) \in Nat
    <3> HIDE DEF w
    <3> QED BY <1>1, <2>6, TotalIsNat, DueHereIsNat
  <2>8. TotalOf(order \o r, w) = TotalOf(order, w) + TotalOf(r, w)
    <3>1. r \in Seq(Frame)
      BY <2>3, <1>5
    <3> HIDE DEF w, r
    <3> QED BY <1>1, <2>6, <3>1, TotalOfBoth
  <2>9. Cardinality(HitsFrom(f, e, next)) = 0
    BY <2>4, FS_EmptySet
  <2>10. Occurrences(errors, e) + (0 + below + TotalOf(r, w)) = w[RootFrame(call)]
    BY <2>1, <2>9 DEF Counted, Outstanding
  <2>11. Outstanding(e)' = TotalOf(order \o r, w)
    BY <2>1, <2>2 DEF Outstanding
  <2>12. TotalOf(r, w) \in Nat
    BY <2>3, <1>5
  <2> DEFINE rest == TotalOf(r, w)
             mine == TotalOf(order, w)
  <2> HIDE DEF w, here, below, f, r, rest, mine
  <2>13. mine = below
    BY <2>5, <2>7 DEF mine
  <2>14. Occurrences(errors', e) + (mine + rest) = w[RootFrame(call)]
    BY <2>1, <2>7, <2>10, <2>12, <2>13, <1>4 DEF rest
  <2> QED BY <2>1, <2>8, <2>11, <2>14 DEF Counted, w, rest, mine
<1>11. CASE Return
  <2>1. /\ stage = "enter" /\ stage' = "return" /\ frames = <<>>
        /\ errors' = errors /\ call' = call
    BY <1>11 DEF Return
  <2>2. TotalOf(frames, w) = 0
    BY <2>1, TotalOfNone
  <2> HIDE DEF f, r
  <2> QED BY <2>1, <2>2 DEF Counted, Outstanding
<1>12. CASE UNCHANGED vars
  BY <1>12 DEF vars, Counted, Outstanding
<1> QED BY <1>6, <1>7, <1>8, <1>9, <1>10, <1>11, <1>12 DEF Next

\* A call that has answered has reported each error as often as it was due of the
\* frames it leads to: none is lost, and none repeated for a place that is walked
\* once (validate_with_context up to into_result, in any order of children).
THEOREM ReportsAsOftenAsDue ==
  Spec => [](verdict # "running" =>
               \A e : Occurrences(errors, e) = Due(e)[RootFrame(call)])
<1> DEFINE CInv == IInv /\ \A e : Counted(e)
<1>1. Init => CInv
  BY InitInvariant, CountInit
<1>2. CInv /\ [Next]_vars => CInv'
  <2> SUFFICES ASSUME CInv, [Next]_vars
               PROVE  CInv'
    OBVIOUS
  <2>1. IInv'
    BY StepInvariant
  <2>2. ASSUME NEW e
        PROVE  Counted(e)'
    BY CountStep
  <2> QED BY <2>1, <2>2
<1>3. CInv => (verdict # "running" =>
                 \A e : Occurrences(errors, e) = Due(e)[RootFrame(call)])
  <2> SUFFICES ASSUME CInv, verdict # "running", NEW e
               PROVE  Occurrences(errors, e) = Due(e)[RootFrame(call)]
    OBVIOUS
  <2>1. Outstanding(e) = 0
    BY DEF IInv, Settled, Outstanding
  <2>2. Occurrences(errors, e) \in Nat
    BY OccurrencesAreNat DEF IInv, ReportedForCause
  <2> QED BY <2>1, <2>2 DEF Counted
<1> QED BY <1>1, <1>2, <1>3, PTL DEF Spec
=============================================================================
