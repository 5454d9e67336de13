----------------------------- MODULE Vap_proofs -----------------------------
(***************************************************************************)
(* A policy is judged expression by expression whatever its length, for    *)
(* every evaluator and every CEL interpreter.                              *)
(***************************************************************************)
EXTENDS Vap, TLAPS

Entry == {CompileExpression(e) : e \in Expression}

\* The results an evaluation can produce.
Verdict ==
  {EvaluateExpression(c, BuildContext(ev)) : c \in Entry, ev \in Evaluator}

(***************************************************************************)
(* The entries compiled so far stand at the places of their expressions,   *)
(* and the results so far were computed from them in the context of the    *)
(* current evaluator.                                                      *)
(***************************************************************************)
CompiledInPlace ==
  /\ policy \in Seq(Expression)
  /\ compiled \in Seq(Entry)
  /\ Len(compiled) <= Len(policy)
  /\ \A i \in 1..Len(compiled) : compiled[i] = CompileExpression(policy[i])

JudgedInPlace ==
  /\ evaluator \in Evaluator
  /\ admissions \in Nat
  /\ results \in Seq(Verdict)
  /\ Len(results) <= Len(compiled)
  /\ \A i \in 1..Len(results) :
       results[i] = EvaluateExpression(compiled[i], BuildContext(evaluator))
  /\ admissions = 0 => results = <<>>
  /\ admissions > 0 =>
       Len(compiled) = Len(policy) /\ context = BuildContext(evaluator)

IInv == CompiledInPlace /\ JudgedInPlace

---------------------------------------------------------------------------
\* An entry admits exactly when its expression does: a text that did not parse,
\* the expression or its messageExpression, denies.
LEMMA EntryJudges ==
  ASSUME NEW e, NEW ev
  PROVE  EvaluateExpression(CompileExpression(e), BuildContext(ev)).passed
           <=> Admits(e, ev)
<1> DEFINE c == CompileExpression(e)
           outcome == Execute(c.expression, BuildContext(ev))
           result == EvaluateExpression(c, BuildContext(ev))
<1>1. CASE c.status = "failed"
  <2>1. result = VapResult(c.expression, FALSE, {"builtin"})
    BY <1>1 DEF EvaluateExpression
  <2>2. ~result.passed
    BY <2>1 DEF VapResult
  <2>3. ~Admits(e, ev)
    BY <1>1 DEF CompileExpression, Admits
  <2> QED BY <2>2, <2>3
<1>2. CASE c.status # "failed"
  <2>1. /\ c.status = "compiled" /\ c.expression = e.expression
        /\ Parses(e.expression) /\ \A m \in e.messageExpression : Parses(m)
    BY <1>2 DEF CompileExpression
  <2>2. CASE outcome = "true"
    <3>1. result = VapResult(c.expression, TRUE, {})
      BY <2>1, <2>2 DEF EvaluateExpression
    <3> QED BY <2>1, <2>2, <3>1 DEF VapResult, Admits
  <2>3. CASE outcome # "true"
    <3>1. \E message : result = VapResult(c.expression, FALSE, message)
      BY <2>1, <2>3 DEF EvaluateExpression
    <3> QED BY <2>1, <2>3, <3>1 DEF VapResult, Admits
  <2> QED BY <2>2, <2>3
<1> QED BY <1>1, <1>2

\* Whatever an entry is, its result has a message exactly when it denies.
LEMMA ResultExplains ==
  ASSUME NEW c, NEW ctx
  PROVE  EvaluateExpression(c, ctx).passed
           <=> EvaluateExpression(c, ctx).message = {}
<1> DEFINE result == EvaluateExpression(c, ctx)
<1>1. \/ result = VapResult(c.expression, TRUE, {})
      \/ \E m : result = VapResult(c.expression, FALSE, {m})
  BY DEF EvaluateExpression
<1>2. VapResult(c.expression, TRUE, {}).passed
        /\ VapResult(c.expression, TRUE, {}).message = {}
  BY DEF VapResult
<1>3. ASSUME NEW m
      PROVE  /\ ~VapResult(c.expression, FALSE, {m}).passed
             /\ VapResult(c.expression, FALSE, {m}).message # {}
  BY DEF VapResult
<1> QED BY <1>1, <1>2, <1>3

---------------------------------------------------------------------------
\* The invariant holds before an evaluator is built.
LEMMA InitInvariant == Init => IInv
  BY PolicyAssumption DEF Init, IInv, CompiledInPlace, JudgedInPlace

\* Every step of an evaluation keeps the invariant (compile_expressions, evaluate).
LEMMA StepInvariant == IInv /\ [Next]_vars => IInv'
<1> SUFFICES ASSUME IInv, [Next]_vars
             PROVE  IInv'
  OBVIOUS
<1> USE DEF IInv
<1>1. CASE CompileNext
  <2> DEFINE entry == CompileExpression(policy[Len(compiled) + 1])
  <2>1. compiled' = Append(compiled, entry) /\ Len(compiled) < Len(policy)
    BY <1>1 DEF CompileNext
  <2>2. entry \in Entry
    <3>1. policy[Len(compiled) + 1] \in Expression
      BY <2>1 DEF CompiledInPlace
    <3> QED BY <3>1 DEF Entry
  <2>3. compiled' \in Seq(Entry) /\ Len(compiled') = Len(compiled) + 1
    <3> HIDE DEF entry
    <3> QED BY <2>1, <2>2 DEF CompiledInPlace
  <2>4. \A i \in 1..Len(compiled') : compiled'[i] = CompileExpression(policy[i])
    <3> SUFFICES ASSUME NEW i \in 1..Len(compiled')
                 PROVE  compiled'[i] = CompileExpression(policy[i])
      OBVIOUS
    <3>1. CASE i = Len(compiled) + 1
      BY <2>1, <3>1 DEF CompiledInPlace
    <3>2. CASE i # Len(compiled) + 1
      <4>1. i \in 1..Len(compiled)
        BY <2>3, <3>2 DEF CompiledInPlace
      <4> HIDE DEF entry
      <4>2. compiled'[i] = compiled[i]
        BY <2>1, <2>2, <4>1 DEF CompiledInPlace
      <4> QED BY <4>1, <4>2 DEF CompiledInPlace
    <3> QED BY <3>1, <3>2
  <2>5. CompiledInPlace'
    <3>1. policy' = policy
      BY <1>1 DEF CompileNext
    <3> QED BY <2>1, <2>3, <2>4, <3>1 DEF CompiledInPlace
  <2>6. JudgedInPlace'
    <3>1. /\ results = <<>> /\ admissions = 0
          /\ UNCHANGED <<evaluator, results, admissions>>
      BY <1>1 DEF CompileNext, JudgedInPlace
    <3> QED BY <2>3, <3>1 DEF JudgedInPlace, CompiledInPlace
  <2> QED BY <2>5, <2>6
<1>2. CASE Admit
  <2>1. CompiledInPlace'
    BY <1>2 DEF Admit, CompiledInPlace
  <2>2. Len(compiled) = Len(policy)
    BY <1>2 DEF Admit, Idle, JudgedInPlace
  <2>3. JudgedInPlace'
    BY <1>2, <2>2 DEF Admit, JudgedInPlace, CompiledInPlace
  <2> QED BY <2>1, <2>3
<1>3. CASE EvaluateNext
  <2> DEFINE result == EvaluateExpression(compiled[Len(results) + 1], context)
  <2>1. results' = Append(results, result) /\ Len(results) < Len(compiled)
    BY <1>3 DEF EvaluateNext
  <2>2. context = BuildContext(evaluator)
    BY <1>3 DEF EvaluateNext, JudgedInPlace
  <2>3. result \in Verdict
    <3>1. compiled[Len(results) + 1] \in Entry
      BY <2>1 DEF CompiledInPlace, JudgedInPlace
    <3> QED BY <2>2, <3>1 DEF Verdict, JudgedInPlace
  <2>4. results' \in Seq(Verdict) /\ Len(results') = Len(results) + 1
    <3> HIDE DEF result
    <3> QED BY <2>1, <2>3 DEF JudgedInPlace
  <2>5. ASSUME NEW i \in 1..Len(results')
        PROVE  results'[i] = EvaluateExpression(compiled[i], BuildContext(evaluator))
    <3>1. CASE i = Len(results) + 1
      BY <2>1, <2>2, <3>1 DEF JudgedInPlace
    <3>2. CASE i # Len(results) + 1
      <4>1. i \in 1..Len(results)
        BY <2>4, <3>2 DEF JudgedInPlace
      <4> HIDE DEF result
      <4>2. results'[i] = results[i]
        BY <2>1, <2>3, <4>1 DEF JudgedInPlace
      <4> QED BY <4>1, <4>2 DEF JudgedInPlace
    <3> QED BY <3>1, <3>2
  <2>6. UNCHANGED <<policy, compiled, evaluator, context, admissions>>
    BY <1>3 DEF EvaluateNext
  <2>7. CompiledInPlace'
    BY <2>6 DEF CompiledInPlace
  <2>8. JudgedInPlace'
    <3>1. admissions > 0
      BY <1>3 DEF EvaluateNext
    <3>2. Len(results') <= Len(compiled)
      BY <2>1, <2>4 DEF JudgedInPlace, CompiledInPlace
    <3> QED BY <2>4, <2>5, <2>6, <3>1, <3>2 DEF JudgedInPlace
  <2> QED BY <2>7, <2>8
<1>4. CASE UNCHANGED vars
  BY <1>4 DEF vars, CompiledInPlace, JudgedInPlace
<1> QED BY <1>1, <1>2, <1>3, <1>4 DEF Next

\* The invariant holds at every moment of every evaluation.
LEMMA AlwaysInvariant == Spec => []IInv
  BY InitInvariant, StepInvariant, PTL DEF Spec

\* Every admission is judged by the whole policy, each expression in its place
\* and in the context of the current evaluator (evaluate_compiled).
THEOREM PolicyIsJudged == Spec => []PolicyJudged
<1>1. IInv => PolicyJudged
  <2> SUFFICES ASSUME IInv, Judged
               PROVE  /\ Len(results) = Len(policy)
                      /\ \A i \in DOMAIN policy :
                           results[i].passed <=> Admits(policy[i], evaluator)
    BY DEF PolicyJudged
  <2>1. Len(results) = Len(compiled) /\ Len(compiled) = Len(policy)
    BY DEF Judged, Idle, IInv, JudgedInPlace
  <2>2. ASSUME NEW i \in DOMAIN policy
        PROVE  results[i].passed <=> Admits(policy[i], evaluator)
    <3>1. i \in 1..Len(results) /\ i \in 1..Len(compiled)
      BY <2>1 DEF IInv, CompiledInPlace
    <3>2. results[i] = EvaluateExpression(CompileExpression(policy[i]),
                                          BuildContext(evaluator))
      BY <3>1 DEF IInv, CompiledInPlace, JudgedInPlace
    <3> QED BY <3>2, EntryJudges
  <2> QED BY <2>1, <2>2
<1> QED BY <1>1, AlwaysInvariant, PTL

\* A result has a message exactly when it denies (VapResult::message).
THEOREM DenialsAreExplained == Spec => []DenialExplained
<1>1. IInv => DenialExplained
  <2> SUFFICES ASSUME IInv, NEW i \in DOMAIN results
               PROVE  results[i].passed <=> results[i].message = {}
    BY DEF DenialExplained
  <2>1. results[i] = EvaluateExpression(compiled[i], BuildContext(evaluator))
    BY DEF IInv, JudgedInPlace
  <2> QED BY <2>1, ResultExplains
<1> QED BY <1>1, AlwaysInvariant, PTL
=============================================================================
