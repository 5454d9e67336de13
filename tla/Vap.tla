-------------------------------- MODULE Vap --------------------------------
(***************************************************************************)
(* Client-side evaluation of a ValidatingAdmissionPolicy,                  *)
(* src/src/validation/vap.rs.  The expressions of one policy are compiled  *)
(* once and then evaluated for any number of admissions, each with an      *)
(* evaluator, and so a context, of its own.                                *)
(*                                                                         *)
(* An expression is a record [expression, message, messageExpression], an  *)
(* evaluator a record [object, oldObject, request, params,                 *)
(* namespaceObject]; an Option is a set with at most one element.          *)
(***************************************************************************)
EXTENDS Integers, Sequences

CONSTANTS
  Expression,      \* the expressions a policy may hold
  Policy,          \* the policies: sequences of expressions
  Evaluator,       \* what VapEvaluatorBuilder::build can return
  MaxAdmissions,   \* bound on the admissions of one behaviour
  Parses(_),       \* Program::compile accepts the expression
  Execute(_, _),   \* Program::execute on (expression, context)
  ToCel(_)         \* json_to_cel

ASSUME PolicyAssumption == Policy \subseteq Seq(Expression)

VARIABLES
  policy,       \* the expressions given to compile_expressions
  compiled,     \* one entry per expression compiled so far
  evaluator,    \* the evaluator of the last call
  context,      \* the CEL context of the last evaluation, <<>> before it
  results,      \* the VapResults of the last evaluation so far
  admissions    \* how many evaluations were begun

vars == <<policy, compiled, evaluator, context, results, admissions>>

\* The flat AdmissionRequest as the request variable: the user's fields move
\* into userInfo.
RequestToCel(r) ==
  [operation |-> r.operation, name |-> r.name, namespace |-> r.namespace,
   dryRun |-> r.dryRun, kind |-> r.kind, resource |-> r.resource,
   userInfo |-> [username |-> r.username, uid |-> r.uid, groups |-> r.groups]]

Bound(opt) == {ToCel(v) : v \in opt}

\* Every variable of a context is an Option: {} is not declared.  oldObject is
\* always declared, null when there is none.
BuildContext(ev) ==
  [object          |-> {ToCel(ev.object)},
   oldObject       |-> IF ev.oldObject = {} THEN {[kind |-> "null"]}
                       ELSE Bound(ev.oldObject),
   request         |-> {RequestToCel(ev.request)},
   params          |-> Bound(ev.params),
   namespaceObject |-> Bound(ev.namespaceObject)]

\* The failed entry carries the text that did not parse.
CompileExpression(e) ==
  IF ~Parses(e.expression) THEN [status |-> "failed", expression |-> e.expression]
  ELSE IF \E m \in e.messageExpression : ~Parses(m)
       THEN [status     |-> "failed",
             expression |-> CHOOSE m \in e.messageExpression : TRUE]
       ELSE [status |-> "compiled", expression |-> e.expression, source |-> e]

DenialMessage(e, ctx) ==
  IF \E m \in e.messageExpression : Execute(m, ctx) = "string" THEN "dynamic"
  ELSE IF e.message # {} THEN "static" ELSE "default"

VapResult(expression, passed, message) ==
  [expression |-> expression, passed |-> passed, message |-> message]

\* A slip: a failed denial message is no message.
EvaluateExpressionUnexplained(c, ctx) ==
  LET outcome == IF c.status = "failed" THEN "error" ELSE Execute(c.expression, ctx)
  IN  VapResult(c.expression, outcome = "true",
                IF outcome = "false" /\ c.source.message # {} THEN {"static"} ELSE {})

EvaluateExpression(c, ctx) ==
  LET outcome == Execute(c.expression, ctx)
  IN  CASE c.status = "failed" -> VapResult(c.expression, FALSE, {"builtin"})
        [] c.status = "compiled" /\ outcome = "true" ->
             VapResult(c.expression, TRUE, {})
        [] c.status = "compiled" /\ outcome = "false" ->
             VapResult(c.expression, FALSE, {DenialMessage(c.source, ctx)})
        [] OTHER -> VapResult(c.expression, FALSE, {"builtin"})

---------------------------------------------------------------------------
Init ==
  /\ policy \in Policy
  /\ compiled = <<>>
  /\ evaluator \in Evaluator
  /\ context = <<>>
  /\ results = <<>>
  /\ admissions = 0

CompileNext ==
  /\ admissions = 0
  /\ Len(compiled) < Len(policy)
  /\ compiled' = Append(compiled, CompileExpression(policy[Len(compiled) + 1]))
  /\ UNCHANGED <<policy, evaluator, context, results, admissions>>

Idle ==
  IF admissions = 0 THEN Len(compiled) = Len(policy)
  ELSE Len(results) = Len(compiled)

\* A slip: the first context is kept for later admissions.
AdmitInFirstContext ==
  /\ Idle
  /\ admissions < MaxAdmissions
  /\ evaluator' \in Evaluator
  /\ context' = IF context = <<>> THEN BuildContext(evaluator') ELSE context
  /\ results' = <<>>
  /\ admissions' = admissions + 1
  /\ UNCHANGED <<policy, compiled>>

\* evaluate_compiled builds the context of its evaluator anew.
Admit ==
  /\ Idle
  /\ admissions < MaxAdmissions
  /\ evaluator' \in Evaluator
  /\ context' = BuildContext(evaluator')
  /\ results' = <<>>
  /\ admissions' = admissions + 1
  /\ UNCHANGED <<policy, compiled>>

EvaluateNext ==
  /\ admissions > 0
  /\ Len(results) < Len(compiled)
  /\ results' = Append(results,
                       EvaluateExpression(compiled[Len(results) + 1], context))
  /\ UNCHANGED <<policy, compiled, evaluator, context, admissions>>

Next == CompileNext \/ Admit \/ EvaluateNext

Spec == Init /\ [][Next]_vars

---------------------------------------------------------------------------
Judged == Idle /\ admissions > 0

\* Whether an expression of the policy admits what an evaluator is about.
Admits(e, ev) ==
  /\ Parses(e.expression)
  /\ \A m \in e.messageExpression : Parses(m)
  /\ Execute(e.expression, BuildContext(ev)) = "true"

\* Every admission is judged by every expression of the policy, in order, in its
\* own context, and an expression that does not compile denies in its place
\* (compile_expressions and evaluate_compiled).
PolicyJudged ==
  Judged =>
    /\ Len(results) = Len(policy)
    /\ \A i \in DOMAIN policy : results[i].passed <=> Admits(policy[i], evaluator)

\* A denial always says why and an admission says nothing, whatever the message
\* and messageExpression of the policy are (the Option in VapResult::message).
DenialExplained ==
  \A i \in DOMAIN results : results[i].passed <=> results[i].message = {}
=============================================================================
