------------------------------- MODULE Rules -------------------------------
(***************************************************************************)
(* One x-kubernetes-validations rule: how it is compiled and how a         *)
(* compiled rule is evaluated at one node of an object                     *)
(* (src/src/validation/compilation.rs and mod.rs).                         *)
(*                                                                         *)
(* The CEL interpreter is the external crate "cel"; the module sees it     *)
(* through three operators only.                                           *)
(***************************************************************************)
EXTENDS Documents

CONSTANTS
  Parses(_),       \* Program::compile accepts the expression
  References(_),   \* the variables Program::references reports for it
  Execute(_, _)    \* Program::execute on (expression, scope), one of Outcomes

\* What executing a program can return, as far as the code tells it apart.
Outcomes == {"true", "false", "string", "other", "undeclared", "error"}

(***************************************************************************)
(* A raw rule is a record                                                  *)
(*   [wellFormed, rule, message, messageExpression, fieldPath,             *)
(*    optionalOldSelf]                                                     *)
(* where wellFormed says that serde can deserialize it, message,           *)
(* messageExpression and fieldPath are Options and optionalOldSelf is      *)
(* "absent", "true" or "false".  A scope binds self, the Option oldSelf    *)
(* and, when root holds, the three RootContext variables.                  *)
(***************************************************************************)
Compiled(r) ==
  [status     |-> "compiled",
   raw        |-> r,
   transition |-> "oldSelf" \in References(r.rule)]

Failed(cause, rule) == [status |-> cause, rule |-> rule]

CompileRule(r) ==
  IF ~Parses(r.rule) THEN Failed("Parse", r.rule)
  ELSE IF \E m \in r.messageExpression : ~Parses(m)
       THEN Failed("MessageExpressionParse", r.rule)
       ELSE Compiled(r)

CompileSchemaValidations(rawRules) ==
  [i \in DOMAIN rawRules |->
     IF rawRules[i].wellFormed THEN CompileRule(rawRules[i])
     ELSE Failed("InvalidRule", "")]

\* The marker compile_schema leaves in place of an over-deep subtree.
SchemaTooDeepMarker == Failed("SchemaTooDeep", "")

---------------------------------------------------------------------------
ErrorKinds ==
  {"CompilationFailure", "InvalidRule", "ValidationFailure", "InvalidResult",
   "EvaluationError", "UnsupportedReference", "SchemaTooDeep"}

ErrorAt(rule, kind, path, message) ==
  [rule |-> rule, kind |-> kind, path |-> path, message |-> message]

SchemaTooDeepError(path) == ErrorAt("", "SchemaTooDeep", path, "builtin")

\* messageExpression if it yields a string, else the static message, else the
\* default text.
ResolveMessage(r, scope) ==
  IF \E m \in r.messageExpression : Execute(m, scope) = "string" THEN "dynamic"
  ELSE IF r.message # {} THEN "static"
  ELSE "default"

\* A transition rule needs an old value unless it declares oldSelf optional.
Skipped(cr, scope) ==
  /\ cr.transition
  /\ scope.oldSelf = {}
  /\ cr.raw.optionalOldSelf # "true"

\* A slip: the rule runs in the scope that lacks oldSelf.
EffectiveScopeUnbound(cr, scope) == scope

\* optionalOldSelf without an old value: an inner scope with oldSelf = null.
EffectiveScope(cr, scope) ==
  IF scope.oldSelf = {} /\ cr.raw.optionalOldSelf = "true"
  THEN [scope EXCEPT !.oldSelf = {Null}]
  ELSE scope

FailureKind(outcome) ==
  CASE outcome = "false"      -> "ValidationFailure"
    [] outcome = "undeclared" -> "UnsupportedReference"
    [] outcome = "error"      -> "EvaluationError"
    [] OTHER                  -> "InvalidResult"

\* The errors one compiled rule adds at a node: none or one.
EvaluateRule(cr, scope, path) ==
  LET effective == EffectiveScope(cr, scope)
      outcome   == Execute(cr.raw.rule, effective)
      message   == IF outcome = "false" THEN ResolveMessage(cr.raw, effective)
                   ELSE "builtin"
  IN  IF Skipped(cr, scope) \/ outcome = "true" THEN <<>>
      ELSE <<ErrorAt(cr.raw.rule, FailureKind(outcome),
                     EffectivePath(path, cr.raw.fieldPath), message)>>

\* A slip: a rule that did not compile is left out.
EvaluateResultIfCompiled(res, scope, path) ==
  IF res.status = "compiled" THEN EvaluateRule(res, scope, path) ELSE <<>>

\* The errors one entry of a node's compiled results adds: a rule that did not
\* compile is an error of its own, never a rule that is left out.
EvaluateResult(res, scope, path) ==
  CASE res.status = "compiled"      -> EvaluateRule(res, scope, path)
    [] res.status = "SchemaTooDeep" -> <<SchemaTooDeepError(path)>>
    [] res.status = "InvalidRule"   ->
         <<ErrorAt("", "InvalidRule", path, "builtin")>>
    [] OTHER -> <<ErrorAt(res.rule, "CompilationFailure", path, "builtin")>>

---------------------------------------------------------------------------
(***************************************************************************)
(* What it means that a node's rule is satisfied, stated without reference *)
(* to how the code reports errors.                                         *)
(***************************************************************************)
Satisfied(res, scope) ==
  /\ res.status = "compiled"
  /\ IF scope.oldSelf = {} /\ res.raw.optionalOldSelf = "true"
     THEN Execute(res.raw.rule, [scope EXCEPT !.oldSelf = {Null}]) = "true"
     ELSE \/ scope.oldSelf = {} /\ res.transition
          \/ Execute(res.raw.rule, scope) = "true"
=============================================================================
