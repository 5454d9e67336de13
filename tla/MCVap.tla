------------------------------- MODULE MCVap -------------------------------
(***************************************************************************)
(* Vap with policies of one and two expressions that hold, fail, yield no  *)
(* boolean, name an undeclared variable or do not parse.                   *)
(***************************************************************************)
EXTENDS Vap

MCParses(e) == e # "syntax error"

\* Evaluation in a context whose variables are Options.
MCExecute(e, ctx) ==
  CASE e = "object == oldObject" ->
         IF ctx.object = ctx.oldObject THEN "true" ELSE "false"
    [] e = "params.allow"  ->
         IF ctx.params = {} THEN "undeclared"
         ELSE IF ctx.params = {[kind |-> "cel", atom |-> "allow"]} THEN "true"
              ELSE "false"
    [] e = "'no ' + object" -> IF ctx.object = {[kind |-> "cel", atom |-> "x"]}
                              THEN "string" ELSE "error"
    [] e = "object"         -> "other"
    [] e = "request.userInfo.username == 'admin'" ->
         IF \E r \in ctx.request : r.userInfo.username = "admin" THEN "true"
         ELSE "false"

MCToCel(v) == IF v = "null" THEN [kind |-> "null"] ELSE [kind |-> "cel", atom |-> v]

Request(user) ==
  [operation |-> "CREATE", name |-> "n", namespace |-> "ns", dryRun |-> FALSE,
   kind |-> "k", resource |-> "r", username |-> user, uid |-> "", groups |-> <<>>]

MCExpression ==
  [expression : {"object == oldObject", "params.allow", "object", "syntax error",
                 "request.userInfo.username == 'admin'"},
   message : {{}, {"m"}},
   messageExpression : {{}, {"'no ' + object"}, {"object"}, {"syntax error"}}]

MCPolicy == {<<>>} \cup {<<e>> : e \in MCExpression} \cup (MCExpression \X MCExpression)

MCEvaluator ==
  [object : {"x", "null"}, oldObject : {{}, {"x"}}, request : {Request("dev")},
   params : {{}}, namespaceObject : {{}}]
    \cup [object : {"x"}, oldObject : {{}}, request : {Request("admin")},
          params : {{"allow"}}, namespaceObject : {{}}]
=============================================================================
