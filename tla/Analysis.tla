------------------------------ MODULE Analysis ------------------------------
(***************************************************************************)
(* Static analysis of a rule, src/src/validation/analysis.rs: are its      *)
(* variables in scope, and what does it cost in the worst case.  The       *)
(* module is the session of an author who asks for the analyses of a rule  *)
(* one by one and, told to, bounds a list of the schema and compiles it    *)
(* again.                                                                  *)
(***************************************************************************)
EXTENDS Integers, Sequences, FiniteSets, Functions

CONSTANTS
  Rule,              \* the rules asked about
  Schema,            \* the compiled schemas they may stand in
  NewBound,          \* the values a new maxItems may have
  DefaultMaxItems,   \* DEFAULT_MAX_ITEMS
  DefaultMaxLength,  \* DEFAULT_MAX_LENGTH
  Budget,            \* K8S_COST_BUDGET
  Limit              \* u64::MAX

ASSUME BudgetAssumption ==
  /\ Limit \in Nat /\ Budget \in 0..Limit
  /\ DefaultMaxItems \in 0..Limit /\ DefaultMaxLength \in 0..Limit

(***************************************************************************)
(* A rule is an Option of a program, none for one that does not parse: the *)
(* variables it references and the nodes of its expression, [kind, parts,  *)
(* function], each after its parts and the expression itself last.  The    *)
(* parts of a comprehension are the range and the step of its loop, those  *)
(* of a call its target and arguments; a part is given by its index.       *)
(***************************************************************************)
IsOption(S, T) == S \subseteq T /\ \A x \in S, y \in S : x = y

IsExpression(nodes) ==
  /\ nodes # <<>> /\ nodes \in Seq(Range(nodes))
  /\ \A i \in DOMAIN nodes :
       /\ nodes[i].parts \in Seq(1..i - 1)
       /\ nodes[i].kind = "comprehension" => Len(nodes[i].parts) = 2

ASSUME RuleAssumption ==
  \A r \in Rule : \A program \in r : r = {program} /\ IsExpression(program.nodes)

(***************************************************************************)
(* A schema has Options maxItems and maxLength and a sequence properties,  *)
(* of records [isArray, maxItems, maxLength] in the order in which this    *)
(* compiled schema's HashMap iterates; compiling again may change it.      *)
(***************************************************************************)
IsSchema(s) ==
  /\ s = [maxItems |-> s.maxItems, maxLength |-> s.maxLength, properties |-> s.properties]
  /\ IsOption(s.maxItems, 0..Limit) /\ IsOption(s.maxLength, 0..Limit)
  /\ s.properties \in Seq(Range(s.properties))
  /\ \A p \in Range(s.properties) :
       /\ p = [isArray |-> p.isArray, maxItems |-> p.maxItems, maxLength |-> p.maxLength]
       /\ p.isArray \in BOOLEAN
       /\ IsOption(p.maxItems, 0..Limit) /\ IsOption(p.maxLength, 0..Limit)

ASSUME SchemaAssumption ==
  /\ \A s \in Schema : IsSchema(s)
  /\ NewBound \subseteq 0..Limit

VARIABLES
  overflowChecks,  \* the build panics on overflow; a release build wraps
  rule,            \* the rule asked about
  schema,          \* its compiled schema
  scope,           \* the ScopeContext
  answers          \* what each of the functions has answered

vars == <<overflowChecks, rule, schema, scope, answers>>

Calls == {"check_rule_scope", "estimate_rule_cost", "analyze_rule"}

\* An answer is an Option as well: {} is a call not made, or one that panicked.
Unasked == [c \in Calls |-> {}]

---------------------------------------------------------------------------
ValidVariables(context) ==
  IF context = "CrdValidation"
  THEN {"self", "oldSelf", "apiVersion", "apiGroup", "kind"}
  ELSE {"self", "oldSelf", "object", "oldObject", "request", "params",
        "namespaceObject", "authorizer", "variables"}

Warning(kind, about) == [kind |-> kind, about |-> about]

ScopeWarnings(program, context) ==
  {Warning("WrongScope", v) : v \in program.variables \ ValidVariables(context)}

\* What u64 arithmetic makes of the number n.
ComputedWrapping(n) == {n % (Limit + 1)}

Computed(n) ==
  IF n <= Limit THEN {n}
  ELSE IF overflowChecks THEN {} ELSE ComputedWrapping(n)

\* The first property in iteration order that passes the test, an Option.
First(indices) == {i \in indices : \A j \in indices : i <= j}

FirstProperty(s, Test(_)) ==
  {s.properties[i] : i \in First({j \in DOMAIN s.properties : Test(s.properties[j])})}

OrElse(option, default) ==
  IF option = {} THEN default ELSE CHOOSE n \in option : TRUE

\* A slip: the first bound counts, even if the first list has none.
FindMaxItemsBounded(s) ==
  IF s.maxItems # {} THEN OrElse(s.maxItems, 0)
  ELSE LET HasBound(p) == p.isArray /\ p.maxItems # {}
       IN  OrElse(UNION {p.maxItems : p \in FirstProperty(s, HasBound)},
                  DefaultMaxItems)

FindMaxItems(s) ==
  IF s.maxItems # {} THEN OrElse(s.maxItems, 0)
  ELSE LET IsArray(p) == p.isArray
       IN  OrElse(UNION {p.maxItems : p \in FirstProperty(s, IsArray)},
                  DefaultMaxItems)

FindMaxLength(s) ==
  IF s.maxLength # {} THEN OrElse(s.maxLength, 0)
  ELSE LET HasBound(p) == p.maxLength # {}
       IN  OrElse(UNION {p.maxLength : p \in FirstProperty(s, HasBound)},
                  DefaultMaxLength)

IsStringTraversal(function) ==
  function \in {"contains", "startsWith", "endsWith", "matches", "find",
                "findAll", "replace", "split", "indexOf", "lastIndexOf"}

AtLeastOne(n) == IF n = 0 THEN 1 ELSE n

\* A cost is a set: the number computed or, if computing it panics, nothing.
Plus(total, part) == UNION {Computed(n + m) : n \in total, m \in part}

SumsTo(base, terms) ==
  LET upTo[k \in 0..Len(terms)] ==
        IF k = 0 THEN {base} ELSE Plus(upTo[k - 1], terms[k])
  IN  upTo

SumOf(base, terms) == SumsTo(base, terms)[Len(terms)]

\* What a table of the nodes has for the parts of one.
OfParts(e, table) == [k \in 1..Len(e.parts) |-> table[e.parts[k]]]

\* The cost of a call or selection itself.  The binary fraction next to 0.1 is a
\* little larger, so that the product with it is cut off to the tenth of the
\* length.
OwnCost(e, s) ==
  IF e.kind = "call" /\ IsStringTraversal(e.function)
  THEN 1 + FindMaxLength(s) \div 10
  ELSE 1

\* The cost of a node, given those of its parts.
NodeCost(e, costs, s) ==
  CASE e.kind = "comprehension" ->
         UNION {Computed(FindMaxItems(s) * AtLeastOne(n)) : n \in costs[2]}
    [] e.kind \in {"call", "select"} -> SumOf(OwnCost(e, s), costs)
    [] e.kind = "list" -> {AtLeastOne(n) : n \in SumOf(0, costs)}
    [] OTHER -> {1}

NodeCosts(nodes, s) ==
  LET cost[i \in 1..Len(nodes)] == NodeCost(nodes[i], OfParts(nodes[i], cost), s)
  IN  cost

EstimateExprCost(nodes, s) == NodeCosts(nodes, s)[Len(nodes)]

CostWarnings(cost) ==
  IF cost > Budget THEN {Warning("CostExceeded", "cost")} ELSE {}

MissingBounds(nodes, s) ==
  IF /\ nodes[Len(nodes)].kind = "comprehension"
     /\ \E i \in DOMAIN s.properties :
          s.properties[i].isArray /\ s.properties[i].maxItems = {}
  THEN {Warning("MissingBounds", "lists")}
  ELSE {}

---------------------------------------------------------------------------
\* An answer of each function to the question asked: a set of warnings (their
\* order follows a HashSet of variables), none at all if the estimate panics.
CheckRuleScope == {UNION {ScopeWarnings(program, scope) : program \in rule}}

EstimateRuleCost ==
  IF rule = {} THEN {{}}
  ELSE UNION {{CostWarnings(n) \cup MissingBounds(program.nodes, schema) :
                 n \in EstimateExprCost(program.nodes, schema)} : program \in rule}

\* A slip: the second copy of the code forgets the bounds.
AnalyzeRuleUnbounded ==
  IF rule = {} THEN {{}}
  ELSE UNION {{ScopeWarnings(program, scope) \cup CostWarnings(n) :
                 n \in EstimateExprCost(program.nodes, schema)} : program \in rule}

AnalyzeRule ==
  IF rule = {} THEN {{}}
  ELSE UNION {{ScopeWarnings(program, scope) \cup CostWarnings(n)
                 \cup MissingBounds(program.nodes, schema) :
                 n \in EstimateExprCost(program.nodes, schema)} : program \in rule}

Init ==
  /\ overflowChecks \in BOOLEAN
  /\ rule \in Rule /\ schema \in Schema
  /\ scope \in {"CrdValidation", "AdmissionPolicy"}
  /\ answers = Unasked

Ask(call, answer) ==
  /\ answers[call] = {}
  /\ answers' = [answers EXCEPT ![call] = answer]
  /\ UNCHANGED <<overflowChecks, rule, schema, scope>>

AskScope == Ask("check_rule_scope", CheckRuleScope)
AskCost  == Ask("estimate_rule_cost", EstimateRuleCost)
AskAll   == Ask("analyze_rule", AnalyzeRule)

Reordered(s) ==
  {[s EXCEPT !.properties = [i \in DOMAIN s.properties |-> s.properties[f[i]]]] :
     f \in Bijection(DOMAIN s.properties, DOMAIN s.properties)}

\* "consider adding maxItems": a list gets a bound, whatever it is, or a lower
\* one.
AddMaxItems ==
  /\ \E i \in DOMAIN schema.properties, n \in NewBound :
       /\ schema.properties[i].isArray
       /\ \A m \in schema.properties[i].maxItems : n < m
       /\ schema' \in Reordered([schema EXCEPT !.properties[i].maxItems = {n}])
  /\ answers' = Unasked
  /\ UNCHANGED <<overflowChecks, rule, scope>>

Next == AskScope \/ AskCost \/ AskAll \/ AddMaxItems

Spec == Init /\ [][Next]_vars

---------------------------------------------------------------------------
\* The one pass is the two passes: analyze_rule repeats their code, and says
\* "more efficient than calling [them] separately" (analysis.rs:129).  It
\* answers what they answer together, and nothing where the estimate panics.
OnePassSuffices ==
  \A s \in answers["check_rule_scope"], all \in answers["analyze_rule"] :
    \E c \in EstimateRuleCost : all = s \cup c

\* Top down, how much is done in each node if it is evaluated so many times: in
\* itself, and in its parts, those of a loop's step once per item.
TotalsTo(terms) ==
  LET upTo[k \in 0..Len(terms)] ==
        IF k = 0 THEN 0 ELSE upTo[k - 1] + terms[k]
  IN  upTo

Total(terms) == TotalsTo(terms)[Len(terms)]

NodeWork(e, works, s) ==
  [times \in Nat |->
     LET parts == Total([k \in 1..Len(works) |-> works[k][times]])
     IN  CASE e.kind = "comprehension" -> works[2][times * FindMaxItems(s)]
           [] e.kind \in {"call", "select"} -> times * OwnCost(e, s) + parts
           [] e.kind = "list" /\ parts > 0 -> parts
           [] OTHER -> times]

NodeWorks(nodes, s) ==
  LET work[i \in 1..Len(nodes)] == NodeWork(nodes[i], OfParts(nodes[i], work), s)
  IN  work

Work(nodes, s) == NodeWorks(nodes, s)[Len(nodes)][1]

\* A schema whose lists, in whatever order, are taken to have no more items than
\* those of another, and that differs from it in nothing else.  A list without a
\* bound is taken to have DefaultMaxItems, "worst-case" though it is not
\* (analysis.rs:215, 260): to bound it above that is not to tighten it.
NoLooser(t, s) ==
  /\ t.maxItems = s.maxItems /\ t.maxLength = s.maxLength
  /\ DOMAIN t.properties = DOMAIN s.properties
  /\ \A i \in DOMAIN s.properties :
       /\ t.properties[i].isArray = s.properties[i].isArray
       /\ t.properties[i].maxLength = s.properties[i].maxLength
       /\ OrElse(t.properties[i].maxItems, DefaultMaxItems)
            <= OrElse(s.properties[i].maxItems, DefaultMaxItems)

Tightened(s, t) == \E before \in Reordered(s) : NoLooser(t, before)

\* Whatever list the HashMap yields first, an author who follows "consider
\* adding maxItems" (analysis.rs:115) and tightens the lists of a schema does not
\* get a higher estimate of any rule than the schema could get before.  In a
\* release build the earlier estimate may have wrapped to less than the work: of
\* such a rule nothing is said.
TighteningNeverCosts ==
  [][(schema' # schema /\ Tightened(schema, schema')) =>
       \E before \in Reordered(schema) : \A program \in rule :
         (overflowChecks \/ Work(program.nodes, before) <= Limit) =>
           \A n \in EstimateExprCost(program.nodes, before) :
             \A m \in EstimateExprCost(program.nodes, schema') : m <= n]_vars

\* The estimate is made in u64, which nested loops over large lists leave: a
\* build with overflow checks then answers nothing, a release build wraps
\* (list_size * body_cost, analysis.rs:177).  In either a rule within the budget
\* gets no warning, and a rule beyond it gets one, in a release build as long as
\* its work is a u64.
CostIsWarnedOf ==
  \A program \in rule, warnings \in answers["estimate_rule_cost"] :
    LET work   == Work(program.nodes, schema)
        warned == Warning("CostExceeded", "cost") \in warnings
    IN  /\ warned => work > Budget
        /\ (work > Budget /\ (overflowChecks \/ work <= Limit)) => warned

\* "Estimate cost of a CEL rule and warn if it may exceed K8s budget."
\* (analysis.rs:96): a rule whose work exceeds the budget, if it is answered at
\* all, is answered with a warning.
OverBudgetIsWarned ==
  \A program \in rule, warnings \in answers["estimate_rule_cost"] :
    Work(program.nodes, schema) > Budget => Warning("CostExceeded", "cost") \in warnings
=============================================================================
