--------------------------- MODULE Analysis_proofs ---------------------------
(***************************************************************************)
(* Theorems of Analysis: what the one pass answers, what the estimate says *)
(* of a rule's work, and what bounding a list does to it, for every rule,  *)
(* schema and budget.                                                      *)
(***************************************************************************)
EXTENDS Analysis, Foundations

---------------------------------------------------------------------------
\* Compiling again gives a schema of the same properties.
LEMMA ReorderedIsSchema ==
  ASSUME NEW s, IsSchema(s), NEW t \in Reordered(s)
  PROVE  IsSchema(t)
<1> DEFINE n == Len(s.properties)
           D == DOMAIN s.properties
<1>1. PICK f \in [D -> D] : t = [s EXCEPT !.properties = [i \in D |-> s.properties[f[i]]]]
  BY DEF Reordered, Bijection, Injection
<1>2. n \in Nat /\ D = 1..n
  BY DEF IsSchema
<1>3. t = [maxItems |-> s.maxItems, maxLength |-> s.maxLength,
           properties |-> [i \in D |-> s.properties[f[i]]]]
  BY <1>1 DEF IsSchema
<1>4. Range(t.properties) \subseteq Range(s.properties)
  BY <1>3 DEF Range
<1>5. t.properties \in Seq(Range(t.properties))
  BY <1>2, <1>3 DEF Range
<1> HIDE DEF D, n
<1> QED BY <1>3, <1>4, <1>5 DEF IsSchema

\* A list that gets a bound is still a list.
LEMMA BoundedIsSchema ==
  ASSUME NEW s, IsSchema(s), NEW i \in DOMAIN s.properties, NEW n \in 0..Limit
  PROVE  IsSchema([s EXCEPT !.properties[i].maxItems = {n}])
<1> DEFINE p == s.properties[i]
           q == [p EXCEPT !.maxItems = {n}]
           r == [s.properties EXCEPT ![i] = q]
           t == [s EXCEPT !.properties = r]
<1>1. p \in Range(s.properties)
  BY DEF Range
<1>2. p = [isArray |-> p.isArray, maxItems |-> p.maxItems, maxLength |-> p.maxLength]
      /\ p.isArray \in BOOLEAN /\ IsOption(p.maxLength, 0..Limit)
  BY <1>1 DEF IsSchema
<1>3. q = [isArray |-> p.isArray, maxItems |-> {n}, maxLength |-> p.maxLength]
  <2>1. \A x, y, z :
          [[isArray |-> x, maxItems |-> y, maxLength |-> z] EXCEPT !.maxItems = {n}]
            = [isArray |-> x, maxItems |-> {n}, maxLength |-> z]
    OBVIOUS
  <2>2. [[isArray |-> p.isArray, maxItems |-> p.maxItems, maxLength |-> p.maxLength]
            EXCEPT !.maxItems = {n}]
          = [isArray |-> p.isArray, maxItems |-> {n}, maxLength |-> p.maxLength]
    BY ONLY <2>1
  <2> HIDE DEF p
  <2> QED BY ONLY <1>2, <2>2, Zenon
<1>4. t = [maxItems |-> s.maxItems, maxLength |-> s.maxLength, properties |-> r]
  <2> HIDE DEF r
  <2> QED BY DEF IsSchema
<1>5. \A x \in Range(r) : x = q \/ x \in Range(s.properties)
  <2> HIDE DEF q
  <2> QED BY DEF Range
<1>6. r \in Seq(Range(r))
  <2>1. s.properties \in Seq(Range(s.properties))
    BY DEF IsSchema
  <2>2. PICK m \in Nat : DOMAIN s.properties = 1..m
    BY <2>1
  <2>3. DOMAIN r = 1..m /\ r = [x \in 1..m |-> r[x]]
    BY <2>2
  <2> HIDE DEF r
  <2>4. \A x \in 1..m : r[x] \in Range(r)
    BY <2>3 DEF Range
  <2> QED BY <2>3, <2>4
<1>7. IsOption(q.maxItems, 0..Limit)
  BY <1>3 DEF IsOption
<1>8. q = [isArray |-> q.isArray, maxItems |-> q.maxItems, maxLength |-> q.maxLength]
      /\ q.isArray \in BOOLEAN /\ IsOption(q.maxLength, 0..Limit)
  BY <1>2, <1>3
<1>9. IsSchema(t)
  <2>1. t = [maxItems |-> t.maxItems, maxLength |-> t.maxLength, properties |-> t.properties]
        /\ t.maxItems = s.maxItems /\ t.maxLength = s.maxLength /\ t.properties = r
    BY <1>4
  <2> HIDE DEF t, r, q
  <2> QED BY <2>1, <1>5, <1>6, <1>7, <1>8 DEF IsSchema
<1>10. t = [s EXCEPT !.properties[i].maxItems = {n}]
  OBVIOUS
<1> QED BY <1>9, <1>10

---------------------------------------------------------------------------
\* An answer given is an answer to the question that stands: none outlives the
\* schema it was about.
AInv ==
  /\ rule \in Rule
  /\ IsSchema(schema)
  /\ answers = [c \in Calls |-> answers[c]]
  /\ answers["check_rule_scope"] \subseteq CheckRuleScope
  /\ answers["estimate_rule_cost"] \subseteq EstimateRuleCost
  /\ answers["analyze_rule"] \subseteq AnalyzeRule

\* A new session has no answers.
LEMMA InitAnswered == Init => AInv
  BY SchemaAssumption DEF Init, AInv, Unasked, Calls

\* The answers are to rule, schema and scope, and the build's.
LEMMA SameAnswers ==
  ASSUME UNCHANGED <<overflowChecks, rule, schema, scope>>
  PROVE  /\ CheckRuleScope' = CheckRuleScope
         /\ EstimateRuleCost' = EstimateRuleCost
         /\ AnalyzeRule' = AnalyzeRule
<1>1. CheckRuleScope' = CheckRuleScope
  BY DEF CheckRuleScope
<1>2. EstimateRuleCost' = EstimateRuleCost
  BY DEF EstimateRuleCost, EstimateExprCost, NodeCosts, NodeCost, SumOf, SumsTo, Plus, Computed
<1>3. AnalyzeRule' = AnalyzeRule
  BY DEF AnalyzeRule, EstimateExprCost, NodeCosts, NodeCost, SumOf, SumsTo, Plus, Computed
<1> QED BY <1>1, <1>2, <1>3

\* A question is answered for the rule, schema and scope that stand; a new
\* schema takes all answers back.
LEMMA StepAnswered == AInv /\ [Next]_vars => AInv'
<1> SUFFICES ASSUME AInv, [Next]_vars
             PROVE  AInv'
  OBVIOUS
<1>1. ASSUME NEW c \in Calls, NEW answer, Ask(c, answer),
             c = "check_rule_scope" => answer = CheckRuleScope,
             c = "estimate_rule_cost" => answer = EstimateRuleCost,
             c = "analyze_rule" => answer = AnalyzeRule
      PROVE  AInv'
  <2>1. answers' = [answers EXCEPT ![c] = answer] /\ UNCHANGED <<overflowChecks, rule, schema, scope>>
    BY <1>1 DEF Ask
  <2>2. /\ CheckRuleScope' = CheckRuleScope
        /\ EstimateRuleCost' = EstimateRuleCost
        /\ AnalyzeRule' = AnalyzeRule
    BY <2>1, SameAnswers
  <2>3. answers' = [d \in Calls |-> IF d = c THEN answer ELSE answers[d]]
    BY <2>1 DEF AInv
  <2>4. c \in {"check_rule_scope", "estimate_rule_cost", "analyze_rule"}
    BY DEF Calls
  <2> QED BY <1>1, <2>1, <2>2, <2>3, <2>4 DEF AInv, Calls
<1>2. CASE AskScope
  BY <1>1, <1>2 DEF AskScope, Calls
<1>3. CASE AskCost
  BY <1>1, <1>3 DEF AskCost, Calls
<1>4. CASE AskAll
  BY <1>1, <1>4 DEF AskAll, Calls
<1>5. CASE AddMaxItems
  <2>1. PICK i \in DOMAIN schema.properties, n \in NewBound :
          schema' \in Reordered([schema EXCEPT !.properties[i].maxItems = {n}])
    BY <1>5 DEF AddMaxItems
  <2>2. IsSchema(schema')
    BY <2>1, BoundedIsSchema, ReorderedIsSchema, SchemaAssumption DEF AInv
  <2> QED BY <1>5, <2>2 DEF AddMaxItems, AInv, Unasked, Calls
<1>6. CASE UNCHANGED vars
  <2>1. UNCHANGED <<overflowChecks, rule, schema, scope, answers>>
    BY <1>6 DEF vars
  <2>2. /\ CheckRuleScope' = CheckRuleScope
        /\ EstimateRuleCost' = EstimateRuleCost
        /\ AnalyzeRule' = AnalyzeRule
    BY <2>1, SameAnswers
  <2> QED BY <2>1, <2>2 DEF AInv
<1> QED BY <1>2, <1>3, <1>4, <1>5, <1>6 DEF Next

\* In every session the answers given are answers to the question that stands.
THEOREM AnswersStand == Spec => []AInv
<1> QED BY InitAnswered, StepAnswered, PTL DEF Spec

\* For every rule and schema, whatever order the questions are asked in and
\* however often the schema is compiled again: what the one pass has answered is
\* what the two passes answer together (analyze_rule).
THEOREM OnePassIsEnough == Spec => []OnePassSuffices
<1>1. AInv => OnePassSuffices
  <2> SUFFICES ASSUME AInv, NEW s \in answers["check_rule_scope"],
                      NEW all \in answers["analyze_rule"]
               PROVE  \E c \in EstimateRuleCost : all = s \cup c
    BY DEF OnePassSuffices
  <2>1. s = UNION {ScopeWarnings(program, scope) : program \in rule}
        /\ all \in AnalyzeRule
    BY DEF AInv, CheckRuleScope
  <2>2. CASE rule = {}
    BY <2>1, <2>2 DEF AnalyzeRule, EstimateRuleCost
  <2>3. CASE rule # {}
    <3>1. PICK program \in rule :
            \E n \in EstimateExprCost(program.nodes, schema) :
              all = ScopeWarnings(program, scope) \cup CostWarnings(n)
                      \cup MissingBounds(program.nodes, schema)
      BY <2>1, <2>3 DEF AnalyzeRule
    <3>2. PICK n \in EstimateExprCost(program.nodes, schema) :
              all = ScopeWarnings(program, scope) \cup CostWarnings(n)
                      \cup MissingBounds(program.nodes, schema)
      BY <3>1
    <3>3. rule = {program}
      BY RuleAssumption DEF AInv
    <3>4. s = ScopeWarnings(program, scope)
      BY <2>1, <3>3
    <3> DEFINE c == CostWarnings(n) \cup MissingBounds(program.nodes, schema)
    <3>5. c \in EstimateRuleCost
      BY <2>3, <3>2 DEF EstimateRuleCost
    <3>6. all = s \cup c
      BY <3>2, <3>4
    <3> QED BY <3>5, <3>6
  <2> QED BY <2>2, <2>3
<1> QED BY <1>1, AnswersStand, PTL

---------------------------------------------------------------------------
\* There is a table of sums to any length.
LEMMA SumsExist ==
  ASSUME NEW start, NEW terms, NEW n \in Nat
  PROVE  \E at : at = [k \in 0..n |-> IF k = 0 THEN start ELSE Plus(at[k - 1], terms[k])]
<1> DEFINE Is(at, m) == at = [k \in 0..m |-> IF k = 0 THEN start
                                             ELSE Plus(at[k - 1], terms[k])]
           S == {m \in Nat : \E at : Is(at, m)}
<1>1. 0 \in S
  <2>1. Is([k \in 0..0 |-> start], 0)
    OBVIOUS
  <2>2. \E at : Is(at, 0)
    BY <2>1
  <2> QED BY <2>2
<1>2. ASSUME NEW m \in S
      PROVE  m + 1 \in S
  <2>1. PICK at : Is(at, m)
    OBVIOUS
  <2> DEFINE longer == [k \in 0..m + 1 |->
                          IF k = m + 1 THEN Plus(at[m], terms[m + 1]) ELSE at[k]]
  <2>2. ASSUME NEW k \in 0..m + 1
        PROVE  longer[k] = IF k = 0 THEN start ELSE Plus(longer[k - 1], terms[k])
    <3>1. CASE k = m + 1
      BY <3>1
    <3>2. CASE k \in 0..m
      <4>1. at[k] = IF k = 0 THEN start ELSE Plus(at[k - 1], terms[k])
        BY <3>2, <2>1
      <4>2. longer[k] = at[k] /\ (k # 0 => longer[k - 1] = at[k - 1])
        BY <3>2
      <4> QED BY <4>1, <4>2, Zenon
    <3> QED BY <3>1, <3>2
  <2>3. Is(longer, m + 1)
    BY <2>2
  <2>4. \E g : Is(g, m + 1)
    BY <2>3
  <2> QED BY <2>4
<1>3. n \in S
  <2> HIDE DEF S
  <2> QED BY <1>1, <1>2, Induct
<1> QED BY <1>3

\* The sums, one term at a time.
LEMMA SumsStep ==
  ASSUME NEW base, NEW terms, Len(terms) \in Nat
  PROVE  /\ SumsTo(base, terms)[0] = {base}
         /\ \A k \in 1..Len(terms) :
              SumsTo(base, terms)[k] = Plus(SumsTo(base, terms)[k - 1], terms[k])
<1> DEFINE n == Len(terms)
           start == {base}
           Is(at) == at = [k \in 0..n |-> IF k = 0 THEN start ELSE Plus(at[k - 1], terms[k])]
           upTo == SumsTo(base, terms)
<1>1. upTo = CHOOSE at : Is(at)
  BY DEF SumsTo
<1>2. Is(upTo)
  <2>1. n \in Nat
    OBVIOUS
  <2> HIDE DEF start, n
  <2>2. \E at : Is(at)
    BY <2>1, SumsExist
  <2> QED BY <1>1, <2>2, Zenon
<1> HIDE DEF upTo
<1>3. \A k \in 0..n : upTo[k] = IF k = 0 THEN {base} ELSE Plus(upTo[k - 1], terms[k])
  BY <1>2
<1> HIDE DEF n
<1>4. upTo[0] = {base} /\ \A k \in 1..n : upTo[k] = Plus(upTo[k - 1], terms[k])
  <2>1. n \in Nat
    BY DEF n
  <2> QED BY <1>3, <2>1
<1> QED BY <1>4 DEF upTo, n

\* There is a table of totals to any length.
LEMMA TotalsExist ==
  ASSUME NEW terms, NEW n \in Nat
  PROVE  \E at : at = [k \in 0..n |-> IF k = 0 THEN 0 ELSE at[k - 1] + terms[k]]
<1> DEFINE Is(at, m) == at = [k \in 0..m |-> IF k = 0 THEN 0 ELSE at[k - 1] + terms[k]]
           S == {m \in Nat : \E at : Is(at, m)}
<1>1. 0 \in S
  <2>1. Is([k \in 0..0 |-> 0], 0)
    OBVIOUS
  <2>2. \E at : Is(at, 0)
    BY <2>1
  <2> QED BY <2>2
<1>2. ASSUME NEW m \in S
      PROVE  m + 1 \in S
  <2>1. PICK at : Is(at, m)
    OBVIOUS
  <2> DEFINE longer == [k \in 0..m + 1 |->
                          IF k = m + 1 THEN at[m] + terms[m + 1] ELSE at[k]]
  <2>2. ASSUME NEW k \in 0..m + 1
        PROVE  longer[k] = IF k = 0 THEN 0 ELSE longer[k - 1] + terms[k]
    <3>1. CASE k = m + 1
      BY <3>1
    <3>2. CASE k \in 0..m
      <4>1. at[k] = IF k = 0 THEN 0 ELSE at[k - 1] + terms[k]
        BY <3>2, <2>1
      <4>2. longer[k] = at[k] /\ (k # 0 => longer[k - 1] = at[k - 1])
        BY <3>2
      <4> QED BY <4>1, <4>2, Zenon
    <3> QED BY <3>1, <3>2
  <2>3. Is(longer, m + 1)
    BY <2>2
  <2>4. \E g : Is(g, m + 1)
    BY <2>3
  <2> QED BY <2>4
<1>3. n \in S
  <2> HIDE DEF S
  <2> QED BY <1>1, <1>2, Induct
<1> QED BY <1>3

\* The totals, one term at a time.
LEMMA TotalsStep ==
  ASSUME NEW terms, Len(terms) \in Nat
  PROVE  /\ TotalsTo(terms)[0] = 0
         /\ \A k \in 1..Len(terms) : TotalsTo(terms)[k] = TotalsTo(terms)[k - 1] + terms[k]
<1> DEFINE n == Len(terms)
           Is(at) == at = [k \in 0..n |-> IF k = 0 THEN 0 ELSE at[k - 1] + terms[k]]
           upTo == TotalsTo(terms)
<1>1. upTo = CHOOSE at : Is(at)
  BY DEF TotalsTo
<1>2. Is(upTo)
  <2>1. n \in Nat
    OBVIOUS
  <2>2. \E at : Is(at)
    BY <2>1, TotalsExist, Zenon
  <2> QED BY <1>1, <2>2, Zenon
<1> HIDE DEF upTo
<1>3. \A k \in 0..n : upTo[k] = IF k = 0 THEN 0 ELSE upTo[k - 1] + terms[k]
  BY <1>2
<1> HIDE DEF n
<1>4. upTo[0] = 0 /\ \A k \in 1..n : upTo[k] = upTo[k - 1] + terms[k]
  <2>1. n \in Nat
    BY DEF n
  <2> QED BY <1>3, <2>1
<1> QED BY <1>4 DEF upTo, n

---------------------------------------------------------------------------
\* A product grows with its second factor.
LEMMA ProductGrows ==
  ASSUME NEW x \in Nat, NEW y \in Nat, NEW z \in Nat, y <= z
  PROVE  x * y \in Nat /\ x * z \in Nat /\ x * y <= x * z /\ y * x <= z * x
<1>1. z - y \in Nat /\ z = y + (z - y)
  OBVIOUS
<1>2. \A d \in Nat : x * (y + d) = x * y + x * d /\ x * d \in Nat /\ x * y \in Nat
  OBVIOUS
<1>3. x * z = x * y + x * (z - y) /\ x * (z - y) \in Nat /\ x * y \in Nat
  BY <1>1, <1>2
<1>4. x * y = y * x /\ x * z = z * x
  OBVIOUS
<1> QED BY <1>3, <1>4

---------------------------------------------------------------------------
\* What a node sees of a table are the rows of its parts.
LEMMA OfPartsAgree ==
  ASSUME NEW e, NEW j \in Int, e.parts \in Seq(1..j), NEW f, NEW g, \A x \in 1..j : f[x] = g[x]
  PROVE  OfParts(e, f) = OfParts(e, g)
<1>1. \A k \in 1..Len(e.parts) : e.parts[k] \in 1..j
  <2> DEFINE p == e.parts
             D == 1..j
  <2>1. p \in Seq(D)
    OBVIOUS
  <2> HIDE DEF p, D
  <2>2. \A k \in 1..Len(p) : p[k] \in D
    BY <2>1
  <2> QED BY <2>2 DEF p, D
<1>2. \A k \in 1..Len(e.parts) : f[e.parts[k]] = g[e.parts[k]]
  BY <1>1
<1> QED BY <1>2 DEF OfParts

\* There is a table of costs of  nodes, each row from those of the parts.
LEMMA CostsExist ==
  ASSUME NEW nodes, IsExpression(nodes), NEW s
  PROVE  \E at : at = [i \in 1..Len(nodes) |-> NodeCost(nodes[i], OfParts(nodes[i], at), s)]
<1> DEFINE Is(at, m) == at = [i \in 1..m |-> NodeCost(nodes[i], OfParts(nodes[i], at), s)]
           n == Len(nodes)
           S == {m \in Nat : m <= n => \E at : Is(at, m)}
<1>1. 0 \in S
  <2>1. Is([i \in 1..0 |-> {}], 0)
    OBVIOUS
  <2>2. \E at : Is(at, 0)
    BY <2>1
  <2> QED BY <2>2
<1>2. ASSUME NEW m \in S
      PROVE  m + 1 \in S
  <2> SUFFICES ASSUME m + 1 <= n
               PROVE  \E at : Is(at, m + 1)
    OBVIOUS
  <2>1. PICK at : Is(at, m)
    OBVIOUS
  <2> DEFINE longer == [i \in 1..m + 1 |->
                          IF i = m + 1 THEN NodeCost(nodes[i], OfParts(nodes[i], at), s)
                          ELSE at[i]]
  <2>2. ASSUME NEW i \in 1..m + 1
        PROVE  longer[i] = NodeCost(nodes[i], OfParts(nodes[i], longer), s)
    <3>1. nodes[i].parts \in Seq(1..i - 1)
      BY DEF IsExpression
    <3>2. \A j \in 1..i - 1 : longer[j] = at[j]
      OBVIOUS
    <3>3. OfParts(nodes[i], longer) = OfParts(nodes[i], at)
      <4>1. i - 1 \in Int
        OBVIOUS
      <4> HIDE DEF longer
      <4> QED BY <3>1, <3>2, <4>1, OfPartsAgree
    <3>4. longer[i] = NodeCost(nodes[i], OfParts(nodes[i], at), s)
      <4>1. CASE i = m + 1
        BY <4>1
      <4>2. CASE i \in 1..m
        <5>1. at[i] = NodeCost(nodes[i], OfParts(nodes[i], at), s)
          BY <2>1, <4>2
        <5>2. longer[i] = at[i]
          BY <4>2
        <5> QED BY <5>1, <5>2, Zenon
      <4> QED BY <4>1, <4>2
    <3> QED BY <3>3, <3>4, Zenon
  <2>3. Is(longer, m + 1)
    BY <2>2
  <2> QED BY <2>3
<1>3. n \in S
  <2>1. n \in Nat
    BY DEF IsExpression
  <2> HIDE DEF S
  <2> QED BY <1>1, <1>2, <2>1, Induct
<1> QED BY <1>3

\* The costs of  nodes, each from those of its parts.
LEMMA CostsStep ==
  ASSUME NEW nodes, IsExpression(nodes), NEW s
  PROVE  \A i \in 1..Len(nodes) :
           NodeCosts(nodes, s)[i] = NodeCost(nodes[i], OfParts(nodes[i], NodeCosts(nodes, s)), s)
<1> DEFINE n == Len(nodes)
           Is(at) == at = [i \in 1..n |-> NodeCost(nodes[i], OfParts(nodes[i], at), s)]
           table == NodeCosts(nodes, s)
<1>1. table = CHOOSE at : Is(at)
  BY DEF NodeCosts
<1>2. Is(table)
  <2>1. \E at : Is(at)
    BY CostsExist
  <2> QED BY <1>1, <2>1, Zenon
<1> HIDE DEF table
<1>3. \A i \in 1..n : table[i] = NodeCost(nodes[i], OfParts(nodes[i], table), s)
  BY <1>2
<1> QED BY <1>3 DEF table

\* There is a table of work in  nodes, each row from those of the parts.
LEMMA WorksExist ==
  ASSUME NEW nodes, IsExpression(nodes), NEW s
  PROVE  \E at : at = [i \in 1..Len(nodes) |-> NodeWork(nodes[i], OfParts(nodes[i], at), s)]
<1> DEFINE Is(at, m) == at = [i \in 1..m |-> NodeWork(nodes[i], OfParts(nodes[i], at), s)]
           n == Len(nodes)
           S == {m \in Nat : m <= n => \E at : Is(at, m)}
<1>1. 0 \in S
  <2>1. Is([i \in 1..0 |-> {}], 0)
    OBVIOUS
  <2>2. \E at : Is(at, 0)
    BY <2>1
  <2> QED BY <2>2
<1>2. ASSUME NEW m \in S
      PROVE  m + 1 \in S
  <2> SUFFICES ASSUME m + 1 <= n
               PROVE  \E at : Is(at, m + 1)
    OBVIOUS
  <2>1. PICK at : Is(at, m)
    OBVIOUS
  <2> DEFINE longer == [i \in 1..m + 1 |->
                          IF i = m + 1 THEN NodeWork(nodes[i], OfParts(nodes[i], at), s)
                          ELSE at[i]]
  <2>2. ASSUME NEW i \in 1..m + 1
        PROVE  longer[i] = NodeWork(nodes[i], OfParts(nodes[i], longer), s)
    <3>1. nodes[i].parts \in Seq(1..i - 1)
      BY DEF IsExpression
    <3>2. \A j \in 1..i - 1 : longer[j] = at[j]
      OBVIOUS
    <3>3. OfParts(nodes[i], longer) = OfParts(nodes[i], at)
      <4>1. i - 1 \in Int
        OBVIOUS
      <4> HIDE DEF longer
      <4> QED BY <3>1, <3>2, <4>1, OfPartsAgree
    <3>4. longer[i] = NodeWork(nodes[i], OfParts(nodes[i], at), s)
      <4>1. CASE i = m + 1
        BY <4>1
      <4>2. CASE i \in 1..m
        <5>1. at[i] = NodeWork(nodes[i], OfParts(nodes[i], at), s)
          BY <2>1, <4>2
        <5>2. longer[i] = at[i]
          BY <4>2
        <5> QED BY <5>1, <5>2, Zenon
      <4> QED BY <4>1, <4>2
    <3> QED BY <3>3, <3>4, Zenon
  <2>3. Is(longer, m + 1)
    BY <2>2
  <2> QED BY <2>3
<1>3. n \in S
  <2>1. n \in Nat
    BY DEF IsExpression
  <2> HIDE DEF S
  <2> QED BY <1>1, <1>2, <2>1, Induct
<1> QED BY <1>3

\* The work in  nodes, each from those of its parts.
LEMMA WorksStep ==
  ASSUME NEW nodes, IsExpression(nodes), NEW s
  PROVE  \A i \in 1..Len(nodes) :
           NodeWorks(nodes, s)[i] = NodeWork(nodes[i], OfParts(nodes[i], NodeWorks(nodes, s)), s)
<1> DEFINE n == Len(nodes)
           Is(at) == at = [i \in 1..n |-> NodeWork(nodes[i], OfParts(nodes[i], at), s)]
           table == NodeWorks(nodes, s)
<1>1. table = CHOOSE at : Is(at)
  BY DEF NodeWorks
<1>2. Is(table)
  <2>1. \E at : Is(at)
    BY WorksExist
  <2> QED BY <1>1, <2>1, Zenon
<1> HIDE DEF table
<1>3. \A i \in 1..n : table[i] = NodeWork(nodes[i], OfParts(nodes[i], table), s)
  BY <1>2
<1> QED BY <1>3 DEF table

---------------------------------------------------------------------------
\* What an Option has or else its default is a number if both are.
LEMMA OrElseIn ==
  ASSUME NEW T, NEW S, IsOption(S, T), NEW d \in T
  PROVE  OrElse(S, d) \in T
  BY DEF IsOption, OrElse

\* At most one index is the first.
LEMMA OneFirst ==
  ASSUME NEW I \in SUBSET Int
  PROVE  First(I) = {} \/ \E i \in I : First(I) = {i}
<1> SUFFICES ASSUME NEW i \in First(I)
             PROVE  \E j \in I : First(I) = {j}
  OBVIOUS
<1>1. i \in I
  BY DEF First
<1>2. \A j \in First(I) : j = i
  BY DEF First
<1> QED BY <1>1, <1>2

\* The indices of the lists of a schema, and of what has a length bound.
Lists(s)  == {j \in DOMAIN s.properties : s.properties[j].isArray}
Lengths(s) == {j \in DOMAIN s.properties : s.properties[j].maxLength # {}}

\* The number of items taken for a list: the schema's own bound, that of its
\* first list, or the default.
LEMMA ItemsFound ==
  ASSUME NEW s, IsSchema(s), s.maxItems = {}
  PROVE  \/ First(Lists(s)) = {} /\ FindMaxItems(s) = DefaultMaxItems
         \/ \E i \in Lists(s) :
              /\ First(Lists(s)) = {i}
              /\ FindMaxItems(s) = OrElse(s.properties[i].maxItems, DefaultMaxItems)
<1> DEFINE P == {s.properties[i] : i \in First(Lists(s))}
           U == UNION {p.maxItems : p \in P}
<1>1. FindMaxItems(s) = OrElse(U, DefaultMaxItems)
  BY DEF FindMaxItems, FirstProperty, Lists
<1>2. Lists(s) \in SUBSET Int
  <2>1. s.properties \in Seq(Range(s.properties))
    BY DEF IsSchema
  <2>2. PICK m \in Nat : DOMAIN s.properties = 1..m
    BY <2>1
  <2> QED BY <2>2 DEF Lists
<1>3. CASE First(Lists(s)) = {}
  <2>1. U = {}
    BY <1>3
  <2> QED BY <1>1, <1>3, <2>1 DEF OrElse
<1>4. ASSUME NEW i \in Lists(s), First(Lists(s)) = {i}
      PROVE  FindMaxItems(s) = OrElse(s.properties[i].maxItems, DefaultMaxItems)
  <2>1. P = {s.properties[i]}
    BY <1>4
  <2> HIDE DEF P
  <2>2. U = s.properties[i].maxItems
    BY <2>1
  <2> QED BY <1>1, <2>2
<1> QED BY <1>2, <1>3, <1>4, OneFirst

\* The length taken for a string: the schema's own bound, that of its first
\* property with one, or the default.
LEMMA LengthFound ==
  ASSUME NEW s, IsSchema(s), s.maxLength = {}
  PROVE  \/ First(Lengths(s)) = {} /\ FindMaxLength(s) = DefaultMaxLength
         \/ \E i \in Lengths(s) :
              /\ First(Lengths(s)) = {i}
              /\ FindMaxLength(s) = OrElse(s.properties[i].maxLength, DefaultMaxLength)
<1> DEFINE P == {s.properties[i] : i \in First(Lengths(s))}
           U == UNION {p.maxLength : p \in P}
<1>1. FindMaxLength(s) = OrElse(U, DefaultMaxLength)
  BY DEF FindMaxLength, FirstProperty, Lengths
<1>2. Lengths(s) \in SUBSET Int
  <2>1. s.properties \in Seq(Range(s.properties))
    BY DEF IsSchema
  <2>2. PICK m \in Nat : DOMAIN s.properties = 1..m
    BY <2>1
  <2> QED BY <2>2 DEF Lengths
<1>3. CASE First(Lengths(s)) = {}
  <2>1. U = {}
    BY <1>3
  <2> QED BY <1>1, <1>3, <2>1 DEF OrElse
<1>4. ASSUME NEW i \in Lengths(s), First(Lengths(s)) = {i}
      PROVE  FindMaxLength(s) = OrElse(s.properties[i].maxLength, DefaultMaxLength)
  <2>1. P = {s.properties[i]}
    BY <1>4
  <2> HIDE DEF P
  <2>2. U = s.properties[i].maxLength
    BY <2>1
  <2> QED BY <1>1, <2>2
<1> QED BY <1>2, <1>3, <1>4, OneFirst

\* Both are numbers.
LEMMA FoundInRange ==
  ASSUME NEW s, IsSchema(s)
  PROVE  FindMaxItems(s) \in 0..Limit /\ FindMaxLength(s) \in 0..Limit
<1>1. \A i \in DOMAIN s.properties :
        /\ IsOption(s.properties[i].maxItems, 0..Limit)
        /\ IsOption(s.properties[i].maxLength, 0..Limit)
  BY DEF IsSchema, Range
<1>2. FindMaxItems(s) \in 0..Limit
  <2>1. CASE s.maxItems = {}
    <3> DEFINE T == 0..Limit
    <3>1. DefaultMaxItems \in T /\ \A i \in DOMAIN s.properties : IsOption(s.properties[i].maxItems, T)
      BY <1>1, BudgetAssumption
    <3> HIDE DEF T
    <3>2. \A i \in DOMAIN s.properties : OrElse(s.properties[i].maxItems, DefaultMaxItems) \in T
      BY <3>1, OrElseIn
    <3>3. FindMaxItems(s) \in T
      BY <2>1, <3>1, <3>2, ItemsFound DEF Lists
    <3> QED BY <3>3 DEF T
  <2>2. CASE s.maxItems # {}
    <3>1. FindMaxItems(s) = OrElse(s.maxItems, 0)
      BY <2>2 DEF FindMaxItems
    <3>2. IsOption(s.maxItems, 0..Limit) /\ 0 \in 0..Limit
      BY BudgetAssumption DEF IsSchema
    <3> DEFINE T == 0..Limit
    <3>3. OrElse(s.maxItems, 0) \in T
      <4>1. IsOption(s.maxItems, T) /\ 0 \in T
        BY <3>2
      <4> HIDE DEF T
      <4> QED BY <4>1, OrElseIn
    <3> QED BY <3>1, <3>3
  <2> QED BY <2>1, <2>2
<1>3. FindMaxLength(s) \in 0..Limit
  <2>1. CASE s.maxLength = {}
    <3> DEFINE T == 0..Limit
    <3>1. DefaultMaxLength \in T /\ \A i \in DOMAIN s.properties : IsOption(s.properties[i].maxLength, T)
      BY <1>1, BudgetAssumption
    <3> HIDE DEF T
    <3>2. \A i \in DOMAIN s.properties : OrElse(s.properties[i].maxLength, DefaultMaxLength) \in T
      BY <3>1, OrElseIn
    <3>3. FindMaxLength(s) \in T
      BY <2>1, <3>1, <3>2, LengthFound DEF Lengths
    <3> QED BY <3>3 DEF T
  <2>2. CASE s.maxLength # {}
    <3>1. FindMaxLength(s) = OrElse(s.maxLength, 0)
      BY <2>2 DEF FindMaxLength
    <3>2. IsOption(s.maxLength, 0..Limit) /\ 0 \in 0..Limit
      BY BudgetAssumption DEF IsSchema
    <3> DEFINE T == 0..Limit
    <3>3. OrElse(s.maxLength, 0) \in T
      <4>1. IsOption(s.maxLength, T) /\ 0 \in T
        BY <3>2
      <4> HIDE DEF T
      <4> QED BY <4>1, OrElseIn
    <3> QED BY <3>1, <3>3
  <2> QED BY <2>1, <2>2
<1> QED BY <1>2, <1>3

\* A schema that is no looser has no more items, and the same length.
LEMMA NoLooserFound ==
  ASSUME NEW s, NEW t, IsSchema(s), IsSchema(t), NoLooser(t, s)
  PROVE  FindMaxItems(t) <= FindMaxItems(s) /\ FindMaxLength(t) = FindMaxLength(s)
<1>1. Lists(t) = Lists(s) /\ Lengths(t) = Lengths(s)
  BY DEF Lists, Lengths, NoLooser
<1>2. FindMaxItems(t) <= FindMaxItems(s)
  <2>1. CASE s.maxItems = {}
    <3>1. t.maxItems = {}
      BY <2>1 DEF NoLooser
    <3>2. CASE First(Lists(s)) = {}
      <4>1. FindMaxItems(s) = DefaultMaxItems
        BY <2>1, <3>2, ItemsFound
      <4>2. FindMaxItems(t) = DefaultMaxItems
        BY <1>1, <3>1, <3>2, ItemsFound
      <4> QED BY <4>1, <4>2, FoundInRange, BudgetAssumption
    <3>3. ASSUME NEW i \in Lists(s), First(Lists(s)) = {i}
          PROVE  FindMaxItems(t) <= FindMaxItems(s)
      <4>1. FindMaxItems(s) = OrElse(s.properties[i].maxItems, DefaultMaxItems)
        BY <2>1, <3>3, ItemsFound
      <4>2. FindMaxItems(t) = OrElse(t.properties[i].maxItems, DefaultMaxItems)
        BY <1>1, <3>1, <3>3, ItemsFound
      <4> QED BY <4>1, <4>2 DEF NoLooser, Lists
    <3> QED BY <2>1, <3>2, <3>3, ItemsFound
  <2>2. CASE s.maxItems # {}
    <3>1. FindMaxItems(t) = FindMaxItems(s)
      BY <2>2 DEF FindMaxItems, NoLooser
    <3>2. FindMaxItems(s) \in 0..Limit
      BY FoundInRange
    <3> QED BY <3>1, <3>2, BudgetAssumption
  <2> QED BY <2>1, <2>2
<1>3. FindMaxLength(t) = FindMaxLength(s)
  <2>1. CASE s.maxLength = {}
    <3>1. t.maxLength = {}
      BY <2>1 DEF NoLooser
    <3>2. CASE First(Lengths(s)) = {}
      BY <1>1, <2>1, <3>1, <3>2, LengthFound
    <3>3. ASSUME NEW i \in Lengths(s), First(Lengths(s)) = {i}
          PROVE  FindMaxLength(t) = FindMaxLength(s)
      <4>1. FindMaxLength(s) = OrElse(s.properties[i].maxLength, DefaultMaxLength)
        BY <2>1, <3>3, LengthFound
      <4>2. FindMaxLength(t) = OrElse(t.properties[i].maxLength, DefaultMaxLength)
        BY <1>1, <3>1, <3>3, LengthFound
      <4> QED BY <4>1, <4>2 DEF NoLooser, Lengths
    <3> QED BY <2>1, <3>2, <3>3, LengthFound
  <2>2. CASE s.maxLength # {}
    BY <2>2 DEF FindMaxLength, NoLooser
  <2> QED BY <2>1, <2>2
<1> QED BY <1>2, <1>3

---------------------------------------------------------------------------
\* The cost of a node by its kind.
LEMMA NodeCostByKind ==
  ASSUME NEW e, NEW costs, NEW s
  PROVE  /\ e.kind = "comprehension" =>
              NodeCost(e, costs, s) =
                UNION {Computed(FindMaxItems(s) * AtLeastOne(n)) : n \in costs[2]}
         /\ e.kind \in {"call", "select"} => NodeCost(e, costs, s) = SumOf(OwnCost(e, s), costs)
         /\ e.kind = "list" => NodeCost(e, costs, s) = {AtLeastOne(n) : n \in SumOf(0, costs)}
         /\ e.kind \notin {"comprehension", "call", "select", "list"} =>
              NodeCost(e, costs, s) = {1}
<1>1. ASSUME e.kind = "comprehension"
      PROVE  NodeCost(e, costs, s) =
               UNION {Computed(FindMaxItems(s) * AtLeastOne(n)) : n \in costs[2]}
  BY <1>1 DEF NodeCost
<1>2. ASSUME e.kind \in {"call", "select"}
      PROVE  NodeCost(e, costs, s) = SumOf(OwnCost(e, s), costs)
  BY <1>2 DEF NodeCost
<1>3. ASSUME e.kind = "list"
      PROVE  NodeCost(e, costs, s) = {AtLeastOne(n) : n \in SumOf(0, costs)}
  BY <1>3 DEF NodeCost
<1>4. ASSUME e.kind \notin {"comprehension", "call", "select", "list"}
      PROVE  NodeCost(e, costs, s) = {1}
  BY <1>4 DEF NodeCost
<1> QED BY <1>1, <1>2, <1>3, <1>4

\* A tenth of a string's length is a number.
LEMMA OwnInNat ==
  ASSUME NEW e, NEW s, IsSchema(s)
  PROVE  OwnCost(e, s) \in Nat \ {0}
<1>1. FindMaxLength(s) \in Nat
  BY FoundInRange, BudgetAssumption
<1>2. FindMaxLength(s) \div 10 \in Nat
  BY <1>1
<1> QED BY <1>2 DEF OwnCost

\* What a node sees of a table.
LEMMA PartsSeen ==
  ASSUME NEW e, NEW table, Len(e.parts) \in Nat
  PROVE  Len(OfParts(e, table)) = Len(e.parts)
         /\ \A k \in 1..Len(e.parts) : OfParts(e, table)[k] = table[e.parts[k]]
  BY DEF OfParts

\* What holds of a node if it holds of the nodes before it holds of all.
LEMMA InductNodes ==
  ASSUME NEW n \in Nat, NEW H \in SUBSET Nat,
         \A i \in 1..n : (\A j \in 1..i - 1 : j \in H) => i \in H
  PROVE  \A i \in 1..n : i \in H
<1> DEFINE S == {m \in Nat : m <= n => \A j \in 1..m : j \in H}
<1>1. 0 \in S
  OBVIOUS
<1>2. ASSUME NEW m \in S
      PROVE  m + 1 \in S
  <2> SUFFICES ASSUME m + 1 <= n, NEW j \in 1..m + 1
               PROVE  j \in H
    OBVIOUS
  <2>1. \A i \in 1..m : i \in H
    OBVIOUS
  <2>2. \A i \in 1..(m + 1) - 1 : i \in H
    BY <2>1
  <2>3. m + 1 \in H
    BY <2>2
  <2> QED BY <2>1, <2>3
<1>3. n \in S
  <2> HIDE DEF S
  <2> QED BY <1>1, <1>2, Induct
<1> QED BY <1>3

---------------------------------------------------------------------------
\* The work in the parts, done so many times.
Done(works, times) == [k \in 1..Len(works) |-> works[k][times]]

\* The work in a node, kind by kind.
LEMMA NodeWorkByKind ==
  ASSUME NEW e, NEW works, NEW s, NEW times \in Nat
  PROVE  /\ e.kind = "comprehension" =>
              NodeWork(e, works, s)[times] = works[2][times * FindMaxItems(s)]
         /\ e.kind \in {"call", "select"} =>
              NodeWork(e, works, s)[times] = times * OwnCost(e, s) + Total(Done(works, times))
         /\ e.kind = "list" =>
              NodeWork(e, works, s)[times] = LET parts == Total(Done(works, times))
                IN  IF parts > 0 THEN parts ELSE times
         /\ e.kind \notin {"comprehension", "call", "select", "list"} =>
              NodeWork(e, works, s)[times] = times
<1> DEFINE work == NodeWork(e, works, s)[times]
           parts == Total(Done(works, times))
<1>1. work =
        CASE e.kind = "comprehension" -> works[2][times * FindMaxItems(s)]
          [] e.kind \in {"call", "select"} -> times * OwnCost(e, s) + parts
          [] e.kind = "list" /\ parts > 0 -> parts
          [] OTHER -> times
  BY DEF NodeWork, Done
<1> HIDE DEF work, parts
<1>2. e.kind = "comprehension" => work = works[2][times * FindMaxItems(s)]
  BY <1>1
<1>3. e.kind \in {"call", "select"} => work = times * OwnCost(e, s) + parts
  BY <1>1
<1>4. e.kind = "list" => work = IF parts > 0 THEN parts ELSE times
  BY <1>1
<1>5. e.kind \notin {"comprehension", "call", "select", "list"} => work = times
  BY <1>1
<1> QED BY <1>2, <1>3, <1>4, <1>5 DEF work, parts

---------------------------------------------------------------------------
\* Terms so many times as large have a total so many times as large.
LEMMA TotalsScale ==
  ASSUME NEW a, NEW b, NEW times \in Nat, Len(a) \in Nat, Len(b) = Len(a),
         \A k \in 1..Len(a) : a[k] \in Nat /\ b[k] = times * a[k]
  PROVE  Total(a) \in Nat /\ Total(b) = times * Total(a)
<1> DEFINE n == Len(a)
           A == TotalsTo(a)
           B == TotalsTo(b)
           S == {k \in Nat : k <= n => A[k] \in Nat /\ B[k] = times * A[k]}
<1>1. 0 \in S
  <2>1. A[0] = 0 /\ B[0] = 0
    BY TotalsStep
  <2> QED BY <2>1
<1>2. ASSUME NEW k \in Nat, k \in S
      PROVE  k + 1 \in S
  <2> SUFFICES ASSUME k + 1 <= n
               PROVE  A[k + 1] \in Nat /\ B[k + 1] = times * A[k + 1]
    OBVIOUS
  <2>1. k + 1 \in 1..n /\ k <= n /\ (k + 1) - 1 = k
    OBVIOUS
  <2>2. A[(k + 1)] = A[(k + 1) - 1] + a[k + 1] /\ B[(k + 1)] = B[(k + 1) - 1] + b[k + 1]
    BY <2>1, TotalsStep
  <2>3. A[k] \in Nat /\ B[k] = times * A[k]
    BY <1>2, <2>1
  <2>4. a[k + 1] \in Nat /\ b[k + 1] = times * a[k + 1]
    BY <2>1
  <2>5. \A x \in Nat, y \in Nat : times * (x + y) = times * x + times * y
    OBVIOUS
  <2> HIDE DEF A, B, S
  <2> QED BY <2>1, <2>2, <2>3, <2>4, <2>5
<1>3. n \in S
  <2> HIDE DEF S
  <2> QED BY <1>1, <1>2, Induct
<1> QED BY <1>3 DEF Total

\* Larger terms have a larger total.
LEMMA TotalsGrow ==
  ASSUME NEW a, NEW b, Len(a) \in Nat, Len(b) = Len(a),
         \A k \in 1..Len(a) : a[k] \in Nat /\ b[k] \in Nat /\ a[k] <= b[k]
  PROVE  Total(a) \in Nat /\ Total(b) \in Nat /\ Total(a) <= Total(b)
<1> DEFINE n == Len(a)
           A == TotalsTo(a)
           B == TotalsTo(b)
           S == {k \in Nat : k <= n => A[k] \in Nat /\ B[k] \in Nat /\ A[k] <= B[k]}
<1>1. 0 \in S
  <2>1. A[0] = 0 /\ B[0] = 0
    BY TotalsStep
  <2> QED BY <2>1
<1>2. ASSUME NEW k \in Nat, k \in S
      PROVE  k + 1 \in S
  <2> SUFFICES ASSUME k + 1 <= n
               PROVE  A[k + 1] \in Nat /\ B[k + 1] \in Nat /\ A[k + 1] <= B[k + 1]
    OBVIOUS
  <2>1. k + 1 \in 1..n /\ k <= n /\ (k + 1) - 1 = k
    OBVIOUS
  <2>2. A[(k + 1)] = A[(k + 1) - 1] + a[k + 1] /\ B[(k + 1)] = B[(k + 1) - 1] + b[k + 1]
    BY <2>1, TotalsStep
  <2>3. A[k] \in Nat /\ B[k] \in Nat /\ A[k] <= B[k]
    BY <1>2, <2>1
  <2>4. a[k + 1] \in Nat /\ b[k + 1] \in Nat /\ a[k + 1] <= b[k + 1]
    BY <2>1
  <2> HIDE DEF A, B, S
  <2> QED BY <2>1, <2>2, <2>3, <2>4
<1>3. n \in S
  <2> HIDE DEF S
  <2> QED BY <1>1, <1>2, Induct
<1> QED BY <1>3 DEF Total

---------------------------------------------------------------------------
\* What a number computed for another is: no larger, and the same in a build
\* with overflow checks or within the width.
Prices(c, work) ==
  /\ c \in Nat /\ c <= work
  /\ (overflowChecks \/ work <= Limit) => c = work

\* What u64 arithmetic makes of a number.
LEMMA ComputedPrices ==
  ASSUME NEW n \in Nat, NEW c \in Computed(n)
  PROVE  Prices(c, n)
<1>1. CASE n <= Limit
  BY <1>1 DEF Computed, Prices
<1>2. CASE ~(n <= Limit)
  <2>1. ~overflowChecks /\ c = n % (Limit + 1)
    BY <1>2 DEF Computed, ComputedWrapping
  <2>2. c \in 0..Limit
    BY <2>1, BudgetAssumption
  <2>3. Limit \in Nat
    BY BudgetAssumption
  <2> QED BY <1>2, <2>1, <2>2, <2>3 DEF Prices
<1> QED BY <1>1, <1>2

\* And of a sum of two that it has made of others.
LEMMA PlusPrices ==
  ASSUME NEW v \in Nat, NEW w \in Nat, NEW X, NEW Y,
         \A x \in X : Prices(x, v), \A y \in Y : Prices(y, w), NEW z \in Plus(X, Y)
  PROVE  Prices(z, v + w)
<1>1. PICK x \in X, y \in Y : z \in Computed(x + y)
  BY DEF Plus
<1>2. Prices(x, v) /\ Prices(y, w)
  OBVIOUS
<1>3. x + y \in Nat
  BY <1>2 DEF Prices
<1>4. Prices(z, x + y)
  BY <1>1, <1>3, ComputedPrices
<1>5. Limit \in Nat
  BY BudgetAssumption
<1> QED BY <1>2, <1>4, <1>5 DEF Prices

\* And of a sum of many.
LEMMA SumsPrice ==
  ASSUME NEW base \in Nat, NEW costs, NEW works, Len(costs) \in Nat, Len(works) = Len(costs),
         \A k \in 1..Len(costs) : works[k] \in Nat /\ \A c \in costs[k] : Prices(c, works[k])
  PROVE  Total(works) \in Nat /\ \A c \in SumOf(base, costs) : Prices(c, base + Total(works))
<1> DEFINE n == Len(costs)
           C == SumsTo(base, costs)
           W == TotalsTo(works)
           Is(k) == W[k] \in Nat /\ \A c \in C[k] : Prices(c, base + W[k])
           S == {k \in Nat : k <= n => Is(k)}
<1>1. 0 \in S
  <2>1. C[0] = {base} /\ W[0] = 0
    BY SumsStep, TotalsStep
  <2>2. Prices(base, base + 0)
    BY DEF Prices
  <2> HIDE DEF C, W
  <2> QED BY <2>1, <2>2
<1>2. ASSUME NEW k \in Nat, k \in S
      PROVE  k + 1 \in S
  <2> SUFFICES ASSUME k + 1 <= n
               PROVE  Is(k + 1)
    OBVIOUS
  <2>1. k + 1 \in 1..n /\ k <= n /\ (k + 1) - 1 = k
    OBVIOUS
  <2>2. C[(k + 1)] = Plus(C[(k + 1) - 1], costs[k + 1]) /\ W[(k + 1)] = W[(k + 1) - 1] + works[k + 1]
    BY <2>1, SumsStep, TotalsStep
  <2>3. W[k] \in Nat /\ \A c \in C[k] : Prices(c, base + W[k])
    BY <1>2, <2>1
  <2>4. works[k + 1] \in Nat /\ \A c \in costs[k + 1] : Prices(c, works[k + 1])
    BY <2>1
  <2> HIDE DEF C, W, S
  <2>5. base + W[k] \in Nat /\ W[k + 1] \in Nat /\ (base + W[k]) + works[k + 1] = base + W[k + 1]
    BY <2>1, <2>2, <2>3, <2>4
  <2>6. ASSUME NEW c \in C[k + 1]
        PROVE  Prices(c, base + W[k + 1])
    <3>1. c \in Plus(C[k], costs[k + 1])
      BY <2>1, <2>2
    <3>2. Prices(c, (base + W[k]) + works[k + 1])
      BY <2>3, <2>4, <2>5, <3>1, PlusPrices
    <3> QED BY <2>5, <3>2
  <2> QED BY <2>5, <2>6
<1>3. n \in S
  <2> HIDE DEF S
  <2> QED BY <1>1, <1>2, Induct
<1>4. Is(n)
  BY <1>3
<1> QED BY <1>4 DEF SumOf, Total

---------------------------------------------------------------------------
\* Done so many times, a node is so many times the work, and it is no work at
\* all only where lists have no items.
IsWork(work, s) ==
  /\ work[1] \in Nat
  /\ work[1] = 0 => FindMaxItems(s) = 0
  /\ \A times \in Nat : work[times] = times * work[1]

ArePartsOf(works, e, s) ==
  /\ IsSchema(s) /\ Len(works) \in Nat
  /\ e.kind = "comprehension" => Len(works) = 2
  /\ \A k \in 1..Len(works) : IsWork(works[k], s)

\* The work in a node done once, from that in its parts done once.
LEMMA NodeWorkOnce ==
  ASSUME NEW e, NEW works, NEW s, ArePartsOf(works, e, s)
  PROVE  LET work  == NodeWork(e, works, s)[1]
             parts == Total(Done(works, 1))
         IN  /\ FindMaxItems(s) \in Nat /\ parts \in Nat
             /\ e.kind = "comprehension" =>
                  works[2][1] \in Nat /\ work = FindMaxItems(s) * works[2][1]
             /\ e.kind \in {"call", "select"} => work = OwnCost(e, s) + parts
             /\ e.kind = "list" => work = AtLeastOne(parts)
             /\ e.kind \notin {"comprehension", "call", "select", "list"} => work = 1
<1> DEFINE work  == NodeWork(e, works, s)[1]
           parts == Total(Done(works, 1))
           items == FindMaxItems(s)
<1>1. items \in Nat
  BY FoundInRange, BudgetAssumption DEF ArePartsOf
<1>2. parts \in Nat
  <2> DEFINE w == Done(works, 1)
  <2>1. Len(w) = Len(works) /\ \A k \in 1..Len(works) : w[k] = works[k][1]
    BY DEF Done, ArePartsOf
  <2>2. Len(w) \in Nat /\ \A k \in 1..Len(w) : w[k] \in Nat /\ w[k] <= w[k]
    BY <2>1 DEF ArePartsOf, IsWork
  <2> HIDE DEF w
  <2>3. Total(w) \in Nat
    BY <2>2, TotalsGrow
  <2> QED BY <2>3 DEF w
<1>3. ASSUME e.kind = "comprehension"
      PROVE  works[2][1] \in Nat /\ work = items * works[2][1]
  <2>1. IsWork(works[2], s)
    BY <1>3 DEF ArePartsOf
  <2>2. work = works[2][1 * items]
    BY <1>3, NodeWorkByKind
  <2> HIDE DEF items, work
  <2> QED BY <1>1, <2>1, <2>2 DEF IsWork
<1>4. ASSUME e.kind \in {"call", "select"}
      PROVE  work = OwnCost(e, s) + parts
  <2>1. work = 1 * OwnCost(e, s) + parts
    BY <1>4, NodeWorkByKind
  <2>2. OwnCost(e, s) \in Nat
    BY OwnInNat DEF ArePartsOf
  <2> QED BY <2>1, <2>2
<1>5. ASSUME e.kind = "list"
      PROVE  work = AtLeastOne(parts)
  <2>1. work = IF parts > 0 THEN parts ELSE 1
    BY <1>5, NodeWorkByKind
  <2> HIDE DEF work, parts
  <2> QED BY <1>2, <2>1 DEF AtLeastOne
<1>6. ASSUME e.kind \notin {"comprehension", "call", "select", "list"}
      PROVE  work = 1
  BY <1>6, NodeWorkByKind
<1> HIDE DEF work, parts, items
<1>7. /\ items \in Nat /\ parts \in Nat
      /\ e.kind = "comprehension" => works[2][1] \in Nat /\ work = items * works[2][1]
      /\ e.kind \in {"call", "select"} => work = OwnCost(e, s) + parts
      /\ e.kind = "list" => work = AtLeastOne(parts)
      /\ e.kind \notin {"comprehension", "call", "select", "list"} => work = 1
  BY <1>1, <1>2, <1>3, <1>4, <1>5, <1>6
<1> QED BY <1>7 DEF work, parts, items

\* Work in the parts makes work in the node.
LEMMA NodeWorkIsWork ==
  ASSUME NEW e, NEW works, NEW s, ArePartsOf(works, e, s)
  PROVE  IsWork(NodeWork(e, works, s), s)
<1> DEFINE work  == NodeWork(e, works, s)
           parts == Total(Done(works, 1))
           items == FindMaxItems(s)
           once  == work[1]
<1>1. ASSUME NEW times \in Nat
      PROVE  Total(Done(works, times)) = times * parts
  <2> DEFINE a == Done(works, 1)
             b == Done(works, times)
  <2>1. Len(a) = Len(works) /\ Len(b) = Len(works)
        /\ \A k \in 1..Len(works) : a[k] = works[k][1] /\ b[k] = works[k][times]
    BY DEF Done, ArePartsOf
  <2>2. Len(a) \in Nat /\ Len(b) = Len(a)
        /\ \A k \in 1..Len(a) : a[k] \in Nat /\ b[k] = times * a[k]
    BY <2>1 DEF ArePartsOf, IsWork
  <2> HIDE DEF a, b
  <2>3. Total(b) = times * Total(a)
    BY <2>2, TotalsScale
  <2> QED BY <2>3 DEF a, b
<1>2. items \in Nat /\ parts \in Nat
  BY NodeWorkOnce
<1>3. CASE e.kind = "comprehension"
  <2>1. works[2][1] \in Nat /\ once = items * works[2][1]
    BY <1>3, NodeWorkOnce
  <2>2. IsWork(works[2], s)
    BY <1>3 DEF ArePartsOf
  <2>3. ASSUME NEW times \in Nat
        PROVE  work[times] = times * once
    <3>1. work[times] = works[2][times * items]
      BY <1>3, NodeWorkByKind
    <3> HIDE DEF once, work, items
    <3>2. times * items \in Nat
      BY <1>2
    <3>3. works[2][times * items] = (times * items) * works[2][1]
      BY <2>2, <3>2 DEF IsWork
    <3>4. (times * items) * works[2][1] = times * (items * works[2][1])
      BY <1>2, <2>1
    <3> QED BY <2>1, <3>1, <3>3, <3>4
  <2>4. once \in Nat
    BY <1>2, <2>1
  <2>5. ASSUME once = 0
        PROVE  items = 0
    <3>1. works[2][1] = 0 => items = 0
      BY <2>2 DEF IsWork
    <3> DEFINE w == works[2][1]
    <3> HIDE DEF once, items, w
    <3>2. w \in Nat /\ items * w = 0 /\ (w = 0 => items = 0)
      BY <2>1, <2>5, <3>1 DEF w
    <3>3. ASSUME items # 0, w # 0
          PROVE  FALSE
      <4>1. items * 1 <= items * w
        BY <1>2, <3>2, <3>3, ProductGrows
      <4> QED BY <1>2, <3>2, <3>3, <4>1
    <3> QED BY <3>2, <3>3
  <2> QED BY <2>3, <2>4, <2>5 DEF IsWork
<1>4. CASE e.kind \in {"call", "select"}
  <2> DEFINE own == OwnCost(e, s)
  <2>1. own \in Nat \ {0}
    BY OwnInNat DEF ArePartsOf
  <2>2. once = own + parts
    BY <1>4, NodeWorkOnce
  <2>3. ASSUME NEW times \in Nat
        PROVE  work[times] = times * once
    <3>1. work[times] = times * own + Total(Done(works, times))
      BY <1>4, NodeWorkByKind
    <3>2. Total(Done(works, times)) = times * parts
      BY <1>1
    <3> HIDE DEF own, once, work, parts
    <3>3. \A x \in Nat, y \in Nat : times * (x + y) = times * x + times * y
      OBVIOUS
    <3> QED BY <1>2, <2>1, <2>2, <3>1, <3>2, <3>3
  <2>4. once \in Nat /\ once # 0
    <3> HIDE DEF once, own, parts
    <3> QED BY <1>2, <2>1, <2>2
  <2> QED BY <2>3, <2>4 DEF IsWork
<1>5. CASE e.kind = "list"
  <2>1. once = AtLeastOne(parts)
    BY <1>5, NodeWorkOnce
  <2>2. ASSUME NEW times \in Nat
        PROVE  work[times] = times * once
    <3> DEFINE done == Total(Done(works, times))
    <3>1. work[times] = IF done > 0 THEN done ELSE times
      BY <1>5, NodeWorkByKind
    <3>2. done = times * parts
      BY <1>1
    <3> HIDE DEF done, once, work, parts
    <3>3. CASE parts = 0
      BY <2>1, <3>1, <3>2, <3>3 DEF AtLeastOne
    <3>4. CASE parts # 0
      <4>1. once = parts
        BY <2>1, <3>4 DEF AtLeastOne
      <4>2. CASE times = 0
        BY <1>2, <3>1, <3>2, <4>1, <4>2
      <4>3. CASE times # 0
        <5>1. times >= 1
          BY <4>3
        <5>2. parts * 1 <= parts * times /\ parts * times = times * parts
          BY <1>2, <5>1, ProductGrows
        <5>3. done > 0
          BY <1>2, <3>2, <3>4, <5>2
        <5> QED BY <3>1, <3>2, <4>1, <5>3
      <4> QED BY <4>2, <4>3
    <3> QED BY <3>3, <3>4
  <2>3. once \in Nat /\ once # 0
    <3> HIDE DEF once, parts
    <3> QED BY <1>2, <2>1 DEF AtLeastOne
  <2> QED BY <2>2, <2>3 DEF IsWork
<1>6. CASE e.kind \notin {"comprehension", "call", "select", "list"}
  <2>1. \A times \in Nat : work[times] = times
    BY <1>6, NodeWorkByKind
  <2>2. once = 1
    BY <2>1
  <2> QED BY <2>1, <2>2 DEF IsWork
<1> QED BY <1>3, <1>4, <1>5, <1>6

\* Where the costs of the parts are those of their work, the node's cost is that
\* of its own: the product for a loop may have wrapped to zero and count as one,
\* but then there is work to count.
LEMMA NodeCostPrices ==
  ASSUME NEW e, NEW costs, NEW works, NEW s, ArePartsOf(works, e, s),
         Len(costs) = Len(works),
         \A k \in 1..Len(works) : \A c \in costs[k] : Prices(c, works[k][1]),
         NEW c \in NodeCost(e, costs, s)
  PROVE  Prices(c, NodeWork(e, works, s)[1])
<1> DEFINE work  == NodeWork(e, works, s)[1]
           parts == Total(Done(works, 1))
           items == FindMaxItems(s)
<1>1. items \in Nat /\ parts \in Nat /\ Limit \in Nat
  BY NodeWorkOnce, BudgetAssumption
<1>2. ASSUME NEW base \in Nat, NEW x \in SumOf(base, costs)
      PROVE  Prices(x, base + parts)
  <2> DEFINE w == Done(works, 1)
  <2>1. Len(w) = Len(works) /\ \A k \in 1..Len(works) : w[k] = works[k][1]
    BY DEF Done, ArePartsOf
  <2>2. Len(costs) \in Nat /\ Len(w) = Len(costs)
        /\ \A k \in 1..Len(costs) : w[k] \in Nat /\ \A y \in costs[k] : Prices(y, w[k])
    BY <2>1 DEF ArePartsOf, IsWork
  <2> HIDE DEF w
  <2>3. \A y \in SumOf(base, costs) : Prices(y, base + Total(w))
    BY <2>2, SumsPrice
  <2> QED BY <2>3 DEF w
<1>3. CASE e.kind = "comprehension"
  <2>1. PICK n \in costs[2] : c \in Computed(items * AtLeastOne(n))
    BY <1>3, NodeCostByKind
  <2> DEFINE body == works[2][1]
             least == AtLeastOne(n)
  <2>2. Prices(n, body) /\ IsWork(works[2], s)
    BY <1>3, <2>1 DEF ArePartsOf
  <2>3. body \in Nat /\ work = items * body
    BY <1>3, NodeWorkOnce
  <2>4. body = 0 => items = 0
    BY <2>2 DEF IsWork
  <2>5. n \in Nat /\ n <= body /\ ((overflowChecks \/ body <= Limit) => n = body)
    BY <2>2 DEF Prices
  <2> HIDE DEF work, items, body
  <2>6. least \in Nat /\ (body # 0 => least <= body) /\ (n # 0 => least = n)
    BY <2>3, <2>5 DEF AtLeastOne
  <2>7. c \in Computed(items * least)
    BY <2>1
  <2> HIDE DEF least
  <2>8. items * least \in Nat
    BY <1>1, <2>6
  <2>9. Prices(c, items * least)
    BY <2>7, <2>8, ComputedPrices
  <2>10. CASE items = 0
    <3>1. items * least = 0 /\ work = 0
      BY <2>3, <2>6, <2>10
    <3>2. Prices(c, 0)
      BY <2>9, <3>1
    <3> QED BY <3>1, <3>2 DEF work
  <2>11. CASE items # 0
    <3>1. body # 0 /\ least <= body /\ items >= 1
      BY <1>1, <2>4, <2>6, <2>11
    <3>2. items * least <= items * body /\ items * body \in Nat /\ 1 * body <= items * body
      BY <1>1, <2>3, <2>6, <3>1, ProductGrows
    <3>3. ASSUME overflowChecks \/ items * body <= Limit
          PROVE  least = body
      <4>1. overflowChecks \/ body <= Limit
        BY <1>1, <2>3, <3>2, <3>3
      <4> QED BY <2>5, <2>6, <3>1, <4>1
    <3>4. (overflowChecks \/ items * body <= Limit) => c = items * body
      BY <2>9, <3>3 DEF Prices
    <3>5. c \in Nat /\ c <= items * least
      BY <2>9 DEF Prices
    <3>6. c <= items * body
      BY <2>8, <3>2, <3>5
    <3>7. Prices(c, items * body)
      <4> DEFINE product == items * body
      <4>1. c \in Nat /\ c <= product /\ ((overflowChecks \/ product <= Limit) => c = product)
        BY <3>4, <3>5, <3>6
      <4> HIDE DEF product
      <4>2. Prices(c, product)
        BY <4>1 DEF Prices
      <4> QED BY <4>2 DEF product
    <3> QED BY <2>3, <3>7 DEF work
  <2> QED BY <2>10, <2>11
<1>4. CASE e.kind \in {"call", "select"}
  <2>1. OwnCost(e, s) \in Nat
    BY OwnInNat DEF ArePartsOf
  <2>2. c \in SumOf(OwnCost(e, s), costs)
    BY <1>4, NodeCostByKind
  <2>3. Prices(c, OwnCost(e, s) + parts)
    BY <1>2, <2>1, <2>2
  <2>4. work = OwnCost(e, s) + parts
    BY <1>4, NodeWorkOnce
  <2> QED BY <2>3, <2>4
<1>5. CASE e.kind = "list"
  <2>1. PICK n \in SumOf(0, costs) : c = AtLeastOne(n)
    BY <1>5, NodeCostByKind
  <2>2. Prices(n, 0 + parts)
    BY <1>2, <2>1
  <2>3. work = AtLeastOne(parts)
    BY <1>5, NodeWorkOnce
  <2> HIDE DEF work, parts
  <2>4. parts <= AtLeastOne(parts)
    BY <1>1 DEF AtLeastOne
  <2>5. n \in Nat /\ n <= parts /\ ((overflowChecks \/ parts <= Limit) => n = parts)
    BY <1>1, <2>2 DEF Prices
  <2>6. c \in Nat /\ c <= AtLeastOne(parts)
    BY <1>1, <2>1, <2>5 DEF AtLeastOne
  <2>7. AtLeastOne(parts) \in Nat
    BY <1>1 DEF AtLeastOne
  <2>8. ASSUME overflowChecks \/ AtLeastOne(parts) <= Limit
        PROVE  c = AtLeastOne(parts)
    <3>1. overflowChecks \/ parts <= Limit
      BY <1>1, <2>4, <2>7, <2>8
    <3> QED BY <2>1, <2>5, <3>1
  <2>9. Prices(c, work)
    BY <2>3, <2>6, <2>8 DEF Prices
  <2> QED BY <2>9 DEF work
<1>6. CASE e.kind \notin {"comprehension", "call", "select", "list"}
  <2>1. c = 1
    BY <1>6, NodeCostByKind
  <2>2. work = 1
    BY <1>6, NodeWorkOnce
  <2> QED BY <2>1, <2>2 DEF Prices
<1> QED BY <1>3, <1>4, <1>5, <1>6

\* Less work in the parts and fewer items make no more work in the node.
LEMMA NodeWorkGrows ==
  ASSUME NEW e, NEW v, NEW w, NEW s, NEW t, ArePartsOf(v, e, t), ArePartsOf(w, e, s),
         NoLooser(t, s), Len(v) = Len(w),
         \A k \in 1..Len(w) : v[k][1] <= w[k][1]
  PROVE  NodeWork(e, v, t)[1] <= NodeWork(e, w, s)[1]
<1> DEFINE less  == NodeWork(e, v, t)[1]
           more  == NodeWork(e, w, s)[1]
           fewer == FindMaxItems(t)
           items == FindMaxItems(s)
           some  == Total(Done(v, 1))
           parts == Total(Done(w, 1))
<1>1. /\ fewer \in Nat /\ items \in Nat /\ some \in Nat /\ parts \in Nat
      /\ fewer <= items /\ FindMaxLength(t) = FindMaxLength(s)
  BY NodeWorkOnce, NoLooserFound DEF ArePartsOf
<1>2. some <= parts
  <2> DEFINE a == Done(v, 1)
             b == Done(w, 1)
  <2>1. Len(a) = Len(v) /\ Len(b) = Len(w)
        /\ \A k \in 1..Len(w) : a[k] = v[k][1] /\ b[k] = w[k][1]
    BY DEF Done, ArePartsOf
  <2>2. Len(a) \in Nat /\ Len(b) = Len(a)
        /\ \A k \in 1..Len(a) : a[k] \in Nat /\ b[k] \in Nat /\ a[k] <= b[k]
    BY <2>1 DEF ArePartsOf, IsWork
  <2> HIDE DEF a, b
  <2>3. Total(a) <= Total(b)
    BY <2>2, TotalsGrow
  <2> QED BY <2>3 DEF a, b
<1>3. CASE e.kind = "comprehension"
  <2>1. v[2][1] \in Nat /\ less = fewer * v[2][1] /\ w[2][1] \in Nat /\ more = items * w[2][1]
    BY <1>3, NodeWorkOnce
  <2>2. v[2][1] <= w[2][1]
    BY <1>3 DEF ArePartsOf
  <2> DEFINE x == v[2][1]
             y == w[2][1]
  <2> HIDE DEF less, more, fewer, items, x, y
  <2>3. x \in Nat /\ y \in Nat /\ x <= y /\ less = fewer * x /\ more = items * y
    BY <2>1, <2>2 DEF x, y
  <2>4. fewer * x <= fewer * y /\ fewer * x \in Nat /\ fewer * y \in Nat
    BY <1>1, <2>3, ProductGrows
  <2>5. fewer * y <= items * y /\ items * y \in Nat
    BY <1>1, <2>3, ProductGrows
  <2>6. less <= more
    BY <2>3, <2>4, <2>5
  <2> QED BY <2>6 DEF less, more
<1>4. CASE e.kind \in {"call", "select"}
  <2>1. OwnCost(e, s) \in Nat /\ OwnCost(e, t) = OwnCost(e, s)
    BY <1>1, OwnInNat DEF OwnCost, ArePartsOf
  <2>2. less = OwnCost(e, t) + some /\ more = OwnCost(e, s) + parts
    BY <1>4, NodeWorkOnce
  <2> HIDE DEF less, more, some, parts
  <2>3. less <= more
    BY <1>1, <1>2, <2>1, <2>2
  <2> QED BY <2>3 DEF less, more
<1>5. CASE e.kind = "list"
  <2>1. less = AtLeastOne(some) /\ more = AtLeastOne(parts)
    BY <1>5, NodeWorkOnce
  <2> HIDE DEF less, more, some, parts
  <2>2. less <= more
    BY <1>1, <1>2, <2>1 DEF AtLeastOne
  <2> QED BY <2>2 DEF less, more
<1>6. CASE e.kind \notin {"comprehension", "call", "select", "list"}
  <2>1. less = 1 /\ more = 1
    BY <1>6, NodeWorkOnce
  <2> QED BY <2>1
<1> QED BY <1>3, <1>4, <1>5, <1>6

---------------------------------------------------------------------------
\* What a node sees of the tables of work and of costs.
LEMMA TablesSeen ==
  ASSUME NEW nodes, IsExpression(nodes), NEW s, IsSchema(s), NEW i \in 1..Len(nodes),
         \A j \in 1..i - 1 : IsWork(NodeWorks(nodes, s)[j], s)
  PROVE  LET e     == nodes[i]
             works == OfParts(e, NodeWorks(nodes, s))
             costs == OfParts(e, NodeCosts(nodes, s))
         IN  /\ ArePartsOf(works, e, s)
             /\ Len(works) = Len(e.parts) /\ Len(costs) = Len(e.parts)
             /\ NodeWorks(nodes, s)[i] = NodeWork(e, works, s)
             /\ NodeCosts(nodes, s)[i] = NodeCost(e, costs, s)
             /\ \A k \in 1..Len(e.parts) :
                  /\ e.parts[k] \in 1..i - 1
                  /\ works[k] = NodeWorks(nodes, s)[e.parts[k]]
                  /\ costs[k] = NodeCosts(nodes, s)[e.parts[k]]
<1> DEFINE e == nodes[i]
           A == NodeCosts(nodes, s)
           W == NodeWorks(nodes, s)
           a == OfParts(e, A)
           w == OfParts(e, W)
<1>1. e.parts \in Seq(1..i - 1) /\ (e.kind = "comprehension" => Len(e.parts) = 2)
  BY DEF IsExpression
<1>2. Len(e.parts) \in Nat /\ \A k \in 1..Len(e.parts) : e.parts[k] \in 1..i - 1
  <2> DEFINE p == e.parts
             D == 1..i - 1
  <2>1. p \in Seq(D)
    BY <1>1
  <2> HIDE DEF p, D
  <2>2. Len(p) \in Nat /\ \A k \in 1..Len(p) : p[k] \in D
    BY <2>1
  <2> QED BY <2>2 DEF p, D
<1>3. Len(a) = Len(e.parts) /\ Len(w) = Len(e.parts)
      /\ \A k \in 1..Len(e.parts) : a[k] = A[e.parts[k]] /\ w[k] = W[e.parts[k]]
  BY <1>2, PartsSeen
<1>4. A[i] = NodeCost(e, a, s) /\ W[i] = NodeWork(e, w, s)
  BY CostsStep, WorksStep
<1>5. \A j \in 1..i - 1 : IsWork(W[j], s)
  OBVIOUS
<1> HIDE DEF A, W, a, w, e
<1>6. ArePartsOf(w, e, s)
  BY <1>1, <1>2, <1>3, <1>5 DEF ArePartsOf
<1>7. /\ ArePartsOf(w, e, s)
      /\ Len(w) = Len(e.parts) /\ Len(a) = Len(e.parts)
      /\ W[i] = NodeWork(e, w, s) /\ A[i] = NodeCost(e, a, s)
      /\ \A k \in 1..Len(e.parts) :
           e.parts[k] \in 1..i - 1 /\ w[k] = W[e.parts[k]] /\ a[k] = A[e.parts[k]]
  BY <1>2, <1>3, <1>4, <1>6
<1> QED BY <1>7 DEF A, W, a, w, e

\* In every node there is work.
LEMMA WorksAreWork ==
  ASSUME NEW nodes, IsExpression(nodes), NEW s, IsSchema(s)
  PROVE  Len(nodes) \in Nat /\ Len(nodes) \in 1..Len(nodes)
         /\ \A i \in 1..Len(nodes) : IsWork(NodeWorks(nodes, s)[i], s)
<1> DEFINE n == Len(nodes)
           H == {i \in Nat : IsWork(NodeWorks(nodes, s)[i], s)}
<1>1. n \in Nat /\ n \in 1..n
  BY DEF IsExpression
<1>2. ASSUME NEW i \in 1..n, \A j \in 1..i - 1 : j \in H
      PROVE  i \in H
  <2>1. \A j \in 1..i - 1 : IsWork(NodeWorks(nodes, s)[j], s)
    BY <1>2
  <2> DEFINE works == OfParts(nodes[i], NodeWorks(nodes, s))
  <2>2. ArePartsOf(works, nodes[i], s) /\ NodeWorks(nodes, s)[i] = NodeWork(nodes[i], works, s)
    BY <2>1, TablesSeen
  <2>3. IsWork(NodeWork(nodes[i], works, s), s)
    BY <2>2, NodeWorkIsWork
  <2> QED BY <2>2, <2>3
<1>3. \A i \in 1..n : i \in H
  <2>1. H \in SUBSET Nat
    OBVIOUS
  <2> HIDE DEF H, n
  <2> QED BY <1>1, <1>2, <2>1, InductNodes
<1> QED BY <1>1, <1>3

\* The estimate is no more than the work in the expression evaluated once, and
\* exactly that in a build with overflow checks or if the work is a u64.
LEMMA EstimatePrices ==
  ASSUME NEW nodes, IsExpression(nodes), NEW s, IsSchema(s),
         NEW c \in EstimateExprCost(nodes, s)
  PROVE  Prices(c, Work(nodes, s)) /\ Work(nodes, s) \in Nat
<1> DEFINE n == Len(nodes)
           A == NodeCosts(nodes, s)
           W == NodeWorks(nodes, s)
           H == {i \in Nat : \A x \in A[i] : Prices(x, W[i][1])}
<1>1. n \in Nat /\ n \in 1..n /\ \A i \in 1..n : IsWork(W[i], s)
  BY WorksAreWork
<1>2. ASSUME NEW i \in 1..n, \A j \in 1..i - 1 : j \in H
      PROVE  i \in H
  <2> DEFINE e == nodes[i]
             a == OfParts(e, A)
             w == OfParts(e, W)
  <2>1. \A j \in 1..i - 1 : IsWork(W[j], s)
    BY <1>1
  <2>2. /\ ArePartsOf(w, e, s)
        /\ Len(w) = Len(e.parts) /\ Len(a) = Len(e.parts)
        /\ W[i] = NodeWork(e, w, s) /\ A[i] = NodeCost(e, a, s)
        /\ \A k \in 1..Len(e.parts) :
             e.parts[k] \in 1..i - 1 /\ w[k] = W[e.parts[k]] /\ a[k] = A[e.parts[k]]
    BY <2>1, TablesSeen
  <2>3. \A j \in 1..i - 1 : \A x \in A[j] : Prices(x, W[j][1])
    BY <1>2
  <2> HIDE DEF A, W, a, w, e
  <2>4. \A k \in 1..Len(w) : \A x \in a[k] : Prices(x, w[k][1])
    BY <2>2, <2>3
  <2>5. \A x \in NodeCost(e, a, s) : Prices(x, NodeWork(e, w, s)[1])
    BY <2>2, <2>4, NodeCostPrices
  <2> QED BY <2>2, <2>5
<1>3. \A i \in 1..n : i \in H
  <2>1. H \in SUBSET Nat
    OBVIOUS
  <2> HIDE DEF H, n
  <2> QED BY <1>1, <1>2, <2>1, InductNodes
<1>4. Prices(c, W[n][1])
  BY <1>1, <1>3 DEF EstimateExprCost
<1>5. W[n][1] \in Nat
  BY <1>1 DEF IsWork
<1> QED BY <1>4, <1>5 DEF Work

\* There is no more work in an expression on a schema that is no looser.
LEMMA WorkGrows ==
  ASSUME NEW nodes, IsExpression(nodes), NEW s, NEW t, IsSchema(s), IsSchema(t), NoLooser(t, s)
  PROVE  /\ Work(nodes, t) \in Nat /\ Work(nodes, s) \in Nat
         /\ Work(nodes, t) <= Work(nodes, s)
<1> DEFINE n == Len(nodes)
           V == NodeWorks(nodes, t)
           W == NodeWorks(nodes, s)
           H == {i \in Nat : V[i][1] <= W[i][1]}
<1>1. /\ n \in Nat /\ n \in 1..n
      /\ \A i \in 1..n : IsWork(V[i], t) /\ IsWork(W[i], s)
  BY WorksAreWork
<1>2. ASSUME NEW i \in 1..n, \A j \in 1..i - 1 : j \in H
      PROVE  i \in H
  <2> DEFINE e == nodes[i]
             v == OfParts(e, V)
             w == OfParts(e, W)
  <2>1. \A j \in 1..i - 1 : IsWork(V[j], t) /\ IsWork(W[j], s)
    BY <1>1
  <2>2. /\ ArePartsOf(v, e, t) /\ ArePartsOf(w, e, s)
        /\ Len(v) = Len(e.parts) /\ Len(w) = Len(e.parts)
        /\ V[i] = NodeWork(e, v, t) /\ W[i] = NodeWork(e, w, s)
        /\ \A k \in 1..Len(e.parts) :
             e.parts[k] \in 1..i - 1 /\ v[k] = V[e.parts[k]] /\ w[k] = W[e.parts[k]]
    BY <2>1, TablesSeen
  <2>3. \A j \in 1..i - 1 : V[j][1] <= W[j][1]
    BY <1>2
  <2> HIDE DEF V, W, v, w, e
  <2>4. Len(v) = Len(w) /\ \A k \in 1..Len(w) : v[k][1] <= w[k][1]
    BY <2>2, <2>3
  <2>5. NodeWork(e, v, t)[1] <= NodeWork(e, w, s)[1]
    BY <2>2, <2>4, NodeWorkGrows
  <2> QED BY <2>2, <2>5
<1>3. \A i \in 1..n : i \in H
  <2>1. H \in SUBSET Nat
    OBVIOUS
  <2> HIDE DEF H, n
  <2> QED BY <1>1, <1>2, <2>1, InductNodes
<1>4. V[n][1] <= W[n][1]
  BY <1>1, <1>3
<1>5. V[n][1] \in Nat /\ W[n][1] \in Nat
  BY <1>1 DEF IsWork
<1> QED BY <1>4, <1>5 DEF Work

---------------------------------------------------------------------------
\* For every rule and schema and in both builds: an answered estimate warns of a
\* cost above the budget only if the work is above it, and then always in a build
\* with overflow checks, in a release build if the work is a u64 (estimate_expr_cost).
THEOREM EstimateWarns == Spec => []CostIsWarnedOf
<1>1. AInv => CostIsWarnedOf
  <2> SUFFICES ASSUME AInv, NEW program \in rule, NEW warnings \in answers["estimate_rule_cost"]
               PROVE  LET work   == Work(program.nodes, schema)
                          warned == Warning("CostExceeded", "cost") \in warnings
                      IN  /\ warned => work > Budget
                          /\ (work > Budget /\ (overflowChecks \/ work <= Limit)) => warned
    BY DEF CostIsWarnedOf
  <2>1. rule = {program} /\ IsExpression(program.nodes) /\ IsSchema(schema)
    BY RuleAssumption DEF AInv
  <2>2. warnings \in EstimateRuleCost
    BY DEF AInv
  <2>3. PICK c \in EstimateExprCost(program.nodes, schema) :
          warnings = CostWarnings(c) \cup MissingBounds(program.nodes, schema)
    BY <2>1, <2>2 DEF EstimateRuleCost
  <2> DEFINE work   == Work(program.nodes, schema)
             warned == Warning("CostExceeded", "cost") \in warnings
  <2>4. Prices(c, work) /\ work \in Nat
    BY <2>1, EstimatePrices
  <2>5. Warning("CostExceeded", "cost") \notin MissingBounds(program.nodes, schema)
    BY DEF MissingBounds, Warning
  <2>6. Warning("CostExceeded", "cost") \in CostWarnings(c) <=> c > Budget
    BY DEF CostWarnings
  <2>7. warned <=> c > Budget
    BY <2>3, <2>5, <2>6
  <2>8. Budget \in Nat
    BY BudgetAssumption
  <2> HIDE DEF work, warned
  <2>9. (warned => work > Budget) /\ ((work > Budget /\ (overflowChecks \/ work <= Limit)) => warned)
    BY <2>4, <2>7, <2>8 DEF Prices
  <2> QED BY <2>9 DEF work, warned
<1> QED BY <1>1, AnswersStand, PTL

\* For every schema and rule and in both builds: tightening the lists of a schema
\* does not make the estimate of a rule higher than compiling the schema could
\* have made it before, unless that estimate had wrapped (find_max_items and
\* estimate_expr_cost).
THEOREM TighterIsNoDearer == Spec => TighteningNeverCosts
<1> DEFINE Unwrapped(program, before) ==
             overflowChecks \/ Work(program.nodes, before) <= Limit
           NoDearer ==
             (schema' # schema /\ Tightened(schema, schema')) =>
               \E before \in Reordered(schema) : \A program \in rule :
                 Unwrapped(program, before) =>
                   \A n \in EstimateExprCost(program.nodes, before) :
                     \A m \in EstimateExprCost(program.nodes, schema') : m <= n
<1>1. AInv /\ AInv' /\ [Next]_vars => [NoDearer]_vars
  <2> SUFFICES ASSUME AInv, AInv', Next, Tightened(schema, schema')
               PROVE  \E before \in Reordered(schema) : \A program \in rule :
                        Unwrapped(program, before) =>
                          \A n \in EstimateExprCost(program.nodes, before) :
                            \A m \in EstimateExprCost(program.nodes, schema') : m <= n
    BY DEF vars
  <2>1. PICK before \in Reordered(schema) : NoLooser(schema', before)
    BY DEF Tightened
  <2>2. IsSchema(before) /\ IsSchema(schema')
    BY <2>1, ReorderedIsSchema DEF AInv
  <2>3. ASSUME NEW program \in rule, Unwrapped(program, before),
               NEW n \in EstimateExprCost(program.nodes, before),
               NEW m \in EstimateExprCost(program.nodes, schema')
        PROVE  m <= n
    <3>1. IsExpression(program.nodes)
      BY RuleAssumption DEF AInv
    <3> DEFINE earlier == Work(program.nodes, before)
               now     == Work(program.nodes, schema')
    <3>2. Prices(n, earlier) /\ Prices(m, now)
      BY <2>2, <3>1, EstimatePrices
    <3>3. now \in Nat /\ earlier \in Nat /\ now <= earlier
      BY <2>1, <2>2, <3>1, WorkGrows
    <3>4. n = earlier
      BY <2>3, <3>2 DEF Prices
    <3>5. m \in Nat /\ m <= now
      BY <3>2 DEF Prices
    <3> HIDE DEF earlier, now
    <3> QED BY <3>3, <3>4, <3>5
  <2> QED BY <2>3
<1> HIDE DEF NoDearer
<1>2. Spec => [][NoDearer]_vars
  BY <1>1, AnswersStand, PTL DEF Spec
<1> QED BY <1>2 DEF TighteningNeverCosts, NoDearer

---------------------------------------------------------------------------
\* What counts as tightening: to bound a list below what it was taken to have,
\* whichever order the schema is compiled in again.  So the theorem before speaks
\* of each such AddMaxItems.
THEOREM BoundingTightens ==
  ASSUME NEW s, IsSchema(s), NEW i \in DOMAIN s.properties, NEW n \in 0..Limit,
         n < OrElse(s.properties[i].maxItems, DefaultMaxItems),
         NEW t \in Reordered([s EXCEPT !.properties[i].maxItems = {n}])
  PROVE  Tightened(s, t)
<1> DEFINE u == [s EXCEPT !.properties[i].maxItems = {n}]
           D == DOMAIN s.properties
<1>1. IsSchema(u)
  BY BoundedIsSchema
<1>2. /\ u.maxItems = s.maxItems /\ u.maxLength = s.maxLength
      /\ DOMAIN u.properties = D
      /\ \A k \in D \ {i} : u.properties[k] = s.properties[k]
      /\ u.properties[i] = [s.properties[i] EXCEPT !.maxItems = {n}]
  BY DEF IsSchema
<1>3. PICK f \in Bijection(D, D) :
        t = [u EXCEPT !.properties = [k \in D |-> u.properties[f[k]]]]
  BY <1>2 DEF Reordered
<1> DEFINE before == [s EXCEPT !.properties = [k \in D |-> s.properties[f[k]]]]
<1>4. before \in Reordered(s)
  BY DEF Reordered
<1>5. \A k \in D : f[k] \in D
  BY DEF Bijection, Injection
<1>6. /\ t.maxItems = s.maxItems /\ t.maxLength = s.maxLength
      /\ t.properties = [k \in D |-> u.properties[f[k]]]
  <2> HIDE DEF u, D
  <2> QED BY <1>1, <1>2, <1>3 DEF IsSchema
<1>7. /\ before.maxItems = s.maxItems /\ before.maxLength = s.maxLength
      /\ before.properties = [k \in D |-> s.properties[f[k]]]
  <2> HIDE DEF D
  <2> QED BY DEF IsSchema
<1>8. \A j \in D :
        /\ u.properties[j].isArray = s.properties[j].isArray
        /\ u.properties[j].maxLength = s.properties[j].maxLength
        /\ OrElse(u.properties[j].maxItems, DefaultMaxItems)
             <= OrElse(s.properties[j].maxItems, DefaultMaxItems)
  <2> TAKE j \in D
  <2>1. s.properties[j] \in Range(s.properties)
    BY DEF Range
  <2>2. IsOption(s.properties[j].maxItems, 0..Limit)
        /\ s.properties[j] = [isArray |-> s.properties[j].isArray,
                              maxItems |-> s.properties[j].maxItems,
                              maxLength |-> s.properties[j].maxLength]
    BY <2>1 DEF IsSchema
  <2>3. CASE j # i
    <3> DEFINE S == s.properties[j].maxItems
               T == 0..Limit
    <3>1. IsOption(S, T) /\ DefaultMaxItems \in T
      BY <2>2, BudgetAssumption
    <3> HIDE DEF S, T
    <3>2. OrElse(S, DefaultMaxItems) \in T
      BY <3>1, OrElseIn
    <3>3. OrElse(S, DefaultMaxItems) \in Int
      BY <3>2 DEF T
    <3>4. u.properties[j] = s.properties[j]
      BY <1>2, <2>3
    <3>5. OrElse(S, DefaultMaxItems) <= OrElse(S, DefaultMaxItems)
      BY <3>3
    <3> HIDE DEF u
    <3> QED BY ONLY <3>4, <3>5 DEF S
  <2>4. CASE j = i
    <3> DEFINE p == s.properties[j]
               q == u.properties[j]
    <3>1. q = [p EXCEPT !.maxItems = {n}]
      BY <1>2, <2>4
    <3>2. p = [isArray |-> p.isArray, maxItems |-> p.maxItems, maxLength |-> p.maxLength]
      BY <2>2
    <3>3. n < OrElse(p.maxItems, DefaultMaxItems)
      BY <2>4
    <3> HIDE DEF p, q, u
    <3>4. q.maxItems = {n} /\ q.isArray = p.isArray /\ q.maxLength = p.maxLength
      BY ONLY <3>1, <3>2
    <3>5. OrElse(q.maxItems, DefaultMaxItems) = n
      BY <3>4 DEF OrElse
    <3>6. OrElse(p.maxItems, DefaultMaxItems) \in Int
      <4> DEFINE S == p.maxItems
                 T == 0..Limit
      <4>1. IsOption(S, T) /\ DefaultMaxItems \in T
        BY <2>2, BudgetAssumption DEF p
      <4> HIDE DEF S, T
      <4>2. OrElse(S, DefaultMaxItems) \in T
        BY <4>1, OrElseIn
      <4> QED BY <4>2 DEF S, T
    <3>7. OrElse(q.maxItems, DefaultMaxItems) <= OrElse(p.maxItems, DefaultMaxItems)
      BY <3>3, <3>5, <3>6
    <3> QED BY <3>4, <3>7 DEF p, q
  <2> QED BY <2>3, <2>4
<1>9. NoLooser(t, before)
  <2> HIDE DEF u, D, before
  <2> QED BY <1>5, <1>6, <1>7, <1>8 DEF NoLooser
<1> QED BY <1>4, <1>9 DEF Tightened
=============================================================================
