----------------------------- MODULE MCUniverse -----------------------------
(***************************************************************************)
(* A small world of field names, rules, schemas and documents for TLC, and *)
(* the CEL interpreter of that world.                                      *)
(***************************************************************************)
EXTENDS Documents, SequencesExt

a     == <<"a">>
b     == <<"b">>
a_b   == <<"a", "_", "b">>
aDotB == <<"a", ".", "b">>
empty == <<>>
a__dot__b == <<"a", "_", "_", "d", "o", "t", "_", "_", "b">>

MCReservedWords == {<<"i", "n">>}

\* serde_json's map order: any fixed order will do, this one is TLC's own.
MCMapOrder(keys) == SetToSeq(keys)

---------------------------------------------------------------------------
\* Documents.  "t" is a string that parses as a date-time.
x == Scalar("x")
y == Scalar("y")
t == Scalar("t")

Obj1(k, v)       == Object([n \in {k} |-> v])
Obj2(k, v, l, w) == Object([n \in {k, l} |-> IF n = k THEN v ELSE w])
Nothing          == Object(<<>>)

MCParsesAs(atom, format) == atom = "t" /\ format = "date-time"

---------------------------------------------------------------------------
\* Expressions and what they evaluate to.  A scope whose oldSelf is {} has the
\* variable undeclared.
MCReferences(e) ==
  CASE e = "self == oldSelf"             -> {"self", "oldSelf"}
    [] e = "isNull(oldSelf) || same"     -> {"self", "oldSelf"}
    [] e = "kind == 'K'"                 -> {"kind"}
    [] e = "sortBy(self, e, e)"          -> {"self", "e"}
    [] e = "old: string(oldSelf)"        -> {"oldSelf"}
    [] e \in {"self.a == 'x'", "has(self.a)", "has(self.a__dot__b)",
               "has(self.kind)", "isTimestamp(self)"} -> {"self"}
    [] OTHER                             -> {}

MCParses(e) == e # "syntax error"

Truth(p) == IF p THEN "true" ELSE "false"

HasEntry(v, k) == v.kind = "map" /\ k \in DOMAIN v.entries

Has(v, k) == IF v.kind = "map" THEN Truth(HasEntry(v, k)) ELSE "error"

MCExecute(e, s) ==
  CASE e = "true"         -> "true"
    [] e = "false"        -> "false"
    [] e = "'text'"       -> "string"
    [] e = "1"            -> "other"
    [] e = "1 / 0"        -> "error"
    [] e = "kind == 'K'"  -> IF s.root THEN "true" ELSE "undeclared"
    [] e = "sortBy(self, e, e)" -> "undeclared"
    [] e = "has(self.a)"  -> Has(s.self, a)
    [] e = "has(self.a__dot__b)" -> Has(s.self, a__dot__b)
    [] e = "has(self.kind)" -> Has(s.self, <<"kind">>)
    [] e = "self.a == 'x'" -> IF ~HasEntry(s.self, a) THEN "error"
                              ELSE Truth(s.self.entries[a] = x)
    [] e = "isTimestamp(self)" -> Truth(s.self.kind = "date-time")
    [] e = "self == oldSelf" -> IF s.oldSelf = {} THEN "undeclared"
                                ELSE Truth(s.oldSelf = {s.self})
    [] e = "isNull(oldSelf) || same" ->
         IF s.oldSelf = {} THEN "undeclared"
         ELSE Truth(s.oldSelf \in {{Null}, {s.self}})
    [] e = "old: string(oldSelf)" ->
         IF s.oldSelf = {} THEN "undeclared"
         ELSE IF s.oldSelf = {Null} THEN "error" ELSE "string"

Rule(e) ==
  [wellFormed |-> TRUE, rule |-> e, message |-> {}, messageExpression |-> {},
   fieldPath |-> {}, optionalOldSelf |-> "absent"]

Frozen     == Rule("self == oldSelf")
FrozenOpt  == [Rule("isNull(oldSelf) || same") EXCEPT
                 !.optionalOldSelf = "true",
                 !.messageExpression = {"old: string(oldSelf)"}]
Malformed  == [Rule("true") EXCEPT !.wellFormed = FALSE]
BadMessage == [Rule("true") EXCEPT !.messageExpression = {"syntax error"}]
Located    == [Rule("false") EXCEPT
                 !.message = {"m"},
                 !.fieldPath = {[leadingDot |-> TRUE,
                                 segments |-> <<<<"name", b>>>>]}]

---------------------------------------------------------------------------
\* Schemas.
Blank ==
  [validations |-> <<>>, properties |-> <<>>, items |-> {},
   additionalProperties |-> "absent", additional |-> {},
   preserveUnknown |-> FALSE, embedded |-> FALSE, intOrString |-> FALSE,
   format |-> "none", default |-> {},
   allOf |-> <<>>, oneOf |-> <<>>, anyOf |-> <<>>]

WithRules(s, rules) == [s EXCEPT !.validations = rules]
Leaf(rules)         == WithRules(Blank, rules)
Prop(k, s)          == [Blank EXCEPT !.properties = [n \in {k} |-> s]]
Props(k, s, l, u)   ==
  [Blank EXCEPT !.properties = [n \in {k, l} |-> IF n = k THEN s ELSE u]]
Items(s)            == [Blank EXCEPT !.items = {s}]
MapOf(s)            == [Blank EXCEPT !.additionalProperties = "schema",
                                     !.additional = {s}]
Defaulted(s, v)     == [s EXCEPT !.default = {v}]

\* Leaves with rules that hold, fail, skip, or cannot be evaluated.
RuleLists ==
  {<<Frozen, Rule("'text'")>>, <<FrozenOpt>>, <<Rule("kind == 'K'")>>,
   <<Malformed, Rule("syntax error")>>, <<BadMessage>>,
   <<Rule("has(self.a)"), Located>>, <<Rule("isTimestamp(self)")>>,
   <<Rule("sortBy(self, e, e)")>>}

Leaves ==
  {Leaf(rules) : rules \in RuleLists}
    \cup {[Leaf(<<Rule("isTimestamp(self)")>>) EXCEPT !.format = "date-time"]}

\* A leaf under every way a schema has to reach it.
Shapes(s) ==
  {s, Prop(a, s), Items(s), MapOf(s), Items(Items(s)), Prop(a, Prop(a, s)),
   Prop(a, Prop(a, Prop(a, s))),
   [MapOf(s) EXCEPT !.preserveUnknown = TRUE],
   [MapOf(Leaf(<<Frozen>>)) EXCEPT !.properties = [n \in {a} |-> s]],
   [Prop(b, Defaulted(s, y)) EXCEPT !.anyOf = <<s, Blank>>],
   [Blank EXCEPT !.allOf = <<s, Leaf(<<Frozen>>)>>, !.oneOf = <<s>>]}

Schemas == UNION {Shapes(s) : s \in Leaves}

\* Objects as records and as maps, embedded resources, int-or-string.
Conversions ==
  {WithRules([Prop(aDotB, Blank) EXCEPT !.additionalProperties = kind],
             <<Rule("has(self.a__dot__b)")>>) : kind \in {"absent", "false", "true"}}
    \cup {WithRules(MapOf(Blank), <<Rule("has(self.a__dot__b)")>>),
          [Leaf(<<Rule("has(self.kind)")>>) EXCEPT !.embedded = TRUE],
          [Leaf(<<Rule("isTimestamp(self)")>>) EXCEPT
             !.format = "date-time", !.intOrString = TRUE]}

\* Documents that match, miss or exceed those shapes.
Objects == {x, t, Nothing, Obj1(a, x), Obj2(a, t, b, x), Array(<<x, t>>),
              Obj1(a, Obj1(a, Obj1(a, x))), Array(<<Array(<<x>>)>>),
              Obj1(b, Null)}

Olds == {{}, {Null}, {Obj1(a, Obj1(a, x))}, {Array(<<x>>)}}

\* Calls with a field whose name is empty: its path is the root's path.
EmptyNameSchemas ==
  {Prop(empty, Leaf(rules)) : rules \in RuleLists}
    \cup {[Prop(empty, Prop(a, Leaf(rules))) EXCEPT
             !.allOf = <<Leaf(rules), Prop(a, Leaf(rules))>>] :
             rules \in RuleLists}
EmptyNameObjects ==
  {Obj1(empty, x), Obj1(a, t), Obj1(empty, Obj1(a, t)),
   Obj2(empty, Obj1(a, x), a, x)}

EmptyNameCall ==
  [schema : EmptyNameSchemas, object : EmptyNameObjects,
   old : {{}, {Obj1(a, Obj1(a, x))}}, root : BOOLEAN]
=============================================================================
