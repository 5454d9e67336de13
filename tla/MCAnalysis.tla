----------------------------- MODULE MCAnalysis -----------------------------
(***************************************************************************)
(* Analysis with costs of eight bits, a budget of 100 and lists of ten     *)
(* items unless they say otherwise.                                        *)
(***************************************************************************)
EXTENDS Analysis, SequencesExt

\* An expression of the given kind over other expressions: their nodes one
\* after the other, with the parts counted from where each now stands.
Node(kind, function, exprs) ==
  LET shifted(nodes, by) ==
        [i \in DOMAIN nodes |->
           [nodes[i] EXCEPT !.parts = [k \in DOMAIN @ |-> @[k] + by]]]
      put(done, nodes) ==
        [nodes |-> done.nodes \o shifted(nodes, Len(done.nodes)),
         parts |-> Append(done.parts, Len(done.nodes) + Len(nodes))]
      all == FoldLeft(put, [nodes |-> <<>>, parts |-> <<>>], exprs)
  IN  Append(all.nodes, [kind |-> kind, parts |-> all.parts, function |-> function])

Expr(kind, exprs)     == Node(kind, "", exprs)
Call(function, exprs) == Node("call", function, exprs)
Loop(range, step)     == Expr("comprehension", <<range, step>>)

Self  == Expr("ident", <<>>)
Field == Expr("select", <<Self>>)
Short == Call("_>_", <<Field, Self>>)
Long  == Call("contains", <<Field, Self>>)

Program(variables, nodes) == {[variables |-> variables, nodes |-> nodes]}

MCRule ==
  {{}, Program({"self"}, Short),
   Program({"self", "request"}, Long),
   Program({"self"}, Loop(Field, Short)),
   Program({"self", "object", "kind"}, Loop(Field, Long)),
   Program({"self"}, Loop(Field, Loop(Self, Self))),
   Program({"self"}, Loop(Loop(Field, Long), Self)),
   Program({"self"}, Call("_&&_", <<Loop(Field, Short), Loop(Field, Self)>>)),
   Program({"self"}, Loop(Field, Expr("list", <<Long, Expr("list", <<>>)>>)))}

Property(isArray, maxItems, maxLength) ==
  [isArray |-> isArray, maxItems |-> maxItems, maxLength |-> maxLength]

Properties ==
  {Property(TRUE, {}, {}), Property(TRUE, {3}, {}), Property(TRUE, {25}, {}),
   Property(FALSE, {}, {}), Property(FALSE, {2}, {200})}

MCSchema ==
  {[maxItems |-> m, maxLength |-> n, properties |-> ps] :
     m \in {{}, {16}}, n \in {{}, {50}},
     ps \in {<<>>} \cup [1..1 -> Properties] \cup [1..2 -> Properties]}

\* One of them above the bound a list is taken to have without one.
MCNewBound == {0, 2, 9, 20}
=============================================================================
