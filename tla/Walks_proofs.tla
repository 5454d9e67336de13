----------------------------- MODULE Walks_proofs -----------------------------
(***************************************************************************)
(* What the walks of schema and object have in common, whoever takes them: *)
(* the loops over a node's properties, items, map values and branches, and *)
(* the recursion of the defaulter.                                         *)
(***************************************************************************)
EXTENDS Defaults, Foundations

\* The frame of a field, and of an item, under a schema node.
FieldChild(f, node, k) ==
  ChildFrame(f, node, f.value.fields[k], FieldOf(f.old, k), JoinPath(f.path, k))

ItemChild(f, node, i) ==
  ChildFrame(f, node, f.value.elems[i], ItemOf(f.old, i), JoinPathIndex(f.path, i))

Declared(f) == DOMAIN f.node.properties

FieldChildren(f) ==
  {FieldChild(f, f.node.properties[k], k) : k \in Declared(f) \cap Keys(f.value)}

ItemChildren(f) ==
  IF IsArray(f.value)
  THEN {ItemChild(f, node, i) : node \in f.node.items, i \in DOMAIN f.value.elems}
  ELSE {}

MapChildren(f) ==
  IF f.node.preserveUnknown THEN {}
  ELSE {FieldChild(f, node, k) : node \in f.node.additional,
                                 k \in Keys(f.value) \ Declared(f)}

BranchesOf(n) == ToSet(n.allOf) \cup ToSet(n.oneOf) \cup ToSet(n.anyOf)

BranchChildren(f) == {BranchFrame(f, node) : node \in BranchesOf(f.node)}

ChildrenOf(f) ==
  FieldChildren(f) \cup ItemChildren(f) \cup MapChildren(f) \cup BranchChildren(f)

\* The loops of the walks, which are the same but for the order of properties.
PropertyLoop(f, names) ==
  [i \in DOMAIN names |-> FieldChild(f, f.node.properties[names[i]], names[i])]

ItemLoop(f) ==
  IF f.node.items = {} \/ ~IsArray(f.value) THEN <<>>
  ELSE [i \in DOMAIN f.value.elems |-> ItemChild(f, CHOOSE s \in f.node.items : TRUE, i)]

MapLoop(f) ==
  IF f.node.preserveUnknown \/ f.node.additional = {} THEN <<>>
  ELSE [i \in DOMAIN MapOrder(Keys(f.value) \ Declared(f)) |->
          FieldChild(f, CHOOSE s \in f.node.additional : TRUE,
                     MapOrder(Keys(f.value) \ Declared(f))[i])]

BranchLoop(f) ==
  [i \in DOMAIN (f.node.allOf \o f.node.oneOf \o f.node.anyOf) |->
     BranchFrame(f, (f.node.allOf \o f.node.oneOf \o f.node.anyOf)[i])]

---------------------------------------------------------------------------
\* A function on the indices of a sequence is a sequence.
LEMMA MappedSequence ==
  ASSUME NEW s, IsSequence(s), NEW t, t = [i \in DOMAIN s |-> t[i]]
  PROVE  IsSequence(t)
<1>1. Len(s) \in Nat /\ DOMAIN s = 1..Len(s)
  BY DEF IsSequence
<1>2. t \in [1..Len(s) -> ToSet(t)]
  BY <1>1 DEF ToSet
<1> QED BY <1>1, <1>2 DEF IsSequence

\* Three lists of branches, one after the other, list the branches of all three.
LEMMA SequenceOfThree ==
  ASSUME NEW p, NEW q, NEW r, IsSequence(p), IsSequence(q), IsSequence(r)
  PROVE  /\ IsSequence(p \o q \o r)
         /\ ToSet(p \o q \o r) = ToSet(p) \cup ToSet(q) \cup ToSet(r)
<1> DEFINE S  == ToSet(p) \cup ToSet(q) \cup ToSet(r)
           pq == p \o q
           t  == pq \o r
<1>1. p \in Seq(S) /\ q \in Seq(S) /\ r \in Seq(S)
  BY DEF IsSequence
<1> HIDE DEF S
<1>2. pq \in Seq(S) /\ ToSet(pq) = ToSet(p) \cup ToSet(q)
  BY ONLY <1>1, MembersOfConcat
<1> HIDE DEF pq
<1>3. t \in Seq(S) /\ ToSet(t) = ToSet(pq) \cup ToSet(r)
  BY ONLY <1>1, <1>2, MembersOfConcat
<1> HIDE DEF t
<1>4. t \in Seq(ToSet(t))
  BY <1>3 DEF ToSet
<1> QED BY <1>2, <1>3, <1>4 DEF IsSequence, pq, t

\* Four loops, one after the other, visit what each of them visits.
LEMMA MembersOfFour ==
  ASSUME NEW p, NEW q, NEW r, NEW s,
         IsSequence(p), IsSequence(q), IsSequence(r), IsSequence(s)
  PROVE  /\ IsSequence(p \o q \o r \o s)
         /\ ToSet(p \o q \o r \o s) = ToSet(p) \cup ToSet(q) \cup ToSet(r) \cup ToSet(s)
<1> DEFINE S == ToSet(p) \cup ToSet(q) \cup ToSet(r) \cup ToSet(s)
<1>1. p \in Seq(S) /\ q \in Seq(S) /\ r \in Seq(S) /\ s \in Seq(S)
  BY DEF IsSequence
<1> DEFINE pq  == p \o q
           pqr == pq \o r
<1> HIDE DEF S
<1>2. pq \in Seq(S) /\ ToSet(pq) = ToSet(p) \cup ToSet(q)
  BY ONLY <1>1, MembersOfConcat
<1> HIDE DEF pq
<1>3. pqr \in Seq(S) /\ ToSet(pqr) = ToSet(pq) \cup ToSet(r)
  BY ONLY <1>1, <1>2, MembersOfConcat
<1> HIDE DEF pqr
<1> DEFINE t == pqr \o s
<1>4. t \in Seq(S) /\ ToSet(t) = ToSet(pqr) \cup ToSet(s)
  BY ONLY <1>1, <1>3, MembersOfConcat
<1> HIDE DEF t
<1>5. t \in Seq(ToSet(t))
  BY <1>4 DEF ToSet
<1> QED BY <1>2, <1>3, <1>4, <1>5 DEF IsSequence, pq, pqr, t

---------------------------------------------------------------------------
\* A permutation of a finite set lists all of it.
LEMMA PermutationsList ==
  ASSUME NEW K, IsFiniteSet(K), NEW names \in SetToSeqs(K)
  PROVE  names \in Seq(K) /\ K \subseteq ToSet(names)
<1> DEFINE n == Cardinality(K)
           D == 1..n
<1>1. n \in Nat
  BY FS_CardinalityType
<1> HIDE DEF n
<1>3. names \in [D -> K] /\ \A i \in D, j \in D : i # j => names[i] # names[j]
  BY DEF SetToSeqs, n
<1>4. IsFiniteSet(D) /\ Cardinality(D) = n
  <2>1. 1 \in Int /\ n \in Int
    BY <1>1
  <2>2. IsFiniteSet(D) /\ Cardinality(D) = IF 1 > n THEN 0 ELSE n - 1 + 1
    BY <2>1, FS_Interval
  <2> QED BY <1>1, <2>2
<1> HIDE DEF D
<1>5. names \in Injection(D, K)
  BY <1>3 DEF Injection, IsInjective
<1>6. names \in Surjection(D, K)
  BY <1>4, <1>5, FS_Injection DEF n
<1>7. \A k \in K : \E i \in D : names[i] = k
  BY <1>6 DEF Surjection
<1>8. DOMAIN names = D
  BY <1>3
<1> QED BY <1>1, <1>3, <1>7, <1>8 DEF D, ToSet

\* The keys the two walks take fields by.
LEMMA KeysOfFrame ==
  ASSUME NEW f, IsFrame(f), NEW K
  PROVE  /\ IsFiniteSet(K \cap Keys(f.value))
         /\ IsFiniteSet(Keys(f.value) \ K)
<1> DEFINE keys == Keys(f.value)
<1>1. IsFiniteSet(keys)
  BY DEF IsFrame
<1> HIDE DEF keys
<1>2. K \cap keys \subseteq keys /\ keys \ K \subseteq keys
  OBVIOUS
<1>3. IsFiniteSet(K \cap keys) /\ IsFiniteSet(keys \ K)
  BY ONLY <1>1, <1>2, FS_Subset
<1> QED BY <1>3 DEF keys

\* What each loop visits: one child for each field, item or branch.
LEMMA PropertyLoopVisits ==
  ASSUME NEW f, NEW names \in Seq(Declared(f) \cap Keys(f.value)),
         Declared(f) \cap Keys(f.value) \subseteq ToSet(names)
  PROVE  IsSequence(PropertyLoop(f, names)) /\ ToSet(PropertyLoop(f, names)) = FieldChildren(f)
<1> DEFINE t == PropertyLoop(f, names)
           K == Declared(f) \cap Keys(f.value)
<1>1. /\ DOMAIN t = DOMAIN names /\ t = [i \in DOMAIN names |-> t[i]]
      /\ \A i \in DOMAIN names : t[i] = FieldChild(f, f.node.properties[names[i]], names[i])
  BY DEF PropertyLoop
<1>2. IsSequence(names)
  BY DEF IsSequence, ToSet
<1>3. \A i \in DOMAIN names : names[i] \in K
  OBVIOUS
<1>4. \A k \in K : \E i \in DOMAIN names : names[i] = k
  BY DEF ToSet
<1> HIDE DEF t, K
<1>5. IsSequence(t)
  BY ONLY <1>1, <1>2, MappedSequence
<1>6. ToSet(t) = {FieldChild(f, f.node.properties[k], k) : k \in K}
  BY <1>1, <1>3, <1>4 DEF ToSet
<1> QED BY <1>5, <1>6 DEF t, K, FieldChildren

\* The item loop visits each item of an array once, under the one item schema.
LEMMA ItemLoopVisits ==
  ASSUME NEW f, IsFrame(f)
  PROVE  IsSequence(ItemLoop(f)) /\ ToSet(ItemLoop(f)) = ItemChildren(f)
<1>1. CASE f.node.items = {} \/ ~IsArray(f.value)
  <2>1. ItemLoop(f) = <<>> /\ ItemChildren(f) = {}
    BY <1>1 DEF ItemLoop, ItemChildren
  <2>2. IsSequence(<<>>) /\ ToSet(<<>>) = {}
    BY DEF IsSequence, ToSet
  <2> QED BY <2>1, <2>2
<1>2. CASE f.node.items # {} /\ IsArray(f.value)
  <2> DEFINE t == ItemLoop(f)
             s == CHOOSE s \in f.node.items : TRUE
             elems == f.value.elems
  <2>1. f.node.items = {s}
    BY <1>2 DEF IsFrame, IsNode, IsOption
  <2>2. IsSequence(elems)
    BY <1>2 DEF IsFrame
  <2>3. t = [i \in DOMAIN elems |-> ItemChild(f, s, i)]
    BY <1>2 DEF ItemLoop
  <2>4. ItemChildren(f) = {ItemChild(f, n, i) : n \in f.node.items, i \in DOMAIN elems}
    BY <1>2 DEF ItemChildren
  <2> HIDE DEF t, s, elems
  <2>5. DOMAIN t = DOMAIN elems /\ t = [i \in DOMAIN elems |-> t[i]]
        /\ \A i \in DOMAIN elems : t[i] = ItemChild(f, s, i)
    BY <2>3
  <2>6. IsSequence(t)
    BY ONLY <2>2, <2>5, MappedSequence
  <2>7. ToSet(t) = {ItemChild(f, s, i) : i \in DOMAIN elems}
    BY <2>5 DEF ToSet
  <2> QED BY <2>1, <2>4, <2>6, <2>7 DEF t
<1> QED BY <1>1, <1>2

\* The map loop visits each field that no property declares.
LEMMA MapLoopVisits ==
  ASSUME NEW f, IsFrame(f)
  PROVE  IsSequence(MapLoop(f)) /\ ToSet(MapLoop(f)) = MapChildren(f)
<1>1. CASE f.node.preserveUnknown \/ f.node.additional = {}
  <2>1. MapLoop(f) = <<>> /\ MapChildren(f) = {}
    BY <1>1 DEF MapLoop, MapChildren
  <2>2. IsSequence(<<>>) /\ ToSet(<<>>) = {}
    BY DEF IsSequence, ToSet
  <2> QED BY <2>1, <2>2
<1>2. CASE ~(f.node.preserveUnknown \/ f.node.additional = {})
  <2> DEFINE t == MapLoop(f)
             s == CHOOSE s \in f.node.additional : TRUE
             K == Keys(f.value) \ Declared(f)
             extra == MapOrder(K)
  <2>1. f.node.additional = {s}
    BY <1>2 DEF IsFrame, IsNode, IsOption
  <2>2. IsFiniteSet(K)
    BY KeysOfFrame
  <2>3. t = [i \in DOMAIN extra |-> FieldChild(f, s, extra[i])]
    BY <1>2 DEF MapLoop
  <2>4. MapChildren(f) = {FieldChild(f, n, k) : n \in f.node.additional, k \in K}
    BY <1>2 DEF MapChildren
  <2> HIDE DEF t, s, K
  <2>5. extra \in Seq(K) /\ K \subseteq ToSet(extra)
    BY DEF K, IsFrame, Lists
  <2> HIDE DEF extra
  <2>6. IsSequence(extra)
    BY <2>5 DEF IsSequence, ToSet
  <2>7. DOMAIN t = DOMAIN extra /\ t = [i \in DOMAIN extra |-> t[i]]
        /\ \A i \in DOMAIN extra : t[i] = FieldChild(f, s, extra[i])
    BY <2>3
  <2>8. IsSequence(t)
    BY ONLY <2>6, <2>7, MappedSequence
  <2>9. (\A i \in DOMAIN extra : extra[i] \in K)
        /\ \A k \in K : \E i \in DOMAIN extra : extra[i] = k
    BY <2>5 DEF ToSet
  <2>10. ToSet(t) = {FieldChild(f, s, k) : k \in K}
    BY <2>7, <2>9 DEF ToSet
  <2> QED BY <2>1, <2>4, <2>8, <2>10 DEF t
<1> QED BY <1>1, <1>2

\* The junctor loop visits each branch of allOf, oneOf and anyOf.
LEMMA BranchLoopVisits ==
  ASSUME NEW f, IsFrame(f)
  PROVE  IsSequence(BranchLoop(f)) /\ ToSet(BranchLoop(f)) = BranchChildren(f)
<1> DEFINE t == BranchLoop(f)
           p == f.node.allOf
           q == f.node.oneOf
           r == f.node.anyOf
           branches == p \o q \o r
<1>1. IsSequence(p) /\ IsSequence(q) /\ IsSequence(r)
  BY DEF IsFrame, IsNode
<1>2. t = [i \in DOMAIN branches |-> BranchFrame(f, branches[i])]
  BY DEF BranchLoop
<1>3. BranchesOf(f.node) = ToSet(p) \cup ToSet(q) \cup ToSet(r)
  BY DEF BranchesOf
<1> HIDE DEF t, p, q, r
<1>4. IsSequence(branches) /\ ToSet(branches) = ToSet(p) \cup ToSet(q) \cup ToSet(r)
  BY ONLY <1>1, SequenceOfThree
<1> HIDE DEF branches
<1>5. DOMAIN t = DOMAIN branches /\ t = [i \in DOMAIN branches |-> t[i]]
      /\ \A i \in DOMAIN branches : t[i] = BranchFrame(f, branches[i])
  BY <1>2
<1>6. IsSequence(t)
  BY ONLY <1>4, <1>5, MappedSequence
<1>7. ToSet(t) = {BranchFrame(f, n) : n \in ToSet(branches)}
  BY <1>5 DEF ToSet
<1> QED BY <1>3, <1>4, <1>6, <1>7 DEF t, BranchChildren

\* The four loops together visit the children of ChildrenOf.
LEMMA LoopsVisit ==
  ASSUME NEW f, IsFrame(f),
         NEW names \in Seq(Declared(f) \cap Keys(f.value)),
         Declared(f) \cap Keys(f.value) \subseteq ToSet(names)
  PROVE  /\ IsSequence(PropertyLoop(f, names) \o ItemLoop(f) \o MapLoop(f) \o BranchLoop(f))
         /\ ToSet(PropertyLoop(f, names) \o ItemLoop(f) \o MapLoop(f) \o BranchLoop(f))
              = ChildrenOf(f)
<1> DEFINE p == PropertyLoop(f, names)
           q == ItemLoop(f)
           r == MapLoop(f)
           s == BranchLoop(f)
<1>1. /\ IsSequence(p) /\ ToSet(p) = FieldChildren(f)
      /\ IsSequence(q) /\ ToSet(q) = ItemChildren(f)
      /\ IsSequence(r) /\ ToSet(r) = MapChildren(f)
      /\ IsSequence(s) /\ ToSet(s) = BranchChildren(f)
  BY PropertyLoopVisits, ItemLoopVisits, MapLoopVisits, BranchLoopVisits
<1> HIDE DEF p, q, r, s
<1>2. /\ IsSequence(p \o q \o r \o s)
      /\ ToSet(p \o q \o r \o s) = ToSet(p) \cup ToSet(q) \cup ToSet(r) \cup ToSet(s)
  BY ONLY <1>1, MembersOfFour
<1> QED BY <1>1, <1>2 DEF ChildrenOf, p, q, r, s

---------------------------------------------------------------------------
\* A list of a finite set's members, each once, is one of its permutations.
LEMMA ListsArePermutations ==
  ASSUME NEW K, IsFiniteSet(K), NEW order, Lists(order, K)
  PROVE  order \in SetToSeqs(K)
<1> DEFINE n == Cardinality(K)
           D == 1..n
<1>1. n \in Nat
  BY FS_CardinalityType
<1>2. order \in Seq(K) /\ K \subseteq ToSet(order) /\ Len(order) = n
  BY DEF Lists
<1>3. SetToSeqs(K) = {g \in [D -> K] : \A i, j \in D : i # j => g[i] # g[j]}
  BY DEF SetToSeqs
<1> HIDE DEF n
<1>4. IsFiniteSet(D) /\ Cardinality(D) = n
  <2>1. 1 \in Int /\ n \in Int
    BY <1>1
  <2>2. IsFiniteSet(D) /\ Cardinality(D) = IF 1 > n THEN 0 ELSE n - 1 + 1
    BY <2>1, FS_Interval
  <2> QED BY <1>1, <2>2
<1>5. order \in [D -> K] /\ DOMAIN order = D
  BY <1>2
<1> HIDE DEF D
<1>6. \A k \in K : \E i \in D : order[i] = k
  BY <1>2, <1>5 DEF ToSet
<1>7. order \in Surjection(D, K)
  BY <1>5, <1>6 DEF Surjection
<1>8. order \in Injection(D, K)
  BY <1>4, <1>7, FS_SurjSameCardinalityImpliesInj DEF n
<1>9. \A i, j \in D : i # j => order[i] # order[j]
  BY <1>5, <1>8 DEF Injection, IsInjective
<1> QED BY <1>3, <1>5, <1>9

\* Two permutations of a set reorder each other: the second is a bijection, and
\* its inverse leads from the first back.
LEMMA PermutationsReorder ==
  ASSUME NEW K, IsFiniteSet(K), NEW p \in SetToSeqs(K), NEW q \in SetToSeqs(K)
  PROVE  Len(q) = Len(p) /\ Reorders(q, p)
<1> DEFINE n == Cardinality(K)
           D == 1..n
           pi == [i \in D |-> CHOOSE j \in D : p[j] = q[i]]
<1>1. SetToSeqs(K) = {g \in [D -> K] : \A i, j \in D : i # j => g[i] # g[j]}
  BY DEF SetToSeqs
<1>2. n \in Nat
  BY FS_CardinalityType
<1>3. /\ p \in Seq(K) /\ K \subseteq ToSet(p)
      /\ q \in Seq(K) /\ K \subseteq ToSet(q)
  BY PermutationsList
<1> HIDE DEF n
<1>4. DOMAIN p = D /\ DOMAIN q = D
  BY <1>1
<1>5. Len(p) = n /\ Len(q) = n
  BY <1>2, <1>3, <1>4
<1> HIDE DEF D
<1>6. ASSUME NEW i \in D
      PROVE  \E j \in D : p[j] = q[i]
  <2>1. q[i] \in K
    BY <1>1
  <2> QED BY <2>1, <1>3, <1>4 DEF ToSet
<1>7. \A i \in D : pi[i] \in D /\ p[pi[i]] = q[i]
  BY <1>6
<1>8. pi \in [D -> D]
  BY <1>6
<1> HIDE DEF pi
<1>9. ASSUME NEW i \in D, NEW j \in D, pi[i] = pi[j]
      PROVE  i = j
  BY <1>1, <1>7, <1>9
<1>10. ASSUME NEW j \in D
       PROVE  \E i \in D : pi[i] = j
  <2>1. p[j] \in K
    BY <1>1
  <2>2. PICK i \in D : q[i] = p[j]
    BY <2>1, <1>3, <1>4 DEF ToSet
  <2>3. p[pi[i]] = p[j] /\ pi[i] \in D
    BY <2>2, <1>7
  <2>4. pi[i] = j
    BY <1>1, <2>3
  <2> QED BY <2>4
<1>11. pi \in Bijection(D, D)
  BY <1>8, <1>9, <1>10 DEF Bijection, Injection, Surjection, IsInjective
<1> QED BY <1>4, <1>5, <1>7, <1>11 DEF Reorders

\* What comes after two lists that reorder each other stays where it is.
LEMMA ReordersBefore ==
  ASSUME NEW p, NEW q, NEW r, IsSequence(p), IsSequence(q), IsSequence(r),
         Len(q) = Len(p), Reorders(q, p)
  PROVE  /\ IsSequence(p \o r) /\ IsSequence(q \o r)
         /\ Len(q \o r) = Len(p \o r) /\ Reorders(q \o r, p \o r)
<1> DEFINE S == ToSet(p) \cup ToSet(q) \cup ToSet(r)
           n == Len(p)
           D == DOMAIN (p \o r)
<1>1. p \in Seq(S) /\ q \in Seq(S) /\ r \in Seq(S)
  BY DEF IsSequence
<1> HIDE DEF S
<1>2. /\ n \in Nat /\ Len(q) = n /\ DOMAIN q = 1..n /\ DOMAIN p = 1..n
      /\ p \o r \in Seq(S) /\ q \o r \in Seq(S) /\ Len(q \o r) = Len(p \o r)
      /\ DOMAIN (q \o r) = D /\ 1..n \subseteq D
  BY <1>1
<1>3. \A i \in D : IF i \in 1..n THEN (p \o r)[i] = p[i] /\ (q \o r)[i] = q[i]
                   ELSE (p \o r)[i] = (q \o r)[i]
  BY <1>1
<1>4. PICK pi \in Bijection(1..n, 1..n) : \A i \in 1..n : q[i] = p[pi[i]]
  BY <1>2 DEF Reorders
<1>5. /\ pi \in [1..n -> 1..n]
      /\ \A i \in 1..n, j \in 1..n : pi[i] = pi[j] => i = j
      /\ \A j \in 1..n : \E i \in 1..n : pi[i] = j
  BY <1>4 DEF Bijection, Injection, Surjection, IsInjective
<1> DEFINE move == [i \in D |-> IF i \in 1..n THEN pi[i] ELSE i]
           I == 1..n
           pr == p \o r
           qr == q \o r
<1>6. pr \in Seq(ToSet(pr)) /\ qr \in Seq(ToSet(qr))
  <2>1. pr \in Seq(S) /\ qr \in Seq(S)
    BY <1>2
  <2> HIDE DEF pr, qr
  <2> QED BY <2>1 DEF ToSet
<1> HIDE DEF D, I, n, pr, qr
<1>7. move \in [D -> D]
  BY <1>2, <1>5 DEF I
<1>8. ASSUME NEW i \in D, NEW j \in D, move[i] = move[j]
      PROVE  i = j
  BY <1>5, <1>8 DEF I
<1>9. ASSUME NEW j \in D
      PROVE  \E i \in D : move[i] = j
  <2>1. CASE j \in I
    <3>1. PICK i \in I : pi[i] = j
      BY <2>1, <1>5 DEF I
    <3>2. i \in D /\ move[i] = j
      BY <3>1, <1>2 DEF I
    <3> QED BY <3>2
  <2>2. CASE j \notin I
    <3>1. move[j] = j
      BY <2>2 DEF I
    <3> QED BY <3>1
  <2> QED BY <2>1, <2>2
<1>10. \A i \in D : qr[i] = pr[move[i]]
  <2> TAKE i \in D
  <2>1. CASE i \in I
    <3>1. move[i] = pi[i] /\ pi[i] \in I /\ pi[i] \in D
      BY <2>1, <1>2, <1>5 DEF I
    <3>2. qr[i] = q[i] /\ pr[pi[i]] = p[pi[i]]
      BY <2>1, <3>1, <1>3 DEF I, pr, qr
    <3>3. q[i] = p[pi[i]]
      BY <2>1, <1>4 DEF I
    <3> QED BY <3>1, <3>2, <3>3
  <2>2. CASE i \notin I
    <3>1. move[i] = i
      BY <2>2 DEF I
    <3>2. qr[i] = pr[i]
      BY <2>2, <1>3 DEF I, pr, qr
    <3> QED BY <3>1, <3>2
  <2> QED BY <2>1, <2>2
<1> HIDE DEF move
<1>11. move \in Bijection(D, D)
  BY <1>7, <1>8, <1>9 DEF Bijection, Injection, Surjection, IsInjective
<1>12. DOMAIN pr = D /\ DOMAIN qr = D /\ Len(qr) = Len(pr)
  BY <1>2 DEF pr, qr, D
<1>13. Reorders(qr, pr)
  BY <1>10, <1>11, <1>12 DEF Reorders
<1> QED BY <1>6, <1>12, <1>13 DEF IsSequence, pr, qr

\* Whatever order a node's properties are walked in, the children of a frame are
\* the same, each as often.
LEMMA LoopsReorder ==
  ASSUME NEW f, IsFrame(f),
         NEW names \in SetToSeqs(Declared(f) \cap Keys(f.value)),
         NEW others \in SetToSeqs(Declared(f) \cap Keys(f.value))
  PROVE  Reorders(PropertyLoop(f, names) \o ItemLoop(f) \o MapLoop(f) \o BranchLoop(f),
                  PropertyLoop(f, others) \o ItemLoop(f) \o MapLoop(f) \o BranchLoop(f))
<1> DEFINE K == Declared(f) \cap Keys(f.value)
           p == PropertyLoop(f, others)
           q == PropertyLoop(f, names)
           i == ItemLoop(f)
           m == MapLoop(f)
           b == BranchLoop(f)
<1>1. IsFiniteSet(K)
  BY KeysOfFrame
<1>2. /\ names \in Seq(K) /\ K \subseteq ToSet(names)
      /\ others \in Seq(K) /\ K \subseteq ToSet(others)
      /\ Len(names) = Len(others) /\ Reorders(names, others)
  <2> HIDE DEF K
  <2>1. names \in SetToSeqs(K) /\ others \in SetToSeqs(K)
    BY DEF K
  <2> QED BY <1>1, <2>1, PermutationsList, PermutationsReorder
<1>3. IsSequence(p) /\ IsSequence(q) /\ IsSequence(i) /\ IsSequence(m) /\ IsSequence(b)
  BY <1>2, PropertyLoopVisits, ItemLoopVisits, MapLoopVisits, BranchLoopVisits
<1>4. DOMAIN p = DOMAIN others /\ DOMAIN q = DOMAIN names
  BY DEF PropertyLoop
<1>5. Len(q) = Len(p)
  <2>1. DOMAIN q = DOMAIN p
    BY <1>2, <1>4
  <2> HIDE DEF p, q
  <2> QED BY <1>3, <2>1 DEF IsSequence
<1>6. Reorders(q, p)
  <2>1. PICK pi \in Bijection(DOMAIN names, DOMAIN others) :
          \A j \in DOMAIN names : names[j] = others[pi[j]]
    BY <1>2 DEF Reorders
  <2>2. \A j \in DOMAIN names : pi[j] \in DOMAIN others
    BY <2>1 DEF Bijection, Injection
  <2>3. \A j \in DOMAIN names : q[j] = p[pi[j]]
    BY <2>1, <2>2 DEF PropertyLoop
  <2> HIDE DEF p, q
  <2> QED BY <1>4, <2>1, <2>3 DEF Reorders
<1> HIDE DEF p, q, i, m, b
<1> DEFINE pi1 == p \o i
           qi1 == q \o i
<1>7. /\ IsSequence(pi1) /\ IsSequence(qi1)
      /\ Len(qi1) = Len(pi1) /\ Reorders(qi1, pi1)
  BY ONLY <1>3, <1>5, <1>6, ReordersBefore
<1> HIDE DEF pi1, qi1
<1> DEFINE pm == pi1 \o m
           qm == qi1 \o m
<1>8. /\ IsSequence(pm) /\ IsSequence(qm)
      /\ Len(qm) = Len(pm) /\ Reorders(qm, pm)
  BY ONLY <1>3, <1>7, ReordersBefore
<1> HIDE DEF pm, qm
<1>9. Reorders(qm \o b, pm \o b)
  BY ONLY <1>3, <1>8, ReordersBefore
<1> QED BY <1>9 DEF p, q, i, m, b, pi1, qi1, pm, qm

\* A recursive call is one level deeper.
LEMMA ChildrenDeeper ==
  ASSUME NEW f, IsFrame(f), NEW g \in ChildrenOf(f)
  PROVE  g.depth = f.depth + 1
<1>1. ASSUME NEW node
      PROVE  BranchFrame(f, node).depth = f.depth + 1
  BY DEF BranchFrame, IsFrame
<1> QED BY <1>1 DEF ChildrenOf, FieldChildren, ItemChildren, MapChildren, BranchChildren,
          FieldChild, ItemChild, ChildFrame

---------------------------------------------------------------------------
\* A table of the calls at each depth exists.
LEMMA CallsExist ==
  ASSUME NEW start, NEW n \in Nat
  PROVE  \E at : at = [d \in 0..n |-> IF d = 0 THEN start ELSE CalledBy(at[d - 1])]
<1> DEFINE Is(at, m) == at = [d \in 0..m |-> IF d = 0 THEN start ELSE CalledBy(at[d - 1])]
           S == {m \in Nat : \E at : Is(at, m)}
<1>1. 0 \in S
  <2>1. Is([d \in 0..0 |-> start], 0)
    OBVIOUS
  <2> QED BY <2>1
<1>2. ASSUME NEW m \in S
      PROVE  m + 1 \in S
  <2>1. PICK at : Is(at, m)
    OBVIOUS
  <2> DEFINE longer == [d \in 0..m + 1 |-> IF d = m + 1 THEN CalledBy(at[m]) ELSE at[d]]
  <2>2. ASSUME NEW d \in 0..m + 1
        PROVE  longer[d] = IF d = 0 THEN start ELSE CalledBy(longer[d - 1])
    <3>1. CASE d = m + 1
      BY <3>1
    <3>2. CASE d \in 0..m
      BY <3>2, <2>1
    <3> QED BY <3>1, <3>2
  <2>3. Is(longer, m + 1)
    BY <2>2
  <2>4. \E g : Is(g, m + 1)
    BY <2>3
  <2> QED BY <2>4
<1>3. n \in S
  <2> HIDE DEF S
  <2> QED BY <1>1, <1>2, Induct
<1> QED BY <1>3

\* The first call is there, and what is called by a call is one deeper.
LEMMA CallsStep ==
  ASSUME NEW schema, NEW v
  PROVE  /\ CallsAt(schema, v)[0] = {<<schema, v>>}
         /\ \A d \in 0..MaxDepth : \A c \in CallsAt(schema, v)[d] :
              CallsBelow(c[1], c[2]) \subseteq CallsAt(schema, v)[d + 1]
<1> DEFINE n     == MaxDepth + 1
           start == {<<schema, v>>}
           Is(at) == at = [d \in 0..n |-> IF d = 0 THEN start ELSE CalledBy(at[d - 1])]
           table == CallsAt(schema, v)
<1>1. table = CHOOSE at : Is(at)
  BY DEF CallsAt
<1>2. n \in Nat
  BY DepthAssumption
<1>3. Is(table)
  <2>1. \E at : Is(at)
    <3> HIDE DEF start, n
    <3> QED BY <1>2, CallsExist
  <2> QED BY <1>1, <2>1, Zenon
<1> HIDE DEF start, table
<1>4. table[0] = start
  BY <1>2, <1>3
<1>5. \A d \in 0..MaxDepth : table[d + 1] = CalledBy(table[d])
  <2> TAKE d \in 0..MaxDepth
  <2>1. d + 1 \in 0..n /\ d + 1 # 0 /\ (d + 1) - 1 = d
    BY DepthAssumption
  <2>2. table[d + 1] = CalledBy(table[(d + 1) - 1])
    BY <1>3, <2>1
  <2> QED BY <2>1, <2>2
<1>6. \A cs : \A c \in cs : CallsBelow(c[1], c[2]) \subseteq CalledBy(cs)
  BY DEF CalledBy
<1>7. \A d \in 0..MaxDepth : \A c \in table[d] :
        CallsBelow(c[1], c[2]) \subseteq table[d + 1]
  BY <1>5, <1>6
<1> QED BY <1>4, <1>7 DEF start, table

\* A table of answers exists for any calls.
LEMMA AnswersExist ==
  ASSUME NEW calls, NEW n \in Nat
  PROVE  \E at : at = [left \in 0..n |-> AnswersOf(calls[left], left, at[left - 1])]
<1> DEFINE Is(at, m) == at = [left \in 0..m |-> AnswersOf(calls[left], left, at[left - 1])]
           S == {m \in Nat : \E at : Is(at, m)}
<1>1. 0 \in S
  <2> DEFINE first == AnswersOf(calls[0], 0, {})
             at    == [left \in 0..0 |-> first]
  <2>1. \A below : AnswersOf(calls[0], 0, below) = first
    BY DEF AnswersOf
  <2> HIDE DEF first
  <2>2. Is(at, 0)
    BY <2>1
  <2>3. \E g : Is(g, 0)
    BY <2>2
  <2> QED BY <2>3
<1>2. ASSUME NEW m \in S
      PROVE  m + 1 \in S
  <2>1. PICK at : Is(at, m)
    OBVIOUS
  <2> DEFINE longer == [left \in 0..m + 1 |->
                          IF left = m + 1 THEN AnswersOf(calls[m + 1], m + 1, at[m])
                          ELSE at[left]]
  <2>2. ASSUME NEW left \in 0..m + 1
        PROVE  longer[left] = AnswersOf(calls[left], left, longer[left - 1])
    <3>1. CASE left = m + 1
      BY <3>1
    <3>2. CASE left \in 1..m
      BY <3>2, <2>1
    <3>3. CASE left = 0
      <4>1. longer[0] = AnswersOf(calls[0], 0, at[0 - 1])
        BY <3>3, <2>1
      <4>2. \A x, y : AnswersOf(calls[0], 0, x) = AnswersOf(calls[0], 0, y)
        BY DEF AnswersOf
      <4> HIDE DEF longer
      <4>3. longer[0] = AnswersOf(calls[0], 0, longer[0 - 1])
        BY <4>1, <4>2, Zenon
      <4> QED BY <3>3, <4>3
    <3> QED BY <3>1, <3>2, <3>3
  <2>3. Is(longer, m + 1)
    BY <2>2
  <2> HIDE DEF Is
  <2>4. m + 1 \in Nat
    OBVIOUS
  <2> QED BY <2>3, <2>4
<1>3. n \in S
  <2> HIDE DEF S
  <2> QED BY <1>1, <1>2, Induct
<1> QED BY <1>3

\* Past the cap the answer is the value; before it, what one call makes of the
\* answers one deeper.
LEMMA AnswersStep ==
  ASSUME NEW schema, NEW v, NEW d \in 0..MaxDepth + 1, NEW c \in CallsAt(schema, v)[d]
  PROVE  AnswersAt(schema, v)[MaxDepth + 1 - d][c] =
           IF d = MaxDepth + 1 THEN c[2]
           ELSE ApplyDefaultsInner(c[1], c[2], AnswersAt(schema, v)[MaxDepth - d])
<1> DEFINE Is(at) == at = [left \in 0..MaxDepth + 1 |->
                       AnswersOf(CallsAt(schema, v)[MaxDepth + 1 - left], left, at[left - 1])]
           table == AnswersAt(schema, v)
           calls == [left \in 0..MaxDepth + 1 |-> CallsAt(schema, v)[MaxDepth + 1 - left]]
<1>1. table = CHOOSE at : Is(at)
  BY DEF AnswersAt
<1>2. Is(table)
  <2>1. MaxDepth + 1 \in Nat
    BY DepthAssumption
  <2>2. PICK at : at = [l \in 0..MaxDepth + 1 |-> AnswersOf(calls[l], l, at[l - 1])]
    <3> DEFINE n == MaxDepth + 1
    <3> HIDE DEF calls, n
    <3>1. \E at : at = [l \in 0..n |-> AnswersOf(calls[l], l, at[l - 1])]
      BY <2>1, AnswersExist DEF n
    <3> QED BY <3>1 DEF n
  <2>3. \A l \in 0..MaxDepth + 1 : calls[l] = CallsAt(schema, v)[MaxDepth + 1 - l]
    OBVIOUS
  <2> HIDE DEF calls
  <2>4. Is(at)
    BY <2>2, <2>3
  <2>5. \E a : Is(a)
    BY <2>4
  <2> QED BY <1>1, <2>5, Zenon
<1> HIDE DEF table
<1> DEFINE left == MaxDepth + 1 - d
<1>3. /\ left \in 0..MaxDepth + 1 /\ MaxDepth + 1 - left = d
      /\ left = 0 <=> d = MaxDepth + 1
      /\ left - 1 = MaxDepth - d
  BY DepthAssumption
<1> HIDE DEF left
<1>4. table[left] = AnswersOf(CallsAt(schema, v)[MaxDepth + 1 - left], left, table[left - 1])
  BY ONLY <1>2, <1>3
<1>5. table[left] = AnswersOf(CallsAt(schema, v)[d], left, table[MaxDepth - d])
  BY ONLY <1>3, <1>4, Zenon
<1>6. table[left][c] = IF left = 0 THEN c[2]
                       ELSE ApplyDefaultsInner(c[1], c[2], table[MaxDepth - d])
  BY <1>5 DEF AnswersOf
<1>7. table[left][c] = IF d = MaxDepth + 1 THEN c[2]
                       ELSE ApplyDefaultsInner(c[1], c[2], table[MaxDepth - d])
  BY ONLY <1>3, <1>6, Zenon
<1> QED BY ONLY <1>7, Zenon DEF table, left
=============================================================================
