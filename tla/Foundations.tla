---------------------------- MODULE Foundations ----------------------------
(***************************************************************************)
(* What the proofs of this project have in common: induction over the      *)
(* natural numbers, the members of sequences, and counting what they stand *)
(* for.  The library's induction theorems take the hypothesis as an        *)
(* operator; these take the set of the numbers that have it.               *)
(***************************************************************************)
EXTENDS Integers, SequencesExt, FiniteSetTheorems, WellFoundedInduction, TLAPS

\* A set of natural numbers that is not empty has a least member.
LEMMA LeastNat ==
  ASSUME NEW S \in SUBSET Nat, S # {}
  PROVE  \E n \in S : \A m \in S : n <= m
<1> DEFINE R == {ss \in Nat \X Nat : ss[1] < ss[2]}
<1>1. IsWellFoundedOn(R, Nat)
  BY NatLessThanWellFounded DEF OpToRel
<1>2. ASSUME NEW m \in Nat, NEW n \in Nat, ~(<<m, n>> \in R)
      PROVE  n <= m
  BY <1>2
<1> HIDE DEF R
<1>3. PICK n \in S : \A m \in S : ~ (<<m, n>> \in R)
  BY <1>1, WFMin
<1>4. \A m \in S : m \in Nat /\ n \in Nat
  OBVIOUS
<1>5. \A m \in S : n <= m
  BY <1>2, <1>3, <1>4, Zenon
<1> QED BY <1>5

\* A set that has zero, and with a natural number the next, has them all.
LEMMA Induct ==
  ASSUME NEW S, 0 \in S, \A n \in Nat : n \in S => n + 1 \in S
  PROVE  Nat \subseteq S
<1> SUFFICES ASSUME Nat \ S # {} PROVE FALSE
  OBVIOUS
<1>1. PICK n \in Nat \ S : \A m \in Nat \ S : n <= m
  BY LeastNat
<1>2. n # 0 /\ n - 1 \in Nat /\ n - 1 \in S
  BY <1>1
<1> QED BY <1>1, <1>2

---------------------------------------------------------------------------
\* The members of a sequence, taken apart and put together.
LEMMA MembersOfHeadTail ==
  ASSUME NEW S, NEW s \in Seq(S), s # <<>>
  PROVE  /\ Head(s) \in S
         /\ Tail(s) \in Seq(S)
         /\ ToSet(s) = {Head(s)} \cup ToSet(Tail(s))
<1>1. Head(s) \in S /\ Tail(s) \in Seq(S)
  OBVIOUS
<1>2. ToSet(s) \subseteq {Head(s)} \cup ToSet(Tail(s))
  <2> SUFFICES ASSUME NEW i \in DOMAIN s
               PROVE  s[i] \in {Head(s)} \cup ToSet(Tail(s))
    BY DEF ToSet
  <2>1. CASE i = 1
    BY <2>1
  <2>2. CASE i # 1
    <3>1. i - 1 \in DOMAIN Tail(s) /\ Tail(s)[i - 1] = s[i]
      BY <2>2
    <3> QED BY <3>1 DEF ToSet
  <2> QED BY <2>1, <2>2
<1>3. {Head(s)} \cup ToSet(Tail(s)) \subseteq ToSet(s)
  <2>1. Head(s) \in ToSet(s)
    BY DEF ToSet
  <2>2. ASSUME NEW i \in DOMAIN Tail(s)
        PROVE  Tail(s)[i] \in ToSet(s)
    <3>1. i + 1 \in DOMAIN s /\ s[i + 1] = Tail(s)[i]
      OBVIOUS
    <3> QED BY <3>1 DEF ToSet
  <2> QED BY <2>1, <2>2 DEF ToSet
<1> QED BY <1>1, <1>2, <1>3

\* Two lists, one after the other, have the members of both.
LEMMA MembersOfConcat ==
  ASSUME NEW S, NEW s \in Seq(S), NEW t \in Seq(S)
  PROVE  s \o t \in Seq(S) /\ ToSet(s \o t) = ToSet(s) \cup ToSet(t)
<1>1. ToSet(s \o t) \subseteq ToSet(s) \cup ToSet(t)
  <2> SUFFICES ASSUME NEW i \in DOMAIN (s \o t)
               PROVE  (s \o t)[i] \in ToSet(s) \cup ToSet(t)
    BY DEF ToSet
  <2>1. CASE i <= Len(s)
    <3>1. i \in DOMAIN s /\ (s \o t)[i] = s[i]
      BY <2>1
    <3> QED BY <3>1 DEF ToSet
  <2>2. CASE ~(i <= Len(s))
    <3>1. i - Len(s) \in DOMAIN t /\ (s \o t)[i] = t[i - Len(s)]
      BY <2>2
    <3> QED BY <3>1 DEF ToSet
  <2> QED BY <2>1, <2>2
<1>2. ASSUME NEW i \in DOMAIN s
      PROVE  s[i] \in ToSet(s \o t)
  <2>1. i \in DOMAIN (s \o t) /\ (s \o t)[i] = s[i]
    OBVIOUS
  <2> QED BY <2>1 DEF ToSet
<1>3. ASSUME NEW i \in DOMAIN t
      PROVE  t[i] \in ToSet(s \o t)
  <2>1. i + Len(s) \in DOMAIN (s \o t) /\ (s \o t)[i + Len(s)] = t[i]
    OBVIOUS
  <2> QED BY <2>1 DEF ToSet
<1> QED BY <1>1, <1>2, <1>3 DEF ToSet

---------------------------------------------------------------------------
(***************************************************************************)
(* The sum of the weights of a sequence's entries, each member weighing    *)
(* w[member]: the number of the shares that the entries have.              *)
(***************************************************************************)
Shares(s, w) == {x \in (DOMAIN s) \X Nat : x[2] < w[s[x[1]]]}

TotalOf(s, w) == Cardinality(Shares(s, w))

\* Finitely many entries have finitely many shares.
LEMMA TotalIsNat ==
  ASSUME NEW S, NEW w \in [S -> Nat], NEW s \in Seq(S)
  PROVE  IsFiniteSet(Shares(s, w)) /\ TotalOf(s, w) \in Nat
<1> DEFINE D == DOMAIN s
           Of == [i \in D |-> {i} \X (0..w[s[i]] - 1)]
           R == {Of[i] : i \in D}
<1>1. IsFiniteSet(D)
  <2>1. 1 \in Int /\ Len(s) \in Int /\ D = 1..Len(s)
    OBVIOUS
  <2> HIDE DEF D
  <2>2. IsFiniteSet(1..Len(s))
    BY ONLY <2>1, FS_Interval
  <2> QED BY <2>1, <2>2
<1>2. ASSUME NEW i \in D
      PROVE  w[s[i]] \in Nat /\ IsFiniteSet(Of[i])
  <2> DEFINE n == w[s[i]] - 1
             I == 0..n
  <2>1. w[s[i]] \in Nat
    OBVIOUS
  <2>2. 0 \in Int /\ n \in Int
    BY <2>1
  <2>3. IsFiniteSet({i})
    BY FS_Singleton
  <2>4. IsFiniteSet(I)
    BY ONLY <2>2, FS_Interval
  <2> HIDE DEF I
  <2>5. IsFiniteSet({i} \X I)
    BY ONLY <2>3, <2>4, FS_Product
  <2> QED BY <2>1, <2>5 DEF I
<1>3. Of \in Surjection(D, R)
  BY DEF Surjection
<1>4. \A T \in R : IsFiniteSet(T)
  BY <1>2
<1>5. Shares(s, w) = UNION R
  <2>1. Shares(s, w) \subseteq UNION R
    <3> SUFFICES ASSUME NEW x \in Shares(s, w) PROVE x \in UNION R
      OBVIOUS
    <3>1. x[1] \in D /\ x[2] \in Nat /\ x[2] < w[s[x[1]]] /\ x = <<x[1], x[2]>>
      BY DEF Shares
    <3>2. w[s[x[1]]] \in Nat
      BY <3>1, <1>2
    <3>3. x[2] \in 0..w[s[x[1]]] - 1
      BY <3>1, <3>2
    <3>4. x \in Of[x[1]]
      BY <3>1, <3>3
    <3> QED BY <3>1, <3>4
  <2>2. ASSUME NEW i \in D, NEW x \in Of[i]
        PROVE  x \in Shares(s, w)
    <3>1. x[1] = i /\ x[2] \in 0..w[s[i]] - 1 /\ x = <<x[1], x[2]>>
      OBVIOUS
    <3>2. x[2] \in Nat /\ x[2] < w[s[i]]
      BY <3>1, <1>2
    <3> QED BY <3>1, <3>2 DEF Shares
  <2> QED BY <2>1, <2>2
<1> HIDE DEF D, Of, R
<1>6. IsFiniteSet(R)
  BY ONLY <1>1, <1>3, FS_Surjection
<1>7. IsFiniteSet(Shares(s, w))
  BY <1>4, <1>5, <1>6, FS_UNION
<1> QED BY <1>7, FS_CardinalityType DEF TotalOf

\* No entries weigh nothing, and one entry weighs what it weighs.
LEMMA TotalOfNone ==
  ASSUME NEW w
  PROVE  TotalOf(<<>>, w) = 0
<1>1. Shares(<<>>, w) = {}
  BY DEF Shares
<1> QED BY <1>1, FS_EmptySet DEF TotalOf

\* Of one entry it is that entry's share.
LEMMA TotalOfOne ==
  ASSUME NEW S, NEW w \in [S -> Nat], NEW e \in S
  PROVE  TotalOf(<<e>>, w) = w[e]
<1> DEFINE n == w[e]
           I == 0..n - 1
<1>1. n \in Nat
  OBVIOUS
<1>2. Shares(<<e>>, w) = {1} \X I
  <2>1. DOMAIN <<e>> = {1} /\ <<e>>[1] = e
    OBVIOUS
  <2>2. \A x \in Nat : x < n <=> x \in I
    BY <1>1
  <2>3. Shares(<<e>>, w) = {x \in {1} \X Nat : x[2] < n}
    BY <2>1 DEF Shares
  <2>4. I \subseteq Nat
    BY <1>1
  <2> HIDE DEF n, I
  <2> QED BY <2>2, <2>3, <2>4
<1>3. IsFiniteSet({1}) /\ Cardinality({1}) = 1
  BY FS_Singleton
<1>4. IsFiniteSet(I) /\ Cardinality(I) = n
  <2>1. 0 \in Int /\ n - 1 \in Int
    BY <1>1
  <2> DEFINE m == n - 1
  <2>2. IsFiniteSet(0..m) /\ Cardinality(0..m) = IF 0 > m THEN 0 ELSE m - 0 + 1
    <3> HIDE DEF m
    <3> QED BY <2>1, FS_Interval DEF m
  <2> QED BY <1>1, <2>2
<1> HIDE DEF n, I
<1>5. Cardinality({1} \X I) = 1 * n
  BY ONLY <1>3, <1>4, FS_Product
<1>6. 1 * n = n
  BY <1>1
<1> QED BY <1>2, <1>5, <1>6 DEF TotalOf, n

\* The shares of two lists, one after the other, are those of both.
LEMMA TotalOfBoth ==
  ASSUME NEW S, NEW w \in [S -> Nat], NEW s \in Seq(S), NEW t \in Seq(S)
  PROVE  TotalOf(s \o t, w) = TotalOf(s, w) + TotalOf(t, w)
<1> DEFINE n == Len(s)
           A == Shares(s, w)
           B == Shares(t, w)
           C == {x \in Shares(s \o t, w) : x[1] > n}
           move == [x \in B |-> <<x[1] + n, x[2]>>]
<1>1. s \o t \in Seq(S) /\ n \in Nat
  OBVIOUS
<1>2. /\ \A i \in DOMAIN s : i \in DOMAIN (s \o t) /\ (s \o t)[i] = s[i] /\ i <= n
      /\ \A i \in DOMAIN t : i + n \in DOMAIN (s \o t) /\ (s \o t)[i + n] = t[i]
                             /\ i + n > n
      /\ \A i \in DOMAIN (s \o t) : IF i <= n THEN i \in DOMAIN s
                                    ELSE i - n \in DOMAIN t /\ (i - n) + n = i
      /\ DOMAIN s \subseteq Nat /\ DOMAIN t \subseteq Nat /\ DOMAIN (s \o t) \subseteq Nat
  <2>1. ASSUME NEW i \in DOMAIN s
        PROVE  i \in DOMAIN (s \o t) /\ (s \o t)[i] = s[i] /\ i <= n
    OBVIOUS
  <2>2. ASSUME NEW i \in DOMAIN t
        PROVE  i + n \in DOMAIN (s \o t) /\ (s \o t)[i + n] = t[i] /\ i + n > n
    OBVIOUS
  <2>3. ASSUME NEW i \in DOMAIN (s \o t)
        PROVE  IF i <= n THEN i \in DOMAIN s ELSE i - n \in DOMAIN t /\ (i - n) + n = i
    OBVIOUS
  <2>4. DOMAIN s \subseteq Nat /\ DOMAIN t \subseteq Nat /\ DOMAIN (s \o t) \subseteq Nat
    OBVIOUS
  <2> QED BY <2>1, <2>2, <2>3, <2>4
<1>3. /\ IsFiniteSet(A) /\ Cardinality(A) \in Nat
      /\ IsFiniteSet(B) /\ Cardinality(B) \in Nat
      /\ IsFiniteSet(Shares(s \o t, w))
  BY <1>1, TotalIsNat DEF TotalOf
<1> DEFINE st == s \o t
<1> HIDE DEF n, st
<1>4. Shares(st, w) = A \cup C
  <2>1. \A x \in A : x \in Shares(st, w)
    BY <1>2 DEF Shares, st
  <2>2. \A x \in Shares(st, w) : x[1] > n \/ x \in A
    <3> SUFFICES ASSUME NEW x \in Shares(st, w), ~(x[1] > n) PROVE x \in A
      OBVIOUS
    <3>1. x[1] \in DOMAIN st /\ x[1] \in Nat /\ x[1] <= n
      BY <1>1, <1>2 DEF Shares, st
    <3>2. x[1] \in DOMAIN s /\ st[x[1]] = s[x[1]]
      BY <1>2, <3>1 DEF st
    <3> QED BY <3>2 DEF Shares
  <2> QED BY <2>1, <2>2 DEF st
<1>5. A \cap C = {}
  <2> SUFFICES ASSUME NEW x \in A, x[1] > n PROVE FALSE
    OBVIOUS
  <2>1. x[1] \in DOMAIN s
    BY DEF Shares
  <2>2. x[1] \in Nat /\ x[1] <= n
    BY <2>1, <1>2
  <2> QED BY <1>1, <2>2
<1>6. move \in Bijection(B, C)
  <2>1. ASSUME NEW x \in B
        PROVE  move[x] \in C
    <3>1. x[1] \in DOMAIN t /\ x[2] \in Nat /\ x[2] < w[t[x[1]]]
      BY DEF Shares
    <3>2. x[1] + n \in DOMAIN st /\ st[x[1] + n] = t[x[1]] /\ x[1] + n > n
      BY <1>2, <3>1 DEF st
    <3>3. move[x] = <<x[1] + n, x[2]>>
      OBVIOUS
    <3> QED BY <3>1, <3>2, <3>3 DEF Shares, st
  <2>2. ASSUME NEW x \in B, NEW y \in B, move[x] = move[y]
        PROVE  x = y
    <3>1. x[1] \in Nat /\ y[1] \in Nat /\ x = <<x[1], x[2]>> /\ y = <<y[1], y[2]>>
      BY <1>2 DEF Shares
    <3>2. x[1] + n = y[1] + n /\ x[2] = y[2]
      BY <2>2
    <3>3. x[1] = y[1]
      BY <1>1, <3>1, <3>2
    <3> QED BY <3>1, <3>2, <3>3
  <2>3. ASSUME NEW z \in C
        PROVE  \E x \in B : move[x] = z
    <3>1. /\ z[1] \in DOMAIN st /\ z[2] \in Nat /\ z[2] < w[st[z[1]]]
          /\ z[1] > n /\ z = <<z[1], z[2]>>
      BY DEF Shares, st
    <3>2. z[1] \in Nat /\ ~(z[1] <= n)
      BY <3>1, <1>1, <1>2 DEF st
    <3>3. z[1] - n \in DOMAIN t /\ (z[1] - n) + n = z[1]
      BY <3>1, <3>2, <1>2 DEF st
    <3> DEFINE i == z[1] - n
               x == <<i, z[2]>>
    <3>4. st[z[1]] = t[i]
      BY <3>3, <1>2 DEF st
    <3>5. x[1] = i /\ x[2] = z[2]
      OBVIOUS
    <3>6. x \in B
      BY <3>1, <3>3, <3>4 DEF Shares
    <3>7. move[x] = z
      BY <3>1, <3>3, <3>6
    <3> QED BY <3>6, <3>7
  <2>4. move \in [B -> C]
    BY <2>1
  <2> HIDE DEF move, B, C
  <2> QED BY <2>2, <2>3, <2>4 DEF Bijection, Injection, Surjection, IsInjective
<1> HIDE DEF A, B, C, move
<1>7. IsFiniteSet(C) /\ Cardinality(C) = Cardinality(B)
  BY <1>3, <1>6, FS_Bijection DEF ExistsBijection
<1>8. Cardinality(A \cup C) = Cardinality(A) + Cardinality(C) - Cardinality(A \cap C)
  BY <1>3, <1>7, FS_Union
<1>9. Cardinality(A \cap C) = 0
  BY <1>5, FS_EmptySet
<1>10. Cardinality(Shares(st, w)) = Cardinality(A) + Cardinality(B)
  BY <1>3, <1>4, <1>7, <1>8, <1>9
<1> QED BY <1>10 DEF TotalOf, A, B, st

\* The head weighs for itself, the tail for the rest.
LEMMA TotalOfHead ==
  ASSUME NEW S, NEW w \in [S -> Nat], NEW s \in Seq(S), s # <<>>
  PROVE  TotalOf(s, w) = w[Head(s)] + TotalOf(Tail(s), w)
<1> DEFINE h == Head(s)
           r == Tail(s)
<1>1. h \in S /\ r \in Seq(S) /\ <<h>> \in Seq(S) /\ s = <<h>> \o r
  OBVIOUS
<1> HIDE DEF h, r
<1>2. TotalOf(<<h>> \o r, w) = TotalOf(<<h>>, w) + TotalOf(r, w)
  BY ONLY <1>1, w \in [S -> Nat], TotalOfBoth
<1>3. TotalOf(<<h>>, w) = w[h]
  BY <1>1, TotalOfOne
<1> QED BY <1>1, <1>2, <1>3 DEF h, r

\* In another order the entries weigh the same.
LEMMA TotalReordered ==
  ASSUME NEW S, NEW w \in [S -> Nat], NEW p \in Seq(S), NEW q \in Seq(S),
         NEW pi \in Bijection(DOMAIN q, DOMAIN p), \A i \in DOMAIN q : q[i] = p[pi[i]]
  PROVE  TotalOf(q, w) = TotalOf(p, w)
<1> DEFINE A == Shares(q, w)
           B == Shares(p, w)
           move == [x \in A |-> <<pi[x[1]], x[2]>>]
<1>1. /\ \A i \in DOMAIN q : pi[i] \in DOMAIN p
      /\ \A i \in DOMAIN q, j \in DOMAIN q : pi[i] = pi[j] => i = j
      /\ \A j \in DOMAIN p : \E i \in DOMAIN q : pi[i] = j
  BY DEF Bijection, Injection, Surjection, IsInjective
<1>2. ASSUME NEW x \in A
      PROVE  move[x] \in B
  BY <1>1 DEF Shares
<1>3. ASSUME NEW x \in A, NEW y \in A, move[x] = move[y]
      PROVE  x = y
  <2>1. x[1] \in DOMAIN q /\ y[1] \in DOMAIN q /\ x = <<x[1], x[2]>> /\ y = <<y[1], y[2]>>
    BY DEF Shares
  <2>2. pi[x[1]] = pi[y[1]] /\ x[2] = y[2]
    BY <1>3
  <2> QED BY <1>1, <2>1, <2>2
<1>4. ASSUME NEW z \in B
      PROVE  \E x \in A : move[x] = z
  <2>1. /\ z[1] \in DOMAIN p /\ z[2] \in Nat /\ z[2] < w[p[z[1]]] /\ z = <<z[1], z[2]>>
    BY DEF Shares
  <2>2. PICK i \in DOMAIN q : pi[i] = z[1]
    BY <1>1, <2>1
  <2> DEFINE x == <<i, z[2]>>
  <2>3. x \in A
    BY <2>1, <2>2 DEF Shares
  <2>4. move[x] = z
    BY <2>1, <2>2, <2>3
  <2> QED BY <2>3, <2>4
<1>5. move \in [A -> B]
  BY <1>2
<1>6. IsFiniteSet(A)
  BY TotalIsNat
<1> HIDE DEF move, A, B
<1>7. move \in Bijection(A, B)
  BY <1>3, <1>4, <1>5 DEF Bijection, Injection, Surjection, IsInjective
<1>8. Cardinality(B) = Cardinality(A)
  BY <1>6, <1>7, FS_Bijection DEF ExistsBijection
<1> QED BY <1>8 DEF TotalOf, A, B

\* Entries that weigh the same one by one weigh the same.
LEMMA TotalAlike ==
  ASSUME NEW s, NEW t, NEW w, NEW v, DOMAIN s = DOMAIN t,
         \A i \in DOMAIN s : w[s[i]] = v[t[i]]
  PROVE  TotalOf(s, w) = TotalOf(t, v)
<1>1. Shares(s, w) = Shares(t, v)
  BY DEF Shares
<1> QED BY <1>1 DEF TotalOf

---------------------------------------------------------------------------
\* How often a list has an entry.
Occurrences(s, e) == Cardinality({i \in DOMAIN s : s[i] = e})

\* A natural number, and none exactly where the list lacks the entry.
LEMMA OccurrencesAreNat ==
  ASSUME NEW S, NEW s \in Seq(S), NEW e
  PROVE  /\ IsFiniteSet({i \in DOMAIN s : s[i] = e}) /\ Occurrences(s, e) \in Nat
         /\ Occurrences(s, e) > 0 <=> e \in ToSet(s)
<1> DEFINE A == {i \in DOMAIN s : s[i] = e}
<1>1. A \in SUBSET Nat /\ Len(s) \in Nat /\ \A i \in A : i <= Len(s)
  OBVIOUS
<1>2. e \in ToSet(s) <=> A # {}
  BY DEF ToSet
<1> HIDE DEF A
<1>3. IsFiniteSet(A)
  BY <1>1, FS_BoundedSetOfNaturals
<1>4. Cardinality(A) \in Nat /\ (Cardinality(A) = 0 <=> A = {})
  BY <1>3, FS_CardinalityType, FS_EmptySet
<1> QED BY <1>2, <1>3, <1>4 DEF A, Occurrences

\* One entry more.
LEMMA OccurrencesOfOneMore ==
  ASSUME NEW S, NEW s \in Seq(S), NEW d, NEW e
  PROVE  Occurrences(Append(s, d), e) = Occurrences(s, e) + IF d = e THEN 1 ELSE 0
<1> DEFINE t == Append(s, d)
           n == Len(s) + 1
           A == {i \in DOMAIN s : s[i] = e}
           B == {i \in DOMAIN t : t[i] = e}
<1>1. /\ DOMAIN t = DOMAIN s \cup {n} /\ n \notin DOMAIN s /\ t[n] = d
      /\ \A i \in DOMAIN s : t[i] = s[i]
  OBVIOUS
<1>2. IsFiniteSet(A) /\ Cardinality(A) \in Nat
  BY OccurrencesAreNat DEF Occurrences
<1>3. n \notin A
  BY <1>1
<1>4. B = IF d = e THEN A \cup {n} ELSE A
  <2> HIDE DEF t, n
  <2> QED BY <1>1
<1> HIDE DEF t, n, A, B
<1>5. Cardinality(A \cup {n}) = IF n \in A THEN Cardinality(A) ELSE Cardinality(A) + 1
  BY ONLY <1>2, FS_AddElement
<1>6. Cardinality(B) = Cardinality(A) + IF d = e THEN 1 ELSE 0
  BY <1>2, <1>3, <1>4, <1>5
<1> QED BY <1>6 DEF Occurrences, A, B, t
=============================================================================
