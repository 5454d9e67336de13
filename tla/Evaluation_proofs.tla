------------------------- MODULE Evaluation_proofs -------------------------
(***************************************************************************)
(* Theorems about two parts of Evaluation: the registration of the         *)
(* function libraries, for any set of builds, and the quantities, for      *)
(* every width of the mantissa, every set of literals and numbers, and     *)
(* expressions of every length.                                            *)
(***************************************************************************)
EXTENDS Registration, Quantity, Foundations

(***************************************************************************)
(* Registration takes no name away and leaves every name with its owner.   *)
(*                                                                         *)
(* The invariant follows the loop of register_all: after i turns a name    *)
(* belongs to the one library among the first i that has it in this build, *)
(* and otherwise still to whom it belonged before.  It is one library      *)
(* because no two of them have a name in common, which is what dispatch.rs *)
(* is there for.                                                           *)
(***************************************************************************)
Before(name) == IF name \in CelNames THEN "cel" ELSE "nobody"

\* Who has the name once the first i libraries had their turn.
OwnedUpTo(i) ==
  \A name \in Names :
    \/ \E j \in 1..i : /\ name \in NamesOf(Libraries[j], features)
                       /\ table[name] = Libraries[j]
    \/ /\ \A j \in 1..i : name \notin NamesOf(Libraries[j], features)
       /\ table[name] = Before(name)

RegInv ==
  /\ features \subseteq Features
  /\ registered \in 0..14
  /\ OwnedUpTo(registered)

---------------------------------------------------------------------------
\* No two register functions but dispatch's have a name in common.
LEMMA LibrariesApart ==
  ASSUME NEW k \in Features, NEW l \in Features, k # l
  PROVE  LibraryNames[k] \cap LibraryNames[l] = {}
BY DEF Features, LibraryNames, StringNames, ListNames, SetNames, RegexNames,
       UrlNames, NetworkNames, SemverNames, FormatNames, QuantityNames,
       JsonPatchNames, NamedFormatNames, MathNames, EncoderNames

\* dispatch registers only what no library registers, in any build.
LEMMA DispatchApart ==
  ASSUME NEW l \in Features
  PROVE  LibraryNames[l] \cap DispatchNames(Features) = {}
BY DEF Features, LibraryNames, StringNames, ListNames, SetNames, RegexNames,
       UrlNames, NetworkNames, SemverNames, FormatNames, QuantityNames,
       JsonPatchNames, NamedFormatNames, MathNames, EncoderNames,
       DispatchNames

\* A smaller build has no more shared names.
LEMMA DispatchGrows ==
  ASSUME NEW fs \in SUBSET Features
  PROVE  DispatchNames(fs) \subseteq DispatchNames(Features)
BY DEF DispatchNames, Features

\* A shared name is registered in a build with one of its sharers, and a name
\* of crate cel in no other build.
LEMMA SharedNames ==
  ASSUME NEW fs \in SUBSET Features, NEW name \in DispatchNames(Features)
  PROVE  /\ Sharers[name] \cap fs # {} => name \in DispatchNames(fs)
         /\ name \in CelNames /\ Sharers[name] \cap fs = {}
              => name \notin DispatchNames(fs)
<1>1. CASE name \in {"indexOf", "lastIndexOf", "isGreaterThan", "isLessThan",
                     "compareTo"}
  BY <1>1 DEF DispatchNames, CelNames
<1>2. CASE name = "reverse"
  <2>1. Sharers[name] = {"strings", "lists"}
    BY <1>2 DEF Sharers
  <2> QED BY <1>2, <2>1 DEF DispatchNames, CelNames
<1>3. CASE name \in {"ip", "string"}
  <2>1. Sharers[name] = {"ip"}
    BY <1>3 DEF Sharers
  <2> QED BY <1>3, <2>1 DEF DispatchNames
<1>4. CASE name \in {"min", "max"}
  <2>1. Sharers[name] = {"lists"}
    BY <1>4 DEF Sharers
  <2> QED BY <1>4, <2>1 DEF DispatchNames
<1> QED BY <1>1, <1>2, <1>3, <1>4 DEF DispatchNames, Features

\* Each library has one turn, and dispatch the last.
LEMMA OneTurnEach ==
  /\ Len(Libraries) = 14
  /\ \A i \in 1..13 : Libraries[i] \in Features
  /\ Libraries[14] = "dispatch"
  /\ \A i, j \in 1..14 : Libraries[i] = Libraries[j] => i = j
  /\ \A l \in Features : \E i \in 1..13 : Libraries[i] = l
BY DEF Libraries, Features

\* In one build, a name belongs to one library at most.
LEMMA OneOwner ==
  ASSUME NEW fs \in SUBSET Features,
         NEW i \in 1..14, NEW j \in 1..14, i # j,
         NEW name \in NamesOf(Libraries[i], fs)
  PROVE  name \notin NamesOf(Libraries[j], fs)
<1>1. ASSUME NEW l \in Features, name \in NamesOf(l, fs)
      PROVE  name \in LibraryNames[l]
  BY <1>1 DEF NamesOf, Features
<1>2. NamesOf("dispatch", fs) \subseteq DispatchNames(Features)
  BY DispatchGrows DEF NamesOf, Features
<1>3. CASE i = 14
  BY <1>1, <1>2, <1>3, OneTurnEach, DispatchApart
<1>4. CASE j = 14
  BY <1>1, <1>2, <1>4, OneTurnEach, DispatchApart
<1>5. CASE i \in 1..13 /\ j \in 1..13
  BY <1>1, <1>5, OneTurnEach, LibrariesApart
<1> QED BY <1>3, <1>4, <1>5

\* The invariant holds before the first turn and after every turn.
LEMMA InitOwned == RegInit => RegInv
<1> SUFFICES ASSUME RegInit PROVE RegInv
  OBVIOUS
<1>1. features \subseteq Features
  BY BuildsAssumption DEF RegInit
<1>2. OwnedUpTo(0)
  BY DEF RegInit, OwnedUpTo, Before
<1> QED BY <1>1, <1>2 DEF RegInit, RegInv

\* The turn of one library leaves every name with an owner that has it (register).
LEMMA TurnOwned == RegInv /\ [Register]_regVars => RegInv'
<1> SUFFICES ASSUME RegInv, [Register]_regVars PROVE RegInv'
  OBVIOUS
<1>1. CASE UNCHANGED regVars
  BY <1>1 DEF RegInv, OwnedUpTo, regVars
<1>2. CASE Register
  <2> DEFINE i == registered + 1
  <2>1. i \in 1..14 /\ registered \in 0..13 /\ registered' = i /\ features' = features
    BY <1>2, OneTurnEach DEF RegInv, Register
  <2>2. ASSUME NEW name \in Names
        PROVE  \/ \E j \in 1..i : /\ name \in NamesOf(Libraries[j], features)
                                  /\ table'[name] = Libraries[j]
               \/ /\ \A j \in 1..i : name \notin NamesOf(Libraries[j], features)
                  /\ table'[name] = Before(name)
    <3>1. CASE name \in NamesOf(Libraries[i], features)
      <4>1. table'[name] = Libraries[i]
        BY <1>2, <3>1 DEF Register
      <4> QED BY <2>1, <3>1, <4>1
    <3>2. CASE name \notin NamesOf(Libraries[i], features)
      <4>1. table'[name] = table[name]
        BY <1>2, <3>2 DEF Register
      <4>2. 1..i = 1..registered \cup {i}
        BY <2>1
      <4> QED BY <3>2, <4>1, <4>2 DEF RegInv, OwnedUpTo
    <3> QED BY <3>1, <3>2
  <2>3. OwnedUpTo(registered)'
    BY <2>1, <2>2 DEF OwnedUpTo, Before
  <2> QED BY <2>1, <2>3 DEF RegInv
<1> QED BY <1>1, <1>2

\* At every moment of register_all, a name belongs to the library of the build
\* that registered it, or to whom it belonged before.
THEOREM NamesOwned == RegSpec => []RegInv
<1> QED BY InitOwned, TurnOwned, PTL DEF RegSpec

---------------------------------------------------------------------------
\* No turn takes a name that a library has.
LEMMA TurnTakesNothing ==
  RegInv /\ [Register]_regVars =>
    [\A name \in Names :
       table[name] \in {"cel", "nobody"} \/ table'[name] = table[name]]_regVars
<1> SUFFICES ASSUME RegInv, Register, NEW name \in Names,
                    table[name] \notin {"cel", "nobody"}
             PROVE  table'[name] = table[name]
  OBVIOUS
<1>1. PICK j \in 1..registered : name \in NamesOf(Libraries[j], features)
  BY DEF RegInv, OwnedUpTo, Before
<1>2. registered + 1 \in 1..14 /\ j \in 1..14 /\ j # registered + 1
  BY OneTurnEach DEF RegInv, Register
<1>3. name \notin NamesOf(Libraries[registered + 1], features)
  BY <1>1, <1>2, OneOwner DEF RegInv
<1> QED BY <1>3 DEF Register

\* Whatever the build, no library takes a name that another one registered:
\* the order of the calls in register_all does not matter.
THEOREM NothingTaken == RegSpec => NeverTaken
<1> QED BY NamesOwned, TurnTakesNothing, PTL DEF RegSpec, NeverTaken

\* What the build has of each library ends up in its hands.
LEMMA OwnersAnswer == RegInv => EveryNameAnswered
<1> SUFFICES ASSUME RegInv, Registered PROVE EveryNameAnswered
  BY DEF EveryNameAnswered
<1>1. registered = 14 /\ features \in SUBSET Features
  BY OneTurnEach DEF RegInv, Registered
<1>2. ASSUME NEW k \in 1..14, NEW name \in Names,
             name \in NamesOf(Libraries[k], features)
      PROVE  table[name] = Libraries[k]
  <2>1. PICK j \in 1..14 : /\ name \in NamesOf(Libraries[j], features)
                           /\ table[name] = Libraries[j]
    BY <1>1, <1>2 DEF RegInv, OwnedUpTo
  <2> QED BY <1>1, <1>2, <2>1, OneOwner
<1>3. ASSUME NEW l \in features, NEW name \in LibraryNames[l]
      PROVE  table[name] = l
  <2>1. PICK k \in 1..13 : Libraries[k] = l
    BY <1>1, OneTurnEach
  <2>2. name \in Names
    BY <1>1 DEF Names
  <2>3. name \in NamesOf(Libraries[k], features)
    BY <1>1, <2>1 DEF NamesOf, Features
  <2> QED BY <1>2, <2>1, <2>2, <2>3
<1>4. ASSUME NEW name \in DOMAIN Sharers
      PROVE  /\ Sharers[name] \cap features # {} => table[name] = "dispatch"
             /\ name \in CelNames /\ Sharers[name] \cap features = {}
                  => table[name] = "cel"
  <2>1. name \in DispatchNames(Features) /\ name \in Names
    <3>1. DOMAIN Sharers = DispatchNames(Features)
      BY DEF Sharers
    <3> QED BY <1>4, <3>1 DEF Names
  <2>2. CASE Sharers[name] \cap features # {}
    <3>1. name \in DispatchNames(features)
      BY <1>1, <2>1, <2>2, SharedNames
    <3>2. name \in NamesOf(Libraries[14], features)
      BY <1>1, <3>1, OneTurnEach DEF NamesOf, Features
    <3>3. table[name] = Libraries[14]
      BY <1>2, <2>1, <3>2
    <3> QED BY <2>2, <3>3, OneTurnEach
  <2>3. CASE name \in CelNames /\ Sharers[name] \cap features = {}
    <3>1. name \notin DispatchNames(features)
      BY <1>1, <2>1, <2>3, SharedNames
    <3>2. name \notin NamesOf(Libraries[14], features)
      BY <1>1, <3>1, OneTurnEach DEF NamesOf, Features
    <3>3. ASSUME NEW j \in 1..13
          PROVE  name \notin NamesOf(Libraries[j], features)
      BY <2>1, OneTurnEach, DispatchApart DEF NamesOf, Features
    <3>4. \A j \in 1..14 : name \notin NamesOf(Libraries[j], features)
      BY <3>2, <3>3
    <3>5. table[name] = Before(name)
      BY <1>1, <2>1, <3>4 DEF RegInv, OwnedUpTo
    <3> QED BY <2>3, <3>5 DEF Before
  <2> QED BY <2>2, <2>3
<1> QED BY <1>3, <1>4 DEF EveryNameAnswered

\* Once register_all is done, every library of the build answers its own names,
\* dispatch the shared ones, and crate cel those that nobody replaced.
THEOREM AllNamesAnswered == RegSpec => []EveryNameAnswered
<1> QED BY NamesOwned, OwnersAnswer, PTL

---------------------------------------------------------------------------
\* The powers of a base exist, and a longer table of them continues a shorter.
IsTable(at, base, n) ==
  at = [i \in 0..n |-> IF i = 0 THEN 1 ELSE base * at[i - 1]]

\* The table of the powers of a base exists.
LEMMA TableExists ==
  ASSUME NEW base \in Int, NEW n \in Nat
  PROVE  \E at : IsTable(at, base, n)
<1> DEFINE S == {m \in Nat : \E at : IsTable(at, base, m)}
<1>1. 0 \in S
  <2> DEFINE one == [i \in 0..0 |-> 1]
  <2>1. IsTable(one, base, 0)
    BY DEF IsTable
  <2> QED BY <2>1
<1>2. ASSUME NEW m \in Nat, m \in S
      PROVE  m + 1 \in S
  <2>1. PICK at : IsTable(at, base, m)
    BY <1>2
  <2> DEFINE longer == [i \in 0..m + 1 |-> IF i = m + 1 THEN base * at[m] ELSE at[i]]
  <2>2. ASSUME NEW i \in 0..m + 1
        PROVE  longer[i] = IF i = 0 THEN 1 ELSE base * longer[i - 1]
    <3>1. CASE i = m + 1
      BY <3>1
    <3>2. CASE i \in 0..m
      <4>1. at[i] = IF i = 0 THEN 1 ELSE base * at[i - 1]
        BY <3>2, <2>1 DEF IsTable
      <4>2. longer[i] = at[i] /\ (i # 0 => longer[i - 1] = at[i - 1])
        BY <3>2
      <4> QED BY <4>1, <4>2, Zenon
    <3> QED BY <3>1, <3>2
  <2>3. IsTable(longer, base, m + 1)
    BY <2>2 DEF IsTable
  <2>4. \E g : IsTable(g, base, m + 1)
    BY <2>3
  <2> QED BY <2>4
<1>3. n \in S
  <2> HIDE DEF S
  <2> QED BY <1>1, <1>2, Induct
<1> QED BY <1>3

\* Two such tables agree where both have entries.
LEMMA TablesAgree ==
  ASSUME NEW base \in Int, NEW m \in Nat, NEW n \in Nat,
         NEW p, IsTable(p, base, m), NEW q, IsTable(q, base, n), m <= n
  PROVE  \A i \in 0..m : p[i] \in Int /\ p[i] = q[i]
<1> DEFINE S == {i \in Nat : i <= m => p[i] \in Int /\ p[i] = q[i]}
<1>1. \A i \in 0..m : p[i] = IF i = 0 THEN 1 ELSE base * p[i - 1]
  BY DEF IsTable
<1>2. \A i \in 0..m : q[i] = IF i = 0 THEN 1 ELSE base * q[i - 1]
  BY DEF IsTable
<1>3. 0 \in S
  BY <1>1, <1>2
<1>4. ASSUME NEW i \in Nat, i \in S
      PROVE  i + 1 \in S
  <2> SUFFICES ASSUME i + 1 <= m
               PROVE  p[i + 1] \in Int /\ p[i + 1] = q[i + 1]
    OBVIOUS
  <2>1. p[i] \in Int /\ p[i] = q[i]
    BY <1>4
  <2>2. p[i + 1] = base * p[i] /\ q[i + 1] = base * q[i]
    BY <1>1, <1>2
  <2> QED BY <2>1, <2>2
<1>5. Nat \subseteq S
  <2> HIDE DEF S
  <2> QED BY <1>3, <1>4, Induct
<1> QED BY <1>5

\* Each power is the base times the one before it (i128::pow).
LEMMA PowerStep ==
  ASSUME NEW base \in Int, NEW n \in Nat
  PROVE  /\ Power(base, 0) = 1
         /\ Power(base, n) \in Int
         /\ Power(base, n + 1) = base * Power(base, n)
<1> DEFINE Table(m) == CHOOSE at : IsTable(at, base, m)
<1>1. \A m \in Nat : Power(base, m) = Table(m)[m]
  BY DEF Power, IsTable
<1>2. \A m \in Nat : IsTable(Table(m), base, m)
  BY TableExists
<1> HIDE DEF Table
<1>3. Table(0)[0] = 1
  BY <1>2 DEF IsTable
<1>4. Table(n)[n] \in Int /\ Table(n)[n] = Table(n + 1)[n]
  BY <1>2, TablesAgree
<1>5. Table(n + 1)[n + 1] = base * Table(n + 1)[n]
  <2>1. IsTable(Table(n + 1), base, n + 1) /\ n + 1 \in 0..n + 1 /\ n + 1 # 0
    BY <1>2
  <2> QED BY <2>1 DEF IsTable
<1> QED BY <1>1, <1>3, <1>4, <1>5

\* What a power of ten is.
LEMMA TenToStep ==
  ASSUME NEW n \in Nat
  PROVE  TenTo(0) = 1 /\ TenTo(n + 1) = 10 * TenTo(n)
  BY PowerStep DEF TenTo

\* Powers of ten exceed any number there is.
LEMMA TenToGrows ==
  ASSUME NEW n \in Nat
  PROVE  TenTo(n) \in Nat /\ TenTo(n) > n
<1> DEFINE S == {m \in Nat : TenTo(m) \in Nat /\ TenTo(m) > m}
<1>1. 0 \in S
  BY TenToStep
<1>2. ASSUME NEW m \in Nat, m \in S
      PROVE  m + 1 \in S
  BY <1>2, TenToStep
<1>3. n \in S
  <2> HIDE DEF S
  <2> QED BY <1>1, <1>2, Induct
<1> QED BY <1>3

\* Multiplication of powers.
LEMMA Associative ==
  ASSUME NEW a \in Int, NEW b \in Int, NEW c \in Int
  PROVE  (a * b) * c = a * (b * c) /\ a * b = b * a /\ a * b \in Int
  OBVIOUS

\* Powers of ten multiply by adding their exponents.
LEMMA TenToSum ==
  ASSUME NEW a \in Nat, NEW b \in Nat
  PROVE  TenTo(a + b) = TenTo(a) * TenTo(b)
<1> DEFINE S == {m \in Nat : TenTo(a + m) = TenTo(a) * TenTo(m)}
<1>1. 0 \in S
  BY TenToStep, TenToGrows
<1>2. ASSUME NEW m \in Nat, m \in S
      PROVE  m + 1 \in S
  <2> DEFINE x == TenTo(a)
             y == TenTo(m)
  <2>1. x \in Int /\ y \in Int
    BY TenToGrows
  <2>2. TenTo(a + m) = x * y
    BY <1>2
  <2>3. TenTo(a + (m + 1)) = 10 * TenTo(a + m)
    <3>1. a + m \in Nat /\ a + (m + 1) = (a + m) + 1
      OBVIOUS
    <3> QED BY <3>1, TenToStep
  <2>4. TenTo(m + 1) = 10 * y
    BY TenToStep
  <2> HIDE DEF x, y
  <2>5. x * (10 * y) = 10 * (x * y)
    BY <2>1
  <2>6. TenTo(a + (m + 1)) = x * TenTo(m + 1)
    BY <2>2, <2>3, <2>4, <2>5
  <2> QED BY <2>6 DEF x
<1>3. b \in S
  <2> HIDE DEF S
  <2> QED BY <1>1, <1>2, Induct
<1> QED BY <1>3

\* To be divisible is to be a multiple.
LEMMA Multiples ==
  ASSUME NEW d \in Nat, d > 0
  PROVE  /\ \A q \in Int : (q * d) % d = 0 /\ (q * d) \div d = q
         /\ \A n \in Int : n % d = 0 => n = (n \div d) * d /\ n \div d \in Int
<1>1. \A q \in Int : (q * d) % d = 0 /\ (q * d) \div d = q
  OBVIOUS
<1>2. \A n \in Int : n % d = 0 => n = (n \div d) * d /\ n \div d \in Int
  OBVIOUS
<1> QED BY <1>1, <1>2

\* A positive factor on both sides changes neither equality nor order.
LEMMA Cancel ==
  ASSUME NEW x \in Int, NEW y \in Int, NEW t \in Nat, t > 0
  PROVE  /\ x * t = y * t => x = y
         /\ x * t < y * t <=> x < y
<1>1. x < y => x * t < y * t
  OBVIOUS
<1>2. y < x => y * t < x * t
  OBVIOUS
<1> QED BY <1>1, <1>2

---------------------------------------------------------------------------
\* The trailing zeros of a number are found and counted to the last.
LEMMA ZerosAreCounted ==
  ASSUME NEW n \in Int, n # 0
  PROVE  LET k == TrailingZeros(n)
         IN  k \in Nat /\ n % TenTo(k) = 0 /\ n % TenTo(k + 1) # 0
<1> DEFINE size == IF n < 0 THEN -n ELSE n
           B == {j \in Nat : n % TenTo(j) # 0}
<1>1. size \in Nat /\ size > 0
  OBVIOUS
<1>2. size \in B
  <2> DEFINE d == TenTo(size)
  <2>1. d \in Nat /\ d > size
    BY <1>1, TenToGrows
  <2> HIDE DEF d
  <2>2. n % d # 0
    <3> SUFFICES ASSUME n % d = 0
                 PROVE  FALSE
      OBVIOUS
    <3>1. n = (n \div d) * d /\ n \div d \in Int
      BY <2>1, <1>1, Multiples
    <3> QED BY <3>1, <2>1, <1>1
  <2> QED BY <2>2, <1>1 DEF d
<1>3. PICK b \in B : \A j \in B : b <= j
  <2> HIDE DEF B
  <2>1. B \in SUBSET Nat
    BY DEF B
  <2> QED BY <2>1, <1>2, LeastNat
<1>4. b # 0
  BY <1>3, TenToStep
<1>5. b - 1 \in 0..size /\ n % TenTo(b - 1) = 0 /\ n % TenTo((b - 1) + 1) # 0
  <2>1. b - 1 \in Nat /\ b <= size /\ (b - 1) + 1 = b /\ b - 1 \notin B
    BY <1>1, <1>2, <1>3, <1>4
  <2> QED BY <2>1, <1>1, <1>3
<1>6. \E k \in 0..size : n % TenTo(k) = 0 /\ n % TenTo(k + 1) # 0
  BY <1>5
<1> DEFINE good(k) == n % TenTo(k) = 0 /\ n % TenTo(k + 1) # 0
           k0 == CHOOSE k \in 0..size : good(k)
<1>7. TrailingZeros(n) = k0
  BY DEF TrailingZeros
<1>8. \E k \in 0..size : good(k)
  BY <1>6
<1> HIDE DEF good, size
<1>9. k0 \in 0..size /\ good(k0)
  BY <1>8, Zenon
<1>10. k0 \in Nat
  BY <1>1, <1>9
<1> QED BY <1>7, <1>9, <1>10 DEF good

\* A representation in which equal numbers are equal: zero has the scale zero,
\* any other mantissa no trailing zero.
Canonical(q) ==
  /\ q \in [mantissa : Int, scale : Int]
  /\ IF q.mantissa = 0 THEN q.scale = 0 ELSE q.mantissa % 10 # 0

\* A quantity represents the number of units it is worth.
Represents(q, worth) ==
  /\ Canonical(q)
  /\ q.scale + Scale >= 0
  /\ q.mantissa * TenTo(q.scale + Scale) = worth

\* KubeQuantity::new changes the representation and not the number.
LEMMA NewIsExact ==
  ASSUME Scale \in Nat, NEW m \in Int, NEW s \in Int, s + Scale >= 0
  PROVE  Represents(New(m, s), m * TenTo(s + Scale))
<1> DEFINE q == New(m, s)
<1>1. CASE m = 0
  <2>1. q = [mantissa |-> 0, scale |-> 0]
    BY <1>1 DEF New
  <2>2. TenTo(s + Scale) \in Nat /\ TenTo(Scale) \in Nat
    BY TenToGrows
  <2>3. Canonical(q)
    BY <2>1 DEF Canonical
  <2>4. 0 * TenTo(s + Scale) = 0 /\ 0 * TenTo(0 + Scale) = 0
    BY <2>2
  <2> QED BY <1>1, <2>1, <2>3, <2>4 DEF Represents
<1>2. CASE m # 0
  <2> DEFINE k == TrailingZeros(m)
             t == TenTo(k)
             a == m \div t
             u == TenTo(s + Scale)
  <2>1. k \in Nat /\ m % t = 0 /\ m % TenTo(k + 1) # 0
    BY <1>2, ZerosAreCounted
  <2>2. q = [mantissa |-> a, scale |-> s + k]
    BY <1>2 DEF New
  <2>3. t \in Nat /\ t > 0 /\ u \in Nat /\ TenTo(k + 1) = 10 * t
        /\ TenTo(k + 1) \in Nat /\ TenTo(k + 1) > 0
    BY <2>1, TenToGrows, TenToStep
  <2>4. TenTo((s + k) + Scale) = u * t
    <3>1. (s + k) + Scale = (s + Scale) + k /\ s + Scale \in Nat
      BY <2>1
    <3> QED BY <3>1, <2>1, TenToSum
  <2> HIDE DEF k, t, u
  <2>5. a \in Int /\ m = a * t
    BY <2>1, <2>3, Multiples
  <2> HIDE DEF a
  <2>6. a * (u * t) = m * u
    BY <2>3, <2>5
  <2>7. a # 0
    BY <1>2, <2>3, <2>5
  <2>8. a % 10 # 0
    <3> SUFFICES ASSUME a % 10 = 0
                 PROVE  FALSE
      OBVIOUS
    <3>1. PICK c \in Int : a = c * 10
      BY <2>5
    <3>2. m = c * TenTo(k + 1)
      BY <3>1, <2>3, <2>5
    <3> QED BY <3>2, <2>1, <2>3, Multiples
  <2>9. Canonical(q)
    BY <2>1, <2>2, <2>5, <2>7, <2>8 DEF Canonical
  <2>10. (s + k) + Scale >= 0
    BY <2>1
  <2> QED BY <2>2, <2>4, <2>6, <2>9, <2>10 DEF Represents, u
<1> QED BY <1>1, <1>2

---------------------------------------------------------------------------
\* Where the build checks for overflow, what it computes is right.
LEMMA ScaledDown ==
  ASSUME OverflowChecks, NEW m \in Int, NEW from \in Int, NEW to \in Int,
         to <= from, NEW n \in ScaleMantissa(m, from, to)
  PROVE  n \in Int /\ n = m * TenTo(from - to)
<1>1. CASE from = to
  <2>1. n = m /\ from - to = 0
    BY <1>1 DEF ScaleMantissa
  <2> QED BY <2>1, TenToStep
<1>2. CASE from # to
  <2>1. TenTo(from - to) \in Int
    BY TenToGrows
  <2>2. PICK p \in ComputedMantissa(TenTo(from - to)) : n \in ComputedMantissa(m * p)
    BY <1>2 DEF ScaleMantissa
  <2>3. p = TenTo(from - to) /\ n = m * p
    BY <2>2 DEF ComputedMantissa
  <2> QED BY <2>1, <2>3
<1> QED BY <1>1, <1>2

\* A mantissa brought down to a smaller scale represents the same number.
LEMMA DownIsExact ==
  ASSUME OverflowChecks, Scale \in Nat, NEW q, NEW worth, Represents(q, worth),
         NEW to \in Int, to <= q.scale, to + Scale >= 0,
         NEW n \in ScaleMantissa(q.mantissa, q.scale, to)
  PROVE  n \in Int /\ n * TenTo(to + Scale) = worth
<1> DEFINE m == q.mantissa
           d == q.scale - to
           t == TenTo(d)
           u == TenTo(to + Scale)
<1>1. m \in Int /\ q.scale \in Int /\ d \in Nat
  BY DEF Represents, Canonical
<1>2. n \in Int /\ n = m * t
  BY <1>1, ScaledDown
<1>3. t \in Nat /\ u \in Nat
  BY <1>1, TenToGrows
<1>4. TenTo(q.scale + Scale) = u * t
  <2>1. q.scale + Scale = (to + Scale) + d /\ to + Scale \in Nat
    BY <1>1
  <2> HIDE DEF d
  <2> QED BY <2>1, <1>1, TenToSum
<1>5. m * (u * t) = worth
  BY <1>4 DEF Represents
<1> HIDE DEF m, t, u
<1>6. (m * t) * u = m * (u * t)
  BY <1>1, <1>3
<1> QED BY <1>2, <1>5, <1>6 DEF u

\* At the common scale both mantissas stand for what their quantities stood for
\* (normalize_pair).
LEMMA PairIsExact ==
  ASSUME OverflowChecks, Scale \in Nat,
         NEW p, NEW v, Represents(p, v), NEW q, NEW w, Represents(q, w),
         NEW ms \in NormalizePair(p, q)
  PROVE  LET unit == TenTo(Lower(p, q) + Scale)
         IN  /\ Lower(p, q) \in Int /\ Lower(p, q) + Scale >= 0
             /\ unit \in Nat /\ unit > 0
             /\ ms[1] \in Int /\ ms[1] * unit = v
             /\ ms[2] \in Int /\ ms[2] * unit = w
<1> DEFINE low == Lower(p, q)
<1>1. /\ low \in Int /\ low <= p.scale /\ low <= q.scale /\ low + Scale >= 0
  BY DEF Lower, Represents, Canonical
<1>2. /\ ms[1] \in ScaleMantissa(p.mantissa, p.scale, low)
      /\ ms[2] \in ScaleMantissa(q.mantissa, q.scale, low)
  BY DEF NormalizePair
<1>3. TenTo(low + Scale) \in Nat /\ TenTo(low + Scale) > 0
  BY <1>1, TenToGrows
<1> HIDE DEF low
<1>4. ms[1] \in Int /\ ms[1] * TenTo(low + Scale) = v
  BY <1>1, <1>2, DownIsExact
<1>5. ms[2] \in Int /\ ms[2] * TenTo(low + Scale) = w
  BY <1>1, <1>2, DownIsExact
<1> QED BY <1>1, <1>3, <1>4, <1>5 DEF low

\* Sum and difference stand for the sum and the difference (KubeQuantity::add, sub).
LEMMA SumsAreExact ==
  ASSUME OverflowChecks, Scale \in Nat,
         NEW p, NEW v, Represents(p, v), NEW q, NEW w, Represents(q, w)
  PROVE  /\ \A r \in Add(p, q) : Represents(r, v + w)
         /\ \A r \in Sub(p, q) : Represents(r, v - w)
<1> DEFINE low  == Lower(p, q)
           unit == TenTo(low + Scale)
<1>1. ASSUME NEW ms \in NormalizePair(p, q)
      PROVE  /\ low \in Int /\ low + Scale >= 0 /\ unit \in Nat /\ unit > 0
             /\ ms[1] \in Int /\ ms[1] * unit = v
             /\ ms[2] \in Int /\ ms[2] * unit = w
  BY PairIsExact
<1>2. ASSUME NEW ms \in NormalizePair(p, q)
      PROVE  /\ Represents(New(ms[1] + ms[2], low), v + w)
             /\ Represents(New(ms[1] - ms[2], low), v - w)
  <2> HIDE DEF low
  <2> DEFINE a == ms[1]
             b == ms[2]
  <2>1. low \in Int /\ low + Scale >= 0 /\ unit \in Nat
        /\ a \in Int /\ b \in Int /\ a * unit = v /\ b * unit = w
    BY <1>1
  <2> HIDE DEF a, b
  <2>2. Represents(New(a + b, low), (a + b) * unit)
    BY <2>1, NewIsExact
  <2>3. Represents(New(a - b, low), (a - b) * unit)
    BY <2>1, NewIsExact
  <2> HIDE DEF unit
  <2>4. (a + b) * unit = v + w /\ (a - b) * unit = v - w
    BY <2>1
  <2> QED BY <2>2, <2>3, <2>4 DEF a, b
<1>3. ASSUME NEW r \in Add(p, q)
      PROVE  Represents(r, v + w)
  <2>1. PICK ms \in NormalizePair(p, q) :
          \E n \in ComputedMantissa(ms[1] + ms[2]) : r = New(n, low)
    BY DEF Add
  <2>2. r = New(ms[1] + ms[2], low)
    BY <2>1 DEF ComputedMantissa
  <2> QED BY <2>1, <2>2, <1>2
<1>4. ASSUME NEW r \in Sub(p, q)
      PROVE  Represents(r, v - w)
  <2>1. PICK ms \in NormalizePair(p, q) :
          \E n \in ComputedMantissa(ms[1] - ms[2]) : r = New(n, low)
    BY DEF Sub
  <2>2. r = New(ms[1] - ms[2], low)
    BY <2>1 DEF ComputedMantissa
  <2> QED BY <2>1, <2>2, <1>2
<1> QED BY <1>3, <1>4

\* A number has one representation: the one with the larger scale would have to
\* make up for it with zeros that a canonical mantissa does not have.
LEMMA NotAtTwoScales ==
  ASSUME Scale \in Nat, NEW worth,
         NEW p, Represents(p, worth), NEW q, Represents(q, worth),
         p.scale <= q.scale
  PROVE  p = q
<1> DEFINE m == p.mantissa
           n == q.mantissa
           u == TenTo(p.scale + Scale)
<1>1. /\ m \in Int /\ n \in Int /\ p.scale \in Int /\ q.scale \in Int
      /\ p = [mantissa |-> m, scale |-> p.scale]
      /\ q = [mantissa |-> n, scale |-> q.scale]
      /\ p.scale + Scale \in Nat /\ u \in Nat /\ u > 0
  BY TenToGrows DEF Represents, Canonical
<1>2. CASE p.scale = q.scale
  <2>1. m * u = worth /\ n * u = worth
    BY <1>2 DEF Represents
  <2>2. m = n
    <3> HIDE DEF m, n, u
    <3> QED BY <2>1, <1>1, Cancel
  <2> QED BY <1>1, <1>2, <2>2
<1>3. CASE p.scale # q.scale
  <2> DEFINE d == q.scale - p.scale - 1
             t == TenTo(d)
  <2>1. d \in Nat /\ t \in Nat
    BY <1>1, <1>3, TenToGrows
  <2>2. TenTo(q.scale + Scale) = u * (10 * t)
    <3>1. q.scale + Scale = (p.scale + Scale) + (d + 1) /\ d + 1 \in Nat
      BY <1>1, <2>1
    <3>2. TenTo((p.scale + Scale) + (d + 1)) = u * TenTo(d + 1)
      <4> HIDE DEF d
      <4> QED BY <1>1, <2>1, TenToSum
    <3>3. TenTo(d + 1) = 10 * t
      BY <2>1, TenToStep
    <3> QED BY <3>1, <3>2, <3>3
  <2>3. m * u = n * (u * (10 * t))
    BY <2>2 DEF Represents
  <2> HIDE DEF m, n, u, t
  <2>4. n * (u * (10 * t)) = ((n * t) * 10) * u
    BY <1>1, <2>1
  <2>5. m = (n * t) * 10
    <3> DEFINE x == (n * t) * 10
    <3>1. x \in Int
      BY <1>1, <2>1
    <3>2. m * u = x * u
      BY <2>3, <2>4
    <3> HIDE DEF x
    <3>3. m = x
      BY <3>1, <3>2, <1>1, Cancel
    <3> QED BY <3>3 DEF x
  <2>6. m = 0
    <3> DEFINE c == n * t
    <3>1. c \in Int
      BY <1>1, <2>1
    <3>2. m = c * 10
      BY <2>5
    <3> HIDE DEF c
    <3>3. m % 10 = 0
      BY <3>1, <3>2
    <3> QED BY <3>3 DEF Represents, Canonical, m
  <2>7. n = 0
    <3>1. n * TenTo(q.scale + Scale) = worth /\ worth = 0 * u
      BY <2>6 DEF Represents, n, m, u
    <3>2. TenTo(q.scale + Scale) \in Nat /\ TenTo(q.scale + Scale) > 0
      BY <1>1, TenToGrows DEF Represents
    <3> QED BY <3>1, <3>2, <1>1
  <2>8. p.scale = 0 /\ q.scale = 0
    BY <2>6, <2>7 DEF Represents, Canonical, m, n
  <2> QED BY <2>8, <1>3
<1> QED BY <1>2, <1>3

\* Two canonical quantities that stand for one number are one quantity (simplify).
LEMMA OneRepresentative ==
  ASSUME Scale \in Nat, NEW worth,
         NEW p, Represents(p, worth), NEW q, Represents(q, worth)
  PROVE  p = q
<1>1. p.scale <= q.scale \/ q.scale <= p.scale
  BY DEF Represents, Canonical
<1> QED BY <1>1, NotAtTwoScales

\* Numbers are ordered as their mantissas are, at a common scale.
LEMMA OrderIsExact ==
  ASSUME OverflowChecks, Scale \in Nat,
         NEW p, NEW v, Represents(p, v), NEW q, NEW w, Represents(q, w)
  PROVE  /\ CompareTo(p, q) \subseteq {Sign(v - w)}
         /\ Sign(p.mantissa) = Sign(v)
<1>1. ASSUME NEW ms \in NormalizePair(p, q)
      PROVE  (IF ms[1] < ms[2] THEN -1 ELSE IF ms[1] = ms[2] THEN 0 ELSE 1)
               = Sign(v - w)
  <2> DEFINE a == ms[1]
             b == ms[2]
             unit == TenTo(Lower(p, q) + Scale)
  <2>1. unit \in Nat /\ unit > 0
        /\ a \in Int /\ b \in Int /\ a * unit = v /\ b * unit = w
    BY PairIsExact
  <2> HIDE DEF a, b, unit
  <2>2. a < b <=> v < w
    BY <2>1, Cancel
  <2>3. a = b <=> v = w
    BY <2>1, Cancel
  <2>4. v \in Int /\ w \in Int
    BY <2>1
  <2> QED BY <2>1, <2>2, <2>3, <2>4 DEF Sign, a, b
<1>2. CompareTo(p, q) \subseteq {Sign(v - w)}
  BY <1>1 DEF CompareTo
<1>3. Sign(p.mantissa) = Sign(v)
  <2> DEFINE m == p.mantissa
             u == TenTo(p.scale + Scale)
  <2>1. m \in Int /\ u \in Nat /\ u > 0 /\ m * u = v
    BY TenToGrows DEF Represents, Canonical
  <2> HIDE DEF m, u
  <2>2. v \in Int /\ 0 * u = 0
    BY <2>1
  <2>3. m < 0 <=> v < 0
    BY <2>1, <2>2, Cancel
  <2>4. m = 0 <=> v = 0
    BY <2>1, <2>2, Cancel
  <2> QED BY <2>1, <2>2, <2>3, <2>4 DEF Sign, m
<1> QED BY <1>2, <1>3

\* A canonical mantissa has no zeros that a negative scale could take off.
LEMMA FractionIsNotWhole ==
  ASSUME NEW q, Canonical(q), q.scale < 0
  PROVE  \A c \in Int : q.mantissa # c * TenTo(-q.scale)
<1> DEFINE m == q.mantissa
           t == TenTo(-q.scale - 1)
<1>1. m \in Int /\ q.scale \in Int /\ m % 10 # 0
  BY DEF Canonical
<1>2. TenTo(-q.scale) = 10 * t /\ t \in Nat
  <2>1. -q.scale - 1 \in Nat /\ (-q.scale - 1) + 1 = -q.scale
    BY <1>1
  <2> QED BY <2>1, TenToStep, TenToGrows
<1> HIDE DEF m, t
<1>3. ASSUME NEW c \in Int, m = c * (10 * t)
      PROVE  FALSE
  <2> DEFINE x == c * t
  <2>1. x \in Int /\ m = x * 10
    BY <1>2, <1>3
  <2> HIDE DEF x
  <2>2. m % 10 = 0
    BY <2>1
  <2> QED BY <2>2, <1>1
<1> QED BY <1>2, <1>3 DEF m

\* A canonical quantity is an integer exactly when its number is whole and small
\* enough, and converts to that number (is_integer, as_integer).
LEMMA IntegersAreWhole ==
  ASSUME NEW q, NEW w, Represents(q, w)
  PROVE  LET whole == w % TenTo(Scale) = 0
             n     == w \div TenTo(Scale)
             small == -IntLimit - 1 <= n /\ n <= IntLimit
         IN  /\ IsInteger(q) <=> whole
             /\ AsInteger(q) = IF whole /\ small THEN {n} ELSE {}
<1> DEFINE m == q.mantissa
           u == TenTo(Scale)
           n == w \div u
           small == -IntLimit - 1 <= n /\ n <= IntLimit
<1>1. /\ m \in Int /\ q.scale \in Int /\ Scale \in Nat /\ u \in Nat /\ u > 0
      /\ q.scale + Scale \in Nat /\ m * TenTo(q.scale + Scale) = w
  BY TenToGrows, QuantityAssumption, WidthAssumption DEF Represents, Canonical
<1>2. CASE q.scale >= 0
  <2> DEFINE t == TenTo(q.scale)
  <2>1. t \in Nat /\ t > 0 /\ TenTo(q.scale + Scale) = t * u
    <3>1. q.scale \in Nat
      BY <1>1, <1>2
    <3>2. t \in Nat /\ t > 0
      BY <3>1, TenToGrows
    <3>3. TenTo(q.scale + Scale) = t * u
      BY <3>1, <1>1, TenToSum
    <3> QED BY <3>2, <3>3
  <2>2. m = 0 => t = 1
    BY TenToStep DEF Represents, Canonical
  <2>3. IsInteger(q)
    BY <1>2 DEF IsInteger
  <2>4. AsInteger(q) = IF /\ Fits(t)
                          /\ -IntLimit - 1 <= m * t /\ m * t <= IntLimit
                       THEN {m * t} ELSE {}
    BY <1>2 DEF AsInteger
  <2>5. m * (t * u) = w
    BY <1>1, <2>1
  <2> HIDE DEF m, u, t
  <2>6. m * t \in Int /\ (m * t) * u = w
    BY <1>1, <2>1, <2>5
  <2>7. w % u = 0 /\ n = m * t
    <3> DEFINE x == m * t
    <3>1. x \in Int /\ x * u = w
      BY <2>6
    <3> HIDE DEF x
    <3>2. (x * u) % u = 0 /\ (x * u) \div u = x
      BY <3>1, <1>1, Multiples
    <3> QED BY <3>1, <3>2 DEF x
  <2>8. small => Fits(t)
    <3> SUFFICES ASSUME small, t > MantissaLimit
                 PROVE  FALSE
      BY <2>1, QuantityAssumption, WidthAssumption DEF Fits
    <3>1. /\ MantissaLimit \in Nat /\ IntLimit \in Nat /\ IntLimit < MantissaLimit
          /\ -IntLimit - 1 <= m * t /\ m * t <= IntLimit
      BY <2>7, QuantityAssumption, WidthAssumption
    <3>2. m # 0
      BY <3>1, <2>2
    <3>3. m > 0 => m * t >= t
      BY <1>1, <2>1
    <3>4. m < 0 => m * t <= -t
      BY <1>1, <2>1
    <3> QED BY <3>1, <3>2, <3>3, <3>4, <1>1, <2>1, <2>6
  <2> QED BY <2>3, <2>4, <2>7, <2>8 DEF u
<1>3. CASE q.scale < 0
  <2> DEFINE t == TenTo(-q.scale)
             v == TenTo(q.scale + Scale)
  <2>1. t \in Nat /\ t > 0 /\ v \in Nat /\ v > 0 /\ u = v * t
    <3>1. -q.scale \in Nat /\ Scale = (q.scale + Scale) + (-q.scale)
      BY <1>1, <1>3
    <3>2. TenTo((q.scale + Scale) + (-q.scale)) = v * t
      BY <1>1, <3>1, TenToSum
    <3> QED BY <1>1, <3>1, <3>2, TenToGrows
  <2>2. \A c \in Int : m # c * t
    BY <1>3, FractionIsNotWhole DEF Represents
  <2>3. m % t # 0
    <3> SUFFICES ASSUME m % t = 0
                 PROVE  FALSE
      OBVIOUS
    <3> HIDE DEF m, t
    <3> QED BY <1>1, <2>1, <2>2, Multiples
  <2>4. ~IsInteger(q) /\ AsInteger(q) = {}
    BY <1>1, <1>3, <2>3 DEF IsInteger, AsInteger
  <2>5. w % u # 0
    <3> SUFFICES ASSUME w % u = 0
                 PROVE  FALSE
      OBVIOUS
    <3> DEFINE c == w \div u
    <3>1. m * v = w
      BY <1>1
    <3> HIDE DEF m, t, v, u
    <3>2. w \in Int
      BY <3>1, <1>1, <2>1
    <3>3. c \in Int /\ w = c * u
      BY <3>2, <1>1, Multiples
    <3> HIDE DEF c
    <3>4. m * v = (c * t) * v /\ c * t \in Int
      BY <3>1, <3>3, <2>1
    <3>5. m = c * t
      <4> DEFINE x == c * t
      <4>1. x \in Int /\ m * v = x * v
        BY <3>4
      <4> HIDE DEF x
      <4>2. m = x
        BY <4>1, <1>1, <2>1, Cancel
      <4> QED BY <4>2 DEF x
    <3> QED BY <3>3, <3>5, <2>2
  <2> QED BY <2>4, <2>5
<1> QED BY <1>1, <1>2, <1>3

---------------------------------------------------------------------------
(***************************************************************************)
(* The invariant: every quantity of the expression represents the number   *)
(* it stands for, canonically.  That it is exact is not inductive alone: a *)
(* sum is brought to the smaller scale first, which must not lie below the *)
(* unit, and only canonical quantities compare and convert as they should. *)
(***************************************************************************)
EachRepresents ==
  /\ quantities \in Seq([mantissa : Int, scale : Int]) /\ worths \in Seq(Int)
  /\ Len(quantities) = Len(worths)
  /\ \A i \in DOMAIN quantities : Represents(quantities[i], worths[i])

\* What a step makes is appended next to its worth, if it is made at all.
LEMMA MadeRepresents ==
  ASSUME EachRepresents, NEW results, NEW worth, NEW failure,
         \A q \in results : Represents(q, worth),
         worth \in Int, Yield(results, worth, failure)
  PROVE  EachRepresents'
<1>1. CASE results = {}
  BY <1>1 DEF Yield, EachRepresents
<1>2. CASE results # {}
  <2>1. PICK q \in results : quantities' = Append(quantities, q)
    BY <1>2 DEF Yield
  <2>2. worths' = Append(worths, worth)
    BY <1>2 DEF Yield
  <2>3. q \in [mantissa : Int, scale : Int] /\ Represents(q, worth)
    BY DEF Represents, Canonical
  <2>4. /\ quantities' \in Seq([mantissa : Int, scale : Int])
        /\ worths' \in Seq(Int) /\ Len(quantities') = Len(worths')
    BY <2>1, <2>2, <2>3 DEF EachRepresents
  <2>5. ASSUME NEW i \in DOMAIN quantities'
        PROVE  Represents(quantities'[i], worths'[i])
    <3>1. CASE i = Len(quantities) + 1
      <4>1. quantities'[i] = q /\ worths'[i] = worth
        BY <3>1, <2>1, <2>2, <2>3 DEF EachRepresents
      <4> QED BY <4>1, <2>3
    <3>2. CASE i # Len(quantities) + 1
      <4>1. /\ i \in DOMAIN quantities
            /\ quantities'[i] = quantities[i] /\ worths'[i] = worths[i]
        BY <3>2, <2>1, <2>2, <2>3 DEF EachRepresents
      <4> QED BY <4>1 DEF EachRepresents
    <3> QED BY <3>1, <3>2
  <2>6. (\A i \in DOMAIN quantities : Represents(quantities[i], worths[i]))'
    BY <2>5 DEF Represents, Canonical
  <2> QED BY <2>4, <2>6 DEF EachRepresents
<1> QED BY <1>1, <1>2

\* A literal that parses represents the number it stands for.
LEMMA LiteralIsExact ==
  ASSUME NEW lit \in Literal
  PROVE  /\ Worth(lit) \in Int
         /\ \A q \in ParseQuantity(lit) : Represents(q, Worth(lit))
<1> DEFINE u == TenTo(Scale + Shift(lit))
<1>1. /\ lit.digits \in Int /\ lit.places \in Nat /\ Exponent(lit) \in Int
      /\ Scale \in Nat /\ Scale + Shift(lit) >= 0
  BY QuantityAssumption, WidthAssumption
<1> DEFINE exponents == {0, -9, -6, -3, 3, 6, 9, 12, 15, 18}
<1>0. exponents \subseteq Int
  OBVIOUS
<1>2. \A s \in DOMAIN DecimalScale : DecimalScale[s] \in Int
  <2>1. ASSUME NEW s \in {"", "n", "u", "m", "k", "M", "G", "T", "P", "E"}
        PROVE  DecimalScale[s] \in Int
    <3>1. DecimalScale[""] = 0 /\ DecimalScale["n"] = -9 /\ DecimalScale["u"] = -6
      BY DEF DecimalScale
    <3>2. DecimalScale["m"] = -3 /\ DecimalScale["k"] = 3 /\ DecimalScale["M"] = 6
      BY DEF DecimalScale
    <3>3. DecimalScale["G"] = 9 /\ DecimalScale["T"] = 12
      BY DEF DecimalScale
    <3>4. DecimalScale["P"] = 15 /\ DecimalScale["E"] = 18
      BY DEF DecimalScale
    <3>5. DecimalScale[s] \in exponents
      BY <3>1, <3>2, <3>3, <3>4, Zenon
    <3> HIDE DEF exponents
    <3> QED BY <1>0, <3>5, Zenon
  <2>2. DOMAIN DecimalScale = {"", "n", "u", "m", "k", "M", "G", "T", "P", "E"}
    BY Zenon DEF DecimalScale
  <2> QED BY <2>1, <2>2, Zenon
<1>3. \A s \in DOMAIN BinaryPower : BinaryPower[s] \in Nat
  BY DEF BinaryPower
<1>4. Multiple(lit) \in Int
  <2>1. CASE lit.suffix \in DOMAIN BinaryPower
    <3>1. BinaryPower[lit.suffix] \in Nat
      BY <1>3, <2>1
    <3>2. \A n \in Nat : Power(2, n) \in Int
      BY PowerStep
    <3> QED BY <2>1, <3>1, <3>2 DEF Multiple
  <2>2. CASE lit.suffix \notin DOMAIN BinaryPower
    BY <2>2 DEF Multiple
  <2> QED BY <2>1, <2>2
<1>5. Shift(lit) \in Int
  BY <1>1, <1>2 DEF Shift
<1>6. u \in Nat
  BY <1>1, <1>5, TenToGrows
<1>7. Worth(lit) = (lit.digits * Multiple(lit)) * u
  BY DEF Worth
<1>8. lit.digits * Multiple(lit) \in Int
  BY <1>1, <1>4
<1>9. ASSUME NEW q \in ParseQuantity(lit)
      PROVE  q = New(lit.digits * Multiple(lit), Shift(lit))
  <2>1. CASE lit.suffix \in DOMAIN DecimalScale
    <3>1. lit.suffix \notin DOMAIN BinaryPower
      BY <2>1 DEF DecimalScale, BinaryPower
    <3>2. lit.digits * Multiple(lit) = lit.digits
      BY <3>1, <1>1 DEF Multiple
    <3>3. q = New(lit.digits, (Exponent(lit) - lit.places) + DecimalScale[lit.suffix])
      BY <2>1 DEF ParseQuantity
    <3> QED BY <2>1, <3>2, <3>3 DEF Shift
  <2>2. CASE lit.suffix \notin DOMAIN DecimalScale
    <3>1. /\ lit.suffix \in DOMAIN BinaryPower
          /\ q = New(lit.digits * Power(2, BinaryPower[lit.suffix]),
                     Exponent(lit) - lit.places)
      BY <2>2 DEF ParseQuantity
    <3>2. Shift(lit) = Exponent(lit) - lit.places
      BY <2>2, <1>1 DEF Shift
    <3> QED BY <3>1, <3>2 DEF Multiple
  <2> QED BY <2>1, <2>2
<1>10. Represents(New(lit.digits * Multiple(lit), Shift(lit)), Worth(lit))
  <2> DEFINE x == lit.digits * Multiple(lit)
             s == Shift(lit)
  <2> HIDE DEF x, s
  <2>1. Represents(New(x, s), x * TenTo(s + Scale))
    BY <1>1, <1>5, <1>8, NewIsExact DEF x, s
  <2>2. s + Scale = Scale + s
    BY <1>1, <1>5 DEF s
  <2> QED BY <2>1, <2>2, <1>7 DEF x, s
<1>11. Worth(lit) \in Int
  <2> DEFINE x == lit.digits * Multiple(lit)
  <2> HIDE DEF x, u
  <2>1. x * u \in Int
    BY <1>6, <1>8 DEF x
  <2> QED BY <2>1, <1>7 DEF x
<1> QED BY <1>9, <1>10, <1>11

\* An i64 becomes the quantity that stands for it (quantity_or_int).
LEMMA NumberIsExact ==
  ASSUME NEW n \in Number
  PROVE  Represents(New(n, 0), n * TenTo(Scale))
<1>1. n \in Int /\ Scale \in Nat /\ 0 + Scale = Scale
  BY QuantityAssumption, WidthAssumption
<1> QED BY <1>1, NewIsExact

\* What a quantity stands for is an integer of the smallest unit.
LEMMA WorthIsInt ==
  ASSUME Scale \in Nat, NEW q, NEW w, Represents(q, w)
  PROVE  w \in Int
<1>1. /\ q.mantissa \in Int /\ q.scale + Scale \in Nat
      /\ q.mantissa * TenTo(q.scale + Scale) = w
  BY DEF Represents, Canonical
<1>2. TenTo(q.scale + Scale) \in Nat
  BY <1>1, TenToGrows
<1> QED BY <1>1, <1>2

\* Every operation on quantities leaves each standing for its number.
LEMMA RepresentsStep ==
  ASSUME OverflowChecks, EachRepresents, [QuantityNext]_quantityVars
  PROVE  EachRepresents'
<1>1. Scale \in Nat
  BY QuantityAssumption, WidthAssumption
<1>2. CASE ParseLiteral
  <2>1. PICK lit \in Literal : Yield(ParseQuantity(lit), Worth(lit), "error")
    BY <1>2 DEF ParseLiteral
  <2> QED BY <2>1, LiteralIsExact, MadeRepresents
<1>3. ASSUME NEW p, NEW v, Represents(p, v), NEW q, NEW w, Represents(q, w)
      PROVE  /\ Yield(Add(p, q), v + w, "panic") => EachRepresents'
             /\ Yield(Sub(p, q), v - w, "panic") => EachRepresents'
  <2>1. v + w \in Int /\ v - w \in Int
    BY <1>1, <1>3, WorthIsInt
  <2>2. /\ \A r \in Add(p, q) : Represents(r, v + w)
        /\ \A r \in Sub(p, q) : Represents(r, v - w)
    BY <1>1, <1>3, SumsAreExact
  <2> QED BY <2>1, <2>2, MadeRepresents
<1>4. \A i \in DOMAIN quantities : Represents(quantities[i], worths[i])
  BY DEF EachRepresents
<1>5. CASE AddQuantity
  <2>1. PICK i, j \in DOMAIN quantities :
          Yield(Add(quantities[i], quantities[j]), worths[i] + worths[j], "panic")
    BY <1>5 DEF AddQuantity
  <2> QED BY <2>1, <1>3, <1>4
<1>6. CASE SubQuantity
  <2>1. PICK i, j \in DOMAIN quantities :
          Yield(Sub(quantities[i], quantities[j]), worths[i] - worths[j], "panic")
    BY <1>6 DEF SubQuantity
  <2> QED BY <2>1, <1>3, <1>4
<1>7. CASE AddNumber
  <2>1. PICK i \in DOMAIN quantities, n \in Number :
          Yield(Add(quantities[i], New(n, 0)), worths[i] + n * TenTo(Scale), "panic")
    BY <1>7 DEF AddNumber
  <2> QED BY <2>1, <1>3, <1>4, NumberIsExact
<1>8. CASE SubNumber
  <2>1. PICK i \in DOMAIN quantities, n \in Number :
          Yield(Sub(quantities[i], New(n, 0)), worths[i] - n * TenTo(Scale), "panic")
    BY <1>8 DEF SubNumber
  <2> QED BY <2>1, <1>3, <1>4, NumberIsExact
<1>9. CASE UNCHANGED quantityVars
  BY <1>9 DEF quantityVars, EachRepresents
<1> QED BY <1>2, <1>5, <1>6, <1>7, <1>8, <1>9 DEF QuantityNext

\* With overflow checks, every quantity ever computed is canonical and stands for
\* exactly the number it should (cel_quantity, cel_add and cel_sub).
THEOREM AlwaysRepresents ==
  ASSUME OverflowChecks
  PROVE  QuantitySpec => []EachRepresents
<1>1. QuantityInit => EachRepresents
  BY DEF QuantityInit, EachRepresents
<1>2. EachRepresents /\ [QuantityNext]_quantityVars => EachRepresents'
  BY RepresentsStep
<1> QED BY <1>1, <1>2, PTL DEF QuantitySpec

\* Through any chain of literals, add and sub a quantity is worth exactly the
\* number it stands for, in a build that checks for overflow (simplify, add,
\* sub and scale_mantissa).
THEOREM QuantitiesAreExact ==
  ASSUME OverflowChecks
  PROVE  QuantitySpec => []ArithmeticIsExact
<1>1. EachRepresents => ArithmeticIsExact
  BY DEF EachRepresents, Represents, ArithmeticIsExact
<1> QED BY <1>1, AlwaysRepresents, PTL

\* A comparison gives the order of the numbers or panics, and the sign of the
\* mantissa is that of the number (Ord for KubeQuantity, sign).
THEOREM ComparisonsAreExact ==
  ASSUME OverflowChecks
  PROVE  QuantitySpec => []ComparisonIsExact
<1>1. EachRepresents => ComparisonIsExact
  BY OrderIsExact, QuantityAssumption, WidthAssumption DEF EachRepresents, ComparisonIsExact
<1> QED BY <1>1, AlwaysRepresents, PTL

\* However it was computed, a number has one representation (simplify).
THEOREM RepresentationsAreUnique ==
  ASSUME OverflowChecks
  PROVE  QuantitySpec => []OneRepresentation
<1>1. EachRepresents => OneRepresentation
  BY OneRepresentative, QuantityAssumption, WidthAssumption DEF EachRepresents, OneRepresentation
<1> QED BY <1>1, AlwaysRepresents, PTL

\* asInteger returns exactly the integers of 64 bits, and isInteger says which
\* quantities are integers, also where the power of ten that decides it leaves
\* the range of the mantissa (is_integer, as_integer).
THEOREM IntegersAreExact ==
  ASSUME OverflowChecks
  PROVE  QuantitySpec => []IntegersConvert
<1>1. EachRepresents => IntegersConvert
  BY IntegersAreWhole DEF EachRepresents, IntegersConvert
<1> QED BY <1>1, AlwaysRepresents, PTL
=============================================================================
