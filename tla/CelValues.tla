----------------------------- MODULE CelValues ------------------------------
(***************************************************************************)
(* The CEL values the function library works on, with the equality and     *)
(* order of crate cel (src/src/functions/value_ops.rs delegates to them).  *)
(*                                                                         *)
(* Integers keep a width, doubles a precision: a finite double is a whole  *)
(* number of quarters with at most Precision significant bits.  Exponents  *)
(* are unbounded, there is no negative zero.  A string is a sequence of    *)
(* characters, a character a string of length one from Alphabet; what      *)
(* parsers read has forms of its own (Network, Semvers, Urls, Durations).  *)
(***************************************************************************)
EXTENDS Widths, SequencesExt

CONSTANTS
  Precision,       \* bits of an f64's significand
  Alphabet         \* the characters in the order of their code points

ASSUME PrecisionAssumption == Precision \in Nat \ {0}

Int64(n)     == [kind |-> "int", number |-> n]
UInt64(n)    == [kind |-> "uint", number |-> n]
Float(q)     == [kind |-> "float", class |-> "finite", quarters |-> q]
NaN          == [kind |-> "float", class |-> "nan", quarters |-> 0]
Infinity(s)  == [kind |-> "float", class |-> "infinite", quarters |-> s]
Bool(b)      == [kind |-> "bool", truth |-> b]
Str(chars)   == [kind |-> "string", form |-> "text", chars |-> chars]
List(elems)  == [kind |-> "list", elems |-> elems]
Bytes(b)     == [kind |-> "bytes", octets |-> b]
Null         == [kind |-> "null"]
None         == [kind |-> "optional", held |-> {}]
Some(v)      == [kind |-> "optional", held |-> {v}]

\* What a call answers when it does not answer a value.
Error == [kind |-> "error"]
Panic == [kind |-> "panic"]

Failed(v)    == v.kind \in {"error", "panic"}
IsNumber(v)  == v.kind \in {"int", "uint", "float"}
Magnitude(n) == IF n < 0 THEN -n ELSE n
Signum(n)    == IF n < 0 THEN -1 ELSE IF n = 0 THEN 0 ELSE 1

---------------------------------------------------------------------------
\* The multiple of 2^k with Precision bits that is nearest to n, ties to even.
Rounded(n) ==
  LET m == Magnitude(n)
      k == CHOOSE e \in 0..m :
             m < 2^(Precision + e) /\ (e = 0 \/ m >= 2^(Precision + e - 1))
      q == m \div 2^k
      r == 2 * (m % 2^k)
      up == r > 2^k \/ (r = 2^k /\ q % 2 = 1)
  IN  Signum(n) * 2^k * (IF up /\ k > 0 THEN q + 1 ELSE q)

\* A number as an f64.
Promoted(v) == IF v.kind = "float" THEN v ELSE Float(Rounded(4 * v.number))

\* What i64 or u64 arithmetic makes of the number n.
Computed(kind, n) ==
  LET low  == IF kind = "int" THEN -IntLimit - 1 ELSE 0
      high == IF kind = "int" THEN IntLimit ELSE 2 * IntLimit + 1
      fits == low <= n /\ n <= high
      wrapped == ((n - low) % (2 * IntLimit + 2)) + low
  IN  IF ~fits /\ OverflowChecks THEN Panic
      ELSE [kind |-> kind, number |-> IF fits THEN n ELSE wrapped]

---------------------------------------------------------------------------
Order(m, n) == IF m < n THEN "less" ELSE IF m = n THEN "equal" ELSE "greater"

Code(char) == CHOOSE i \in DOMAIN Alphabet : Alphabet[i] = char

\* The lexicographic order of two sequences of numbers.
OrderOfSeqs(s, t) ==
  LET apart == {i \in DOMAIN s \cap DOMAIN t : s[i] # t[i]}
      first == CHOOSE i \in apart : \A j \in apart : i <= j
  IN  IF apart = {} THEN Order(Len(s), Len(t)) ELSE Order(s[first], t[first])

Codes(chars) == [i \in DOMAIN chars |-> Code(chars[i])]

OrderOfFloats(x, y) ==
  LET weight(v) == IF v.class = "infinite" THEN v.quarters ELSE 0
  IN  IF "nan" \in {x.class, y.class} THEN "none"
      ELSE IF weight(x) # 0 \/ weight(y) # 0 THEN Order(weight(x), weight(y))
      ELSE Order(x.quarters, y.quarters)

\* compare_values: PartialOrd of cel::Value.  "none" is an error.
CompareValues(a, b) ==
  CASE IsNumber(a) /\ IsNumber(b) ->
         IF "float" \in {a.kind, b.kind}
         THEN OrderOfFloats(Promoted(a), Promoted(b))
         ELSE Order(a.number, b.number)
    [] a.kind = "string" /\ b.kind = "string" ->
         OrderOfSeqs(Codes(a.chars), Codes(b.chars))
    [] a.kind = "bool" /\ b.kind = "bool" ->
         Order(IF a.truth THEN 1 ELSE 0, IF b.truth THEN 1 ELSE 0)
    [] a = Null /\ b = Null -> "equal"
    [] OTHER -> "none"

\* val_eq: PartialEq of cel::Value, through the elements of lists.
RECURSIVE ValEq(_, _)
ValEq(a, b) ==
  CASE a.kind = "list" /\ b.kind = "list" ->
         /\ Len(a.elems) = Len(b.elems)
         /\ \A i \in DOMAIN a.elems : ValEq(a.elems[i], b.elems[i])
    [] IsNumber(a) /\ IsNumber(b) -> CompareValues(a, b) = "equal"
    [] OTHER -> a = b

AddFloats(x, y) ==
  IF x.class = "finite" /\ y.class = "finite"
  THEN Float(Rounded(x.quarters + y.quarters))
  ELSE IF "nan" \in {x.class, y.class} THEN NaN
  ELSE IF x.class = y.class
       THEN IF x = y THEN x ELSE NaN
       ELSE IF x.class = "infinite" THEN x ELSE y

\* A slip: saturates where the code overflows.
ValAddSaturating(a, b) ==
  IF a.kind = b.kind /\ a.kind \in {"int", "uint"}
  THEN LET n == Computed(a.kind, a.number + b.number)
       IN  IF Failed(n) THEN [a EXCEPT !.number = IntLimit] ELSE n
  ELSE IF a.kind = "float" /\ b.kind = "float" THEN AddFloats(a, b) ELSE Error

\* val_add: numbers of one kind, integers unchecked.
ValAdd(a, b) ==
  CASE a.kind = b.kind /\ a.kind \in {"int", "uint"} ->
         Computed(a.kind, a.number + b.number)
    [] a.kind = "float" /\ b.kind = "float" -> AddFloats(a, b)
    [] OTHER -> Error
=============================================================================
