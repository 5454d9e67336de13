--------------------------- MODULE MathFunctions ----------------------------
(***************************************************************************)
(* The math library, src/src/functions/math.rs.  Doubles are CelValues'    *)
(* quarters; a square root is cut to them.                                 *)
(***************************************************************************)
EXTENDS CelValues, Bitwise

RoundingNames == {"math.ceil", "math.floor", "math.round", "math.trunc",
                  "math.sqrt"}
InspectionNames == {"math.isInf", "math.isNaN", "math.isFinite"}
BitNames == {"math.bitAnd", "math.bitOr", "math.bitXor",
             "math.bitShiftLeft", "math.bitShiftRight"}
ExtremumNames == {"math.greatest", "math.least"}

---------------------------------------------------------------------------
\* math_ceil, math_floor, math_trunc and math_round on quarters; halves are
\* rounded away from zero.
Ceil(q)    == -4 * ((-q) \div 4)
Floor(q)   == 4 * (q \div 4)
Trunc(q)   == Signum(q) * Floor(Magnitude(q))
RoundOf(q) == Signum(q) * Floor(Magnitude(q) + 2)

\* Whole numbers, NaN and the infinities stay; a negative number has no root.
Rounding(name, x) ==
  IF name = "math.sqrt" /\ x.quarters < 0 THEN NaN
  ELSE IF x.class # "finite" THEN x
  ELSE CASE name = "math.ceil"  -> Float(Ceil(x.quarters))
         [] name = "math.floor" -> Float(Floor(x.quarters))
         [] name = "math.trunc" -> Float(Trunc(x.quarters))
         [] name = "math.round" -> Float(RoundOf(x.quarters))
         [] name = "math.sqrt"  ->
              Float(Rounded(CHOOSE r \in 0..(4 * x.quarters) :
                r * r <= 4 * x.quarters /\ (r + 1)^2 > 4 * x.quarters))

Inspection(name, x) ==
  Bool(x.class = CASE name = "math.isInf" -> "infinite"
                   [] name = "math.isNaN" -> "nan"
                   [] name = "math.isFinite" -> "finite")

\* A slip: the magnitude of the least integer is returned as it is.
AbsUnchecked(v) ==
  CASE v.kind = "float" -> [v EXCEPT !.quarters = Magnitude(@)]
    [] v.kind \in {"int", "uint"} -> [v EXCEPT !.number = Magnitude(@)]
    [] OTHER -> Error

\* checked_abs: the least integer has no magnitude.
Abs(v) ==
  CASE v.kind = "float" -> [v EXCEPT !.quarters = Magnitude(@)]
    [] v.kind = "int" -> IF v.number = -IntLimit - 1 THEN Error
                         ELSE Int64(Magnitude(v.number))
    [] v.kind = "uint" -> v
    [] OTHER -> Error

SignOf(v) ==
  CASE v.kind \in {"int", "uint"} -> [v EXCEPT !.number = Signum(@)]
    [] v.kind = "float" -> IF v.class = "nan" THEN NaN
                           ELSE Float(4 * Signum(v.quarters))
    [] OTHER -> Error

---------------------------------------------------------------------------
Width == CHOOSE w \in 1..64 : IntLimit + 1 = 2^(w - 1)

Pattern(n) == n % 2^Width

FromPattern(bits) ==
  LET low == bits % 2^Width IN Int64(IF low > IntLimit THEN low - 2^Width ELSE low)

\* A shift takes a count below the width, in which bits are lost to the left.
Bits(name, a, b) ==
  LET shift(v) == IF b \in 0..(Width - 1) THEN v ELSE Error
  IN  CASE name = "math.bitAnd" -> FromPattern(Pattern(a) & Pattern(b))
        [] name = "math.bitOr"  -> FromPattern(Pattern(a) | Pattern(b))
        [] name = "math.bitXor" -> FromPattern(Pattern(a) ^^ Pattern(b))
        [] name = "math.bitShiftLeft"  -> shift(FromPattern(Pattern(a) * 2^b))
        [] name = "math.bitShiftRight" -> shift(Int64(a \div 2^b))

BitNot(a) == Int64(-a - 1)

---------------------------------------------------------------------------
\* numeric_cmp: both sides as f64, also when both are integers.
NumericCmp(a, b) ==
  IF IsNumber(a) /\ IsNumber(b) THEN OrderOfFloats(Promoted(a), Promoted(b))
  ELSE "none"

\* A single list stands for its elements.
Effective(args) ==
  IF Len(args) = 1 /\ args[1].kind = "list" THEN args[1].elems ELSE args

\* math_extremum: a lone argument is answered whatever it is.
MathExtremum(args, target) ==
  LET values == Effective(args)
  IN  IF args = <<>> \/ values = <<>> THEN Error
      ELSE FoldLeft(LAMBDA best, v :
                      IF Failed(best) THEN best
                      ELSE CASE NumericCmp(v, best) = "none" -> Error
                             [] NumericCmp(v, best) = target -> v
                             [] OTHER -> best,
                    values[1], Tail(values))

---------------------------------------------------------------------------
Kinds(args, kinds) ==
  /\ Len(args) >= Len(kinds)
  /\ \A i \in DOMAIN kinds : args[i].kind = kinds[i]

MathCall(name, args) ==
  CASE name \in RoundingNames -> IF Kinds(args, <<"float">>)
                                 THEN Rounding(name, args[1]) ELSE Error
    [] name \in InspectionNames -> IF Kinds(args, <<"float">>)
                                   THEN Inspection(name, args[1]) ELSE Error
    [] name \in BitNames -> IF Kinds(args, <<"int", "int">>)
                            THEN Bits(name, args[1].number, args[2].number)
                            ELSE Error
    [] name = "math.bitNot" -> IF Kinds(args, <<"int">>)
                               THEN BitNot(args[1].number) ELSE Error
    [] name = "math.abs"  -> IF args = <<>> THEN Error ELSE Abs(args[1])
    [] name = "math.sign" -> IF args = <<>> THEN Error ELSE SignOf(args[1])
    [] name = "math.greatest" -> MathExtremum(args, "greater")
    [] name = "math.least"    -> MathExtremum(args, "less")
=============================================================================
