------------------------------ MODULE Quantity ------------------------------
(***************************************************************************)
(* One CEL expression over quantities: it parses literals and combines     *)
(* what it has with add and sub (src/src/functions/quantity.rs).  The      *)
(* module keeps every quantity the expression has made, next to the number *)
(* it stands for.                                                          *)
(***************************************************************************)
EXTENDS Quantities, Sequences

CONSTANTS
  Literal,         \* the literals the expression may hold
  Number,          \* the CEL integers it may add or subtract
  MaxQuantities,   \* bound on the quantities of one expression
  Scale            \* worths are counted in units of 10^-Scale

VARIABLES
  quantities,   \* the quantities made so far: records [mantissa, scale]
  worths,       \* history: the number each of them stands for, in units
  status        \* "running", "error" or "panic"

quantityVars == <<quantities, worths, status>>

---------------------------------------------------------------------------
\* The number a literal stands for, in units.
Shift(lit) ==
  Exponent(lit) - lit.places
    + IF lit.suffix \in DOMAIN DecimalScale THEN DecimalScale[lit.suffix] ELSE 0

Multiple(lit) ==
  IF lit.suffix \in DOMAIN BinaryPower THEN Power(2, BinaryPower[lit.suffix])
  ELSE 1

Worth(lit) == lit.digits * Multiple(lit) * TenTo(Scale + Shift(lit))

\* Mantissas are wider than integers, and every literal is a whole number of
\* units.
ASSUME QuantityAssumption ==
  /\ MantissaLimit \in Nat /\ IntLimit < MantissaLimit
  /\ Scale \in Nat /\ Number \subseteq Int
  /\ \A lit \in Literal :
       /\ lit.digits \in Int /\ lit.places \in Nat /\ Exponent(lit) \in Int
       /\ Scale + Shift(lit) >= 0

QuantityInit == quantities = <<>> /\ worths = <<>> /\ status = "running"

Running == status = "running" /\ Len(quantities) < MaxQuantities

Yield(results, worth, failure) ==
  IF results = {}
  THEN status' = failure /\ UNCHANGED <<quantities, worths>>
  ELSE /\ \E q \in results : quantities' = Append(quantities, q)
       /\ worths' = Append(worths, worth)
       /\ UNCHANGED status

ParseLiteral ==
  /\ Running
  /\ \E lit \in Literal : Yield(ParseQuantity(lit), Worth(lit), "error")

AddQuantity ==
  /\ Running
  /\ \E i, j \in DOMAIN quantities :
       Yield(Add(quantities[i], quantities[j]), worths[i] + worths[j], "panic")

SubQuantity ==
  /\ Running
  /\ \E i, j \in DOMAIN quantities :
       Yield(Sub(quantities[i], quantities[j]), worths[i] - worths[j], "panic")

AddNumber ==
  /\ Running
  /\ \E i \in DOMAIN quantities, n \in Number :
       Yield(Add(quantities[i], New(n, 0)), worths[i] + n * TenTo(Scale), "panic")

SubNumber ==
  /\ Running
  /\ \E i \in DOMAIN quantities, n \in Number :
       Yield(Sub(quantities[i], New(n, 0)), worths[i] - n * TenTo(Scale), "panic")

QuantityNext == ParseLiteral \/ AddQuantity \/ SubQuantity \/ AddNumber \/ SubNumber

QuantitySpec == QuantityInit /\ [][QuantityNext]_quantityVars

---------------------------------------------------------------------------
\* "Stored as mantissa * 10^scale to allow exact decimal arithmetic"
\* (src/src/functions/quantity.rs:19): through any chain of literals, add and
\* sub, a quantity is worth exactly the number it stands for, and a build that
\* checks for overflow panics before it is not.
ArithmeticIsExact ==
  \A i \in DOMAIN quantities :
    quantities[i].mantissa * TenTo(quantities[i].scale + Scale) = worths[i]

\* A comparison gives the order of the numbers, or panics, whatever the scales
\* are (Ord for KubeQuantity, behind compareTo, isGreaterThan and isLessThan),
\* and the sign of the mantissa is that of the number (sign).
ComparisonIsExact ==
  \A i, j \in DOMAIN quantities :
    /\ CompareTo(quantities[i], quantities[j])
         \subseteq {Sign(worths[i] - worths[j])}
    /\ Sign(quantities[i].mantissa) = Sign(worths[i])

\* However it was computed, a number has one representation, so that == cannot
\* panic for equal quantities (KubeQuantity::new and simplify).
OneRepresentation ==
  \A i, j \in DOMAIN quantities :
    worths[i] = worths[j] => quantities[i] = quantities[j]

\* asInteger returns exactly the integers of 64 bits, isInteger says which
\* quantities are integers of any size (is_integer and as_integer).
IntegersConvert ==
  \A i \in DOMAIN quantities :
    LET whole == worths[i] % TenTo(Scale) = 0
        n     == worths[i] \div TenTo(Scale)
        small == -IntLimit - 1 <= n /\ n <= IntLimit
    IN  /\ IsInteger(quantities[i]) <=> whole
        /\ AsInteger(quantities[i]) = IF whole /\ small THEN {n} ELSE {}
=============================================================================
