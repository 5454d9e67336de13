----------------------------- MODULE Quantities ------------------------------
(***************************************************************************)
(* The arithmetic of Kubernetes quantities, src/src/functions/quantity.rs: *)
(* mantissa * 10^scale with a mantissa of fixed width.                     *)
(*                                                                         *)
(* A literal is a record [digits, places, exponent, suffix]: all digits as *)
(* one number, how many of them stand after the point, an Option, and the  *)
(* text after the number.                                                  *)
(*                                                                         *)
(* An operation that may fail returns an Option: {} is an error of the     *)
(* parser or of asInteger, and a panic of the arithmetic.                  *)
(***************************************************************************)
EXTENDS Widths

CONSTANT MantissaLimit   \* i128::MAX

---------------------------------------------------------------------------
\* base to the n-th, by repeated multiplication.
Power(base, n) ==
  LET at[i \in 0..n] == IF i = 0 THEN 1 ELSE base * at[i - 1]
  IN  at[n]

TenTo(n) == Power(10, n)

Fits(n) == -MantissaLimit - 1 <= n /\ n <= MantissaLimit

WrappedMantissa(n) == ((n + MantissaLimit + 1) % (2 * (MantissaLimit + 1))) - MantissaLimit - 1

\* What i128 arithmetic makes of the number n.
ComputedMantissa(n) ==
  IF Fits(n) THEN {n} ELSE IF OverflowChecks THEN {} ELSE {WrappedMantissa(n)}

\* How often ten divides a number other than zero.
TrailingZeros(n) ==
  CHOOSE k \in 0..(IF n < 0 THEN -n ELSE n) :
    n % TenTo(k) = 0 /\ n % TenTo(k + 1) # 0

\* Slips: zeros are left on the mantissa, or taken off it for nothing.
NewUnsimplified(mantissa, scale) == [mantissa |-> mantissa, scale |-> scale]

NewAtOldScale(mantissa, scale) ==
  IF mantissa = 0 THEN [mantissa |-> 0, scale |-> 0]
  ELSE [mantissa |-> mantissa \div TenTo(TrailingZeros(mantissa)), scale |-> scale]

\* KubeQuantity::new simplifies: no trailing zero stays on the mantissa.
New(mantissa, scale) ==
  IF mantissa = 0 THEN [mantissa |-> 0, scale |-> 0]
  ELSE LET k == TrailingZeros(mantissa)
       IN  [mantissa |-> mantissa \div TenTo(k), scale |-> scale + k]

---------------------------------------------------------------------------
DecimalScale ==
  [s \in {"", "n", "u", "m", "k", "M", "G", "T", "P", "E"} |->
     CASE s = ""  -> 0  [] s = "n" -> -9 [] s = "u" -> -6 [] s = "m" -> -3
       [] s = "k" -> 3  [] s = "M" -> 6  [] s = "G" -> 9  [] s = "T" -> 12
       [] s = "P" -> 15 [] s = "E" -> 18]

BinaryPower ==
  [s \in {"Ki", "Mi", "Gi", "Ti", "Pi", "Ei"} |->
     CASE s = "Ki" -> 10 [] s = "Mi" -> 20 [] s = "Gi" -> 30
       [] s = "Ti" -> 40 [] s = "Pi" -> 50 [] s = "Ei" -> 60]

Exponent(lit) == IF lit.exponent = {} THEN 0 ELSE CHOOSE e \in lit.exponent : TRUE

\* A literal has an exponent or a suffix; what follows an exponent is taken
\* for an unknown suffix.
ParseQuantity(lit) ==
  LET shift == Exponent(lit) - lit.places
  IN  IF ~Fits(lit.digits) \/ (lit.exponent # {} /\ lit.suffix # "") THEN {}
      ELSE IF lit.suffix \in DOMAIN DecimalScale
      THEN {New(lit.digits, shift + DecimalScale[lit.suffix])}
      ELSE {New(n, shift) :
              n \in {lit.digits * Power(2, p) : p \in {BinaryPower[s] :
                       s \in DOMAIN BinaryPower \cap {lit.suffix}}}
                      \cap (-MantissaLimit - 1)..MantissaLimit}

\* A mantissa brought down to a smaller scale.
ScaleMantissa(mantissa, from, to) ==
  IF from <= to THEN {mantissa}
  ELSE UNION {ComputedMantissa(mantissa * p) : p \in ComputedMantissa(TenTo(from - to))}

Lower(p, q) == IF p.scale < q.scale THEN p.scale ELSE q.scale

\* A slip: both mantissas are brought to the larger scale, that is, kept.
NormalizePairUp(p, q) ==
  LET scale == p.scale + q.scale - Lower(p, q)
  IN  ScaleMantissa(p.mantissa, p.scale, scale)
        \X ScaleMantissa(q.mantissa, q.scale, scale)

NormalizePair(p, q) ==
  ScaleMantissa(p.mantissa, p.scale, Lower(p, q))
    \X ScaleMantissa(q.mantissa, q.scale, Lower(p, q))

Sign(n) == IF n < 0 THEN -1 ELSE IF n = 0 THEN 0 ELSE 1

Add(p, q) ==
  {New(n, Lower(p, q)) :
     n \in UNION {ComputedMantissa(ms[1] + ms[2]) : ms \in NormalizePair(p, q)}}

Sub(p, q) ==
  {New(n, Lower(p, q)) :
     n \in UNION {ComputedMantissa(ms[1] - ms[2]) : ms \in NormalizePair(p, q)}}

\* compareTo, and with it isGreaterThan, isLessThan and ==.
CompareTo(p, q) ==
  {IF ms[1] < ms[2] THEN -1 ELSE IF ms[1] = ms[2] THEN 0 ELSE 1 :
     ms \in NormalizePair(p, q)}

IsInteger(q) ==
  \/ q.scale >= 0
  \/ Fits(TenTo(-q.scale)) /\ q.mantissa % TenTo(-q.scale) = 0

\* A slip: a fraction is cut off.
AsIntegerCut(q) ==
  LET power == IF q.scale >= 0 THEN TenTo(q.scale) ELSE TenTo(-q.scale)
      n     == IF q.scale >= 0 THEN q.mantissa * power ELSE q.mantissa \div power
  IN  IF Fits(power) /\ -IntLimit - 1 <= n /\ n <= IntLimit THEN {n} ELSE {}

AsInteger(q) ==
  LET power == IF q.scale >= 0 THEN TenTo(q.scale) ELSE TenTo(-q.scale)
      whole == q.scale >= 0 \/ q.mantissa % power = 0
      n     == IF q.scale >= 0 THEN q.mantissa * power ELSE q.mantissa \div power
  IN  IF Fits(power) /\ whole /\ -IntLimit - 1 <= n /\ n <= IntLimit
      THEN {n} ELSE {}
=============================================================================
