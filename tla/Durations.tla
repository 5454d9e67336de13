----------------------------- MODULE Durations ------------------------------
(***************************************************************************)
(* Durations as they enter an expression, parse_go_duration in             *)
(* src/src/validation/values.rs, and as string() writes them,              *)
(* format_cel_duration in src/src/functions/dispatch.rs.                   *)
(*                                                                         *)
(* A text is a sign and a sequence of parts [over, places, unit]: the      *)
(* number over / 10^places, then its unit, "" if none follows.  Numbers    *)
(* pass through f64, which rounds them off.  The widths are constants so   *)
(* that sums can leave them.                                               *)
(***************************************************************************)
EXTENDS CelValues, Numerals

CONSTANTS
  Ratio,          \* 1000: nanoseconds in a microsecond, and so on up to 1s
  Places,         \* 3: the decimals that {:.3} keeps
  Sixty,          \* 60: seconds in a minute, minutes in an hour
  DurationLimit,  \* i64::MAX nanoseconds
  DurationPrecision  \* 53: bits of an f64's significand, among so many nanoseconds

ASSUME DurationAssumption ==
  /\ {Ratio, Places, Sixty, DurationLimit, DurationPrecision} \subseteq Nat \ {0}
  /\ Ratio = 10^Places

Nanos ==
  [unit \in {"h", "m", "s", "ms", "us", "ns"} |->
     CASE unit = "ns" -> 1       [] unit = "us" -> Ratio
       [] unit = "ms" -> Ratio^2 [] unit = "s"  -> Ratio^3
       [] unit = "m"  -> Sixty * Ratio^3 [] unit = "h" -> Sixty^2 * Ratio^3]

Duration(nanos) == [kind |-> "duration", nanos |-> nanos]

DurationText(negative, parts) ==
  [kind |-> "string", form |-> "duration", negative |-> negative, parts |-> parts]

Part(over, places, unit) == [over |-> over, places |-> places, unit |-> unit]

---------------------------------------------------------------------------
BitLength(n) == Len(Digits(n, 2))

\* The double nearest to a fraction, ties to even, as the fraction it is: over
\* has DurationPrecision bits, and zeros beyond them, under is a power of two.
NearestDouble(over, under) ==
  LET zeros == BitLength(over \div under) - DurationPrecision
      least == 2^(DurationPrecision - 1) * under
      shift == CHOOSE e \in 0..(DurationPrecision + BitLength(under)) :
                 /\ over = 0 \/ over * 2^e >= least
                 /\ e = 0 \/ over * 2^(e - 1) < least
  IN  IF zeros > 0
      THEN [over |-> 2^zeros * Nearest(over, 2^zeros * under), under |-> 1]
      ELSE [over |-> Nearest(over * 2^shift, under), under |-> 2^shift]

ASSUME UnitsAreDoubles ==
  \A unit \in DOMAIN Nanos : NearestDouble(Nanos[unit], 1).over
                                = Nanos[unit] * NearestDouble(Nanos[unit], 1).under

\* A part in nanoseconds, cut off: 1.001s is a nanosecond short of 1001ms.  A
\* product too large becomes the largest i64.
PartNanos(part) ==
  LET number  == NearestDouble(part.over, 10^part.places)
      product == NearestDouble(number.over * Nanos[part.unit], 1)
      n       == product.over \div (product.under * number.under)
  IN  IF n > DurationLimit THEN DurationLimit ELSE n

\* A slip: the sum stops at the largest number.
SumSaturating(parts) ==
  {FoldLeft(LAMBDA acc, p : IF acc + PartNanos(p) > DurationLimit
                            THEN DurationLimit ELSE acc + PartNanos(p), 0, parts)}

\* The sum of the parts; {} is a panic.
SumOfParts(parts) ==
  FoldLeft(LAMBDA acc, p :
             {n \in {total + PartNanos(p) : total \in acc} :
                n <= DurationLimit \/ ~OverflowChecks},
           {0}, parts)

Wrapped(n) ==
  ((n + DurationLimit + 1) % (2 * DurationLimit + 2)) - DurationLimit - 1

\* parse_go_duration, as convert_string_with_format uses it: text that does
\* not parse stays a string, unless the parts before the one that does not
\* have left the range.  Only "0" may lack a unit.
ParseGoDuration(text) ==
  LET bad   == SelectInSeq(text.parts, LAMBDA p : p.unit \notin DOMAIN Nanos)
      good  == IF bad = 0 THEN text.parts ELSE SubSeq(text.parts, 1, bad - 1)
      total == SumOfParts(good)
  IN  IF text.parts = <<Part(0, 0, "")>> THEN Duration(0)
      ELSE IF text.parts = <<>> THEN text
      ELSE IF total = {} THEN Panic
      ELSE IF bad # 0 THEN text
      ELSE LET n == Wrapped(CHOOSE t \in total : TRUE)
           IN  Duration(IF text.negative THEN Wrapped(-n) ELSE n)

---------------------------------------------------------------------------
\* A fraction with as many decimals as it needs.
Trimmed(over, places) ==
  LET zeros == CHOOSE k \in 0..places :
                 /\ over % 10^k = 0
                 /\ k = places \/ over % 10^(k + 1) # 0
  IN  [over |-> over \div 10^zeros, places |-> places - zeros]

Unit(n, unit) == Part(n.over, n.places, unit)

\* Below a second: one unit, a double rounded to Places decimals.  Microseconds
\* are written with a Greek letter, "mu", which ParseGoDuration does not read.
SubSecond(u) ==
  LET rounded(unit) ==
        LET x == NearestDouble(u, Nanos[unit])
        IN  Trimmed(Nearest(x.over * 10^Places, x.under), Places)
  IN  CASE u >= Nanos["ms"] -> <<Unit(rounded("ms"), "ms")>>
        [] u >= Nanos["us"] /\ u < Nanos["ms"] -> <<Unit(rounded("us"), "mu")>>
        [] OTHER -> <<Part(u, 0, "ns")>>

\* From a second on: hours and minutes from the first that is not zero, then
\* seconds with their fraction in full.
FromSecond(u) ==
  LET hours == u \div Nanos["h"]
      mins  == (u % Nanos["h"]) \div Nanos["m"]
      rest  == u % Nanos["m"]
  IN  (IF hours > 0 THEN <<Part(hours, 0, "h")>> ELSE <<>>)
        \o (IF hours > 0 \/ mins > 0 THEN <<Part(mins, 0, "m")>> ELSE <<>>)
        \o <<Unit(Trimmed(rest, 3 * Places), "s")>>

FormatCelDuration(nanos) ==
  LET u == Magnitude(nanos)
  IN  DurationText(nanos < 0,
        IF u = 0 THEN <<Part(0, 0, "s")>>
        ELSE IF u >= Nanos["s"] THEN FromSecond(u) ELSE SubSecond(u))
=============================================================================
