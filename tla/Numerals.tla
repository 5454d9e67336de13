------------------------------ MODULE Numerals ------------------------------
(***************************************************************************)
(* Numbers as text, the way Rust's standard library writes and reads them. *)
(* Text is a sequence of characters.                                       *)
(***************************************************************************)
EXTENDS Integers, SequencesExt

DigitChars == <<"0", "1", "2", "3", "4", "5", "6", "7", "8", "9",
                "a", "b", "c", "d", "e", "f">>

DecimalDigit == {DigitChars[i] : i \in 1..10}

DigitValue(c) == SelectInSeq(DigitChars, LAMBDA d : d = c) - 1

RECURSIVE Digits(_, _)
Digits(n, base) ==
  (IF n < base THEN <<>> ELSE Digits(n \div base, base))
    \o <<DigitChars[(n % base) + 1]>>

\* Digits, with zeros in front up to a width.
Padded(n, width) ==
  LET digits == Digits(n, 10)
  IN  [i \in 1..(width - Len(digits)) |-> "0"] \o digits

Decimal(n) == (IF n < 0 THEN <<"-">> ELSE <<>>) \o Digits(IF n < 0 THEN -n ELSE n, 10)

AllDigits(text) == \A i \in DOMAIN text : text[i] \in DecimalDigit

ValueOf(digits, base) ==
  FoldLeft(LAMBDA acc, c : base * acc + DigitValue(c), 0, digits)

\* str::parse to an unsigned type: a plus sign may stand in front.  {} is an
\* error.
ParseUnsigned(text, limit) ==
  LET digits == IF text # <<>> /\ text[1] = "+" THEN Tail(text) ELSE text
  IN  IF digits # <<>> /\ AllDigits(digits)
      THEN {ValueOf(digits, 10)} \cap 0..limit ELSE {}

\* The nearest whole number to a fraction, ties to even: Rust's {:.N}.
Nearest(over, under) ==
  LET low == over \div under
      r   == 2 * (over % under)
  IN  IF r > under \/ (r = under /\ low % 2 = 1) THEN low + 1 ELSE low

\* All ways to cut a text at a character: split, first to last.
Pieces(text, separator) ==
  LET cuts == SetToSortSeq({i \in DOMAIN text : text[i] = separator}, <)
      from(k) == IF k = 1 THEN 1 ELSE cuts[k - 1] + 1
      to(k)   == IF k > Len(cuts) THEN Len(text) ELSE cuts[k] - 1
  IN  [k \in 1..(Len(cuts) + 1) |-> SubSeq(text, from(k), to(k))]
=============================================================================
