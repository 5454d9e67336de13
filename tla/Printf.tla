------------------------------- MODULE Printf -------------------------------
(***************************************************************************)
(* <string>.format(<list>), src/src/functions/format.rs.  A map is the     *)
(* sequence of its entries in the order its iterator gives them.  What the *)
(* code prints with a value's Debug form is one placeholder.               *)
(***************************************************************************)
EXTENDS CelValues, Numerals

Map(entries) == [kind |-> "map", entries |-> entries]

---------------------------------------------------------------------------
Negative(x) == x.quarters < 0

Unusual(x) ==
  CASE x.class = "nan" -> <<"N", "a", "N">>
    [] OTHER -> IF Negative(x) THEN <<"-", "i", "n", "f">> ELSE <<"i", "n", "f">>

\* A number of 10^-places, with its point.
Pointed(n, places) ==
  LET digits == Padded(n, places + 1)
      whole  == Len(digits) - places
  IN  SubSeq(digits, 1, whole)
        \o (IF places = 0 THEN <<>>
            ELSE <<".">> \o SubSeq(digits, whole + 1, Len(digits)))

Fixed(x, precision) ==
  IF x.class # "finite" THEN Unusual(x)
  ELSE (IF Negative(x) THEN <<"-">> ELSE <<>>)
         \o Pointed(Nearest(Magnitude(x.quarters) * 10^precision, 4), precision)

\* A whole number has one decimal, any other as many as it needs.
FloatDefault(x) ==
  Fixed(x, IF x.quarters % 4 \in {0, 2} THEN 1 ELSE 2)

\* The exponent carries a sign and two digits, and so does what is no number.
Scientific(x, precision) ==
  LET q == Magnitude(x.quarters)
      e == CHOOSE k \in -1..q : 4 * 10^(k + 1) <= 10 * q /\ 10 * q < 4 * 10^(k + 2)
      shift == precision - e
      m == IF shift >= 0 THEN Nearest(q * 10^shift, 4)
           ELSE Nearest(q, 4 * 10^(-shift))
      carry == m = 10^(precision + 1)
      mantissa == IF q = 0 THEN 0 ELSE IF carry THEN m \div 10 ELSE m
      power == IF q = 0 THEN 0 ELSE IF carry THEN e + 1 ELSE e
  IN  IF x.class # "finite" THEN Unusual(x) \o <<"e", "+", "0", "0">>
      ELSE (IF Negative(x) THEN <<"-">> ELSE <<>>) \o Pointed(mantissa, precision)
             \o <<"e", IF power < 0 THEN "-" ELSE "+">>
             \o Padded(Magnitude(power), 2)

\* Rust writes a negative integer in base two, eight or sixteen as the
\* pattern of its bits.
Based(v, base) ==
  Digits(IF v.number < 0 THEN v.number + 2 * IntLimit + 2 ELSE v.number, base)

---------------------------------------------------------------------------
Quoted(chars) == <<"\"">> \o chars \o <<"\"">>

Joined(texts, separator) ==
  FlattenSeq([i \in DOMAIN texts |->
                IF i = 1 THEN texts[i] ELSE separator \o texts[i]])

BoolText(b) == IF b THEN <<"t", "r", "u", "e">> ELSE <<"f", "a", "l", "s", "e">>

\* format_s; inside a list or a map strings are quoted (format_s_quoted).
RECURSIVE FormatS(_)
FormatS(v) ==
  LET nested(w) == IF w.kind = "string" THEN Quoted(w.chars) ELSE FormatS(w)
  IN  CASE v.kind = "string" -> v.chars
        [] v.kind \in {"int", "uint"} -> Decimal(v.number)
        [] v.kind = "float" -> FloatDefault(v)
        [] v.kind = "bool" -> BoolText(v.truth)
        [] v.kind = "null" -> <<"n", "u", "l", "l">>
        [] v.kind = "list" ->
             <<"[">> \o Joined([i \in DOMAIN v.elems |-> nested(v.elems[i])],
                               <<",", " ">>) \o <<"]">>
        [] v.kind = "map" ->
             <<"{">> \o Joined([i \in DOMAIN v.entries |->
                                  nested(v.entries[i][1]) \o <<":">>
                                    \o nested(v.entries[i][2])],
                               <<",", " ">>) \o <<"}">>
        [] OTHER -> <<"?">>

Integral == {"int", "uint"}

\* What a verb takes, and what it writes.
Takes(verb, v) ==
  CASE verb = "s" -> TRUE
    [] verb \in {"d", "o"} -> v.kind \in Integral
    [] verb \in {"f", "e"} -> IsNumber(v)
    [] verb = "b" -> v.kind \in Integral \cup {"bool"}
    [] verb \in {"x", "X"} -> v.kind \in Integral \cup {"string", "bytes"}
    [] OTHER -> FALSE

Upper(c) == CASE c = "a" -> "A" [] c = "b" -> "B" [] c = "c" -> "C"
              [] c = "d" -> "D" [] c = "e" -> "E" [] c = "f" -> "F" [] OTHER -> c

\* The octets of a string are the codes of its characters.
Octets(v) == IF v.kind = "bytes" THEN v.octets ELSE Codes(v.chars)

Hex(v) ==
  IF v.kind \in Integral THEN Based(v, 16)
  ELSE FlattenSeq([i \in DOMAIN Octets(v) |->
         <<DigitChars[(Octets(v)[i] \div 16) + 1],
           DigitChars[(Octets(v)[i] % 16) + 1]>>])

\* Six decimals unless a precision is given; other verbs ignore it.
Written(verb, v, precision) ==
  LET decimals == IF precision = {} THEN 6 ELSE CHOOSE p \in precision : TRUE
  IN  CASE verb = "s" -> FormatS(v)
        [] verb = "d" -> Decimal(v.number)
        [] verb = "f" -> Fixed(Promoted(v), decimals)
        [] verb = "e" -> Scientific(Promoted(v), decimals)
        [] verb = "b" -> IF v.kind = "bool" THEN <<IF v.truth THEN "1" ELSE "0">>
                         ELSE Based(v, 2)
        [] verb = "o" -> Based(v, 8)
        [] verb = "x" -> Hex(v)
        [] verb = "X" -> [i \in DOMAIN Hex(v) |-> Upper(Hex(v)[i])]

---------------------------------------------------------------------------
\* format_string reads the format once: mode is "text", "percent" after a
\* '%', "point" and "digits" within a precision, or "failed".
Scan == [mode |-> "text", out |-> <<>>, used |-> 0, precision |-> {}]

\* A slip: the precision of one verb is still there at the next.
VerbKeepingPrecision(scan, verb, args) ==
  LET n == scan.used + 1
  IN  IF n > Len(args) THEN [scan EXCEPT !.mode = "failed"]
      ELSE IF ~Takes(verb, args[n]) THEN [scan EXCEPT !.mode = "failed"]
      ELSE [scan EXCEPT !.mode = "text", !.used = n,
              !.out = @ \o Written(verb, args[n], scan.precision)]

\* A verb consumes one argument.
Verb(scan, verb, args) ==
  LET n == scan.used + 1
  IN  IF n > Len(args) THEN [scan EXCEPT !.mode = "failed"]
      ELSE IF ~Takes(verb, args[n]) THEN [scan EXCEPT !.mode = "failed"]
      ELSE [mode |-> "text", used |-> n, precision |-> {},
            out |-> scan.out \o Written(verb, args[n], scan.precision)]

Step(scan, c, args) ==
  CASE scan.mode = "failed" -> scan
    [] scan.mode = "text" /\ c = "%" -> [scan EXCEPT !.mode = "percent"]
    [] scan.mode = "text" /\ c # "%" -> [scan EXCEPT !.out = Append(@, c)]
    [] scan.mode = "percent" /\ c = "%" ->
         [scan EXCEPT !.mode = "text", !.out = Append(@, c)]
    [] scan.mode = "percent" /\ c = "." -> [scan EXCEPT !.mode = "point"]
    [] scan.mode \in {"point", "digits"} /\ c \in DecimalDigit ->
         [scan EXCEPT !.mode = "digits",
                      !.precision = {DigitValue(c) + 10 * p :
                                       p \in IF @ = {} THEN {0} ELSE @}]
    [] scan.mode = "point" /\ c \notin DecimalDigit -> [scan EXCEPT !.mode = "failed"]
    [] OTHER -> Verb(scan, c, args)

\* Arguments that are left over are ignored.
Format(chars, args) ==
  LET scan == FoldLeft(LAMBDA s, c : Step(s, c, args), Scan, chars)
  IN  IF scan.mode = "text" THEN Str(scan.out) ELSE Error
=============================================================================
