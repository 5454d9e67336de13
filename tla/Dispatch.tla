------------------------------ MODULE Dispatch -------------------------------
(***************************************************************************)
(* The names several types share, src/src/functions/dispatch.rs, and the   *)
(* quantity functions they reach (src/src/functions/quantity.rs).  A call  *)
(* has this, the value left of the dot or else the first argument, and     *)
(* args, everything in parentheses.                                        *)
(***************************************************************************)
EXTENDS Lists, Strings, Network, Semvers, Durations, Printf, Quantities

---------------------------------------------------------------------------
(***************************************************************************)
(* Quantities as CEL values.                                               *)
(***************************************************************************)
Quantity(q) == [kind |-> "quantity", mantissa |-> q.mantissa, scale |-> q.scale]

QuantityText(digits, places, exponent, suffix) ==
  [kind |-> "string", form |-> "quantity", digits |-> digits,
   places |-> places, exponent |-> exponent, suffix |-> suffix]

\* quantity_or_int
QuantityOrInt(v) ==
  CASE v.kind = "quantity" -> {v}
    [] v.kind \in {"int", "uint"} -> {Quantity(New(v.number, 0))}
    [] OTHER -> {}

\* The arithmetic overflows with a panic.
OrPanic(results) ==
  IF results = {} THEN Panic ELSE Quantity(CHOOSE q \in results : TRUE)

QuantityCall(name, this, args) ==
  LET parsed == IF this.kind = "string" /\ this.form = "quantity"
                THEN ParseQuantity(this) ELSE {}
      others == IF args = <<>> THEN {} ELSE QuantityOrInt(args[1])
      other  == CHOOSE q \in others : TRUE
      number == AsInteger(this)
      taken  == IF name \in {"quantity", "isQuantity"} THEN "string" ELSE "quantity"
  IN  IF this.kind # taken \/ (name \in {"add", "sub"} /\ others = {}) THEN Error
      ELSE CASE name = "isQuantity" -> Bool(parsed # {})
             [] name = "quantity" -> IF parsed = {} THEN Error ELSE OrPanic(parsed)
             [] name = "isInteger" -> Bool(IsInteger(this))
             [] name = "asInteger" ->
                  IF number = {} THEN Error ELSE Int64(CHOOSE n \in number : TRUE)
             [] name = "sign" -> Int64(Sign(this.mantissa))
             [] name = "add" -> OrPanic(Add(this, other))
             [] name = "sub" -> OrPanic(Sub(this, other))

QuantityCompare(name, a, b) ==
  IF b.kind # "quantity" THEN Error
  ELSE LET order == CompareTo(a, b)
           n     == CHOOSE o \in order : TRUE
       IN  IF order = {} THEN Panic
           ELSE CASE name = "isGreaterThan" -> Bool(n = 1)
                  [] name = "isLessThan"    -> Bool(n = -1)
                  [] name = "compareTo"     -> Int64(n)

---------------------------------------------------------------------------
IndexOf(features, this, args) ==
  CASE this.kind = "string" /\ "strings" \in features ->
         StringIndexOf(this.chars, args)
    [] this.kind = "list" /\ "lists" \in features ->
         IF args = <<>> THEN Error ELSE ListIndexOf(this.elems, args[1])
    [] OTHER -> Error

LastIndexOf(features, this, args) ==
  CASE this.kind = "string" /\ "strings" \in features ->
         StringLastIndexOf(this.chars, args)
    [] this.kind = "list" /\ "lists" \in features ->
         IF args = <<>> THEN Error ELSE ListLastIndexOf(this.elems, args[1])
    [] OTHER -> Error

\* opaque_comparison_dispatch: isGreaterThan, isLessThan and compareTo.
OpaqueComparison(name, features, this, args) ==
  IF args = <<>> THEN Error
  ELSE CASE this.kind = "semver" /\ "semver_funcs" \in features ->
              SemverCompare(name, this, args[1])
         [] this.kind = "quantity" /\ "quantity" \in features ->
              QuantityCompare(name, this, args[1])
         [] OTHER -> Error

\* A string among the arguments goes before this.
IPDispatch(this, args) ==
  LET text == IF args # <<>> /\ args[1].kind = "string" THEN args[1] ELSE this
  IN  IF this.kind = "cidr" THEN CIDRIP(this)
      ELSE IF text.kind = "string" THEN OrError(ParseIPAddr(text))
      ELSE Error

\* f64::to_string: no decimal for a whole number.
FloatText(x) ==
  IF x.class # "finite" THEN Unusual(x)
  ELSE IF x.quarters % 4 = 0 THEN Fixed(x, 0) ELSE FloatDefault(x)

\* builtin_string_fallback; octets are read as the characters they encode.
BuiltinStringFallback(v) ==
  CASE v.kind = "string" -> v
    [] v.kind \in {"int", "uint"} -> Str(Decimal(v.number))
    [] v.kind = "float"    -> Str(FloatText(v))
    [] v.kind = "bytes"    -> Str([i \in DOMAIN v.octets |-> Alphabet[v.octets[i]]])
    [] v.kind = "duration" -> FormatCelDuration(v.nanos)
    [] OTHER -> Error

StringDispatch(this) ==
  CASE this.kind = "ip"   -> IPString(this)
    [] this.kind = "cidr" -> CIDRString(this)
    [] OTHER -> BuiltinStringFallback(this)

ReverseDispatch(features, this) ==
  CASE this.kind = "string" /\ "strings" \in features -> StringReverse(this.chars)
    [] this.kind = "list" /\ "lists" \in features -> ListReverse(this.elems)
    [] OTHER -> Error

---------------------------------------------------------------------------
\* Crate cel's own min and max: of all arguments, or of one list.
CelExtremum(args, beats) ==
  LET items == IF Len(args) = 1 /\ args[1].kind = "list" THEN args[1].elems
               ELSE args
  IN  IF items = <<>> THEN Null ELSE Extremum(items, beats)

\* A slip: the arguments after the first are lost.
ExtremumDispatchOfFirst(this, args, beats) ==
  IF this.kind = "list" /\ args = <<>> THEN Extremum(this.elems, beats)
  ELSE CelExtremum(<<this>>, beats)

\* min_dispatch and max_dispatch: in a call without a receiver this is the
\* first argument once more.
ExtremumDispatch(this, args, beats) ==
  IF this.kind = "list" /\ args = <<>> THEN Extremum(this.elems, beats)
  ELSE CelExtremum(<<this>> \o args, beats)

DispatchCall(name, features, this, args) ==
  CASE name = "indexOf"     -> IndexOf(features, this, args)
    [] name = "lastIndexOf" -> LastIndexOf(features, this, args)
    [] name \in CompareNames -> OpaqueComparison(name, features, this, args)
    [] name = "ip"      -> IPDispatch(this, args)
    [] name = "string"  -> StringDispatch(this)
    [] name = "reverse" -> ReverseDispatch(features, this)
    [] name = "min"     -> ExtremumDispatch(this, args, "less")
    [] name = "max"     -> ExtremumDispatch(this, args, "greater")

\* What crate cel answers itself.
CelCall(name, this, args) ==
  CASE name = "string" -> BuiltinStringFallback(this)
    [] name = "min" -> CelExtremum(args, "less")
    [] name = "max" -> CelExtremum(args, "greater")
=============================================================================
