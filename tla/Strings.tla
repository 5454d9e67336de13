------------------------------ MODULE Strings -------------------------------
(***************************************************************************)
(* String functions, src/src/functions/strings.rs, with regex_funcs.rs,    *)
(* jsonpatch.rs and encoders.rs.  A string argument is its sequence of     *)
(* characters; offsets count characters from zero.                         *)
(*                                                                         *)
(* Searching, splitting and replacing are Rust's.  The patterns of find    *)
(* and findAll are literals, except those the regex parser refuses.        *)
(***************************************************************************)
EXTENDS CelValues

CONSTANT InvalidPattern   \* patterns that do not parse

---------------------------------------------------------------------------
At(text, pattern, i) == SubSeq(text, i + 1, i + Len(pattern)) = pattern

\* Where the pattern is met when a text is read once from left to right.
RECURSIVE MatchesFrom(_, _, _)
MatchesFrom(text, pattern, from) ==
  LET met == {i \in from..(Len(text) - Len(pattern)) : At(text, pattern, i)}
      first == CHOOSE i \in met : \A j \in met : i <= j
      step  == IF pattern = <<>> THEN 1 ELSE Len(pattern)
  IN  IF met = {} THEN <<>>
      ELSE <<first>> \o MatchesFrom(text, pattern, first + step)

Matches(text, pattern) == MatchesFrom(text, pattern, 0)

FirstOf(s, n) == SubSeq(s, 1, IF n < Len(s) THEN n ELSE Len(s))

\* The text around the matches at the given places.
Around(text, pattern, places) ==
  [k \in 1..(Len(places) + 1) |->
     SubSeq(text,
            IF k = 1 THEN 1 ELSE places[k - 1] + Len(pattern) + 1,
            IF k > Len(places) THEN Len(text) ELSE places[k])]

Interspersed(texts, separator) ==
  FlattenSeq([i \in DOMAIN texts |->
                IF i = 1 THEN texts[i] ELSE separator \o texts[i]])

---------------------------------------------------------------------------
\* The place after the last character is legal and empty.
CharAt(text, i) ==
  CASE i \in 0..(Len(text) - 1) -> Str(<<text[i + 1]>>)
    [] i = Len(text) -> Str(<<>>)
    [] OTHER -> Error

Optional(args, i, default) ==
  IF Len(args) >= i /\ args[i].kind = "int" THEN args[i].number ELSE default

\* An empty pattern is found at the offset, also when that is past the end.
StringIndexOf(text, args) ==
  LET pattern == args[1].chars
      offset  == IF Optional(args, 2, 0) < 0 THEN 0 ELSE Optional(args, 2, 0)
      met == {i \in offset..(Len(text) - Len(pattern)) : At(text, pattern, i)}
  IN  IF args = <<>> \/ args[1].kind # "string" THEN Error
      ELSE IF pattern = <<>> THEN Int64(offset)
      ELSE Int64(IF met = {} THEN -1 ELSE CHOOSE i \in met : \A j \in met : i <= j)

\* A slip: the match must end before the offset.
StringLastIndexOfWithin(text, args) ==
  LET pattern == args[1].chars
      start   == Optional(args, 2, Len(text))
      met == {i \in 0..(Len(text) - Len(pattern)) :
                i + Len(pattern) <= start /\ At(text, pattern, i)}
  IN  IF args = <<>> \/ args[1].kind # "string" THEN Error
      ELSE IF pattern = <<>>
      THEN Int64(IF start < 0 THEN 0 ELSE IF start > Len(text) THEN Len(text) ELSE start)
      ELSE Int64(IF met = {} THEN -1 ELSE CHOOSE i \in met : \A j \in met : j <= i)

\* The offset is the last place where a match may start, not where it ends.
StringLastIndexOf(text, args) ==
  LET pattern == args[1].chars
      start   == Optional(args, 2, Len(text))
      met == {i \in 0..(Len(text) - Len(pattern)) :
                i <= start /\ At(text, pattern, i)}
  IN  IF args = <<>> \/ args[1].kind # "string" THEN Error
      ELSE IF pattern = <<>>
      THEN Int64(IF start < 0 THEN 0 ELSE IF start > Len(text) THEN Len(text) ELSE start)
      ELSE Int64(IF met = {} THEN -1 ELSE CHOOSE i \in met : \A j \in met : j <= i)

Replace(text, args) ==
  LET all == Matches(text, args[1].chars)
      n   == Optional(args, 3, Len(all))
      met == FirstOf(all, IF n < 0 THEN 0 ELSE n)
  IN  IF Len(args) < 2 \/ \E i \in 1..2 : args[i].kind # "string" THEN Error
      ELSE Str(Interspersed(Around(text, args[1].chars, met), args[2].chars))

\* A slip: the pieces beyond the limit are dropped.
SplitTruncating(text, args) ==
  LET all == Matches(text, args[1].chars)
      n   == Optional(args, 2, -1)
      pieces == Around(text, args[1].chars, all)
  IN  IF args = <<>> \/ args[1].kind # "string" THEN Error
      ELSE LET kept == IF n < 0 THEN pieces ELSE FirstOf(pieces, n)
           IN  List([k \in DOMAIN kept |-> Str(kept[k])])

\* No piece for a limit of zero, any number for a negative one.
Split(text, args) ==
  LET all == Matches(text, args[1].chars)
      n   == Optional(args, 2, -1)
      met == IF n < 0 THEN all ELSE FirstOf(all, n - 1)
      pieces == Around(text, args[1].chars, met)
  IN  IF args = <<>> \/ args[1].kind # "string" THEN Error
      ELSE List(IF n = 0 THEN <<>>
                ELSE [k \in DOMAIN pieces |-> Str(pieces[k])])

Substring(text, args) ==
  LET start == args[1].number
      end   == Optional(args, 2, Len(text))
  IN  IF args = <<>> \/ args[1].kind # "int" THEN Error
      ELSE IF start < 0 \/ start > Len(text) \/ end < start \/ end > Len(text)
      THEN Error ELSE Str(SubSeq(text, start + 1, end))

Whitespace == {" ", "\t", "\n", "\r"}

Trim(text) ==
  LET kept == {i \in DOMAIN text : text[i] \notin Whitespace}
  IN  IF kept = {} THEN Str(<<>>)
      ELSE Str(SubSeq(text, CHOOSE i \in kept : \A j \in kept : i <= j,
                            CHOOSE i \in kept : \A j \in kept : j <= i))

\* What is not a string is joined in its Debug form, one placeholder here.
Join(elems, args) ==
  LET separator == IF args # <<>> /\ args[1].kind = "string"
                   THEN args[1].chars ELSE <<>>
  IN  Str(Interspersed([i \in DOMAIN elems |->
                          IF elems[i].kind = "string" THEN elems[i].chars
                          ELSE <<"?">>], separator))

StringReverse(text) == Str(Reverse(text))

Lowers == <<"a", "b", "c", "d", "e", "v">>
Uppers == <<"A", "B", "C", "D", "E", "V">>

Mapped(text, from, to) ==
  Str([i \in DOMAIN text |->
         LET k == SelectInSeq(from, LAMBDA c : c = text[i])
         IN  IF k = 0 THEN text[i] ELSE to[k]])

LowerAscii(text) == Mapped(text, Uppers, Lowers)
UpperAscii(text) == Mapped(text, Lowers, Uppers)

---------------------------------------------------------------------------
\* The characters that strings.quote escapes; "bell", "backspace" and
\* "vtab" are \x07, \x08 and \x0B.
EscapeLetter ==
  [c \in {"\\", "\"", "bell", "backspace", "\f", "\n", "\r", "\t", "vtab"} |->
     CASE c = "bell" -> "a" [] c = "backspace" -> "b" [] c = "\f" -> "f"
       [] c = "\n" -> "n" [] c = "\r" -> "r" [] c = "\t" -> "t"
       [] c = "vtab" -> "v" [] OTHER -> c]

\* A slip: a backslash is left as it is.
QuoteKeepingBackslash(text) ==
  Str(<<"\"">> \o FlattenSeq([i \in DOMAIN text |->
        IF text[i] \in DOMAIN EscapeLetter \ {"\\"}
        THEN <<"\\", EscapeLetter[text[i]]>> ELSE <<text[i]>>]) \o <<"\"">>)

Quote(text) ==
  Str(<<"\"">> \o FlattenSeq([i \in DOMAIN text |->
        IF text[i] \in DOMAIN EscapeLetter
        THEN <<"\\", EscapeLetter[text[i]]>> ELSE <<text[i]>>]) \o <<"\"">>)

\* '~' first: the '~' of an escaped '/' must not be escaped again.
EscapeKey(text) ==
  LET replaced(t, c, by) ==
        FlattenSeq([i \in DOMAIN t |-> IF t[i] = c THEN by ELSE <<t[i]>>])
  IN  Str(replaced(replaced(text, "~", <<"~", "0">>), "/", <<"~", "1">>))

Find(text, pattern) ==
  IF pattern \in InvalidPattern THEN Error
  ELSE Str(IF Matches(text, pattern) = <<>> THEN <<>> ELSE pattern)

\* A negative limit is a huge one.
FindAll(text, args) ==
  LET all == Matches(text, args[1].chars)
      n   == Optional(args, 2, -1)
  IN  IF args = <<>> \/ args[1].kind # "string" THEN Error
      ELSE IF args[1].chars \in InvalidPattern THEN Error
      ELSE List([k \in DOMAIN IF n < 0 THEN all ELSE FirstOf(all, n) |->
                   Str(args[1].chars)])

---------------------------------------------------------------------------
\* The standard alphabet of crate base64.
Base64Chars ==
  <<"A", "B", "C", "D", "E", "F", "G", "H", "I", "J", "K", "L", "M", "N", "O",
    "P", "Q", "R", "S", "T", "U", "V", "W", "X", "Y", "Z", "a", "b", "c", "d",
    "e", "f", "g", "h", "i", "j", "k", "l", "m", "n", "o", "p", "q", "r", "s",
    "t", "u", "v", "w", "x", "y", "z", "0", "1", "2", "3", "4", "5", "6", "7",
    "8", "9", "+", "/">>

\* Up to three octets as characters of six bits, with "=" for what is missing.
Base64Encode(octets) ==
  LET count == (8 * Len(octets) + 5) \div 6
      all == FoldLeft(LAMBDA acc, o : 256 * acc + o, 0, octets)
               * 2^(6 * count - 8 * Len(octets))
  IN  Str([i \in 1..count |-> Base64Chars[((all \div 64^(count - i)) % 64) + 1]]
            \o [i \in 1..((3 - (Len(octets) % 3)) % 3) |-> "="])

\* A text is what some octets encode to, with its padding, less of it or none.
Base64Decode(text) ==
  LET chars   == SelectSeq(text, LAMBDA c : c # "=")
      padding == Len(text) - Len(chars)
      count   == (6 * Len(chars)) \div 8
      all == FoldLeft(LAMBDA acc, c :
                        64 * acc + SelectInSeq(Base64Chars, LAMBDA d : d = c) - 1,
                      0, chars)
      spare  == 6 * Len(chars) - 8 * count
      octets == [i \in 1..count |-> (all \div 2^(spare + 8 * (count - i))) % 256]
  IN  IF /\ ToSet(chars) \subseteq ToSet(Base64Chars)
         /\ SubSeq(text, 1, Len(chars)) = chars
         /\ Len(chars) % 4 # 1
         /\ padding \in 0..((3 - (count % 3)) % 3)
         /\ all % 2^spare = 0
      THEN Bytes(octets) ELSE Error

---------------------------------------------------------------------------
StringCall(name, text, args) ==
  CASE name = "charAt" -> IF args # <<>> /\ args[1].kind = "int"
                          THEN CharAt(text, args[1].number) ELSE Error
    [] name = "lowerAscii" -> LowerAscii(text)
    [] name = "upperAscii" -> UpperAscii(text)
    [] name = "replace"    -> Replace(text, args)
    [] name = "split"      -> Split(text, args)
    [] name = "substring"  -> Substring(text, args)
    [] name = "trim"       -> Trim(text)
    [] name = "find"       -> IF args # <<>> /\ args[1].kind = "string"
                              THEN Find(text, args[1].chars) ELSE Error
    [] name = "findAll"    -> FindAll(text, args)

\* strings.quote, jsonpatch.escapeKey and base64 take their argument in
\* parentheses.
TextCall(name, v) ==
  CASE name = "strings.quote" ->
         IF v.kind = "string" THEN Quote(v.chars) ELSE Error
    [] name = "jsonpatch.escapeKey" ->
         IF v.kind = "string" THEN EscapeKey(v.chars) ELSE Error
    [] name = "base64.encode" ->
         IF v.kind = "bytes" THEN Base64Encode(v.octets) ELSE Error
    [] name = "base64.decode" ->
         IF v.kind = "string" THEN Base64Decode(v.chars) ELSE Error
=============================================================================
