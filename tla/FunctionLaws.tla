---------------------------- MODULE FunctionLaws -----------------------------
(***************************************************************************)
(* What the function library promises of the calls of an expression.       *)
(***************************************************************************)
EXTENDS Evaluation

\* The library in a build without overflow checks.
Release == INSTANCE Dispatch WITH OverflowChecks <- FALSE

Made == ToSet(calls)

\* The calls of a function that were answered by its library.
MadeTo(owner, name) ==
  {c \in Made : c.name = name /\ name \in Names /\ table[name] = owner}

RECURSIVE WellFormed(_)
WellFormed(v) ==
  CASE v.kind = "int"   -> v.number \in (-IntLimit - 1)..IntLimit
    [] v.kind = "uint"  -> v.number \in 0..(2 * IntLimit + 1)
    [] v.kind = "float" -> Rounded(v.quarters) = v.quarters
    [] v.kind = "list"  -> \A i \in DOMAIN v.elems : WellFormed(v.elems[i])
    [] v.kind = "optional" -> \A w \in v.held : WellFormed(w)
    [] v.kind = "duration" -> v.nanos \in (-DurationLimit - 1)..DurationLimit
    [] v.kind = "cidr" -> v.prefix <= AddressBits(v.groups)
    [] v.kind = "quantity" -> v.mantissa \in (-MantissaLimit - 1)..MantissaLimit
    [] OTHER -> TRUE

\* Whatever is called, in any chain of calls, answers a value of its width:
\* no integer, double, duration or mantissa is out of range (the arithmetic of
\* math.rs, value_ops.rs, values.rs and quantity.rs).
TypeOK ==
  /\ features \in Builds /\ registered \in 0..Len(Libraries)
  /\ table \in [Names -> ToSet(Libraries) \cup {"cel", "nobody"}]
  /\ \A c \in Made : WellFormed(c.answer)

---------------------------------------------------------------------------
FullOwner(name) ==
  CHOOSE l \in ToSet(Libraries) : name \in NamesOf(l, Features)

\* min and max of arguments in parentheses.  Crate cel leaves a receiver aside
\* and takes the extremum of a list that is the only argument; the replacements
\* are methods of a list.
OfArguments(c) == c.receiver = {} /\ Len(c.args) >= 2

\* A feature adds functions and never changes what an expression means: what a
\* smaller build answers, the full build answers too, although it replaces
\* string, min and max of crate cel ("cel built-in variadic min must still work
\* after dispatch", src/src/functions/dispatch.rs:439).
SameInEveryBuild ==
  \A c \in Made :
    (/\ c.name \in Names /\ ~Failed(c.answer)
     /\ c.name \in {"min", "max"} => OfArguments(c))
    => c.answer = AnswerOf(FullOwner(c.name), Features, c)

---------------------------------------------------------------------------
Comparable(v, w) == CompareValues(v, w) # "none"

\* The elements as a stable sort leaves them, from their order alone.
StablySorted(elems) ==
  LET before(i, j) ==
        LET order == CompareValues(elems[i], elems[j])
        IN  order = "less" \/ (order = "equal" /\ i < j)
      places == SetToSortSeq(DOMAIN elems, before)
  IN  [k \in DOMAIN elems |-> elems[places[k]]]

\* sort answers the one stable permutation in order, or fails if any two
\* elements cannot be compared, wherever they stand; isSorted, min and max
\* agree with it.  (Integers and doubles that differ only beyond the precision
\* of a double have no coherent order.)
SortedOrRefused ==
  \A c \in MadeTo("lists", "sort") : This(c).kind = "list" =>
    LET elems == This(c).elems
        same(i, j) == CompareValues(elems[i], elems[j]) = "equal"
        total == \A i, j \in DOMAIN elems : i # j => Comparable(elems[i], elems[j])
        coherent == \A i, j, k \in DOMAIN elems :
                      same(i, j) /\ same(j, k) => same(i, k)
    IN  IF ~total THEN c.answer = Error
        ELSE coherent =>
             LET sorted == StablySorted(elems)
             IN  /\ c.answer = List(sorted)
                 /\ IsSortedList(sorted) = Bool(TRUE)
                 /\ Len(elems) > 1 =>
                      /\ ListMin(elems) = sorted[1]
                      /\ CompareValues(ListMax(elems), sorted[Len(elems)]) = "equal"

\* indexOf, lastIndexOf, reverse, slice, distinct and the sets functions speak
\* of the same elements: where one finds an element the others have it, the
\* last place is the first one of the reversed list, and sets know neither
\* order nor repetition (they share val_eq).
ElementsAgree ==
  /\ \A c \in MadeTo("dispatch", "indexOf") :
       (This(c).kind = "list" /\ ~Failed(c.answer)) =>
         LET elems == This(c).elems
             n     == c.answer.number
             back  == ListLastIndexOf(Reverse(elems), c.args[1]).number
         IN  /\ n = -1 <=> SetsContains(elems, <<c.args[1]>>) = Bool(FALSE)
             /\ n >= 0 => /\ back = Len(elems) - 1 - n
                          /\ ValEq(Slice(elems, n, n + 1).elems[1], c.args[1])
                          /\ ~Holds(Slice(elems, 0, n).elems, c.args[1])
  /\ \A c \in Made :
       (c.name \in {"sets.contains", "sets.equivalent"} /\ ~Failed(c.answer)) =>
         LET a == c.args[1].elems
             b == c.args[2].elems
         IN  /\ SetsEquivalent(a, b) = SetsEquivalent(b, a)
             /\ SetsEquivalent(a, b).truth <=>
                  SetsContains(a, b).truth /\ SetsContains(b, a).truth
             /\ SetsEquivalent(a, Distinct(Reverse(a)).elems).truth

\* The sum of integers is the sum as long as it stays in its width.  Addition
\* is a plain a + b (val_add, src/src/functions/value_ops.rs:32): a build with
\* overflow checks panics on the first partial sum out of the width, and a
\* release build answers, without a sign of it, the number of the width that
\* is congruent to the sum.
SumIsExact ==
  \A c \in MadeTo("lists", "sum") :
    LET elems  == This(c).elems
        kind   == elems[1].kind
        fits(n) == WellFormed([kind |-> kind, number |-> n])
        upTo(n) == FoldLeft(LAMBDA acc, v : acc + v.number, 0, SubSeq(elems, 1, n))
        sum     == upTo(Len(elems))
        released == Release!Sum(elems)
    IN  (/\ This(c).kind = "list" /\ elems # <<>> /\ kind \in {"int", "uint"}
         /\ \A i \in DOMAIN elems : elems[i].kind = kind)
        => /\ released.kind = kind /\ fits(released.number)
           /\ (released.number - sum) % (2 * IntLimit + 2) = 0
           /\ c.answer = IF OverflowChecks /\ \E n \in DOMAIN elems : ~fits(upTo(n))
                         THEN Panic ELSE released

\* "Returns the greatest of all arguments." (src/src/functions/math.rs:216): no
\* integer among them is greater than the answer.
GreatestIsGreatest ==
  \A c \in MadeTo("math", "math.greatest") :
    LET values == Effective(c.args)
    IN  \A i \in DOMAIN values :
          (values[i].kind = "int" /\ c.answer.kind = "int")
            => values[i].number <= c.answer.number

---------------------------------------------------------------------------
\* A substring that indexOf or lastIndexOf finds is there, and the last place
\* up to an offset is the first one from the other end of the reversed text:
\* string_index_of and string_last_index_of each convert character offsets on
\* their own.
FoundWhereSaid ==
  \A c \in MadeTo("dispatch", "indexOf") \cup MadeTo("dispatch", "lastIndexOf") :
    (IsText(This(c)) /\ ~Failed(c.answer) /\ c.args[1].chars # <<>>) =>
      LET text    == This(c).chars
          pattern == c.args[1].chars
          n       == c.answer.number
          spare   == Len(text) - Len(pattern)
          offset  == Optional(c.args, 2, spare)
          mirrored == StringIndexOf(Reverse(text),
                        <<Str(Reverse(pattern)), Int64(spare - offset)>>).number
      IN  /\ n >= 0 => Substring(text, <<Int64(n), Int64(n + Len(pattern))>>)
                         = Str(pattern)
          /\ c.name = "lastIndexOf" =>
               IF offset < 0 THEN n = -1
               ELSE n = IF mirrored = -1 THEN -1 ELSE spare - mirrored

\* Pieces that join with the separator give the text again, whatever the limit
\* and even with an empty separator, and to replace is to split and to join
\* with something else.
SplitsJoin ==
  \A i \in DOMAIN calls :
    LET c == calls[i]
    IN  c \in MadeTo("strings", "split") /\ ~Failed(c.answer) =>
          LET n == Optional(c.args, 2, -1)
              text == This(c)
          IN  /\ n # 0 => Join(c.answer.elems, <<c.args[1]>>) = text
              /\ n = -1 => Join(c.answer.elems, <<Str(<<"-">>)>>)
                             = Replace(text.chars, <<c.args[1], Str(<<"-">>)>>)

\* The text that a quoted text stands for, read back from left to right.
Unquoted(chars) ==
  FoldLeft(LAMBDA r, c :
             CASE r.escaped -> [r EXCEPT !.escaped = FALSE, !.out = @ \o
                    SetToSeq({e \in DOMAIN EscapeLetter : EscapeLetter[e] = c})]
               [] c = "\\" /\ ~r.escaped -> [r EXCEPT !.escaped = TRUE]
               [] c = "\"" /\ ~r.escaped -> [r EXCEPT !.open = ~@]
               [] OTHER -> [r EXCEPT !.out = Append(@, c)],
           [escaped |-> FALSE, open |-> FALSE, out |-> <<>>], chars)

\* A JSON pointer's key, read back: "~1" and then "~0".
Unescaped(chars) ==
  FoldLeft(LAMBDA r, c :
             IF r # <<>> /\ r[Len(r)] = "~0" THEN Append(Front(r),
               CASE c = "0" -> "~" [] c = "1" -> "/" [] OTHER -> "bad")
             ELSE Append(r, IF c = "~" THEN "~0" ELSE c),
           <<>>, chars)

\* What is escaped or encoded can be read back: strings.quote closes only at
\* its end, escapeKey keeps two keys apart, and base64.decode undoes
\* base64.encode.
EncodingsReadBack ==
  /\ \A c \in MadeTo("strings", "strings.quote") :
       ~Failed(c.answer) =>
         LET read == Unquoted(c.answer.chars)
         IN  ~read.open /\ ~read.escaped /\ read.out = c.args[1].chars
  /\ \A c \in MadeTo("jsonpatch", "jsonpatch.escapeKey") :
       ~Failed(c.answer) => Unescaped(c.answer.chars) = c.args[1].chars
  /\ \A i \in 1..(Len(calls) - 1) :
       (calls[i].name = "base64.encode" /\ calls[i + 1].name = "base64.decode"
          /\ ~Failed(calls[i].answer))
         => calls[i + 1].answer = calls[i].args[1]

---------------------------------------------------------------------------
\* A format is read once: cut between two directives, both halves written with
\* their own arguments give the whole, so no precision, mode or argument leaks
\* from one directive into the next (the loop of format_string).
FormatComposes ==
  \A c \in MadeTo("format", "format") : ~Failed(c.answer) =>
    LET chars == This(c).chars
        args  == Given(c)[1].elems
    IN  \A k \in 0..Len(chars) :
          LET scan == FoldLeft(LAMBDA s, d : Step(s, d, args), Scan,
                               SubSeq(chars, 1, k))
          IN  scan.mode = "text" =>
                c.answer = Str(
                  Format(SubSeq(chars, 1, k), SubSeq(args, 1, scan.used)).chars
                  \o Format(SubSeq(chars, k + 1, Len(chars)),
                            SubSeq(args, scan.used + 1, Len(args))).chars)

\* With a letter in the place of a last hyphen.
Closed(s) == IF Ends(s, {"-"}) THEN Append(Front(s), "a") ELSE s

\* A text is the prefix of a name exactly when a letter in the place of its
\* last hyphen makes it one, and every text that is cut from a label before its
\* end is a prefix of a label (the _prefix validators repeat the rules of the
\* full ones).
PrefixesComplete ==
  \A c \in MadeTo("named_format", "validate") :
    (This(c).kind = "format" /\ ~Failed(c.answer)) =>
      LET s == c.args[1].chars
      IN  Len(s) > 1 =>
            /\ Dns1123LabelPrefix(s) = <<>> <=> Dns1123Label(Closed(s)) = <<>>
            /\ Dns1035LabelPrefix(s) = <<>> <=> Dns1035Label(Closed(s)) = <<>>
            /\ (s[Len(s)] = "-" => s[Len(s) - 1] # ".") =>
                 (Dns1123SubdomainPrefix(s) = <<>>
                    <=> Dns1123Subdomain(Closed(s)) = <<>>)
            /\ Dns1123Label(s) = <<>> =>
                 \A k \in 1..Len(s) : Dns1123LabelPrefix(SubSeq(s, 1, k)) = <<>>

\* The days from the first of the year 1 to the first of a year.
DaysBefore(year) ==
  365 * (year - 1) + (year - 1) \div 4 - (year - 1) \div 100 + (year - 1) \div 400

\* format.date accepts exactly the days that the calendar has, the days of the
\* months adding up to the length of the year, and a date-time no other day.
DatesAreDates ==
  \A c \in MadeTo("named_format", "validate") :
    (This(c).kind = "format" /\ This(c).format \in {"date", "datetime"}
       /\ ~Failed(c.answer)) =>
      LET s == c.args[1].chars
          number(i, j) == ValueOf(SubSeq(s, i, j), 10)
          year  == number(1, 4)
          month == number(6, 7)
          written == /\ Len(s) >= 10 /\ s[5] = "-" /\ s[8] = "-"
                     /\ AllDigits(SubSeq(s, 1, 4) \o SubSeq(s, 6, 7) \o SubSeq(s, 9, 10))
          days == CASE month = 2 -> DaysBefore(year + 1) - DaysBefore(year) - 337
                    [] month \in {4, 6, 9, 11} -> 30
                    [] OTHER -> 31
          real == month \in 1..12 /\ number(9, 10) \in 1..days
      IN  written => IF This(c).format = "date" /\ Len(s) = 10
                     THEN c.answer = None <=> real
                     ELSE c.answer = None => real

\* "validate() ... returning optional.none() for valid inputs or
\* optional.of([...errors]) for invalid ones"
\* (src/src/functions/named_format.rs:4-6): whatever text it is given.
ValidateAnswers ==
  \A c \in MadeTo("named_format", "validate") : c.answer # Panic

---------------------------------------------------------------------------
\* The last address of a network.
LastAddress(n) ==
  [i \in DOMAIN n.groups |->
     Truncated(n.groups, n.prefix)[i] + HostBits(n.groups, n.prefix, i) - 1]

\* One network contains another exactly when its interval of addresses does,
\* whatever host bits were written in either, and masking a network changes no
\* answer (cidr_contains_cidr, cidr_contains_ip and cidr_masked).
ContainmentIsInclusion ==
  \A c \in MadeTo("ip", "containsCIDR") :
    (This(c).kind = "cidr" /\ ~Failed(c.answer)) =>
      LET outer == This(c)
          arg   == Given(c)[1]
          inner == IF arg.kind = "cidr" THEN arg
                   ELSE CHOOSE n \in ParseCIDRNet(arg) : TRUE
          first(n) == Truncated(n.groups, n.prefix)
      IN  /\ c.answer.truth <=>
               /\ Len(outer.groups) = Len(inner.groups)
               /\ OrderOfSeqs(first(outer), first(inner)) # "greater"
               /\ OrderOfSeqs(LastAddress(inner), LastAddress(outer)) # "greater"
          /\ ContainsCIDR(Masked(outer), Masked(inner)) = c.answer
          /\ c.answer.truth => ContainsIP(outer, CIDRIP(inner)).truth

\* No address is of two classes, in either family, and a text is an address of
\* one family at most (the predicates of ip.rs test ranges of their own).
ClassesApart ==
  \A c \in Made :
    /\ (c.name \in {"isLoopback", "isGlobalUnicast"} /\ ~Failed(c.answer)) =>
         Cardinality({class \in {"isLoopback", "isUnspecified",
                       "isLinkLocalMulticast", "isLinkLocalUnicast",
                       "isGlobalUnicast"} :
                        IPCall(class, This(c)) = Bool(TRUE)}) <= 1
    /\ (c.name \in {"isIPv4", "isIPv6"} /\ ~Failed(c.answer)) =>
         LET says(name) == AddressTextCall(name, Argument(c)).truth
         IN  says("isIP") <=> (says("isIPv4") # says("isIPv6"))

\* Versions are totally ordered, and a release comes after its pre-releases:
\* isLessThan, isGreaterThan and compareTo agree, and agree from the other
\* side; a version that the strict parser reads means the same to the lenient
\* one (Ord of semver::Version behind three functions).
VersionsOrdered ==
  \A c \in Made :
    /\ (c.name = "compareTo" /\ This(c).kind = "semver" /\ ~Failed(c.answer)) =>
         LET a == This(c)
             b == c.args[1]
             n == c.answer.number
         IN  /\ n = -SemverCompare("compareTo", b, a).number
             /\ n = 0 <=> a = b
             /\ SemverCompare("isLessThan", a, b).truth <=> n < 0
             /\ SemverCompare("isGreaterThan", a, b).truth <=> n > 0
             /\ (a.numbers = b.numbers /\ a.pre # <<>> /\ b.pre = <<>>) => n = -1
    /\ (c.name = "semver" /\ ~Failed(c.answer)) =>
         (DoParse(This(c), FALSE) # {} =>
            DoParse(This(c), TRUE) = DoParse(This(c), FALSE))

\* What a part is worth, in whole nanoseconds, and how far from that the code's
\* two doubles and the cut may put it: not at all for a number without decimals
\* that is a double, else by a nanosecond, and by one more for so many of them
\* as one bit less than a double's holds.
WholeNanos(p) == (p.over * Nanos[p.unit]) \div 10^p.places

Slack(p) == IF p.places = 0 /\ WholeNanos(p) < 2^DurationPrecision THEN 0
            ELSE 1 + WholeNanos(p) \div 2^(DurationPrecision - 1)

\* The numbers of nanoseconds that a text may be taken for, without its sign.
MayCome(text) ==
  LET total(F(_)) == FoldLeft(LAMBDA acc, p : acc + F(p), 0, text.parts)
  IN  (total(WholeNanos) - total(Slack))..(total(WholeNanos) + total(Slack))

\* Every part has a unit and is a number of nanoseconds in range: a larger part
\* would be cut to the largest.
InRange(text) ==
  \A p \in ToSet(text.parts) :
    p.unit \in DOMAIN Nanos /\ WholeNanos(p) + Slack(p) <= DurationLimit

\* The duration comes to n nanoseconds of either sign, up to whole widths.
ComesTo(duration, negative, n) ==
  /\ duration.kind = "duration"
  /\ (duration.nanos - (IF negative THEN -n ELSE n)) % (2 * DurationLimit + 2) = 0

\* A duration is what the parts of its text are worth together, up to the f64
\* they are read through; a total out of range panics in a build with overflow
\* checks, and wraps silently in a release build (total_nanos +=, values.rs:311).
\* Written by string() and read again it is the same up to f64, from a
\* millisecond to a second rounded to Places decimals as well (parse_go_duration
\* and format_cel_duration were written apart).  Microseconds are not read back.
DurationsKeep ==
  /\ \A c \in Made : (c.name = "self" /\ This(c).parts # <<>> /\ InRange(This(c))) =>
       LET text     == This(c)
           released == Release!ParseGoDuration(text)
       IN  /\ WellFormed(released)
           /\ \E n \in MayCome(text) : ComesTo(released, text.negative, n)
           /\ c.answer = released \/ (OverflowChecks /\ c.answer = Panic)
           /\ (\A n \in MayCome(text) : n <= DurationLimit) => c.answer = released
           /\ (OverflowChecks /\ \A n \in MayCome(text) : n > DurationLimit) =>
                c.answer = Panic
  /\ \A c \in Made : (c.name = "string" /\ This(c).kind = "duration" /\ ~Failed(c.answer)
                        /\ InRange(c.answer)) =>
       LET n     == This(c).nanos
           back  == ParseGoDuration(c.answer)
           slack == Cardinality(MayCome(c.answer)) \div 2
           rounding == IF Magnitude(n) \in Nanos["ms"]..(Nanos["s"] - 1)
                       THEN Nanos["ms"] \div 10^Places ELSE 0
       IN  Magnitude(n) + slack <= DurationLimit =>
             /\ back.kind = "duration"
             /\ 2 * Magnitude(back.nanos - n) <= rounding + 2 * slack

=============================================================================
