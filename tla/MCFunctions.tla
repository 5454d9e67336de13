---------------------------- MODULE MCFunctions -----------------------------
(***************************************************************************)
(* FunctionLaws with integers of 8 bits, doubles of 5 significant bits and *)
(* durations of 18 bits, on short texts and lists over few characters and  *)
(* elements.                                                               *)
(***************************************************************************)
EXTENDS FunctionLaws

MCBuilds ==
  {Features, {}, {"strings"}, {"lists"}, {"ip", "semver_funcs"}, {"quantity"},
   {"sets", "regex_funcs", "urls", "format"},
   {"jsonpatch", "named_format", "math", "encoders"}}

MCAlphabet == <<"a", "b", "c", "A", "B", "/", "~", "-", ".", "\"", "\\", "\n">>

\* The sequences over a set, by length.
Upto(n, set) == UNION {[1..k -> set] : k \in 0..n}

On(name, v, args) == Call(name, {v}, args)
Of(name, args)    == Call(name, {}, args)

Absent == <<>>
IntegerArg(set) == {Absent} \cup {<<Int64(n)>> : n \in set}

---------------------------------------------------------------------------
Texts    == Upto(3, {"a", "b"})
Patterns == Upto(2, {"a", "b"})

MCInvalidPattern == {<<"a", "b">>}

SearchCalls ==
  {On(name, Str(t), <<Str(p)>> \o o) :
     name \in {"indexOf", "lastIndexOf"}, t \in Texts, p \in Patterns,
     o \in IntegerArg({-1, 0, 1, 3})}

SplitCalls ==
  {On(name, Str(t), <<Str(p)>> \o n) :
     name \in {"split", "findAll"}, t \in Texts, p \in Patterns,
     n \in IntegerArg({-1, 0, 1, 2})}
  \cup {On("replace", Str(t), <<Str(p), Str(<<"c">>)>> \o n) :
          t \in Texts, p \in Patterns, n \in IntegerArg({-1, 1})}
  \cup {On("find", Str(t), <<Str(p)>>) : t \in Texts, p \in Patterns}

Blanks == Upto(3, {" ", "A", "b"})

SmallTextCalls ==
  {On(name, Str(t), <<>>) : name \in {"trim", "lowerAscii", "upperAscii", "reverse"},
                            t \in Blanks}
  \cup {On("charAt", Str(<<"a", "b">>), <<Int64(n)>>) : n \in -1..3}
  \cup {On("substring", Str(<<"a", "b", "c">>), <<Int64(n)>> \o o) :
          n \in -1..4, o \in IntegerArg(-1..4)}
  \cup {On("join", List(elems), s) : elems \in Upto(2, {Str(<<"a">>), Int64(1)}),
                                     s \in {<<>>, <<Str(<<"b">>)>>}}
  \cup {Of("indexOf", <<Str(<<"a">>), Str(<<"b">>)>>), On("indexOf", Bool(TRUE), <<>>),
        On("lastIndexOf", Null, <<Null>>), On("reverse", Null, <<>>),
        On("join", Null, <<>>), On("trim", Null, <<>>), On("charAt", Str(<<>>), <<>>),
        Of("string", <<Null>>)}

EncodingCalls ==
  {Of("strings.quote", <<Str(t)>>) : t \in Upto(3, {"a", "\\", "\"", "\n"})}
  \cup {Of("jsonpatch.escapeKey", <<Str(t)>>) : t \in Upto(3, {"~", "/", "0", "1"})}
  \cup {Of("base64.encode", <<Bytes(o)>>) : o \in Upto(3, {0, 97, 255})}
  \cup {Of("base64.decode", <<Str(t)>>) : t \in Upto(4, {"Q", "A", "="})}
  \cup {Of(name, <<Null>>) : name \in TextNames}

---------------------------------------------------------------------------
Elements == {Int64(1), Int64(2), Float(4), NaN, Str(<<"a">>), Str(<<"b">>), Bool(TRUE), Null}

Numbers == {Int64(n) : n \in {-128, -1, 1, 28, 100, 127}}
             \cup {UInt64(n) : n \in {1, 55, 200}}

Bag == Upto(3, {Int64(1), Float(4), Str(<<"a">>)})

ListCalls ==
  {On(name, List(s), <<>>) : name \in {"sort", "isSorted", "min", "max"},
                             s \in Upto(3, Elements)}
  \cup {On("sum", List(s), <<>>) : s \in Upto(3, Numbers)
          \cup Upto(2, {Float(4), NaN, Infinity(1), Infinity(-1), Float(124), Null})}
  \cup {On(name, List(s), <<v>>) : name \in {"indexOf", "lastIndexOf"}, s \in Bag,
                                   v \in {Int64(1), Str(<<"a">>), Null}}
  \cup {On(name, List(s), <<>>) : name \in {"distinct", "first", "last", "reverse"},
                                  s \in Bag}
  \cup {On("slice", List(<<Int64(1), Int64(2)>>), <<Int64(i), Int64(j)>>) :
          i \in -1..3, j \in -1..3}
  \cup {On("flatten", List(<<Int64(1), List(<<Null, List(s)>>)>>), args) :
          s \in Upto(1, {Null}), args \in {<<>>, <<Null>>, <<Int64(-1)>>, <<Int64(0)>>,
                                           <<Int64(2)>>}}
  \cup {Of("lists.range", <<Int64(n)>>) : n \in {-1, 0, 3}}
  \cup {Of(name, s) : name \in {"min", "max"},
                      s \in Upto(3, {Int64(1), Int64(2), Float(4), NaN})
                              \cup {<<List(<<Int64(1), Int64(2)>>)>>,
                                    <<Null, List(<<>>)>>}}
  \cup {On("first", Null, <<>>), Of("lists.range", <<Null>>), On("slice", List(<<>>), <<>>)}

SetCalls ==
  {Of(name, <<List(a), List(b)>>) :
     name \in {"sets.contains", "sets.equivalent", "sets.intersects"},
     a \in Upto(2, {Int64(1), Float(4), Str(<<"a">>)}),
     b \in Upto(2, {Int64(1), Int64(2), Str(<<"a">>)})}
  \cup {Of("sets.contains", <<Null>>)}

---------------------------------------------------------------------------
Doubles == {Float(q) : q \in {-10, -6, -2, 0, 1, 2, 3, 5, 6, 124, 992}}
             \cup {NaN, Infinity(1), Infinity(-1)}
Integers8 == {-128, -3, -1, 0, 1, 6, 64, 65, 127}

MathCalls ==
  {Of(name, <<v>>) : name \in RoundingNames \cup InspectionNames, v \in Doubles}
  \cup {Of(name, <<v>>) : name \in {"math.abs", "math.sign"},
          v \in Doubles \cup {Int64(n) : n \in Integers8} \cup {UInt64(200), Null}}
  \cup {Of(name, <<Int64(a), Int64(b)>>) : name \in BitNames,
          a \in Integers8, b \in Integers8}
  \cup {Of("math.bitNot", <<Int64(a)>>) : a \in Integers8}
  \cup {Of(name, s) : name \in ExtremumNames,
          s \in Upto(3, {Int64(64), Float(8), UInt64(3), NaN}) \cup {<<Null>>, <<Null, Null>>}}
  \cup {Of(name, <<List(s)>>) : name \in ExtremumNames, s \in Upto(2, {Int64(1), Float(8)})}
  \cup {Of(name, <<>>) : name \in MathNames} \cup {Of(name, <<Null>>) : name \in MathNames}

\* Integers beyond the precision of a double.
LargeCalls == {Of("math.greatest", <<Int64(64), Int64(n)>>) : n \in {1, 63, 65, 66}}

---------------------------------------------------------------------------
Directives ==
  {<<"a">>, <<"%", "%">>, <<"%", "s">>, <<"%", "d">>, <<"%", "f">>,
   <<"%", ".", "1", "f">>, <<"%", "e">>, <<"%", ".", "2", "e">>, <<"%", "x">>,
   <<"%", "X">>, <<"%", "b">>, <<"%", "o">>, <<"%", ".", "1", "2", "d">>,
   <<"%", ".">>, <<"%", "q">>, <<"%">>}

Arguments ==
  {<<Int64(5), Int64(-6)>>, <<Float(3), Float(-10)>>, <<Int64(127), Float(3)>>,
   <<Str(<<"a", "b">>), Int64(1)>>, <<UInt64(200), Bool(TRUE)>>, <<NaN, Infinity(-1)>>,
   <<List(<<Str(<<"a">>), Null, Float(8)>>), Map(<<<<Str(<<"a">>), Bool(FALSE)>>>>)>>,
   <<Bytes(<<10, 255>>), Null>>, <<>>}

FormatCalls ==
  {On("format", Str(d), <<List(args)>>) : d \in Directives, args \in Arguments}
  \cup {On("format", Str(d \o e), <<List(args)>>) :
          d \in Directives, e \in Directives, args \in Arguments}
  \cup {On("format", Str(<<>>), <<Null>>), Of("format", <<Str(<<"a">>), List(<<>>)>>)}

---------------------------------------------------------------------------
NameTexts == Upto(4, {"a", "-", "."}) \cup Upto(2, {"a", "A", "/", "0", "_"})

Dated(y, m, d) == Padded(y, 4) \o <<"-">> \o Padded(m, 2) \o <<"-">> \o Padded(d, 2)

Dates == {Dated(y, m, d) : y \in {0, 1900, 2000, 2023, 2024}, m \in {0, 1, 2, 4, 12, 13},
                           d \in {0, 1, 28, 29, 30, 31, 32}}
           \cup {<<"+", "2", "0", "2", "-", "0", "1", "-", "0", "1">>,
                 <<"2", "0", "2", "4">>}

Clock == <<"2", "3", ":", "5", "9", ":", "6", "0">>
Times == {Clock \o rest : rest \in
            {<<"Z">>, <<>>, <<".", "5", "z">>, <<".", "Z">>, <<"+", "0", "1", ":", "0", "0">>,
             <<"-", "2", "4", ":", "0", "0">>, <<"-", "1">>}}
           \cup {<<"2", "4", ":", "0", "0", ":", "0", "0", "Z">>, <<"0", ":", "0", "Z">>, <<>>}

Moments == {d \o <<"T">> \o t : t \in Times,
              d \in {Dated(2024, 2, 29), Dated(1900, 2, 29), Dated(2023, 13, 1)}}
             \cup {<<"2", "0">>}

\* A two-byte character ends beyond the byte where the seconds end.
Sliced8 == {Dated(2024, 1, 1) \o <<"T", "0", "0", ":", "0", "0", ":", "0", "lead", "trail", "Z">>}

Group(n) == [i \in 1..n |-> "a"]
Hyphen   == <<"-">>
OtherTexts ==
  {<<>>, <<":">>, <<"a", ":">>, <<"a", "-", "0", ":", "b">>, <<"0", ":">>,
   Group(8) \o Hyphen \o Group(4) \o Hyphen \o Group(4) \o Hyphen \o Group(4)
     \o Hyphen \o Group(12),
   <<"a", "a", "=", "=">>, <<"a", "a", "=">>, <<"a", "a">>, <<"=", "=">>}

Validate(kind, t) == On("validate", KubeFormat(kind), <<Str(t)>>)

NamedFormatCalls ==
  {Validate(kind, t) : t \in NameTexts,
     kind \in {"dns1123Label", "dns1123Subdomain", "dns1035Label", "dns1035LabelPrefix",
               "dns1123LabelPrefix", "dns1123SubdomainPrefix", "qualifiedName", "labelValue"}}
  \cup {Validate("date", t) : t \in Dates} \cup {Validate("datetime", t) : t \in Moments}
  \cup {Validate(kind, t) : kind \in {"uri", "uuid", "byte"}, t \in OtherTexts}
  \cup {Of(name, <<>>) : name \in NamedFormatNames}
  \cup {Of("format.named", <<Str(t)>>) : t \in {<<"date">>, <<"time">>}}
  \cup {On("validate", Null, <<Str(<<>>)>>)}

---------------------------------------------------------------------------
V6(a, b) == <<a, 0, 0, 0, 0, 0, 0, b>>
Mapped4  == <<0, 0, 0, 0, 0, 65535, 2560, 1>>

Addresses ==
  {<<127, 0, 0, 1>>, <<0, 0, 0, 0>>, <<224, 0, 0, 1>>, <<239, 1, 0, 0>>, <<169, 254, 1, 1>>,
   <<255, 255, 255, 255>>, <<10, 0, 0, 1>>, V6(0, 0), V6(0, 1), V6(65282, 1), V6(65298, 1),
   V6(65152, 1), V6(8193, 1), V6(65280, 0)}

AddressTexts ==
  {IPText(g, FALSE, canonical) : g \in Addresses \cup {Mapped4}, canonical \in BOOLEAN}
    \cup {IPText(V6(65152, 1), TRUE, TRUE), Str(<<"a">>), Null}

Networks ==
  {CIDR(<<10, 0, 0, 1>>, p) : p \in {0, 7, 8, 9, 32}}
    \cup {CIDR(<<10, 128, 0, 0>>, p) : p \in {8, 9, 31}}
    \cup {CIDR(<<11, 0, 0, 0>>, p) : p \in {7, 8}}
    \cup {CIDR(V6(8193, 1), p) : p \in {0, 16, 17, 127}}
    \cup {CIDR(V6(8192, 0), p) : p \in {15, 16}}

NetworkTexts ==
  {CIDRText(n.groups, n.prefix) : n \in Networks}
    \cup {CIDRText(<<10, 0, 0, 0>>, 33), CIDRText(Mapped4, 128)}

NetworkCalls ==
  {Of(name, <<v>>) : name \in AddressTextNames \cup {"ip"}, v \in AddressTexts \cup NetworkTexts}
  \cup {On(name, IP(g), <<>>) : g \in Addresses,
          name \in {"family", "isLoopback", "isUnspecified", "isLinkLocalMulticast",
                    "isLinkLocalUnicast", "isGlobalUnicast", "string", "masked"}}
  \cup {On("containsCIDR", n, <<m>>) : n \in Networks, m \in Networks \cup NetworkTexts}
  \cup {On("containsIP", n, <<v>>) : n \in Networks,
          v \in {IP(g) : g \in Addresses} \cup AddressTexts}
  \cup {On(name, n, args) : n \in Networks, args \in {<<>>},
          name \in {"masked", "prefixLength", "ip", "string", "containsIP", "containsCIDR"}}
  \cup {On("family", Null, <<>>), On("masked", Null, <<>>), On("isIP", Null, <<>>)}

---------------------------------------------------------------------------
Digit(n) == [zeros |-> 0, digits |-> {n}]
Beta  == <<[word |-> 2]>>
Beta1 == <<[word |-> 2], [number |-> 1]>>

VersionTexts ==
  {VersionText(v, parts, pre, build) :
     v \in BOOLEAN, pre \in {<<>>, Beta, Beta1, <<[number |-> 2]>>}, build \in {<<>>, <<1>>},
     parts \in {<<Digit(1)>>, <<Digit(1), Digit(0), Digit(0)>>,
                <<Digit(1), [zeros |-> 1, digits |-> {2}], Digit(0)>>,
                <<Digit(1), [zeros |-> 0, digits |-> {}], Digit(3)>>,
                <<Digit(2), Digit(0), Digit(200), Digit(4)>>, <<Digit(2), Digit(256), Digit(0)>>}}

Versions == UNION {DoParse(t, TRUE) : t \in VersionTexts}

SemverCalls ==
  {Of(name, <<t>> \o l) : name \in {"semver", "isSemver"}, t \in VersionTexts \cup {Null},
                          l \in {<<>>, <<Bool(TRUE)>>}}
  \cup {On("compareTo", v, <<w>>) : v \in Versions, w \in Versions \cup {Null}}
  \cup {On(name, v, <<v>>) : name \in {"isLessThan", "isGreaterThan"}, v \in Versions}
  \cup {On(name, Null, <<Null>>) : name \in CompareNames \cup {"major"}}
  \cup {On("compareTo", Null, <<>>)}

---------------------------------------------------------------------------
UrlTexts ==
  {UrlText(scheme, host, ipv6, port, path, query) :
     scheme \in {"http", "https", "ftp"}, host \in {"", "localhost", "h"}, ipv6 \in {FALSE},
     port \in {{}, {80}}, path \in {"/", "p"},
     query \in {<<>>, <<<<"k", "1">>, <<"m", "">>, <<"k", "2">>>>}}
  \cup {UrlText("", "", FALSE, {}, path, <<>>) : path \in {"", "p"}}
  \cup {UrlText("http", "x", TRUE, {8}, "/", <<>>)}

UrlCalls ==
  {Of(name, <<t>>) : name \in {"url", "isURL"}, t \in UrlTexts \cup {Str(<<"a">>), Null}}
  \cup {On("getHost", Null, <<>>)}

---------------------------------------------------------------------------
\* Of these 1.002s and 0.253s come out a nanosecond short, 1.07m eight more and
\* 20001ns one less.
Parts == {Part(1, 0, "h"), Part(15, 1, "h"), Part(2, 0, "m"), Part(59, 1, "s"), Part(1, 0, "s"),
          Part(7, 0, "ms"), Part(31, 1, "us"), Part(999, 0, "ns"), Part(3, 0, "ns"),
          Part(3, 0, ""), Part(9, 0, "h"), Part(1002, 3, "s"), Part(253, 3, "s"),
          Part(107, 2, "m"), Part(20001, 0, "ns")}

\* Each part is in range and their sum is not.
FourHours == [i \in 1..4 |-> Part(1, 0, "h")]

MCDurationField ==
  {DurationText(negative, parts) : negative \in BOOLEAN,
     parts \in Upto(2, Parts) \cup {<<Part(0, 0, "")>>, FourHours,
                                     Append(FourHours, Part(1, 0, "x"))}}

\* Literals for mantissas of 15 bits, their scales far enough apart for
\* products, powers and sums to overflow.
Plain(digits, places, suffix) ==
  [digits |-> digits, places |-> places, exponent |-> {}, suffix |-> suffix]

MCLiteral ==
  {Plain(0, 1, ""), Plain(1, 0, ""), Plain(-15, 1, ""), Plain(20, 0, "k"),
   Plain(1, 0, "m"), Plain(500, 0, "m"), Plain(2, 0, "Ki"), Plain(17, 0, "Ki"),
   Plain(15, 1, "k"), Plain(16000, 0, ""), Plain(-16384, 0, ""),
   Plain(16384, 0, ""), Plain(127, 0, ""),
   [digits |-> 12, places |-> 1, exponent |-> {2}, suffix |-> ""],
   [digits |-> 10, places |-> 0, exponent |-> {-2}, suffix |-> ""],
   [digits |-> 1, places |-> 0, exponent |-> {2}, suffix |-> "k"]}

MCNumber == {-128, 1, 127}

QuantityTexts ==
  {QuantityText(d, p, {}, s) : d \in {0, 5, -15}, p \in {0, 1}, s \in {"", "k", "m", "Ki"}}
    \cup {QuantityText(1, 0, {2}, "k"), QuantityText(1, 0, {}, "Q")}

QuantityValues == {Quantity([mantissa |-> m, scale |-> s]) : m \in {1, -15, 16383}, s \in {-3, 0, 1}}

QuantityCalls ==
  {Of(name, <<t>>) : name \in {"quantity", "isQuantity"}, t \in QuantityTexts \cup {Null}}
  \cup {On(name, q, <<v>>) : name \in {"add", "sub"} \cup CompareNames,
          q \in QuantityValues, v \in QuantityValues \cup {Int64(1), UInt64(2), Null}}
  \cup {On(name, q, <<>>) : name \in {"isInteger", "asInteger", "sign", "add", "compareTo"},
          q \in QuantityValues \cup {Null}}

---------------------------------------------------------------------------
StringCalls ==
  {Of("string", <<v>>) : v \in {Int64(-128), UInt64(200), Float(8), Float(3), NaN,
                                Infinity(-1), Bytes(<<1, 2>>), Str(<<"a">>), Bool(TRUE)}}

MCFirstCall ==
  SearchCalls \cup SplitCalls \cup SmallTextCalls \cup EncodingCalls
    \cup ListCalls \cup SetCalls \cup MathCalls \cup FormatCalls
    \cup NamedFormatCalls \cup NetworkCalls \cup SemverCalls \cup UrlCalls
    \cup QuantityCalls \cup StringCalls

\* A text that ends inside a character where validate_time_str cuts it.
SlicedCalls == {Validate("datetime", t) : t \in Sliced8}

\* A build with everything.
FullBuild == {Features}

\* What follows on an answer.
MCNextCall(c) ==
  LET then(names) == {On(name, c.answer, <<>>) : name \in names}
  IN  CASE c.name = "self" -> then({"string", "min"})
        [] c.name = "base64.encode" -> {Of("base64.decode", <<c.answer>>)}
        [] c.name = "split"  -> {On("join", c.answer, <<c.args[1]>>)}
        [] c.name = "sort"   -> then({"isSorted", "min", "first"})
        [] c.name = "semver" -> then({"major", "minor", "patch"})
        [] c.name = "cidr"   -> then({"masked", "ip", "string"})
        [] c.name = "ip"     -> then({"family", "string"})
        [] c.name = "quantity" -> then({"isInteger", "asInteger"})
        [] c.name = "url" -> then({"getScheme", "getHost", "getHostname", "getPort",
                                   "getEscapedPath", "getQuery"})
        [] OTHER -> {}
=============================================================================
