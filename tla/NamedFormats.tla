---------------------------- MODULE NamedFormats ----------------------------
(***************************************************************************)
(* format.<name>() and validate, src/src/functions/named_format.rs.  Text  *)
(* is a sequence of bytes: a character is one byte, or a "lead" byte with  *)
(* a "trail" byte.  An error is a short name for its wording.              *)
(***************************************************************************)
EXTENDS CelValues, Numerals

CONSTANTS
  MaxLabel,       \* 63: bytes of a label or a name
  MaxSubdomain    \* 253: bytes of a subdomain

ASSUME LengthAssumption == MaxLabel \in Nat /\ MaxSubdomain \in Nat

FormatKinds ==
  {"dns1123Label", "dns1123Subdomain", "dns1035Label", "dns1035LabelPrefix",
   "dns1123LabelPrefix", "dns1123SubdomainPrefix", "qualifiedName",
   "labelValue", "uri", "uuid", "byte", "date", "datetime"}

FactoryName(kind) == "format." \o kind

KubeFormat(kind) == [kind |-> "format", format |-> kind]

---------------------------------------------------------------------------
LowerLetter == {"a", "b", "c", "d", "e", "f", "x", "t", "z"}
UpperLetter == {"A", "B", "F", "T", "Z"}
Alphanumeric == LowerLetter \cup UpperLetter \cup DecimalDigit
HexDigit == DecimalDigit \cup {"a", "b", "c", "d", "e", "f", "A", "B", "F"}

All(s, set)    == \A i \in DOMAIN s : s[i] \in set
Starts(s, set) == s # <<>> /\ s[1] \in set
Ends(s, set)   == s # <<>> /\ s[Len(s)] \in set

\* The errors of the checks that fail, in their order.
Reported(checks) ==
  LET failed == SelectSeq(checks, LAMBDA c : ~c[1])
  IN  [i \in DOMAIN failed |-> failed[i][2]]

Short(s) == <<Len(s) <= MaxLabel, "length">>
DnsChars(s) == <<All(s, LowerLetter \cup DecimalDigit \cup {"-"}), "characters">>
LongName(s) == <<Len(s) <= MaxSubdomain, "length">>

Dns1123Label(s) ==
  IF s = <<>> THEN <<"empty">>
  ELSE Reported(<<Short(s), DnsChars(s),
                  <<~Starts(s, {"-"}) /\ ~Ends(s, {"-"}), "ends">>>>)

Dns1035Label(s) ==
  IF s = <<>> THEN <<"empty">>
  ELSE Reported(<<Short(s), DnsChars(s), <<Starts(s, LowerLetter), "start">>,
                  <<~Ends(s, {"-"}), "end">>>>)

\* Nothing at all is a prefix of a 1035 label, but not of a 1123 label.
Dns1035LabelPrefix(s) ==
  IF s = <<>> THEN <<>>
  ELSE Reported(<<Short(s), DnsChars(s), <<Starts(s, LowerLetter), "start">>>>)

Dns1123LabelPrefix(s) ==
  IF s = <<>> THEN <<"empty">>
  ELSE Reported(<<Short(s), DnsChars(s), <<~Starts(s, {"-"}), "start">>>>)

Dns1123Subdomain(s) ==
  LET parts == Pieces(s, ".")
  IN  IF s = <<>> THEN <<"empty">>
      ELSE Reported(<<LongName(s)>>)
             \o FlattenSeq([i \in DOMAIN parts |-> Dns1123Label(parts[i])])

\* A slip: every label may end in a hyphen.
Dns1123SubdomainPrefixEverywhere(s) ==
  LET parts == Pieces(s, ".")
  IN  IF s = <<>> THEN <<"empty">>
      ELSE Reported(<<LongName(s)>>)
             \o FlattenSeq([i \in DOMAIN parts |-> Dns1123LabelPrefix(parts[i])])

\* Only the last label is cut off.
Dns1123SubdomainPrefix(s) ==
  LET parts == Pieces(s, ".")
  IN  IF s = <<>> THEN <<"empty">>
      ELSE Reported(<<LongName(s)>>)
             \o FlattenSeq([i \in DOMAIN parts |->
                  IF i = Len(parts) THEN Dns1123LabelPrefix(parts[i])
                  ELSE Dns1123Label(parts[i])])

NameChecks(s) ==
  Reported(<<Short(s), <<All(s, Alphanumeric \cup {"-", "_", "."}), "characters">>,
             <<Starts(s, Alphanumeric), "start">>, <<Ends(s, Alphanumeric), "end">>>>)

QualifiedNameLocal(s) == IF s = <<>> THEN <<"empty">> ELSE NameChecks(s)

LabelValue(s) == IF s = <<>> THEN <<>> ELSE NameChecks(s)

\* An optional prefix, up to the last slash, is a subdomain.
QualifiedName(s) ==
  LET slash  == SelectLastInSeq(s, LAMBDA c : c = "/")
      prefix == SubSeq(s, 1, slash - 1)
      ofPrefix == IF slash = 0 THEN <<>>
                  ELSE IF prefix = <<>> THEN <<"no prefix">>
                  ELSE Dns1123Subdomain(prefix)
  IN  IF s = <<>> THEN <<"empty">>
      ELSE ofPrefix \o QualifiedNameLocal(SubSeq(s, slash + 1, Len(s)))

Uri(s) ==
  LET colon  == SelectInSeq(s, LAMBDA c : c = ":")
      scheme == SubSeq(s, 1, colon - 1)
  IN  IF s = <<>> THEN <<"empty">>
      ELSE IF colon = 0 THEN <<"no scheme">>
      ELSE IF /\ Starts(scheme, LowerLetter \cup UpperLetter)
              /\ All(scheme, Alphanumeric \cup {"+", "-", "."})
           THEN <<>> ELSE <<"scheme">>

UuidLengths == <<8, 4, 4, 4, 12>>

Uuid(s) ==
  LET parts == Pieces(s, "-")
  IN  IF /\ Len(parts) = 5
         /\ \A i \in 1..5 : Len(parts[i]) = UuidLengths[i] /\ All(parts[i], HexDigit)
      THEN <<>> ELSE <<"form">>

Base64Char == Alphanumeric \cup {"+", "/", "-", "_"}

\* Standard or URL-safe; padded text fills its last group.
Byte(s) ==
  LET last    == SelectLastInSeq(s, LAMBDA c : c # "=")
      padding == Len(s) - last
  IN  IF /\ All(SubSeq(s, 1, last), Base64Char)
         /\ padding <= 2 /\ last % 4 # 1
         /\ padding > 0 => Len(s) % 4 = 0
      THEN <<>> ELSE <<"base64">>

---------------------------------------------------------------------------
\* s[from..to] with byte offsets from zero; {} is a panic.
Sliced(s, from, to) ==
  IF \E i \in {from + 1, to + 1} \cap DOMAIN s : s[i] = "trail" THEN {}
  ELSE {SubSeq(s, from + 1, to)}

U32(s) == ParseUnsigned(s, 2147483647)

\* A slip: a century is a leap year like any fourth.
IsLeapYearJulian(year) == year % 4 = 0

IsLeapYear(year) == (year % 4 = 0 /\ year % 100 # 0) \/ year % 400 = 0

DaysInMonth(year, month) ==
  CASE month \in {4, 6, 9, 11} -> 30
    [] month = 2 -> IF IsLeapYear(year) THEN 29 ELSE 28
    [] OTHER -> 31

\* The hyphens make every slice start and end between characters.
Date(s) ==
  IF ~(Len(s) = 10 /\ s[5] = "-" /\ s[8] = "-") THEN <<"form">>
  ELSE LET year  == U32(SubSeq(s, 1, 4))
           month == U32(SubSeq(s, 6, 7))
           day   == U32(SubSeq(s, 9, 10))
       IN  IF {} \in {year, month, day} THEN <<"form">>
           ELSE IF \E y \in year, m \in month, d \in day :
                     m \in 1..12 /\ d \in 1..DaysInMonth(y, m)
                THEN <<>> ELSE <<"date">>

\* Where a timezone starts, one past the end if nowhere: at the last "Z", or
\* at the last sign that is not among the first two bytes.
FindTimezone(s) ==
  LET zulu == SelectLastInSeq(s, LAMBDA c : c \in {"Z", "z"})
      sign == SelectLastInSeq(s, LAMBDA c : c \in {"+", "-"})
  IN  IF zulu # 0 THEN zulu ELSE IF sign > 2 THEN sign ELSE Len(s) + 1

Below60(option) == \E n \in option : n <= 59

\* Seconds may be sixty.  The slice of the seconds may end within a
\* character: then the code panics.
TimeStr(s) ==
  IF ~(Len(s) >= 8 /\ s[3] = ":" /\ s[6] = ":") THEN {FALSE}
  ELSE LET hour == U32(SubSeq(s, 1, 2))
           min  == U32(SubSeq(s, 4, 5))
           frac == SubSeq(s, 10, Len(s))
       IN  IF {} \in {hour, min} THEN {FALSE}
           ELSE {/\ \A h \in hour : h <= 23
                 /\ Below60(min)
                 /\ \E n \in U32(sec) : n <= 60
                 /\ Len(s) > 8 => s[9] = "." /\ frac # <<>> /\ AllDigits(frac) :
                   sec \in Sliced(s, 6, 8)}

Timezone(s) ==
  \/ s \in {<<"Z">>, <<"z">>}
  \/ /\ Len(s) = 6 /\ s[1] \in {"+", "-"} /\ s[4] = ":"
     /\ \E n \in U32(SubSeq(s, 2, 3)) : n <= 23
     /\ Below60(U32(SubSeq(s, 5, 6)))

\* The errors of a date-time; {} is a panic.
DateTime(s) ==
  LET t    == SelectInSeq(s, LAMBDA c : c \in {"T", "t"})
      rest == SubSeq(s, t + 1, Len(s))
      tz   == FindTimezone(rest)
      zone == SubSeq(rest, tz, Len(rest))
  IN  IF t = 0 THEN {<<"form">>}
      ELSE IF Date(SubSeq(s, 1, t - 1)) # <<>> \/ rest = <<>> THEN {<<"form">>}
      ELSE IF zone = <<>> THEN {<<"timezone">>}
      ELSE {IF good /\ Timezone(zone) THEN <<>> ELSE <<"form">> :
              good \in TimeStr(SubSeq(rest, 1, tz - 1))}

---------------------------------------------------------------------------
\* validate_format; {} is a panic.
ValidateFormat(kind, s) ==
  CASE kind = "dns1123Label"           -> {Dns1123Label(s)}
    [] kind = "dns1123Subdomain"       -> {Dns1123Subdomain(s)}
    [] kind = "dns1035Label"           -> {Dns1035Label(s)}
    [] kind = "dns1035LabelPrefix"     -> {Dns1035LabelPrefix(s)}
    [] kind = "dns1123LabelPrefix"     -> {Dns1123LabelPrefix(s)}
    [] kind = "dns1123SubdomainPrefix" -> {Dns1123SubdomainPrefix(s)}
    [] kind = "qualifiedName" -> {QualifiedName(s)}
    [] kind = "labelValue"    -> {LabelValue(s)}
    [] kind = "uri"      -> {Uri(s)}
    [] kind = "uuid"     -> {Uuid(s)}
    [] kind = "byte"     -> {Byte(s)}
    [] kind = "date"     -> {Date(s)}
    [] kind = "datetime" -> DateTime(s)

\* No errors are none.
FormatValidate(kind, s) ==
  LET answers == ValidateFormat(kind, s)
      errors  == CHOOSE e \in answers : TRUE
  IN  IF answers = {} THEN Panic
      ELSE IF errors = <<>> THEN None
      ELSE Some(List([i \in DOMAIN errors |-> Str(<<errors[i]>>)]))

\* format.<name>() and format.named(<name>); an unknown name is null.
FormatOf(name, args) ==
  IF name # "format.named"
  THEN KubeFormat(CHOOSE kind \in FormatKinds : FactoryName(kind) = name)
  ELSE IF args = <<>> \/ args[1].kind # "string" THEN Error
  ELSE IF \E kind \in FormatKinds : args[1].chars = <<kind>>
       THEN KubeFormat(args[1].chars[1]) ELSE Null
=============================================================================
