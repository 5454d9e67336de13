---------------------------- MODULE Registration ----------------------------
(***************************************************************************)
(* register_all, src/src/functions/mod.rs: the libraries a build has put   *)
(* their functions into the one table of a CEL context, library after      *)
(* library.  The table knows names only, so a library that registered the  *)
(* name of another would take it away without a trace; the names that      *)
(* several types share belong to dispatch.rs, which comes last.            *)
(***************************************************************************)
EXTENDS Naturals, Sequences, FiniteSets

CONSTANT Builds   \* the sets of features to build with

(***************************************************************************)
(* One set per register function, in the order of the calls in             *)
(* register_all.                                                           *)
(***************************************************************************)
StringNames == {"charAt", "lowerAscii", "upperAscii", "replace", "split",
                "substring", "trim", "join", "strings.quote"}

\* A slip: lists has an indexOf of its own, as strings.rs:16 remembers.
ListNamesWithIndexOf ==
  {"isSorted", "sum", "slice", "sort", "flatten", "distinct", "first", "last",
   "lists.range", "indexOf"}

ListNames == {"isSorted", "sum", "slice", "sort", "flatten", "distinct",
              "first", "last", "lists.range"}

SetNames   == {"sets.contains", "sets.equivalent", "sets.intersects"}

RegexNames == {"find", "findAll"}

UrlNames == {"url", "isURL", "getScheme", "getHost", "getHostname", "getPort",
             "getEscapedPath", "getQuery"}

NetworkNames ==
  {"isIP", "ip.isCanonical", "family", "isLoopback", "isUnspecified",
   "isLinkLocalMulticast", "isLinkLocalUnicast", "isGlobalUnicast", "isIPv4",
   "isIPv6", "cidr", "isCIDR", "containsIP", "containsCIDR", "prefixLength",
   "masked", "isCIDRv4", "isCIDRv6"}

SemverNames == {"semver", "isSemver", "major", "minor", "patch"}

FormatNames == {"format"}

QuantityNames == {"quantity", "isQuantity", "isInteger", "asInteger",
                  "asApproximateFloat", "sign", "add", "sub"}

JsonPatchNames == {"jsonpatch.escapeKey"}

NamedFormatNames ==
  {"format.dns1123Label", "format.dns1123Subdomain", "format.dns1035Label",
   "format.dns1035LabelPrefix", "format.dns1123LabelPrefix",
   "format.dns1123SubdomainPrefix", "format.qualifiedName",
   "format.labelValue", "format.uri", "format.uuid", "format.byte",
   "format.date", "format.datetime", "format.named", "validate"}

MathNames ==
  {"math.ceil", "math.floor", "math.round", "math.trunc", "math.abs",
   "math.sign", "math.isInf", "math.isNaN", "math.isFinite", "math.bitAnd",
   "math.bitOr", "math.bitXor", "math.bitNot", "math.bitShiftLeft",
   "math.bitShiftRight", "math.sqrt", "math.greatest", "math.least"}

EncoderNames == {"base64.decode", "base64.encode"}

\* A slip: reverse is there for strings only.
DispatchNamesOfStrings(features) ==
  {"indexOf", "lastIndexOf", "isGreaterThan", "isLessThan", "compareTo"}
    \cup (IF "ip" \in features THEN {"ip", "string"} ELSE {})
    \cup (IF "strings" \in features THEN {"reverse"} ELSE {})
    \cup (IF "lists" \in features THEN {"min", "max"} ELSE {})

\* Some names are there in every build, and fail where no library has them.
DispatchNames(features) ==
  {"indexOf", "lastIndexOf", "isGreaterThan", "isLessThan", "compareTo"}
    \cup (IF "ip" \in features THEN {"ip", "string"} ELSE {})
    \cup (IF {"strings", "lists"} \cap features # {} THEN {"reverse"} ELSE {})
    \cup (IF "lists" \in features THEN {"min", "max"} ELSE {})

---------------------------------------------------------------------------
Features == {"strings", "lists", "sets", "regex_funcs", "urls", "ip",
             "semver_funcs", "format", "quantity", "jsonpatch",
             "named_format", "math", "encoders"}

ASSUME BuildsAssumption == Builds \subseteq SUBSET Features

\* dispatch is part of every build.
Libraries ==
  <<"strings", "lists", "sets", "regex_funcs", "urls", "ip", "semver_funcs",
    "format", "quantity", "jsonpatch", "named_format", "math", "encoders",
    "dispatch">>

LibraryNames ==
  [l \in Features |->
     CASE l = "strings" -> StringNames   [] l = "lists" -> ListNames
       [] l = "sets" -> SetNames         [] l = "regex_funcs" -> RegexNames
       [] l = "urls" -> UrlNames         [] l = "ip" -> NetworkNames
       [] l = "semver_funcs" -> SemverNames [] l = "format" -> FormatNames
       [] l = "quantity" -> QuantityNames   [] l = "jsonpatch" -> JsonPatchNames
       [] l = "named_format" -> NamedFormatNames [] l = "math" -> MathNames
       [] l = "encoders" -> EncoderNames]

\* The names that crate cel has itself and dispatch.rs replaces.
CelNames == {"string", "min", "max"}

\* What a library registers in a build.
NamesOf(library, features) ==
  CASE library = "dispatch" -> DispatchNames(features)
    [] library \in features -> LibraryNames[library]
    [] OTHER -> {}

Names ==
  (UNION {LibraryNames[l] : l \in Features}) \cup DispatchNames(Features)

---------------------------------------------------------------------------
VARIABLES
  features,     \* the features of the build
  registered,   \* how many of Libraries had their turn
  table         \* who answers a name: a library, "cel" or "nobody"

regVars == <<features, registered, table>>

RegInit ==
  /\ features \in Builds
  /\ registered = 0
  /\ table = [name \in Names |-> IF name \in CelNames THEN "cel" ELSE "nobody"]

\* The next library registers all its functions, if the build has it.
Register ==
  /\ registered < Len(Libraries)
  /\ registered' = registered + 1
  /\ LET library == Libraries[registered + 1]
     IN  table' = [name \in Names |->
                     IF name \in NamesOf(library, features) THEN library
                     ELSE table[name]]
  /\ UNCHANGED features

Registered == registered = Len(Libraries)

RegSpec == RegInit /\ [][Register]_regVars

---------------------------------------------------------------------------
\* "modules no longer register these conflicting names"
\* (src/src/functions/dispatch.rs:19-20): whatever the build, no library takes
\* a name that another one has registered, so the order of register_all does
\* not matter.
NeverTaken ==
  [][\A name \in Names :
       table[name] \in {"cel", "nobody"} \/ table'[name] = table[name]]_regVars

\* The types whose method a shared name is, by the feature that brings them.
Sharers ==
  [name \in DispatchNames(Features) |->
     CASE name \in {"indexOf", "lastIndexOf", "reverse"} -> {"strings", "lists"}
       [] name \in {"isGreaterThan", "isLessThan", "compareTo"} ->
            {"semver_funcs", "quantity"}
       [] name \in {"ip", "string"} -> {"ip"}
       [] OTHER -> {"lists"}]

\* Once all is registered, every library of the build answers its own names,
\* and dispatch the shared ones, whichever of the sharers the build has; what
\* crate cel can do on its own is replaced only then (register_all with the
\* cfg attributes of dispatch::register).
EveryNameAnswered ==
  Registered =>
    /\ \A l \in features : \A name \in LibraryNames[l] : table[name] = l
    /\ \A name \in DOMAIN Sharers :
         /\ Sharers[name] \cap features # {} => table[name] = "dispatch"
         /\ name \in CelNames /\ Sharers[name] \cap features = {}
              => table[name] = "cel"
=============================================================================
