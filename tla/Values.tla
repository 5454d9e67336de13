------------------------------- MODULE Values -------------------------------
(***************************************************************************)
(* Conversion of JSON documents into CEL values under a schema node,       *)
(* src/src/validation/values.rs, and the escaping of field names into CEL  *)
(* keys, src/src/validation/escaping.rs.  A field name is a sequence of    *)
(* characters.                                                             *)
(*                                                                         *)
(* A CEL value is a record: "null", "map" with entries by CEL key, "list", *)
(* or a scalar whose kind is "scalar" or the CEL type that the node's      *)
(* format gives it.                                                        *)
(***************************************************************************)
EXTENDS Documents, SequencesExt

CONSTANTS
  ReservedWords,   \* CEL_RESERVED_WORDS
  ParsesAs(_, _),  \* the atom is a string that parses in the format: RFC
                   \* 3339, a Go duration, base64
  MaxNesting       \* a bound: documents nest less deep (128 in serde_json)

ASSUME NestingAssumption == MaxNesting \in Nat

---------------------------------------------------------------------------
Substitution(ch) ==
  CASE ch = "_" -> <<"_", "_">>
    [] ch = "." -> <<"_", "_", "d", "o", "t", "_", "_">>
    [] ch = "-" -> <<"_", "_", "d", "a", "s", "h", "_", "_">>
    [] ch = "/" -> <<"_", "_", "s", "l", "a", "s", "h", "_", "_">>
    [] OTHER    -> <<ch>>

\* A reserved word is wrapped in underscores; every other name is substituted
\* character by character, which leaves a name without specials unchanged.
EscapeFieldName(name) ==
  IF name \in ReservedWords THEN <<"_", "_">> \o name \o <<"_", "_">>
  ELSE FlattenSeq([i \in DOMAIN name |-> Substitution(name[i])])

---------------------------------------------------------------------------
\* int-or-string hides whatever format the node declares.
SchemaFormat(schema) ==
  IF schema.intOrString THEN "int-or-string" ELSE schema.format

ConvertScalar(v, format) ==
  IF format \in {"date-time", "duration", "byte"} /\ ParsesAs(v.atom, format)
  THEN [kind |-> format, atom |-> v.atom]
  ELSE v

CelMap(entries)  == [kind |-> "map", entries |-> entries]
CelList(elems)   == [kind |-> "list", elems |-> elems]

\* An object's entries under their CEL keys.  Keys of a map node are user data
\* and stay as they are; field names are escaped, and of two names that escape
\* alike the one listed last remains.
Rekey(obj, values, isMap) ==
  LET order  == MapOrder(Keys(obj))
      cel(k) == IF isMap THEN k ELSE EscapeFieldName(k)
  IN  [c \in {cel(k) : k \in Keys(obj)} |->
         values[order[SelectLastInSeq(order, LAMBDA k : cel(k) = c)]]]

\* What an embedded resource always has, if only with empty values.
EmbeddedDefaults ==
  [k \in {<<"apiVersion">>, <<"kind">>, <<"metadata">>} |->
     IF k = <<"metadata">> THEN CelMap(<<>>) ELSE Scalar("")]

WithEmbedded(entries, embedded) ==
  IF embedded
  THEN [k \in DOMAIN entries \cup DOMAIN EmbeddedDefaults |->
          IF k \in DOMAIN entries THEN entries[k] ELSE EmbeddedDefaults[k]]
  ELSE entries

---------------------------------------------------------------------------
\* What the conversion looks up in a node, which the code has three times: for
\* no node, for a raw schema and for the metadata kept in a compiled node.
Plain == [isMap |-> FALSE, embedded |-> FALSE, format |-> "none"]

ReadRaw(schema) ==
  [isMap    |-> schema.additionalProperties \notin {"absent", "false"},
   embedded |-> schema.embedded,
   format   |-> SchemaFormat(schema)]

ReadCompiled(compiled) ==
  [isMap    |-> compiled.isMap,
   embedded |-> compiled.embedded,
   format   |-> compiled.format]

Reading(copy, nodes) ==
  IF nodes = {} THEN Plain
  ELSE LET n == CHOOSE n \in nodes : TRUE
       IN  IF copy = "raw" THEN ReadRaw(n) ELSE ReadCompiled(n)

\* The nodes, Options, that a field and an item are converted under: a declared
\* property has its own, any other field the map schema.
FieldNodes(nodes, k) ==
  UNION {IF k \in DOMAIN n.properties THEN {n.properties[k]} ELSE n.additional :
           n \in nodes}

ItemNodes(nodes) == UNION {n.items : n \in nodes}

\* The conversions a conversion calls: pairs of an Option of a node and a value.
ConversionsBelow(nodes, v) ==
  IF IsObject(v)
  THEN {<<FieldNodes(nodes, k), v.fields[k]>> : k \in Keys(v)}
  ELSE IF IsArray(v)
  THEN {<<ItemNodes(nodes), v.elems[i]>> : i \in DOMAIN v.elems}
  ELSE {}

\* One conversion, given what those below make of their values.
ConvertInner(reading, nodes, v, made) ==
  IF IsObject(v)
  THEN CelMap(WithEmbedded(
         Rekey(v, [k \in Keys(v) |-> made[<<FieldNodes(nodes, k), v.fields[k]>>]],
               reading.isMap),
         reading.embedded))
  ELSE IF IsArray(v)
  THEN CelList([i \in DOMAIN v.elems |-> made[<<ItemNodes(nodes), v.elems[i]>>]])
  ELSE IF v.kind = "scalar" THEN ConvertScalar(v, reading.format)
  ELSE v

ConvertedBy(calls) == UNION {ConversionsBelow(c[1], c[2]) : c \in calls}

\* What is made of values that have so many levels left up to the bound.
MadeOf(copy, calls, left, below) ==
  [c \in calls |-> IF left = 0 THEN c[2]
                   ELSE ConvertInner(Reading(copy, c[1]), c[1], c[2], below)]

\* The recursion: the conversions at each level of nesting, and from the deepest
\* up what they make.
ConversionsAt(nodes, v) ==
  LET at[nesting \in 0..MaxNesting] ==
        IF nesting = 0 THEN {<<nodes, v>>} ELSE ConvertedBy(at[nesting - 1])
  IN  at

MadeAt(copy, nodes, v) ==
  LET at[left \in 0..MaxNesting] ==
        MadeOf(copy, ConversionsAt(nodes, v)[MaxNesting - left], left, at[left - 1])
  IN  at

\* (The bound is out of the way where the deepest level is empty.)
NestsWithinBound(v) == ConversionsAt({}, v)[MaxNesting] = {}

Converted(copy, nodes, v) == MadeAt(copy, nodes, v)[MaxNesting][<<nodes, v>>]

\* json_to_cel_with_schema and json_to_cel_with_compiled; both go on as
\* json_to_cel where they have no node.
JsonToCelWithSchema(schema, v)     == Converted("raw", {schema}, v)
JsonToCelWithCompiled(compiled, v) == Converted("compiled", {compiled}, v)
=============================================================================
