------------------------------ MODULE Semvers -------------------------------
(***************************************************************************)
(* Semantic versions, src/src/functions/semver_funcs.rs.  The text of a    *)
(* version is a record                                                     *)
(*   v     a "v" or "V" stands in front                                    *)
(*   parts what stands between the dots: records [zeros, digits], leading  *)
(*         zeros and an Option of the number they lead, {} if it is none   *)
(*   pre   the identifiers after the first "-", <<>> without one           *)
(*   build what follows a "+", <<>> without one                            *)
(* An identifier is a record [number] or [word], a word being a number     *)
(* that gives its place among words.  Crate semver parses and orders.      *)
(***************************************************************************)
EXTENDS CelValues

VersionText(v, parts, pre, build) ==
  [kind |-> "string", form |-> "version", v |-> v, parts |-> parts,
   pre |-> pre, build |-> build]

---------------------------------------------------------------------------
\* semver::Version::parse, an Option.
Parsed(text) ==
  LET numbers == UNION {text.parts[i].digits : i \in DOMAIN text.parts}
  IN  IF /\ ~text.v
         /\ Len(text.parts) = 3
         /\ \A i \in 1..3 : text.parts[i].zeros = 0 /\ text.parts[i].digits # {}
         /\ numbers \subseteq 0..(2 * IntLimit + 1)
      THEN {[kind |-> "semver", pre |-> text.pre, build |-> text.build,
             numbers |-> [i \in 1..3 |->
                            CHOOSE n \in text.parts[i].digits : TRUE]]}
      ELSE {}

Nought == [zeros |-> 0, digits |-> {0}]

\* normalize: the prefix and leading zeros go, missing parts become zero, and
\* parts after the third go too.  If a part is no number, only the prefix
\* goes; a "+" without a "-" before it belongs to the last part.
Normalize(text) ==
  LET n == Len(text.parts)
      numeric == /\ \A i \in 1..n : text.parts[i].digits # {}
                 /\ text.pre = <<>> => text.build = <<>>
      plain(part) == [part EXCEPT !.zeros = 0]
  IN  IF ~numeric THEN [text EXCEPT !.v = FALSE]
      ELSE [text EXCEPT !.v = FALSE,
              !.parts = [i \in 1..3 |-> IF i <= n THEN plain(@[i]) ELSE Nought]]

DoParse(text, lenient) ==
  IF text.form # "version" THEN {}
  ELSE Parsed(IF lenient THEN Normalize(text) ELSE text)

\* The last argument says so, whatever stands before it.
IsLenient(args) == args # <<>> /\ args[Len(args)] = Bool(TRUE)

---------------------------------------------------------------------------
OrderOfIds(a, b) ==
  IF "number" \in DOMAIN a
  THEN IF "number" \in DOMAIN b THEN Order(a.number, b.number) ELSE "less"
  ELSE IF "number" \in DOMAIN b THEN "greater" ELSE Order(a.word, b.word)

OrderOfIdLists(s, t) ==
  LET apart == {i \in DOMAIN s \cap DOMAIN t : s[i] # t[i]}
      first == CHOOSE i \in apart : \A j \in apart : i <= j
  IN  IF apart = {} THEN Order(Len(s), Len(t)) ELSE OrderOfIds(s[first], t[first])

\* A slip: the longer list of identifiers wins, also against none.
OrderOfVersionsNoRelease(a, b) ==
  LET parts == <<OrderOfSeqs(a.numbers, b.numbers), OrderOfIdLists(a.pre, b.pre),
                 OrderOfSeqs(a.build, b.build)>>
      decides == SelectInSeq(parts, LAMBDA o : o # "equal")
  IN  IF decides = 0 THEN "equal" ELSE parts[decides]

\* Ord of semver::Version: a pre-release comes before its release; the build
\* is compared as well.
OrderOfVersions(a, b) ==
  LET release == IF (a.pre = <<>>) = (b.pre = <<>>) THEN "equal"
                 ELSE IF a.pre = <<>> THEN "greater" ELSE "less"
      parts == <<OrderOfSeqs(a.numbers, b.numbers), release,
                 OrderOfIdLists(a.pre, b.pre), OrderOfSeqs(a.build, b.build)>>
      decides == SelectInSeq(parts, LAMBDA o : o # "equal")
  IN  IF decides = 0 THEN "equal" ELSE parts[decides]

CompareNames == {"isGreaterThan", "isLessThan", "compareTo"}

SemverCompare(name, a, b) ==
  IF b.kind # "semver" THEN Error
  ELSE LET order == OrderOfVersions(a, b)
       IN  CASE name = "isGreaterThan" -> Bool(order = "greater")
             [] name = "isLessThan"    -> Bool(order = "less")
             [] name = "compareTo" ->
                  Int64(CASE order = "less" -> -1 [] order = "equal" -> 0
                          [] OTHER -> 1)

---------------------------------------------------------------------------
\* A number of 64 bits read as a signed one.
AsSigned(n) == Int64(IF n > IntLimit THEN n - 2 * IntLimit - 2 ELSE n)

SemverCall(name, this, args) ==
  LET taken   == IF name \in {"semver", "isSemver"} THEN "string" ELSE "semver"
      version == DoParse(this, IsLenient(args))
  IN  IF this.kind # taken THEN Error
      ELSE CASE name = "isSemver" -> Bool(version # {})
             [] name = "semver" -> IF version = {} THEN Error
                                   ELSE CHOOSE v \in version : TRUE
             [] name = "major" -> AsSigned(this.numbers[1])
             [] name = "minor" -> AsSigned(this.numbers[2])
             [] name = "patch" -> AsSigned(this.numbers[3])
=============================================================================
