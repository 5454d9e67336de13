----------------------------- MODULE Evaluation ------------------------------
(***************************************************************************)
(* One CEL expression in a context that register_all has filled: a call,   *)
(* and calls on its answer, each routed by the table of Registration to    *)
(* the library that has the name.  A call is a record                      *)
(*   name      the function's name                                         *)
(*   receiver  an Option of the value left of the dot                      *)
(*   args      the values in parentheses                                   *)
(*   answer    what the library made of it                                 *)
(* Or the expression is one over quantities, as Quantity has it.           *)
(***************************************************************************)
EXTENDS Registration, Dispatch, MathFunctions, Urls, NamedFormats,
        Quantity

CONSTANTS
  FirstCall,      \* the calls, without an answer, that may come first
  NextCall(_),    \* and those that may be made on the answer of a call
  DurationField,  \* the texts in fields of format "duration"
  MaxCalls        \* bound on the calls of one expression

VARIABLE calls   \* the calls made so far, with their answers

evalVars == <<features, registered, table, calls, quantities, worths, status>>

Call(name, receiver, args) ==
  [name |-> name, receiver |-> receiver, args |-> args]

---------------------------------------------------------------------------
(***************************************************************************)
(* The extractors of crate cel.  This is the receiver or else the first    *)
(* argument; a typed parameter takes the next argument that is left, and   *)
(* Arguments are all in parentheses.                                       *)
(***************************************************************************)
This(c) == IF c.receiver # {} THEN CHOOSE v \in c.receiver : TRUE
           ELSE IF c.args # <<>> THEN c.args[1] ELSE Error

Rest(c) == IF c.receiver = {} /\ c.args # <<>> THEN Tail(c.args) ELSE c.args

\* The functions whose further parameters are typed.
TypedNames == {"charAt", "find", "slice", "format", "containsIP",
               "containsCIDR", "validate"}

Given(c) == IF c.name \in TypedNames THEN Rest(c) ELSE c.args

Argument(c) == IF c.args = <<>> THEN Error ELSE c.args[1]

IsText(v) == v.kind = "string" /\ v.form = "text"

\* The functions whose first parameter is typed, not This.
TextNames == {"strings.quote", "jsonpatch.escapeKey", "base64.encode",
              "base64.decode"}
AddressTextNames == {"isIP", "ip.isCanonical", "isIPv4", "isIPv6", "cidr",
                     "isCIDR", "isCIDRv4", "isCIDRv6"}

TextAnswer(c) ==
  CASE c.name \in TextNames -> TextCall(c.name, Argument(c))
    [] c.name = "join" -> IF This(c).kind = "list"
                          THEN Join(This(c).elems, c.args) ELSE Error
    [] OTHER -> IF IsText(This(c)) THEN StringCall(c.name, This(c).chars, Given(c))
                ELSE Error

ListAnswer(c) ==
  CASE c.name = "lists.range" -> IF Argument(c).kind = "int"
                                 THEN Range0(Argument(c).number) ELSE Error
    [] OTHER -> IF This(c).kind = "list"
                THEN ListCall(c.name, This(c).elems, Given(c)) ELSE Error

SetAnswer(c) ==
  IF Kinds(c.args, <<"list", "list">>)
  THEN SetCall(c.name, c.args[1].elems, c.args[2].elems) ELSE Error

UrlAnswer(c) ==
  CASE c.name \in {"url", "isURL"} -> UrlTextCall(c.name, Argument(c))
    [] OTHER -> IF This(c).kind = "url" THEN UrlCall(c.name, This(c)) ELSE Error

NetworkAnswer(c) ==
  CASE c.name \in AddressTextNames -> AddressTextCall(c.name, Argument(c))
    [] c.name \in {"prefixLength", "masked", "containsIP", "containsCIDR"} ->
         IF This(c).kind = "cidr" THEN CIDRCall(c.name, This(c), Given(c)) ELSE Error
    [] OTHER -> IF This(c).kind = "ip" THEN IPCall(c.name, This(c)) ELSE Error

FormatAnswer(c) ==
  IF IsText(This(c)) /\ Kinds(Given(c), <<"list">>)
  THEN Format(This(c).chars, Given(c)[1].elems) ELSE Error

NamedFormatAnswer(c) ==
  CASE c.name # "validate" -> FormatOf(c.name, c.args)
    [] OTHER -> IF This(c).kind = "format" /\ Kinds(Given(c), <<"string">>)
                THEN FormatValidate(This(c).format, Given(c)[1].chars) ELSE Error

\* quantity and isQuantity have a typed parameter, the others This.
QuantityAnswer(c) ==
  QuantityCall(c.name,
    IF c.name \in {"quantity", "isQuantity"} THEN Argument(c) ELSE This(c), c.args)

\* What the owner of the name answers in a build.
AnswerOf(owner, build, c) ==
  CASE owner = "nobody"       -> Error
    [] owner = "cel"          -> CelCall(c.name, This(c), c.args)
    [] owner = "dispatch"     -> DispatchCall(c.name, build, This(c), c.args)
    [] owner = "strings"      -> TextAnswer(c)
    [] owner = "regex_funcs"  -> TextAnswer(c)
    [] owner = "jsonpatch"    -> TextAnswer(c)
    [] owner = "encoders"     -> TextAnswer(c)
    [] owner = "lists"        -> ListAnswer(c)
    [] owner = "sets"         -> SetAnswer(c)
    [] owner = "urls"         -> UrlAnswer(c)
    [] owner = "ip"           -> NetworkAnswer(c)
    [] owner = "semver_funcs" -> SemverCall(c.name, This(c), c.args)
    [] owner = "format"       -> FormatAnswer(c)
    [] owner = "quantity"     -> QuantityAnswer(c)
    [] owner = "named_format" -> NamedFormatAnswer(c)
    [] owner = "math"         -> MathCall(c.name, c.args)

---------------------------------------------------------------------------
EvalInit ==
  /\ RegInit
  /\ calls = <<>>
  /\ QuantityInit

RegisterNext == Register /\ UNCHANGED <<calls, quantities, worths, status>>

\* An error ends the evaluation.
Open ==
  /\ Registered /\ quantities = <<>> /\ status = "running"
  /\ Len(calls) < MaxCalls
  /\ \A i \in DOMAIN calls : ~Failed(calls[i].answer)

Candidates ==
  IF calls = <<>> THEN FirstCall ELSE NextCall(calls[Len(calls)])

Answered(c, answer) ==
  calls' = Append(calls, [name |-> c.name, receiver |-> c.receiver,
                          args |-> c.args, answer |-> answer])

CallFunction ==
  /\ Open
  /\ \E c \in Candidates :
       Answered(c, AnswerOf(table[c.name], features, c))
  /\ UNCHANGED <<features, registered, table, quantities, worths, status>>

\* A duration in the object is converted before the expression sees it.
ReadDuration ==
  /\ Open /\ calls = <<>>
  /\ \E text \in DurationField :
       Answered(Call("self", {text}, <<>>), ParseGoDuration(text))
  /\ UNCHANGED <<features, registered, table, quantities, worths, status>>

CombineQuantities ==
  /\ Registered /\ calls = <<>> /\ "quantity" \in features
  /\ QuantityNext
  /\ UNCHANGED <<features, registered, table, calls>>

EvalNext == RegisterNext \/ CallFunction \/ ReadDuration \/ CombineQuantities

EvalSpec == EvalInit /\ [][EvalNext]_evalVars
=============================================================================
