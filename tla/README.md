# kube-cel in TLA+

kube-cel evaluates Kubernetes CEL rules on the client: it walks a CRD's OpenAPI
schema and an object side by side, evaluates the `x-kubernetes-validations`
rules it finds and reports what fails, as the API server would. It also
evaluates the expressions of a ValidatingAdmissionPolicy. This directory models
that engine, model-checks it with TLC on small instances and proves its central
safety properties with TLAPS for every schema, object and rule. It also models
the crate's library of CEL functions, the table they are registered in, and
expressions that call them.

## The system

The crate has two tiers. `src/src/functions/` is a library of CEL functions,
pure and stateless, put into a `cel::Context` by `register_all`.
`src/src/validation/` is the validation engine.

| Part | Code | State it keeps | Operations | Model |
|---|---|---|---|---|
| Rules | `validation/compilation.rs`, `validation/mod.rs:652-836` | none: one compiled result per rule | compile a rule, evaluate it at a node | `Rules` |
| Raw validator | `validation/mod.rs:304-538` | the recursion's stack, the error list | `validate`, `validate_with_context` | `Traversal` + `Positions` + `RawWalk` |
| Compiled validator | `validation/mod.rs:347-369,543-648` | a compiled tree, shared between calls and never changed | `compile_schema`, `validate_compiled` | `Traversal` + `Positions` + `CompiledWalk` + `Compilation` |
| Defaulting | `validation/defaults.rs` | none | `apply_defaults`, once raw and once compiled | `Defaults` |
| Conversion | `validation/values.rs`, `validation/escaping.rs` | none | JSON to CEL, without schema, raw, compiled | `Values` |
| Admission policies | `validation/vap.rs` | compiled expressions, one evaluator per admission | compile once, evaluate per admission | `Vap` |
| Static analysis | `validation/analysis.rs` | none | cost estimate, bound warnings, scope check | `Analysis` |
| Registration and dispatch | `lib.rs`, `ext.rs`, `functions/mod.rs`, `functions/dispatch.rs` | the table of names, filled once | `register_all`, dispatch by receiver | `Registration`, `Dispatch`, `Evaluation` |
| Quantities | `functions/quantity.rs` | none: values built by chains of calls | parse, add, sub, compare, convert | `Quantities`, `Quantity` |
| Lists, sets, math | `functions/lists.rs`, `sets.rs`, `math.rs`, `value_ops.rs` | none | some 40 CEL functions and the operations they share | `CelValues`, `Lists`, `MathFunctions` |
| Strings and formats | `functions/strings.rs`, `regex_funcs.rs`, `format.rs`, `named_format.rs`, `encoders.rs`, `jsonpatch.rs` | none | search, split, quote, `format`, the named formats | `Strings`, `Printf`, `Numerals`, `NamedFormats` |
| URLs, networks, versions | `functions/urls.rs`, `ip.rs`, `semver_funcs.rs` | none | parsers' answers, accessors, comparisons | `Urls`, `Network`, `Semvers` |
| Durations | `validation/values.rs:277-330`, `functions/dispatch.rs` | none | `parse_go_duration`, `string(duration)` | `Durations` |

How they interact. A call of a validator defaults the object and the old object
under the schema, then walks. At each node it converts both values under that
node, evaluates the node's rules in a scope of their own and goes on to the
declared properties, the items, the map values and the junctor branches. The
errors of all nodes are collected in one list; `into_result` turns an empty list
into `Ok`. The compiled validator does the same over a tree that
`compile_schema` prepared. The three recursions (compile, walk, default) each
count the depth and stop at the same `MAX_SCHEMA_DEPTH`: the walkers with an
error, the compiler with a marker node, the defaulter silently.

`register_all` calls the register function of each library that the build's
features include, `dispatch::register` last. The table knows names and not
types, so a name that several types share (`indexOf`, `reverse`, `compareTo`,
`string` and others) belongs to `dispatch.rs` alone, which looks at the receiver
and at the features. An expression is then a sequence of calls, each on the
answer of the one before.

There is no concurrency, persistence or messaging in the crate: `validate` and
`validate_compiled` use a thread-local `Validator` that is never changed after
it is built. What is hard is elsewhere: **completeness** (no rule may be skipped
without an error, whatever fails on the way), **position** (value, old value,
path, scope and root variables must belong to the same place while four loops
and two documents advance together), **agreement** (the same semantics is
written twice, once over raw JSON and once over the compiled tree, with a
HashMap in between), **reuse** (compiled expressions outlive the context they
were first evaluated in), **width** (quantities, sums, durations and cost
estimates are computed in machine integers) and **ownership** (functions are
written apart, by type and by feature, and must neither take each other's names
nor disagree: what one function writes, another one reads). `PROJECT.json` lists these hazards line by line.

## The modules

`Documents` has documents, paths and frames. A document is an object, an array,
an opaque scalar or null; an `Option` is a set of at most one element. A path is
a sequence of segments, and `Resolve` follows it through a document; the one thing of the joined text that matters, that the
empty name joined onto the root path gives the root path again, is kept
(`JoinPath`). A *frame* is the argument list of one recursive call of a walker:
schema node, value, old value, path, depth, and whether the RootContext was
passed.

`Rules` compiles and evaluates one rule. The CEL interpreter is the external
crate `cel`, present as three operator constants: `Parses` (`Program::compile`),
`References` (`Program::references`) and `Execute` (`Program::execute`, with the
six outcomes the code tells apart). `EvaluateResult` is one arm of the match in
`evaluate_compiled_results`, `EvaluateRule` is `evaluate_rule`.

`Traversal` is the control flow that `walk_schema` and `walk_compiled` share.
Its variables are the code's: the call's arguments, the stack of calls still to
make (`frames`, the current one first), the rule loop's index (`next`), the node
scope, the error list and the verdict; `answered` is a history variable. Its
actions are the steps of a call: `Start` (default both documents, first call),
`RefuseDeep` (the depth guard), `EnterNode` (convert and bind), `EvaluateNext`
(one iteration of the rule loop), `Descend` (all loops over children, in one of
the orders `Children` allows), `Return` (`into_result`). The preorder recursion
is the stack discipline: the children of a node are pushed in front of what is
left of its parent.

`RawWalk` and `CompiledWalk` give the rules and the children of a node for the
two walkers. `Compilation` is `compile_schema`, `Values` the three conversions and
`Defaults` the defaulter, which the code has twice, once over a raw schema and
once over a compiled tree, with the same fields read from each node. The code's
recursions over a schema or a document are tables along the depth here, with one
call as an operator of its own: the calls made at each depth (`NodesAt`,
`ConversionsAt`, `CallsAt`), and from the deepest ones up what they answer
(`CompiledAt`, `MadeAt`, `AnswersAt`, from `CompileSchemaInner`, `ConvertInner`,
`ApplyDefaultsInner`). Past the cap a node is compiled to the marker and a
value is defaulted to what it is; the conversion has no cap, see `MaxNesting`
below. The three conversions differ in what they look up in a node
(`ReadRaw`, `ReadCompiled`, `Plain`) and go down in the same way.
`Positions` says which schema nodes govern a position of an object, from the
position's path alone: down the declared properties, the items or the map
schema, and at every step with the branches of the junctors, nested up to the
cap. `MCRawValidator` puts the whole raw validator together,
`MCCompiledValidator` the compiled one.

`Admission` is the abstract specification: a call reports the errors that are
due, each of them, no other, in any order, and then answers. `Traversal`
says which errors are due (`Expected`, from the frames that a call leads to,
level by level, without the stack) and refines it (`KeepsPromise`).

`Agreement` has two instances of `Traversal`, one over the raw schema and one
over its compiled tree, and sends the same call through both.

`Vap` models an admission policy's life: the expressions are compiled one by
one, then any number of evaluators, each with its own context, evaluate them.

`Widths` has the widths of machine integers and what a build makes of an
overflow. `Quantities` is the arithmetic of `quantity.rs`; `Quantity` is one CEL
expression over quantities: it parses literals (`cel_quantity`) and combines
what it has with `add` and `sub`, of a quantity or an integer. The state is the
quantities made so far, as mantissa and scale, and the history variable
`worths`, the number each one stands for. Overflow is modelled as the build
decides it (`OverflowChecks`): a panic, or a wrap.

`CelValues` has the values of the interpreter, tagged records, with their
equality, order and sum (`val_eq`, `compare_values` and `val_add`, a plain `a + b`,
of `value_ops.rs`). Integers have a width; a double is an integer number of quarters
with a fixed number of significant bits, or NaN or an infinity. `Lists`,
`MathFunctions`, `Strings`, `Printf`, `NamedFormats`, `Network`, `Semvers`,
`Urls` and `Durations` have one operator per CEL function, `Error` for what the
code answers with an `ExecutionError` and `Panic` for a panic; `Numerals` is what
they share about decimal text. A duration's numbers pass through `f64` as in the
code: the number and its product with the unit are each rounded to the nearest
double and the result is cut off, so that `1.001s` is 1000999999 ns. Where a parser belongs to another crate (`std::net`,
`ipnet`, `semver`, `url`, `regex`, `chrono`), the text is a record of what that
parser looks at.

`Registration` is the state machine of `register_all`: one library per step, for
any set of features. `Dispatch` has the functions of `dispatch.rs`. `Evaluation`
composes the two with all libraries: once the table is full, an expression
reads a duration or calls functions on each other's answers, each call routed by
the table; or it is an expression over quantities, the variables and actions of
`Quantity`, which it extends.
`FunctionLaws` states what the libraries owe each other.

`Analysis` is the session of a rule's author, who asks for the three analyses in
any order and, as the warning advises, gives a list a bound or a lower one and
compiles the schema again. A compiled schema holds its properties in the order in which its HashMap
happens to iterate; the two bound searches take the first match in that order.
An expression is its nodes in the order in which a recursion leaves them, each
naming its parts among the ones before it. `NodeCosts` holds the cost of every
node, computed in a `u64` that may overflow: the variable `overflowChecks` says
which of the two builds the session is in, and a cost is a set, empty where the
build panics. `Work`, which `CostIsWarnedOf` compares it with, multiplies top
down and without a width.

The `MC` modules give the constants values: `MCUniverse` has the documents,
schemas and the CEL interpreter of a small world, the others the calls, texts
and literals. The `_proofs` modules are described under "What is proved".

Operators introduced by a comment "A slip" are not part of any specification.
Each is a form of the operator after it with a plausible mistake, and shows that
a property notices it (the `mutants` of `PROJECT.json`).

## What is checked

Every configuration sets `CHECK_DEADLOCK FALSE`: a call ends when it has
answered, a policy when its admissions are used up, an expression when it is
complete or has failed, an author when all is answered and no list can be
given a lower bound.

| Run | Checks | Shows |
|---|---|---|
| `raw_validator` | `TypeOK`, `FailClosed`, `ReportedForCause`, `EveryPositionJudged`, `OldOfTheSamePosition`, `RootVariablesOnlyAtRoot`, `OldSelfNeverUnbound`, `DefaultsOnlyFill`, `KeepsPromise` | the raw validator over all shapes of schema, object and old object, with fields that have an empty name; refinement of `Admission`, with termination |
| `compiled_validator` | `FailClosed`, `ReportedForCause`, `OldOfTheSamePosition` | the same over compiled trees, in every order of properties, from a cut tree and from nodes within one |
| `agreement` | `SameErrors`, `SameRefusals` | both validators report the same bag of errors within the cap, and refuse the same paths past it |
| `deep_defaults` | `SameVerdict` (violated) | see findings |
| `nested_defaults` | `NoDefaultMissing` (violated) | see findings |
| `vap` | `PolicyJudged`, `DenialExplained` | each admission is judged in its own context, by every expression, in order |
| `functions` | `NeverTaken`, `EveryNameAnswered`, `SameInEveryBuild`, 13 laws of the libraries (below), `TypeOK`, `ArithmeticIsExact`, `ComparisonIsExact`, `OneRepresentation`, `IntegersConvert` | registration in eight builds, then expressions over every function; chains of quantities |
| `quantity_release` | `ArithmeticIsExact` (violated) | the chains of quantities in a build without overflow checks: see findings |
| `greatest` | `GreatestIsGreatest` (violated) | see findings |
| `validate` | `ValidateAnswers` (violated) | see findings |
| `analysis` | `OnePassSuffices`, `CostIsWarnedOf`, `TighteningNeverCosts` | in builds with and without overflow checks: one pass equals two; an estimate that stays in `u64` warns exactly of the rules over the budget; tightening lists never raises the estimate, in any order of properties |
| `cost_release` | `OverBudgetIsWarned` (violated) | an estimate that left `u64`: see findings |

The laws of the libraries compare functions with each other or with a
definition that does not follow the code:

- `SameInEveryBuild`: what a build with fewer features answers, the full build
  answers too (`min` and `max` as functions of several arguments, see below).
- `SortedOrRefused`: `sort` is the one stable permutation in order, or fails if
  any two elements cannot be compared, wherever they stand; `isSorted`, `min`
  and `max` agree with it. `ElementsAgree`: `indexOf`,
  `lastIndexOf`, `slice`, `distinct` and the set functions speak of the same
  elements. `SumIsExact`: a sum of integers is the sum as long as every partial
  sum is in its width; beyond, a build with overflow checks panics, and a release
  build answers the number of the width that is congruent to the sum.
- `FoundWhereSaid`, `SplitsJoin`: a substring is where `indexOf` and
  `lastIndexOf` say it is, and the last place is the first one of the reversed
  text; pieces that are joined again give the text that was split, and to
  replace is to split and to join with something else.
  `EncodingsReadBack`: quoted, escaped and base64 text can be read back.
  `FormatComposes`: a template that is cut between two directives formats
  to the two halves.
- `PrefixesComplete`: a prefix is accepted exactly when a letter for its last
  hyphen makes it a name, and what is cut from a label is a prefix. `DatesAreDates`: the calendar.
- `ContainmentIsInclusion`: `containsCIDR` is inclusion of intervals of addresses,
  and agrees with `containsIP`, `ip` and `masked`.
  `ClassesApart`: an address has one family and no two classes that exclude
  each other. `VersionsOrdered`: three functions give one total order, and the
  tolerant parser agrees with the strict one.
- `DurationsKeep`: a duration is what its text adds up to, but for a nanosecond
  (or the low bits of a double, if it is long) in each part with decimals, that
  `f64` and the cut may take or add; out of range it panics, or wraps in a release
  build. What `string` writes reads back with the same slack, and rounded
  between a millisecond and a second.

`SumIsExact` and `DurationsKeep` say what both builds do: the run evaluates the
calls with overflow checks, and the properties evaluate each text and list once
more through `Release`, an instance of `Dispatch` without them.

`FailClosed` and `EveryPositionJudged` complement each other. The first says
that an `Ok` covers everything the walk leads to; the second that the walk leads
everywhere, with the governing schema nodes of a position computed from the
position's path alone (`Governing`), not from the walk's own child lists.
`OldOfTheSamePosition` likewise resolves a path in the defaulted old document
and compares. `FailClosed` uses `Satisfied`, a definition of a rule's truth that
does not mention errors.

### Bounds

`MaxDepth` is 2 instead of 64. A schema of depth three crosses it, one of depth
two meets it exactly, and every depth guard compares the same count with the
same bound, so a larger one adds levels and no new case. Schemas put each of
nine leaves (rule lists that hold, fail, skip, need `oldSelf`, need the root
variables, do not parse, are malformed, cannot be evaluated, depend on a format)
under each of eleven shapes (root, property, items, map, nested and over-deep
combinations, preserve-unknown, property next to map, default next to branch,
all three junctors). `MaxNesting` bounds the table of the conversions and
is no part of the code, which recurs as deep as a document goes (128 levels when
`serde_json` read it). It is 4, more than any document of a run has with its
defaults filled in: each run asserts that (`NestingSuffices`). Objects match a shape, miss it, exceed it or have another
kind; old objects are absent, null, shorter or of another kind. Two properties
side by side are enough to show the HashMap's order. `MaxAdmissions` is 2: a
context that survives an admission is noticed in the next one.

Functions: `IntLimit` is 127, an `i64` of 8 bits (and a `u64` of 8), so that
sums and absolute values leave the range within three elements; `Precision` is
5 bits in quarters, so that 64 and 65 are one double. `Ratio` 10 and `Sixty` 6
stand for 1000 and 60, `Places` 1 for the three decimals of `{:.3}`, and
`DurationLimit` is 17 bits: a sum of four hours leaves it, and so does a part of
nine. `DurationPrecision`, for an `f64`'s 53 bits of 63, is 14: a fraction of a
second is cut off below its value, and a long part loses its last bits. `MaxLabel` 3 and `MaxSubdomain` 7 stand for 63 and 253; names of up to four
characters over a letter, `-` and `.` meet and cross the first.
`Alphabet` gives the few characters an octet. `MaxCalls` is 2: a call and one
on its answer, which is what every law needs that relates two functions. Texts
and lists have up to three or four elements, enough for a pattern to overlap
itself, for two equal and one different element, and for a mixed pair that only
a full scan finds. `Builds` has the full build, the empty one and builds with
one sharer of each shared name; the theorems below cover all builds.

Quantities have a mantissa of 15 bits instead of 128 and convert to integers of
8 bits instead of 64. With suffixes from `m` to `k` and exponents, their scales
are far enough apart that a literal, a power of ten, a product and a sum each
leave the range, and mantissas stand at both ends of it. At 128 bits it takes
scales 39 decades apart, which `1e30` and `1n` have. `MaxQuantities` is 3: two
operands and a result that is combined again come from literals and integers.

The analysis counts in 8 bits, with a budget of 100 and lists of 10 items by
default: two nested loops over the default stay at the budget, over a list of
16 or 25 they leave the range. A list gets the bounds 0, 2, 9 and 20 (`NewBound`),
on both sides of the default. Up to two properties show every choice the
iteration order offers.

### Fairness

`Traversal!Spec` has `WF_vars(Next)`: a call runs on its caller's thread and
waits for nothing. Only `KeepsPromise` uses it, for the liveness half of
`Admission`. `Vap` and `Agreement` need none, their properties are safety.

## What is proved

Each theorem holds for every value of the constants that satisfies the named
assumptions, and TLC evaluates every assumption in a run. The induction over
natural numbers that the proofs need (levels of a schema, indices of a path,
powers of ten, junctor nesting) is `Induct` of `Foundations`: a set that has zero
and with each number the next one has them all. It speaks of a set and not of
an operator, which is what the provers can instantiate. So the definitions that
are proved about recur along a number, in a function (`Levels`, `Trail`,
`Governors`, `WithBranches`, `NodesAt`, `CompiledAt`, `ConversionsAt`, `MadeAt`,
`CallsAt`, `AnswersAt`, `NodeCosts`, `SumsTo`, `Power`), and none of their modules
reaches a `RECURSIVE` operator. That such a table exists and has the rows its
definition says is a lemma of each (`...Exist` and `...Step`).

`Foundations` also has the lemmas about sequences and sums that several proofs
cite (`TotalOfBoth`, `TotalReordered`, `OccurrencesOfOneMore`), `Walks_proofs`
those about the loops over children, whoever walks them: the loops of the code
visit `ChildrenOf` a frame (`LoopsVisit`), one level deeper (`ChildrenDeeper`), and in
another order of the properties they are the same children, each as often
(`LoopsReorder`).

### The walk

`Traversal_proofs` proves for **any** calls, frames, rules, child relation,
conversion, interpreter and depth cap, and so for both validators:

- `TypeCorrect`: `Spec => []TypeOK`
- `FailsClosed`: `Spec => []FailClosed`
- `ReportsForCause`: `Spec => []ReportedForCause`
- `OldSelfIsBound`: `Spec => []OldSelfNeverUnbound`
- `ImplementsPromise`: `Spec` implies the initial condition and the step
  relation of `Admission`, whose state is the set of the errors collected
- `ReportsAsOftenAsDue`: when a call has answered, each error was reported as often
  as it was due

`FailClosed` only speaks of the end of a call and is not inductive. The
strengthening `IInv` says what holds on the way: the root is scheduled or
answered (`RootScheduled`); every child of an answered node is scheduled or
answered, except for the node whose rules are being evaluated
(`ChildrenScheduled`); as long as there is no error, every answered node is
sound (`Settled`) and the rules of the current node up to `next` are satisfied
(`SilentSoFar`). When `frames` is empty, nothing is left scheduled, and
`FailClosed` follows. The step from "no error" to "satisfied" is the lemma
`SilenceIsSatisfaction`, a case analysis of `EvaluateResult` against
`Satisfied`. TLC checked `IInv` as an invariant before it was proved.

`ImplementsPromise` needs more, `PInv`: every frame, scheduled or answered, is
one of the levels that the call leads to (`LevelInv`), and every error that an
answered frame has to report has been collected, but for the rules of the current
node that are still to come (`ReportInv`). Then no step reports what is
not due, and the last one answers when all that is due is there. What it leaves
out of `KeepsPromise` is the fairness condition, which is liveness.

The last part of the module counts. `Due(e)` says how often the walk of a frame
and of all below it has to report the error e, as a table along the levels that are
left; `Outstanding(e)` what the rest of the walk has still to report, from the
stack, the current node and the rule loop's index. `CountStep` shows that at every
moment what was reported and what is outstanding is what is due of the root
(`Counted`), in whatever order children are walked, and when the call has answered
nothing is outstanding: `ReportsAsOftenAsDue`.

The proofs assume `DepthAssumption` (the cap is a natural number),
`FrameAssumption` (a call has a root frame; a frame within the cap has a
sequence of results and at least one order of its children), `DeeperAssumption`
(a recursive call is one deeper than its caller) and `OrderAssumption` (the
orders of a frame's children have the same elements, each as often). `OldSelfIsBound` follows
from `ReportedForCause` by a case analysis of `EvaluateResult`
(`UnsupportedIsUndeclared`, `BoundWhereEvaluated`) and assumes two things more:
`CompiledAssumption` (a compiled entry is what compiling its rule gives) and
`InterpreterAssumption` (the interpreter answers "undeclared" only for what a
rule refers to and its scope does not bind). TLC evaluates them all on the
frames of each validator in its run.

### The positions of an object

`Positions_proofs` takes the children from the code. Its hypothesis
`WalkOfTheCode` says that the children of every frame are those of
`RawWalk!RawChildren` or those of `CompiledWalk!CompiledChildren`, which is how the
two validators instantiate `Traversal`. Under it:

- `JudgesEveryPosition`: `Spec => []EveryPositionJudged`
- `WalksPairValues`: `Spec => []OldOfTheSamePosition`
- `WalksKeepContext`: `Spec => []RootVariablesOnlyAtRoot`

The last two say of each frame what it owes to its call (`PairedIn`,
`OfTheWhole`); the root frame has that property and every child inherits it
(`ContextOnlyAtRoot` and `ValuesPaired` prove the step from such a relation to the
invariant, the case analysis of the loops over children is in the lemmas). That a
child's value is what its path leads to takes the extension of `Resolve` by
one segment.

`JudgesEveryPosition` starts where a call has answered without having refused
a subtree: then all the frames it leads to are answered (from `PInv`). By
induction over the nesting of junctors, all branches of an answered node are
answered at its position (`JudgedWithBranches`); for one segment, each governing
node below is answered with the value found there (`JudgedBelow`), which is where
the properties, the items, the map schema and preserve-unknown are told apart; by
induction over the path, so is every node that `Governing` has
(`JudgedAlong`). It assumes, beyond the assumptions above, `PathAssumption` (a path is a
sequence of names and indices) and `WalkAssumption` (the arguments of a call
are as JSON and the walkers have them: arrays and branches are sequences, an
object has finitely many fields, and a map lists all its keys; a call starts
with its own schema at the root path). TLC evaluates both over the frames of
either validator.

### Defaulting

`Positions_proofs` also proves `DefaultsFillOnly`: `Spec => []DefaultsOnlyFill`, for the
object and the old object of every call, every schema and every cap. Its
hypothesis says that a call starts with the documents that one of the two
defaulters answers (`RawRootFrame`, `CompiledRootFrame`). The relation
`Standing` says what may stand in the filled document where a value stands in the
given one: the value itself, or what a call, so many calls down and under a node
that governs there, answered for it. The whole document is such a place; one
segment further down so is every value, and where the given document has none,
the filled one has at most a default of a governing node (`FilledBelow`, a case
analysis of one call in `CallFills`); by induction along the path, so is every
position (`FilledAlong`). That the tables of calls and of answers are what their
recursions say takes an induction each (`CallsStep`, `AnswersStep`). It assumes
`DepthAssumption` and `PathAssumption`.

### Agreement of the two validators

`Agreement_proofs` proves, for every schema, pair of documents, interpreter, cap
and order of the compiled properties:

- `SameErrorsReported`: `Spec => []SameErrors`
- `SameSubtreesRefused`: `Spec => []SameRefusals`

`BothInv` holds the inductive invariant and the count of either walk, and that the
second call is the first with its schema compiled. Both walks are instances of
`Traversal_proofs` over the frames that their calls lead to; that they satisfy its
assumptions is proved from the code's loops (`RawAssumed`, `TreeAssumed`). When
both have answered, nothing is outstanding, so that each error was reported
as often as it was due. What is left says nothing of states: what is due of the two
root frames is the same. `Twin(schema, d)` is the table that takes a node at
depth d to its compiled form and `TwinFrame` does that to a frame. Then

- compiling keeps what the defaulter and the conversion read of a node
  (`DefaultsAlike`, `ConvertedAlike`, each by induction along its table), so that
  the root frames are twins (`RootsTwin`) and, within the cap, the scopes of twins are
  the same;
- the loops over twins go through twins, place by place, when both take the
  same order (`LoopsTwin`), and any other order gives the same sum (`DueStep`);
- twins have the same compiled rules, and so the same rules report an error
  (`HitsTwin`);
- by induction from the cap up, the same is due of twins (`DueTwin`).

The argument is made for one error at a time, one of those that must agree
(`Comparable`): every error if no node lies past the cap; an error that refuses a
subtree if no default is declared just past it, because then the marker forgets
nothing that matters to where the walks go. Where one is declared there, the
walks differ: that is the finding `deep_defaults`.

The proofs assume `CallAssumption` (a call has its four arguments, and the nodes
of its schema are as JSON has them: arrays are sequences) and `WalksAssumption`
(the same of the frames of both walks, which says of `MapOrder` that a map lists
its keys, each once, and of the interpreter what `InterpreterAssumption` says),
besides `DepthAssumption` and `NestingAssumption`. The loops, the orders, the
levels, the compiled entries and all else that `Traversal` assumes are proved. TLC evaluates the
assumptions in the runs `agreement` and `deep_defaults`.

### Static analysis

`Analysis_proofs` proves, for every expression, schema, rule and order of calls:

- `OnePassIsEnough`: `Spec => []OnePassSuffices`
- `EstimateWarns`: `Spec => []CostIsWarnedOf`
- `TighterIsNoDearer`: `Spec => TighteningNeverCosts`

They hold of both builds. `AInv` says that each answer so far is the
answer to the question as it stands now, so that none outlives the schema it was
about. For `EstimateWarns` the cost table, which is built from the leaves up, and
the work, which is handed down from the root, are brought together by
induction over the nodes (`EstimatePrices`): each cost is at most the work of
doing the node once, and equal to it in a build with overflow checks, and in a
release build if that work is a `u64` (`Prices`). For `TighterIsNoDearer` some
order of the old schema's properties is no tighter than the new schema, list by
list (`NoLooser`), there is then no more work in any node (`WorkGrows`), and an
estimate that had not wrapped was all of the work. `BoundingTightens` says when a
step is covered: whenever a list is bounded below what it was taken to have. They assume
`RuleAssumption` (a rule's expression is a sequence of
nodes, each naming only earlier ones), `SchemaAssumption` and `BudgetAssumption`.

### Admission policies

`Vap_proofs` proves `PolicyIsJudged` and `DenialsAreExplained` for every policy,
interpreter and number of admissions. `IInv` says entry by entry that what was
compiled is the compilation of the policy's expression at that index
(`CompiledInPlace`) and that each result is the evaluation of that entry in the
context of the current evaluator (`JudgedInPlace`). It assumes
`PolicyAssumption`: a policy is a sequence of expressions.

### Registration

`Evaluation_proofs` proves for all builds, where TLC has eight:

- `NamesOwned`: `RegSpec => []RegInv`
- `NothingTaken`: `RegSpec => NeverTaken`
- `AllNamesAnswered`: `RegSpec => []EveryNameAnswered`

`RegInv` follows the loop: after i turns, a name belongs to the one library
among the first i that has it in this build, or still to its first owner. It is
one library because the 14 sets of names are pairwise disjoint
(`LibrariesApart`, `DispatchApart`, `OneOwner`), whatever the features. It
assumes `BuildsAssumption`: a build is a set of features.

### Quantities

`Evaluation_proofs` also proves, for mantissas and integers of any width and literals
and chains of any length, in a build with overflow checks (`ASSUME
OverflowChecks`; without them the first is violated, see `quantity_release`):

- `QuantitiesAreExact`: `QuantitySpec => []ArithmeticIsExact`
- `ComparisonsAreExact`: `QuantitySpec => []ComparisonIsExact`
- `RepresentationsAreUnique`: `QuantitySpec => []OneRepresentation`
- `IntegersAreExact`: `QuantitySpec => []IntegersConvert`

The inductive invariant `EachRepresents` says that each quantity made so far is
canonical (its mantissa has no trailing zero, or is zero with scale zero) and
stands for the number its history says. Numbers with different scales
are compared after scaling both to the smaller scale; the lemmas are laws of the
powers of ten and of the loop that strips trailing zeros, both recursive
functions, by induction. They assume `WidthAssumption` and `QuantityAssumption`
(the widths are natural numbers; a literal is what the scan of its text leaves,
and the unit in which numbers are counted is small enough for it).

The other assumptions of the modules say which values the constants may have
(`DurationAssumption` and the like); no proof uses them.

### Only model-checked

- The fairness half of `KeepsPromise`: liveness is out of the prover's reach.
- The laws of the libraries in `FunctionLaws` other than those of quantities: they
  rest on the equality of values and on digit by digit conversions, which recur
  over data: they are `RECURSIVE` operators, which the provers cannot expand.

## Findings

Each is a place where a comment says something else than the code does.

- `deep_defaults`: `defaults.rs:104` says that the compiled defaulter is "kept in
  lockstep" so that "both validation paths default identically", and the test at
  `defaults.rs:282` says the compiled one "must produce the same result". The
  marker node for a subtree past the cap has no default
  (`compilation.rs:301`), so a default declared exactly there is inserted by the
  raw path, which then refuses the object as too deep, and not by the compiled
  path, which admits it.
- `nested_defaults`: the module says defaults are applied "recursively ...
  filling in missing fields" (`defaults.rs:3`). A default that is itself an
  object is inserted and not descended into, so its own missing fields stay
  missing.
- `quantity_release`: a quantity is stored as `mantissa * 10^scale` "to allow
  exact decimal arithmetic" (`quantity.rs:19`), but `scale_mantissa` multiplies
  unchecked (`quantity.rs:167`). In a default release build the product wraps,
  and sums and comparisons of quantities with distant scales are wrong without
  an error; with overflow checks they panic.
- `greatest`: `math.greatest` returns "the greatest of all arguments"
  (`math.rs:216`), and promotes "for cross-type comparison" (`math.rs:195`), but
  compares two integers as doubles as well (`math.rs:196`). Of two integers that
  are one double, as 2^53 and 2^53 + 1, it answers the first.
- `validate`: `validate` returns `optional.of([...errors])` "when the value is
  invalid" (`named_format.rs:6`). `validate_time_str` slices `s[6..8]`
  (`named_format.rs:664`) without a check that a character starts at byte 8, and
  panics where it does not.
- `cost_release`: `estimate_rule_cost` is to "estimate cost of a CEL rule and warn
  if it may exceed K8s budget" (`analysis.rs:96`), but multiplies
  `list_size * body_cost.max(1)` unchecked (`analysis.rs:177`). In a default
  release build a product beyond `u64` wraps, and where what is left is within the
  budget the rule is answered without a warning: a loop whose step has an even
  cost, over lists of at most 2^63 items, costs 0. `CostIsWarnedOf` therefore says
  of a release build that it warns as long as the work is a `u64`.

Not listed there, because nothing promises otherwise, but a user may be
surprised; the properties are stated so as to leave them out:

- `find_max_length` passes over strings without a bound, so that adding a
  `maxLength`, as the cost warning advises, can raise the estimate.
  `TighteningNeverCosts` is therefore about `maxItems` only.
- A list without `maxItems` is taken to have 1000 items, the "worst-case"
  (`analysis.rs:215`, `analysis.rs:260`), which it is not: to bound it above 1000
  raises the estimate. `AddMaxItems` does that too, and `TighteningNeverCosts` speaks
  of the steps after which no list is taken to have more items than before
  (`Tightened`).
- `lists.sum` of integers wraps in a default release build (`value_ops.rs:33-34`), and
  so does the sum of a duration's parts (`values.rs:311`).
- A duration's parts lose what a double cannot hold: `1.001s` is read as 1000999999
  ns.
- `VapResult::expression` is "the original CEL expression" (`vap.rs:108`), but
  holds the text of the messageExpression when that is what did not parse
  (`vap.rs:303`, `vap.rs:366`). `Vap` has it so; no property is about it.
- `min([1, 2])` works in a build without `lists` and fails in one with it,
  because `min_dispatch` passes on the receiver as one more argument;
  `[1, 2].min()` is null without `lists`. `SameInEveryBuild` takes `min` and
  `max` with two arguments or more, and no receiver.
- Integers and doubles that differ beyond the precision of a double have no
  coherent order, so `sort` of a list with both may leave it unsorted.
- `string` of a duration rounds below a second and writes microseconds with a
  letter that `parse_go_duration` does not read.
- `ip()` of a network keeps its host bits. `isSemver("1.2.3.4", true)` holds.
  Dates like `+202-01-01` are dates. `getScheme` of `http://localhost` is
  empty, as it is for a path. The prefix format of RFC 1035 labels
  accepts the empty text. `%b`, `%o` and `%x` write negative integers in two's
  complement, and `%e` writes NaN with an exponent. `indexOf` of the empty text
  past the end answers the offset.
- Two field names that escape to one CEL key overwrite each other, and a field
  name with a dot gives the joined path of two nested fields.

## Not modelled

Of the engine: the wording of messages, the `reason` of a rule, number
conversion within a walk (a number is an opaque atom), the text of joined paths,
and the parsers of date-times and base64 behind `ParsesAs`. `maxLength`,
`maxItems` and `maxProperties` in the compiled tree: `Analysis`, their only
reader, has schemas of its own. The thread-local functions `validate` and
`validate_compiled`: they forward to a `Validator` that is never changed after
it is built.

Of the library: the character scan of a quantity literal, the `i32` arithmetic of
scales (a scale is an unbounded integer in the model), `Display` of
quantities and `asApproximateFloat`; regular expressions beyond literal
patterns; the Debug text of a value that `format` falls back to; timestamps;
negative zero and the range of a double's exponent. What other crates parse is
represented by the outcome.
