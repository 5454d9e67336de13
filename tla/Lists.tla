------------------------------- MODULE Lists --------------------------------
(***************************************************************************)
(* List and set functions, src/src/functions/lists.rs and sets.rs.  A list *)
(* argument is its sequence of elements, an answer is a CEL value.         *)
(***************************************************************************)
EXTENDS CelValues

---------------------------------------------------------------------------
\* The first neighbours out of order decide, what follows is not compared.
IsSortedList(elems) ==
  LET neighbours(i) == CompareValues(elems[i], elems[i + 1])
      stops == {i \in 1..(Len(elems) - 1) :
                  neighbours(i) \notin {"less", "equal"}}
  IN  IF stops = {} THEN Bool(TRUE)
      ELSE IF neighbours(CHOOSE i \in stops : \A j \in stops : i <= j) = "none"
      THEN Error ELSE Bool(FALSE)

Sum(elems) ==
  IF elems = <<>> THEN Int64(0)
  ELSE FoldLeft(LAMBDA acc, v : IF Failed(acc) THEN acc ELSE ValAdd(acc, v),
                elems[1], Tail(elems))

\* list_min and list_max: the earliest element that no later one beats.
Extremum(elems, beats) ==
  IF elems = <<>> THEN Error
  ELSE FoldLeft(LAMBDA best, v :
                  IF Failed(best) THEN best
                  ELSE CASE CompareValues(v, best) = "none" -> Error
                         [] CompareValues(v, best) = beats -> v
                         [] OTHER -> best,
                elems[1], Tail(elems))

ListMin(elems) == Extremum(elems, "less")
ListMax(elems) == Extremum(elems, "greater")

\* Zero-based, -1 if there is none.
ListIndexOf(elems, target) ==
  Int64(SelectInSeq(elems, LAMBDA v : ValEq(v, target)) - 1)

ListLastIndexOf(elems, target) ==
  Int64(SelectLastInSeq(elems, LAMBDA v : ValEq(v, target)) - 1)

Slice(elems, start, end) ==
  IF start < 0 \/ start > Len(elems) \/ end < start \/ end > Len(elems)
  THEN Error ELSE List(SubSeq(elems, start + 1, end))

\* sort_by on a short list: each element moves left over greater ones.  One
\* comparison that fails fails the call, however the rest is ordered.
Inserted(sorted, v) ==
  LET stays == SelectLastInSeq(sorted, LAMBDA w : CompareValues(v, w) # "less")
  IN  InsertAt(sorted, stays + 1, v)

CompareFails(sorted, v) ==
  LET stays == SelectLastInSeq(sorted, LAMBDA w : CompareValues(v, w) # "less")
  IN  stays > 0 /\ CompareValues(v, sorted[stays]) = "none"

\* A slip: elements that cannot be compared stay where they are.
SortLeniently(elems) ==
  List(FoldLeft(LAMBDA sorted, v : Inserted(sorted, v), <<>>, elems))

Sort(elems) ==
  LET sorted == [n \in 0..Len(elems) |->
                   FoldLeft(Inserted, <<>>, SubSeq(elems, 1, n))]
  IN  IF \E n \in DOMAIN elems : CompareFails(sorted[n - 1], elems[n])
      THEN Error ELSE List(sorted[Len(elems)])

RECURSIVE FlattenRecursive(_, _)
FlattenRecursive(elems, depth) ==
  IF depth = 0 THEN elems
  ELSE FlattenSeq([i \in DOMAIN elems |->
         IF elems[i].kind = "list"
         THEN FlattenRecursive(elems[i].elems, depth - 1) ELSE <<elems[i]>>])

\* The depth is one unless given.
Flatten(elems, args) ==
  CASE args = <<>> -> List(FlattenRecursive(elems, 1))
    [] args # <<>> ->
         IF args[1].kind # "int" THEN Error
         ELSE IF args[1].number < 0 THEN Error
         ELSE List(FlattenRecursive(elems, args[1].number))

Range0(n) == IF n < 0 THEN Error ELSE List([i \in 1..n |-> Int64(i - 1)])

ListReverse(elems) == List(Reverse(elems))

First(elems) == IF elems = <<>> THEN None ELSE Some(elems[1])
LastOf(elems) == IF elems = <<>> THEN None ELSE Some(elems[Len(elems)])

Distinct(elems) ==
  List(FoldLeft(LAMBDA kept, v :
                  IF \E i \in DOMAIN kept : ValEq(kept[i], v) THEN kept
                  ELSE Append(kept, v),
                <<>>, elems))

---------------------------------------------------------------------------
Holds(elems, v) == \E i \in DOMAIN elems : ValEq(elems[i], v)

SetsContains(a, b) == Bool(\A i \in DOMAIN b : Holds(a, b[i]))

\* A slip: only one direction is looked at.
SetsEquivalentOneWay(a, b) == Bool(\A i \in DOMAIN b : Holds(a, b[i]))

SetsEquivalent(a, b) ==
  Bool(/\ \A i \in DOMAIN b : Holds(a, b[i])
       /\ \A i \in DOMAIN a : Holds(b, a[i]))

SetsIntersects(a, b) == Bool(\E i \in DOMAIN a : Holds(b, a[i]))

---------------------------------------------------------------------------
Ints(args, from) == \A i \in from..Len(args) : args[i].kind = "int"

\* A list function called on this, the rest in args.
ListCall(name, elems, args) ==
  CASE name = "isSorted" -> IsSortedList(elems)
    [] name = "sum"      -> Sum(elems)
    [] name = "slice"    -> IF Len(args) >= 2 /\ Ints(args, 1)
                            THEN Slice(elems, args[1].number, args[2].number)
                            ELSE Error
    [] name = "sort"     -> Sort(elems)
    [] name = "flatten"  -> Flatten(elems, args)
    [] name = "distinct" -> Distinct(elems)
    [] name = "first"    -> First(elems)
    [] name = "last"     -> LastOf(elems)

SetCall(name, a, b) ==
  CASE name = "sets.contains"   -> SetsContains(a, b)
    [] name = "sets.equivalent" -> SetsEquivalent(a, b)
    [] name = "sets.intersects" -> SetsIntersects(a, b)
=============================================================================
