------------------------------- MODULE Widths --------------------------------
(***************************************************************************)
(* The width of the machine integers that CEL integers, and the mantissas  *)
(* of quantities, are computed in, and what the build does at its end.     *)
(***************************************************************************)
EXTENDS Integers

CONSTANTS
  IntLimit,        \* i64::MAX, one less than a power of two
  OverflowChecks   \* the build panics on overflow instead of wrapping

ASSUME WidthAssumption == IntLimit \in Nat /\ OverflowChecks \in BOOLEAN
=============================================================================
