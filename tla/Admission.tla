----------------------------- MODULE Admission -----------------------------
(***************************************************************************)
(* What a validate call promises its caller, whatever the order in which   *)
(* it looks at schema and object: it reports the errors that are due, each *)
(* of them and no other, and answers Ok exactly when none is due.          *)
(***************************************************************************)
EXTENDS FiniteSets

CONSTANTS
  Call,           \* the calls
  Expected(_)     \* the set of errors due for a call

VARIABLES
  call,           \* the call
  report,         \* the errors reported so far
  verdict         \* "running", then "ok" or "rejected"

vars == <<call, report, verdict>>

Init == call \in Call /\ report = {} /\ verdict = "running"

Report ==
  /\ verdict = "running"
  /\ \E e \in Expected(call) \ report : report' = report \cup {e}
  /\ UNCHANGED <<call, verdict>>

Answer ==
  /\ verdict = "running"
  /\ report = Expected(call)
  /\ verdict' = IF report = {} THEN "ok" ELSE "rejected"
  /\ UNCHANGED <<call, report>>

Next == Report \/ Answer

Spec == Init /\ [][Next]_vars /\ WF_vars(Next)
=============================================================================
