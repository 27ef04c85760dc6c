----------------------------- MODULE ScanReport -----------------------------
(***************************************************************************)
(* What engine.scan promises its caller: every (check, subscription) pair  *)
(* gets exactly one verdict, a verdict once given is never revised, and    *)
(* the report is returned only when every pair has one.                    *)
(***************************************************************************)
EXTENDS Integers

CONSTANT Pairs       \* the pairs attempted

VARIABLES
  verdict,           \* verdict[j]: what the report will say of pair j
  returned           \* the report has been handed to the caller

vars == <<verdict, returned>>

Verdicts == {"read", "unavailable", "error"}

Init ==
  /\ verdict = [j \in Pairs |-> "pending"]
  /\ returned = (Pairs = {})

Decide(j) ==
  /\ ~returned
  /\ verdict[j] = "pending"
  /\ \E v \in Verdicts : verdict' = [verdict EXCEPT ![j] = v]
  /\ UNCHANGED returned

Return ==
  /\ ~returned
  /\ \A j \in Pairs : verdict[j] # "pending"
  /\ returned' = TRUE
  /\ UNCHANGED verdict

Next == Return \/ \E j \in Pairs : Decide(j)

Spec == Init /\ [][Next]_vars
=============================================================================
