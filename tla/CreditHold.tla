----------------------------- MODULE CreditHold -----------------------------
(***************************************************************************)
(* What the generation service promises about money, and nothing else: the  *)
(* price of a generation is held when it is requested; once, and finally,   *)
(* the hold is either captured (all of it, or less when the result is worth *)
(* less) or given back, exactly as much as was taken.                      *)
(***************************************************************************)
EXTENDS Integers

CONSTANTS Gen, Price

VARIABLES
  hold,         \* Gen -> "none", "held", "captured" or "released"
  paid          \* Gen -> the credits the customer is out for it

holdVars == <<hold, paid>>

Init ==
  /\ hold = [g \in Gen |-> "none"]
  /\ paid = [g \in Gen |-> 0]

\* A child of a plan is held at price zero.
Hold(g) ==
  /\ hold[g] = "none"
  /\ hold' = [hold EXCEPT ![g] = "held"]
  /\ paid' = [paid EXCEPT ![g] = Price[g]]

Capture(g) ==
  /\ hold[g] = "held"
  /\ hold' = [hold EXCEPT ![g] = "captured"]
  /\ \E keep \in 0..Price[g] : paid' = [paid EXCEPT ![g] = keep]

Release(g) ==
  /\ hold[g] = "held"
  /\ hold' = [hold EXCEPT ![g] = "released"]
  /\ paid' = [paid EXCEPT ![g] = 0]

Next == \E g \in Gen : Hold(g) \/ Capture(g) \/ Release(g)

Spec == Init /\ [][Next]_holdVars
=============================================================================
