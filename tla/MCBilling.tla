----------------------------- MODULE MCBilling -----------------------------
(* Instances of Billing for TLC. *)
EXTENDS Billing

CONSTANTS p1, p2, basic, pro, e1, e2, e3, e4, d1, d2, d3, d4, d5

\* p1 and p2 buy different plans, so both may be pending.
TwoPlans == [p \in Payment |-> IF p = p1 THEN basic ELSE pro]

\* p1 succeeds under two event ids and is also reported as failed; p2 succeeds.
Events == [e \in Event |-> IF e = e3 THEN "failed" ELSE "success"]
About == [e \in Event |-> IF e = e4 THEN p2 ELSE p1]

\* e1 is delivered twice.
Carries == [d \in Delivery |-> CASE d = d3 -> e2 [] d = d4 -> e3 [] d = d5 -> e4 [] OTHER -> e1]
=============================================================================
