-------------------------- MODULE MCTurnAdmission --------------------------
(* Instances of TurnAdmission for TLC. *)
EXTENDS TurnAdmission

CONSTANTS s1, s2, s3, s4, t1, t2, c1, c2

\* s1, s2 and s3 are sends of one turn, s4 of another.
RepeatedToken == [s \in Send |-> IF s = s4 THEN t2 ELSE t1]

\* The client repeats its text, except s3, which reuses the token for another.
RepeatedContent == [s \in Send |-> IF s = s3 THEN c2 ELSE c1]
=============================================================================
