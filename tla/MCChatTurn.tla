----------------------------- MODULE MCChatTurn -----------------------------
(* Instances of ChatTurn for TLC. *)
EXTENDS ChatTurn

CONSTANTS s1, s2, t1, mA, mB, mC, none

\* Every send of an instance carries the same token: the second one is a
\* retry of the first.
SameTurn == [s \in Send |-> t1]

\* s1 asks for mA, a later send for mB.
TwoModels == [s \in Send |-> IF s = s1 THEN mA ELSE mB]

\* The administrator gave mA the fallback mB and mB the fallback mA.
FallbackCycle == [m \in Model |-> IF m = mA THEN mB ELSE mA]

\* mA falls back to mB, mB to mC.
FallbackChain == [m \in Model |-> IF m = mA THEN mB ELSE IF m = mB THEN mC ELSE none]

NoFallbacks == [m \in Model |-> none]
=============================================================================
