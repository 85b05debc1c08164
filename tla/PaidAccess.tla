----------------------------- MODULE PaidAccess -----------------------------
(***************************************************************************)
(* What billing promises one user: a payment opens, and is then either     *)
(* granted, once and for ever, or closed without effect; a grant makes it  *)
(* the one payment the user's access rests on; access ends when its period *)
(* is over or it is given up, and never comes back by itself.              *)
(***************************************************************************)
CONSTANTS Payment, Nothing

VARIABLES
    fate,     \* what became of each payment
    access    \* the payment that the user's access rests on

paVars == <<fate, access>>

PInit ==
    /\ fate = [p \in Payment |-> "none"]
    /\ access = Nothing

Move(p, from, to) ==
    /\ fate[p] = from
    /\ fate' = [fate EXCEPT ![p] = to]

Open(p) == Move(p, "none", "open") /\ UNCHANGED access

Grant(p) == Move(p, "open", "granted") /\ access' = p

Close(p) == Move(p, "open", "closed") /\ UNCHANGED access

EndAccess == access # Nothing /\ access' = Nothing /\ UNCHANGED fate

PNext ==
    \/ \E p \in Payment : Open(p) \/ Grant(p) \/ Close(p)
    \/ EndAccess

PSpec == PInit /\ [][PNext]_paVars
=============================================================================
