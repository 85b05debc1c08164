----------------------------- MODULE MCComposer -----------------------------
(* Instances of Composer for TLC. *)
EXTENDS Composer, TLC

Alike == Permutations(File) \cup Permutations(Load)

\* Once a conversation was created under an open one, most properties say
\* nothing: TLC need not go on from there.  And two uploads fail only in
\* behaviours in which nothing is sent.
Bounded ==
    /\ ~strayed
    /\ turn.pc = "idle" \/ faults < 2
=============================================================================
