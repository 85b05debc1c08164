----------------------------- MODULE MCChatView -----------------------------
(* Instances of ChatView for TLC. *)
EXTENDS ChatView, TLC

Alike == Permutations(Feed) \cup Permutations(Load)

\* Bounds: only the first answer may fail; and a behaviour ends with the first
\* step that is Overtaken, which is still checked.  ShowsServersText says
\* nothing of what comes after it; that KeepsOneLive holds there too is proved
\* in ChatViewProofs.
Bounded == ~stray /\ row[MaxRow].status # "failed"
=============================================================================
