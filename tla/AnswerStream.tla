---------------------------- MODULE AnswerStream ----------------------------
(***************************************************************************)
(* What the readers of an answer are promised, whatever happens between    *)
(* the model and their screen: the text on the screen is at every moment   *)
(* an exact beginning of the answer (no chunk lost, repeated or out of     *)
(* order), it only grows while the reader is attached, and a reader who is *)
(* told that the answer is done has all of it, and nothing is added later. *)
(***************************************************************************)
EXTENDS Integers, Sequences

CONSTANTS Answer, Reader

VARIABLES
    produced,   \* chunks each answer has so far
    reading,    \* the answer each reader looks at
    attached,   \* whether the reader receives what is produced
    text,       \* what the reader has on the screen
    told        \* how the reader was told that the answer ended

asVars == <<produced, reading, attached, text, told>>

Prefix(n) == [i \in 1..n |-> i]

\* Somebody was told that this answer is complete.
Final(a) == \E r \in Reader : reading[r] = a /\ told[r] = "done"

AInit ==
    /\ produced = [a \in Answer |-> 0]
    /\ reading \in [Reader -> Answer]
    /\ attached = [r \in Reader |-> FALSE]
    /\ text = [r \in Reader |-> <<>>]
    /\ told = [r \in Reader |-> "none"]

Produce(a) ==
    /\ ~Final(a)
    /\ produced' = [produced EXCEPT ![a] = @ + 1]
    /\ UNCHANGED <<reading, attached, text, told>>

Choose(r) ==
    /\ ~attached[r]
    /\ told[r] = "none"
    /\ \E a \in Answer : reading' = [reading EXCEPT ![r] = a]
    /\ UNCHANGED <<produced, attached, text, told>>

\* Attach with all of the answer so far that was ever shown to anybody.
Attach(r) ==
    /\ ~attached[r]
    /\ told[r] = "none"
    /\ attached' = [attached EXCEPT ![r] = TRUE]
    /\ \E n \in 0..produced[reading[r]] : text' = [text EXCEPT ![r] = Prefix(n)]
    /\ UNCHANGED <<produced, reading, told>>

\* One more chunk, and never another one than the next.
Show(r) ==
    /\ attached[r]
    /\ Len(text[r]) < produced[reading[r]]
    /\ text' = [text EXCEPT ![r] = Prefix(Len(@) + 1)]
    /\ UNCHANGED <<produced, reading, attached, told>>

Whole(r, n) == n = produced[reading[r]]

\* The end of an attached reader's stream.
Finish(r) ==
    /\ attached[r]
    /\ \E how \in {"done", "failed", "cancelled"} :
          /\ how = "done" => Whole(r, Len(text[r]))
          /\ told' = [told EXCEPT ![r] = how]
    /\ attached' = [attached EXCEPT ![r] = FALSE]
    /\ UNCHANGED <<produced, reading, text>>

\* A reader who never attaches is given a text and its end at once.
Replay(r) ==
    /\ ~attached[r]
    /\ told[r] = "none"
    /\ \E n \in 0..produced[reading[r]], how \in {"done", "failed"} :
          /\ how = "done" => Whole(r, n)
          /\ text' = [text EXCEPT ![r] = Prefix(n)]
          /\ told' = [told EXCEPT ![r] = how]
    /\ UNCHANGED <<produced, reading, attached>>

\* Readers leave, or lose the server: their text stays as it is.
Detach ==
    /\ \E gone \in SUBSET Reader :
          attached' = [r \in Reader |-> attached[r] /\ r \notin gone]
    /\ UNCHANGED <<produced, reading, text, told>>

ANext ==
    \/ \E a \in Answer : Produce(a)
    \/ \E r \in Reader : Choose(r) \/ Attach(r) \/ Show(r) \/ Finish(r) \/ Replay(r)
    \/ Detach

ASpec == AInit /\ [][ANext]_asVars
=============================================================================
