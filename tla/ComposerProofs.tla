--------------------------- MODULE ComposerProofs ---------------------------
(***************************************************************************)
(* Theorems about Composer, for every set of files, conversations and       *)
(* loads and for every bound.                                               *)
(***************************************************************************)
EXTENDS Composer, WellFoundedInduction, FiniteSetTheorems, TLAPS

-----------------------------------------------------------------------------
(* Queues: sequences in which no file occurs twice.                          *)

Queue == Seq(File)
Once(q) == \A i, j \in 1..Len(q) : q[i] = q[j] => i = j

LEMMA RangeIs ==
    ASSUME NEW q \in Queue
    PROVE  /\ Range(q) = {q[i] : i \in 1..Len(q)} /\ Range(q) \subseteq File
           /\ \A f : f \in Range(q) <=> \E i \in 1..Len(q) : q[i] = f
BY DEF Queue, Range

\* A file at the end.
LEMMA AppendFacts ==
    ASSUME NEW q \in Queue, NEW f \in File
    PROVE  LET r == Append(q, f)
           IN  /\ r \in Queue /\ r # <<>> /\ Range(r) = Range(q) \cup {f}
               /\ Head(r) = IF q = <<>> THEN f ELSE Head(q)
               /\ Once(q) /\ f \notin Range(q) => Once(r)
<1> DEFINE r == Append(q, f)
<1>1. r \in Queue /\ r # <<>> /\ Len(r) = Len(q) + 1 /\ Len(q) \in Nat
  BY DEF Queue
<1>2. \A i \in 1..Len(r) : r[i] = IF i = Len(q) + 1 THEN f ELSE q[i]
  BY DEF Queue
<1>3. Head(r) = IF q = <<>> THEN f ELSE Head(q)
  BY DEF Queue
<1> HIDE DEF r
<1>4. Range(r) = Range(q) \cup {f}
  <2>1. \A x : x \in Range(r) <=> x \in Range(q) \cup {f}
    BY <1>1, <1>2, RangeIs
  <2> QED
    BY <2>1
<1>5. Once(q) /\ f \notin Range(q) => Once(r)
  BY <1>1, <1>2, RangeIs DEF Once
<1> QED
  BY <1>1, <1>3, <1>4, <1>5 DEF r

\* A file at the front.
LEMMA FrontFacts ==
    ASSUME NEW q \in Queue, NEW f \in File
    PROVE  LET r == <<f>> \o q
           IN  /\ r \in Queue /\ r # <<>> /\ Range(r) = Range(q) \cup {f} /\ Head(r) = f
               /\ Once(q) /\ f \notin Range(q) => Once(r)
<1> DEFINE r == <<f>> \o q
<1>1. r \in Queue /\ Len(r) = Len(q) + 1 /\ Len(q) \in Nat
  BY DEF Queue
<1>2. \A i \in 1..Len(r) : r[i] = IF i = 1 THEN f ELSE q[i - 1]
  BY DEF Queue
<1> HIDE DEF r
<1>3. r # <<>> /\ Head(r) = f
  BY <1>1, <1>2 DEF Queue
<1>4. Range(r) = Range(q) \cup {f}
  <2>1. \A x \in Range(r) : x \in Range(q) \cup {f}
    BY <1>1, <1>2, RangeIs
  <2>2. ASSUME NEW x \in Range(q) PROVE x \in Range(r)
    <3>1. PICK i \in 1..Len(q) : q[i] = x
      BY RangeIs
    <3>2. i + 1 \in 1..Len(r) /\ r[i + 1] = x
      BY <1>1, <1>2, <3>1
    <3> QED
      BY <1>1, <3>2, RangeIs
  <2>3. f \in Range(r)
    <3>1. 1 \in 1..Len(r) /\ r[1] = f
      BY <1>1, <1>2
    <3> QED
      BY <1>1, <3>1, RangeIs
  <2> QED
    BY <2>1, <2>2, <2>3
<1>5. Once(q) /\ f \notin Range(q) => Once(r)
  <2> SUFFICES ASSUME Once(q), f \notin Range(q), NEW i \in 1..Len(r), NEW j \in 1..Len(r), r[i] = r[j]
               PROVE  i = j
    BY DEF Once
  <2>1. \A k \in 1..Len(r) : k # 1 => k - 1 \in 1..Len(q) /\ r[k] = q[k - 1] /\ q[k - 1] \in Range(q)
    BY <1>1, <1>2, RangeIs
  <2>2. r[1] = f
    BY <1>1, <1>2
  <2>3. i = 1 <=> j = 1
    BY <2>1, <2>2
  <2>4. i # 1 /\ j # 1 => i - 1 = j - 1
    BY <2>1 DEF Once
  <2> QED
    BY <2>3, <2>4
<1> QED
  BY <1>1, <1>3, <1>4, <1>5 DEF r

\* Without the first.
LEMMA TailFacts ==
    ASSUME NEW q \in Queue, q # <<>>
    PROVE  /\ Tail(q) \in Queue /\ Head(q) \in Range(q) /\ Head(q) \in File
           /\ Range(q) = Range(Tail(q)) \cup {Head(q)}
           /\ Once(q) => Once(Tail(q)) /\ Head(q) \notin Range(Tail(q))
<1> DEFINE r == Tail(q)
<1>1. r \in Queue /\ Len(r) = Len(q) - 1 /\ Len(q) \in Nat /\ Len(q) > 0
  BY DEF Queue
<1>2. \A i \in 1..Len(r) : r[i] = q[i + 1]
  BY DEF Queue
<1>3. Head(q) = q[1] /\ 1 \in 1..Len(q) /\ Head(q) \in File
  BY <1>1 DEF Queue
<1> HIDE DEF r
<1>4. Head(q) \in Range(q)
  BY <1>3, RangeIs
<1>5. Range(q) = Range(r) \cup {Head(q)}
  <2>1. ASSUME NEW x \in Range(q), x # Head(q) PROVE x \in Range(r)
    <3>1. PICK i \in 1..Len(q) : q[i] = x
      BY RangeIs
    <3>2. i # 1
      BY <1>3, <2>1, <3>1
    <3>3. i - 1 \in 1..Len(r) /\ r[i - 1] = x
      BY <1>1, <1>2, <3>1, <3>2
    <3> QED
      BY <1>1, <3>3, RangeIs
  <2>2. ASSUME NEW x \in Range(r) PROVE x \in Range(q)
    <3>1. PICK i \in 1..Len(r) : r[i] = x
      BY <1>1, RangeIs
    <3>2. i + 1 \in 1..Len(q) /\ q[i + 1] = x
      BY <1>1, <1>2, <3>1
    <3> QED
      BY <3>2, RangeIs
  <2> QED
    BY <1>4, <2>1, <2>2
<1>6. Once(q) => Once(r)
  <2> SUFFICES ASSUME Once(q), NEW i \in 1..Len(r), NEW j \in 1..Len(r), r[i] = r[j]
               PROVE  i = j
    BY DEF Once
  <2>1. i + 1 \in 1..Len(q) /\ j + 1 \in 1..Len(q) /\ q[i + 1] = q[j + 1]
    BY <1>1, <1>2
  <2> QED
    BY <2>1 DEF Once
<1>7. Once(q) => Head(q) \notin Range(r)
  <2> SUFFICES ASSUME Once(q), NEW i \in 1..Len(r), r[i] = Head(q)
               PROVE  FALSE
    BY <1>1, RangeIs
  <2>1. i + 1 \in 1..Len(q) /\ q[i + 1] = q[1] /\ i + 1 # 1
    BY <1>1, <1>2, <1>3
  <2> QED
    BY <1>3, <2>1 DEF Once
<1> QED
  BY <1>1, <1>3, <1>4, <1>5, <1>6, <1>7 DEF r

\* Numbers have a least one.
LEMMA Least ==
    ASSUME NEW S, S \subseteq Nat, S # {}
    PROVE  \E x \in S : \A y \in S : x <= y
<1> DEFINE Below == {ss \in Nat \X Nat : ss[1] < ss[2]}
<1>1. IsWellFoundedOn(Below, Nat)
  BY NatLessThanWellFounded DEF OpToRel
<1>2. \A x, y \in Nat : y < x => <<y, x>> \in Below
  OBVIOUS
<1> HIDE DEF Below
<1>3. PICK x \in S : \A y \in S : <<y, x>> \notin Below
  BY <1>1, WFMin
<1>4. ASSUME NEW y \in S PROVE x <= y
  <2>1. x \in Nat /\ y \in Nat /\ ~(y < x)
    BY <1>2, <1>3
  <2> QED
    BY <2>1
<1> QED
  BY <1>4

\* Without one in the middle.
LEMMA RemoveAtFacts ==
    ASSUME NEW q \in Queue, NEW n \in 1..Len(q)
    PROVE  /\ RemoveAt(q, n) \in Queue
           /\ Len(RemoveAt(q, n)) = Len(q) - 1 /\ Len(q) \in Nat
           /\ \A i \in 1..Len(q) - 1 : RemoveAt(q, n)[i] = IF i < n THEN q[i] ELSE q[i + 1]
<1> DEFINE before == SubSeq(q, 1, n - 1)
           after == SubSeq(q, n + 1, Len(q))
<1>1. Len(q) \in Nat /\ n \in Nat /\ n >= 1 /\ n <= Len(q)
  BY DEF Queue
<1>2. before \in Queue /\ Len(before) = n - 1 /\ \A i \in 1..n - 1 : before[i] = q[i]
  BY <1>1 DEF Queue
<1>3. after \in Queue /\ Len(after) = Len(q) - n /\ \A i \in 1..Len(q) - n : after[i] = q[i + n]
  BY <1>1 DEF Queue
<1>4. RemoveAt(q, n) = before \o after
  BY DEF RemoveAt
<1> HIDE DEF before, after
<1>5. /\ before \o after \in Queue
      /\ Len(before \o after) = Len(q) - 1
      /\ \A i \in 1..Len(q) - 1 : (before \o after)[i] = IF i <= n - 1 THEN before[i] ELSE after[i - (n - 1)]
  BY <1>1, <1>2, <1>3 DEF Queue
<1>6. ASSUME NEW i \in 1..Len(q) - 1
      PROVE  (before \o after)[i] = IF i < n THEN q[i] ELSE q[i + 1]
  <2>1. CASE i < n
    BY <1>1, <1>2, <1>5, <2>1
  <2>2. CASE ~(i < n)
    <3>1. i - (n - 1) \in 1..Len(q) - n
      BY <1>1, <2>2
    <3>2. after[i - (n - 1)] = q[i - (n - 1) + n]
      BY <1>3, <3>1
    <3>3. i - (n - 1) + n = i + 1
      BY <1>1
    <3> QED
      BY <1>1, <1>5, <2>2, <3>2, <3>3
  <2> QED
    BY <2>1, <2>2
<1> QED
  BY <1>1, <1>4, <1>5, <1>6

LEMMA RemoveFacts ==
    ASSUME NEW q \in Queue, NEW f \in File
    PROVE  LET r == RemoveFirst(q, f)
           IN  /\ r \in Queue
               /\ Range(r) \subseteq Range(q) /\ Range(q) \subseteq Range(r) \cup {f}
               /\ Once(q) => Once(r) /\ f \notin Range(r)
               /\ q # <<>> /\ Head(q) # f => r # <<>> /\ Head(r) = Head(q)
<1>l. Len(q) \in Nat
  BY DEF Queue
<1>1. CASE f \notin Range(q)
  <2>1. ~ \E i \in 1..Len(q) : q[i] = f
    BY <1>1, RangeIs
  <2>2. RemoveFirst(q, f) = q
    BY <2>1 DEF RemoveFirst
  <2> QED
    BY <1>1, <2>2
<1>2. CASE f \in Range(q)
  <2> DEFINE places == {i \in 1..Len(q) : q[i] = f}
             n == CHOOSE x \in places : \A y \in places : x <= y
             r == RemoveAt(q, n)
  <2>1. places # {} /\ places \subseteq Nat
    BY <1>2, RangeIs
  <2>2. n \in places /\ \A y \in places : n <= y
    <3>1. \E x \in places : \A y \in places : x <= y
      BY <2>1, Least
    <3> QED
      BY <3>1
  <2>3. RemoveFirst(q, f) = r
    <3>1. \E i \in 1..Len(q) : q[i] = f
      BY <1>2, RangeIs
    <3>2. RemoveFirst(q, f) = RemoveAt(q, SelectInSeq(q, LAMBDA v : v = f))
      BY <3>1 DEF RemoveFirst
    <3>3. SelectInSeq(q, LAMBDA v : v = f) = n
      BY <2>1 DEF SelectInSeq, Min
    <3> QED
      BY <3>2, <3>3
  <2>4. n \in 1..Len(q) /\ q[n] = f
    BY <2>2
  <2> HIDE DEF places, n
  <2>5. /\ r \in Queue /\ Len(r) = Len(q) - 1
        /\ \A i \in 1..Len(q) - 1 : r[i] = IF i < n THEN q[i] ELSE q[i + 1]
    BY <2>4, RemoveAtFacts
  <2> HIDE DEF r
  <2>6. ASSUME NEW x \in Range(r) PROVE x \in Range(q)
    <3>1. PICK i \in 1..Len(r) : r[i] = x
      BY <2>5, RangeIs
    <3>2. q[i] = x \/ q[i + 1] = x
      BY <1>l, <2>5, <3>1
    <3>3. i \in 1..Len(q) /\ i + 1 \in 1..Len(q)
      BY <1>l, <2>5, <3>1
    <3> QED
      BY <3>2, <3>3, RangeIs
  <2>7. ASSUME NEW x \in Range(q), x # f PROVE x \in Range(r)
    <3>1. PICK i \in 1..Len(q) : q[i] = x
      BY RangeIs
    <3>2. CASE i < n
      <4>1. i \in 1..Len(r) /\ r[i] = x
        BY <1>l, <2>4, <2>5, <3>1, <3>2
      <4> QED
        BY <2>5, <4>1, RangeIs
    <3>3. CASE i > n
      <4>1. i - 1 \in 1..Len(r) /\ r[i - 1] = q[i - 1 + 1] /\ i - 1 + 1 = i
        BY <1>l, <2>4, <2>5, <3>1, <3>3
      <4>2. r[i - 1] = x
        BY <3>1, <4>1
      <4> QED
        BY <2>5, <4>1, <4>2, RangeIs
    <3>4. i # n
      BY <2>4, <2>7, <3>1
    <3> QED
      BY <1>l, <2>4, <3>1, <3>2, <3>3, <3>4
  <2>8. ASSUME Once(q) PROVE Once(r) /\ f \notin Range(r)
    <3> DEFINE at(i) == IF i < n THEN i ELSE i + 1
    <3>1. \A i \in 1..Len(r) : at(i) \in 1..Len(q) /\ r[i] = q[at(i)] /\ at(i) # n
      BY <1>l, <2>4, <2>5
    <3>2. \A i, j \in 1..Len(r) : at(i) = at(j) => i = j
      BY <1>l, <2>4, <2>5
    <3> HIDE DEF at
    <3>3. Once(r)
      BY <2>8, <3>1, <3>2 DEF Once
    <3>4. f \notin Range(r)
      <4>1. \A i \in 1..Len(r) : r[i] # f
        BY <2>4, <2>8, <3>1 DEF Once
      <4> QED
        BY <2>5, <4>1, RangeIs
    <3> QED
      BY <3>3, <3>4
  <2>9. ASSUME q # <<>>, Head(q) # f PROVE r # <<>> /\ Head(r) = Head(q)
    <3>1. Head(q) = q[1] /\ Len(q) >= 1
      BY <2>9 DEF Queue
    <3>2. n # 1 /\ n > 1
      BY <1>l, <2>4, <2>9, <3>1
    <3>3. Len(r) >= 1 /\ r[1] = q[1]
      BY <1>l, <2>4, <2>5, <3>2
    <3> QED
      BY <2>5, <3>1, <3>3 DEF Queue
  <2> QED
    BY <2>3, <2>5, <2>6, <2>7, <2>8, <2>9
<1> QED
  BY <1>1, <1>2

-----------------------------------------------------------------------------
(* What the operators of the queue do.                                      *)

TransferState == {"none", "sent", "stored"}
TurnRecord == [pc : {"idle", "sent", "checked", "accepted", "over"}, rows : SUBSET Row,
               conversation : Conversation \cup {NoConversation}, attached : BOOLEAN]

\* TypeOK without the bounds on attempt and shown.
Typed ==
    /\ active \in Conversation \cup {NoConversation}
    /\ known \subseteq Conversation
    /\ pick \in [File -> {"none", "creating", "created", "dropped", "chip"}]
    /\ home \in [File -> Conversation \cup {NoConversation}]
    /\ chip \in [File -> ChipState]
    /\ shown \in [Row -> Nat]
    /\ queue \in Queue
    /\ running \in BOOLEAN
    /\ transfer \in [File -> TransferState]
    /\ attempt \in [File -> Nat]
    /\ done \subseteq File /\ removed \subseteq File
    /\ row \in [Row -> {"none", "stored", "deleted"}]
    /\ used \subseteq Row
    /\ load \in [Load -> LoadRecord]
    /\ turn \in TurnRecord
    /\ strayed \in BOOLEAN /\ overtaken \in BOOLEAN

\* The queue q is left with a transfer under way as before ...
Kept(q, chips) == queue' = q /\ chip' = chips /\ UNCHANGED <<running, transfer, attempt>>

\* ... or its first file goes out, and nothing else is in flight.
First(q, g) == q # <<>> /\ g = Head(q)
Drained(q, chips) ==
    /\ queue' = q
    /\ running' = (q # <<>>)
    /\ transfer' \in [File -> TransferState]
    /\ chip' \in [File -> ChipState]
    /\ attempt' \in [File -> Nat]
    /\ \A g \in File : First(q, g) => /\ transfer'[g] = "sent" /\ attempt'[g] = attempt[g] + 1
                                      /\ chip'[g] = IF chips[g] = "none" THEN "none" ELSE "uploading"
    /\ \A g \in File : ~First(q, g) => transfer'[g] = "none" /\ chip'[g] = chips[g] /\ attempt'[g] = attempt[g]

Goes(q, chips) == (running /\ Kept(q, chips)) \/ (~running /\ Drained(q, chips))

LEMMA DrainLeaves ==
    ASSUME attempt \in [File -> Nat],
           NEW q \in Queue, NEW chips \in [File -> ChipState],
           NEW busy \in [File -> TransferState], \A g \in File : busy[g] = "none",
           Drain(q, chips, busy)
    PROVE  Drained(q, chips)
<1>1. CASE q = <<>>
  BY <1>1 DEF Drain, Drained, First
<1>2. CASE q # <<>>
  <2>1. Head(q) \in File
    BY <1>2, TailFacts
  <2>2. /\ chip' = [chips EXCEPT ![Head(q)] = IF @ = "none" THEN "none" ELSE "uploading"]
        /\ transfer' = [busy EXCEPT ![Head(q)] = "sent"]
        /\ attempt' = [attempt EXCEPT ![Head(q)] = @ + 1]
        /\ queue' = q /\ running' = (q # <<>>)
    BY <1>2 DEF Drain
  <2>3. transfer' \in [File -> TransferState] /\ chip' \in [File -> ChipState]
    BY <2>1, <2>2 DEF TransferState, ChipState
  <2>4. attempt' \in [File -> Nat]
    BY <2>1, <2>2
  <2> QED
    BY <1>2, <2>1, <2>2, <2>3, <2>4 DEF Drained, First
<1> QED
  BY <1>1, <1>2

LEMMA ResumeLeaves ==
    ASSUME Typed, OneTransfer,
           NEW q \in Queue, NEW chips \in [File -> ChipState], Resume(q, chips)
    PROVE  Goes(q, chips)
<1>1. CASE running
  BY <1>1 DEF Resume, Goes, Kept
<1>2. CASE ~running
  <2>1. Drain(q, chips, transfer)
    BY <1>2 DEF Resume
  <2>2. \A g \in File : transfer[g] = "none"
    BY <1>2 DEF OneTransfer
  <2>3. Drained(q, chips)
    BY <2>1, <2>2, DrainLeaves DEF Typed
  <2> QED
    BY <1>2, <2>3 DEF Goes
<1> QED
  BY <1>1, <1>2

LEMMA GoOnLeaves ==
    ASSUME Typed, OneTransfer, NEW f \in File, transfer[f] # "none", Behind(f) \in Queue,
           NEW chips \in [File -> ChipState], GoOn(f, chips)
    PROVE  done' = done \cup {f} /\ Drained(Behind(f), chips)
<1> DEFINE busy == [transfer EXCEPT ![f] = "none"]
<1>1. busy \in [File -> TransferState] /\ \A g \in File : busy[g] = "none"
  BY DEF Typed, OneTransfer, TransferState
<1>2. Drain(Behind(f), chips, busy)
  BY DEF GoOn
<1> HIDE DEF busy
<1> QED
  BY <1>1, <1>2, DrainLeaves DEF Typed, GoOn

LEMMA BehindFacts ==
    ASSUME queue \in Queue, Once(queue), NEW f \in File
    PROVE  /\ Behind(f) \in Queue /\ Once(Behind(f))
           /\ Range(Behind(f)) \subseteq Range(queue) /\ Range(queue) \subseteq Range(Behind(f)) \cup {f}
           /\ (Queued(f) => f = Head(queue)) => f \notin Range(Behind(f))
<1>1. CASE queue # <<>> /\ Head(queue) = f
  BY <1>1, TailFacts DEF Behind
<1>2. CASE ~(queue # <<>> /\ Head(queue) = f)
  <2>1. Behind(f) = queue
    BY <1>2 DEF Behind
  <2>2. Queued(f) => queue # <<>>
    BY RangeIs DEF Queued, Queue
  <2> QED
    BY <1>2, <2>1, <2>2 DEF Queued
<1> QED
  BY <1>1, <1>2

-----------------------------------------------------------------------------
(* What a step does to the queue.                                           *)

\* A file that was never given a chip is nowhere else.
Unpicked ==
    \A f \in File : pick[f] # "chip" =>
        chip[f] = "none" /\ transfer[f] = "none" /\ ~Queued(f) /\ f \notin done /\ f \notin removed

\* Removing a file takes its chip, which does not come back.
Gone == \A f \in removed : chip[f] = "none"

Waiting == Typed /\ Once(queue) /\ OneTransfer /\ Unpicked /\ Gone

With(f, c) == [chip EXCEPT ![f] = c]

Rests ==
    /\ UNCHANGED <<queue, running, attempt, chip, done, removed, overtaken>>
    /\ transfer' \in [File -> TransferState]
    /\ \A g \in File : \/ transfer'[g] = transfer[g]
                       \/ /\ transfer[g] = "sent" /\ transfer'[g] = "stored"
                          /\ row' = [row EXCEPT ![RowOf(g)] = "stored"]
Joins(f) ==
    /\ pick[f] # "chip" /\ pick' = [pick EXCEPT ![f] = "chip"]
    /\ Goes(Append(queue, f), With(f, "pending"))
    /\ UNCHANGED <<done, removed, overtaken>>
Ends(f) ==
    /\ transfer[f] # "none"
    /\ \E chips \in [File -> ChipState] :
          /\ chips = With(f, "none") \/ (chips = chip /\ (chip[f] = "none" \/ home[f] # active))
          /\ Drained(Behind(f), chips)
    /\ done' = done \cup {f} /\ removed' \subseteq removed
    /\ UNCHANGED overtaken
Fails(f) ==
    /\ transfer[f] # "none"
    /\ chip' = With(f, IF chip[f] = "none" THEN "none" ELSE "error")
    /\ queue' = Behind(f) /\ running' = FALSE
    /\ transfer' = [transfer EXCEPT ![f] = "none"] /\ faults' = faults + 1
    /\ UNCHANGED <<attempt, done, removed, overtaken>>
Retries(f) ==
    /\ chip[f] = "error"
    /\ \/ (f \in done \/ Queued(f)) /\ Kept(queue, With(f, "pending"))
       \/ f \notin done /\ ~Queued(f) /\ Goes(<<f>> \o queue, With(f, "pending"))
    /\ overtaken' = (overtaken \/ running)
    /\ UNCHANGED <<done, removed>>
Drops(f) ==
    /\ Goes(RemoveFirst(queue, f), With(f, "none"))
    /\ removed' \subseteq removed \cup {f} /\ chip[f] # "none"
    /\ UNCHANGED <<done, overtaken>>
Touches == Goes(queue, chip) /\ UNCHANGED <<done, removed, overtaken>>
Leaves == chip' = NoChips /\ UNCHANGED <<queue, running, transfer, attempt, done, removed, overtaken>>
Resets ==
    /\ chip' = NoChips /\ queue' = <<>> /\ done' = {}
    /\ UNCHANGED <<running, transfer, attempt, removed, overtaken>>

QueueMove ==
    \/ Rests \/ Touches \/ Leaves \/ Resets
    \/ \E f \in File : Joins(f) \/ Ends(f) \/ Fails(f) \/ Retries(f) \/ Drops(f)

LEMMA JoinLeaves ==
    ASSUME Waiting, NEW f \in File, NEW c, pick[f] # "chip", AddChip(f, c),
           UNCHANGED <<done, removed, overtaken>>
    PROVE  Joins(f)
<1>1. f \notin done /\ ~Queued(f)
  BY DEF Waiting, Unpicked
<1>2. Append(queue, f) \in Queue /\ With(f, "pending") \in [File -> ChipState]
  BY AppendFacts DEF Waiting, Typed, With, ChipState
<1>3. Resume(Append(queue, f), With(f, "pending"))
  BY <1>1 DEF AddChip, Enqueue, With
<1>4. Goes(Append(queue, f), With(f, "pending"))
  BY <1>2, <1>3, ResumeLeaves DEF Waiting
<1> QED
  BY <1>4 DEF Joins, AddChip

LEMMA QueueMoves ==
    ASSUME Waiting, [Next]_vars
    PROVE  QueueMove
<1> USE DEF Waiting
<1>r. ASSUME UNCHANGED <<queueVars, done, removed, overtaken>> PROVE QueueMove
  BY <1>r DEF QueueMove, Rests, queueVars, Typed
<1>1. CASE UNCHANGED vars
  BY <1>1, <1>r DEF vars, queueVars, history
<1>2. ASSUME NEW f \in File, Pick(f) PROVE QueueMove
  <2>1. pick[f] # "chip" /\ AddChip(f, active) /\ UNCHANGED <<done, removed, overtaken>>
    BY <1>2 DEF Pick, history
  <2> QED
    BY <2>1, JoinLeaves DEF QueueMove
<1>3. ASSUME NEW f \in File, PickInNewChat(f) \/ Created(f) PROVE QueueMove
  BY <1>3, <1>r DEF PickInNewChat, Created, history
<1>4. ASSUME NEW f \in File, PickGoesOn(f) PROVE QueueMove
  <2>1. CASE active = NoConversation
    BY <1>4, <1>r, <2>1 DEF PickGoesOn, history
  <2>2. CASE active # NoConversation
    <3>1. pick[f] # "chip" /\ AddChip(f, active) /\ UNCHANGED <<done, removed, overtaken>>
      BY <1>4, <2>2 DEF PickGoesOn, history
    <3> QED
      BY <3>1, JoinLeaves DEF QueueMove
  <2> QED
    BY <2>1, <2>2
<1>5. ASSUME NEW f \in File, Store(f) PROVE QueueMove
  <2>1. /\ transfer[f] = "sent" /\ transfer' = [transfer EXCEPT ![f] = "stored"]
        /\ row' = [row EXCEPT ![RowOf(f)] = "stored"]
        /\ UNCHANGED <<queue, running, attempt, chip, done, removed, overtaken>>
    BY <1>5 DEF Store, history
  <2>2. Rests
    BY <2>1 DEF Rests, Typed, TransferState
  <2> QED
    BY <2>2 DEF QueueMove
<1>6. ASSUME NEW f \in File, Uploaded(f) PROVE QueueMove
  <2>1. transfer[f] # "none" /\ Behind(f) \in Queue /\ UNCHANGED overtaken
    BY <1>6, BehindFacts DEF Uploaded, Typed
  <2>2. With(f, "none") \in [File -> ChipState] /\ chip \in [File -> ChipState]
    BY DEF Typed, With, ChipState
  <2>3. CASE f \in removed
    <3>1. GoOn(f, chip) /\ removed' \subseteq removed /\ chip[f] = "none"
      BY <1>6, <2>3 DEF Uploaded, UploadedInVain, Gone
    <3>2. done' = done \cup {f} /\ Drained(Behind(f), chip)
      BY <2>1, <2>2, <3>1, GoOnLeaves
    <3>3. Ends(f)
      BY <2>1, <2>2, <3>1, <3>2 DEF Ends
    <3> QED
      BY <3>3 DEF QueueMove
  <2>4. CASE f \notin removed /\ home[f] = active
    <3>1. GoOn(f, With(f, "none")) /\ removed' = removed
      BY <1>6, <2>4 DEF Uploaded, Adopt, With
    <3>2. done' = done \cup {f} /\ Drained(Behind(f), With(f, "none"))
      BY <2>1, <2>2, <3>1, GoOnLeaves
    <3>3. Ends(f)
      BY <2>1, <2>2, <3>1, <3>2 DEF Ends
    <3> QED
      BY <3>3 DEF QueueMove
  <2>5. CASE f \notin removed /\ home[f] # active
    <3>1. GoOn(f, chip) /\ removed' = removed
      BY <1>6, <2>5 DEF Uploaded, Adopt
    <3>2. done' = done \cup {f} /\ Drained(Behind(f), chip)
      BY <2>1, <2>2, <3>1, GoOnLeaves
    <3>3. Ends(f)
      BY <2>1, <2>2, <2>5, <3>1, <3>2 DEF Ends
    <3> QED
      BY <3>3 DEF QueueMove
  <2> QED
    BY <2>3, <2>4, <2>5
<1>7. ASSUME NEW f \in File, UploadFails(f) PROVE QueueMove
  <2>1. transfer[f] # "none" /\ Behind(f) \in Queue /\ UNCHANGED overtaken
    BY <1>7, BehindFacts DEF UploadFails, Typed, history
  <2>2. CASE f \in removed
    <3>1. GoOn(f, chip) /\ removed' \subseteq removed /\ chip[f] = "none" /\ chip \in [File -> ChipState]
      BY <1>7, <2>2 DEF UploadFails, Gone, Typed
    <3>2. done' = done \cup {f} /\ Drained(Behind(f), chip)
      BY <2>1, <3>1, GoOnLeaves
    <3>3. Ends(f)
      BY <2>1, <3>1, <3>2 DEF Ends
    <3> QED
      BY <3>3 DEF QueueMove
  <2>3. CASE f \notin removed
    <3>1. Fails(f)
      BY <1>7, <2>1, <2>3 DEF UploadFails, Fails, With, Typed, Fault
    <3> QED
      BY <3>1 DEF QueueMove
  <2> QED
    BY <2>2, <2>3
<1>8. ASSUME NEW f \in File, RetryUpload(f) PROVE QueueMove
  <2>1. chip[f] = "error" /\ overtaken' = (overtaken \/ running) /\ UNCHANGED <<done, removed>>
    BY <1>8 DEF RetryUpload
  <2>2. CASE f \in done \/ Queued(f)
    <3>1. Kept(queue, With(f, "pending"))
      BY <1>8, <2>2 DEF RetryUpload, Kept, With
    <3> QED
      BY <2>1, <2>2, <3>1 DEF QueueMove, Retries
  <2>3. CASE ~(f \in done \/ Queued(f))
    <3>1. Resume(<<f>> \o queue, With(f, "pending"))
      BY <1>8, <2>3 DEF RetryUpload, With
    <3>2. <<f>> \o queue \in Queue /\ With(f, "pending") \in [File -> ChipState]
      BY FrontFacts DEF Typed, With, ChipState
    <3>3. Goes(<<f>> \o queue, With(f, "pending"))
      BY <3>1, <3>2, ResumeLeaves
    <3> QED
      BY <2>1, <2>3, <3>3 DEF QueueMove, Retries
  <2> QED
    BY <2>2, <2>3
<1>9. ASSUME NEW f \in File, RemoveChip(f) PROVE QueueMove
  <2>1. Resume(RemoveFirst(queue, f), With(f, "none")) /\ chip[f] # "none"
        /\ removed' \subseteq removed \cup {f} /\ UNCHANGED <<done, overtaken>>
    BY <1>9 DEF RemoveChip, With, history
  <2>2. RemoveFirst(queue, f) \in Queue /\ With(f, "none") \in [File -> ChipState]
    BY RemoveFacts DEF Typed, With, ChipState
  <2>3. Goes(RemoveFirst(queue, f), With(f, "none"))
    BY <2>1, <2>2, ResumeLeaves
  <2> QED
    BY <2>1, <2>3 DEF QueueMove, Drops
<1>10. ASSUME NEW r \in Row, RemoveRowChip(r) PROVE QueueMove
  <2>1. Resume(queue, chip) /\ UNCHANGED <<done, removed, overtaken>>
    BY <1>10 DEF RemoveRowChip, history
  <2>2. Goes(queue, chip)
    BY <2>1, ResumeLeaves DEF Typed
  <2> QED
    BY <2>1, <2>2 DEF QueueMove, Touches
<1>11. ASSUME NEW r \in Row, DeleteRow(r) PROVE QueueMove
  BY <1>11, <1>r DEF DeleteRow, history
<1>12. ASSUME NEW l \in Load, NEW c \in Conversation, SelectConversation(c, l) PROVE QueueMove
  BY <1>12 DEF SelectConversation, QueueMove, Leaves, history
<1>13. ASSUME NEW l \in Load, ReadMessages(l) \/ LoadFiles(l) \/ ReadFiles(l) \/ RestoreChips(l) \/ TurnFails(l) PROVE QueueMove
  BY <1>13, <1>r DEF ReadMessages, LoadFiles, ReadFiles, RestoreChips, TurnFails, history
<1>14. CASE StartNewConversation
  BY <1>14 DEF StartNewConversation, QueueMove, Resets, history
<1>15. CASE SendFiles \/ CheckFiles \/ AcceptTurn \/ EndTurn
  BY <1>15, <1>r DEF SendFiles, CheckFiles, AcceptTurn, EndTurn, history
<1> QED
  BY <1>1, <1>2, <1>3, <1>4, <1>5, <1>6, <1>7, <1>8, <1>9, <1>10, <1>11, <1>12, <1>13, <1>14, <1>15 DEF Next

LEMMA DrainedLeaves ==
    ASSUME NEW q \in Queue, Once(q), NEW chips \in [File -> ChipState], Drained(q, chips)
    PROVE  /\ queue' \in Queue /\ Once(queue)' /\ running' \in BOOLEAN
           /\ chip' \in [File -> ChipState] /\ transfer' \in [File -> TransferState] /\ attempt' \in [File -> Nat]
           /\ OneTransfer'
           /\ \A g \in File : chip'[g] = "none" <=> chips[g] = "none"
           /\ \A g \in File : transfer'[g] # "none" => g \in Range(q)
           /\ queue' = q
<1>1. queue' = q /\ running' = (q # <<>>)
  BY DEF Drained
<1>2. \A g \in File : transfer'[g] # "none" <=> First(q, g)
  BY DEF Drained
<1>3. q # <<>> => Head(q) \in File /\ Head(q) \in Range(q)
  BY TailFacts
<1>4. OneTransfer'
  BY <1>1, <1>2, <1>3 DEF OneTransfer, First
<1>5. \A g \in File : chip'[g] = "none" <=> chips[g] = "none"
  BY DEF Drained
<1>6. Once(queue)'
  BY <1>1 DEF Once
<1> QED
  BY <1>1, <1>2, <1>3, <1>4, <1>5, <1>6 DEF Drained, First

LEMMA GoesLeaves ==
    ASSUME Waiting, NEW q \in Queue, Once(q), NEW chips \in [File -> ChipState], Goes(q, chips)
    PROVE  /\ queue' \in Queue /\ Once(queue)' /\ running' \in BOOLEAN
           /\ chip' \in [File -> ChipState] /\ transfer' \in [File -> TransferState] /\ attempt' \in [File -> Nat]
           /\ OneTransfer'
           /\ \A g \in File : chip'[g] = "none" <=> chips[g] = "none"
           /\ \A g \in File : transfer'[g] # "none" => transfer[g] # "none" \/ g \in Range(q)
           /\ queue' = q
<1>1. CASE running /\ Kept(q, chips)
  <2>1. queue' = q /\ chip' = chips /\ UNCHANGED <<running, transfer, attempt>>
    BY <1>1 DEF Kept
  <2>2. OneTransfer'
    BY <2>1 DEF Waiting, OneTransfer
  <2>3. Once(queue)'
    BY <2>1 DEF Once
  <2> QED
    BY <2>1, <2>2, <2>3 DEF Waiting, Typed
<1>2. CASE Drained(q, chips)
  BY <1>2, DrainedLeaves
<1> QED
  BY <1>1, <1>2 DEF Goes

\* The part of Waiting that is about the queue alone.
QueueFine ==
    /\ queue \in Queue /\ Once(queue) /\ running \in BOOLEAN
    /\ chip \in [File -> ChipState] /\ transfer \in [File -> TransferState] /\ attempt \in [File -> Nat]
    /\ OneTransfer
    /\ done \subseteq File /\ removed \subseteq File /\ overtaken \in BOOLEAN

\* A file is where it was; only Joins, Ends and Drops bring one anywhere new.
Stays(moved) ==
    \A g \in File \ moved :
        /\ chip[g] = "none" => chip'[g] = "none"
        /\ g \in Range(queue') => g \in Range(queue)
        /\ transfer'[g] # "none" => transfer[g] # "none" \/ g \in Range(queue)
        /\ g \in done' => g \in done
        /\ g \in removed' => g \in removed

LEMMA MovesAreFine ==
    ASSUME Waiting, QueueMove
    PROVE  /\ QueueFine'
           /\ Gone'
           /\ \/ Stays({})
              \/ \E f \in File : Stays({f}) /\ (transfer[f] # "none" \/ chip[f] # "none" \/ pick'[f] = "chip")
<1> DEFINE Goal == /\ QueueFine'
                   /\ Gone'
                   /\ \/ Stays({})
                      \/ \E f \in File : Stays({f}) /\ (transfer[f] # "none" \/ chip[f] # "none" \/ pick'[f] = "chip")
<1>t. /\ queue \in Queue /\ Once(queue) /\ running \in BOOLEAN /\ Gone
      /\ chip \in [File -> ChipState] /\ transfer \in [File -> TransferState] /\ attempt \in [File -> Nat]
      /\ OneTransfer
      /\ done \subseteq File /\ removed \subseteq File /\ overtaken \in BOOLEAN
  BY DEF Waiting, Typed
<1>w. ASSUME NEW f \in File, NEW c \in ChipState
      PROVE  /\ With(f, c) \in [File -> ChipState] /\ With(f, c)[f] = c
             /\ \A g \in File : g # f => With(f, c)[g] = chip[g]
  BY <1>t DEF With
<1>n. NoChips \in [File -> ChipState] /\ \A g \in File : NoChips[g] = "none"
  BY DEF NoChips, ChipState
<1>1. CASE Rests
  <2>1. OneTransfer'
    BY <1>1, <1>t DEF Rests, OneTransfer
  <2>2. Once(queue)'
    BY <1>1, <1>t DEF Rests, Once
  <2>3. QueueFine'
    BY <1>1, <1>t, <2>1, <2>2 DEF QueueFine, Rests
  <2>4. Gone' /\ Stays({})
    BY <1>1, <1>t DEF Rests, Gone, Stays
  <2> QED
    BY <2>3, <2>4
<1>2. CASE Touches
  <2>1. Goes(queue, chip) /\ UNCHANGED <<done, removed, overtaken>>
    BY <1>2 DEF Touches
  <2>2. QueueFine' /\ queue' = queue
    BY <1>t, <2>1, GoesLeaves DEF QueueFine
  <2>3. /\ \A g \in File : chip'[g] = "none" <=> chip[g] = "none"
        /\ \A g \in File : transfer'[g] # "none" => transfer[g] # "none" \/ g \in Range(queue)
    BY <1>t, <2>1, GoesLeaves
  <2>4. Gone' /\ Stays({})
    BY <1>t, <2>1, <2>2, <2>3 DEF Gone, Stays
  <2> QED
    BY <2>2, <2>4
<1>3. CASE Leaves
  <2>1. OneTransfer' /\ Once(queue)'
    BY <1>3, <1>t DEF Leaves, OneTransfer, Once
  <2>2. QueueFine'
    BY <1>3, <1>t, <1>n, <2>1 DEF QueueFine, Leaves
  <2>3. Gone' /\ Stays({})
    BY <1>3, <1>t, <1>n DEF Leaves, Gone, Stays
  <2> QED
    BY <2>2, <2>3
<1>4. CASE Resets
  <2>1. <<>> \in Queue /\ Range(<<>>) = {} /\ Once(<<>>)
    BY DEF Queue, Range, Once
  <2>2. OneTransfer' /\ Once(queue)'
    BY <1>4, <1>t, <2>1 DEF Resets, OneTransfer, Once
  <2>3. QueueFine'
    BY <1>4, <1>t, <1>n, <2>1, <2>2 DEF QueueFine, Resets
  <2>4. Gone' /\ Stays({})
    BY <1>4, <1>t, <1>n, <2>1 DEF Resets, Gone, Stays
  <2> QED
    BY <2>3, <2>4
<1>5. ASSUME NEW f \in File, Joins(f) PROVE Goal
  <2> DEFINE q == Append(queue, f)
             chips == With(f, "pending")
  <2>1. Goes(q, chips) /\ UNCHANGED <<done, removed, overtaken>> /\ pick'[f] = "chip"
        /\ f \notin Range(queue) /\ f \notin removed
    BY <1>5 DEF Joins, Waiting, Typed, Unpicked, Queued
  <2>2. q \in Queue /\ Once(q) /\ Range(q) = Range(queue) \cup {f}
    BY <1>t, <2>1, AppendFacts
  <2>3. chips \in [File -> ChipState] /\ \A g \in File : g # f => chips[g] = chip[g]
    BY <1>w DEF ChipState
  <2> HIDE DEF q, chips
  <2>4. QueueFine' /\ queue' = q
    BY <1>t, <2>1, <2>2, <2>3, GoesLeaves DEF QueueFine
  <2>5. /\ \A g \in File : chip'[g] = "none" <=> chips[g] = "none"
        /\ \A g \in File : transfer'[g] # "none" => transfer[g] # "none" \/ g \in Range(q)
    BY <2>1, <2>2, <2>3, GoesLeaves
  <2>6. Gone' /\ Stays({f})
    BY <1>t, <2>1, <2>2, <2>3, <2>4, <2>5 DEF Gone, Stays
  <2> QED
    BY <2>1, <2>4, <2>6
<1>6. ASSUME NEW f \in File, Ends(f) PROVE Goal
  <2>1. PICK chips \in [File -> ChipState] :
           /\ chips = With(f, "none") \/ (chips = chip /\ (chip[f] = "none" \/ home[f] # active))
           /\ Drained(Behind(f), chips)
    BY <1>6 DEF Ends
  <2>2. transfer[f] # "none" /\ done' = done \cup {f} /\ removed' \subseteq removed /\ UNCHANGED overtaken
    BY <1>6 DEF Ends
  <2>3. Behind(f) \in Queue /\ Once(Behind(f)) /\ Range(Behind(f)) \subseteq Range(queue)
    BY <1>t, BehindFacts
  <2>4. \A g \in File : chip[g] = "none" => chips[g] = "none"
    BY <1>w, <2>1 DEF ChipState
  <2>5. QueueFine' /\ queue' = Behind(f)
    BY <1>t, <2>1, <2>2, <2>3, DrainedLeaves DEF QueueFine
  <2>6. /\ \A g \in File : chip'[g] = "none" <=> chips[g] = "none"
        /\ \A g \in File : transfer'[g] # "none" => g \in Range(Behind(f))
    BY <2>1, <2>3, DrainedLeaves
  <2>7. Gone' /\ Stays({f})
    BY <1>t, <2>2, <2>3, <2>4, <2>5, <2>6 DEF Gone, Stays
  <2> QED
    BY <2>2, <2>5, <2>7
<1>7. ASSUME NEW f \in File, Fails(f) PROVE Goal
  <2>1. /\ transfer[f] # "none" /\ queue' = Behind(f) /\ running' = FALSE
        /\ transfer' = [transfer EXCEPT ![f] = "none"]
        /\ chip' = With(f, IF chip[f] = "none" THEN "none" ELSE "error")
        /\ UNCHANGED <<attempt, done, removed, overtaken>>
    BY <1>7 DEF Fails
  <2>2. Behind(f) \in Queue /\ Once(Behind(f)) /\ Range(Behind(f)) \subseteq Range(queue)
    BY <1>t, BehindFacts
  <2>3. chip' \in [File -> ChipState] /\ \A g \in File : chip[g] = "none" => chip'[g] = "none"
    <3> DEFINE c == IF chip[f] = "none" THEN "none" ELSE "error"
    <3>1. c \in ChipState /\ chip' = With(f, c) /\ (chip[f] = "none" => c = "none")
      BY <2>1 DEF ChipState
    <3> HIDE DEF c
    <3>2. chip' \in [File -> ChipState] /\ chip'[f] = c
      BY <1>w, <3>1
    <3>3. \A g \in File : g # f => chip'[g] = chip[g]
      BY <1>w, <3>1
    <3> QED
      BY <3>1, <3>2, <3>3
  <2>4. transfer' \in [File -> TransferState] /\ \A g \in File : transfer'[g] = "none"
    BY <1>t, <2>1 DEF OneTransfer, TransferState
  <2>5. OneTransfer' /\ Once(queue)'
    BY <2>1, <2>2, <2>4 DEF OneTransfer, Once
  <2>6. QueueFine'
    BY <1>t, <2>1, <2>2, <2>3, <2>4, <2>5 DEF QueueFine
  <2>7. Gone' /\ Stays({f})
    BY <1>t, <2>1, <2>2, <2>3, <2>4 DEF Gone, Stays
  <2> QED
    BY <2>1, <2>6, <2>7
<1>8. ASSUME NEW f \in File, Retries(f) PROVE Goal
  <2> DEFINE chips == With(f, "pending")
             q == <<f>> \o queue
  <2>1. chip[f] = "error" /\ overtaken' = (overtaken \/ running) /\ UNCHANGED <<done, removed>>
    BY <1>8 DEF Retries
  <2>2. chips \in [File -> ChipState] /\ \A g \in File : g # f => chips[g] = chip[g]
    BY <1>w DEF ChipState
  <2>o. overtaken' \in BOOLEAN /\ f \notin removed
    BY <1>t, <2>1 DEF Gone
  <2>3. CASE Kept(queue, chips)
    <3>1. queue' = queue /\ chip' = chips /\ UNCHANGED <<running, transfer, attempt>>
      BY <2>3 DEF Kept
    <3>2. OneTransfer' /\ Once(queue)'
      BY <1>t, <3>1 DEF OneTransfer, Once
    <3> HIDE DEF chips
    <3>3. QueueFine'
      BY <1>t, <2>1, <2>2, <2>o, <3>1, <3>2 DEF QueueFine
    <3>4. Gone' /\ Stays({f})
      BY <1>t, <2>1, <2>2, <2>o, <3>1 DEF Gone, Stays
    <3> QED
      BY <2>1, <3>3, <3>4
  <2>4. CASE f \notin done /\ ~Queued(f) /\ Goes(q, chips)
    <3>1. q \in Queue /\ Once(q) /\ Range(q) = Range(queue) \cup {f}
      BY <1>t, <2>4, FrontFacts DEF Queued
    <3> HIDE DEF q, chips
    <3>2. QueueFine' /\ queue' = q
      BY <1>t, <2>1, <2>2, <2>o, <2>4, <3>1, GoesLeaves DEF QueueFine
    <3>3. /\ \A g \in File : chip'[g] = "none" <=> chips[g] = "none"
          /\ \A g \in File : transfer'[g] # "none" => transfer[g] # "none" \/ g \in Range(q)
      BY <2>2, <2>4, <3>1, GoesLeaves
    <3>4. Gone' /\ Stays({f})
      BY <1>t, <2>1, <2>2, <2>o, <3>1, <3>2, <3>3 DEF Gone, Stays
    <3> QED
      BY <2>1, <3>2, <3>4
  <2> QED
    BY <1>8, <2>3, <2>4 DEF Retries
<1>9. ASSUME NEW f \in File, Drops(f) PROVE Goal
  <2> DEFINE q == RemoveFirst(queue, f)
             chips == With(f, "none")
  <2>1. Goes(q, chips) /\ removed' \subseteq removed \cup {f} /\ chip[f] # "none" /\ UNCHANGED <<done, overtaken>>
    BY <1>9 DEF Drops
  <2>2. q \in Queue /\ Once(q) /\ Range(q) \subseteq Range(queue)
    BY <1>t, RemoveFacts
  <2>3. chips \in [File -> ChipState] /\ chips[f] = "none" /\ \A g \in File : g # f => chips[g] = chip[g]
    BY <1>w DEF ChipState
  <2> HIDE DEF q, chips
  <2>4. QueueFine' /\ queue' = q
    BY <1>t, <2>1, <2>2, <2>3, GoesLeaves DEF QueueFine
  <2>5. /\ \A g \in File : chip'[g] = "none" <=> chips[g] = "none"
        /\ \A g \in File : transfer'[g] # "none" => transfer[g] # "none" \/ g \in Range(q)
    BY <2>1, <2>2, <2>3, GoesLeaves
  <2>6. Gone' /\ Stays({f})
    BY <1>t, <2>1, <2>2, <2>3, <2>4, <2>5 DEF Gone, Stays
  <2> QED
    BY <2>1, <2>4, <2>6
<1> QED
  BY <1>1, <1>2, <1>3, <1>4, <1>5, <1>6, <1>7, <1>8, <1>9 DEF QueueMove

-----------------------------------------------------------------------------
(* The rest of the state.                                                    *)

LEMMA AddsChip ==
    ASSUME Typed, NEW f \in File, NEW c \in Conversation \cup {NoConversation}, AddChip(f, c)
    PROVE  /\ pick' \in [File -> {"none", "creating", "created", "dropped", "chip"}]
           /\ home' \in [File -> Conversation \cup {NoConversation}]
           /\ \A g \in File : pick[g] = "chip" => pick'[g] = "chip"
<1>1. pick' = [pick EXCEPT ![f] = "chip"] /\ home' = [home EXCEPT ![f] = c]
  BY DEF AddChip
<1> QED
  BY <1>1 DEF Typed

LEMMA ScreenTypes ==
    ASSUME Typed, [Next]_vars
    PROVE  /\ active' \in Conversation \cup {NoConversation}
           /\ known' \subseteq Conversation
           /\ pick' \in [File -> {"none", "creating", "created", "dropped", "chip"}]
           /\ home' \in [File -> Conversation \cup {NoConversation}]
           /\ \A g \in File : pick[g] = "chip" => pick'[g] = "chip"
<1>t. /\ active \in Conversation \cup {NoConversation} /\ known \subseteq Conversation
      /\ pick \in [File -> {"none", "creating", "created", "dropped", "chip"}]
      /\ home \in [File -> Conversation \cup {NoConversation}]
  BY DEF Typed
<1>1. CASE UNCHANGED <<active, known, pick, home>>
  BY <1>1, <1>t
<1>2. ASSUME NEW f \in File, Pick(f) PROVE AddChip(f, active) /\ UNCHANGED <<active, known>>
  BY <1>2 DEF Pick
<1>3. ASSUME NEW f \in File, PickInNewChat(f)
      PROVE pick[f] = "none" /\ pick' = [pick EXCEPT ![f] = "creating"] /\ UNCHANGED <<active, known, home>>
  BY <1>3 DEF PickInNewChat
<1>4. ASSUME NEW f \in File, Created(f)
      PROVE /\ pick[f] = "creating" /\ pick' = [pick EXCEPT ![f] = "created"] /\ UNCHANGED home
            /\ \E c \in Conversation : known' = known \cup {c} /\ active' = c
  BY <1>4 DEF Created
<1>5. ASSUME NEW f \in File, PickGoesOn(f)
      PROVE /\ UNCHANGED <<active, known>>
            /\ \/ pick[f] = "created" /\ pick' = [pick EXCEPT ![f] = "dropped"] /\ UNCHANGED home
               \/ AddChip(f, active)
  BY <1>5 DEF PickGoesOn
<1>6. ASSUME NEW l \in Load, NEW c \in Conversation, SelectConversation(c, l)
      PROVE active' = c /\ UNCHANGED <<known, pick, home>>
  BY <1>6 DEF SelectConversation
<1>7. CASE StartNewConversation
  BY <1>7, <1>t DEF StartNewConversation
<1>8. ASSUME NEW f \in File, Store(f) \/ Uploaded(f) \/ UploadFails(f) \/ RetryUpload(f) \/ RemoveChip(f)
      PROVE UNCHANGED <<active, known, pick, home>>
  BY <1>8 DEF Store, Uploaded, UploadFails, RetryUpload, RemoveChip
<1>9. ASSUME NEW r \in Row, RemoveRowChip(r) \/ DeleteRow(r) PROVE UNCHANGED <<active, known, pick, home>>
  BY <1>9 DEF RemoveRowChip, DeleteRow
<1>10. ASSUME NEW l \in Load, ReadMessages(l) \/ LoadFiles(l) \/ ReadFiles(l) \/ RestoreChips(l) \/ TurnFails(l)
       PROVE UNCHANGED <<active, known, pick, home>>
  BY <1>10 DEF ReadMessages, LoadFiles, ReadFiles, RestoreChips, TurnFails
<1>11. SendFiles \/ CheckFiles \/ AcceptTurn \/ EndTurn => UNCHANGED <<active, known, pick, home>>
  BY DEF SendFiles, CheckFiles, AcceptTurn, EndTurn
<1>12. UNCHANGED vars => UNCHANGED <<active, known, pick, home>>
  BY DEF vars
<1>13. ASSUME NEW f \in File, Pick(f) \/ PickInNewChat(f) \/ Created(f) \/ PickGoesOn(f)
       PROVE  /\ active' \in Conversation \cup {NoConversation}
              /\ known' \subseteq Conversation
              /\ pick' \in [File -> {"none", "creating", "created", "dropped", "chip"}]
              /\ home' \in [File -> Conversation \cup {NoConversation}]
              /\ \A g \in File : pick[g] = "chip" => pick'[g] = "chip"
  <2>1. CASE Pick(f)
    BY <1>2, <1>t, <2>1, AddsChip
  <2>2. CASE PickInNewChat(f)
    BY <1>3, <1>t, <2>2
  <2>3. CASE Created(f)
    BY <1>4, <1>t, <2>3
  <2>4. CASE PickGoesOn(f)
    BY <1>5, <1>t, <2>4, AddsChip
  <2> QED
    BY <1>13, <2>1, <2>2, <2>3, <2>4
<1>14. ASSUME NEW l \in Load, NEW c \in Conversation, SelectConversation(c, l)
       PROVE  /\ active' \in Conversation \cup {NoConversation}
              /\ known' \subseteq Conversation
              /\ pick' \in [File -> {"none", "creating", "created", "dropped", "chip"}]
              /\ home' \in [File -> Conversation \cup {NoConversation}]
              /\ \A g \in File : pick[g] = "chip" => pick'[g] = "chip"
  BY <1>14, <1>6, <1>t
<1> QED
  BY <1>1, <1>7, <1>8, <1>9, <1>10, <1>11, <1>12, <1>13, <1>14 DEF Next

LEMMA FinishTypes ==
    ASSUME Typed, Finish
    PROVE  shown' \in [Row -> Nat] /\ \A r \in Row : shown'[r] > 0 => shown[r] > 0
BY DEF Typed, Finish, Shown

LEMMA StartLoadTypes ==
    ASSUME Typed, NEW l \in Load, NEW c \in Conversation \cup {NoConversation}, StartLoad(l, c)
    PROVE  /\ load' \in [Load -> LoadRecord]
           /\ \A k \in Load : load'[k].pc = "listed" => load'[k] = load[k]
<1> DEFINE fresh == [NoLoad EXCEPT !.pc = "messages", !.conversation = c]
<1>1. fresh \in LoadRecord /\ fresh.pc = "messages"
  BY DEF NoLoad, LoadRecord
<1>2. load' = [load EXCEPT ![l] = fresh]
  BY DEF StartLoad
<1> HIDE DEF fresh
<1> QED
  BY <1>1, <1>2 DEF Typed

LEMMA ServerTypes ==
    ASSUME Typed, [Next]_vars
    PROVE  /\ row' \in [Row -> {"none", "stored", "deleted"}]
           /\ used' \subseteq Row
           /\ load' \in [Load -> LoadRecord]
           /\ turn' \in TurnRecord
           /\ strayed' \in BOOLEAN
<1>t. /\ row \in [Row -> {"none", "stored", "deleted"}] /\ load \in [Load -> LoadRecord]
      /\ turn \in TurnRecord /\ strayed \in BOOLEAN
      /\ active \in Conversation \cup {NoConversation}
  BY DEF Typed
<1>0. CASE UNCHANGED vars
  BY <1>0 DEF Typed, vars, serverVars, history
<1>r. ASSUME NEW f \in File, Store(f) PROVE row' = [row EXCEPT ![RowOf(f)] = "stored"]
  BY <1>r DEF Store
<1>R. ASSUME Next PROVE row' \in [Row -> {"none", "stored", "deleted"}]
  <2>1. ASSUME NEW f \in File, Store(f) PROVE row' \in [Row -> {"none", "stored", "deleted"}]
    BY <1>r, <1>t, <2>1
  <2>2. ASSUME NEW f \in File, Pick(f) \/ PickInNewChat(f) \/ Created(f) \/ PickGoesOn(f) \/ Uploaded(f)
               \/ UploadFails(f) \/ RetryUpload(f) \/ RemoveChip(f)
        PROVE row' = row
    BY <2>2 DEF Pick, PickInNewChat, Created, PickGoesOn, Uploaded, UploadFails, RetryUpload, RemoveChip, serverVars
  <2>3. ASSUME NEW r \in Row, RemoveRowChip(r) PROVE row' = row
    BY <2>3 DEF RemoveRowChip, serverVars
  <2>4. ASSUME NEW r \in Row, DeleteRow(r) PROVE row' \in [Row -> {"none", "stored", "deleted"}]
    <3>1. row' = [row EXCEPT ![r] = IF @ = "stored" /\ r \notin used THEN "deleted" ELSE @]
      BY <2>4 DEF DeleteRow
    <3> QED
      BY <3>1, <1>t
  <2>5. ASSUME NEW l \in Load, (\E c \in Conversation : SelectConversation(c, l))
               \/ ReadMessages(l) \/ LoadFiles(l) \/ ReadFiles(l) \/ RestoreChips(l) \/ TurnFails(l)
        PROVE row' = row
    BY <2>5 DEF SelectConversation, ReadMessages, LoadFiles, ReadFiles, RestoreChips, TurnFails, serverVars
  <2>6. StartNewConversation \/ SendFiles \/ CheckFiles \/ AcceptTurn \/ EndTurn => row' = row
    BY DEF StartNewConversation, SendFiles, CheckFiles, AcceptTurn, EndTurn, serverVars
  <2> QED
    BY <1>R, <1>t, <2>1, <2>2, <2>3, <2>4, <2>5, <2>6 DEF Next
<1>U. ASSUME Next PROVE used' \subseteq Row
  <2>1. ASSUME AcceptTurn PROVE used' \subseteq Row
    BY <2>1 DEF AcceptTurn, Typed, TurnRecord
  <2>2. ASSUME NEW f \in File, Pick(f) \/ PickInNewChat(f) \/ Created(f) \/ PickGoesOn(f) \/ Store(f) \/ Uploaded(f)
               \/ UploadFails(f) \/ RetryUpload(f) \/ RemoveChip(f)
        PROVE used' = used
    BY <2>2 DEF Pick, PickInNewChat, Created, PickGoesOn, Store, Uploaded, UploadFails, RetryUpload, RemoveChip, serverVars
  <2>3. ASSUME NEW r \in Row, RemoveRowChip(r) \/ DeleteRow(r) PROVE used' = used
    BY <2>3 DEF RemoveRowChip, DeleteRow, serverVars
  <2>4. ASSUME NEW l \in Load, (\E c \in Conversation : SelectConversation(c, l))
               \/ ReadMessages(l) \/ LoadFiles(l) \/ ReadFiles(l) \/ RestoreChips(l) \/ TurnFails(l)
        PROVE used' = used
    BY <2>4 DEF SelectConversation, ReadMessages, LoadFiles, ReadFiles, RestoreChips, TurnFails, serverVars
  <2>5. StartNewConversation \/ SendFiles \/ CheckFiles \/ EndTurn => used' = used
    BY DEF StartNewConversation, SendFiles, CheckFiles, EndTurn, serverVars
  <2> QED
    BY <1>U, <2>1, <2>2, <2>3, <2>4, <2>5 DEF Next, Typed
<1>L. ASSUME Next PROVE load' \in [Load -> LoadRecord]
  <2>1. ASSUME NEW f \in File, Pick(f) \/ PickInNewChat(f) \/ Created(f) \/ PickGoesOn(f) \/ Store(f) \/ Uploaded(f)
               \/ UploadFails(f) \/ RetryUpload(f) \/ RemoveChip(f)
        PROVE load' = load
    BY <2>1 DEF Pick, PickInNewChat, Created, PickGoesOn, Store, Uploaded, UploadFails, RetryUpload, RemoveChip
  <2>2. ASSUME NEW r \in Row, RemoveRowChip(r) \/ DeleteRow(r) PROVE load' = load
    BY <2>2 DEF RemoveRowChip, DeleteRow
  <2>3. ASSUME NEW l \in Load, NEW c \in Conversation, SelectConversation(c, l) PROVE load' \in [Load -> LoadRecord]
    BY <2>3, StartLoadTypes DEF SelectConversation
  <2>i. NoLoad \in LoadRecord
    BY DEF NoLoad, LoadRecord
  <2>4. ASSUME NEW l \in Load, LoadFiles(l) PROVE load' \in [Load -> LoadRecord]
    <3>1. load' = [load EXCEPT ![l] = NoLoad] \/ load' = [load EXCEPT ![l].pc = "files", ![l].conversation = active]
      BY <2>4 DEF LoadFiles
    <3> QED
      BY <1>t, <2>i, <3>1 DEF LoadRecord
  <2>m. ASSUME NEW l \in Load, ReadMessages(l) PROVE load' \in [Load -> LoadRecord]
    <3> DEFINE some == {r \in used : home[FileOf(r)] = load[l].conversation}
    <3>1. load' = [load EXCEPT ![l].pc = "read", ![l].used = some] /\ some \in SUBSET Row
      BY <2>m DEF ReadMessages, Typed
    <3> HIDE DEF some
    <3> QED
      BY ZenonT(60), <1>t, <3>1 DEF LoadRecord
  <2>5. ASSUME NEW l \in Load, ReadFiles(l) PROVE load' \in [Load -> LoadRecord]
    <3> DEFINE rows == {r \in Row : row[r] = "stored" /\ home[FileOf(r)] = load[l].conversation}
    <3>1. load' = [load EXCEPT ![l].pc = "listed", ![l].rows = rows] /\ rows \in SUBSET Row
      BY <2>5 DEF ReadFiles
    <3> HIDE DEF rows
    <3> QED
      BY ZenonT(60), <1>t, <3>1 DEF LoadRecord
  <2>6. ASSUME NEW l \in Load, RestoreChips(l) PROVE load' \in [Load -> LoadRecord]
    BY <1>t, <2>i, <2>6 DEF RestoreChips
  <2>7. ASSUME NEW l \in Load, TurnFails(l) PROVE load' \in [Load -> LoadRecord]
    BY <1>t, <2>7, StartLoadTypes DEF TurnFails
  <2>8. StartNewConversation \/ SendFiles \/ CheckFiles \/ AcceptTurn \/ EndTurn => load' = load
    BY DEF StartNewConversation, SendFiles, CheckFiles, AcceptTurn, EndTurn
  <2> QED
    BY <1>L, <1>t, <2>1, <2>2, <2>3, <2>4, <2>m, <2>5, <2>6, <2>7, <2>8 DEF Next
<1>T. ASSUME Next PROVE turn' \in TurnRecord
  <2>1. ASSUME NEW f \in File, Pick(f) \/ PickInNewChat(f) \/ Created(f) \/ PickGoesOn(f) \/ Store(f) \/ Uploaded(f)
               \/ UploadFails(f) \/ RetryUpload(f) \/ RemoveChip(f)
        PROVE turn' = turn
    BY <2>1 DEF Pick, PickInNewChat, Created, PickGoesOn, Store, Uploaded, UploadFails, RetryUpload, RemoveChip
  <2>2. ASSUME NEW r \in Row, RemoveRowChip(r) \/ DeleteRow(r) PROVE turn' = turn
    BY <2>2 DEF RemoveRowChip, DeleteRow
  <2>3. ASSUME NEW l \in Load, NEW c \in Conversation, SelectConversation(c, l) PROVE turn' \in TurnRecord
    BY <1>t, <2>3 DEF SelectConversation, Detached, TurnRecord
  <2>4. ASSUME NEW l \in Load, ReadMessages(l) \/ LoadFiles(l) \/ ReadFiles(l) \/ RestoreChips(l) PROVE turn' = turn
    BY <2>4 DEF ReadMessages, LoadFiles, ReadFiles, RestoreChips
  <2>5. ASSUME StartNewConversation PROVE turn' \in TurnRecord
    BY <1>t, <2>5 DEF StartNewConversation, Detached, TurnRecord
  <2>6. ASSUME SendFiles PROVE turn' \in TurnRecord
    <3>1. PICK rows \in SUBSET Shown \ {{}} :
            turn' = [pc |-> "sent", rows |-> rows, conversation |-> active, attached |-> TRUE]
      BY <2>6 DEF SendFiles
    <3>2. rows \in SUBSET Row
      BY DEF Shown
    <3> QED
      BY <1>t, <3>1, <3>2 DEF TurnRecord
  <2>7. CheckFiles \/ AcceptTurn => turn' \in TurnRecord
    BY <1>t DEF CheckFiles, AcceptTurn, TurnRecord
  <2>8. EndTurn \/ (\E l \in Load : TurnFails(l)) => turn' \in TurnRecord
    BY <1>t DEF EndTurn, TurnFails, Detached, NoTurn, TurnRecord
  <2> QED
    BY <1>T, <1>t, <2>1, <2>2, <2>3, <2>4, <2>5, <2>6, <2>7, <2>8 DEF Next
<1>S. ASSUME Next PROVE strayed' \in BOOLEAN
  <2>1. ASSUME NEW f \in File, Created(f) PROVE strayed' \in BOOLEAN
    BY <1>t, <2>1 DEF Created
  <2>2. ASSUME NEW f \in File, Pick(f) \/ PickInNewChat(f) \/ PickGoesOn(f) \/ Store(f) \/ Uploaded(f)
               \/ UploadFails(f) \/ RetryUpload(f) \/ RemoveChip(f)
        PROVE strayed' = strayed
    BY <2>2 DEF Pick, PickInNewChat, PickGoesOn, Store, Uploaded, UploadFails, RetryUpload, RemoveChip, history
  <2>3. ASSUME NEW r \in Row, RemoveRowChip(r) \/ DeleteRow(r) PROVE strayed' = strayed
    BY <2>3 DEF RemoveRowChip, DeleteRow, history
  <2>4. ASSUME NEW l \in Load, (\E c \in Conversation : SelectConversation(c, l))
               \/ ReadMessages(l) \/ LoadFiles(l) \/ ReadFiles(l) \/ RestoreChips(l) \/ TurnFails(l)
        PROVE strayed' = strayed
    BY <2>4 DEF SelectConversation, ReadMessages, LoadFiles, ReadFiles, RestoreChips, TurnFails, history
  <2>5. StartNewConversation \/ SendFiles \/ CheckFiles \/ AcceptTurn \/ EndTurn => strayed' = strayed
    BY DEF StartNewConversation, SendFiles, CheckFiles, AcceptTurn, EndTurn, history
  <2> QED
    BY <1>S, <1>t, <2>1, <2>2, <2>3, <2>4, <2>5 DEF Next
<1> QED
  BY <1>0, <1>R, <1>U, <1>L, <1>T, <1>S

LEMMA ShownTypes ==
    ASSUME Typed, [Next]_vars
    PROVE  shown' \in [Row -> Nat]
<1>t. shown \in [Row -> Nat]
  BY DEF Typed
<1>1. CASE UNCHANGED vars
  BY <1>1, <1>t DEF vars
<1>2. ASSUME NEW f \in File, Pick(f) \/ PickInNewChat(f) \/ Created(f) \/ PickGoesOn(f) \/ Store(f)
             \/ UploadFails(f) \/ RetryUpload(f) \/ RemoveChip(f)
      PROVE shown' = shown
  BY <1>2 DEF Pick, PickInNewChat, Created, PickGoesOn, Store, UploadFails, RetryUpload, RemoveChip
<1>3. ASSUME NEW f \in File, Uploaded(f) PROVE shown' \in [Row -> Nat]
  BY <1>t, <1>3 DEF Uploaded, UploadedInVain, Adopt
<1>4. ASSUME NEW r \in Row, RemoveRowChip(r) \/ DeleteRow(r) PROVE shown' \in [Row -> Nat]
  BY <1>t, <1>4 DEF RemoveRowChip, DeleteRow
<1>5. ASSUME NEW l \in Load, NEW c \in Conversation, SelectConversation(c, l) PROVE shown' \in [Row -> Nat]
  BY <1>5 DEF SelectConversation, NothingShown
<1>6. ASSUME NEW l \in Load, ReadMessages(l) \/ LoadFiles(l) \/ ReadFiles(l) PROVE shown' = shown
  BY <1>6 DEF ReadMessages, LoadFiles, ReadFiles
<1>7. ASSUME NEW l \in Load, RestoreChips(l) PROVE shown' \in [Row -> Nat]
  BY <1>t, <1>7 DEF RestoreChips
<1>8. StartNewConversation => shown' \in [Row -> Nat]
  BY DEF StartNewConversation, NothingShown
<1>9. SendFiles \/ CheckFiles \/ AcceptTurn => shown' = shown
  BY DEF SendFiles, CheckFiles, AcceptTurn
<1>10. EndTurn \/ (\E l \in Load : TurnFails(l)) => shown' \in [Row -> Nat]
  BY FinishTypes DEF EndTurn, TurnFails
<1> QED
  BY <1>t, <1>1, <1>2, <1>3, <1>4, <1>5, <1>6, <1>7, <1>8, <1>9, <1>10 DEF Next

LEMMA WaitingInit == Init => Waiting
<1> SUFFICES ASSUME Init PROVE Waiting
  OBVIOUS
<1>q. <<>> \in Queue /\ Range(<<>>) = {} /\ Once(<<>>)
  BY DEF Queue, Range, Once
<1>l. NoLoad \in LoadRecord /\ NoTurn \in TurnRecord
  BY DEF NoLoad, LoadRecord, NoTurn, TurnRecord
<1>1. Typed
  BY <1>q, <1>l, ComposerAssumption DEF Init, Typed, ChipState, TransferState
<1>2. Once(queue) /\ Unpicked /\ Gone
  BY <1>q DEF Init, Unpicked, Gone, Queued
<1>3. OneTransfer
  BY DEF Init, OneTransfer
<1> QED
  BY <1>1, <1>2, <1>3 DEF Waiting

LEMMA WaitingStep ==
    ASSUME Waiting, [Next]_vars
    PROVE  Waiting'
<1>1. QueueMove
  BY QueueMoves
<1>2. QueueFine' /\ Gone'
  BY <1>1, MovesAreFine
<1>3. Typed
  BY DEF Waiting
<1>4. Typed'
  BY <1>2, <1>3, ScreenTypes, ServerTypes, ShownTypes DEF Typed, QueueFine
<1>5. \A g \in File : pick[g] = "chip" => pick'[g] = "chip"
  BY <1>3, ScreenTypes
<1>6. Unpicked'
  <2>1. \E moved \in SUBSET File : Stays(moved) /\ \A f \in moved : pick'[f] = "chip"
    <3>1. CASE Stays({})
      BY <3>1
    <3>2. CASE \E f \in File : Stays({f}) /\ (transfer[f] # "none" \/ chip[f] # "none" \/ pick'[f] = "chip")
      <4>1. PICK f \in File : Stays({f}) /\ (transfer[f] # "none" \/ chip[f] # "none" \/ pick'[f] = "chip")
        BY <3>2
      <4>2. pick'[f] = "chip"
        BY <1>5, <4>1 DEF Waiting, Unpicked
      <4> QED
        BY <4>1, <4>2
    <3> QED
      BY <1>1, <3>1, <3>2, MovesAreFine
  <2>2. PICK moved \in SUBSET File : Stays(moved) /\ \A f \in moved : pick'[f] = "chip"
    BY <2>1
  <2>3. ASSUME NEW g \in File, pick'[g] # "chip"
        PROVE  chip'[g] = "none" /\ transfer'[g] = "none" /\ g \notin Range(queue') /\ g \notin done' /\ g \notin removed'
    <3>1. pick[g] # "chip" /\ g \in File \ moved
      BY <1>5, <2>2, <2>3
    <3>2. chip[g] = "none" /\ transfer[g] = "none" /\ g \notin Range(queue) /\ g \notin done /\ g \notin removed
      BY <3>1 DEF Waiting, Unpicked, Queued
    <3> QED
      BY <2>2, <3>1, <3>2 DEF Stays
  <2> QED
    BY <2>3 DEF Unpicked, Queued
<1> QED
  BY <1>2, <1>4, <1>6 DEF Waiting, QueueFine

LEMMA AlwaysWaiting == Spec => []Waiting
BY WaitingInit, WaitingStep, PTL DEF Spec

\* uploadQueue.ts:4 "Files are transferred one at a time".
THEOREM OneUploadAtATime == Spec => []OneTransfer
<1>1. Waiting => OneTransfer
  BY DEF Waiting
<1> QED
  BY <1>1, AlwaysWaiting, PTL

-----------------------------------------------------------------------------
(* No file is sent again.                                                    *)

\* Until a retry goes ahead of it, the file in flight is the first of the
\* queue if it is there, and neither it nor a waiting one is recorded as done.
Recorded ==
    /\ \A f \in File : f \in Range(queue) => f \notin done
    /\ \A f \in File : transfer[f] # "none" => f \notin done /\ (f \in Range(queue) => First(queue, f))
InOrder == overtaken \/ Recorded
NoneSentTwice == \A f \in done' : attempt'[f] = attempt[f]

LEMMA DrainedInOrder ==
    ASSUME NEW q \in Queue, Once(q), NEW chips \in [File -> ChipState], Drained(q, chips),
           done' \subseteq File, \A g \in File : g \in Range(q) => g \notin done'
    PROVE  Recorded' /\ NoneSentTwice
<1>1. q # <<>> => Head(q) \in File /\ Head(q) \in Range(q)
  BY TailFacts
<1>2. queue' = q /\ \A g \in File : transfer'[g] # "none" => First(q, g)
  BY DEF Drained
<1>3. \A g \in File : ~First(q, g) => attempt'[g] = attempt[g]
  BY DEF Drained
<1>4. Recorded'
  BY <1>1, <1>2 DEF Recorded, First
<1>5. NoneSentTwice
  BY <1>1, <1>3 DEF NoneSentTwice, First
<1> QED
  BY <1>4, <1>5

LEMMA OrderStep ==
    ASSUME Waiting, InOrder, QueueMove
    PROVE  InOrder' /\ (overtaken \/ NoneSentTwice)
<1>t. /\ queue \in Queue /\ Once(queue) /\ running \in BOOLEAN
      /\ chip \in [File -> ChipState] /\ transfer \in [File -> TransferState] /\ attempt \in [File -> Nat]
      /\ OneTransfer /\ done \subseteq File /\ overtaken \in BOOLEAN
  BY DEF Waiting, Typed
<1>w. \A f \in File, c \in ChipState : With(f, c) \in [File -> ChipState]
  BY <1>t DEF With
<1>o. overtaken => overtaken'
  BY DEF QueueMove, Rests, Touches, Leaves, Resets, Joins, Ends, Fails, Retries, Drops
<1> SUFFICES ASSUME ~overtaken PROVE InOrder' /\ NoneSentTwice
  BY <1>o DEF InOrder
<1>r. Recorded
  BY DEF InOrder
<1> DEFINE Goal == InOrder' /\ NoneSentTwice
<1>1. CASE Rests
  <2>1. queue' = queue /\ done' = done /\ attempt' = attempt
        /\ \A g \in File : transfer'[g] = "none" <=> transfer[g] = "none"
    BY <1>1 DEF Rests
  <2> QED
    BY <1>r, <2>1 DEF Recorded, InOrder, NoneSentTwice, First
<1>k. ASSUME NEW q, NEW chips, Kept(q, chips), done' = done
      PROVE  queue' = q /\ NoneSentTwice /\ transfer' = transfer
  BY <1>k DEF Kept, NoneSentTwice
<1>2. CASE Touches
  <2>1. done' = done
    BY <1>2 DEF Touches
  <2>2. CASE Kept(queue, chip)
    BY <1>k, <1>r, <2>1, <2>2 DEF Recorded, InOrder, First
  <2>3. CASE Drained(queue, chip)
    <3>1. \A g \in File : g \in Range(queue) => g \notin done'
      BY <1>r, <2>1 DEF Recorded
    <3> QED
      BY <1>t, <2>1, <2>3, <3>1, DrainedInOrder DEF InOrder
  <2> QED
    BY <1>2, <2>2, <2>3 DEF Touches, Goes
<1>3. CASE Leaves
  BY <1>3, <1>r DEF Leaves, Recorded, InOrder, NoneSentTwice, First
<1>4. CASE Resets
  <2>1. Range(<<>>) = {}
    BY DEF Range
  <2> QED
    BY <1>4, <2>1 DEF Resets, Recorded, InOrder, NoneSentTwice
<1>5. ASSUME NEW f \in File, Joins(f) PROVE Goal
  <2> DEFINE q == Append(queue, f)
             chips == With(f, "pending")
  <2>1. Goes(q, chips) /\ done' = done
        /\ f \notin Range(queue) /\ f \notin done /\ transfer[f] = "none"
    BY <1>5 DEF Joins, Waiting, Typed, Unpicked, Queued
  <2>2. q \in Queue /\ Once(q) /\ Range(q) = Range(queue) \cup {f} /\ q # <<>>
        /\ Head(q) = IF queue = <<>> THEN f ELSE Head(queue)
    BY <1>t, <2>1, AppendFacts
  <2>3. chips \in [File -> ChipState]
    BY <1>w DEF ChipState
  <2> HIDE DEF q, chips
  <2>4. \A g \in File : g \in Range(q) => g \notin done'
    BY <1>r, <2>1, <2>2 DEF Recorded
  <2>5. CASE Kept(q, chips)
    <3>1. queue' = q /\ NoneSentTwice /\ transfer' = transfer
      BY <1>k, <2>1, <2>5
    <3>2. \A g \in File : transfer[g] # "none" => g \notin done' /\ (g \in Range(q) => First(q, g))
      BY <1>r, <2>1, <2>2 DEF Recorded, First
    <3> QED
      BY <2>4, <3>1, <3>2 DEF Recorded, InOrder
  <2>6. CASE Drained(q, chips)
    BY <1>t, <2>1, <2>2, <2>3, <2>4, <2>6, DrainedInOrder DEF InOrder
  <2> QED
    BY <2>1, <2>5, <2>6 DEF Goes
<1>6. ASSUME NEW f \in File, Ends(f) PROVE Goal
  <2>1. PICK chips \in [File -> ChipState] : Drained(Behind(f), chips)
    BY <1>6 DEF Ends
  <2>2. transfer[f] # "none" /\ done' = done \cup {f}
    BY <1>6 DEF Ends
  <2>3. Queued(f) => f = Head(queue)
    BY <1>r, <2>2 DEF Recorded, First, Queued
  <2>4. Behind(f) \in Queue /\ Once(Behind(f)) /\ Range(Behind(f)) \subseteq Range(queue) /\ f \notin Range(Behind(f))
    BY <1>t, <2>3, BehindFacts
  <2>5. \A g \in File : g \in Range(Behind(f)) => g \notin done'
    BY <1>r, <2>2, <2>4 DEF Recorded
  <2>6. done' \subseteq File
    BY <1>t, <2>2
  <2> QED
    BY <2>1, <2>4, <2>5, <2>6, DrainedInOrder DEF InOrder
<1>7. ASSUME NEW f \in File, Fails(f) PROVE Goal
  <2>1. queue' = Behind(f) /\ transfer' = [transfer EXCEPT ![f] = "none"] /\ UNCHANGED <<attempt, done>>
        /\ transfer[f] # "none"
    BY <1>7 DEF Fails
  <2>2. Range(Behind(f)) \subseteq Range(queue)
    BY <1>t, BehindFacts
  <2>3. \A g \in File : transfer'[g] = "none"
    BY <1>t, <2>1 DEF OneTransfer
  <2> QED
    BY <1>r, <2>1, <2>2, <2>3 DEF Recorded, InOrder, NoneSentTwice
<1>8. ASSUME NEW f \in File, Retries(f) PROVE Goal
  <2> DEFINE chips == With(f, "pending")
             q == <<f>> \o queue
  <2>1. overtaken' = (overtaken \/ running) /\ done' = done
    BY <1>8 DEF Retries
  <2>c. chips \in [File -> ChipState]
    BY <1>w DEF ChipState
  <2>2. CASE Kept(queue, chips)
    BY <1>k, <1>r, <2>1, <2>2 DEF Recorded, InOrder, First
  <2>3. CASE f \notin done /\ ~Queued(f) /\ running /\ Kept(q, chips)
    BY <1>k, <2>1, <2>3 DEF InOrder
  <2>4. CASE f \notin done /\ ~Queued(f) /\ Drained(q, chips)
    <3>1. q \in Queue /\ Once(q) /\ Range(q) = Range(queue) \cup {f}
      BY <1>t, <2>4, FrontFacts DEF Queued
    <3> HIDE DEF q, chips
    <3>2. \A g \in File : g \in Range(q) => g \notin done'
      BY <1>r, <2>1, <2>4, <3>1 DEF Recorded
    <3> QED
      BY <1>t, <2>1, <2>c, <2>4, <3>1, <3>2, DrainedInOrder DEF InOrder
  <2> QED
    BY <1>8, <2>2, <2>3, <2>4 DEF Retries, Goes
<1>9. ASSUME NEW f \in File, Drops(f) PROVE Goal
  <2> DEFINE q == RemoveFirst(queue, f)
             chips == With(f, "none")
  <2>1. Goes(q, chips) /\ done' = done
    BY <1>9 DEF Drops
  <2>2. q \in Queue /\ Once(q) /\ Range(q) \subseteq Range(queue) /\ f \notin Range(q)
        /\ (queue # <<>> /\ Head(queue) # f => q # <<>> /\ Head(q) = Head(queue))
    BY <1>t, RemoveFacts
  <2>3. chips \in [File -> ChipState]
    BY <1>w DEF ChipState
  <2> HIDE DEF q, chips
  <2>4. \A g \in File : g \in Range(q) => g \notin done'
    BY <1>r, <2>1, <2>2 DEF Recorded
  <2>5. CASE Kept(q, chips)
    <3>1. queue' = q /\ NoneSentTwice /\ transfer' = transfer
      BY <1>k, <2>1, <2>5
    <3>2. \A g \in File : transfer[g] # "none" => g \notin done' /\ (g \in Range(q) => First(q, g))
      BY <1>r, <2>1, <2>2 DEF Recorded, First
    <3> QED
      BY <2>4, <3>1, <3>2 DEF Recorded, InOrder
  <2>6. CASE Drained(q, chips)
    BY <1>t, <2>1, <2>2, <2>3, <2>4, <2>6, DrainedInOrder DEF InOrder
  <2> QED
    BY <2>1, <2>5, <2>6 DEF Goes
<1> QED
  BY <1>1, <1>2, <1>3, <1>4, <1>5, <1>6, <1>7, <1>8, <1>9 DEF QueueMove

LEMMA AlwaysInOrder == Spec => []InOrder
<1>1. Init => InOrder
  <2>1. Range(<<>>) = {}
    BY DEF Range
  <2> QED
    BY <2>1 DEF Init, InOrder, Recorded
<1>2. Waiting /\ InOrder /\ [Next]_vars => InOrder'
  BY QueueMoves, OrderStep
<1> QED
  BY <1>1, <1>2, AlwaysWaiting, PTL DEF Spec

\* uploadQueue.ts:12 "Ids that uploaded successfully are remembered, so no
\* file is ever transferred twice".
THEOREM EachSentOnce == Spec => NeverSentTwice
<1>1. Waiting /\ InOrder /\ [Next]_vars => [overtaken \/ \A f \in done' : attempt'[f] = attempt[f]]_vars
  BY QueueMoves, OrderStep DEF NoneSentTwice
<1> QED
  BY <1>1, AlwaysWaiting, AlwaysInOrder, PTL DEF Spec, NeverSentTwice

-----------------------------------------------------------------------------
(* Chips belong to the open conversation.                                    *)

\* A file without a chip ever has no row; one that had is of a conversation;
\* and a load has listed rows of the conversation it is for.
Belongs ==
    /\ \A r \in Row : pick[FileOf(r)] # "chip" => row[r] = "none" /\ shown[r] = 0
    /\ \A f \in File : pick[f] = "chip" => home[f] \in Conversation
    /\ \A l \in Load : load[l].pc = "listed" =>
          \A r \in load[l].rows : pick[FileOf(r)] = "chip" /\ home[FileOf(r)] = load[l].conversation

LEMMA FileOfRow == \A r \in Row : FileOf(r) \in File
BY DEF Row, FileOf

LEMMA HomesStay ==
    ASSUME Typed, [Next]_vars
    PROVE  \A g \in File : \/ pick'[g] = pick[g] /\ home'[g] = home[g]
                           \/ pick[g] # "chip" /\ pick'[g] # "chip" /\ home'[g] = home[g]
                           \/ pick[g] # "chip" /\ pick'[g] = "chip" /\ home'[g] = active /\ active # NoConversation
<1> DEFINE Goal == \A g \in File : \/ pick'[g] = pick[g] /\ home'[g] = home[g]
                                   \/ pick[g] # "chip" /\ pick'[g] # "chip" /\ home'[g] = home[g]
                                   \/ pick[g] # "chip" /\ pick'[g] = "chip" /\ home'[g] = active /\ active # NoConversation
<1>t. /\ pick \in [File -> {"none", "creating", "created", "dropped", "chip"}]
      /\ home \in [File -> Conversation \cup {NoConversation}]
  BY DEF Typed
<1>1. CASE UNCHANGED <<pick, home>>
  BY <1>1
<1>2. ASSUME NEW f \in File, pick[f] # "chip", active # NoConversation, AddChip(f, active) PROVE Goal
  BY <1>t, <1>2 DEF AddChip
<1>3. ASSUME NEW f \in File, NEW c \in {"creating", "created", "dropped"}, pick[f] # "chip",
             pick' = [pick EXCEPT ![f] = c], home' = home
      PROVE  Goal
  BY <1>t, <1>3
<1>4. ASSUME NEW f \in File, Pick(f) PROVE Goal
  BY <1>2, <1>4 DEF Pick
<1>5. ASSUME NEW f \in File, PickInNewChat(f) \/ Created(f) PROVE Goal
  BY <1>3, <1>5 DEF PickInNewChat, Created
<1>6. ASSUME NEW f \in File, PickGoesOn(f) PROVE Goal
  BY <1>2, <1>3, <1>6 DEF PickGoesOn
<1>7. ASSUME NEW f \in File, Store(f) \/ Uploaded(f) \/ UploadFails(f) \/ RetryUpload(f) \/ RemoveChip(f)
      PROVE UNCHANGED <<pick, home>>
  BY <1>7 DEF Store, Uploaded, UploadFails, RetryUpload, RemoveChip
<1>8. ASSUME NEW r \in Row, RemoveRowChip(r) \/ DeleteRow(r) PROVE UNCHANGED <<pick, home>>
  BY <1>8 DEF RemoveRowChip, DeleteRow
<1>9. ASSUME NEW l \in Load, (\E c \in Conversation : SelectConversation(c, l))
             \/ ReadMessages(l) \/ LoadFiles(l) \/ ReadFiles(l) \/ RestoreChips(l) \/ TurnFails(l)
      PROVE UNCHANGED <<pick, home>>
  BY <1>9 DEF SelectConversation, ReadMessages, LoadFiles, ReadFiles, RestoreChips, TurnFails
<1>10. StartNewConversation \/ SendFiles \/ CheckFiles \/ AcceptTurn \/ EndTurn => UNCHANGED <<pick, home>>
  BY DEF StartNewConversation, SendFiles, CheckFiles, AcceptTurn, EndTurn
<1>11. UNCHANGED vars => UNCHANGED <<pick, home>>
  BY DEF vars
<1> QED
  BY <1>1, <1>4, <1>5, <1>6, <1>7, <1>8, <1>9, <1>10, <1>11 DEF Next

LEMMA RowsAppear ==
    ASSUME Waiting, [Next]_vars
    PROVE  \A r \in Row : row'[r] # "none" => row[r] # "none" \/ pick[FileOf(r)] = "chip"
<1>t. row \in [Row -> {"none", "stored", "deleted"}]
  BY DEF Waiting, Typed
<1>1. ASSUME NEW f \in File, Store(f), NEW r \in Row, row'[r] # "none"
      PROVE  row[r] # "none" \/ pick[FileOf(r)] = "chip"
  <2>1. pick[f] = "chip" /\ row' = [row EXCEPT ![RowOf(f)] = "stored"]
    BY <1>1 DEF Store, Waiting, Unpicked
  <2>2. r = RowOf(f) => FileOf(r) = f
    BY DEF RowOf, FileOf
  <2> QED
    BY <1>t, <1>1, <2>1, <2>2
<1>2. ASSUME NEW f \in File, Pick(f) \/ PickInNewChat(f) \/ Created(f) \/ PickGoesOn(f) \/ Uploaded(f)
             \/ UploadFails(f) \/ RetryUpload(f) \/ RemoveChip(f)
      PROVE row' = row
  BY <1>2 DEF Pick, PickInNewChat, Created, PickGoesOn, Uploaded, UploadFails, RetryUpload, RemoveChip, serverVars
<1>3. ASSUME NEW s \in Row, RemoveRowChip(s) PROVE row' = row
  BY <1>3 DEF RemoveRowChip, serverVars
<1>4. ASSUME NEW s \in Row, DeleteRow(s), NEW r \in Row, row'[r] # "none" PROVE row[r] # "none"
  <2>1. row' = [row EXCEPT ![s] = IF @ = "stored" /\ s \notin used THEN "deleted" ELSE @]
    BY <1>4 DEF DeleteRow
  <2> QED
    BY <1>t, <1>4, <2>1
<1>5. ASSUME NEW l \in Load, (\E c \in Conversation : SelectConversation(c, l))
             \/ ReadMessages(l) \/ LoadFiles(l) \/ ReadFiles(l) \/ RestoreChips(l) \/ TurnFails(l)
      PROVE row' = row
  BY <1>5 DEF SelectConversation, ReadMessages, LoadFiles, ReadFiles, RestoreChips, TurnFails, serverVars
<1>6. StartNewConversation \/ SendFiles \/ CheckFiles \/ AcceptTurn \/ EndTurn => row' = row
  BY DEF StartNewConversation, SendFiles, CheckFiles, AcceptTurn, EndTurn, serverVars
<1>7. UNCHANGED vars => row' = row
  BY DEF vars, serverVars
<1> QED
  BY <1>1, <1>2, <1>3, <1>4, <1>5, <1>6, <1>7 DEF Next

\* Rows come to a list in ReadFiles only.
LEMMA ListsAppear ==
    ASSUME Typed, [Next]_vars, NEW l \in Load, load'[l].pc = "listed"
    PROVE  \/ load'[l] = load[l]
           \/ \A r \in load'[l].rows : r \in Row /\ row[r] = "stored" /\ home[FileOf(r)] = load'[l].conversation
<1> DEFINE Goal == \/ load'[l] = load[l]
                   \/ \A r \in load'[l].rows : r \in Row /\ row[r] = "stored" /\ home[FileOf(r)] = load'[l].conversation
<1>t. load \in [Load -> LoadRecord] /\ active \in Conversation \cup {NoConversation}
  BY DEF Typed
<1>1. ASSUME NEW f \in File, Pick(f) \/ PickInNewChat(f) \/ Created(f) \/ PickGoesOn(f) \/ Store(f) \/ Uploaded(f)
             \/ UploadFails(f) \/ RetryUpload(f) \/ RemoveChip(f)
      PROVE load' = load
  BY <1>1 DEF Pick, PickInNewChat, Created, PickGoesOn, Store, Uploaded, UploadFails, RetryUpload, RemoveChip
<1>2. ASSUME NEW r \in Row, RemoveRowChip(r) \/ DeleteRow(r) PROVE load' = load
  BY <1>2 DEF RemoveRowChip, DeleteRow
<1>3. ASSUME NEW k \in Load, NEW c \in Conversation, SelectConversation(c, k) PROVE load'[l] = load[l]
  BY <1>3, StartLoadTypes DEF SelectConversation
<1>4. ASSUME NEW k \in Load, TurnFails(k) PROVE load'[l] = load[l]
  BY <1>t, <1>4, StartLoadTypes DEF TurnFails
<1>5. ASSUME NEW k \in Load, LoadFiles(k) PROVE load'[l] = load[l]
  BY <1>t, <1>5 DEF LoadFiles, NoLoad, LoadRecord
<1>m. ASSUME NEW k \in Load, ReadMessages(k) PROVE load'[l] = load[l]
  BY <1>t, <1>m DEF ReadMessages, LoadRecord
<1>6. ASSUME NEW k \in Load, RestoreChips(k) PROVE load'[l] = load[l]
  BY <1>t, <1>6 DEF RestoreChips, NoLoad
<1>7. ASSUME NEW k \in Load, ReadFiles(k) PROVE Goal
  <2> DEFINE rows == {r \in Row : row[r] = "stored" /\ home[FileOf(r)] = load[k].conversation}
  <2>1. load' = [load EXCEPT ![k].pc = "listed", ![k].rows = rows]
    BY <1>7 DEF ReadFiles
  <2> HIDE DEF rows
  <2>2. k # l => load'[l] = load[l]
    BY <1>t, <2>1
  <2>3. k = l => load'[l].rows = rows /\ load'[l].conversation = load[k].conversation
    BY <1>t, <2>1 DEF LoadRecord
  <2> QED
    BY <2>2, <2>3 DEF rows
<1>8. StartNewConversation \/ SendFiles \/ CheckFiles \/ AcceptTurn \/ EndTurn => load' = load
  BY DEF StartNewConversation, SendFiles, CheckFiles, AcceptTurn, EndTurn
<1>9. UNCHANGED vars => load' = load
  BY DEF vars
<1> QED
  BY <1>1, <1>2, <1>3, <1>4, <1>5, <1>m, <1>6, <1>7, <1>8, <1>9 DEF Next

\* A row's chip appears when its upload ends in its own conversation, or with
\* a list of the open one.
LEMMA RowChipsAppear ==
    ASSUME Waiting, Belongs, [Next]_vars, NEW r \in Row, shown'[r] > 0
    PROVE  shown[r] > 0 \/ (pick[FileOf(r)] = "chip" /\ home[FileOf(r)] = active)
<1> DEFINE Goal == shown[r] > 0 \/ (pick[FileOf(r)] = "chip" /\ home[FileOf(r)] = active)
<1>t. shown \in [Row -> Nat]
  BY DEF Waiting, Typed
<1>1. UNCHANGED vars => shown' = shown
  BY DEF vars
<1>2. ASSUME NEW f \in File, Pick(f) \/ PickInNewChat(f) \/ Created(f) \/ PickGoesOn(f) \/ Store(f)
             \/ UploadFails(f) \/ RetryUpload(f) \/ RemoveChip(f)
      PROVE shown' = shown
  BY <1>2 DEF Pick, PickInNewChat, Created, PickGoesOn, Store, UploadFails, RetryUpload, RemoveChip
<1>3. ASSUME NEW f \in File, Uploaded(f) PROVE Goal
  <2>1. pick[f] = "chip"
    BY <1>3 DEF Uploaded, Waiting, Unpicked
  <2>2. shown' = shown \/ (home[f] = active /\ shown' = [shown EXCEPT ![RowOf(f)] = @ + 1])
    BY <1>3 DEF Uploaded, UploadedInVain, Adopt
  <2>3. r = RowOf(f) => FileOf(r) = f
    BY DEF RowOf, FileOf
  <2> QED
    BY <1>t, <2>1, <2>2, <2>3
<1>4. ASSUME NEW s \in Row, RemoveRowChip(s) \/ DeleteRow(s) PROVE Goal
  BY <1>t, <1>4 DEF RemoveRowChip, DeleteRow
<1>5. ASSUME NEW l \in Load, NEW c \in Conversation, SelectConversation(c, l) PROVE Goal
  BY <1>5 DEF SelectConversation, NothingShown
<1>6. ASSUME NEW l \in Load, ReadMessages(l) \/ LoadFiles(l) \/ ReadFiles(l) PROVE shown' = shown
  BY <1>6 DEF ReadMessages, LoadFiles, ReadFiles
<1>7. ASSUME NEW l \in Load, RestoreChips(l) PROVE Goal
  BY <1>t, <1>7 DEF RestoreChips, Belongs
<1>8. StartNewConversation => Goal
  BY DEF StartNewConversation, NothingShown
<1>9. SendFiles \/ CheckFiles \/ AcceptTurn => shown' = shown
  BY DEF SendFiles, CheckFiles, AcceptTurn
<1>10. EndTurn \/ (\E l \in Load : TurnFails(l)) => Goal
  BY FinishTypes DEF EndTurn, TurnFails, Waiting
<1> QED
  BY <1>1, <1>2, <1>3, <1>4, <1>5, <1>6, <1>7, <1>8, <1>9, <1>10 DEF Next

\* A file's chip appears when it is picked.
LEMMA ChipsAppear ==
    ASSUME Waiting, QueueMove, NEW g \in File, chip'[g] # "none"
    PROVE  chip[g] # "none" \/ (pick[g] # "chip" /\ pick'[g] = "chip")
<1> DEFINE Goal == chip[g] # "none" \/ (pick[g] # "chip" /\ pick'[g] = "chip")
<1>t. /\ queue \in Queue /\ Once(queue) /\ chip \in [File -> ChipState]
      /\ pick \in [File -> {"none", "creating", "created", "dropped", "chip"}]
  BY DEF Waiting, Typed
<1>w. ASSUME NEW f \in File, NEW c \in ChipState
      PROVE  /\ With(f, c) \in [File -> ChipState] /\ With(f, c)[f] = c
             /\ \A h \in File : h # f => With(f, c)[h] = chip[h]
  BY <1>t DEF With
<1>d. ASSUME NEW q \in Queue, Once(q), NEW chips \in [File -> ChipState], Goes(q, chips) PROVE chips[g] # "none"
  BY <1>d, GoesLeaves
<1>1. Rests => Goal
  BY DEF Rests
<1>2. Touches => Goal
  BY <1>t, <1>d DEF Touches
<1>3. ~Leaves /\ ~Resets
  BY DEF Leaves, Resets, NoChips
<1>5. ASSUME NEW f \in File, Joins(f) PROVE Goal
  <2>1. Append(queue, f) \in Queue /\ Once(Append(queue, f))
    BY <1>t, <1>5, AppendFacts DEF Joins, Waiting, Unpicked, Queued
  <2>2. With(f, "pending")[g] # "none"
    BY <1>d, <1>w, <1>5, <2>1 DEF Joins, ChipState
  <2>3. g # f => chip[g] # "none"
    BY <1>w, <2>2 DEF ChipState
  <2>4. pick[f] # "chip" /\ pick'[f] = "chip"
    BY <1>t, <1>5 DEF Joins
  <2> QED
    BY <2>3, <2>4
<1>6. ASSUME NEW f \in File, Ends(f) PROVE Goal
  <2>1. PICK chips \in [File -> ChipState] :
           (chips = With(f, "none") \/ chips = chip) /\ Drained(Behind(f), chips)
    BY <1>6 DEF Ends
  <2>2. chips[g] # "none"
    BY <1>t, <2>1, BehindFacts, DrainedLeaves
  <2> QED
    BY <1>w, <2>1, <2>2 DEF ChipState
<1>7. ASSUME NEW f \in File, Fails(f) PROVE Goal
  BY <1>t, <1>7 DEF Fails, With
<1>8. ASSUME NEW f \in File, Retries(f) PROVE Goal
  <2>1. chip[f] = "error" /\ With(f, "pending") \in [File -> ChipState]
    BY <1>w, <1>8 DEF Retries, ChipState
  <2>2. g # f => With(f, "pending")[g] = chip[g]
    BY <1>w DEF ChipState
  <2>3. CASE Kept(queue, With(f, "pending"))
    BY <2>1, <2>2, <2>3 DEF Kept
  <2>4. CASE ~Queued(f) /\ Goes(<<f>> \o queue, With(f, "pending"))
    <3>1. With(f, "pending")[g] # "none"
      BY <1>t, <1>d, <2>1, <2>4, FrontFacts DEF Queued
    <3> QED
      BY <2>1, <2>2, <3>1
  <2> QED
    BY <1>8, <2>3, <2>4 DEF Retries
<1>9. ASSUME NEW f \in File, Drops(f) PROVE Goal
  <2>1. With(f, "none") \in [File -> ChipState] /\ With(f, "none")[f] = "none"
    BY <1>w DEF ChipState
  <2>2. With(f, "none")[g] # "none"
    BY <1>t, <1>d, <1>9, <2>1, RemoveFacts DEF Drops
  <2> QED
    BY <1>w, <2>1, <2>2 DEF ChipState
<1> QED
  BY <1>1, <1>2, <1>3, <1>5, <1>6, <1>7, <1>8, <1>9 DEF QueueMove

\* Another conversation is opened with an empty composer, or by creating one.
LEMMA OpensEmpty ==
    ASSUME Typed, [Next]_vars
    PROVE  /\ strayed => strayed'
           /\ \/ active' = active
              \/ chip' = NoChips /\ shown' = NothingShown
              \/ strayed' \/ (active = NoConversation /\ UNCHANGED <<chip, shown, home>>)
<1>1. ASSUME NEW f \in File, Created(f)
      PROVE  /\ strayed => strayed'
             /\ strayed' \/ (active = NoConversation /\ UNCHANGED <<chip, shown, home>>)
  <2>1. strayed' = (strayed \/ active # NoConversation) /\ UNCHANGED <<chip, shown, home>>
    BY <1>1 DEF Created, queueVars
  <2> QED
    BY <2>1
<1>2. ASSUME NEW f \in File, Pick(f) \/ PickInNewChat(f) \/ PickGoesOn(f) \/ Store(f) \/ Uploaded(f)
             \/ UploadFails(f) \/ RetryUpload(f) \/ RemoveChip(f)
      PROVE active' = active /\ strayed' = strayed
  BY <1>2 DEF Pick, PickInNewChat, PickGoesOn, Store, Uploaded, UploadFails, RetryUpload, RemoveChip, history
<1>3. ASSUME NEW r \in Row, RemoveRowChip(r) \/ DeleteRow(r) PROVE active' = active /\ strayed' = strayed
  BY <1>3 DEF RemoveRowChip, DeleteRow, history
<1>4. ASSUME NEW l \in Load, NEW c \in Conversation, SelectConversation(c, l)
      PROVE chip' = NoChips /\ shown' = NothingShown /\ strayed' = strayed
  BY <1>4 DEF SelectConversation, history
<1>5. ASSUME NEW l \in Load, ReadMessages(l) \/ LoadFiles(l) \/ ReadFiles(l) \/ RestoreChips(l) \/ TurnFails(l)
      PROVE active' = active /\ strayed' = strayed
  BY <1>5 DEF ReadMessages, LoadFiles, ReadFiles, RestoreChips, TurnFails, history
<1>6. StartNewConversation => chip' = NoChips /\ shown' = NothingShown /\ strayed' = strayed
  BY DEF StartNewConversation, history
<1>7. SendFiles \/ CheckFiles \/ AcceptTurn \/ EndTurn => active' = active /\ strayed' = strayed
  BY DEF SendFiles, CheckFiles, AcceptTurn, EndTurn, history
<1>8. UNCHANGED vars => active' = active /\ strayed' = strayed
  BY DEF vars, history
<1>9. strayed => strayed'
  BY ZenonT(30), <1>1, <1>2, <1>3, <1>4, <1>5, <1>6, <1>7, <1>8 DEF Next
<1>10. \/ active' = active
       \/ chip' = NoChips /\ shown' = NothingShown
       \/ strayed' \/ (active = NoConversation /\ UNCHANGED <<chip, shown, home>>)
  BY ZenonT(30), <1>1, <1>2, <1>3, <1>4, <1>5, <1>6, <1>7, <1>8 DEF Next
<1> QED
  BY <1>9, <1>10

LEMMA BelongsStep ==
    ASSUME Waiting, Belongs, [Next]_vars
    PROVE  Belongs'
<1>t. Typed /\ Typed' /\ shown \in [Row -> Nat] /\ shown' \in [Row -> Nat] /\ load' \in [Load -> LoadRecord]
      /\ active \in Conversation \cup {NoConversation}
  BY WaitingStep DEF Waiting, Typed
<1>h. \A g \in File : \/ pick'[g] = pick[g] /\ home'[g] = home[g]
                      \/ pick[g] # "chip" /\ pick'[g] # "chip" /\ home'[g] = home[g]
                      \/ pick[g] # "chip" /\ pick'[g] = "chip" /\ home'[g] = active /\ active # NoConversation
  BY <1>t, HomesStay
<1>1. ASSUME NEW r \in Row, pick'[FileOf(r)] # "chip" PROVE row'[r] = "none" /\ shown'[r] = 0
  <2>1. pick[FileOf(r)] # "chip"
    BY <1>h, <1>1, FileOfRow
  <2>2. row[r] = "none" /\ shown[r] = 0
    BY <2>1 DEF Belongs
  <2>3. row'[r] = "none"
    BY <2>1, <2>2, RowsAppear
  <2>4. ~(shown'[r] > 0) /\ shown'[r] \in Nat
    BY <1>t, <2>1, <2>2, RowChipsAppear
  <2> QED
    BY <2>3, <2>4
<1>2. ASSUME NEW f \in File, pick'[f] = "chip" PROVE home'[f] \in Conversation
  BY <1>h, <1>t, <1>2 DEF Belongs
<1>3. ASSUME NEW l \in Load, load'[l].pc = "listed", NEW r \in load'[l].rows
      PROVE  pick'[FileOf(r)] = "chip" /\ home'[FileOf(r)] = load'[l].conversation
  <2>1. r \in Row
    BY <1>t, <1>3 DEF LoadRecord
  <2>2. pick[FileOf(r)] = "chip" /\ home[FileOf(r)] = load'[l].conversation
    <3>1. CASE load'[l] = load[l]
      BY <1>3, <3>1 DEF Belongs
    <3>2. CASE row[r] = "stored" /\ home[FileOf(r)] = load'[l].conversation
      BY <2>1, <3>2 DEF Belongs
    <3> QED
      BY <1>t, <1>3, <3>1, <3>2, ListsAppear
  <2> QED
    BY <1>h, <2>1, <2>2, FileOfRow
<1> QED
  BY <1>1, <1>2, <1>3 DEF Belongs

LEMMA ChipsStayOwn ==
    ASSUME Waiting, Belongs, NoForeignChip, [Next]_vars
    PROVE  NoForeignChip'
<1> SUFFICES ASSUME ~strayed'
             PROVE  /\ \A f \in File : chip'[f] # "none" => home'[f] = active'
                    /\ \A r \in Row : shown'[r] > 0 => home'[FileOf(r)] = active'
  BY DEF NoForeignChip
<1>t. Typed /\ ComposerAssumption
  BY ComposerAssumption DEF Waiting
<1>o. /\ \A f \in File : chip[f] # "none" => home[f] = active
      /\ \A r \in Row : shown[r] > 0 => home[FileOf(r)] = active
  BY <1>t, OpensEmpty DEF NoForeignChip
<1>h. \A g \in File : \/ pick'[g] = pick[g] /\ home'[g] = home[g]
                      \/ pick[g] # "chip" /\ pick'[g] # "chip" /\ home'[g] = home[g]
                      \/ pick[g] # "chip" /\ pick'[g] = "chip" /\ home'[g] = active /\ active # NoConversation
  BY <1>t, HomesStay
<1>p. /\ \A f \in File : chip[f] # "none" => pick[f] = "chip" /\ home[f] \in Conversation
      /\ \A r \in Row : shown[r] > 0 => pick[FileOf(r)] = "chip" /\ home[FileOf(r)] \in Conversation
  <2>1. \A r \in Row : shown[r] > 0 => pick[FileOf(r)] = "chip"
    BY DEF Belongs
  <2> QED
    BY <2>1, FileOfRow DEF Belongs, Waiting, Unpicked
<1>1. CASE active' = active
  <2>1. ASSUME NEW f \in File, chip'[f] # "none" PROVE home'[f] = active
    <3>1. chip[f] # "none" \/ (pick[f] # "chip" /\ pick'[f] = "chip")
      BY <2>1, QueueMoves, ChipsAppear
    <3> QED
      BY <1>h, <1>o, <1>p, <3>1
  <2>2. ASSUME NEW r \in Row, shown'[r] > 0 PROVE home'[FileOf(r)] = active
    <3>1. pick[FileOf(r)] = "chip" /\ home[FileOf(r)] = active
      BY <1>o, <1>p, <2>2, RowChipsAppear
    <3> QED
      BY <1>h, <3>1, FileOfRow
  <2> QED
    BY <1>1, <2>1, <2>2
<1>2. CASE chip' = NoChips /\ shown' = NothingShown
  BY <1>2 DEF NoChips, NothingShown
<1>3. CASE active = NoConversation /\ UNCHANGED <<chip, shown, home>>
  BY <1>3, <1>o, <1>p, <1>t DEF ComposerAssumption
<1> QED
  BY <1>t, <1>1, <1>2, <1>3, OpensEmpty

LEMMA AlwaysBelongs == Spec => []Belongs
<1>1. Init => Belongs
  BY FileOfRow DEF Init, Belongs, NoLoad
<1> QED
  BY <1>1, BelongsStep, AlwaysWaiting, PTL DEF Spec

\* ChatView.vue:326 "Chips picked for A must not silently become attachments
\* of B".
THEOREM ChipsAreOwn == Spec => []NoForeignChip
<1>1. Init => NoForeignChip
  BY DEF Init, NoForeignChip
<1> QED
  BY <1>1, ChipsStayOwn, AlwaysWaiting, AlwaysBelongs, PTL DEF Spec

-----------------------------------------------------------------------------
(* Every chip is what the queue makes of it.                                 *)

\* EveryChipIsServed of the chips c, the transfers t, the queue q and the
\* record d; and a file in the record has no chip.
Serves(c, t, q, d, late) ==
    /\ \A f \in File : c[f] = "pending" => f \in Range(q) /\ t[f] = "none"
    /\ \A f \in File : c[f] = "uploading" => t[f] # "none"
    /\ \A f \in File : c[f] = "error" => t[f] = "none" /\ (late \/ f \notin Range(q))
    /\ \A f \in File : f \in d => c[f] = "none"
Served == strayed \/ Serves(chip, transfer, queue, done, overtaken)

LEMMA DrainedServes ==
    ASSUME NEW q \in Queue, NEW chips \in [File -> ChipState], Drained(q, chips),
           \A f \in File : chips[f] = "pending" => f \in Range(q),
           \A f \in File : chips[f] # "uploading",
           \A f \in File : chips[f] = "error" => overtaken' \/ f \notin Range(q),
           \A f \in File : f \in done' => chips[f] = "none"
    PROVE  Serves(chip', transfer', queue', done', overtaken')
<1>1. queue' = q
  BY DEF Drained
<1>2. \A g \in File : First(q, g) => transfer'[g] = "sent" /\ (chip'[g] = IF chips[g] = "none" THEN "none" ELSE "uploading")
  BY DEF Drained
<1>3. \A g \in File : ~First(q, g) => transfer'[g] = "none" /\ chip'[g] = chips[g]
  BY DEF Drained
<1>4. \A f \in File : chip'[f] = "pending" => f \in Range(q) /\ transfer'[f] = "none"
  BY <1>2, <1>3
<1>5. \A f \in File : chip'[f] = "uploading" => transfer'[f] # "none"
  BY <1>2, <1>3
<1>6. \A f \in File : chip'[f] = "error" => transfer'[f] = "none" /\ (overtaken' \/ f \notin Range(q))
  BY <1>2, <1>3
<1>7. \A f \in File : f \in done' => chip'[f] = "none"
  BY <1>2, <1>3
<1> QED
  BY <1>1, <1>4, <1>5, <1>6, <1>7 DEF Serves

LEMMA ServedStep ==
    ASSUME Waiting, InOrder, NoForeignChip, ~strayed, Serves(chip, transfer, queue, done, overtaken), QueueMove
    PROVE  Serves(chip', transfer', queue', done', overtaken')
<1> DEFINE Goal == Serves(chip', transfer', queue', done', overtaken')
<1>t. /\ queue \in Queue /\ Once(queue) /\ running \in BOOLEAN
      /\ chip \in [File -> ChipState] /\ transfer \in [File -> TransferState]
      /\ OneTransfer /\ done \subseteq File
  BY DEF Waiting, Typed
<1>s. /\ \A f \in File : chip[f] = "pending" => f \in Range(queue) /\ transfer[f] = "none"
      /\ \A f \in File : chip[f] = "uploading" => transfer[f] # "none"
      /\ \A f \in File : chip[f] = "error" => transfer[f] = "none" /\ (overtaken \/ f \notin Range(queue))
      /\ \A f \in File : f \in done => chip[f] = "none"
  BY DEF Serves
<1>w. ASSUME NEW f \in File, NEW c \in ChipState
      PROVE  /\ With(f, c) \in [File -> ChipState] /\ With(f, c)[f] = c
             /\ \A h \in File : h # f => With(f, c)[h] = chip[h]
  BY <1>t DEF With
<1>c. ChipState = {"none", "pending", "uploading", "error"}
  BY DEF ChipState
<1>o. overtaken => overtaken'
  BY DEF QueueMove, Rests, Touches, Leaves, Resets, Joins, Ends, Fails, Retries, Drops
<1>i. ~running => \A f \in File : transfer[f] = "none"
  BY <1>t DEF OneTransfer
<1>g. ASSUME NEW q \in Queue, NEW chips \in [File -> ChipState], Goes(q, chips), done' = done,
             \A f \in File : chips[f] = "pending" => f \in Range(q) /\ transfer[f] = "none",
             \A f \in File : chips[f] = "uploading" => transfer[f] # "none",
             \A f \in File : chips[f] = "error" => transfer[f] = "none" /\ (overtaken' \/ f \notin Range(q)),
             \A f \in File : f \in done => chips[f] = "none"
      PROVE  Goal
  <2>1. CASE Kept(q, chips)
    <3>1. queue' = q /\ chip' = chips /\ transfer' = transfer
      BY <2>1 DEF Kept
    <3> QED
      BY <1>g, <3>1 DEF Serves
  <2>2. CASE ~running /\ Drained(q, chips)
    <3>1. \A f \in File : chips[f] # "uploading"
      BY <1>g, <1>i, <2>2
    <3> QED
      BY <1>g, <2>2, <3>1, DrainedServes
  <2> QED
    BY <1>g, <2>1, <2>2 DEF Goes
<1>1. CASE Rests
  <2>1. queue' = queue /\ chip' = chip /\ done' = done /\ overtaken' = overtaken
        /\ \A g \in File : transfer'[g] = "none" <=> transfer[g] = "none"
    BY <1>1 DEF Rests
  <2> QED
    BY <1>s, <2>1 DEF Serves
<1>2. CASE Touches
  BY <1>2, <1>t, <1>s, <1>g DEF Touches
<1>3. CASE Leaves \/ Resets
  BY <1>3 DEF Leaves, Resets, NoChips, Serves
<1>5. ASSUME NEW f \in File, Joins(f) PROVE Goal
  <2> DEFINE q == Append(queue, f)
             chips == With(f, "pending")
  <2>1. Goes(q, chips) /\ done' = done /\ overtaken' = overtaken
        /\ f \notin Range(queue) /\ f \notin done /\ transfer[f] = "none"
    BY <1>5 DEF Joins, Waiting, Unpicked, Queued
  <2>2. q \in Queue /\ Range(q) = Range(queue) \cup {f}
    BY <1>t, AppendFacts
  <2>3. chips \in [File -> ChipState] /\ chips[f] = "pending" /\ \A g \in File : g # f => chips[g] = chip[g]
    BY <1>c, <1>w
  <2> HIDE DEF q, chips
  <2>4. \A g \in File : chips[g] = "pending" => g \in Range(q) /\ transfer[g] = "none"
    BY <1>s, <2>1, <2>2, <2>3
  <2>5. \A g \in File : chips[g] = "uploading" => transfer[g] # "none"
    BY <1>s, <2>3
  <2>6. \A g \in File : chips[g] = "error" => transfer[g] = "none" /\ (overtaken' \/ g \notin Range(q))
    BY <1>s, <2>1, <2>2, <2>3
  <2>7. \A g \in File : g \in done => chips[g] = "none"
    BY <1>s, <2>1, <2>3
  <2> QED
    BY <1>g, <2>1, <2>2, <2>3, <2>4, <2>5, <2>6, <2>7
<1>6. ASSUME NEW f \in File, Ends(f) PROVE Goal
  <2>1. PICK chips \in [File -> ChipState] :
           /\ chips = With(f, "none") \/ (chips = chip /\ (chip[f] = "none" \/ home[f] # active))
           /\ Drained(Behind(f), chips)
    BY <1>6 DEF Ends
  <2>2. transfer[f] # "none" /\ done' = done \cup {f} /\ overtaken' = overtaken
    BY <1>6 DEF Ends
  <2>3. chips[f] = "none" /\ \A g \in File : g # f => chips[g] = chip[g]
    BY <1>c, <1>w, <2>1 DEF NoForeignChip
  <2>4. /\ Behind(f) \in Queue /\ Range(Behind(f)) \subseteq Range(queue)
        /\ Range(queue) \subseteq Range(Behind(f)) \cup {f}
    BY <1>t, BehindFacts
  <2>5. \A g \in File : chips[g] = "pending" => g \in Range(Behind(f))
    BY <1>s, <2>3, <2>4
  <2>6. \A g \in File : chips[g] # "uploading"
    <3>1. \A g \in File : g # f => transfer[g] = "none"
      BY <1>t, <2>2 DEF OneTransfer
    <3> QED
      BY <1>s, <2>3, <3>1
  <2>7. \A g \in File : chips[g] = "error" => overtaken' \/ g \notin Range(Behind(f))
    BY <1>s, <2>2, <2>3, <2>4
  <2>8. \A g \in File : g \in done' => chips[g] = "none"
    BY <1>s, <2>2, <2>3
  <2> QED
    BY <2>1, <2>4, <2>5, <2>6, <2>7, <2>8, DrainedServes
<1>7. ASSUME NEW f \in File, Fails(f) PROVE Goal
  <2> DEFINE c == IF chip[f] = "none" THEN "none" ELSE "error"
  <2>1. queue' = Behind(f) /\ transfer' = [transfer EXCEPT ![f] = "none"] /\ done' = done /\ overtaken' = overtaken
        /\ transfer[f] # "none" /\ chip' = With(f, c) /\ c \in ChipState
    BY <1>7, <1>c DEF Fails
  <2>2. chip'[f] = c /\ \A g \in File : g # f => chip'[g] = chip[g]
    BY <1>w, <2>1
  <2>3. \A g \in File : transfer'[g] = "none"
    BY <1>t, <2>1 DEF OneTransfer
  <2>4. \A g \in File : g # f => transfer[g] = "none"
    BY <1>t, <2>1 DEF OneTransfer
  <2>5. /\ Range(Behind(f)) \subseteq Range(queue) /\ Range(queue) \subseteq Range(Behind(f)) \cup {f}
        /\ (Queued(f) => f = Head(queue)) => f \notin Range(Behind(f))
    BY <1>t, BehindFacts
  <2>6. overtaken \/ f \notin Range(Behind(f))
    BY <2>1, <2>5 DEF InOrder, Recorded, First, Queued
  <2>7. \A g \in File : chip'[g] = "pending" => g \in Range(queue')
    BY <1>s, <2>1, <2>2, <2>5
  <2>8. \A g \in File : chip'[g] # "uploading"
    BY <1>s, <2>2, <2>4
  <2>9. \A g \in File : chip'[g] = "error" => overtaken' \/ g \notin Range(queue')
    BY <1>s, <2>1, <2>2, <2>5, <2>6
  <2>10. \A g \in File : g \in done' => chip'[g] = "none"
    BY <1>s, <2>1, <2>2
  <2> QED
    BY <2>3, <2>7, <2>8, <2>9, <2>10 DEF Serves
<1>8. ASSUME NEW f \in File, Retries(f) PROVE Goal
  <2> DEFINE chips == With(f, "pending")
             q == <<f>> \o queue
  <2>1. chip[f] = "error" /\ done' = done /\ f \notin done /\ transfer[f] = "none"
    BY <1>8, <1>s DEF Retries
  <2>2. chips \in [File -> ChipState] /\ chips[f] = "pending" /\ \A g \in File : g # f => chips[g] = chip[g]
    BY <1>c, <1>w
  <2>3. \/ f \in Range(queue) /\ Kept(queue, chips)
        \/ f \notin Range(queue) /\ Goes(q, chips)
    BY <1>8, <2>1 DEF Retries, Queued
  <2>4. q \in Queue /\ Range(q) = Range(queue) \cup {f}
    BY <1>t, FrontFacts
  <2> HIDE DEF q, chips
  <2>5. \A g \in File : chips[g] = "uploading" => transfer[g] # "none"
    BY <1>s, <2>2
  <2>6. \A g \in File : g \in done => chips[g] = "none"
    BY <1>s, <2>1, <2>2
  <2>7. \A g \in File : chips[g] = "error" => transfer[g] = "none" /\ (overtaken' \/ g \notin Range(q))
    BY <1>s, <1>o, <2>2, <2>4
  <2>8. \A g \in File : chips[g] = "pending" => g \in Range(q) /\ transfer[g] = "none"
    BY <1>s, <2>1, <2>2, <2>4
  <2>9. CASE f \in Range(queue) /\ Kept(queue, chips)
    <3>1. queue' = queue /\ chip' = chips /\ transfer' = transfer
      BY <2>9 DEF Kept
    <3>2. \A g \in File : g \in Range(q) <=> g \in Range(queue)
      BY <2>4, <2>9
    <3> QED
      BY <2>1, <2>5, <2>6, <2>7, <2>8, <3>1, <3>2 DEF Serves
  <2>10. CASE Goes(q, chips)
    BY <1>g, <2>1, <2>2, <2>4, <2>5, <2>6, <2>7, <2>8, <2>10
  <2> QED
    BY <2>3, <2>9, <2>10
<1>9. ASSUME NEW f \in File, Drops(f) PROVE Goal
  <2> DEFINE q == RemoveFirst(queue, f)
             chips == With(f, "none")
  <2>1. Goes(q, chips) /\ done' = done /\ overtaken' = overtaken
    BY <1>9 DEF Drops
  <2>2. q \in Queue /\ Range(q) \subseteq Range(queue) /\ Range(queue) \subseteq Range(q) \cup {f}
    BY <1>t, RemoveFacts
  <2>3. chips \in [File -> ChipState] /\ chips[f] = "none" /\ \A g \in File : g # f => chips[g] = chip[g]
    BY <1>c, <1>w
  <2> HIDE DEF q, chips
  <2>4. \A g \in File : chips[g] = "pending" => g \in Range(q) /\ transfer[g] = "none"
    BY <1>s, <2>2, <2>3
  <2>5. \A g \in File : chips[g] = "uploading" => transfer[g] # "none"
    BY <1>s, <2>3
  <2>6. \A g \in File : chips[g] = "error" => transfer[g] = "none" /\ (overtaken' \/ g \notin Range(q))
    BY <1>s, <2>1, <2>2, <2>3
  <2>7. \A g \in File : g \in done => chips[g] = "none"
    BY <1>s, <2>3
  <2> QED
    BY <1>g, <2>1, <2>2, <2>3, <2>4, <2>5, <2>6, <2>7
<1> QED
  BY <1>1, <1>2, <1>3, <1>5, <1>6, <1>7, <1>8, <1>9 DEF QueueMove

LEMMA AlwaysServed == Spec => []Served
<1>1. Init => Served
  BY DEF Init, Served, Serves
<1>2. ASSUME Waiting, InOrder, NoForeignChip, Served, [Next]_vars PROVE Served'
  <2> SUFFICES ASSUME ~strayed' PROVE Serves(chip', transfer', queue', done', overtaken')
    BY DEF Served
  <2>1. ~strayed
    BY <1>2, OpensEmpty DEF Waiting
  <2>2. Serves(chip, transfer, queue, done, overtaken)
    BY <1>2, <2>1 DEF Served
  <2> QED
    BY <1>2, <2>1, <2>2, QueueMoves, ServedStep
<1> QED
  BY <1>1, <1>2, AlwaysWaiting, AlwaysInOrder, ChipsAreOwn, PTL DEF Spec

\* A pending chip waits in the queue, an uploading one is in flight, a failed
\* one is out of the queue (uploadQueue.ts:8-11).
THEOREM NoChipIsForgotten == Spec => []EveryChipIsServed
<1>1. Served => EveryChipIsServed
  <2> SUFFICES ASSUME Serves(chip, transfer, queue, done, overtaken), NEW f \in File
               PROVE  /\ chip[f] = "pending" => Queued(f) /\ transfer[f] = "none"
                      /\ chip[f] = "uploading" => transfer[f] # "none"
                      /\ chip[f] = "error" => transfer[f] = "none" /\ f \notin done /\ (overtaken \/ ~Queued(f))
    BY DEF Served, EveryChipIsServed
  <2> QED
    BY DEF Serves, Queued
<1> QED
  BY <1>1, AlwaysServed, PTL

-----------------------------------------------------------------------------
(* Failures pay for uploads: a file is sent once, and once more for a failure. *)

\* A file waits to be sent, or sent again.
Owed(f) == Queued(f) /\ ~(transfer[f] # "none" /\ First(queue, f))
Cost(f) == attempt[f] + (IF Owed(f) THEN 1 ELSE 0)
Failed == {f \in File : chip[f] = "error"}

LEMMA CostIs ==
    ASSUME Waiting
    PROVE  \A g \in File : Cost(g) \in Nat /\ attempt[g] \in Nat /\ attempt[g] <= Cost(g) /\ Cost(g) <= attempt[g] + 1
BY DEF Waiting, Typed, Cost

LEMMA DrainedCosts ==
    ASSUME attempt \in [File -> Nat], NEW q \in Queue, NEW chips \in [File -> ChipState], Drained(q, chips),
           NEW g \in File
    PROVE  /\ Cost(g)' = attempt[g] + (IF g \in Range(q) THEN 1 ELSE 0)
           /\ \/ attempt'[g] = attempt[g] /\ transfer'[g] = "none"
              \/ attempt'[g] = attempt[g] + 1 /\ transfer'[g] = "sent"
<1>0. attempt[g] \in Nat /\ queue' = q
  BY DEF Drained
<1>1. CASE First(q, g)
  <2>1. transfer'[g] = "sent" /\ attempt'[g] = attempt[g] + 1
    BY <1>1 DEF Drained
  <2>2. g \in Range(q)
    BY <1>1, TailFacts DEF First
  <2>3. ~Owed(g)'
    BY <1>0, <1>1, <2>1 DEF Owed, First
  <2>4. Cost(g)' = attempt'[g]
    BY <1>0, <2>1, <2>3 DEF Cost
  <2> QED
    BY <1>0, <2>1, <2>2, <2>4
<1>2. CASE ~First(q, g)
  <2>1. transfer'[g] = "none" /\ attempt'[g] = attempt[g]
    BY <1>2 DEF Drained
  <2>2. Owed(g)' <=> g \in Range(q)
    BY <1>0, <2>1 DEF Owed, Queued
  <2> QED
    BY <2>1, <2>2 DEF Cost
<1> QED
  BY <1>1, <1>2

\* A queue that goes on costs what it costs with the files of q.
LEMMA GoesCosts ==
    ASSUME Waiting, NEW q \in Queue, NEW chips \in [File -> ChipState], Goes(q, chips), NEW g \in File,
           running /\ g \in Range(q) =>
               g \in Range(queue) /\ (transfer[g] # "none" /\ First(queue, g) => First(q, g)),
           ~running /\ g \in Range(q) => g \in Range(queue)
    PROVE  Cost(g)' <= Cost(g)
<1>0. attempt \in [File -> Nat] /\ attempt[g] \in Nat
  BY DEF Waiting, Typed
<1>1. CASE running /\ Kept(q, chips)
  <2>1. queue' = q /\ transfer' = transfer /\ attempt' = attempt
    BY <1>1 DEF Kept
  <2>2. Owed(g)' => Owed(g)
    BY <1>1, <2>1 DEF Owed, Queued, First
  <2> QED
    BY <1>0, <2>1, <2>2 DEF Cost
<1>2. CASE ~running /\ Drained(q, chips)
  <2>1. Cost(g)' = attempt[g] + (IF g \in Range(q) THEN 1 ELSE 0)
    BY <1>0, <1>2, DrainedCosts
  <2>2. transfer[g] = "none"
    BY <1>2 DEF Waiting, OneTransfer
  <2>3. g \in Range(q) => Owed(g)
    BY <1>2, <2>2 DEF Owed, Queued
  <2> QED
    BY <1>0, <2>1, <2>3 DEF Cost
<1> QED
  BY <1>1, <1>2 DEF Goes

\* ... and never more than one upload on top.
LEMMA GoesCostsOne ==
    ASSUME Waiting, NEW q \in Queue, NEW chips \in [File -> ChipState], Goes(q, chips), NEW g \in File
    PROVE  Cost(g)' \in Nat /\ Cost(g)' <= attempt[g] + 1
<1>0. attempt \in [File -> Nat] /\ attempt[g] \in Nat
  BY DEF Waiting, Typed
<1>1. CASE Kept(q, chips)
  BY <1>0, <1>1 DEF Kept, Cost
<1>2. CASE Drained(q, chips)
  BY <1>0, <1>2, DrainedCosts
<1> QED
  BY <1>1, <1>2 DEF Goes

\* Whatever chips it starts from, the queue adds no failed one.
LEMMA GoesFailed ==
    ASSUME NEW q \in Queue, NEW chips \in [File -> ChipState], Goes(q, chips) \/ Drained(q, chips)
    PROVE  Failed' \subseteq {g \in File : chips[g] = "error"}
<1>1. CASE Kept(q, chips)
  BY <1>1 DEF Kept, Failed
<1>2. CASE Drained(q, chips)
  BY <1>2 DEF Drained, Failed
<1> QED
  BY <1>1, <1>2 DEF Goes

\* What a move may cost.
Cheap == Failed' \subseteq Failed /\ \A g \in File : Cost(g)' <= Cost(g)
NewFile(f) ==
    /\ pick[f] # "chip" /\ Failed' \subseteq Failed
    /\ Cost(f)' <= attempt[f] + 1 /\ \A g \in File \ {f} : Cost(g)' <= Cost(g)
Again(f) ==
    /\ f \in Failed /\ Failed' \subseteq Failed \ {f}
    /\ \A g \in File : Cost(g)' <= Cost(g) + 1
Failure(f) ==
    /\ faults' = faults + 1 /\ Failed' \subseteq Failed \cup {f}
    /\ \A g \in File : Cost(g)' <= Cost(g)

LEMMA MovesCost ==
    ASSUME Waiting, QueueMove
    PROVE  Cheap \/ \E f \in File : NewFile(f) \/ Again(f) \/ Failure(f)
<1> DEFINE Goal == Cheap \/ \E f \in File : NewFile(f) \/ Again(f) \/ Failure(f)
<1>t. /\ queue \in Queue /\ Once(queue) /\ OneTransfer
      /\ chip \in [File -> ChipState] /\ transfer \in [File -> TransferState] /\ attempt \in [File -> Nat]
  BY DEF Waiting, Typed
<1>c. \A g \in File : Cost(g) \in Nat /\ attempt[g] \in Nat /\ attempt[g] <= Cost(g) /\ Cost(g) <= attempt[g] + 1
  BY CostIs
<1>w. ASSUME NEW f \in File, NEW c \in ChipState
      PROVE  /\ With(f, c) \in [File -> ChipState] /\ With(f, c)[f] = c
             /\ \A g \in File : g # f => With(f, c)[g] = chip[g]
  BY <1>t DEF With
<1>1. Rests => Cheap
  <2> SUFFICES ASSUME Rests PROVE Cheap
    OBVIOUS
  <2>1. /\ UNCHANGED <<queue, attempt, chip>>
        /\ \A g \in File : transfer'[g] # "none" <=> transfer[g] # "none"
    BY <1>t DEF Rests, TransferState
  <2>2. \A g \in File : Owed(g)' <=> Owed(g)
    BY <2>1 DEF Owed, Queued, First
  <2>3. \A g \in File : Cost(g)' = Cost(g)
    BY <2>1, <2>2 DEF Cost
  <2>4. Failed' = Failed
    BY <2>1 DEF Failed
  <2> QED
    BY <1>c, <2>3, <2>4 DEF Cheap
<1>2. Touches => Cheap
  <2> SUFFICES ASSUME Touches PROVE Cheap
    OBVIOUS
  <2>1. Goes(queue, chip)
    BY DEF Touches
  <2>2. \A g \in File : Cost(g)' <= Cost(g)
    BY <1>t, <2>1, GoesCosts
  <2>3. Failed' \subseteq Failed
    BY <1>t, <2>1, GoesFailed DEF Failed
  <2> QED
    BY <2>2, <2>3 DEF Cheap
<1>3. Leaves => Cheap
  <2> SUFFICES ASSUME Leaves PROVE Cheap
    OBVIOUS
  <2>1. chip' = NoChips /\ UNCHANGED <<queue, transfer, attempt>>
    BY DEF Leaves
  <2>2. \A g \in File : Cost(g)' = Cost(g)
    BY <2>1 DEF Cost, Owed, Queued, First
  <2>3. Failed' = {}
    BY <2>1 DEF Failed, NoChips
  <2> QED
    BY <1>c, <2>2, <2>3 DEF Cheap
<1>4. Resets => Cheap
  <2> SUFFICES ASSUME Resets PROVE Cheap
    OBVIOUS
  <2>1. chip' = NoChips /\ queue' = <<>> /\ UNCHANGED <<transfer, attempt>>
    BY DEF Resets
  <2>2. \A g \in File : ~Owed(g)'
    BY <2>1 DEF Owed, Queued, Range
  <2>3. \A g \in File : Cost(g)' <= Cost(g)
    BY <1>c, <2>1, <2>2 DEF Cost
  <2>4. Failed' = {}
    BY <2>1 DEF Failed, NoChips
  <2> QED
    BY <2>3, <2>4 DEF Cheap
<1>5. ASSUME NEW f \in File, Joins(f) PROVE NewFile(f)
  <2> DEFINE q == Append(queue, f)
             chips == With(f, "pending")
  <2>1. Goes(q, chips) /\ pick[f] # "chip"
    BY <1>5 DEF Joins
  <2>2. q \in Queue /\ Range(q) = Range(queue) \cup {f} /\ Head(q) = (IF queue = <<>> THEN f ELSE Head(queue)) /\ q # <<>>
    BY <1>t, AppendFacts
  <2>3. chips \in [File -> ChipState] /\ chips[f] = "pending" /\ \A g \in File : g # f => chips[g] = chip[g]
    BY <1>w DEF ChipState
  <2> HIDE DEF q, chips
  <2>4. Cost(f)' <= attempt[f] + 1
    BY <2>1, <2>2, <2>3, GoesCostsOne
  <2>5. ASSUME NEW g \in File, g # f PROVE Cost(g)' <= Cost(g)
    <3>1. g \in Range(q) => g \in Range(queue) /\ (First(queue, g) => First(q, g))
      BY <2>2, <2>5 DEF First
    <3> QED
      BY <2>1, <2>2, <2>3, <3>1, GoesCosts
  <2>6. Failed' \subseteq Failed
    <3>1. Failed' \subseteq {g \in File : chips[g] = "error"}
      BY <2>1, <2>2, <2>3, GoesFailed
    <3> QED
      BY <2>3, <3>1 DEF Failed
  <2> QED
    BY <2>1, <2>4, <2>5, <2>6 DEF NewFile
\* The queue behind a file in flight owes nothing new.
<1>b. ASSUME NEW f \in File, transfer[f] # "none", NEW g \in File
      PROVE  attempt[g] + (IF g \in Range(Behind(f)) THEN 1 ELSE 0) <= Cost(g)
  <2>1. g # f => transfer[g] = "none"
    BY <1>t, <1>b DEF OneTransfer
  <2>2. Range(Behind(f)) \subseteq Range(queue)
    BY <1>t, BehindFacts
  <2>3. First(queue, f) => f \notin Range(Behind(f))
    BY <1>t, TailFacts DEF Behind, First
  <2>4. g \in Range(Behind(f)) => Owed(g)
    BY <2>1, <2>2, <2>3 DEF Owed, Queued
  <2> QED
    BY <1>c, <2>4 DEF Cost
<1>6. ASSUME NEW f \in File, Ends(f) PROVE Cheap
  <2>1. PICK chips \in [File -> ChipState] :
           (chips = With(f, "none") \/ chips = chip) /\ Drained(Behind(f), chips)
    BY <1>6 DEF Ends
  <2>2. transfer[f] # "none" /\ Behind(f) \in Queue
    BY <1>t, <1>6, BehindFacts DEF Ends
  <2>3. \A g \in File : Cost(g)' = attempt[g] + (IF g \in Range(Behind(f)) THEN 1 ELSE 0)
    BY <1>t, <2>1, <2>2, DrainedCosts
  <2>4. \A g \in File : Cost(g)' <= Cost(g)
    BY <1>b, <2>2, <2>3
  <2>5. Failed' \subseteq {g \in File : chips[g] = "error"}
    BY <2>1, <2>2, GoesFailed
  <2>6. \A g \in File : chips[g] = "error" => chip[g] = "error"
    BY <1>w, <2>1 DEF ChipState
  <2> QED
    BY <2>4, <2>5, <2>6 DEF Cheap, Failed
<1>7. ASSUME NEW f \in File, Fails(f) PROVE Failure(f)
  <2>1. /\ transfer[f] # "none" /\ queue' = Behind(f) /\ attempt' = attempt /\ faults' = faults + 1
        /\ transfer' = [transfer EXCEPT ![f] = "none"]
        /\ chip' = With(f, IF chip[f] = "none" THEN "none" ELSE "error")
    BY <1>7 DEF Fails
  <2>2. \A g \in File : transfer'[g] = "none"
    BY <1>t, <2>1 DEF OneTransfer, TransferState
  <2>3. \A g \in File : Owed(g)' <=> g \in Range(Behind(f))
    BY <2>1, <2>2 DEF Owed, Queued
  <2>4. \A g \in File : Cost(g)' = attempt[g] + (IF g \in Range(Behind(f)) THEN 1 ELSE 0)
    BY <2>1, <2>3 DEF Cost
  <2>5. \A g \in File : Cost(g)' <= Cost(g)
    BY <1>b, <2>1, <2>4
  <2>6. \A g \in File : g # f => chip'[g] = chip[g]
    BY <1>t, <2>1 DEF With
  <2> QED
    BY <2>1, <2>5, <2>6 DEF Failure, Failed
<1>8. ASSUME NEW f \in File, Retries(f) PROVE Again(f)
  <2> DEFINE chips == With(f, "pending")
             q == <<f>> \o queue
  <2>1. chip[f] = "error" /\ (Kept(queue, chips) \/ Goes(q, chips))
    BY <1>8 DEF Retries
  <2>2. chips \in [File -> ChipState] /\ chips[f] = "pending" /\ \A g \in File : g # f => chips[g] = chip[g]
    BY <1>w DEF ChipState
  <2>3. q \in Queue
    BY <1>t, FrontFacts
  <2> HIDE DEF q, chips
  <2>4. Failed' \subseteq {g \in File : chips[g] = "error"}
    <3>1. CASE Kept(queue, chips)
      BY <3>1 DEF Kept, Failed
    <3>2. CASE Goes(q, chips)
      BY <2>2, <2>3, <3>2, GoesFailed
    <3> QED
      BY <2>1, <3>1, <3>2
  <2>5. ASSUME NEW g \in File PROVE Cost(g)' <= Cost(g) + 1
    <3>1. CASE Kept(queue, chips)
      <4>1. Cost(g)' = Cost(g)
        BY <3>1 DEF Kept, Cost, Owed, Queued, First
      <4> QED
        BY <1>c, <4>1
    <3>2. CASE Goes(q, chips)
      <4>1. Cost(g)' \in Nat /\ Cost(g)' <= attempt[g] + 1
        BY <2>2, <2>3, <3>2, GoesCostsOne
      <4> QED
        BY <1>c, <4>1
    <3> QED
      BY <2>1, <3>1, <3>2
  <2> QED
    BY <2>1, <2>2, <2>4, <2>5 DEF Again, Failed
<1>9. ASSUME NEW f \in File, Drops(f) PROVE Cheap
  <2> DEFINE q == RemoveFirst(queue, f)
             chips == With(f, "none")
  <2>1. Goes(q, chips)
    BY <1>9 DEF Drops
  <2>2. /\ q \in Queue /\ Range(q) \subseteq Range(queue) /\ f \notin Range(q)
        /\ queue # <<>> /\ Head(queue) # f => q # <<>> /\ Head(q) = Head(queue)
    BY <1>t, RemoveFacts
  <2>3. chips \in [File -> ChipState] /\ chips[f] = "none" /\ \A g \in File : g # f => chips[g] = chip[g]
    BY <1>w DEF ChipState
  <2> HIDE DEF q, chips
  <2>4. ASSUME NEW g \in File PROVE Cost(g)' <= Cost(g)
    <3>1. g \in Range(q) => g \in Range(queue) /\ (First(queue, g) => First(q, g))
      BY <2>2 DEF First
    <3> QED
      BY <2>1, <2>2, <2>3, <3>1, GoesCosts
  <2>5. Failed' \subseteq Failed
    <3>1. Failed' \subseteq {g \in File : chips[g] = "error"}
      BY <2>1, <2>2, <2>3, GoesFailed
    <3> QED
      BY <2>3, <3>1 DEF Failed
  <2> QED
    BY <2>4, <2>5 DEF Cheap
<1> QED
  BY <1>1, <1>2, <1>3, <1>4, <1>5, <1>6, <1>7, <1>8, <1>9 DEF QueueMove

\* A file is sent: one upload more, and no other is in flight.
LEMMA AttemptsCount ==
    ASSUME Waiting, QueueMove
    PROVE  \A g \in File :
              \/ /\ attempt'[g] = attempt[g]
                 /\ \/ transfer'[g] = transfer[g]
                    \/ transfer'[g] = "none"
                    \/ transfer[g] = "sent" /\ transfer'[g] = "stored" /\ row' = [row EXCEPT ![RowOf(g)] = "stored"]
              \/ attempt'[g] = attempt[g] + 1 /\ transfer'[g] = "sent"
<1> DEFINE Goal(g) == \/ /\ attempt'[g] = attempt[g]
                         /\ \/ transfer'[g] = transfer[g]
                            \/ transfer'[g] = "none"
                            \/ transfer[g] = "sent" /\ transfer'[g] = "stored" /\ row' = [row EXCEPT ![RowOf(g)] = "stored"]
                      \/ attempt'[g] = attempt[g] + 1 /\ transfer'[g] = "sent"
<1>t. attempt \in [File -> Nat] /\ transfer \in [File -> TransferState]
  BY DEF Waiting, Typed
<1>k. ASSUME NEW g \in File, NEW q, NEW chips, Kept(q, chips) PROVE Goal(g)
  BY <1>k DEF Kept
<1>d. ASSUME NEW g \in File, NEW q, NEW chips, Drained(q, chips) PROVE Goal(g)
  BY <1>d DEF Drained
<1>g. ASSUME NEW g \in File, NEW q, NEW chips, Goes(q, chips) PROVE Goal(g)
  BY <1>d, <1>g, <1>k DEF Goes
<1> SUFFICES ASSUME NEW g \in File PROVE Goal(g)
  OBVIOUS
<1>1. Rests => Goal(g)
  BY DEF Rests
<1>2. Touches => Goal(g)
  BY <1>g DEF Touches
<1>3. Leaves \/ Resets => Goal(g)
  BY DEF Leaves, Resets
<1>4. ASSUME NEW f \in File, Joins(f) PROVE Goal(g)
  BY <1>4, <1>g DEF Joins
<1>5. ASSUME NEW f \in File, Ends(f) PROVE Goal(g)
  BY <1>5, <1>d DEF Ends
<1>6. ASSUME NEW f \in File, Fails(f) PROVE Goal(g)
  BY <1>6, <1>t DEF Fails
<1>7. ASSUME NEW f \in File, Retries(f) PROVE Goal(g)
  BY <1>7, <1>g, <1>k DEF Retries
<1>8. ASSUME NEW f \in File, Drops(f) PROVE Goal(g)
  BY <1>8, <1>g DEF Drops
<1> HIDE DEF Goal
<1> QED
  BY <1>1, <1>2, <1>3, <1>4, <1>5, <1>6, <1>7, <1>8 DEF QueueMove

\* No failure is undone, and there are at most MaxFault.
Bounds == moves \in 0..MaxMove /\ faults \in 0..MaxFault

LEMMA BoundsStep ==
    ASSUME Bounds, [Next]_vars
    PROVE  Bounds' /\ faults <= faults'
<1> USE ComposerAssumption DEF Bounds
<1>1. ASSUME NEW f \in File, Pick(f) \/ PickInNewChat(f) \/ Created(f) \/ PickGoesOn(f) \/ Store(f) \/ Uploaded(f)
             \/ RetryUpload(f) \/ RemoveChip(f)
      PROVE UNCHANGED <<moves, faults>>
  BY <1>1 DEF Pick, PickInNewChat, Created, PickGoesOn, Store, Uploaded, RetryUpload, RemoveChip
<1>2. ASSUME NEW f \in File, UploadFails(f) PROVE moves' = moves /\ faults < MaxFault /\ faults' = faults + 1
  BY <1>2 DEF UploadFails, Fault
<1>3. ASSUME NEW r \in Row, RemoveRowChip(r) PROVE moves < MaxMove /\ moves' = moves + 1 /\ faults' = faults
  BY <1>3 DEF RemoveRowChip
<1>4. ASSUME NEW r \in Row, DeleteRow(r) PROVE UNCHANGED <<moves, faults>>
  BY <1>4 DEF DeleteRow
<1>5. ASSUME NEW l \in Load, NEW c \in Conversation, SelectConversation(c, l)
      PROVE moves < MaxMove /\ moves' = moves + 1 /\ faults' = faults
  BY <1>5 DEF SelectConversation
<1>6. ASSUME NEW l \in Load, ReadMessages(l) \/ LoadFiles(l) \/ ReadFiles(l) \/ RestoreChips(l) \/ TurnFails(l)
      PROVE UNCHANGED <<moves, faults>>
  BY <1>6 DEF ReadMessages, LoadFiles, ReadFiles, RestoreChips, TurnFails
<1>7. StartNewConversation => moves < MaxMove /\ moves' = moves + 1 /\ faults' = faults
  BY DEF StartNewConversation
<1>8. SendFiles \/ CheckFiles \/ AcceptTurn \/ EndTurn => UNCHANGED <<moves, faults>>
  BY DEF SendFiles, CheckFiles, AcceptTurn, EndTurn
<1>9. UNCHANGED vars => UNCHANGED <<moves, faults>>
  BY DEF vars
<1>10. \/ UNCHANGED <<moves, faults>>
       \/ moves' = moves /\ faults < MaxFault /\ faults' = faults + 1
       \/ moves < MaxMove /\ moves' = moves + 1 /\ faults' = faults
  BY <1>1, <1>2, <1>3, <1>4, <1>5, <1>6, <1>7, <1>8, <1>9 DEF Next
<1> QED
  BY <1>10

\* No file was sent more often than there were failures that are not failed
\* chips still, and once: a failed chip is a failure that nothing was sent for yet.
Credit ==
    /\ IsFiniteSet(Failed) /\ Cardinality(Failed) <= faults
    /\ \A f \in File : /\ Cost(f) + Cardinality(Failed) <= 1 + faults
                       /\ pick[f] # "chip" => attempt[f] = 0
                       /\ transfer[f] # "none" => attempt[f] >= 1

LEMMA CreditInit == Init => Credit
<1> SUFFICES ASSUME Init PROVE Credit
  OBVIOUS
<1>1. Failed = {}
  BY DEF Init, Failed
<1>2. \A f \in File : ~Queued(f)
  BY DEF Init, Queued, Range
<1>3. \A f \in File : Cost(f) = 0
  BY <1>2 DEF Init, Cost, Owed
<1>4. IsFiniteSet(Failed) /\ Cardinality(Failed) = 0
  BY <1>1, FS_EmptySet
<1> QED
  BY <1>3, <1>4 DEF Init, Credit

LEMMA FewerFailed ==
    ASSUME NEW S, IsFiniteSet(S), NEW T \in SUBSET S
    PROVE  IsFiniteSet(T) /\ Cardinality(T) <= Cardinality(S) /\ Cardinality(T) \in Nat /\ Cardinality(S) \in Nat
BY FS_Subset, FS_CardinalityType

LEMMA CreditStep ==
    ASSUME Waiting, Bounds, Credit, [Next]_vars
    PROVE  Credit'
<1> DEFINE n == Cardinality(Failed)
           m == Cardinality(Failed')
<1>q. QueueMove
  BY QueueMoves
<1>w. Waiting' /\ Bounds' /\ faults <= faults' /\ faults \in Nat /\ faults' \in Nat
  BY WaitingStep, BoundsStep, ComposerAssumption DEF Bounds
<1>f. IsFiniteSet(Failed) /\ n \in Nat /\ n <= faults
  BY FS_CardinalityType DEF Credit
<1>c. \A g \in File : /\ Cost(g) \in Nat /\ attempt[g] \in Nat /\ attempt[g] <= Cost(g) /\ Cost(g) <= attempt[g] + 1
                      /\ Cost(g) + n <= 1 + faults
  BY CostIs DEF Credit
<1>d. \A g \in File : Cost(g)' \in Nat
  <2>1. Waiting' => \A g \in File : attempt'[g] \in Nat
    BY DEF Waiting, Typed
  <2> QED
    BY <1>w, <2>1 DEF Cost
<1>1. /\ IsFiniteSet(Failed') /\ m \in Nat /\ m <= faults'
      /\ \A g \in File : Cost(g)' + m <= 1 + faults'
  <2> HIDE DEF n, m
  <2>s. ASSUME NEW T \in SUBSET Failed, Failed' = T PROVE IsFiniteSet(Failed') /\ m \in Nat /\ m <= n
    BY <1>f, <2>s, FewerFailed DEF m, n
  <2>1. CASE Cheap
    <3>1. IsFiniteSet(Failed') /\ m \in Nat /\ m <= n /\ \A g \in File : Cost(g)' <= Cost(g)
      BY <2>1, <2>s DEF Cheap
    <3> QED
      BY <1>c, <1>d, <1>f, <1>w, <3>1
  <2>2. ASSUME NEW f \in File, NewFile(f)
        PROVE  /\ IsFiniteSet(Failed') /\ m \in Nat /\ m <= faults'
               /\ \A g \in File : Cost(g)' + m <= 1 + faults'
    <3>1. IsFiniteSet(Failed') /\ m \in Nat /\ m <= n
      BY <2>2, <2>s DEF NewFile
    <3>2. /\ Cost(f)' <= attempt[f] + 1 /\ attempt[f] = 0
          /\ \A g \in File \ {f} : Cost(g)' <= Cost(g)
      BY <2>2 DEF NewFile, Credit
    <3>3. ASSUME NEW g \in File, g # f PROVE Cost(g)' + m <= 1 + faults'
      <4>1. Cost(g)' <= Cost(g)
        BY <3>2, <3>3
      <4> QED
        BY <1>c, <1>d, <1>f, <1>w, <3>1, <4>1
    <3>4. Cost(f)' + m <= 1 + faults'
      BY <1>d, <1>f, <1>w, <3>1, <3>2
    <3>5. m <= faults'
      BY <1>f, <1>w, <3>1
    <3> QED
      BY <3>1, <3>3, <3>4, <3>5
  <2>3. ASSUME NEW f \in File, Again(f)
        PROVE  /\ IsFiniteSet(Failed') /\ m \in Nat /\ m <= faults'
               /\ \A g \in File : Cost(g)' + m <= 1 + faults'
    <3>1. IsFiniteSet(Failed \ {f}) /\ Cardinality(Failed \ {f}) = n - 1
      BY <1>f, <2>3, FS_RemoveElement DEF Again, n
    <3>2. IsFiniteSet(Failed') /\ m \in Nat /\ m <= n - 1
      BY <2>3, <3>1, FewerFailed DEF Again, m
    <3>3. \A g \in File : Cost(g)' <= Cost(g) + 1
      BY <2>3 DEF Again
    <3> QED
      BY <1>c, <1>d, <1>f, <1>w, <3>2, <3>3
  <2>4. ASSUME NEW f \in File, Failure(f)
        PROVE  /\ IsFiniteSet(Failed') /\ m \in Nat /\ m <= faults'
               /\ \A g \in File : Cost(g)' + m <= 1 + faults'
    <3>1. /\ IsFiniteSet(Failed \cup {f}) /\ Cardinality(Failed \cup {f}) \in Nat
          /\ Cardinality(Failed \cup {f}) <= n + 1
      BY <1>f, FS_AddElement DEF n
    <3>2. IsFiniteSet(Failed') /\ m \in Nat /\ m <= n + 1
      BY <1>f, <2>4, <3>1, FewerFailed DEF Failure, m
    <3>3. faults' = faults + 1 /\ \A g \in File : Cost(g)' <= Cost(g)
      BY <2>4 DEF Failure
    <3> QED
      BY <1>c, <1>d, <1>f, <1>w, <3>2, <3>3
  <2> QED
    BY <1>q, <2>1, <2>2, <2>3, <2>4, MovesCost
<1>2. ASSUME NEW g \in File
      PROVE  /\ pick'[g] # "chip" => attempt'[g] = 0
             /\ transfer'[g] # "none" => attempt'[g] >= 1
  <2>1. \/ /\ attempt'[g] = attempt[g]
           /\ transfer'[g] # "none" => transfer[g] # "none"
        \/ attempt'[g] = attempt[g] + 1 /\ transfer'[g] = "sent"
    BY <1>q, AttemptsCount
  <2>2. pick'[g] # "chip" => pick[g] # "chip" /\ transfer'[g] = "none"
    <3>1. pick'[g] # "chip" => pick[g] # "chip"
      BY ScreenTypes DEF Waiting
    <3>2. Unpicked'
      BY <1>w DEF Waiting
    <3> QED
      BY <3>1, <3>2 DEF Unpicked
  <2>3. attempt[g] \in Nat /\ (pick[g] # "chip" => attempt[g] = 0) /\ (transfer[g] # "none" => attempt[g] >= 1)
    BY <1>c DEF Credit
  <2>4. pick'[g] # "chip" => attempt'[g] = 0
    BY <2>1, <2>2, <2>3
  <2>5. transfer'[g] # "none" => attempt'[g] >= 1
    BY <2>1, <2>3
  <2> QED
    BY <2>4, <2>5
<1> QED
  BY <1>1, <1>2 DEF Credit

\* Whatever fails and is retried, no file is sent more often than MaxFault + 1 times.
LEMMA SentAtMost ==
    ASSUME Waiting, Bounds, Credit
    PROVE  /\ attempt \in [File -> 0..MaxFault + 1]
           /\ \A f \in File : transfer[f] # "none" => RowOf(f) \in Row
<1>1. ASSUME NEW f \in File PROVE attempt[f] \in 0..MaxFault + 1
  <2>1. Cost(f) \in Nat /\ attempt[f] \in Nat /\ attempt[f] <= Cost(f) /\ Cost(f) + Cardinality(Failed) <= 1 + faults
    BY CostIs DEF Credit
  <2>2. Cardinality(Failed) \in Nat /\ faults \in Nat /\ faults <= MaxFault /\ MaxFault \in Nat
    BY ComposerAssumption, FS_CardinalityType DEF Credit, Bounds
  <2> QED
    BY <2>1, <2>2
<1>2. attempt \in [File -> 0..MaxFault + 1]
  BY <1>1 DEF Waiting, Typed
<1>3. ASSUME NEW f \in File, transfer[f] # "none" PROVE RowOf(f) \in Row
  <2>1. attempt[f] >= 1
    BY <1>3 DEF Credit
  <2>2. attempt[f] \in 1..MaxFault + 1
    BY <1>1, <2>1, ComposerAssumption
  <2> QED
    BY <2>2 DEF RowOf, Row
<1> QED
  BY <1>2, <1>3

SentInRows == \A f \in File : transfer[f] # "none" => <<f, attempt[f]>> \in Row

LEMMA AreSentInRows == Waiting /\ Bounds /\ Credit => SentInRows
BY SentAtMost DEF SentInRows, RowOf

LEMMA NextSentInRows == Waiting' /\ Bounds' /\ Credit' => SentInRows'
BY AreSentInRows, PTL

-----------------------------------------------------------------------------
(* Rows: a file's n-th upload makes its n-th row, which a chip shows at most  *)
(* twice, once when the upload ends and once as a list brings it.             *)

LEMMA RowsChange ==
    ASSUME Waiting, [Next]_vars
    PROVE  \/ row' = row
           \/ \E f \in File : /\ transfer[f] = "sent" /\ transfer'[f] = "stored" /\ attempt' = attempt
                              /\ row' = [row EXCEPT ![RowOf(f)] = "stored"]
           \/ \E s \in Row : row' = [row EXCEPT ![s] = IF @ = "stored" /\ s \notin used THEN "deleted" ELSE @]
<1>1. ASSUME NEW f \in File, Store(f)
      PROVE  /\ transfer[f] = "sent" /\ transfer'[f] = "stored" /\ attempt' = attempt
             /\ row' = [row EXCEPT ![RowOf(f)] = "stored"]
  BY <1>1 DEF Store, Waiting, Typed
<1>2. ASSUME NEW f \in File, Pick(f) \/ PickInNewChat(f) \/ Created(f) \/ PickGoesOn(f) \/ Uploaded(f)
             \/ UploadFails(f) \/ RetryUpload(f) \/ RemoveChip(f)
      PROVE row' = row
  BY <1>2 DEF Pick, PickInNewChat, Created, PickGoesOn, Uploaded, UploadFails, RetryUpload, RemoveChip, serverVars
<1>3. ASSUME NEW s \in Row, RemoveRowChip(s) PROVE row' = row
  BY <1>3 DEF RemoveRowChip, serverVars
<1>4. ASSUME NEW s \in Row, DeleteRow(s)
      PROVE  row' = [row EXCEPT ![s] = IF @ = "stored" /\ s \notin used THEN "deleted" ELSE @]
  BY <1>4 DEF DeleteRow
<1>5. ASSUME NEW l \in Load, (\E c \in Conversation : SelectConversation(c, l))
             \/ ReadMessages(l) \/ LoadFiles(l) \/ ReadFiles(l) \/ RestoreChips(l) \/ TurnFails(l)
      PROVE row' = row
  BY <1>5 DEF SelectConversation, ReadMessages, LoadFiles, ReadFiles, RestoreChips, TurnFails, serverVars
<1>6. StartNewConversation \/ SendFiles \/ CheckFiles \/ AcceptTurn \/ EndTurn => row' = row
  BY DEF StartNewConversation, SendFiles, CheckFiles, AcceptTurn, EndTurn, serverVars
<1>7. UNCHANGED vars => row' = row
  BY DEF vars, serverVars
<1> QED
  BY <1>1, <1>2, <1>3, <1>4, <1>5, <1>6, <1>7 DEF Next

\* A deletion is asked for a row that is shown, or whose upload just ended.
LEMMA DeletionsChange ==
    ASSUME [Next]_vars, NEW r \in deletion', r \notin deletion
    PROVE  \/ r \in Row /\ shown[r] > 0
           \/ \E f \in File : transfer[f] = "stored" /\ r = RowOf(f)
<1> DEFINE Goal == \/ r \in Row /\ shown[r] > 0
                   \/ \E f \in File : transfer[f] = "stored" /\ r = RowOf(f)
<1>1. ASSUME NEW f \in File, Pick(f) \/ PickInNewChat(f) \/ Created(f) \/ PickGoesOn(f) \/ Store(f)
             \/ UploadFails(f) \/ RetryUpload(f) \/ RemoveChip(f)
      PROVE deletion' = deletion
  BY <1>1 DEF Pick, PickInNewChat, Created, PickGoesOn, Store, UploadFails, RetryUpload, RemoveChip
<1>2. ASSUME NEW f \in File, Uploaded(f) PROVE Goal
  BY <1>2 DEF Uploaded, UploadedInVain, Adopt
<1>3. ASSUME NEW s \in Row, RemoveRowChip(s) \/ DeleteRow(s) PROVE Goal
  BY <1>3 DEF RemoveRowChip, DeleteRow
<1>4. ASSUME NEW l \in Load, (\E c \in Conversation : SelectConversation(c, l))
             \/ ReadMessages(l) \/ LoadFiles(l) \/ ReadFiles(l) \/ RestoreChips(l) \/ TurnFails(l)
      PROVE deletion' = deletion
  BY <1>4 DEF SelectConversation, ReadMessages, LoadFiles, ReadFiles, RestoreChips, TurnFails
<1>5. StartNewConversation \/ SendFiles \/ CheckFiles \/ AcceptTurn \/ EndTurn => deletion' = deletion
  BY DEF StartNewConversation, SendFiles, CheckFiles, AcceptTurn, EndTurn
<1>6. UNCHANGED vars => deletion' = deletion
  BY DEF vars
<1> QED
  BY <1>1, <1>2, <1>3, <1>4, <1>5, <1>6 DEF Next

\* A row gets a chip when its upload ends, and if it has none also with a list.
LEMMA ChipsChange ==
    ASSUME Waiting, [Next]_vars, NEW r \in Row
    PROVE  \/ shown'[r] = shown[r] \/ shown'[r] = 0
           \/ shown[r] = 0 /\ shown'[r] = 1 /\ \E l \in Load : load[l].pc = "listed" /\ r \in load[l].rows
           \/ \E f \in File : /\ r = RowOf(f) /\ shown'[r] = shown[r] + 1 /\ transfer[f] = "stored"
                              /\ transfer'[f] = "none" \/ attempt'[f] = attempt[f] + 1
<1> DEFINE Brought == shown[r] = 0 /\ shown'[r] = 1 /\ \E l \in Load : load[l].pc = "listed" /\ r \in load[l].rows
           Ended == \E f \in File : /\ r = RowOf(f) /\ shown'[r] = shown[r] + 1 /\ transfer[f] = "stored"
                                    /\ transfer'[f] = "none" \/ attempt'[f] = attempt[f] + 1
           Goal == shown'[r] = shown[r] \/ shown'[r] = 0 \/ Brought \/ Ended
<1>t. shown \in [Row -> Nat] /\ attempt \in [File -> Nat] /\ queue \in Queue /\ Once(queue)
      /\ chip \in [File -> ChipState]
  BY DEF Waiting, Typed
<1>1. ASSUME NEW f \in File, Pick(f) \/ PickInNewChat(f) \/ Created(f) \/ PickGoesOn(f) \/ Store(f)
             \/ UploadFails(f) \/ RetryUpload(f) \/ RemoveChip(f)
      PROVE shown' = shown
  BY <1>1 DEF Pick, PickInNewChat, Created, PickGoesOn, Store, UploadFails, RetryUpload, RemoveChip
<1>2. ASSUME NEW f \in File, Uploaded(f) PROVE Goal
  <2>1. transfer[f] = "stored" /\ Behind(f) \in Queue
    BY <1>t, <1>2, BehindFacts DEF Uploaded
  <2>2. CASE shown' = [shown EXCEPT ![RowOf(f)] = @ + 1] /\ GoOn(f, With(f, "none"))
    <3>1. With(f, "none") \in [File -> ChipState]
      BY <1>t DEF With, ChipState
    <3>2. Drained(Behind(f), With(f, "none"))
      BY <2>1, <2>2, <3>1, GoOnLeaves DEF Waiting
    <3>3. transfer'[f] = "none" \/ attempt'[f] = attempt[f] + 1
      BY <3>2 DEF Drained
    <3> QED
      BY <1>t, <2>1, <2>2, <3>3
  <2>3. shown' = shown \/ (shown' = [shown EXCEPT ![RowOf(f)] = @ + 1] /\ GoOn(f, With(f, "none")))
    BY <1>2 DEF Uploaded, UploadedInVain, Adopt, With
  <2> QED
    BY <2>2, <2>3
<1>3. ASSUME NEW s \in Row, RemoveRowChip(s) \/ DeleteRow(s) PROVE Goal
  BY <1>t, <1>3 DEF RemoveRowChip, DeleteRow
<1>4. ASSUME NEW l \in Load, (\E c \in Conversation : SelectConversation(c, l)) \/ ReadMessages(l) \/ LoadFiles(l) \/ ReadFiles(l)
      PROVE  shown'[r] = 0 \/ shown'[r] = shown[r]
  BY <1>4 DEF SelectConversation, ReadMessages, LoadFiles, ReadFiles, NothingShown
<1>5. ASSUME NEW l \in Load, RestoreChips(l) PROVE Goal
  BY <1>t, <1>5 DEF RestoreChips
<1>6. ASSUME Finish PROVE Goal
  BY <1>t, <1>6 DEF Finish
<1>7. EndTurn \/ (\E l \in Load : TurnFails(l)) => Goal
  BY <1>6 DEF EndTurn, TurnFails
<1>8. StartNewConversation \/ SendFiles \/ CheckFiles \/ AcceptTurn => shown'[r] = 0 \/ shown'[r] = shown[r]
  BY DEF StartNewConversation, NothingShown, SendFiles, CheckFiles, AcceptTurn
<1>9. UNCHANGED vars => shown' = shown
  BY DEF vars
<1> HIDE DEF Brought, Ended
<1>10. Goal
  BY <1>1, <1>2, <1>3, <1>4, <1>5, <1>7, <1>8, <1>9 DEF Next
<1> QED
  BY <1>10 DEF Brought, Ended

\* A row that no upload made has no chip and is on no list or way to deletion.
RowsMade ==
    /\ \A r \in Row : /\ r[2] > attempt[FileOf(r)] => row[r] = "none"
                      /\ shown[r] > 0 => row[r] # "none"
                      /\ shown[r] <= 2
    /\ \A f \in File : /\ transfer[f] = "sent" => row[RowOf(f)] = "none"
                       /\ transfer[f] = "stored" => row[RowOf(f)] # "none"
                       /\ transfer[f] # "none" => shown[RowOf(f)] <= 1
    /\ \A l \in Load : load[l].pc = "listed" => \A r \in load[l].rows : row[r] # "none"
    /\ deletion \subseteq Row /\ \A r \in deletion : row[r] # "none"

LEMMA RowsMadeStep ==
    ASSUME Waiting, Bounds, Credit, RowsMade, [Next]_vars
    PROVE  RowsMade'
<1>w. Waiting' /\ Bounds' /\ Credit' /\ QueueMove
  BY WaitingStep, BoundsStep, CreditStep, QueueMoves
<1>t. /\ row \in [Row -> {"none", "stored", "deleted"}] /\ shown \in [Row -> Nat] /\ shown' \in [Row -> Nat]
      /\ attempt \in [File -> Nat] /\ transfer \in [File -> TransferState]
      /\ transfer' \in [File -> TransferState] /\ load' \in [Load -> LoadRecord]
  BY <1>w DEF Waiting, Typed
<1>r. /\ \A f \in File : transfer[f] # "none" => RowOf(f) \in Row
      /\ \A f \in File : transfer'[f] # "none" => <<f, attempt'[f]>> \in Row
  <2>1. \A f \in File : transfer[f] # "none" => RowOf(f) \in Row
    BY SentAtMost
  <2>2. SentInRows'
    BY <1>w, NextSentInRows
  <2> QED
    BY <2>1, <2>2 DEF SentInRows
<1>a. \A g \in File :
         \/ /\ attempt'[g] = attempt[g]
            /\ \/ transfer'[g] = transfer[g]
               \/ transfer'[g] = "none"
               \/ transfer[g] = "sent" /\ transfer'[g] = "stored" /\ row' = [row EXCEPT ![RowOf(g)] = "stored"]
         \/ attempt'[g] = attempt[g] + 1 /\ transfer'[g] = "sent"
  BY <1>w, AttemptsCount
\* A made row stays made; one is made by storing the upload in flight.
<1>k. \A r \in Row : row[r] # "none" => row'[r] # "none"
  BY <1>t, RowsChange
<1>n. ASSUME NEW r \in Row, row[r] = "none", row'[r] # "none"
      PROVE  /\ FileOf(r) \in File /\ r[2] = attempt[FileOf(r)] /\ attempt'[FileOf(r)] = attempt[FileOf(r)]
             /\ transfer'[FileOf(r)] = "stored"
  <2>1. \A s \in Row : row' # [row EXCEPT ![s] = IF @ = "stored" /\ s \notin used THEN "deleted" ELSE @]
    BY <1>t, <1>n
  <2>2. PICK f \in File : /\ transfer'[f] = "stored" /\ attempt' = attempt
                          /\ row' = [row EXCEPT ![RowOf(f)] = "stored"]
    BY <1>n, <2>1, RowsChange
  <2>3. r = RowOf(f)
    BY <1>t, <1>n, <2>2
  <2> QED
    BY <2>2, <2>3 DEF RowOf, FileOf
<1>1. ASSUME NEW r \in Row PROVE r[2] > attempt'[FileOf(r)] => row'[r] = "none"
  <2> SUFFICES ASSUME r[2] > attempt'[FileOf(r)], row'[r] # "none" PROVE FALSE
    OBVIOUS
  <2>1. FileOf(r) \in File /\ r[2] \in Nat
    BY FileOfRow, ComposerAssumption DEF Row
  <2>2. r[2] > attempt[FileOf(r)]
    BY <1>a, <1>t, <2>1
  <2>3. row[r] = "none"
    BY <2>2 DEF RowsMade
  <2>4. r[2] = attempt[FileOf(r)]
    BY <1>n, <2>3
  <2> QED
    BY <1>t, <2>1, <2>2, <2>4
<1>2. ASSUME NEW r \in Row PROVE (shown'[r] > 0 => row'[r] # "none") /\ shown'[r] <= 2
  <2>0. shown[r] \in Nat /\ shown'[r] \in Nat /\ (shown[r] > 0 => row'[r] # "none") /\ shown[r] <= 2
    BY <1>k, <1>t DEF RowsMade
  <2>1. CASE shown'[r] = shown[r] \/ shown'[r] = 0
    BY <2>0, <2>1
  <2>2. CASE shown'[r] = 1 /\ \E l \in Load : load[l].pc = "listed" /\ r \in load[l].rows
    BY <1>k, <2>2 DEF RowsMade
  <2>3. ASSUME NEW f \in File, r = RowOf(f), shown'[r] = shown[r] + 1, transfer[f] = "stored"
        PROVE  row'[r] # "none" /\ shown'[r] <= 2
    <3>1. row[r] # "none" /\ shown[r] <= 1
      BY <2>3 DEF RowsMade
    <3> QED
      BY <1>k, <2>0, <2>3, <3>1
  <2> QED
    BY <2>1, <2>2, <2>3, ChipsChange
<1>3. ASSUME NEW f \in File
      PROVE  /\ transfer'[f] = "sent" => row'[<<f, attempt'[f]>>] = "none"
             /\ transfer'[f] = "stored" => row'[<<f, attempt'[f]>>] # "none"
             /\ transfer'[f] # "none" => shown'[<<f, attempt'[f]>>] <= 1
  <2> DEFINE r == <<f, attempt'[f]>>
  <2>0. SUFFICES ASSUME transfer'[f] # "none"
                 PROVE  /\ transfer'[f] = "sent" => row'[r] = "none"
                        /\ transfer'[f] = "stored" => row'[r] # "none"
                        /\ shown'[r] <= 1
    BY DEF TransferState
  <2>1. r \in Row /\ FileOf(r) = f /\ r[2] = attempt'[f] /\ attempt[f] \in Nat
    BY <1>r, <1>t, <2>0 DEF FileOf
  <2>2. CASE attempt'[f] = attempt[f] + 1 /\ transfer'[f] = "sent"
    <3>1. row[r] = "none"
      BY <2>1, <2>2 DEF RowsMade
    <3>2. row'[r] = "none"
      BY <1>n, <2>1, <2>2, <3>1
    <3>3. shown'[r] = 0
      <4>1. shown'[r] \in Nat /\ ~(shown'[r] > 0)
        BY <1>2, <1>t, <2>1, <3>2
      <4> QED
        BY <4>1
    <3> QED
      BY <2>2, <3>2, <3>3
  <2>3. CASE attempt'[f] = attempt[f] /\ transfer[f] # "none"
    <3>1. r = RowOf(f)
      BY <2>3 DEF RowOf
    <3>2. transfer'[f] = "sent" => row'[r] = "none"
      <4> SUFFICES ASSUME transfer'[f] = "sent" PROVE row'[r] = "none"
        OBVIOUS
      <4>1. transfer[f] = "sent"
        BY <1>a, <2>1, <2>3
      <4>2. row[r] = "none"
        BY <3>1, <4>1 DEF RowsMade
      <4> QED
        BY <1>n, <2>1, <4>2
    <3>3. transfer'[f] = "stored" => row'[r] # "none"
      <4> SUFFICES ASSUME transfer'[f] = "stored" PROVE row'[r] # "none"
        OBVIOUS
      <4>1. CASE transfer[f] = "stored"
        BY <1>k, <2>1, <3>1, <4>1 DEF RowsMade
      <4>2. CASE row' = [row EXCEPT ![RowOf(f)] = "stored"]
        BY <1>t, <2>1, <3>1, <4>2
      <4> QED
        BY <1>a, <4>1, <4>2
    <3>4. shown'[r] <= 1
      <4>1. shown[r] <= 1 /\ shown[r] \in Nat
        BY <1>t, <2>1, <2>3, <3>1 DEF RowsMade
      <4>2. ASSUME NEW g \in File, r = RowOf(g) PROVE ~(transfer'[g] = "none" \/ attempt'[g] = attempt[g] + 1)
        <5>1. g = f
          BY <3>1, <4>2 DEF RowOf
        <5> QED
          BY <2>0, <2>1, <2>3, <5>1
      <4>3. shown'[r] = shown[r] \/ shown'[r] = 0 \/ shown'[r] = 1
        BY <2>1, <4>2, ChipsChange
      <4> QED
        BY <4>1, <4>3
    <3> QED
      BY <3>2, <3>3, <3>4
  <2> QED
    BY <1>a, <2>0, <2>2, <2>3
<1>4. ASSUME NEW l \in Load, load'[l].pc = "listed", NEW r \in load'[l].rows PROVE row'[r] # "none"
  <2>1. r \in Row
    BY <1>t, <1>4 DEF LoadRecord
  <2>2. row[r] # "none"
    <3>1. CASE load'[l] = load[l]
      BY <1>4, <3>1 DEF RowsMade
    <3>2. CASE load'[l] # load[l]
      BY <1>4, <3>2, ListsAppear DEF Waiting
    <3> QED
      BY <3>1, <3>2
  <2> QED
    BY <1>k, <2>1, <2>2
<1>5. ASSUME NEW r \in deletion' PROVE r \in Row /\ row'[r] # "none"
  <2>1. CASE r \in deletion
    BY <1>k, <2>1 DEF RowsMade
  <2>2. CASE r \in Row /\ shown[r] > 0
    BY <1>k, <2>2 DEF RowsMade
  <2>3. ASSUME NEW f \in File, transfer[f] = "stored", r = RowOf(f) PROVE r \in Row /\ row'[r] # "none"
    BY <1>k, <1>r, <2>3 DEF RowsMade
  <2> QED
    BY <2>1, <2>2, <2>3, DeletionsChange
<1> QED
  BY <1>1, <1>2, <1>3, <1>4, <1>5 DEF RowsMade, RowOf

-----------------------------------------------------------------------------
(* A finished upload is shown, or a load is under way that will show it.       *)

\* Chips belong to conversations there are.
Known ==
    /\ active \in known \cup {NoConversation}
    /\ \A f \in File : pick[f] = "chip" => home[f] \in known

LEMMA KnownStep ==
    ASSUME Typed, Known, [Next]_vars
    PROVE  Known'
<1>h. \A g \in File : \/ pick'[g] = pick[g] /\ home'[g] = home[g]
                      \/ pick[g] # "chip" /\ pick'[g] # "chip" /\ home'[g] = home[g]
                      \/ pick[g] # "chip" /\ pick'[g] = "chip" /\ home'[g] = active /\ active # NoConversation
  BY HomesStay
<1>1. ASSUME NEW f \in File, Pick(f) \/ PickInNewChat(f) \/ PickGoesOn(f) \/ Store(f) \/ Uploaded(f)
             \/ UploadFails(f) \/ RetryUpload(f) \/ RemoveChip(f)
      PROVE active' = active /\ known' = known
  BY <1>1 DEF Pick, PickInNewChat, PickGoesOn, Store, Uploaded, UploadFails, RetryUpload, RemoveChip
<1>2. ASSUME NEW f \in File, Created(f) PROVE known \subseteq known' /\ active' \in known'
  BY <1>2 DEF Created
<1>3. ASSUME NEW r \in Row, RemoveRowChip(r) \/ DeleteRow(r) PROVE active' = active /\ known' = known
  BY <1>3 DEF RemoveRowChip, DeleteRow
<1>4. ASSUME NEW l \in Load, NEW c \in Conversation, SelectConversation(c, l)
      PROVE active' \in known /\ known' = known
  BY <1>4 DEF SelectConversation
<1>5. ASSUME NEW l \in Load, ReadMessages(l) \/ LoadFiles(l) \/ ReadFiles(l) \/ RestoreChips(l) \/ TurnFails(l)
      PROVE active' = active /\ known' = known
  BY <1>5 DEF ReadMessages, LoadFiles, ReadFiles, RestoreChips, TurnFails
<1>6. StartNewConversation => active' = NoConversation /\ known' = known
  BY DEF StartNewConversation
<1>7. SendFiles \/ CheckFiles \/ AcceptTurn \/ EndTurn => active' = active /\ known' = known
  BY DEF SendFiles, CheckFiles, AcceptTurn, EndTurn
<1>8. UNCHANGED vars => active' = active /\ known' = known
  BY DEF vars
<1>9. known \subseteq known' /\ (active' = active \/ active' \in known' \cup {NoConversation})
  BY <1>1, <1>2, <1>3, <1>4, <1>5, <1>6, <1>7, <1>8 DEF Next
<1>10. active' \in known' \cup {NoConversation}
  BY <1>9 DEF Known
<1>11. ASSUME NEW g \in File, pick'[g] = "chip" PROVE home'[g] \in known'
  BY <1>9, <1>11, <1>h DEF Known
<1> QED
  BY <1>10, <1>11 DEF Known

\* What a load has read of the messages is used; it may be less by now.
Drafts == \A l \in Load : load[l].used \subseteq used

LEMMA DraftsStep ==
    ASSUME Typed, Drafts, [Next]_vars
    PROVE  Drafts' /\ used \subseteq used'
<1>t. load \in [Load -> LoadRecord] /\ active \in Conversation \cup {NoConversation}
  BY DEF Typed
<1>1. used \subseteq used'
  <2>1. ASSUME NEW f \in File, Pick(f) \/ PickInNewChat(f) \/ Created(f) \/ PickGoesOn(f) \/ Store(f) \/ Uploaded(f)
               \/ UploadFails(f) \/ RetryUpload(f) \/ RemoveChip(f)
        PROVE used' = used
    BY <2>1 DEF Pick, PickInNewChat, Created, PickGoesOn, Store, Uploaded, UploadFails, RetryUpload, RemoveChip,
       serverVars
  <2>2. ASSUME NEW r \in Row, RemoveRowChip(r) \/ DeleteRow(r) PROVE used' = used
    BY <2>2 DEF RemoveRowChip, DeleteRow, serverVars
  <2>3. ASSUME NEW l \in Load, (\E c \in Conversation : SelectConversation(c, l))
               \/ ReadMessages(l) \/ LoadFiles(l) \/ ReadFiles(l) \/ RestoreChips(l) \/ TurnFails(l)
        PROVE used' = used
    BY <2>3 DEF SelectConversation, ReadMessages, LoadFiles, ReadFiles, RestoreChips, TurnFails, serverVars
  <2>4. StartNewConversation \/ SendFiles \/ CheckFiles \/ EndTurn => used' = used
    BY DEF StartNewConversation, SendFiles, CheckFiles, EndTurn, serverVars
  <2>5. AcceptTurn => used \subseteq used'
    BY DEF AcceptTurn
  <2>6. UNCHANGED vars => used' = used
    BY DEF vars, serverVars
  <2> QED
    BY <2>1, <2>2, <2>3, <2>4, <2>5, <2>6 DEF Next
<1>3. ASSUME NEW l \in Load PROVE load'[l].used \subseteq used
  <2> DEFINE Fewer == load'[l].used \subseteq load[l].used \/ load'[l].used \subseteq used
  <2>1. ASSUME NEW f \in File, Pick(f) \/ PickInNewChat(f) \/ Created(f) \/ PickGoesOn(f) \/ Store(f) \/ Uploaded(f)
               \/ UploadFails(f) \/ RetryUpload(f) \/ RemoveChip(f)
        PROVE load' = load
    BY <2>1 DEF Pick, PickInNewChat, Created, PickGoesOn, Store, Uploaded, UploadFails, RetryUpload, RemoveChip
  <2>2. ASSUME NEW r \in Row, RemoveRowChip(r) \/ DeleteRow(r) PROVE load' = load
    BY <2>2 DEF RemoveRowChip, DeleteRow
  <2>3. ASSUME NEW k \in Load, NEW c, StartLoad(k, c) PROVE Fewer
    <3> DEFINE fresh == [NoLoad EXCEPT !.pc = "messages", !.conversation = c]
    <3>1. fresh.used = {}
      BY DEF NoLoad
    <3>2. load' = [load EXCEPT ![k] = fresh]
      BY <2>3 DEF StartLoad
    <3> HIDE DEF fresh
    <3> QED
      BY <1>t, <3>1, <3>2
  <2>4. ASSUME NEW k \in Load, (\E c \in Conversation : SelectConversation(c, k)) \/ TurnFails(k) PROVE Fewer
    BY <2>3, <2>4 DEF SelectConversation, TurnFails
  <2>5. ASSUME NEW k \in Load, RestoreChips(k) PROVE Fewer
    BY <1>t, <2>5 DEF RestoreChips, NoLoad
  <2>6. ASSUME NEW k \in Load, LoadFiles(k) PROVE Fewer
    BY <1>t, <2>6 DEF LoadFiles, NoLoad, LoadRecord
  <2>m. ASSUME NEW k \in Load, ReadMessages(k) PROVE Fewer
    <3> DEFINE some == {r \in used : home[FileOf(r)] = load[k].conversation}
    <3>1. load' = [load EXCEPT ![k].pc = "read", ![k].used = some] /\ some \subseteq used
      BY <2>m DEF ReadMessages
    <3> HIDE DEF some
    <3> QED
      BY <1>t, <3>1 DEF LoadRecord
  <2>7. ASSUME NEW k \in Load, ReadFiles(k) PROVE Fewer
    <3> DEFINE rows == {r \in Row : row[r] = "stored" /\ home[FileOf(r)] = load[k].conversation}
    <3>1. load' = [load EXCEPT ![k].pc = "listed", ![k].rows = rows]
      BY <2>7 DEF ReadFiles
    <3> HIDE DEF rows
    <3> QED
      BY <1>t, <3>1 DEF LoadRecord
  <2>8. StartNewConversation \/ SendFiles \/ CheckFiles \/ AcceptTurn \/ EndTurn => load' = load
    BY DEF StartNewConversation, SendFiles, CheckFiles, AcceptTurn, EndTurn
  <2>9. UNCHANGED vars => load' = load
    BY DEF vars
  <2>10. load' = load => Fewer
    OBVIOUS
  <2> HIDE DEF Fewer
  <2>11. Fewer
    BY <2>1, <2>2, <2>4, <2>5, <2>6, <2>m, <2>7, <2>8, <2>9, <2>10 DEF Next
  <2> QED
    BY <2>11 DEF Fewer, Drafts
<1> QED
  BY <1>1, <1>3 DEF Drafts

\* A file that landed has a chip's conversation and a row.
Landed ==
    /\ landed \subseteq File
    /\ \A f \in landed : pick[f] = "chip" /\ \E r \in Row : FileOf(r) = f /\ row[r] # "none"

LEMMA LandedStep ==
    ASSUME Waiting, Bounds, Credit, RowsMade, Landed, [Next]_vars
    PROVE  Landed'
<1>t. row \in [Row -> {"none", "stored", "deleted"}] /\ pick \in [File -> {"none", "creating", "created", "dropped", "chip"}]
  BY DEF Waiting, Typed
<1>1. \A g \in File : pick[g] = "chip" => pick'[g] = "chip"
  BY ScreenTypes DEF Waiting
<1>2. \A r \in Row : row[r] # "none" => row'[r] # "none"
  BY <1>t, RowsChange
<1>3. \A f \in landed' : f \in landed \/ (f \in File /\ transfer[f] = "stored")
  <2>1. ASSUME NEW f \in File, Pick(f) \/ PickInNewChat(f) \/ Created(f) \/ PickGoesOn(f) \/ Store(f)
               \/ UploadFails(f) \/ RetryUpload(f) \/ RemoveChip(f)
        PROVE landed' = landed
    BY <2>1 DEF Pick, PickInNewChat, Created, PickGoesOn, Store, UploadFails, RetryUpload, RemoveChip, history
  <2>2. ASSUME NEW f \in File, Uploaded(f) PROVE transfer[f] = "stored" /\ landed' \subseteq landed \cup {f}
    BY <2>2 DEF Uploaded, UploadedInVain, Adopt
  <2>3. ASSUME NEW r \in Row, RemoveRowChip(r) \/ DeleteRow(r) PROVE landed' = landed
    BY <2>3 DEF RemoveRowChip, DeleteRow, history
  <2>4. ASSUME NEW l \in Load, (\E c \in Conversation : SelectConversation(c, l))
               \/ ReadMessages(l) \/ LoadFiles(l) \/ ReadFiles(l) \/ RestoreChips(l) \/ TurnFails(l)
        PROVE landed' \subseteq landed
    BY <2>4 DEF SelectConversation, ReadMessages, LoadFiles, ReadFiles, RestoreChips, TurnFails, Finish, history
  <2>5. StartNewConversation \/ SendFiles \/ CheckFiles \/ AcceptTurn \/ EndTurn => landed' \subseteq landed
    BY DEF StartNewConversation, SendFiles, CheckFiles, AcceptTurn, EndTurn, Finish, history
  <2>6. UNCHANGED vars => landed' = landed
    BY DEF vars, history
  <2> QED
    BY <2>1, <2>2, <2>3, <2>4, <2>5, <2>6 DEF Next
<1>4. ASSUME NEW f \in File, transfer[f] = "stored"
      PROVE  pick[f] = "chip" /\ \E r \in Row : FileOf(r) = f /\ row[r] # "none"
  <2>1. pick[f] = "chip"
    BY <1>4 DEF Waiting, Unpicked
  <2>2. RowOf(f) \in Row /\ FileOf(RowOf(f)) = f /\ row[RowOf(f)] # "none"
    BY <1>4, SentAtMost DEF RowsMade, RowOf, FileOf
  <2> QED
    BY <2>1, <2>2
<1> QED
  BY <1>1, <1>2, <1>3, <1>4 DEF Landed

\* The load l is going to show a row of f, so long as the conversation stays open.
Brings(l, f) ==
    \/ load[l].pc \in {"messages", "read"}
    \/ load[l].pc = "files" /\ load[l].conversation = active
    \/ load[l].pc = "listed" /\ load[l].conversation = active
       /\ \E r \in load[l].rows \ load[l].used : FileOf(r) = f

Shows(f) == \E r \in Row : FileOf(r) = f /\ shown[r] > 0
Stored(f) == \A r \in Row : FileOf(r) = f => row[r] # "deleted" /\ r \notin deletion \cup used

Visible ==
    \A f \in landed :
        home[f] = active /\ Stored(f) => Shows(f) \/ \E l \in Load : Brings(l, f)

LEMMA VisibleStep ==
    ASSUME Waiting, Bounds, Credit, RowsMade, Known, Drafts, Landed, Visible, [Next]_vars
    PROVE  Visible'
<1> SUFFICES ASSUME NEW f \in landed', home'[f] = active', Stored(f)'
             PROVE  Shows(f)' \/ \E l \in Load : Brings(l, f)'
  BY DEF Visible
<1> DEFINE Goal == Shows(f)' \/ \E l \in Load : Brings(l, f)'
<1>t. /\ load \in [Load -> LoadRecord] /\ shown \in [Row -> Nat]
      /\ row \in [Row -> {"none", "stored", "deleted"}] /\ active \in Conversation \cup {NoConversation}
      /\ known \subseteq Conversation
  BY DEF Waiting, Typed
<1>i. used \subseteq used' /\ \A l \in Load : load[l].used \subseteq used
  BY DraftsStep DEF Waiting, Drafts
<1>l. f \in File /\ pick'[f] = "chip"
  BY LandedStep DEF Landed
<1>h. f \in landed => pick[f] = "chip" /\ home'[f] = home[f] /\ home[f] \in known
  <2>1. f \in landed => pick[f] = "chip"
    BY DEF Landed
  <2>2. pick[f] = "chip" => home'[f] = home[f]
    BY <1>l, HomesStay DEF Waiting
  <2> QED
    BY <1>l, <2>1, <2>2 DEF Known
\* What was seen, or was going to be, is as it was: a step need not touch it ...
<1>v. ASSUME f \in landed, active' = active, Stored(f) PROVE Shows(f) \/ \E l \in Load : Brings(l, f)
  BY <1>h, <1>v DEF Visible
<1>s. ASSUME f \in landed, active' = active, shown' = shown, load' = load, Stored(f) PROVE Goal
  <2>1. Shows(f)' <=> Shows(f)
    BY <1>s DEF Shows
  <2>2. \A l \in Load : Brings(l, f)' <=> Brings(l, f)
    BY <1>s DEF Brings
  <2> QED
    BY <1>s, <1>v, <2>1, <2>2
<1>S. ASSUME deletion \subseteq deletion', \A r \in Row : row[r] = "deleted" => row'[r] = "deleted" PROVE Stored(f)
  BY <1>i, <1>S DEF Stored
\* ... it is not lost on the server ...
<1>1. ASSUME NEW g \in File, Pick(g) \/ PickInNewChat(g) \/ PickGoesOn(g) \/ UploadFails(g) \/ RetryUpload(g)
             \/ RemoveChip(g)
      PROVE Goal
  <2>1. UNCHANGED <<active, shown, load, landed, row, deletion>>
    BY <1>1 DEF Pick, PickInNewChat, PickGoesOn, UploadFails, RetryUpload, RemoveChip, serverVars, history
  <2> QED
    BY <1>s, <1>S, <2>1
<1>2. ASSUME NEW g \in File, Store(g) PROVE Goal
  <2>1. /\ UNCHANGED <<active, shown, load, landed, deletion>>
        /\ transfer[g] = "sent" /\ row' = [row EXCEPT ![RowOf(g)] = "stored"]
    BY <1>2 DEF Store, history
  <2>2. row[RowOf(g)] = "none"
    BY <2>1 DEF RowsMade
  <2>3. \A r \in Row : row[r] = "deleted" => row'[r] = "deleted"
    BY <1>t, <2>1, <2>2
  <2> QED
    BY <1>s, <1>S, <2>1, <2>3
<1>3. ASSUME NEW s \in Row, DeleteRow(s) PROVE Goal
  <2>1. /\ UNCHANGED <<active, shown, load, landed>>
        /\ s \in deletion /\ deletion' = deletion \ {s}
        /\ row' = [row EXCEPT ![s] = IF @ = "stored" /\ s \notin used THEN "deleted" ELSE @]
    BY <1>3 DEF DeleteRow, history
  <2>2. s \in used \/ row'[s] = "deleted"
    BY <1>t, <2>1 DEF RowsMade
  <2>3. FileOf(s) # f
    BY <1>i, <2>2 DEF Stored
  <2>4. Stored(f)
    <3> SUFFICES ASSUME NEW r \in Row, FileOf(r) = f PROVE row[r] # "deleted" /\ r \notin deletion \cup used
      BY DEF Stored
    <3>1. row'[r] # "deleted" /\ r \notin deletion' /\ r \notin used /\ r # s
      BY <1>i, <2>3 DEF Stored
    <3> QED
      BY <1>t, <2>1, <3>1
  <2> QED
    BY <1>s, <2>1, <2>4
\* ... creating a conversation opens one that no file is of ...
<1>4. ASSUME NEW g \in File, Created(g) PROVE Goal
  <2>1. active' \notin known /\ landed' = landed
    BY <1>4 DEF Created
  <2> QED
    BY <1>h, <2>1
<1>5. StartNewConversation => Goal
  <2> SUFFICES ASSUME StartNewConversation PROVE FALSE
    OBVIOUS
  <2>1. active' = NoConversation /\ landed' = landed
    BY DEF StartNewConversation, history
  <2>2. home'[f] \in Conversation
    BY <1>h, <1>t, <2>1
  <2> QED
    BY <2>1, <2>2, ComposerAssumption
\* ... an upload shows its row where it belongs ...
<1>6. ASSUME NEW g \in File, Uploaded(g) PROVE Goal
  <2>1. UNCHANGED <<active, home, row, load>> /\ transfer[g] = "stored" /\ RowOf(g) \in Row /\ FileOf(RowOf(g)) = g
    BY <1>6, SentAtMost DEF Uploaded, serverVars, RowOf, FileOf
  <2>2. CASE UploadedInVain(g)
    <3>1. UNCHANGED <<shown, landed>> /\ deletion \subseteq deletion'
      BY <2>2 DEF UploadedInVain
    <3> QED
      BY <1>s, <1>S, <2>1, <3>1
  <2>3. CASE Adopt(g) /\ f = g
    <3>1. shown' = [shown EXCEPT ![RowOf(g)] = @ + 1]
      BY <2>1, <2>3 DEF Adopt
    <3>2. shown'[RowOf(g)] > 0
      BY <1>t, <2>1, <3>1
    <3> QED
      BY <2>1, <2>3, <3>2 DEF Shows
  <2>4. CASE Adopt(g) /\ f # g
    <3>1. /\ shown' = shown \/ shown' = [shown EXCEPT ![RowOf(g)] = @ + 1]
          /\ landed' = landed \cup {g} /\ deletion' = deletion
      BY <2>4 DEF Adopt
    <3>2. \A r \in Row : shown[r] > 0 => shown'[r] > 0
      BY <1>t, <3>1
    <3>3. f \in landed /\ Stored(f)
      BY <1>S, <2>1, <2>4, <3>1
    <3>4. Shows(f) => Shows(f)'
      BY <3>2 DEF Shows
    <3>5. \A l \in Load : Brings(l, f) => Brings(l, f)'
      BY <2>1 DEF Brings
    <3> QED
      BY <1>v, <2>1, <3>3, <3>4, <3>5
  <2> QED
    BY <1>6, <2>2, <2>3, <2>4 DEF Uploaded
<1>7. ASSUME NEW s \in Row, RemoveRowChip(s) PROVE Goal
  <2>1. /\ UNCHANGED <<active, row, load, landed>> /\ deletion' = deletion \cup {s}
        /\ shown' = [shown EXCEPT ![s] = 0]
    BY <1>7 DEF RemoveRowChip, serverVars, history
  <2>2. FileOf(s) # f
    BY <2>1 DEF Stored
  <2>3. Shows(f) => Shows(f)'
    BY <1>t, <2>1, <2>2 DEF Shows
  <2>4. \A l \in Load : Brings(l, f) => Brings(l, f)'
    BY <2>1 DEF Brings
  <2> QED
    BY <1>v, <1>S, <2>1, <2>3, <2>4
\* ... and a load goes on to the list of the conversation that is open.
<1>8. ASSUME NEW k \in Load, NEW c \in Conversation, SelectConversation(c, k) PROVE Goal
  <2>1. load' = [load EXCEPT ![k] = [NoLoad EXCEPT !.pc = "messages", !.conversation = c]]
    BY <1>8 DEF SelectConversation, StartLoad
  <2>2. load'[k].pc = "messages"
    BY <1>t, <2>1 DEF NoLoad
  <2> QED
    BY <2>2 DEF Brings
<1>9. ASSUME NEW k \in Load, LoadFiles(k) PROVE Goal
  <2>1. UNCHANGED <<active, shown, landed, row, deletion>>
    BY <1>9 DEF LoadFiles, serverVars, history
  <2>2. active # NoConversation
    BY <1>h, <1>t, <2>1, ComposerAssumption
  <2>3. load' = [load EXCEPT ![k].pc = "files", ![k].conversation = active]
    BY <1>9, <2>2 DEF LoadFiles
  <2>4. load'[k].pc = "files" /\ load'[k].conversation = active
    BY <1>t, <2>3 DEF LoadRecord
  <2> QED
    BY <2>1, <2>4 DEF Brings
<1>m. ASSUME NEW k \in Load, ReadMessages(k) PROVE Goal
  <2> DEFINE some == {r \in used : home[FileOf(r)] = load[k].conversation}
  <2>1. load' = [load EXCEPT ![k].pc = "read", ![k].used = some]
    BY <1>m DEF ReadMessages
  <2> HIDE DEF some
  <2>2. load'[k].pc = "read"
    BY <1>t, <2>1 DEF LoadRecord
  <2> QED
    BY <2>2 DEF Brings
<1>10. ASSUME NEW k \in Load, ReadFiles(k) PROVE Goal
  <2> DEFINE rows == {r \in Row : row[r] = "stored" /\ home[FileOf(r)] = load[k].conversation}
  <2>1. /\ UNCHANGED <<active, shown, landed, row, deletion, home>> /\ load[k].pc = "files"
        /\ load' = [load EXCEPT ![k].pc = "listed", ![k].rows = rows]
    BY <1>10 DEF ReadFiles, serverVars, history
  <2>2. CASE load[k].conversation = active
    <3>1. PICK r \in Row : FileOf(r) = f /\ row[r] # "none"
      BY <2>1 DEF Landed
    <3>2. row[r] = "stored" /\ r \notin used
      <4>1. row'[r] # "deleted" /\ r \notin used
        BY <1>i, <3>1 DEF Stored
      <4> QED
        BY <1>t, <2>1, <3>1, <4>1
    <3>3. r \in rows
      BY <2>1, <2>2, <3>1, <3>2
    <3> HIDE DEF rows
    <3>4. /\ load'[k].pc = "listed" /\ load'[k].rows = rows
          /\ load'[k].conversation = active /\ load'[k].used = load[k].used
      BY <1>t, <2>1, <2>2 DEF LoadRecord
    <3> QED
      BY <1>i, <2>1, <3>1, <3>2, <3>3, <3>4 DEF Brings
  <2>3. CASE load[k].conversation # active
    <3> HIDE DEF rows
    <3>1. \A l \in Load : l # k => load'[l] = load[l]
      BY <1>t, <2>1
    <3>2. Shows(f)' <=> Shows(f)
      BY <2>1 DEF Shows
    <3>3. \A l \in Load : l # k => (Brings(l, f)' <=> Brings(l, f))
      BY <2>1, <3>1 DEF Brings
    <3>4. ~Brings(k, f)
      BY <2>1, <2>3 DEF Brings
    <3>5. Stored(f)
      BY <1>S, <2>1
    <3> QED
      BY <1>v, <2>1, <3>2, <3>3, <3>4, <3>5
  <2> QED
    BY <2>2, <2>3
<1>11. ASSUME NEW k \in Load, RestoreChips(k) PROVE Goal
  <2>1. /\ UNCHANGED <<active, landed, row, deletion>> /\ load[k].pc = "listed"
        /\ load' = [load EXCEPT ![k] = NoLoad]
    BY <1>11 DEF RestoreChips, serverVars, history
  <2>2. \A r \in Row : shown[r] > 0 => shown'[r] > 0
    BY <1>t, <1>11 DEF RestoreChips
  <2>3. Shows(f) => Shows(f)'
    BY <2>2 DEF Shows
  <2>4. ASSUME Brings(k, f) PROVE Shows(f)'
    <3>1. load[k].conversation = active /\ \E r \in load[k].rows \ load[k].used : FileOf(r) = f
      BY <2>1, <2>4 DEF Brings
    <3>2. PICK r \in load[k].rows \ load[k].used : FileOf(r) = f
      BY <3>1
    <3>3. r \in Row
      BY <1>t, <3>2 DEF LoadRecord
    <3>4. shown'[r] > 0
      BY <1>t, <1>11, <3>1, <3>2, <3>3 DEF RestoreChips
    <3> QED
      BY <3>2, <3>3, <3>4 DEF Shows
  <2>5. \A l \in Load : l # k => load'[l] = load[l]
    BY <1>t, <2>1
  <2>6. \A l \in Load : l # k => (Brings(l, f) => Brings(l, f)')
    BY <2>1, <2>5 DEF Brings
  <2>7. Stored(f)
    BY <1>S, <2>1
  <2> QED
    BY <1>v, <2>1, <2>3, <2>4, <2>6, <2>7
\* ... and the end of a turn clears no chip of a file that is still said to be there.
<1>c. ASSUME Finish, row' = row, deletion' = deletion
      PROVE  f \in landed /\ Stored(f) /\ (Shows(f) => Shows(f)')
  <2>1. CASE turn.attached
    <3>1. PICK rows \in SUBSET Shown :
            /\ shown' = [r \in Row |-> IF r \in rows THEN 0 ELSE shown[r]]
            /\ landed' = landed \ {FileOf(r) : r \in rows}
      BY <1>c, <2>1 DEF Finish
    <3>2. \A r \in Row : FileOf(r) = f => shown'[r] = shown[r]
      BY <3>1
    <3> QED
      BY <1>c, <1>S, <3>1, <3>2 DEF Shows
  <2>2. CASE ~turn.attached
    <3>1. UNCHANGED <<shown, landed>>
      BY <1>c, <2>2 DEF Finish
    <3> QED
      BY <1>c, <1>S, <3>1 DEF Shows
  <2> QED
    BY <2>1, <2>2
<1>12. ASSUME EndTurn \/ (\E l \in Load : TurnFails(l)) PROVE Goal
  <2>1. active' = active /\ row' = row /\ deletion' = deletion /\ Finish
    BY <1>12 DEF EndTurn, TurnFails, serverVars
  <2>2. CASE load' = load
    <3>1. \A l \in Load : Brings(l, f)' <=> Brings(l, f)
      BY <2>1, <2>2 DEF Brings
    <3> QED
      BY <1>c, <1>v, <2>1, <3>1
  <2>3. CASE \E l \in Load : StartLoad(l, active)
    <3>1. PICK l \in Load : load' = [load EXCEPT ![l] = [NoLoad EXCEPT !.pc = "messages", !.conversation = active]]
      BY <2>3 DEF StartLoad
    <3>2. load'[l].pc = "messages"
      BY <1>t, <3>1 DEF NoLoad
    <3> QED
      BY <3>2 DEF Brings
  <2> QED
    BY <1>12, <2>2, <2>3 DEF EndTurn, TurnFails
<1>a. ASSUME SendFiles \/ CheckFiles \/ AcceptTurn PROVE Goal
  <2>1. UNCHANGED <<active, shown, load, landed, row, deletion>>
    BY <1>a DEF SendFiles, CheckFiles, AcceptTurn, serverVars, history
  <2> QED
    BY <1>s, <1>S, <2>1
<1>13. UNCHANGED vars => Goal
  <2> SUFFICES ASSUME UNCHANGED vars PROVE Goal
    OBVIOUS
  <2>1. UNCHANGED <<active, shown, load, landed, row, deletion>>
    BY DEF vars, serverVars, history
  <2> QED
    BY <1>s, <1>S, <2>1
<1> HIDE DEF Goal
<1>14. Goal
  BY <1>1, <1>2, <1>3, <1>4, <1>5, <1>6, <1>7, <1>8, <1>9, <1>m, <1>10, <1>11, <1>12, <1>a, <1>13 DEF Next
<1> QED
  BY <1>14 DEF Goal

\* All of it together.
Sound == Bounds /\ Credit /\ RowsMade /\ Known /\ Drafts /\ Landed /\ Visible

LEMMA SoundInit == Init => Sound
<1> SUFFICES ASSUME Init PROVE Sound
  OBVIOUS
<1>1. Bounds /\ Credit
  BY CreditInit, ComposerAssumption DEF Init, Bounds
<1>2. RowsMade
  BY DEF Init, RowsMade, NoLoad
<1>3. Known /\ Drafts /\ Landed /\ Visible
  BY DEF Init, Known, Drafts, Landed, Visible, NoLoad
<1> QED
  BY <1>1, <1>2, <1>3 DEF Sound

LEMMA SoundStep ==
    ASSUME Waiting, Sound, [Next]_vars
    PROVE  Sound'
BY BoundsStep, CreditStep, RowsMadeStep, KnownStep, DraftsStep, LandedStep, VisibleStep DEF Sound, Waiting

LEMMA AlwaysSound == Spec => []Sound
<1>1. Init => Sound
  BY SoundInit
<1>2. Waiting /\ Sound /\ [Next]_vars => Sound'
  BY SoundStep
<1> QED
  BY <1>1, <1>2, AlwaysWaiting, PTL DEF Spec

\* However transfers fail, are retried, overtake each other or are dropped, every
\* upload of a file but the first is paid for by a failure (uploadQueue.ts:84).
THEOREM UploadsArePaid ==
    Spec => []\A f \in File : attempt[f] + Cardinality({g \in File : chip[g] = "error"}) <= 1 + faults
<1>1. ASSUME Waiting, Sound
      PROVE  \A f \in File : attempt[f] + Cardinality({g \in File : chip[g] = "error"}) <= 1 + faults
  <2> SUFFICES ASSUME NEW f \in File PROVE attempt[f] + Cardinality(Failed) <= 1 + faults
    BY DEF Failed
  <2>1. attempt[f] \in Nat /\ Cost(f) \in Nat /\ attempt[f] <= Cost(f)
    BY <1>1, CostIs
  <2>2. Cardinality(Failed) \in Nat /\ faults \in Nat /\ Cost(f) + Cardinality(Failed) <= 1 + faults
    BY <1>1, FS_CardinalityType, ComposerAssumption DEF Sound, Credit, Bounds
  <2> QED
    BY <2>1, <2>2
<1> QED
  BY <1>1, AlwaysWaiting, AlwaysSound, PTL

\* The type invariant; its bounds say that failures pay for uploads, and that
\* no row has more than two chips.
THEOREM TypeCorrect == Spec => []TypeOK
<1>1. ASSUME Waiting, Sound PROVE TypeOK
  <2>1. attempt \in [File -> 0..MaxFault + 1]
    BY <1>1, SentAtMost DEF Sound
  <2>2. shown \in [Row -> 0..2]
    BY SMTT(30), <1>1 DEF Waiting, Typed, Sound, RowsMade
  <2>3. deletion \subseteq Row /\ landed \subseteq File /\ moves \in 0..MaxMove /\ faults \in 0..MaxFault
    BY <1>1 DEF Sound, RowsMade, Landed, Bounds
  <2> QED
    BY <1>1, <2>1, <2>2, <2>3 DEF TypeOK, Waiting, Typed, Queue, TransferState, TurnRecord
<1> QED
  BY <1>1, AlwaysWaiting, AlwaysSound, PTL

\* An upload that landed and stayed is among the chips of its conversation whenever that is
\* open and nothing is being loaded: ChatView.vue:546 "so a finished upload is never invisible".
THEOREM NoUploadIsLost == Spec => []UploadsStayVisible
<1>1. ASSUME Sound PROVE UploadsStayVisible
  <2> SUFFICES ASSUME \A l \in Load : load[l] = NoLoad, NEW f \in landed, home[f] = active,
                      \A r \in {s \in Row : FileOf(s) = f} : row[r] # "deleted" /\ r \notin deletion \cup used
               PROVE  \E r \in {s \in Row : FileOf(s) = f} : shown[r] > 0
    BY DEF UploadsStayVisible
  <2>1. Stored(f)
    BY DEF Stored
  <2>2. \A l \in Load : ~Brings(l, f)
    BY DEF Brings, NoLoad
  <2>3. Shows(f)
    BY <1>1, <2>1, <2>2 DEF Sound, Visible
  <2> QED
    BY <2>3 DEF Shows
<1> QED
  BY <1>1, AlwaysSound, PTL
=============================================================================
