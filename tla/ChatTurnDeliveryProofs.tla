----------------------- MODULE ChatTurnDeliveryProofs -----------------------
(***************************************************************************)
(* Theorems about ChatTurn: what every reader of every answer receives,    *)
(* that this is what AnswerStream promises, what a Stop may write and how   *)
(* it comes to its end.                                                     *)
(***************************************************************************)
EXTENDS ChatTurnRowProofs, WellFoundedInduction

USE DEF Feed, MessageId, UserRow, AssistantRow

-----------------------------------------------------------------------------
(* Queues of events. *)

\* The queue q continues a text of n chunks.
Continues(n, q) ==
    \A i \in 1..Len(q) :
        /\ q[i].type = "delta" => q[i].chunk = n + i
        /\ q[i].type # "delta" => i = Len(q)

HasEnd(q) == q # <<>> /\ q[Len(q)].type # "delta"
Waiting(q) == IF HasEnd(q) THEN Len(q) - 1 ELSE Len(q)

\* What Append does to a queue.
LEMMA AppendFacts ==
    ASSUME NEW q \in Seq(Event), NEW e \in Event
    PROVE  /\ Append(q, e) \in Seq(Event) /\ Append(q, e) # <<>>
           /\ Len(Append(q, e)) = Len(q) + 1 /\ Len(q) \in Nat
           /\ Append(q, e)[Len(q) + 1] = e
           /\ \A i \in 1..Len(q) : Append(q, e)[i] = q[i]
OBVIOUS

\* What Tail does to a queue.
LEMMA TailFacts ==
    ASSUME NEW q \in Seq(Event), q # <<>>
    PROVE  /\ Tail(q) \in Seq(Event)
           /\ Len(Tail(q)) = Len(q) - 1 /\ Len(q) \in Nat \ {0}
           /\ Head(q) = q[1] /\ Head(q) \in Event
           /\ \A i \in 1..Len(Tail(q)) : Tail(q)[i] = q[i + 1]
OBVIOUS

\* Only the empty queue has no events.
LEMMA NoEvents == ASSUME NEW q \in Seq(Event) PROVE q = <<>> <=> Len(q) = 0
OBVIOUS

\* An empty queue continues every text.
LEMMA EmptyQueue == ASSUME NEW n \in Nat
                    PROVE  Continues(n, <<>>) /\ ~HasEnd(<<>>) /\ Waiting(<<>>) = 0
BY DEF Continues, HasEnd, Waiting

\* The next delta is published.
LEMMA DeltaAppended ==
    ASSUME NEW n \in Nat, NEW q \in Seq(Event), NEW e \in Event, Continues(n, q), ~HasEnd(q),
           e.type = "delta", e.chunk = n + Waiting(q) + 1
    PROVE  /\ Continues(n, Append(q, e)) /\ ~HasEnd(Append(q, e))
           /\ Waiting(Append(q, e)) = Waiting(q) + 1
<1> DEFINE a == Append(q, e)
<1>1. \A i \in 1..Len(q) : q[i].type = "delta"
  BY AppendFacts DEF Continues, HasEnd
<1>2. \A i \in 1..Len(a) : (i \in 1..Len(q) /\ a[i] = q[i]) \/ (i = Len(q) + 1 /\ a[i] = e)
  BY AppendFacts
<1>3. Waiting(q) = Len(q)
  BY DEF Waiting
<1>4. Continues(n, a)
  BY <1>1, <1>2, <1>3 DEF Continues
<1>5. ~HasEnd(a)
  BY AppendFacts DEF HasEnd
<1> QED
  BY <1>3, <1>4, <1>5, AppendFacts DEF Waiting

\* A terminal event is published.
LEMMA EndAppended ==
    ASSUME NEW n \in Nat, NEW q \in Seq(Event), NEW e \in Event, Continues(n, q), ~HasEnd(q),
           e.type # "delta"
    PROVE  /\ Continues(n, Append(q, e)) /\ HasEnd(Append(q, e))
           /\ Waiting(Append(q, e)) = Waiting(q)
           /\ Append(q, e)[Len(Append(q, e))] = e
<1> DEFINE a == Append(q, e)
<1>1. \A i \in 1..Len(q) : q[i].type = "delta"
  BY AppendFacts DEF Continues, HasEnd
<1>2. \A i \in 1..Len(a) : (i \in 1..Len(q) /\ a[i] = q[i]) \/ (i = Len(q) + 1 /\ a[i] = e)
  BY AppendFacts
<1>4. Continues(n, a)
  BY <1>1, <1>2, AppendFacts DEF Continues
<1>5. HasEnd(a)
  BY AppendFacts DEF HasEnd
<1> QED
  BY <1>4, <1>5, AppendFacts DEF Waiting

\* A delta is taken from the queue.
LEMMA DeltaTaken ==
    ASSUME NEW n \in Nat, NEW q \in Seq(Event), q # <<>>, Continues(n, q), Head(q).type = "delta"
    PROVE  /\ Head(q).chunk = n + 1 /\ Continues(n + 1, Tail(q))
           /\ HasEnd(Tail(q)) <=> HasEnd(q)
           /\ Waiting(q) = Waiting(Tail(q)) + 1 /\ Waiting(Tail(q)) \in Nat
           /\ HasEnd(q) => Tail(q)[Len(Tail(q))] = q[Len(q)]
<1> DEFINE t == Tail(q)
<1>1. Head(q).chunk = n + 1
  BY TailFacts DEF Continues
<1>2. Continues(n + 1, t)
  <2> SUFFICES ASSUME NEW i \in 1..Len(t)
               PROVE  /\ t[i].type = "delta" => t[i].chunk = n + 1 + i
                      /\ t[i].type # "delta" => i = Len(t)
    BY DEF Continues
  <2>1. i + 1 \in 1..Len(q) /\ t[i] = q[i + 1]
    BY TailFacts
  <2>2. /\ q[i + 1].type = "delta" => q[i + 1].chunk = n + (i + 1)
        /\ q[i + 1].type # "delta" => i + 1 = Len(q)
    BY <2>1 DEF Continues
  <2> QED
    BY <2>1, <2>2, TailFacts
<1>3. t = <<>> => Len(q) = 1 /\ ~HasEnd(q)
  <2>1. t = <<>> => Len(t) = 0
    BY TailFacts, NoEvents
  <2>2. t = <<>> => Len(q) = 1 /\ q[1] = Head(q)
    BY <2>1, TailFacts
  <2> QED
    BY <2>2 DEF HasEnd
<1>4. t # <<>> => Len(t) \in 1..Len(t) /\ t[Len(t)] = q[Len(q)]
  BY TailFacts
<1>5. HasEnd(t) <=> HasEnd(q)
  BY <1>3, <1>4 DEF HasEnd
<1>6. HasEnd(q) => t # <<>>
  BY <1>3
<1>7. Waiting(q) = Waiting(t) + 1 /\ Waiting(t) \in Nat
  BY <1>5, <1>6, TailFacts DEF Waiting
<1> QED
  BY <1>1, <1>2, <1>4, <1>5, <1>6, <1>7

\* A terminal event is taken from the queue: it was the last.
LEMMA EndTaken ==
    ASSUME NEW n \in Nat, NEW q \in Seq(Event), q # <<>>, Continues(n, q), Head(q).type # "delta"
    PROVE  Tail(q) = <<>> /\ HasEnd(q) /\ Waiting(q) = 0 /\ q[Len(q)] = Head(q) /\ Len(q) = 1
<1>1. 1 \in 1..Len(q) /\ q[1] = Head(q)
  BY TailFacts
<1>2. Len(q) = 1
  BY <1>1 DEF Continues
<1>3. Len(Tail(q)) = 0 /\ Tail(q) \in Seq(Event)
  BY <1>2, TailFacts
<1>4. Tail(q) = <<>>
  BY <1>3, NoEvents
<1>5. HasEnd(q)
  BY <1>1, <1>2 DEF HasEnd
<1> QED
  BY <1>1, <1>2, <1>4, <1>5 DEF Waiting

-----------------------------------------------------------------------------
(* Nobody has more of an answer than there is. *)

\* A generation only receives: by one chunk when the provider yields it.
LEMMA ContentGrows ==
    ASSUME TypeOK, Next, NEW t \in Send
    PROVE  /\ loop[t].content \in Nat
           /\ \/ loop'[t].content = loop[t].content
              \/ /\ loop'[t].content = loop[t].content + 1
                 /\ ReceiveDelta(t)
<1> DEFINE Grown == \/ loop'[t].content = loop[t].content
                    \/ loop'[t].content = loop[t].content + 1 /\ ReceiveDelta(t)
<1>l. loop \in [Send -> Loop] /\ loop[t] \in Loop
  BY DEF TypeOK
<1>c. loop[t].content \in Nat
  BY <1>l, Constants DEF Loop
<1>1. ASSUME NEW s \in Send, AcceptTurn(s)
      PROVE  Grown
  <2>1. PICK u \in Send :
          \/ loop' = [loop EXCEPT ![s].pc = "accepted", ![s].anchor = u]
          \/ loop' = [loop EXCEPT ![s].pc = "accepted"]
    BY <1>1 DEF AcceptTurn, ReplayMatches
  <2> QED
    BY <2>1, <1>l DEF Loop
<1>2. ASSUME NEW s \in Send, PersistAssistantRow(s) \/ StartGeneration(s)
      PROVE  Grown
  BY <1>2, <1>l DEF PersistAssistantRow, StartGeneration, Loop
<1>3. ASSUME NEW s \in Send, EndSearch(s) \/ DiscardAfterStop(s) \/ EndOfStream(s) \/ ProviderThrows(s)
      PROVE  Grown
  BY <1>3, <1>l DEF EndSearch, DiscardAfterStop, EndOfStream, ProviderThrows, Finalize, Loop
<1>4. ASSUME NEW s \in Send, ReceiveDelta(s)
      PROVE  Grown
  <2>1. CASE s = t
    <3>1. loop'[t].content = loop[t].content + 1
      BY <1>4, <2>1, <1>l, <1>c DEF ReceiveDelta, Loop
    <3> QED
      BY <1>4, <2>1, <3>1
  <2>2. CASE s # t
    BY <1>4, <2>2, <1>l DEF ReceiveDelta
  <2> QED
    BY <2>1, <2>2
<1>5. ASSUME NEW s \in Send, PersistFirstDelta(s) \/ PersistProgress(s) \/ PersistThrows(s)
      PROVE  Grown
  BY <1>5, <1>l DEF PersistFirstDelta, PersistProgress, PersistThrows, AfterDelta, Finalize, Loop
<1>6. ASSUME NEW s \in Send, SwitchToFallback(s) \/ RecordFallbackModel(s)
      PROVE  Grown
  BY <1>6, <1>l DEF SwitchToFallback, RecordFallbackModel, Finalize, Loop
<1>7. ASSUME NEW s \in Send, SaveTerminalRow(s) \/ SaveThrows(s) \/ PublishTerminal(s)
                              \/ AccountAndUnregister(s)
      PROVE  Grown
  BY <1>7, <1>l
  DEF SaveTerminalRow, SaveThrows, PublishTerminal, AccountAndUnregister, Finalize, Loop
<1>8. ASSUME Crash PROVE Grown
  BY <1>8, CrashedLoop
<1>9. ASSUME UNCHANGED loop PROVE Grown
  BY <1>9
<1>10. ASSUME NEW r \in Reconnect, ReadForReconnect(r) \/ ReconnectStep(r)
      PROVE  Grown
  BY <1>9, <1>10 DEF ReadForReconnect, ReconnectStep, ReplayRow, AttachLive, MarkOrphan
<1>11. ASSUME NEW f \in Feed, Deliver(f) \/ Disconnect(f)
      PROVE  Grown
  BY <1>9, <1>11 DEF Deliver, Disconnect
<1>12. ASSUME NEW p \in Stop, ReadOpenRows(p) \/ StopStep(p)
      PROVE  Grown
  BY <1>9, <1>12 DEF ReadOpenRows, StopStep, StopNextRow, StopSettles, StopMarksOrphan
<1> QED
  BY <1>c, <1>1, <1>2, <1>3, <1>4, <1>5, <1>6, <1>7, <1>8, <1>10, <1>11, <1>12
  DEF Next, GenerationStep

\* What is published, saved or was read is within what the loop has received.
Published == \A t \in Send : registry[t].content <= loop[t].content
Saved == \A t \in Send : row[t].content <= loop[t].content
ReadRows ==
    /\ \A p \in Stop : \A item \in stop[p].todo : item.seen.content <= loop[item.id].content
    /\ \A f \in Feed : feed[f].seen.content <= loop[feed[f].of].content
Within == Published /\ Saved /\ ReadRows

\* Nothing is published, saved or read at first.
LEMMA WithinInit == Init => Within
<1> SUFFICES ASSUME Init PROVE Within
  OBVIOUS
<1>1. \A t \in Send : registry[t].content = 0 /\ loop[t].content = 0 /\ row[t].content = 0
  BY DEF Init, BlankRow
<1>2. \A f \in Feed : feed[f].of \in Send /\ feed[f].seen = BlankRow(feed[f].of)
  BY SomeSend DEF Init
<1>3. \A p \in Stop : stop[p].todo = {}
  BY DEF Init
<1>4. Published /\ Saved
  BY <1>1 DEF Published, Saved
<1>5. \A f \in Feed : feed[f].seen.content = 0
  <2>1. \A s \in Send : BlankRow(s).content = 0
    BY DEF BlankRow
  <2> QED
    BY <1>2, <2>1
<1> QED
  BY <1>1, <1>2, <1>3, <1>4, <1>5 DEF Within, ReadRows

Reg == [live : BOOLEAN, content : Nat, aborted : BOOLEAN]

\* A published chunk is the one after those in the buffer, and was received.
LEMMA PublishedNext == TypeOK /\ Mirror /\ Published /\ Next => Published'
<1> SUFFICES ASSUME TypeOK, Mirror, Published, Next, NEW t \in Send
             PROVE  registry'[t].content <= loop'[t].content
  BY DEF Published
<1>l. loop \in [Send -> Loop] /\ loop[t] \in Loop /\ registry \in [Send -> Reg] /\ registry[t] \in Reg
  BY DEF TypeOK, Reg
<1>c. loop[t].content \in Nat /\ registry[t].content \in Nat /\ registry[t].content <= loop[t].content
  BY <1>l, Constants DEF Loop, Reg, Published
<1>m. Mirrored(t)
  BY DEF Mirror
<1>1. CASE registry'[t].content = registry[t].content \/ registry'[t].content = 0
  BY <1>1, <1>c, ContentGrows
<1>2. ASSUME NEW s \in Send, ReceiveDelta(s) \/ PersistFirstDelta(s)
      PROVE  registry'[t].content <= loop'[t].content
  <2>1. CASE s # t
    BY <1>1, <1>2, <2>1, <1>l DEF ReceiveDelta, PersistFirstDelta, PublishDelta
  <2>2. CASE s = t /\ ReceiveDelta(t)
    <3>1. \/ registry' = registry
          \/ registry' = [registry EXCEPT ![t].content = @ + 1] /\ registry[t].content = loop[t].content
      BY <2>2, <1>m DEF ReceiveDelta, PublishDelta, Mirrored, Running
    <3>2. registry' = [registry EXCEPT ![t].content = @ + 1] => registry'[t].content = registry[t].content + 1
      BY <1>l DEF Reg
    <3>3. loop'[t].content = loop[t].content + 1
      BY <2>2, <1>l, <1>c DEF ReceiveDelta, Loop
    <3> QED
      BY <3>1, <3>2, <3>3, <1>c
  <2>3. CASE s = t /\ PersistFirstDelta(t)
    <3>1. registry[t].content = 0 /\ loop[t].content = 1
      BY <2>3, <1>m DEF PersistFirstDelta, Mirrored
    <3>2. registry' = registry \/ registry' = [registry EXCEPT ![t].content = @ + 1]
      BY <2>3 DEF PersistFirstDelta, PublishDelta
    <3>3. registry'[t].content \in {0, 1}
      BY <3>1, <3>2, <1>l DEF Reg
    <3>4. loop'[t].content = loop[t].content
      BY <2>3, <1>l DEF PersistFirstDelta, AfterDelta, Loop
    <3> QED
      BY <3>1, <3>3, <3>4
  <2> QED
    BY <1>2, <2>1, <2>2, <2>3
<1>3. ASSUME NEW s \in Send, StartGeneration(s) \/ AccountAndUnregister(s)
      PROVE  registry'[t].content <= loop'[t].content
  BY <1>1, <1>3, <1>l DEF StartGeneration, AccountAndUnregister, NoGeneration
<1>4. CASE Crash
  BY <1>1, <1>4 DEF Crash, NoGeneration
<1>5. ASSUME NEW p \in Stop, StopNextRow(p)
      PROVE  registry'[t].content <= loop'[t].content
  <2>1. registry'[t].content = registry[t].content
    BY <1>5, <1>l DEF StopNextRow, Reg
  <2> QED
    BY <2>1, <1>1
<1>6. ASSUME UNCHANGED registry
      PROVE  registry'[t].content <= loop'[t].content
  BY <1>1, <1>6
<1>7. ASSUME NEW s \in Send,
             \/ AcceptTurn(s) \/ PersistAssistantRow(s) \/ EndSearch(s) \/ DiscardAfterStop(s)
             \/ PersistProgress(s) \/ PersistThrows(s) \/ EndOfStream(s) \/ ProviderThrows(s)
             \/ SwitchToFallback(s) \/ RecordFallbackModel(s) \/ SaveTerminalRow(s)
             \/ SaveThrows(s) \/ PublishTerminal(s)
      PROVE  registry'[t].content <= loop'[t].content
  BY <1>6, <1>7
  DEF AcceptTurn, PersistAssistantRow, EndSearch, DiscardAfterStop, PersistProgress,
      PersistThrows, EndOfStream, ProviderThrows, SwitchToFallback, RecordFallbackModel,
      SaveTerminalRow, SaveThrows, PublishTerminal
<1>8. ASSUME NEW r \in Reconnect, ReadForReconnect(r) \/ ReconnectStep(r)
      PROVE  registry'[t].content <= loop'[t].content
  BY <1>6, <1>8 DEF ReadForReconnect, ReconnectStep, ReplayRow, AttachLive, MarkOrphan
<1>9. ASSUME NEW f \in Feed, Deliver(f) \/ Disconnect(f)
      PROVE  registry'[t].content <= loop'[t].content
  BY <1>6, <1>9 DEF Deliver, Disconnect
<1>10. ASSUME NEW p \in Stop, ReadOpenRows(p) \/ StopStep(p)
      PROVE  registry'[t].content <= loop'[t].content
  BY <1>5, <1>6, <1>10 DEF ReadOpenRows, StopStep, StopSettles, StopMarksOrphan
<1> QED
  BY <1>2, <1>3, <1>4, <1>7, <1>8, <1>9, <1>10 DEF Next, GenerationStep

\* Rows are written with what a loop has, or with what was read of them.
LEMMA SavedNext == TypeOK /\ Within /\ Next => Saved'
<1> SUFFICES ASSUME TypeOK, Within, Next, NEW t \in Send
             PROVE  row'[t].content <= loop'[t].content
  BY DEF Saved
<1>l. loop \in [Send -> Loop] /\ loop[t] \in Loop /\ row \in [Send -> Row] /\ row[t] \in Row
  BY DEF TypeOK
<1>c. loop[t].content \in Nat /\ row[t].content \in Nat /\ row[t].content <= loop[t].content
  BY <1>l, Constants DEF Loop, Row, Within, Saved
<1>1. ASSUME row'[t].content = row[t].content \/ row'[t].content = loop[t].content
      PROVE  row'[t].content <= loop'[t].content
  BY <1>1, <1>c, ContentGrows
<1>2. ASSUME NEW seen \in Row, NEW s \in Send, row' = MarkedInterrupted(s, seen),
             seen.content <= loop[s].content
      PROVE  row'[t].content <= loop'[t].content
  <2>1. [seen EXCEPT !.status = "interrupted"].content = seen.content
    BY DEF Row
  <2>2. row'[t].content = IF t = s THEN seen.content ELSE row[t].content
    BY <1>2, <2>1, <1>l DEF MarkedInterrupted
  <2>3. seen.content \in Nat
    BY Constants DEF Row
  <2>4. row'[t].content \in Nat /\ row'[t].content <= loop[t].content
    BY <1>2, <2>2, <2>3, <1>c
  <2> QED
    BY <2>4, <1>c, ContentGrows
<1>3. ASSUME NEW s \in Send,
             \/ PersistAssistantRow(s) \/ PersistFirstDelta(s) \/ PersistProgress(s)
             \/ SwitchToFallback(s) \/ SaveTerminalRow(s)
      PROVE  row'[t].content <= loop'[t].content
  BY <1>1, <1>3, <1>l
  DEF PersistAssistantRow, PersistFirstDelta, PersistProgress, Progress, SwitchToFallback,
      SaveTerminalRow, Row
<1>4. ASSUME UNCHANGED row
      PROVE  row'[t].content <= loop'[t].content
  BY <1>1, <1>4
<1>5. ASSUME NEW s \in Send,
             \/ AcceptTurn(s) \/ StartGeneration(s) \/ EndSearch(s) \/ DiscardAfterStop(s)
             \/ ReceiveDelta(s) \/ PersistThrows(s) \/ EndOfStream(s) \/ ProviderThrows(s)
             \/ RecordFallbackModel(s) \/ SaveThrows(s) \/ PublishTerminal(s)
             \/ AccountAndUnregister(s)
      PROVE  row'[t].content <= loop'[t].content
  BY <1>4, <1>5
  DEF AcceptTurn, StartGeneration, EndSearch, DiscardAfterStop, ReceiveDelta, PersistThrows,
      EndOfStream, ProviderThrows, RecordFallbackModel, SaveThrows, PublishTerminal,
      AccountAndUnregister
<1>6. ASSUME NEW r \in Reconnect, MarkOrphan(r)
      PROVE  row'[t].content <= loop'[t].content
  <2>1. feed[r].of \in Send /\ feed[r].seen \in Row
    BY DEF TypeOK, FeedRecord
  <2>2. feed[r].seen.content <= loop[feed[r].of].content
    BY DEF Within, ReadRows
  <2> QED
    BY <1>2, <1>4, <1>6, <2>1, <2>2 DEF MarkOrphan
<1>7. ASSUME NEW r \in Reconnect, ReadForReconnect(r) \/ ReconnectStep(r)
      PROVE  row'[t].content <= loop'[t].content
  BY <1>4, <1>6, <1>7 DEF ReadForReconnect, ReconnectStep, ReplayRow, AttachLive
<1>8. ASSUME NEW f \in Feed, Deliver(f) \/ Disconnect(f)
      PROVE  row'[t].content <= loop'[t].content
  BY <1>4, <1>8 DEF Deliver, Disconnect
<1>9. ASSUME NEW p \in Stop, StopMarksOrphan(p)
      PROVE  row'[t].content <= loop'[t].content
  <2>1. PICK item \in stop[p].todo :
          row' = MarkedInterrupted(item.id, item.seen) \/ UNCHANGED row
    BY <1>9 DEF StopMarksOrphan
  <2>2. item.id \in Send /\ item.seen \in Row
    BY DEF TypeOK, StopRecord
  <2>3. item.seen.content <= loop[item.id].content
    BY DEF Within, ReadRows
  <2> QED
    BY <1>2, <1>4, <2>1, <2>2, <2>3
<1>10. ASSUME NEW p \in Stop, ReadOpenRows(p) \/ StopStep(p)
      PROVE  row'[t].content <= loop'[t].content
  BY <1>4, <1>9, <1>10 DEF ReadOpenRows, StopStep, StopNextRow, StopSettles
<1>11. ASSUME Crash
      PROVE  row'[t].content <= loop'[t].content
  BY <1>4, <1>11 DEF Crash
<1> QED
  BY <1>3, <1>5, <1>7, <1>8, <1>10, <1>11 DEF Next, GenerationStep

\* What a feed or a Stop looks at is what it looked at, or a row just read.
LEMMA SeenStays ==
    ASSUME TypeOK, Next
    PROVE  /\ \A f \in Feed :
                \/ feed'[f].of = feed[f].of /\ feed'[f].seen = feed[f].seen
                \/ feed'[f].of \in Send /\ feed'[f].seen = row[feed'[f].of]
           /\ \A p \in Stop :
                \/ stop'[p].todo \subseteq stop[p].todo
                \/ \A item \in stop'[p].todo : item.id \in Send /\ item.seen = row[item.id]
<1>f. feed \in [Feed -> FeedRecord]
  BY DEF TypeOK
<1>s. stop \in [Stop -> StopRecord]
  BY DEF TypeOK
<1> DEFINE FeedsStay(f) == feed'[f].of = feed[f].of /\ feed'[f].seen = feed[f].seen
           FeedsRead(f) == feed'[f].of \in Send /\ feed'[f].seen = row[feed'[f].of]
           StopsStay(p) == stop'[p].todo \subseteq stop[p].todo
           StopsRead(p) == \A item \in stop'[p].todo : item.id \in Send /\ item.seen = row[item.id]
<1>1. ASSUME NEW g \in Feed PROVE FeedsStay(g) \/ FeedsRead(g)
  <2>r. feed[g] \in FeedRecord
    BY <1>f
  <2>0. ASSUME UNCHANGED feed PROVE FeedsStay(g)
    BY <2>0
  <2>p. ASSUME NEW s \in Send, NEW e, Publish(s, e)
        PROVE  FeedsStay(g)
    BY <2>p, <2>r DEF Publish, FeedRecord
  <2>1. ASSUME NEW s \in Send,
               \/ ReceiveDelta(s) \/ PersistFirstDelta(s) \/ PublishTerminal(s)
        PROVE  FeedsStay(g)
    BY <2>0, <2>1, <2>p DEF ReceiveDelta, PersistFirstDelta, PublishTerminal, PublishDelta
  <2>2. ASSUME NEW s \in Send, StartGeneration(s)
        PROVE  FeedsStay(g)
    BY <2>2, <2>r, <1>f DEF StartGeneration, FeedRecord
  <2>3. ASSUME NEW s \in Send,
               \/ AcceptTurn(s) \/ PersistAssistantRow(s) \/ EndSearch(s) \/ DiscardAfterStop(s)
               \/ PersistProgress(s) \/ PersistThrows(s) \/ EndOfStream(s) \/ ProviderThrows(s)
               \/ SwitchToFallback(s) \/ RecordFallbackModel(s) \/ SaveTerminalRow(s)
               \/ SaveThrows(s) \/ AccountAndUnregister(s)
        PROVE  FeedsStay(g)
    BY <2>0, <2>3
    DEF AcceptTurn, PersistAssistantRow, EndSearch, DiscardAfterStop, PersistProgress,
        PersistThrows, EndOfStream, ProviderThrows, SwitchToFallback, RecordFallbackModel,
        SaveTerminalRow, SaveThrows, AccountAndUnregister
  <2>4. ASSUME NEW r \in Reconnect, ReadForReconnect(r)
        PROVE  FeedsStay(g) \/ FeedsRead(g)
    <3>1. PICK s \in Send :
            feed' = [feed EXCEPT ![r].pc = "read", ![r].of = s, ![r].seen = row[s]]
      BY <2>4 DEF ReadForReconnect
    <3>2. CASE g = r
      <4>1. feed'[g].of = s /\ feed'[g].seen = row[s]
        BY <3>1, <3>2, <2>r, <1>f DEF FeedRecord
      <4> QED
        BY <4>1
    <3>3. CASE g # r
      BY <3>1, <3>3, <1>f
    <3> QED
      BY <3>2, <3>3
  <2>5. ASSUME NEW r \in Reconnect, ReplayRow(r) \/ AttachLive(r) \/ MarkOrphan(r)
        PROVE  FeedsStay(g)
    <3>1. CASE ReplayRow(r)
      BY <3>1, <2>r, <1>f DEF ReplayRow, FeedRecord
    <3>2. CASE AttachLive(r)
      BY <3>2, <2>r, <1>f DEF AttachLive, FeedRecord
    <3>3. CASE MarkOrphan(r)
      <4>1. PICK c \in {feed[r].copy, Chunks(feed[r].seen.content)} :
              feed' = [feed EXCEPT ![r].pc = "closed", ![r].end = "failed", ![r].copy = c]
              \/ feed' = [feed EXCEPT ![r].pc = "closed", ![r].end = "failed"]
        BY <3>3 DEF MarkOrphan
      <4>2. CASE feed' = [feed EXCEPT ![r].pc = "closed", ![r].end = "failed"]
        BY <4>2, <2>r, <1>f DEF FeedRecord
      <4>3. CASE feed' = [feed EXCEPT ![r].pc = "closed", ![r].end = "failed", ![r].copy = c]
        BY <4>3, <2>r, <1>f DEF FeedRecord
      <4> QED
        BY <4>1, <4>2, <4>3
    <3> QED
      BY <2>5, <3>1, <3>2, <3>3
  <2>6. ASSUME NEW f \in Feed, Deliver(f) \/ Disconnect(f)
        PROVE  FeedsStay(g)
    BY <2>6, <2>r, <1>f DEF Deliver, Disconnect, FeedRecord
  <2>7. ASSUME NEW p \in Stop, ReadOpenRows(p) \/ StopStep(p)
        PROVE  FeedsStay(g)
    BY <2>0, <2>7 DEF ReadOpenRows, StopStep, StopNextRow, StopSettles, StopMarksOrphan
  <2>8. ASSUME Crash
        PROVE  FeedsStay(g)
    <3> DEFINE r == feed[g]
    <3>1. [r EXCEPT !.pc = "lost", !.queue = <<>>].of = r.of
          /\ [r EXCEPT !.pc = "lost", !.queue = <<>>].seen = r.seen
      BY <2>r DEF FeedRecord
    <3>2. feed'[g] = r \/ feed'[g] = [r EXCEPT !.pc = "lost", !.queue = <<>>]
      BY <2>8 DEF Crash
    <3> QED
      BY <3>1, <3>2
  <2> QED
    BY <2>1, <2>2, <2>3, <2>4, <2>5, <2>6, <2>7, <2>8 DEF Next, GenerationStep, ReconnectStep
<1>2. ASSUME NEW q \in Stop PROVE StopsStay(q) \/ StopsRead(q)
  <2>r. stop[q] \in StopRecord
    BY <1>s
  <2>0. ASSUME UNCHANGED stop PROVE StopsStay(q)
    BY <2>0
  <2>1. ASSUME NEW s \in Send, AcceptTurn(s) \/ GenerationStep(s)
        PROVE  StopsStay(q)
    BY <2>0, <2>1
    DEF AcceptTurn, GenerationStep, PersistAssistantRow, StartGeneration, EndSearch,
        DiscardAfterStop, ReceiveDelta, PersistFirstDelta, PersistProgress, PersistThrows,
        EndOfStream, ProviderThrows, SwitchToFallback, RecordFallbackModel, SaveTerminalRow,
        SaveThrows, PublishTerminal, AccountAndUnregister
  <2>2. ASSUME NEW r \in Reconnect, ReadForReconnect(r) \/ ReconnectStep(r)
        PROVE  StopsStay(q)
    BY <2>0, <2>2 DEF ReadForReconnect, ReconnectStep, ReplayRow, AttachLive, MarkOrphan
  <2>3. ASSUME NEW f \in Feed, Deliver(f) \/ Disconnect(f)
        PROVE  StopsStay(q)
    BY <2>0, <2>3 DEF Deliver, Disconnect
  <2>4. ASSUME NEW p \in Stop, ReadOpenRows(p)
        PROVE  StopsStay(q) \/ StopsRead(q)
    BY <2>4, <2>r, <1>s DEF ReadOpenRows, StopRecord
  <2>5. ASSUME NEW p \in Stop, StopStep(p)
        PROVE  StopsStay(q)
    <3>1. CASE StopNextRow(p)
      BY <3>1, <2>r, <1>s DEF StopNextRow, StopRecord
    <3>2. CASE StopSettles(p)
      BY <3>2, <2>r, <1>s DEF StopSettles, StopRecord
    <3>3. CASE StopMarksOrphan(p)
      BY <3>3, <2>r, <1>s DEF StopMarksOrphan, StopRecord
    <3> QED
      BY <2>5, <3>1, <3>2, <3>3 DEF StopStep
  <2>6. ASSUME Crash
        PROVE  StopsStay(q)
    <3> DEFINE r == stop[q]
    <3>1. [r EXCEPT !.pc = "lost", !.todo = {}].todo = {}
      BY <2>r DEF StopRecord
    <3>2. stop'[q] = r \/ stop'[q] = [r EXCEPT !.pc = "lost", !.todo = {}]
      BY <2>6 DEF Crash
    <3> QED
      BY <3>1, <3>2
  <2> QED
    BY <2>1, <2>2, <2>3, <2>4, <2>5, <2>6 DEF Next
<1> QED
  BY <1>1, <1>2

\* Every step keeps everybody within the answer.
LEMMA WithinNext == TypeOK /\ Mirror /\ Within /\ [Next]_vars => Within'
<1> SUFFICES ASSUME TypeOK, Mirror, Within, [Next]_vars PROVE Within'
  OBVIOUS
<1>1. CASE UNCHANGED vars
  BY <1>1 DEF vars, Within, Published, Saved, ReadRows
<1>2. CASE Next
  <2>1. Published' /\ Saved'
    BY <1>2, PublishedNext, SavedNext DEF Within
  <2>2. \A s \in Send, n \in Nat : n <= loop[s].content => n <= loop'[s].content
    <3> SUFFICES ASSUME NEW s \in Send, NEW n \in Nat, n <= loop[s].content
                 PROVE  n <= loop'[s].content
      OBVIOUS
    <3>1. /\ loop[s].content \in Nat
          /\ loop'[s].content = loop[s].content \/ loop'[s].content = loop[s].content + 1
      BY <1>2, ContentGrows
    <3> QED
      BY <3>1
  <2>3. \A s \in Send : row[s].content \in Nat /\ row[s].content <= loop[s].content
    BY Constants DEF Within, Saved, TypeOK, Row
  <2>4. \A f \in Feed : feed'[f].seen.content <= loop'[feed'[f].of].content
    <3> SUFFICES ASSUME NEW f \in Feed PROVE feed'[f].seen.content <= loop'[feed'[f].of].content
      OBVIOUS
    <3>1. feed[f].of \in Send /\ feed[f].seen.content \in Nat
      <4>1. feed[f].of \in Send /\ feed[f].seen \in Row
        BY DEF TypeOK, FeedRecord
      <4> QED
        BY <4>1, Constants DEF Row
    <3>2. feed[f].seen.content <= loop[feed[f].of].content
      BY DEF Within, ReadRows
    <3>3. \/ feed'[f].of = feed[f].of /\ feed'[f].seen = feed[f].seen
          \/ feed'[f].of \in Send /\ feed'[f].seen = row[feed'[f].of]
      BY <1>2, SeenStays
    <3> QED
      BY <3>1, <3>2, <3>3, <2>2, <2>3
  <2>5. \A p \in Stop : \A item \in stop'[p].todo : item.seen.content <= loop'[item.id].content
    <3> SUFFICES ASSUME NEW p \in Stop, NEW item \in stop'[p].todo
                 PROVE  item.seen.content <= loop'[item.id].content
      OBVIOUS
    <3>1. CASE item \in stop[p].todo
      <4>1. item.id \in Send /\ item.seen.content \in Nat
        BY <3>1, Constants DEF TypeOK, StopRecord, Row
      <4>2. item.seen.content <= loop[item.id].content
        BY <3>1 DEF Within, ReadRows
      <4> QED
        BY <4>1, <4>2, <2>2
    <3>2. CASE item.id \in Send /\ item.seen = row[item.id]
      BY <3>2, <2>2, <2>3
    <3> QED
      BY <1>2, <3>1, <3>2, SeenStays
  <2> QED
    BY <2>1, <2>4, <2>5 DEF Within, ReadRows
<1> QED
  BY <1>1, <1>2

\* Nobody ever has more of an answer than its loop has received.
LEMMA AlwaysWithin == Spec => []Within
BY WithinInit, WithinNext, AlwaysMirror, TypeCorrect, PTL DEF Spec

-----------------------------------------------------------------------------
(* What a feed r has of the generation with loop l and registry entry g. *)

\* The generation is over with a completed answer of n chunks.
Finished(l, n) == l.pc \in Over /\ l.outcome = "completed" /\ l.content = n

Shown(r) == Len(r.copy)

Fits(r, l, g) ==
    /\ r.copy = Chunks(Shown(r))
    /\ r.pc \in {"idle", "read", "mark"} => Shown(r) = 0
    /\ r.pc # "closed" => r.end = "none"
    /\ r.pc # "live" => r.queue = <<>>
    /\ Continues(Shown(r), r.queue)
    /\ r.pc = "live" =>
          /\ l.pc \notin Admission
          /\ Shown(r) + Waiting(r.queue) <= l.content
          /\ g.live => Shown(r) + Waiting(r.queue) = g.content
    /\ r.pc = "live" /\ HasEnd(r.queue) =>
          /\ l.pc \in {"account", "ended"}
          /\ r.queue[Len(r.queue)].type = "done" => Finished(l, Shown(r) + Waiting(r.queue))
    /\ r.end = "done" => Finished(l, Shown(r))
    /\ r.pc = "read" /\ r.seen.status = "completed" => Finished(l, r.seen.content)

\* What is a fact for a feed that looks at an answer stays one.
Calm(l, m) ==
    /\ l.content <= m.content
    /\ l.pc \in Over => m.pc \in Over /\ m.content = l.content /\ m.outcome = l.outcome
    /\ m.pc \in Admission => l.pc \in Admission

\* A feed that is not live does not mind what its generation does.
LEMMA FitsUnattached ==
    ASSUME NEW r \in FeedRecord, NEW l \in Loop, NEW m \in Loop, NEW g \in Reg, NEW h \in Reg,
           Fits(r, l, g), Calm(l, m), r.pc # "live"
    PROVE  Fits(r, m, h)
BY DEF Fits, Finished, Calm

\* The generation goes on while nothing is published.
LEMMA FitsCalm ==
    ASSUME NEW r \in FeedRecord, NEW l \in Loop, NEW m \in Loop, NEW g \in Reg, NEW h \in Reg,
           Fits(r, l, g), Calm(l, m),
           l.pc \in {"account", "ended"} => m.pc \in {"account", "ended"},
           h.live => g.live /\ h.content = g.content
    PROVE  Fits(r, m, h)
<1>1. l.content \in Nat /\ m.content \in Nat /\ Shown(r) \in Nat /\ Waiting(r.queue) \in Int
  BY Constants DEF Loop, FeedRecord, Shown, Waiting
<1> QED
  BY <1>1 DEF Fits, Finished, Calm, Over

\* Feeds whose fields agree but for the queue, and so on.
Same(r, t, fields) ==
    /\ "pc" \in fields => t.pc = r.pc
    /\ "queue" \in fields => t.queue = r.queue
    /\ "copy" \in fields => t.copy = r.copy
    /\ "end" \in fields => t.end = r.end
    /\ "seen" \in fields => t.seen = r.seen

\* The types of the parts of a feed.
LEMMA FeedFacts ==
    ASSUME NEW r \in FeedRecord
    PROVE  r.queue \in Seq(Event) /\ Shown(r) \in Nat /\ r.copy \in Seq(Nat)
BY DEF FeedRecord, Shown

\* The type of what a loop has received.
LEMMA LoopFacts ==
    ASSUME NEW l \in Loop
    PROVE  l.content \in Nat
BY Constants DEF Loop

\* The text of n chunks, and with the next one.
LEMMA TextFacts ==
    ASSUME NEW n \in Nat
    PROVE  /\ Chunks(n) \in Seq(Nat) /\ Len(Chunks(n)) = n
           /\ Append(Chunks(n), n + 1) = Chunks(n + 1)
BY ChunksGrow

\* The next delta is put into the queue of a feed.
LEMMA FitsDelta ==
    ASSUME NEW r \in FeedRecord, NEW l \in Loop, NEW m \in Loop, NEW g \in Reg, NEW h \in Reg,
           Fits(r, l, g), r.pc = "live", g.live, h.live,
           l.pc \notin {"account", "ended"} \cup Over, m.pc \notin Admission,
           h.content = g.content + 1, h.content <= m.content,
           NEW e \in Event, e.type = "delta", e.chunk = g.content + 1,
           NEW t \in FeedRecord, Same(r, t, {"pc", "copy", "end", "seen"}), t.queue = Append(r.queue, e)
    PROVE  Fits(t, m, h)
<1>1. /\ ~HasEnd(r.queue) /\ Continues(Shown(r), r.queue)
      /\ Shown(r) + Waiting(r.queue) = g.content
  BY DEF Fits
<1>2. r.queue \in Seq(Event) /\ Shown(r) \in Nat /\ Waiting(r.queue) \in Int
  BY FeedFacts, AppendFacts DEF Waiting
<1>3. e.chunk = Shown(r) + Waiting(r.queue) + 1
  BY <1>1
<1>4. /\ Continues(Shown(r), t.queue) /\ ~HasEnd(t.queue)
      /\ Waiting(t.queue) = Waiting(r.queue) + 1
  BY <1>1, <1>2, <1>3, DeltaAppended
<1>5. t.pc = r.pc /\ t.copy = r.copy /\ t.end = r.end /\ Shown(t) = Shown(r)
  BY DEF Same, Shown
<1>6. Shown(t) + Waiting(t.queue) = h.content
  BY <1>1, <1>2, <1>4, <1>5
<1> QED
  BY <1>1, <1>4, <1>5, <1>6 DEF Fits, Finished

\* The terminal event is put into the queue of a feed.
LEMMA FitsEnd ==
    ASSUME NEW r \in FeedRecord, NEW l \in Loop, NEW m \in Loop, NEW g \in Reg,
           Fits(r, l, g), r.pc = "live", g.live,
           l.pc = "publish", m.pc = "account", m.content = l.content, m.outcome = l.outcome,
           NEW e \in Event, e.type # "delta",
           e.type = "done" => l.outcome = "completed" /\ g.content = l.content,
           NEW t \in FeedRecord, Same(r, t, {"pc", "copy", "end", "seen"}), t.queue = Append(r.queue, e)
    PROVE  Fits(t, m, g)
<1>1. /\ ~HasEnd(r.queue) /\ Continues(Shown(r), r.queue)
      /\ Shown(r) + Waiting(r.queue) = g.content
      /\ Shown(r) + Waiting(r.queue) <= l.content
  BY DEF Fits
<1>2. r.queue \in Seq(Event) /\ Shown(r) \in Nat
  BY FeedFacts
<1>4. /\ Continues(Shown(r), t.queue) /\ HasEnd(t.queue) /\ t.queue[Len(t.queue)] = e
      /\ Waiting(t.queue) = Waiting(r.queue)
  BY <1>1, <1>2, EndAppended
<1>5. t.pc = r.pc /\ t.copy = r.copy /\ t.end = r.end /\ Shown(t) = Shown(r)
  BY DEF Same, Shown
<1>6. e.type = "done" => Finished(m, Shown(t) + Waiting(t.queue))
  BY <1>1, <1>4, <1>5 DEF Finished, Over
<1> QED
  BY <1>1, <1>4, <1>5, <1>6 DEF Fits, Finished, Over, Admission

\* A feed goes live with the buffer as its text.
LEMMA FitsAttach ==
    ASSUME NEW r \in FeedRecord, NEW l \in Loop, NEW g \in Reg, NEW m \in Loop, NEW h \in Reg,
           Fits(r, l, g), r.pc \in {"idle", "read"}, h.content <= m.content, m.pc \notin Admission,
           NEW t \in FeedRecord, Same(r, t, {"queue", "end", "seen"}), t.pc = "live", t.copy = Chunks(h.content)
    PROVE  Fits(t, m, h)
<1>1. h.content \in Nat
  BY DEF Reg
<1>2. t.queue = <<>> /\ t.end = "none"
  BY DEF Fits, Same
<1>3. Shown(t) = h.content
  BY <1>1, TextFacts DEF Shown
<1>4. Continues(Shown(t), t.queue) /\ ~HasEnd(t.queue) /\ Waiting(t.queue) = 0
  BY <1>1, <1>2, <1>3, EmptyQueue
<1> QED
  BY <1>1, <1>2, <1>3, <1>4 DEF Fits

\* The reader takes a delta.
LEMMA FitsTakeDelta ==
    ASSUME NEW r \in FeedRecord, NEW l \in Loop, NEW g \in Reg, Fits(r, l, g), r.pc = "live",
           r.queue # <<>>, Head(r.queue).type = "delta",
           NEW t \in FeedRecord, Same(r, t, {"pc", "end", "seen"}), t.queue = Tail(r.queue),
           t.copy = Append(r.copy, Head(r.queue).chunk)
    PROVE  /\ Fits(t, l, g)
           /\ t.copy = Chunks(Shown(r) + 1)
           /\ Shown(r) < l.content
<1>1. r.queue \in Seq(Event) /\ Shown(r) \in Nat /\ l.content \in Nat /\ g.content \in Nat
  BY FeedFacts, LoopFacts DEF Reg
<1>2. Continues(Shown(r), r.queue) /\ r.copy = Chunks(Shown(r))
  BY DEF Fits
<1>3. /\ Head(r.queue).chunk = Shown(r) + 1 /\ Continues(Shown(r) + 1, t.queue)
      /\ HasEnd(t.queue) <=> HasEnd(r.queue)
      /\ Waiting(r.queue) = Waiting(t.queue) + 1 /\ Waiting(t.queue) \in Nat
      /\ HasEnd(r.queue) => t.queue[Len(t.queue)] = r.queue[Len(r.queue)]
  BY ZenonT(60), <1>1, <1>2, DeltaTaken
<1>4. t.copy = Chunks(Shown(r) + 1) /\ Shown(t) = Shown(r) + 1
  <2>1. t.copy = Append(Chunks(Shown(r)), Shown(r) + 1)
    BY <1>2, <1>3
  <2>2. t.copy = Chunks(Shown(r) + 1)
    BY <2>1, <1>1, TextFacts
  <2>3. Shown(r) + 1 \in Nat
    BY <1>1
  <2>4. Shown(t) = Shown(r) + 1
    BY <2>2, <2>3, TextFacts DEF Shown
  <2> QED
    BY <2>2, <2>4
<1>5. Shown(t) + Waiting(t.queue) = Shown(r) + Waiting(r.queue)
  BY <1>1, <1>3, <1>4
<1>6. t.pc = "live" /\ t.end = "none"
  BY DEF Same, Fits
<1>7. Shown(r) + Waiting(r.queue) <= l.content
  BY DEF Fits
<1>8. Shown(r) < l.content
  BY <1>1, <1>3, <1>7
<1>9. /\ l.pc \notin Admission
      /\ g.live => Shown(t) + Waiting(t.queue) = g.content
      /\ HasEnd(t.queue) => l.pc \in {"account", "ended"}
      /\ HasEnd(t.queue) /\ t.queue[Len(t.queue)].type = "done" =>
            Finished(l, Shown(t) + Waiting(t.queue))
  BY <1>3, <1>5 DEF Fits
<1>10. Fits(t, l, g)
  BY <1>3, <1>4, <1>5, <1>6, <1>7, <1>9 DEF Fits
<1> QED
  BY <1>4, <1>8, <1>10

\* The reader takes the terminal event.
LEMMA FitsTakeEnd ==
    ASSUME NEW r \in FeedRecord, NEW l \in Loop, NEW g \in Reg, Fits(r, l, g), r.pc = "live",
           r.queue # <<>>, Head(r.queue).type # "delta",
           NEW t \in FeedRecord, Same(r, t, {"copy", "seen"}), t.queue = Tail(r.queue),
           t.pc = "closed", t.end = Head(r.queue).type
    PROVE  /\ Fits(t, l, g)
           /\ t.end = "done" => Shown(r) = l.content
<1>1. r.queue \in Seq(Event) /\ Shown(r) \in Nat
  BY FeedFacts
<1>2. Continues(Shown(r), r.queue) /\ r.copy = Chunks(Shown(r))
  BY DEF Fits
<1>3. t.queue = <<>> /\ HasEnd(r.queue) /\ Waiting(r.queue) = 0 /\ r.queue[Len(r.queue)] = Head(r.queue)
  BY <1>1, <1>2, EndTaken
<1>4. t.copy = r.copy /\ Shown(t) = Shown(r)
  BY DEF Same, Shown
<1>5. t.end = "done" => Finished(l, Shown(t))
  BY <1>1, <1>3, <1>4 DEF Fits
<1>6. Continues(Shown(t), t.queue)
  BY <1>1, <1>3, <1>4, EmptyQueue
<1> QED
  BY <1>2, <1>3, <1>4, <1>5, <1>6 DEF Fits, Finished

\* A feed that ends without an event: its client leaves, or its process dies.
LEMMA FitsLeave ==
    ASSUME NEW r \in FeedRecord, NEW l \in Loop, NEW g \in Reg, NEW m \in Loop, NEW h \in Reg,
           Fits(r, l, g), r.pc # "closed",
           NEW t \in FeedRecord, Same(r, t, {"copy", "end", "seen"}), t.queue = <<>>, t.pc \in {"left", "lost"}
    PROVE  Fits(t, m, h)
<1>1. t.copy = Chunks(Shown(t)) /\ t.end = "none" /\ Shown(t) \in Nat
  BY FeedFacts DEF Fits, Same, Shown
<1>2. Continues(Shown(t), t.queue)
  BY <1>1, EmptyQueue
<1> QED
  BY <1>1, <1>2 DEF Fits

\* A reconnect looks at another row.
LEMMA FitsRead ==
    ASSUME NEW r \in FeedRecord, NEW l \in Loop, NEW g \in Reg, NEW m \in Loop, NEW h \in Reg,
           Fits(r, l, g), r.pc = "idle",
           NEW t \in FeedRecord, Same(r, t, {"copy", "queue", "end"}), t.pc = "read",
           t.seen.status = "completed" => Finished(m, t.seen.content)
    PROVE  Fits(t, m, h)
<1>1. t.copy = Chunks(Shown(t)) /\ t.end = "none" /\ t.queue = <<>> /\ Shown(t) = 0
  BY DEF Fits, Same, Shown
<1>2. Continues(Shown(t), t.queue)
  BY <1>1, EmptyQueue
<1> QED
  BY <1>1, <1>2 DEF Fits

\* A feed goes to the orphan marking.
LEMMA FitsMark ==
    ASSUME NEW r \in FeedRecord, NEW l \in Loop, NEW g \in Reg,
           Fits(r, l, g), r.pc = "read",
           NEW t \in FeedRecord, Same(r, t, {"copy", "queue", "end", "seen"}), t.pc = "mark"
    PROVE  Fits(t, l, g)
<1>1. t.copy = Chunks(Shown(t)) /\ t.end = "none" /\ t.queue = <<>> /\ Shown(t) = 0
  BY DEF Fits, Same, Shown
<1>2. Continues(Shown(t), t.queue)
  BY <1>1, EmptyQueue
<1> QED
  BY <1>1, <1>2 DEF Fits

\* A feed is answered with a text at once.
LEMMA FitsReplay ==
    ASSUME NEW r \in FeedRecord, NEW l \in Loop, NEW g \in Reg,
           Fits(r, l, g), r.pc \in {"read", "mark"}, NEW n \in Nat,
           NEW t \in FeedRecord, Same(r, t, {"queue", "seen"}), t.pc = "closed",
           t.copy = Chunks(n), t.end = "done" => Finished(l, n)
    PROVE  Fits(t, l, g)
<1>1. t.queue = <<>> /\ Shown(t) = n
  BY TextFacts DEF Fits, Same, Shown
<1>2. Continues(Shown(t), t.queue)
  BY <1>1, EmptyQueue
<1> QED
  BY <1>1, <1>2 DEF Fits

-----------------------------------------------------------------------------
(* Every feed fits the generation it looks at. *)

SenderWaits(f) ==
    f \in Send => feed[f].of = f /\ (loop[f].pc \in Admission => feed[f].pc = "idle")

Fed(f) ==
    /\ Fits(feed[f], loop[feed[f].of], registry[feed[f].of])
    /\ SenderWaits(f)

Delivered == \A f \in Feed : Fed(f)

\* Every feed fits at first.
LEMMA DeliveredInit == Init => Delivered
<1> SUFFICES ASSUME Init, NEW f \in Feed PROVE Fed(f)
  BY DEF Delivered
<1> DEFINE r == feed[f]
<1>1. r.of \in Send /\ (f \in Send => r.of = f)
  BY SomeSend DEF Init
<1>2. r.pc = "idle" /\ r.queue = <<>> /\ r.copy = <<>> /\ r.end = "none"
  BY DEF Init
<1>3. Chunks(0) = <<>> /\ Len(<<>>) = 0
  BY DEF Chunks
<1>4. Continues(0, <<>>)
  BY EmptyQueue
<1> QED
  BY <1>1, <1>2, <1>3, <1>4 DEF Fed, Fits, SenderWaits, Shown

\* The types of what a feed looks at.
LEMMA Looks ==
    ASSUME TypeOK, NEW f \in Feed
    PROVE  /\ feed[f] \in FeedRecord /\ feed[f].of \in Send
           /\ \A s \in Send : loop[s] \in Loop /\ registry[s] \in Reg
BY DEF TypeOK, FeedRecord, Reg

\* Loops go forward, and what they have when they are over stays.
LEMMA LoopsAreCalm ==
    ASSUME TypeOK, Next, NEW t \in Send
    PROVE  Calm(loop[t], loop'[t])
<1> DEFINE l == loop[t]
           m == loop'[t]
           Goes == /\ l.pc \in Over => m.pc \in Over /\ m.outcome = l.outcome
                   /\ m.pc \in Admission => l.pc \in Admission
<1>l. loop \in [Send -> Loop] /\ loop[t] \in Loop
  BY DEF TypeOK
<1> USE DEF Over, Admission
<1>0. Goes => Calm(l, m)
  <2>0. /\ l.content \in Nat
        /\ m.content = l.content \/ (m.content = l.content + 1 /\ ReceiveDelta(t))
    BY ContentGrows
  <2>2. ReceiveDelta(t) => l.pc = "provider"
    BY DEF ReceiveDelta
  <2>1. /\ l.content \in Nat /\ l.content <= m.content
        /\ l.pc \in Over => m.content = l.content
    BY <2>0, <2>2
  <2> QED
    BY <2>1 DEF Calm
<1>1. ASSUME NEW s \in Send, AcceptTurn(s)
      PROVE  Goes
  <2>1. PICK u \in Send :
          \/ loop' = [loop EXCEPT ![s].pc = "accepted", ![s].anchor = u]
          \/ loop' = [loop EXCEPT ![s].pc = "accepted"]
    BY <1>1 DEF AcceptTurn, ReplayMatches
  <2> QED
    BY <1>1, <2>1, <1>l DEF AcceptTurn, Loop
<1>2. ASSUME NEW s \in Send, PersistAssistantRow(s) \/ StartGeneration(s)
      PROVE  Goes
  BY <1>2, <1>l DEF PersistAssistantRow, StartGeneration, Loop
<1>3. ASSUME NEW s \in Send, EndSearch(s) \/ DiscardAfterStop(s) \/ EndOfStream(s) \/ ProviderThrows(s)
      PROVE  Goes
  BY <1>3, <1>l DEF EndSearch, DiscardAfterStop, EndOfStream, ProviderThrows, Finalize, Loop
<1>4. ASSUME NEW s \in Send, ReceiveDelta(s)
      PROVE  Goes
  BY <1>4, <1>l DEF ReceiveDelta, AfterDelta, Loop
<1>5. ASSUME NEW s \in Send, PersistFirstDelta(s) \/ PersistProgress(s) \/ PersistThrows(s)
      PROVE  Goes
  BY <1>5, <1>l DEF PersistFirstDelta, PersistProgress, PersistThrows, AfterDelta, Finalize, Loop
<1>6. ASSUME NEW s \in Send, SwitchToFallback(s) \/ RecordFallbackModel(s)
      PROVE  Goes
  BY <1>6, <1>l DEF SwitchToFallback, RecordFallbackModel, Finalize, Loop
<1>7. ASSUME NEW s \in Send, SaveTerminalRow(s) \/ SaveThrows(s) \/ PublishTerminal(s)
                              \/ AccountAndUnregister(s)
      PROVE  Goes
  BY <1>7, <1>l
  DEF SaveTerminalRow, SaveThrows, PublishTerminal, AccountAndUnregister, Finalize, Loop
<1>8. ASSUME Crash PROVE Goes
  BY <1>8, CrashedLoop
<1>9. ASSUME UNCHANGED loop PROVE Goes
  BY <1>9
<1>10. ASSUME NEW r \in Reconnect, ReadForReconnect(r) \/ ReconnectStep(r)
      PROVE  Goes
  BY <1>9, <1>10 DEF ReadForReconnect, ReconnectStep, ReplayRow, AttachLive, MarkOrphan
<1>11. ASSUME NEW f \in Feed, Deliver(f) \/ Disconnect(f)
      PROVE  Goes
  BY <1>9, <1>11 DEF Deliver, Disconnect
<1>12. ASSUME NEW p \in Stop, ReadOpenRows(p) \/ StopStep(p)
      PROVE  Goes
  BY <1>9, <1>12 DEF ReadOpenRows, StopStep, StopNextRow, StopSettles, StopMarksOrphan
<1> QED
  BY <1>0, <1>1, <1>2, <1>3, <1>4, <1>5, <1>6, <1>7, <1>8, <1>10, <1>11, <1>12
  DEF Next, GenerationStep

\* The steps of a loop that publish nothing, and what they do to the entry.
Silent(s) ==
    \/ AcceptTurn(s) \/ PersistAssistantRow(s) \/ EndSearch(s) \/ DiscardAfterStop(s)
    \/ ReceiveDelta(s) /\ loop[s].content = 0
    \/ PersistProgress(s) \/ PersistThrows(s) \/ EndOfStream(s) \/ ProviderThrows(s)
    \/ SwitchToFallback(s) \/ RecordFallbackModel(s) \/ SaveTerminalRow(s)
    \/ SaveThrows(s) \/ AccountAndUnregister(s)

\* These steps leave the feeds alone, and an entry as it is or unregistered.
LEMMA SilentSteps ==
    ASSUME TypeOK, NEW s \in Send, Silent(s), NEW t \in Send
    PROVE  /\ UNCHANGED feed
           /\ loop[t].pc \in {"account", "ended"} => loop'[t].pc \in {"account", "ended"}
           /\ registry'[t] = registry[t] \/ ~registry'[t].live
<1>l. loop \in [Send -> Loop] /\ loop[t] \in Loop /\ registry \in [Send -> Reg]
  BY DEF TypeOK, Reg
<1>1. CASE AcceptTurn(s)
  <2>1. PICK u \in Send :
          \/ loop' = [loop EXCEPT ![s].pc = "accepted", ![s].anchor = u]
          \/ loop' = [loop EXCEPT ![s].pc = "accepted"]
    BY <1>1 DEF AcceptTurn, ReplayMatches
  <2> QED
    BY <1>1, <2>1, <1>l DEF AcceptTurn, Loop
<1>2. CASE PersistAssistantRow(s) \/ EndSearch(s) \/ DiscardAfterStop(s) \/ EndOfStream(s)
  BY <1>2, <1>l DEF PersistAssistantRow, EndSearch, DiscardAfterStop, EndOfStream, Finalize, Loop
<1>3. CASE ReceiveDelta(s) /\ loop[s].content = 0
  BY <1>3, <1>l DEF ReceiveDelta, Loop
<1>4. CASE PersistProgress(s) \/ PersistThrows(s) \/ ProviderThrows(s)
  BY <1>4, <1>l DEF PersistProgress, PersistThrows, ProviderThrows, Finalize, Loop
<1>5. CASE SwitchToFallback(s) \/ RecordFallbackModel(s)
  BY <1>5, <1>l DEF SwitchToFallback, RecordFallbackModel, Finalize, Loop
<1>6. CASE SaveTerminalRow(s) \/ SaveThrows(s)
  BY <1>6, <1>l DEF SaveTerminalRow, SaveThrows, Finalize, Loop
<1>7. CASE AccountAndUnregister(s)
  BY <1>7, <1>l DEF AccountAndUnregister, NoGeneration, Loop
<1> QED
  BY <1>1, <1>2, <1>3, <1>4, <1>5, <1>6, <1>7 DEF Silent

\* A feed that nobody touches, of a generation that publishes nothing.
LEMMA UntouchedFeed ==
    ASSUME TypeOK, TypeOK', Next, NEW f \in Feed, Fed(f), feed'[f] = feed[f],
           \/ feed[f].pc # "live"
           \/ LET s == feed[f].of
              IN  /\ loop[s].pc \in {"account", "ended"} => loop'[s].pc \in {"account", "ended"}
                  /\ registry'[s].live => registry[s].live /\ registry'[s].content = registry[s].content
    PROVE  Fed(f)'
<1> DEFINE s == feed[f].of
<1>1. /\ feed[f] \in FeedRecord /\ s \in Send
      /\ loop[s] \in Loop /\ registry[s] \in Reg /\ loop'[s] \in Loop /\ registry'[s] \in Reg
  BY Looks DEF TypeOK, Reg
<1>2. Fits(feed[f], loop[s], registry[s]) /\ SenderWaits(f)
  BY DEF Fed
<1>3. Calm(loop[s], loop'[s])
  BY <1>1, LoopsAreCalm
<1>4. Fits(feed[f], loop'[s], registry'[s])
  BY <1>1, <1>2, <1>3, FitsCalm, FitsUnattached
<1>5. SenderWaits(f)'
  BY <1>2, LoopsAreCalm DEF SenderWaits, Calm
<1> QED
  BY <1>4, <1>5 DEF Fed

-----------------------------------------------------------------------------
(* What each step makes of the feeds. *)

OnlyFeed(f) == \A g \in Feed \ {f} : feed'[g] = feed[g]

\* The start of a generation takes the sender live.
LEMMA StartShape ==
    ASSUME TypeOK, NEW s \in Send, StartGeneration(s)
    PROVE  /\ OnlyFeed(s) /\ feed'[s].pc = "live" /\ feed'[s].of = feed[s].of
           /\ Same(feed[s], feed'[s], {"copy", "queue", "end", "seen"})
<1>1. feed \in [Feed -> FeedRecord] /\ feed[s] \in FeedRecord
  BY DEF TypeOK
<1> QED
  BY <1>1 DEF StartGeneration, OnlyFeed, Same, FeedRecord

\* A reconnect reads a row.
LEMMA ReadShape ==
    ASSUME TypeOK, NEW r \in Reconnect, ReadForReconnect(r)
    PROVE  /\ OnlyFeed(r) /\ feed[r].pc = "idle" /\ feed'[r].pc = "read"
           /\ feed'[r].of \in Send /\ feed'[r].seen = row[feed'[r].of]
           /\ Same(feed[r], feed'[r], {"copy", "queue", "end"})
<1>1. feed \in [Feed -> FeedRecord] /\ feed[r] \in FeedRecord
  BY DEF TypeOK
<1>2. PICK s \in Send : feed' = [feed EXCEPT ![r].pc = "read", ![r].of = s, ![r].seen = row[s]]
  BY DEF ReadForReconnect
<1>3. OnlyFeed(r)
  BY <1>1, <1>2 DEF OnlyFeed
<1>4. feed'[r].of = s /\ feed'[r].seen = row[s] /\ feed'[r].pc = "read"
  BY <1>1, <1>2 DEF FeedRecord
<1>5. Same(feed[r], feed'[r], {"copy", "queue", "end"})
  BY <1>1, <1>2 DEF FeedRecord, Same
<1> QED
  BY <1>3, <1>4, <1>5 DEF ReadForReconnect

\* A reconnect goes to the orphan marking, or is answered with the row it read.
LEMMA ReplayShape ==
    ASSUME TypeOK, NEW r \in Reconnect, ReplayRow(r)
    PROVE  /\ OnlyFeed(r) /\ feed[r].pc = "read" /\ feed'[r].of = feed[r].of
           /\ \/ /\ feed'[r].pc = "mark"
                 /\ Same(feed[r], feed'[r], {"copy", "queue", "end", "seen"})
              \/ /\ feed'[r].pc = "closed" /\ feed'[r].copy = Chunks(feed[r].seen.content)
                 /\ feed'[r].end \in {"done", "failed"}
                 /\ feed'[r].end = "done" => feed[r].seen.status = "completed"
                 /\ Same(feed[r], feed'[r], {"queue", "seen"})
<1>1. feed \in [Feed -> FeedRecord] /\ feed[r] \in FeedRecord
  BY DEF TypeOK
<1>2. CASE feed' = [feed EXCEPT ![r].pc = "mark"]
  BY <1>1, <1>2 DEF ReplayRow, OnlyFeed, Same, FeedRecord
<1>3. ASSUME NEW c, NEW e, feed' = [feed EXCEPT ![r].pc = "closed", ![r].copy = c, ![r].end = e]
      PROVE  /\ OnlyFeed(r) /\ feed'[r].of = feed[r].of
             /\ feed'[r].pc = "closed" /\ feed'[r].copy = c /\ feed'[r].end = e
             /\ Same(feed[r], feed'[r], {"queue", "seen"})
  BY <1>1, <1>3 DEF OnlyFeed, Same, FeedRecord
<1>4. CASE feed' = [feed EXCEPT ![r].pc = "closed", ![r].copy = Chunks(feed[r].seen.content),
                               ![r].end = IF feed[r].seen.status = "completed"
                                          THEN "done" ELSE "failed"]
  <2> DEFINE e == IF feed[r].seen.status = "completed" THEN "done" ELSE "failed"
             c == Chunks(feed[r].seen.content)
  <2>1. feed' = [feed EXCEPT ![r].pc = "closed", ![r].copy = c, ![r].end = e]
    BY <1>4
  <2>2. /\ OnlyFeed(r) /\ feed'[r].of = feed[r].of
        /\ feed'[r].pc = "closed" /\ feed'[r].copy = c /\ feed'[r].end = e
        /\ Same(feed[r], feed'[r], {"queue", "seen"})
    <3> HIDE DEF e, c
    <3> QED
      BY <2>1, <1>3
  <2>3. feed[r].pc = "read"
    BY DEF ReplayRow
  <2> QED
    BY <2>2, <2>3
<1> QED
  BY <1>2, <1>4 DEF ReplayRow

\* A reconnect goes live with the buffer of the entry.
LEMMA AttachShape ==
    ASSUME TypeOK, NEW r \in Reconnect, AttachLive(r)
    PROVE  /\ OnlyFeed(r) /\ feed[r].pc = "read" /\ feed'[r].pc = "live"
           /\ feed'[r].of = feed[r].of /\ feed'[r].copy = Chunks(registry[feed[r].of].content)
           /\ Same(feed[r], feed'[r], {"queue", "end", "seen"})
<1>1. feed \in [Feed -> FeedRecord] /\ feed[r] \in FeedRecord
  BY DEF TypeOK
<1> QED
  BY <1>1 DEF AttachLive, OnlyFeed, Same, FeedRecord

\* A reconnect is answered with the orphan, or with nothing but the end.
LEMMA MarkShape ==
    ASSUME TypeOK, NEW r \in Reconnect, MarkOrphan(r)
    PROVE  /\ OnlyFeed(r) /\ feed[r].pc = "mark" /\ feed'[r].pc = "closed"
           /\ feed'[r].of = feed[r].of /\ feed'[r].end = "failed"
           /\ feed'[r].copy = feed[r].copy \/ feed'[r].copy = Chunks(feed[r].seen.content)
           /\ Same(feed[r], feed'[r], {"queue", "seen"})
<1>1. feed \in [Feed -> FeedRecord] /\ feed[r] \in FeedRecord
  BY DEF TypeOK
<1>2. CASE feed' = [feed EXCEPT ![r].pc = "closed", ![r].end = "failed"]
  BY <1>1, <1>2 DEF MarkOrphan, OnlyFeed, Same, FeedRecord
<1>3. ASSUME NEW c, feed' = [feed EXCEPT ![r].pc = "closed", ![r].end = "failed", ![r].copy = c]
      PROVE  /\ OnlyFeed(r) /\ feed'[r].of = feed[r].of
             /\ feed'[r].pc = "closed" /\ feed'[r].copy = c /\ feed'[r].end = "failed"
             /\ Same(feed[r], feed'[r], {"queue", "seen"})
  BY <1>1, <1>3 DEF OnlyFeed, Same, FeedRecord
<1> QED
  BY <1>2, <1>3 DEF MarkOrphan

\* A reader takes the first event of its queue.
LEMMA DeliverShape ==
    ASSUME TypeOK, NEW f \in Feed, Deliver(f)
    PROVE  /\ OnlyFeed(f) /\ feed[f].pc = "live" /\ feed[f].queue # <<>>
           /\ feed'[f].of = feed[f].of /\ feed'[f].queue = Tail(feed[f].queue)
           /\ \/ /\ Head(feed[f].queue).type = "delta"
                 /\ feed'[f].copy = Append(feed[f].copy, Head(feed[f].queue).chunk)
                 /\ Same(feed[f], feed'[f], {"pc", "end", "seen"})
              \/ /\ Head(feed[f].queue).type # "delta"
                 /\ feed'[f].pc = "closed" /\ feed'[f].end = Head(feed[f].queue).type
                 /\ Same(feed[f], feed'[f], {"copy", "seen"})
<1>1. feed \in [Feed -> FeedRecord] /\ feed[f] \in FeedRecord
  BY DEF TypeOK
<1>2. ASSUME NEW q, NEW c, feed' = [feed EXCEPT ![f].queue = q, ![f].copy = c]
      PROVE  /\ OnlyFeed(f) /\ feed'[f].of = feed[f].of /\ feed'[f].queue = q
             /\ feed'[f].copy = c /\ Same(feed[f], feed'[f], {"pc", "end", "seen"})
  BY <1>1, <1>2 DEF OnlyFeed, Same, FeedRecord
<1>3. ASSUME NEW q, NEW e, feed' = [feed EXCEPT ![f].queue = q, ![f].pc = "closed", ![f].end = e]
      PROVE  /\ OnlyFeed(f) /\ feed'[f].of = feed[f].of /\ feed'[f].queue = q
             /\ feed'[f].pc = "closed" /\ feed'[f].end = e
             /\ Same(feed[f], feed'[f], {"copy", "seen"})
  BY <1>1, <1>3 DEF OnlyFeed, Same, FeedRecord
<1> DEFINE q == Tail(feed[f].queue)
           e == Head(feed[f].queue)
           c == Append(feed[f].copy, e.chunk)
<1>4. CASE e.type = "delta"
  <2>1. feed' = [feed EXCEPT ![f].queue = q, ![f].copy = c]
    BY <1>4, <1>1 DEF Deliver
  <2>2. /\ OnlyFeed(f) /\ feed'[f].of = feed[f].of /\ feed'[f].queue = q
        /\ feed'[f].copy = c /\ Same(feed[f], feed'[f], {"pc", "end", "seen"})
    <3> HIDE DEF q, c
    <3> QED
      BY <2>1, <1>2
  <2> QED
    BY <1>4, <2>2 DEF Deliver
<1>5. CASE e.type # "delta"
  <2>1. feed' = [feed EXCEPT ![f].queue = q, ![f].pc = "closed", ![f].end = e.type]
    BY <1>5, <1>1 DEF Deliver
  <2>2. /\ OnlyFeed(f) /\ feed'[f].of = feed[f].of /\ feed'[f].queue = q
        /\ feed'[f].pc = "closed" /\ feed'[f].end = e.type
        /\ Same(feed[f], feed'[f], {"copy", "seen"})
    <3> HIDE DEF q, e
    <3> QED
      BY <2>1, <1>3
  <2> QED
    BY <1>5, <2>2 DEF Deliver
<1> QED
  BY <1>4, <1>5

\* A reader leaves.
LEMMA DisconnectShape ==
    ASSUME TypeOK, NEW f \in Feed, Disconnect(f)
    PROVE  /\ OnlyFeed(f) /\ feed[f].pc = "live" /\ feed'[f].pc = "left"
           /\ feed'[f].of = feed[f].of /\ feed'[f].queue = <<>>
           /\ Same(feed[f], feed'[f], {"copy", "end", "seen"})
<1>1. feed \in [Feed -> FeedRecord] /\ feed[f] \in FeedRecord
  BY DEF TypeOK
<1> QED
  BY <1>1 DEF Disconnect, OnlyFeed, Same, FeedRecord

\* The open feeds are lost.
LEMMA CrashShape ==
    ASSUME TypeOK, Crash, NEW f \in Feed
    PROVE  \/ feed[f].pc \notin {"read", "mark", "live"} /\ feed'[f] = feed[f]
           \/ /\ feed[f].pc \in {"read", "mark", "live"}
              /\ feed'[f].pc = "lost" /\ feed'[f].of = feed[f].of /\ feed'[f].queue = <<>>
              /\ Same(feed[f], feed'[f], {"copy", "end", "seen"})
<1> DEFINE r == feed[f]
           x == [r EXCEPT !.pc = "lost", !.queue = <<>>]
<1>1. r \in FeedRecord
  BY DEF TypeOK
<1>2. x.pc = "lost" /\ x.of = r.of /\ x.queue = <<>> /\ Same(r, x, {"copy", "end", "seen"})
  BY <1>1 DEF Same, FeedRecord
<1>3. feed'[f] = IF r.pc \in {"read", "mark", "live"} THEN x ELSE r
  BY DEF Crash
<1> QED
  BY <1>2, <1>3

\* The live feeds of a generation get the event, the others stay.
LEMMA PublishShape ==
    ASSUME TypeOK, NEW s \in Send, NEW e \in Event, Publish(s, e), registry[s].live, NEW f \in Feed
    PROVE  \/ /\ feed[f].pc = "live" /\ feed[f].of = s
              /\ feed'[f].queue = Append(feed[f].queue, e) /\ feed'[f].of = s
              /\ Same(feed[f], feed'[f], {"pc", "copy", "end", "seen"})
           \/ /\ ~(feed[f].pc = "live" /\ feed[f].of = s)
              /\ feed'[f] = feed[f]
<1> DEFINE r == feed[f]
           x == [r EXCEPT !.queue = Append(@, e)]
<1>1. r \in FeedRecord
  BY DEF TypeOK
<1>2. x.of = r.of /\ x.queue = Append(r.queue, e) /\ Same(r, x, {"pc", "copy", "end", "seen"})
  BY <1>1 DEF Same, FeedRecord
<1>3. feed'[f] = IF r.pc = "live" /\ r.of = s THEN x ELSE r
  BY DEF Publish, Subscribers
<1> QED
  BY <1>2, <1>3

-----------------------------------------------------------------------------
(* Every feed still fits after every step. *)

\* The types of what a feed looks at after a step.
LEMMA LooksNext ==
    ASSUME TypeOK', NEW f \in Feed
    PROVE  /\ feed'[f] \in FeedRecord /\ feed'[f].of \in Send
           /\ \A s \in Send : loop'[s] \in Loop /\ registry'[s] \in Reg
BY DEF TypeOK, FeedRecord, Reg

\* Where only one feed moves, the others fit as they did.
LEMMA OthersFit ==
    ASSUME Delivered, NEW r \in Feed, OnlyFeed(r), UNCHANGED <<loop, registry>>,
           NEW f \in Feed, f # r
    PROVE  Fed(f)'
BY DEF Delivered, Fed, SenderWaits, OnlyFeed

\* The sender's feed goes live with an empty text.
LEMMA DeliveredStart ==
    ASSUME TypeOK, TypeOK', Next, Delivered, NEW s \in Send, StartGeneration(s), NEW f \in Feed
    PROVE  Fed(f)'
<1>1. Fed(f) /\ Fed(s)
  BY DEF Delivered
<1>2. loop[s].pc = "persisted"
  BY DEF StartGeneration
<1>3. /\ OnlyFeed(s) /\ feed'[s].pc = "live" /\ feed'[s].of = feed[s].of
      /\ Same(feed[s], feed'[s], {"copy", "queue", "end", "seen"})
  BY StartShape
<1>4. loop \in [Send -> Loop] /\ registry \in [Send -> Reg]
  BY DEF TypeOK, Reg
<1>5. CASE f = s
  <2>1. feed[s].of = s /\ feed[s].pc = "idle"
    BY <1>1, <1>2 DEF Fed, SenderWaits, Admission
  <2>2. loop'[s].pc \in {"search", "provider"}
    BY <1>4 DEF StartGeneration, Loop
  <2>3. loop'[s].pc \notin Admission
    BY <2>2 DEF Admission
  <2>4. registry'[s].content = 0
    BY <1>4 DEF StartGeneration
  <2>5. Fits(feed[s], loop[s], registry[s])
    BY <1>1, <2>1 DEF Fed
  <2>6. feed'[s].copy = Chunks(0)
    BY <1>3, <2>1, <2>5 DEF Fits, Same
  <2>7. /\ feed[s] \in FeedRecord /\ loop[s] \in Loop /\ registry[s] \in Reg
        /\ feed'[s] \in FeedRecord /\ loop'[s] \in Loop /\ registry'[s] \in Reg
    BY Looks, LooksNext
  <2>8. loop'[s].content \in Nat
    BY <2>7, LoopFacts
  <2>9. Same(feed[s], feed'[s], {"queue", "end", "seen"})
    BY <1>3 DEF Same
  <2>10. Fits(feed'[s], loop'[s], registry'[s])
    BY <1>3, <2>1, <2>3, <2>4, <2>5, <2>6, <2>7, <2>8, <2>9, FitsAttach
  <2> QED
    BY <1>3, <1>5, <2>1, <2>3, <2>10 DEF Fed, SenderWaits
<1>6. CASE f # s
  <2>1. feed'[f] = feed[f]
    BY <1>3, <1>6 DEF OnlyFeed
  <2>2. feed[f].pc = "live" => feed[f].of # s
    BY <1>1, <1>2 DEF Fed, Fits, Admission
  <2>3. feed[f].of # s => loop'[feed[f].of] = loop[feed[f].of]
                          /\ registry'[feed[f].of] = registry[feed[f].of]
    BY <1>4, Looks DEF StartGeneration
  <2> QED
    BY <1>1, <2>1, <2>2, <2>3, UntouchedFeed
<1> QED
  BY <1>5, <1>6

\* A delta goes to the buffer and to every live feed of its generation.
LEMMA DeliveredDelta ==
    ASSUME TypeOK, TypeOK', Next, Mirror, Within', Delivered, NEW s \in Send,
           \/ ReceiveDelta(s) /\ loop[s].content > 0
           \/ PersistFirstDelta(s),
           NEW f \in Feed
    PROVE  Fed(f)'
<1> DEFINE n == registry[s].content + 1
           e == [type |-> "delta", chunk |-> n]
<1>1. Fed(f)
  BY DEF Delivered
<1>2. loop \in [Send -> Loop] /\ registry \in [Send -> Reg] /\ loop[s] \in Loop /\ registry[s] \in Reg
  BY DEF TypeOK, Reg
<1>3. Mirrored(s)
  BY DEF Mirror
<1>4. loop[s].pc \in {"provider", "persistFirst"} /\ registry[s].live
  BY <1>3 DEF ReceiveDelta, PersistFirstDelta, Mirrored, Running
<1>5. n \in Nat /\ e \in Event
  BY <1>2 DEF Reg, Event
<1>6. PublishDelta(s, n)
  BY <1>2, <1>3 DEF ReceiveDelta, PersistFirstDelta, Mirrored, Running
<1>7. registry' = [registry EXCEPT ![s].content = @ + 1] /\ Publish(s, e)
  BY <1>4, <1>6 DEF PublishDelta
<1>8. registry'[s].live /\ registry'[s].content = n
  BY <1>2, <1>4, <1>7 DEF Reg
<1>9. registry'[s].content <= loop'[s].content
  BY DEF Within, Published
<1>10. loop'[s].pc \in {"provider", "persist"} /\ \A u \in Send \ {s} : loop'[u] = loop[u]
  BY <1>2 DEF ReceiveDelta, PersistFirstDelta, AfterDelta, Loop
<1>11. loop'[s].pc \notin Admission /\ loop[s].pc \notin {"account", "ended"} \cup Over
  BY <1>4, <1>10 DEF Admission, Over
<1>t. /\ feed[f] \in FeedRecord /\ feed[f].of \in Send
      /\ feed'[f] \in FeedRecord /\ loop'[s] \in Loop /\ registry'[s] \in Reg
  BY Looks, LooksNext
<1>12. CASE feed[f].pc = "live" /\ feed[f].of = s
  <2>1. /\ feed'[f].queue = Append(feed[f].queue, e) /\ feed'[f].of = s
        /\ Same(feed[f], feed'[f], {"pc", "copy", "end", "seen"})
    BY <1>4, <1>5, <1>7, <1>12, PublishShape
  <2>2. Fits(feed[f], loop[s], registry[s])
    BY <1>1, <1>12 DEF Fed
  <2>3. e.type = "delta" /\ e.chunk = registry[s].content + 1
    OBVIOUS
  <2>4. Fits(feed'[f], loop'[s], registry'[s])
    <3> HIDE DEF e
    <3> QED
      BY <1>2, <1>4, <1>5, <1>8, <1>9, <1>11, <1>t, <1>12, <2>1, <2>2, <2>3, FitsDelta
  <2>5. SenderWaits(f)'
    <3>1. f \in Send => f = s
      BY <1>1, <1>12 DEF Fed, SenderWaits
    <3> QED
      BY <3>1, <2>1, <1>11 DEF SenderWaits
  <2> QED
    BY <2>1, <2>4, <2>5 DEF Fed
<1>13. CASE ~(feed[f].pc = "live" /\ feed[f].of = s)
  <2>1. feed'[f] = feed[f]
    BY <1>4, <1>5, <1>7, <1>13, PublishShape
  <2>2. feed[f].of # s => loop'[feed[f].of] = loop[feed[f].of]
                          /\ registry'[feed[f].of] = registry[feed[f].of]
    BY <1>2, <1>7, <1>10, <1>t
  <2> QED
    BY <1>1, <1>13, <2>1, <2>2, UntouchedFeed
<1> QED
  BY <1>12, <1>13

\* The terminal event goes to every live feed of its generation.
LEMMA DeliveredEnd ==
    ASSUME TypeOK, TypeOK', Next, Mirror, Delivered, NEW s \in Send, PublishTerminal(s),
           NEW f \in Feed
    PROVE  Fed(f)'
<1> DEFINE e == TerminalEvent(s)
<1>1. Fed(f)
  BY DEF Delivered
<1>2. loop \in [Send -> Loop] /\ loop[s] \in Loop /\ registry[s] \in Reg /\ UNCHANGED registry
  BY DEF TypeOK, Reg, PublishTerminal
<1>3. Mirrored(s)
  BY DEF Mirror
<1>4. loop[s].pc = "publish" /\ registry[s].live
  BY <1>3 DEF PublishTerminal, Mirrored, Running
<1>5. e \in Event /\ e.type # "delta" /\ (e.type = "done" => loop[s].outcome = "completed")
  BY <1>2, LoopFacts DEF TerminalEvent, Event, Terminal
<1>6. e.type = "done" => registry[s].content = loop[s].content
  BY <1>3, <1>4, <1>5 DEF Mirrored, Running
<1>7. Publish(s, e)
  BY DEF PublishTerminal
<1>8. /\ loop'[s].pc = "account" /\ loop'[s].content = loop[s].content
      /\ loop'[s].outcome = loop[s].outcome
      /\ \A u \in Send \ {s} : loop'[u] = loop[u]
  BY <1>2 DEF PublishTerminal, Loop
<1>t. /\ feed[f] \in FeedRecord /\ feed[f].of \in Send
      /\ feed'[f] \in FeedRecord /\ loop'[s] \in Loop
  BY Looks, LooksNext
<1> HIDE DEF e
<1>9. CASE feed[f].pc = "live" /\ feed[f].of = s
  <2>1. /\ feed'[f].queue = Append(feed[f].queue, e) /\ feed'[f].of = s
        /\ Same(feed[f], feed'[f], {"pc", "copy", "end", "seen"})
    BY <1>4, <1>5, <1>7, <1>9, PublishShape
  <2>2. Fits(feed[f], loop[s], registry[s])
    BY <1>1, <1>9 DEF Fed
  <2>3. Fits(feed'[f], loop'[s], registry[s])
    BY <1>2, <1>4, <1>5, <1>6, <1>8, <1>t, <1>9, <2>1, <2>2, FitsEnd
  <2>4. SenderWaits(f)'
    <3>1. f \in Send => f = s
      BY <1>1, <1>9 DEF Fed, SenderWaits
    <3> QED
      BY <3>1, <2>1, <1>8 DEF SenderWaits, Admission
  <2> QED
    BY <1>2, <2>1, <2>3, <2>4 DEF Fed
<1>10. CASE ~(feed[f].pc = "live" /\ feed[f].of = s)
  <2>1. feed'[f] = feed[f]
    BY <1>4, <1>5, <1>7, <1>10, PublishShape
  <2>2. feed[f].of # s => loop'[feed[f].of] = loop[feed[f].of]
    BY <1>8, <1>t
  <2> QED
    BY <1>1, <1>2, <1>10, <2>1, <2>2, UntouchedFeed
<1> QED
  BY <1>9, <1>10

\* Every open feed dies with the process, and no generation is left.
LEMMA DeliveredCrash ==
    ASSUME TypeOK, TypeOK', Next, Delivered, Crash, NEW f \in Feed
    PROVE  Fed(f)'
<1>1. Fed(f)
  BY DEF Delivered
<1> DEFINE s == feed[f].of
<1>t. /\ feed[f] \in FeedRecord /\ s \in Send /\ feed'[f] \in FeedRecord
      /\ loop[s] \in Loop /\ registry[s] \in Reg /\ loop'[s] \in Loop /\ registry'[s] \in Reg
  BY Looks, LooksNext
<1>2. CASE feed[f].pc \notin {"read", "mark", "live"} /\ feed'[f] = feed[f]
  BY <1>1, <1>2, UntouchedFeed
<1>3. CASE /\ feed[f].pc \in {"read", "mark", "live"}
           /\ feed'[f].pc = "lost" /\ feed'[f].of = feed[f].of /\ feed'[f].queue = <<>>
           /\ Same(feed[f], feed'[f], {"copy", "end", "seen"})
  <2>1. Fits(feed[f], loop[s], registry[s]) /\ SenderWaits(f)
    BY <1>1 DEF Fed
  <2>2. Fits(feed'[f], loop'[s], registry'[s])
    BY <1>3, <1>t, <2>1, FitsLeave
  <2>3. f \in Send => loop'[f].pc \notin Admission
    <3>1. f \in Send => loop[f].pc \notin Admission
      BY <1>3, <2>1 DEF SenderWaits
    <3> QED
      BY <3>1, LoopsAreCalm DEF Calm
  <2> QED
    BY <1>3, <2>1, <2>2, <2>3 DEF Fed, SenderWaits
<1> QED
  BY <1>2, <1>3, CrashShape

\* A reader takes an event, or leaves.
LEMMA DeliveredReader ==
    ASSUME TypeOK, TypeOK', Delivered, NEW r \in Feed, Deliver(r) \/ Disconnect(r), NEW f \in Feed
    PROVE  Fed(f)'
<1> DEFINE s == feed[r].of
<1>1. UNCHANGED <<loop, registry>>
  BY DEF Deliver, Disconnect
<1>2. OnlyFeed(r) /\ feed[r].pc = "live" /\ feed'[r].of = s
  BY DeliverShape, DisconnectShape
<1>t. /\ feed[r] \in FeedRecord /\ s \in Send /\ feed'[r] \in FeedRecord
      /\ loop[s] \in Loop /\ registry[s] \in Reg
  BY Looks, LooksNext
<1>3. Fits(feed[r], loop[s], registry[s]) /\ SenderWaits(r)
  BY DEF Delivered, Fed
<1>4. Fits(feed'[r], loop[s], registry[s])
  <2>1. CASE Deliver(r)
    <3>1. CASE /\ Head(feed[r].queue).type = "delta"
               /\ feed'[r].copy = Append(feed[r].copy, Head(feed[r].queue).chunk)
               /\ Same(feed[r], feed'[r], {"pc", "end", "seen"})
      <4>1. feed[r].queue # <<>> /\ feed'[r].queue = Tail(feed[r].queue)
        BY <2>1, DeliverShape
      <4> QED
        BY <1>2, <1>t, <1>3, <3>1, <4>1, FitsTakeDelta
    <3>2. CASE /\ Head(feed[r].queue).type # "delta"
               /\ feed'[r].pc = "closed" /\ feed'[r].end = Head(feed[r].queue).type
               /\ Same(feed[r], feed'[r], {"copy", "seen"})
      <4>1. feed[r].queue # <<>> /\ feed'[r].queue = Tail(feed[r].queue)
        BY <2>1, DeliverShape
      <4> QED
        BY <1>2, <1>t, <1>3, <3>2, <4>1, FitsTakeEnd
    <3> QED
      BY <2>1, <3>1, <3>2, DeliverShape
  <2>2. CASE Disconnect(r)
    <3>1. /\ feed'[r].pc = "left" /\ feed'[r].queue = <<>>
          /\ Same(feed[r], feed'[r], {"copy", "end", "seen"})
      BY <2>2, DisconnectShape
    <3> QED
      BY <1>2, <1>t, <1>3, <3>1, FitsLeave
  <2> QED
    BY <2>1, <2>2
<1>5. Fed(r)'
  BY <1>1, <1>2, <1>3, <1>4 DEF Fed, SenderWaits
<1> QED
  BY <1>1, <1>2, <1>5, OthersFit

\* A reconnect reads, replays, attaches or marks an orphan.
LEMMA DeliveredReconnect ==
    ASSUME TypeOK, TypeOK', Mirror, Within, Sound, Delivered, NEW r \in Reconnect,
           ReadForReconnect(r) \/ ReconnectStep(r), NEW f \in Feed
    PROVE  Fed(f)'
<1> DEFINE s == feed[r].of
           u == feed'[r].of
<1>1. UNCHANGED <<loop, registry>>
  BY DEF ReadForReconnect, ReconnectStep, ReplayRow, AttachLive, MarkOrphan
<1>2. OnlyFeed(r)
  BY ReadShape, ReplayShape, AttachShape, MarkShape DEF ReconnectStep
<1>t. /\ feed[r] \in FeedRecord /\ s \in Send /\ feed'[r] \in FeedRecord /\ u \in Send
      /\ loop[s] \in Loop /\ registry[s] \in Reg /\ loop[u] \in Loop /\ registry[u] \in Reg
  BY Looks, LooksNext
<1>3. Fits(feed[r], loop[s], registry[s])
  BY DEF Delivered, Fed
<1>4. feed[r].seen.content \in Nat
  <2>1. feed[r].seen \in Row
    BY <1>t DEF FeedRecord
  <2> QED
    BY <2>1, Constants DEF Row
<1>5. Fits(feed'[r], loop[u], registry[u])
  <2>1. CASE ReadForReconnect(r)
    <3>1. /\ feed[r].pc = "idle" /\ feed'[r].pc = "read" /\ feed'[r].seen = row[u]
          /\ Same(feed[r], feed'[r], {"copy", "queue", "end"})
      BY <2>1, ReadShape
    <3>2. row[u].status = "completed" => Finished(loop[u], row[u].content)
      BY <1>t DEF Sound, RowSound, Finished
    <3> QED
      BY <1>t, <1>3, <3>1, <3>2, FitsRead
  <2>2. CASE ReplayRow(r)
    <3>0. feed[r].pc = "read" /\ u = s
      BY <2>2, ReplayShape
    <3>1. CASE /\ feed'[r].pc = "mark"
               /\ Same(feed[r], feed'[r], {"copy", "queue", "end", "seen"})
      BY <1>t, <1>3, <3>0, <3>1, FitsMark
    <3>2. CASE /\ feed'[r].pc = "closed" /\ feed'[r].copy = Chunks(feed[r].seen.content)
               /\ feed'[r].end = "done" => feed[r].seen.status = "completed"
               /\ Same(feed[r], feed'[r], {"queue", "seen"})
      <4>1. feed'[r].end = "done" => Finished(loop[s], feed[r].seen.content)
        BY <1>3, <3>0, <3>2 DEF Fits
      <4> QED
        BY <1>t, <1>3, <1>4, <3>0, <3>2, <4>1, FitsReplay
    <3> QED
      BY <2>2, <3>1, <3>2, ReplayShape
  <2>3. CASE AttachLive(r)
    <3>1. /\ feed[r].pc = "read" /\ feed'[r].pc = "live" /\ u = s
          /\ feed'[r].copy = Chunks(registry[s].content)
          /\ Same(feed[r], feed'[r], {"queue", "end", "seen"})
      BY <2>3, AttachShape
    <3>2. loop[s].pc \in Running
      BY <2>3, <1>t DEF AttachLive, Mirror, Mirrored
    <3>3. loop[s].pc \notin Admission
      BY <3>2 DEF Running, Admission
    <3>4. registry[s].content <= loop[s].content
      BY <1>t DEF Within, Published
    <3> QED
      BY <1>t, <1>3, <3>1, <3>3, <3>4, FitsAttach
  <2>4. CASE MarkOrphan(r)
    <3>1. /\ feed[r].pc = "mark" /\ feed'[r].pc = "closed" /\ u = s /\ feed'[r].end = "failed"
          /\ feed'[r].copy = feed[r].copy \/ feed'[r].copy = Chunks(feed[r].seen.content)
          /\ Same(feed[r], feed'[r], {"queue", "seen"})
      BY <2>4, MarkShape
    <3>2. feed[r].copy = Chunks(0)
      BY <1>3, <3>1 DEF Fits
    <3>3. PICK n \in Nat : feed'[r].copy = Chunks(n)
      BY <1>4, <3>1, <3>2
    <3> QED
      BY <1>t, <1>3, <3>1, <3>3, FitsReplay
  <2> QED
    BY <2>1, <2>2, <2>3, <2>4 DEF ReconnectStep
<1>6. r \notin Send
  BY SendsAssumption
<1>7. Fed(r)'
  BY <1>1, <1>5, <1>6 DEF Fed, SenderWaits
<1> QED
  BY <1>1, <1>2, <1>7, OthersFit

\* A Stop touches no feed, and of a registry entry only whether it is aborted.
LEMMA DeliveredStop ==
    ASSUME TypeOK, TypeOK', Next, Delivered, NEW p \in Stop, ReadOpenRows(p) \/ StopStep(p),
           NEW f \in Feed
    PROVE  Fed(f)'
<1> DEFINE s == feed[f].of
<1>1. UNCHANGED <<feed, loop>>
  BY DEF ReadOpenRows, StopStep, StopNextRow, StopSettles, StopMarksOrphan
<1>2. registry \in [Send -> Reg] /\ s \in Send
  BY Looks DEF TypeOK, Reg
<1>3. registry'[s].live = registry[s].live /\ registry'[s].content = registry[s].content
  <2>1. CASE StopNextRow(p)
    BY <2>1, <1>2 DEF StopNextRow, Reg
  <2>2. CASE ReadOpenRows(p) \/ StopSettles(p) \/ StopMarksOrphan(p)
    BY <2>2 DEF ReadOpenRows, StopSettles, StopMarksOrphan
  <2> QED
    BY <2>1, <2>2 DEF StopStep
<1>4. Fed(f)
  BY DEF Delivered
<1> QED
  BY <1>1, <1>3, <1>4, UntouchedFeed

\* Every step keeps every feed fitting.
LEMMA DeliveredNext ==
    TypeOK /\ TypeOK' /\ Mirror /\ Within /\ Within' /\ Sound /\ Delivered /\ [Next]_vars => Delivered'
<1> SUFFICES ASSUME TypeOK, TypeOK', Mirror, Within, Within', Sound, Delivered, [Next]_vars,
                    NEW f \in Feed
             PROVE  Fed(f)'
  BY DEF Delivered
<1>0. Fed(f)
  BY DEF Delivered
<1>1. CASE UNCHANGED vars
  BY <1>0, <1>1 DEF vars, Fed, SenderWaits
<1>2. CASE Next
  <2>1. ASSUME NEW s \in Send, Silent(s)
        PROVE  Fed(f)'
    <3>1. feed[f].of \in Send /\ UNCHANGED feed
      BY <2>1, Looks, SilentSteps
    <3> DEFINE u == feed[f].of
    <3>2. /\ loop[u].pc \in {"account", "ended"} => loop'[u].pc \in {"account", "ended"}
          /\ registry'[u] = registry[u] \/ ~registry'[u].live
      BY <2>1, <3>1, SilentSteps
    <3> QED
      BY <1>0, <1>2, <3>1, <3>2, UntouchedFeed
  <2>2. ASSUME NEW s \in Send, StartGeneration(s)
        PROVE  Fed(f)'
    BY <1>2, <2>2, DeliveredStart
  <2>3. ASSUME NEW s \in Send, ReceiveDelta(s) /\ loop[s].content # 0
        PROVE  Fed(f)'
    <3>1. loop[s].content > 0
      BY <2>3, Looks, LoopFacts
    <3> QED
      BY <1>2, <2>3, <3>1, DeliveredDelta
  <2>4. ASSUME NEW s \in Send, PersistFirstDelta(s)
        PROVE  Fed(f)'
    BY <1>2, <2>4, DeliveredDelta
  <2>5. ASSUME NEW s \in Send, PublishTerminal(s)
        PROVE  Fed(f)'
    BY <1>2, <2>5, DeliveredEnd
  <2>6. ASSUME NEW s \in Send, AcceptTurn(s) \/ GenerationStep(s)
        PROVE  Fed(f)'
    BY <2>1, <2>2, <2>3, <2>4, <2>5, <2>6 DEF GenerationStep, Silent
  <2>7. ASSUME NEW r \in Reconnect, ReadForReconnect(r) \/ ReconnectStep(r)
        PROVE  Fed(f)'
    BY <2>7, DeliveredReconnect
  <2>8. ASSUME NEW r \in Feed, Deliver(r) \/ Disconnect(r)
        PROVE  Fed(f)'
    BY <2>8, DeliveredReader
  <2>9. ASSUME NEW p \in Stop, ReadOpenRows(p) \/ StopStep(p)
        PROVE  Fed(f)'
    BY <1>2, <2>9, DeliveredStop
  <2>10. ASSUME Crash
         PROVE  Fed(f)'
    BY <1>2, <2>10, DeliveredCrash
  <2> QED
    BY <1>2, <2>6, <2>7, <2>8, <2>9, <2>10 DEF Next
<1> QED
  BY <1>1, <1>2

\* Every feed always fits the generation it looks at.
LEMMA AlwaysDelivered == Spec => []Delivered
BY DeliveredInit, DeliveredNext, AlwaysTyped, AlwaysMirror, AlwaysWithin, AlwaysSound, TypeCorrect, PTL DEF Spec

-----------------------------------------------------------------------------
(* What the readers receive. *)

\* Snapshot and deltas of every sender and of every reconnect, in whatever order
\* attach, tokens, Stop, leave and restart interleave, concatenate to an exact
\* beginning of the answer: no chunk twice, none skipped, the end event last.
THEOREM ExactlyDelivered == Spec => []ExactDelivery
<1>1. Delivered => ExactDelivery
  BY DEF Delivered, Fed, Fits, Shown, Continues, ExactDelivery
<1> QED
  BY <1>1, AlwaysDelivered, PTL

\* A feed that is attached has, on the screen or waiting for it, everything that
\* was published so far: nothing falls between the snapshot and the subscription.
THEOREM NothingIsLost == Spec => []NothingLost
<1>1. Delivered => NothingLost
  BY DEF Delivered, Fed, Fits, Shown, Waiting, HasEnd, NothingLost
<1> QED
  BY <1>1, AlwaysDelivered, PTL

\* Whoever is told done, by the live feed or by the replay of the row, has the
\* whole answer of a generation that completed, also after a restart.
THEOREM DoneMeansWhole == Spec => []DoneIsWhole
<1>1. Delivered => DoneIsWhole
  BY DEF Delivered, Fed, Fits, Finished, DoneIsWhole
<1> QED
  BY <1>1, AlwaysDelivered, PTL

-----------------------------------------------------------------------------
(* ChatTurn implements AnswerStream. *)

Produced == [s \in Send |-> loop[s].content]
Reading == [f \in Feed |-> feed[f].of]
Attached == [f \in Feed |-> feed[f].pc = "live"]
Text == [f \in Feed |-> feed[f].copy]
Told == [f \in Feed |-> feed[f].end]

\* What the reader of a feed sees stays as it is.
Unseen(f) ==
    /\ feed'[f].of = feed[f].of /\ feed'[f].copy = feed[f].copy /\ feed'[f].end = feed[f].end
    /\ feed'[f].pc = "live" <=> feed[f].pc = "live"

AllUnseen == \A f \in Feed : Unseen(f)
ContentsStay == \A s \in Send : loop'[s].content = loop[s].content

\* Steps nobody sees change nothing of the readers.
LEMMA Stutters ==
    ASSUME AllUnseen
    PROVE  UNCHANGED <<Reading, Attached, Text, Told>>
<1>1. Attached' = Attached
  BY Zenon DEF AllUnseen, Unseen, Attached
<1> QED
  BY <1>1 DEF AllUnseen, Unseen, Reading, Text, Told

\* Nothing is produced while no loop receives.
LEMMA ProducedStays == ContentsStay => UNCHANGED Produced
BY DEF ContentsStay, Produced

\* The mapped variables where one feed moves.
LEMMA OneChanges ==
    ASSUME NEW r \in Feed, OnlyFeed(r)
    PROVE  /\ Reading' = [Reading EXCEPT ![r] = feed'[r].of]
           /\ Text' = [Text EXCEPT ![r] = feed'[r].copy]
           /\ Told' = [Told EXCEPT ![r] = feed'[r].end]
           /\ feed'[r].of = feed[r].of => UNCHANGED Reading
           /\ feed'[r].copy = feed[r].copy => UNCHANGED Text
           /\ feed'[r].end = feed[r].end => UNCHANGED Told
<1>1. \A g \in Feed : g # r => feed'[g] = feed[g]
  BY DEF OnlyFeed
<1> QED
  BY <1>1 DEF Reading, Text, Told

\* Who is attached where one feed moves.
LEMMA OneAttaches ==
    ASSUME NEW r \in Feed, OnlyFeed(r)
    PROVE  /\ feed'[r].pc = "live" => Attached' = [Attached EXCEPT ![r] = TRUE]
           /\ feed'[r].pc # "live" => Attached' = [Attached EXCEPT ![r] = FALSE]
           /\ (feed'[r].pc = "live" <=> feed[r].pc = "live") => UNCHANGED Attached
<1>1. \A g \in Feed : g # r => (feed'[g].pc = "live" <=> feed[g].pc = "live")
  BY DEF OnlyFeed
<1>2. feed'[r].pc = "live" => Attached' = [Attached EXCEPT ![r] = TRUE]
  BY <1>1 DEF Attached
<1>3. feed'[r].pc # "live" => Attached' = [Attached EXCEPT ![r] = FALSE]
  BY <1>1 DEF Attached
<1>4. (feed'[r].pc = "live" <=> feed[r].pc = "live") => UNCHANGED Attached
  BY <1>1 DEF Attached
<1> QED
  BY <1>2, <1>3, <1>4

\* Publishing touches nothing but the queues.
LEMMA PublishUnseen ==
    ASSUME TypeOK, NEW s \in Send, NEW e, Publish(s, e)
    PROVE  AllUnseen
<1> SUFFICES ASSUME NEW f \in Feed PROVE Unseen(f)
  BY DEF AllUnseen
<1> DEFINE r == feed[f]
           x == [r EXCEPT !.queue = Append(@, e)]
<1>1. r \in FeedRecord
  BY DEF TypeOK
<1>2. x.of = r.of /\ x.copy = r.copy /\ x.end = r.end /\ x.pc = r.pc
  BY <1>1 DEF FeedRecord
<1>3. feed'[f] = x \/ feed'[f] = r
  BY DEF Publish
<1> QED
  BY <1>2, <1>3 DEF Unseen

\* The steps of AnswerStream, in these terms.
LEMMA IsStutter ==
    ASSUME UNCHANGED <<Produced, Reading, Attached, Text, Told>>
    PROVE  UNCHANGED Promise!asVars
BY DEF Promise!asVars, Produced, Reading, Attached, Text, Told

\* A chunk is produced.
LEMMA IsProduce ==
    ASSUME TypeOK, Delivered, NEW s \in Send, loop[s].pc \notin Over,
           Produced' = [Produced EXCEPT ![s] = @ + 1],
           UNCHANGED <<Reading, Attached, Text, Told>>
    PROVE  Promise!Produce(s)
<1>1. ~Promise!Final(s)
  BY DEF Promise!Final, Delivered, Fed, Fits, Finished
<1>2. Produced' = [Produced EXCEPT ![s] = Produced[s] + 1]
  BY DEF Produced
<1> QED
  BY <1>1, <1>2 DEF Promise!Produce, Produced, Reading, Attached, Text, Told

\* A reader chooses an answer.
LEMMA IsChoose ==
    ASSUME NEW r \in Feed, feed[r].pc # "live", feed[r].end = "none", NEW s \in Send,
           Reading' = [Reading EXCEPT ![r] = s], UNCHANGED <<Produced, Attached, Text, Told>>
    PROVE  Promise!Choose(r)
BY DEF Promise!Choose, Produced, Reading, Attached, Text, Told

\* A reader attaches.
LEMMA IsAttach ==
    ASSUME NEW r \in Feed, feed[r].pc # "live", feed[r].end = "none", feed[r].of \in Send,
           NEW n \in 0..loop[feed[r].of].content,
           Attached' = [Attached EXCEPT ![r] = TRUE], Text' = [Text EXCEPT ![r] = Chunks(n)],
           UNCHANGED <<Produced, Reading, Told>>
    PROVE  Promise!Attach(r)
BY DEF Promise!Attach, Promise!Prefix, Chunks, Produced, Reading, Attached, Text, Told

\* A reader is shown the next chunk.
LEMMA IsShow ==
    ASSUME NEW r \in Feed, feed[r].pc = "live", feed[r].of \in Send,
           Shown(feed[r]) < loop[feed[r].of].content,
           Text' = [Text EXCEPT ![r] = Chunks(Shown(feed[r]) + 1)],
           UNCHANGED <<Produced, Reading, Attached, Told>>
    PROVE  Promise!Show(r)
<1>1. Text[r] = feed[r].copy
  BY DEF Text
<1>2. Text' = [Text EXCEPT ![r] = Chunks(Len(Text[r]) + 1)]
  BY <1>1 DEF Shown
<1> QED
  BY <1>2 DEF Promise!Show, Promise!Prefix, Chunks, Shown, Produced, Reading, Attached, Text, Told

\* A reader is told the end.
LEMMA IsFinish ==
    ASSUME NEW r \in Feed, feed[r].pc = "live", feed[r].of \in Send, NEW e \in Terminal,
           e = "done" => Shown(feed[r]) = loop[feed[r].of].content,
           Told' = [Told EXCEPT ![r] = e], Attached' = [Attached EXCEPT ![r] = FALSE],
           UNCHANGED <<Produced, Reading, Text>>
    PROVE  Promise!Finish(r)
BY DEF Promise!Finish, Promise!Whole, Terminal, Shown, Produced, Reading, Attached, Text, Told

\* A reader is given a text and its end.
LEMMA IsReplay ==
    ASSUME NEW r \in Feed, feed[r].pc # "live", feed[r].end = "none", feed[r].of \in Send,
           NEW n \in 0..loop[feed[r].of].content, NEW e \in {"done", "failed"},
           e = "done" => n = loop[feed[r].of].content,
           Text' = [Text EXCEPT ![r] = Chunks(n)], Told' = [Told EXCEPT ![r] = e],
           UNCHANGED <<Produced, Reading, Attached>>
    PROVE  Promise!Replay(r)
BY DEF Promise!Replay, Promise!Whole, Promise!Prefix, Chunks, Produced, Reading, Attached, Text, Told

\* Readers go.
LEMMA IsDetach ==
    ASSUME NEW gone \in SUBSET Feed,
           \A f \in Feed : feed'[f].pc = "live" <=> feed[f].pc = "live" /\ f \notin gone,
           UNCHANGED <<Produced, Reading, Text, Told>>
    PROVE  Promise!Detach
<1>1. Attached' = [f \in Feed |-> Attached[f] /\ f \notin gone]
  BY DEF Attached
<1> QED
  BY <1>1 DEF Promise!Detach, Produced, Reading, Attached, Text, Told

\* The steps of a generation change nothing a reader sees, but that the sender's
\* feed goes live.
LEMMA GenerationUnseen ==
    ASSUME TypeOK, NEW s \in Send, AcceptTurn(s) \/ GenerationStep(s), ~StartGeneration(s)
    PROVE  AllUnseen
<1>1. CASE UNCHANGED feed
  BY <1>1 DEF AllUnseen, Unseen
<1>2. CASE \/ AcceptTurn(s) \/ PersistAssistantRow(s) \/ EndSearch(s) \/ DiscardAfterStop(s)
           \/ PersistProgress(s) \/ PersistThrows(s) \/ EndOfStream(s) \/ ProviderThrows(s)
           \/ SwitchToFallback(s) \/ RecordFallbackModel(s) \/ SaveTerminalRow(s)
           \/ SaveThrows(s) \/ AccountAndUnregister(s)
  BY <1>1, <1>2
  DEF AcceptTurn, PersistAssistantRow, EndSearch, DiscardAfterStop, PersistProgress,
      PersistThrows, EndOfStream, ProviderThrows, SwitchToFallback, RecordFallbackModel,
      SaveTerminalRow, SaveThrows, AccountAndUnregister
<1>3. CASE ReceiveDelta(s) \/ PersistFirstDelta(s) \/ PublishTerminal(s)
  <2>1. UNCHANGED feed \/ \E e : Publish(s, e)
    BY <1>3 DEF ReceiveDelta, PersistFirstDelta, PublishTerminal, PublishDelta
  <2> QED
    BY <1>1, <2>1, PublishUnseen
<1> QED
  BY <1>2, <1>3 DEF GenerationStep

\* Every step of the system is a step of AnswerStream, or changes nothing of it.
LEMMA StreamStep ==
    TypeOK /\ TypeOK' /\ Mirror /\ Within /\ Delivered /\ [Next]_vars
    => [Promise!ANext]_(Promise!asVars)
<1> SUFFICES ASSUME TypeOK, TypeOK', Mirror, Within, Delivered, [Next]_vars
             PROVE  [Promise!ANext]_(Promise!asVars)
  OBVIOUS
<1>f. ASSUME NEW r \in Feed
      PROVE  /\ feed[r].of \in Send /\ Fits(feed[r], loop[feed[r].of], registry[feed[r].of])
             /\ feed[r].pc # "closed" => feed[r].end = "none"
  BY Looks DEF Delivered, Fed, Fits
<1>q. ASSUME AllUnseen, ContentsStay PROVE UNCHANGED Promise!asVars
  BY <1>q, Stutters, ProducedStays, IsStutter
<1>1. CASE UNCHANGED vars
  <2>1. AllUnseen /\ ContentsStay
    BY <1>1 DEF vars, AllUnseen, Unseen, ContentsStay
  <2> QED
    BY <1>q, <2>1
<1>2. ASSUME NEW s \in Send, Next, loop'[s].content # loop[s].content
      PROVE  Promise!ANext
  <2>1. loop'[s].content = loop[s].content + 1 /\ ReceiveDelta(s)
    BY <1>2, ContentGrows
  <2>2. loop[s].pc = "provider" /\ \A u \in Send \ {s} : loop'[u] = loop[u]
    BY <2>1 DEF ReceiveDelta, TypeOK
  <2>3. Produced' = [Produced EXCEPT ![s] = @ + 1]
    BY <2>1, <2>2 DEF Produced
  <2>4. AllUnseen
    <3>1. ~StartGeneration(s)
      BY <2>2 DEF StartGeneration
    <3> QED
      BY <2>1, <3>1, GenerationUnseen DEF GenerationStep
  <2>5. loop[s].pc \notin Over
    BY <2>2 DEF Over
  <2>6. Promise!Produce(s)
    BY <2>3, <2>4, <2>5, Stutters, IsProduce
  <2> QED
    BY <2>6 DEF Promise!ANext
<1>3. ASSUME Next, ContentsStay
      PROVE  [Promise!ANext]_(Promise!asVars)
  <2>p. UNCHANGED Produced
    BY <1>3, ProducedStays
  <2>1. ASSUME NEW s \in Send, StartGeneration(s)
        PROVE  Promise!ANext
    <3>1. /\ OnlyFeed(s) /\ feed'[s].pc = "live" /\ feed'[s].of = feed[s].of
          /\ feed'[s].copy = feed[s].copy /\ feed'[s].end = feed[s].end
      BY <2>1, StartShape DEF Same
    <3>2. feed[s].of = s /\ feed[s].pc = "idle"
      BY <2>1 DEF StartGeneration, Admission, Delivered, Fed, SenderWaits
    <3>3. feed[s].copy = Chunks(0)
      BY <1>f, <3>2 DEF Fits
    <3>4. 0 \in 0..loop[s].content
      BY Looks, LoopFacts
    <3>5. Promise!Attach(s)
      BY <1>f, <2>p, <3>1, <3>2, <3>3, <3>4, OneChanges, OneAttaches, IsAttach
    <3> QED
      BY <3>5 DEF Promise!ANext
  <2>2. ASSUME NEW s \in Send, AcceptTurn(s) \/ GenerationStep(s), ~StartGeneration(s)
        PROVE  UNCHANGED Promise!asVars
    BY <1>3, <1>q, <2>2, GenerationUnseen
  <2>3. ASSUME NEW r \in Reconnect, ReadForReconnect(r)
        PROVE  Promise!ANext
    <3>1. /\ OnlyFeed(r) /\ feed[r].pc = "idle" /\ feed'[r].pc = "read" /\ feed'[r].of \in Send
          /\ feed'[r].copy = feed[r].copy /\ feed'[r].end = feed[r].end
      BY <2>3, ReadShape DEF Same
    <3>2. Promise!Choose(r)
      BY <1>f, <2>p, <3>1, OneChanges, OneAttaches, IsChoose
    <3> QED
      BY <3>2 DEF Promise!ANext
  <2>n. ASSUME NEW r \in Reconnect
        PROVE  feed[r].seen.content \in 0..loop[feed[r].of].content
    <3>1. feed[r].seen \in Row /\ feed[r].of \in Send
      BY DEF TypeOK, FeedRecord
    <3>2. feed[r].seen.content \in Nat /\ loop[feed[r].of].content \in Nat
      BY <3>1, Looks, LoopFacts, Constants DEF Row
    <3>3. feed[r].seen.content <= loop[feed[r].of].content
      BY DEF Within, ReadRows
    <3> QED
      BY <3>2, <3>3
  <2>4. ASSUME NEW r \in Reconnect, ReplayRow(r)
        PROVE  [Promise!ANext]_(Promise!asVars)
    <3>0. OnlyFeed(r) /\ feed[r].pc = "read" /\ feed'[r].of = feed[r].of
      BY <2>4, ReplayShape
    <3>1. CASE /\ feed'[r].pc = "mark"
               /\ Same(feed[r], feed'[r], {"copy", "queue", "end", "seen"})
      <4>1. AllUnseen
        BY <3>0, <3>1 DEF AllUnseen, Unseen, OnlyFeed, Same
      <4> QED
        BY <1>3, <1>q, <4>1
    <3>2. CASE /\ feed'[r].pc = "closed" /\ feed'[r].copy = Chunks(feed[r].seen.content)
               /\ feed'[r].end \in {"done", "failed"}
               /\ feed'[r].end = "done" => feed[r].seen.status = "completed"
      <4>1. feed'[r].end = "done" => feed[r].seen.content = loop[feed[r].of].content
        BY <1>f, <3>0, <3>2 DEF Fits, Finished
      <4>2. Promise!Replay(r)
        BY <1>f, <2>n, <2>p, <3>0, <3>2, <4>1, OneChanges, OneAttaches, IsReplay
      <4> QED
        BY <4>2 DEF Promise!ANext
    <3> QED
      BY <2>4, <3>1, <3>2, ReplayShape
  <2>5. ASSUME NEW r \in Reconnect, AttachLive(r)
        PROVE  Promise!ANext
    <3>1. /\ OnlyFeed(r) /\ feed[r].pc = "read" /\ feed'[r].pc = "live"
          /\ feed'[r].of = feed[r].of /\ feed'[r].copy = Chunks(registry[feed[r].of].content)
          /\ feed'[r].end = feed[r].end
      BY <2>5, AttachShape DEF Same
    <3>2. registry[feed[r].of].content \in 0..loop[feed[r].of].content
      BY <1>f, Looks, LoopFacts DEF Within, Published, Reg
    <3>3. Promise!Attach(r)
      BY <1>f, <2>p, <3>1, <3>2, OneChanges, OneAttaches, IsAttach
    <3> QED
      BY <3>3 DEF Promise!ANext
  <2>6. ASSUME NEW r \in Reconnect, MarkOrphan(r)
        PROVE  Promise!ANext
    <3>1. /\ OnlyFeed(r) /\ feed[r].pc = "mark" /\ feed'[r].pc = "closed"
          /\ feed'[r].of = feed[r].of /\ feed'[r].end = "failed"
          /\ feed'[r].copy = feed[r].copy \/ feed'[r].copy = Chunks(feed[r].seen.content)
      BY <2>6, MarkShape
    <3>2. feed[r].copy = Chunks(0)
      BY <1>f, <3>1 DEF Fits
    <3>3. 0 \in 0..loop[feed[r].of].content
      BY <1>f, Looks, LoopFacts
    <3>4. PICK n \in 0..loop[feed[r].of].content : feed'[r].copy = Chunks(n)
      BY <2>n, <3>1, <3>2, <3>3
    <3>5. Promise!Replay(r)
      BY <1>f, <2>p, <3>1, <3>4, OneChanges, OneAttaches, IsReplay
    <3> QED
      BY <3>5 DEF Promise!ANext
  <2>7. ASSUME NEW f \in Feed, Deliver(f)
        PROVE  Promise!ANext
    <3>0. /\ OnlyFeed(f) /\ feed[f].pc = "live" /\ feed[f].queue # <<>>
          /\ feed'[f].of = feed[f].of /\ feed'[f].queue = Tail(feed[f].queue)
      BY <2>7, DeliverShape
    <3>t. /\ feed[f] \in FeedRecord /\ feed'[f] \in FeedRecord
          /\ loop[feed[f].of] \in Loop /\ registry[feed[f].of] \in Reg
      BY <1>f, Looks, LooksNext
    <3>1. CASE /\ Head(feed[f].queue).type = "delta"
               /\ feed'[f].copy = Append(feed[f].copy, Head(feed[f].queue).chunk)
               /\ Same(feed[f], feed'[f], {"pc", "end", "seen"})
      <4>1. feed'[f].copy = Chunks(Shown(feed[f]) + 1) /\ Shown(feed[f]) < loop[feed[f].of].content
        <5> DEFINE l == loop[feed[f].of]
                   g == registry[feed[f].of]
        <5>1. Fits(feed[f], l, g) /\ l \in Loop /\ g \in Reg
          BY <1>f, <3>t
        <5> HIDE DEF l, g
        <5>2. feed'[f].copy = Chunks(Shown(feed[f]) + 1) /\ Shown(feed[f]) < l.content
          BY <3>0, <3>1, <3>t, <5>1, FitsTakeDelta
        <5> QED
          BY <5>2 DEF l
      <4>2. feed'[f].pc = feed[f].pc /\ feed'[f].end = feed[f].end
        BY <3>1 DEF Same
      <4>3. Promise!Show(f)
        BY <1>f, <2>p, <3>0, <4>1, <4>2, OneChanges, OneAttaches, IsShow
      <4> QED
        BY <4>3 DEF Promise!ANext
    <3>2. CASE /\ Head(feed[f].queue).type # "delta"
               /\ feed'[f].pc = "closed" /\ feed'[f].end = Head(feed[f].queue).type
               /\ Same(feed[f], feed'[f], {"copy", "seen"})
      <4>1. feed'[f].end = "done" => Shown(feed[f]) = loop[feed[f].of].content
        BY <1>f, <3>0, <3>2, <3>t, FitsTakeEnd
      <4>2. feed'[f].end \in Terminal
        BY <3>0, <3>2, <3>t, FeedFacts, TailFacts DEF Event
      <4>3. feed'[f].copy = feed[f].copy
        BY <3>2 DEF Same
      <4>4. Promise!Finish(f)
        BY <1>f, <2>p, <3>0, <3>2, <4>1, <4>2, <4>3, OneChanges, OneAttaches, IsFinish
      <4> QED
        BY <4>4 DEF Promise!ANext
    <3> QED
      BY <2>7, <3>1, <3>2, DeliverShape
  <2>8. ASSUME NEW f \in Feed, Disconnect(f)
        PROVE  Promise!ANext
    <3>1. /\ OnlyFeed(f) /\ feed'[f].pc = "left" /\ feed'[f].of = feed[f].of
          /\ feed'[f].copy = feed[f].copy /\ feed'[f].end = feed[f].end
      BY <2>8, DisconnectShape DEF Same
    <3>2. \A g \in Feed : feed'[g].pc = "live" <=> feed[g].pc = "live" /\ g \notin {f}
      BY <3>1 DEF OnlyFeed
    <3>3. UNCHANGED <<Reading, Text, Told>>
      BY <3>1, OneChanges
    <3>4. Promise!Detach
      <4>1. {f} \in SUBSET Feed
        OBVIOUS
      <4> QED
        BY <2>p, <3>2, <3>3, <4>1, IsDetach
    <3> QED
      BY <3>4 DEF Promise!ANext
  <2>9. ASSUME Crash
        PROVE  Promise!ANext
    <3>1. \A g \in Feed : feed'[g].pc = "live" <=> feed[g].pc = "live" /\ g \notin Feed
      BY <2>9, CrashShape
    <3>2. \A g \in Feed : /\ feed'[g].of = feed[g].of /\ feed'[g].copy = feed[g].copy
                          /\ feed'[g].end = feed[g].end
      BY <2>9, CrashShape DEF Same
    <3>3. UNCHANGED <<Reading, Text, Told>>
      BY <3>2 DEF Reading, Text, Told
    <3>4. Promise!Detach
      <4>1. Feed \in SUBSET Feed
        OBVIOUS
      <4> QED
        BY <2>p, <3>1, <3>3, <4>1, IsDetach
    <3> QED
      BY <3>4 DEF Promise!ANext
  <2>10. ASSUME NEW p \in Stop, ReadOpenRows(p) \/ StopStep(p)
         PROVE  UNCHANGED Promise!asVars
    <3>1. UNCHANGED feed
      BY <2>10 DEF ReadOpenRows, StopStep, StopNextRow, StopSettles, StopMarksOrphan
    <3>2. AllUnseen
      BY <3>1 DEF AllUnseen, Unseen
    <3> QED
      BY <1>3, <1>q, <3>2
  <2> QED
    BY <1>3, <2>1, <2>2, <2>3, <2>4, <2>5, <2>6, <2>7, <2>8, <2>9, <2>10
    DEF Next, ReconnectStep
<1> QED
  BY <1>1, <1>2, <1>3 DEF ContentsStay

\* Generations, feeds, reconnects, Stops and restarts together do what AnswerStream
\* promises the readers of an answer.
THEOREM ImplementsPromise == Spec => KeepsPromise
<1>1. Init => Promise!AInit
  <2> SUFFICES ASSUME Init PROVE Promise!AInit
    OBVIOUS
  <2>1. \A s \in Send : loop[s].content = 0
    BY DEF Init
  <2>2. \A f \in Feed : /\ feed[f].of \in Send /\ feed[f].pc = "idle"
                        /\ feed[f].copy = <<>> /\ feed[f].end = "none"
    BY SomeSend DEF Init
  <2>3. [f \in Feed |-> feed[f].pc = "live"] = [f \in Feed |-> FALSE]
    BY <2>2
  <2> QED
    BY <2>1, <2>2, <2>3 DEF Promise!AInit
<1> QED
  BY <1>1, StreamStep, TypeCorrect, AlwaysMirror, AlwaysWithin, AlwaysDelivered, PTL
  DEF Spec, KeepsPromise, Promise!ASpec

-----------------------------------------------------------------------------
(* What the end of a generation reaches. *)

\* The terminal event is still to be published.
EndAhead(s) == loop[s].pc \in Running \ {"account"}

\* An attached reader is not left waiting: the end is waiting for it, or will be published.
Hears(f) == feed[f].pc = "live" => EndAhead(feed[f].of) \/ HasEnd(feed[f].queue)

\* A reconnect that finds the generation registered, but past its terminal event.
TooLate(f) == f \in Reconnect /\ feed[f].pc = "read" /\ loop[feed[f].of].pc = "account"

\* Only the publication and the death of the process put the end behind.
LEMMA EndStaysAhead ==
    ASSUME TypeOK, Next, ~Crash, NEW t \in Send, EndAhead(t), ~PublishTerminal(t)
    PROVE  loop'[t].pc \in Running \ {"account"}
<1> DEFINE Goes == loop'[t].pc \in Running \ {"account"}
<1>l. loop \in [Send -> Loop] /\ loop[t] \in Loop /\ loop[t].pc \in Running \ {"account"}
  BY DEF TypeOK, EndAhead
<1> USE DEF Running
<1>1. ASSUME NEW s \in Send, AcceptTurn(s)
      PROVE  Goes
  <2>1. PICK u \in Send :
          \/ loop' = [loop EXCEPT ![s].pc = "accepted", ![s].anchor = u]
          \/ loop' = [loop EXCEPT ![s].pc = "accepted"]
    BY <1>1 DEF AcceptTurn, ReplayMatches
  <2> QED
    BY <1>1, <2>1, <1>l DEF AcceptTurn, Loop
<1>2. ASSUME NEW s \in Send, PersistAssistantRow(s) \/ StartGeneration(s)
      PROVE  Goes
  BY <1>2, <1>l DEF PersistAssistantRow, StartGeneration, Loop
<1>3. ASSUME NEW s \in Send, EndSearch(s) \/ DiscardAfterStop(s) \/ EndOfStream(s) \/ ProviderThrows(s)
      PROVE  Goes
  BY <1>3, <1>l DEF EndSearch, DiscardAfterStop, EndOfStream, ProviderThrows, Finalize, Loop
<1>4. ASSUME NEW s \in Send, ReceiveDelta(s)
      PROVE  Goes
  BY <1>4, <1>l DEF ReceiveDelta, AfterDelta, Loop
<1>5. ASSUME NEW s \in Send, PersistFirstDelta(s) \/ PersistProgress(s) \/ PersistThrows(s)
      PROVE  Goes
  BY <1>5, <1>l DEF PersistFirstDelta, PersistProgress, PersistThrows, AfterDelta, Finalize, Loop
<1>6. ASSUME NEW s \in Send, SwitchToFallback(s) \/ RecordFallbackModel(s)
      PROVE  Goes
  BY <1>6, <1>l DEF SwitchToFallback, RecordFallbackModel, Finalize, Loop
<1>7. ASSUME NEW s \in Send, SaveTerminalRow(s) \/ SaveThrows(s) \/ AccountAndUnregister(s)
                              \/ (PublishTerminal(s) /\ s # t)
      PROVE  Goes
  BY <1>7, <1>l
  DEF SaveTerminalRow, SaveThrows, PublishTerminal, AccountAndUnregister, Finalize, Loop
<1>9. ASSUME UNCHANGED loop PROVE Goes
  BY <1>9, <1>l
<1>10. ASSUME NEW r \in Reconnect, ReadForReconnect(r) \/ ReconnectStep(r)
      PROVE  Goes
  BY <1>9, <1>10 DEF ReadForReconnect, ReconnectStep, ReplayRow, AttachLive, MarkOrphan
<1>11. ASSUME NEW f \in Feed, Deliver(f) \/ Disconnect(f)
      PROVE  Goes
  BY <1>9, <1>11 DEF Deliver, Disconnect
<1>12. ASSUME NEW p \in Stop, ReadOpenRows(p) \/ StopStep(p)
      PROVE  Goes
  BY <1>9, <1>12 DEF ReadOpenRows, StopStep, StopNextRow, StopSettles, StopMarksOrphan
<1> QED
  BY <1>1, <1>2, <1>3, <1>4, <1>5, <1>6, <1>7, <1>10, <1>11, <1>12
  DEF Next, GenerationStep

\* A reader keeps what waits for it, or leaves.
Keeps(f) ==
    /\ feed'[f].of = feed[f].of
    /\ feed'[f].pc = "live" => /\ feed[f].pc = "live"
                               /\ HasEnd(feed[f].queue) => HasEnd(feed'[f].queue)

\* Who keeps it goes on hearing.
LEMMA KeepsHearing ==
    ASSUME TypeOK, Next, ~Crash, NEW f \in Feed, Hears(f), ~PublishTerminal(feed[f].of), Keeps(f)
    PROVE  Hears(f)'
<1> DEFINE s == feed[f].of
<1>1. s \in Send
  BY Looks
<1>2. loop[s].pc \in Running \ {"account"} => loop'[s].pc \in Running \ {"account"}
  BY <1>1, EndStaysAhead DEF EndAhead
<1> QED
  BY <1>2 DEF Hears, EndAhead, Keeps

\* What does not publish the end takes nothing from a reader but what it is given.
LEMMA ReadersKeep ==
    ASSUME TypeOK, Delivered, Next, NEW f \in Feed,
           ~(f \in Send /\ StartGeneration(f)), ~(f \in Reconnect /\ AttachLive(f)),
           \A s \in Send : ~PublishTerminal(s)
    PROVE  Keeps(f) \/ feed'[f].pc # "live"
<1>s. feed[f].of \in Send /\ feed[f] \in FeedRecord /\ Fits(feed[f], loop[feed[f].of], registry[feed[f].of])
  BY Looks DEF Delivered, Fed
<1>q. feed'[f] = feed[f] => Keeps(f)
  BY DEF Keeps
<1>1. ASSUME NEW s \in Send, Silent(s)
      PROVE  Keeps(f)
  BY <1>1, <1>q, <1>s, SilentSteps
<1>2. ASSUME NEW s \in Send, StartGeneration(s)
      PROVE  Keeps(f)
  BY <1>2, <1>q, StartShape DEF OnlyFeed
<1>3. ASSUME NEW s \in Send, (ReceiveDelta(s) /\ loop[s].content # 0) \/ PersistFirstDelta(s)
      PROVE  Keeps(f)
  <2>1. loop[s].pc \notin {"account", "ended"}
    BY <1>3 DEF ReceiveDelta, PersistFirstDelta
  <2>2. loop[s].content \in Nat
    BY Looks, LoopFacts
  <2>3. PICK e : Publish(s, e)
    BY <1>3, <2>2 DEF ReceiveDelta, PersistFirstDelta, PublishDelta
  <2> DEFINE x == [feed[f] EXCEPT !.queue = Append(@, e)]
  <2>4. x.of = feed[f].of /\ x.pc = feed[f].pc
    BY <1>s DEF FeedRecord
  <2>5. feed'[f] = feed[f] \/ (feed'[f] = x /\ feed[f].of = s)
    BY <2>3 DEF Publish, Subscribers
  <2>6. feed[f].of = s /\ feed[f].pc = "live" => ~HasEnd(feed[f].queue)
    BY <1>s, <2>1 DEF Fits
  <2> QED
    BY <1>q, <2>4, <2>5, <2>6 DEF Keeps
<1>4. ASSUME NEW s \in Send, AcceptTurn(s) \/ GenerationStep(s)
      PROVE  Keeps(f)
  BY <1>1, <1>2, <1>3, <1>4 DEF GenerationStep, Silent
<1>5. ASSUME NEW r \in Reconnect, ReadForReconnect(r) \/ ReconnectStep(r)
      PROVE  Keeps(f) \/ feed'[f].pc # "live"
  <2>1. CASE f = r
    BY <1>5, <2>1, ReadShape, ReplayShape, MarkShape DEF ReconnectStep
  <2>2. CASE f # r
    <3>1. OnlyFeed(r)
      BY <1>5, ReadShape, ReplayShape, AttachShape, MarkShape DEF ReconnectStep
    <3> QED
      BY <2>2, <3>1, <1>q DEF OnlyFeed
  <2> QED
    BY <2>1, <2>2
<1>6. ASSUME NEW g \in Feed, Deliver(g)
      PROVE  Keeps(f) \/ feed'[f].pc # "live"
  <2>1. CASE f = g
    <3>0. /\ feed[f].pc = "live" /\ feed[f].queue # <<>>
          /\ feed'[f].of = feed[f].of /\ feed'[f].queue = Tail(feed[f].queue)
      BY <1>6, <2>1, DeliverShape
    <3>1. CASE Head(feed[f].queue).type = "delta"
      <4>1. HasEnd(Tail(feed[f].queue)) <=> HasEnd(feed[f].queue)
        <5>1. Continues(Shown(feed[f]), feed[f].queue)
          BY <1>s DEF Fits
        <5> QED
          BY <1>s, <3>0, <3>1, <5>1, FeedFacts, DeltaTaken
      <4> QED
        BY <3>0, <4>1 DEF Keeps
    <3>2. CASE Head(feed[f].queue).type # "delta"
      <4>1. feed'[f].pc = "closed"
        BY <1>6, <2>1, <3>2, DeliverShape
      <4> QED
        BY <4>1
    <3> QED
      BY <3>1, <3>2
  <2>2. CASE f # g
    <3>1. OnlyFeed(g)
      BY <1>6, DeliverShape
    <3> QED
      BY <2>2, <3>1, <1>q DEF OnlyFeed
  <2> QED
    BY <2>1, <2>2
<1>7. ASSUME NEW g \in Feed, Disconnect(g)
      PROVE  Keeps(f) \/ feed'[f].pc # "live"
  <2>1. OnlyFeed(g) /\ feed'[g].pc = "left"
    BY <1>7, DisconnectShape
  <2>2. CASE f = g
    BY <2>1, <2>2
  <2>3. CASE f # g
    BY <2>1, <2>3, <1>q DEF OnlyFeed
  <2> QED
    BY <2>2, <2>3
<1>8. ASSUME NEW p \in Stop, ReadOpenRows(p) \/ StopStep(p)
      PROVE  Keeps(f)
  <2>1. UNCHANGED feed
    BY <1>8 DEF ReadOpenRows, StopStep, StopNextRow, StopSettles, StopMarksOrphan
  <2> QED
    BY <2>1, <1>q
<1>9. ASSUME Crash
      PROVE  Keeps(f) \/ feed'[f].pc # "live"
  <2>1. feed'[f] = feed[f] \/ feed'[f].pc = "lost"
    BY <1>9, CrashShape
  <2> QED
    BY <2>1, <1>q
<1> QED
  BY <1>4, <1>5, <1>6, <1>7, <1>8, <1>9 DEF Next

\* The publication reaches every reader that is attached to the generation.
LEMMA EndReaches ==
    ASSUME TypeOK, Mirror, Delivered, NEW s \in Send, PublishTerminal(s), NEW f \in Feed
    PROVE  \/ feed'[f] = feed[f] /\ ~(feed[f].pc = "live" /\ feed[f].of = s)
           \/ HasEnd(feed'[f].queue)
<1> DEFINE e == TerminalEvent(s)
<1>1. loop[s] \in Loop /\ feed[f] \in FeedRecord
  BY Looks
<1>2. loop[s].pc = "publish" /\ registry[s].live
  BY DEF PublishTerminal, Mirror, Mirrored, Running
<1>3. e \in Event /\ e.type # "delta"
  BY <1>1, LoopFacts DEF TerminalEvent, Event, Terminal
<1>4. Publish(s, e)
  BY DEF PublishTerminal
<1> HIDE DEF e
<1>5. CASE feed[f].pc = "live" /\ feed[f].of = s
  <2>1. feed'[f].queue = Append(feed[f].queue, e)
    BY <1>2, <1>3, <1>4, <1>5, PublishShape
  <2>2. feed[f].queue \in Seq(Event)
    BY <1>1, FeedFacts
  <2>3. HasEnd(Append(feed[f].queue, e))
    BY <1>3, <2>2, AppendFacts DEF HasEnd
  <2> QED
    BY <2>1, <2>3
<1>6. CASE ~(feed[f].pc = "live" /\ feed[f].of = s)
  BY <1>2, <1>3, <1>4, <1>6, PublishShape
<1> QED
  BY <1>5, <1>6

\* Nobody is left waiting by a step, but who attaches too late.
LEMMA HearsNext ==
    ASSUME TypeOK, Mirror, Delivered, [Next]_vars, NEW f \in Feed, Hears(f), ~TooLate(f)
    PROVE  Hears(f)'
<1>s. feed[f].of \in Send /\ feed[f] \in FeedRecord
  BY Looks
<1>1. CASE UNCHANGED vars
  BY <1>1 DEF vars, Hears, EndAhead
<1>2. CASE Crash
  BY <1>2, CrashShape DEF Hears
<1>3. CASE Next /\ ~Crash
  <2>1. CASE \E s \in Send : PublishTerminal(s)
    <3>1. PICK s \in Send : PublishTerminal(s)
      BY <2>1
    <3>2. CASE HasEnd(feed'[f].queue)
      BY <3>2 DEF Hears
    <3>3. CASE feed'[f] = feed[f] /\ ~(feed[f].pc = "live" /\ feed[f].of = s)
      <4>1. feed[f].pc = "live" => loop'[feed[f].of] = loop[feed[f].of]
        BY <3>1, <3>3, <1>s DEF PublishTerminal, TypeOK
      <4> QED
        BY <3>3, <4>1 DEF Hears, EndAhead
    <3> QED
      BY <3>1, <3>2, <3>3, EndReaches
  <2>2. CASE f \in Send /\ StartGeneration(f)
    <3>1. feed'[f].of = f
      BY <2>2, StartShape DEF Delivered, Fed, SenderWaits
    <3>2. loop'[f].pc \in {"search", "provider"}
      BY <2>2 DEF StartGeneration, TypeOK, Loop
    <3> QED
      BY <3>1, <3>2 DEF Hears, EndAhead, Running
  <2>3. CASE f \in Reconnect /\ AttachLive(f)
    <3>1. feed'[f].of = feed[f].of /\ UNCHANGED loop /\ feed[f].pc = "read"
      BY <2>3, AttachShape DEF AttachLive
    <3>2. loop[feed[f].of].pc \in Running
      BY <2>3, <1>s DEF AttachLive, Mirror, Mirrored
    <3> QED
      BY <2>3, <3>1, <3>2 DEF Hears, EndAhead, TooLate
  <2>4. CASE /\ \A s \in Send : ~PublishTerminal(s)
             /\ ~(f \in Send /\ StartGeneration(f)) /\ ~(f \in Reconnect /\ AttachLive(f))
    <3>1. CASE Keeps(f)
      BY <1>3, <1>s, <2>4, <3>1, KeepsHearing
    <3>2. CASE feed'[f].pc # "live"
      BY <3>2 DEF Hears
    <3> QED
      BY <1>3, <2>4, <3>1, <3>2, ReadersKeep
  <2> QED
    BY <2>1, <2>2, <2>3, <2>4
<1> QED
  BY <1>1, <1>2, <1>3

\* The sender is told how its answer ended: as long as its feed is attached, the
\* terminal event is to be published or waits in its queue. What SenderFeedEnds
\* needs besides the fairness of the event loop.
SendersHear == \A s \in Send : Hears(s)

\* A sender whose feed is live hears how its answer ended, in every interleaving.
THEOREM SenderIsTold == Spec => []SendersHear
<1>1. Init => SendersHear
  <2> SUFFICES ASSUME Init PROVE SendersHear
    OBVIOUS
  <2>1. \A f \in Feed : feed[f].pc = "idle"
    BY DEF Init
  <2> QED
    BY <2>1 DEF SendersHear, Hears
<1>2. TypeOK /\ Mirror /\ Delivered /\ SendersHear /\ [Next]_vars => SendersHear'
  <2>1. \A s \in Send : ~TooLate(s)
    BY SendsAssumption DEF TooLate
  <2> QED
    BY <2>1, HearsNext DEF SendersHear
<1> QED
  BY <1>1, <1>2, TypeCorrect, AlwaysMirror, AlwaysDelivered, PTL DEF Spec

\* Nobody else is left waiting for an end that is not coming, but a reconnect that finds
\* the generation registered after its terminal event.
OnlyLateReadersWait == [][\A f \in Feed : Hears(f) /\ ~Hears(f)' => TooLate(f)]_vars

\* What messages.service.ts:912 promises to every reader holds for all of them but those.
THEOREM ReadersAreTold == Spec => OnlyLateReadersWait
<1>1. TypeOK /\ Mirror /\ Delivered /\ [Next]_vars
      => [\A f \in Feed : Hears(f) /\ ~Hears(f)' => TooLate(f)]_vars
  BY HearsNext
<1> QED
  BY <1>1, TypeCorrect, AlwaysMirror, AlwaysDelivered, PTL DEF Spec, OnlyLateReadersWait

-----------------------------------------------------------------------------
(* What the promise is worth to one reader. *)

\* The text of an attached reader only grows; what a reader has when it was told the end
\* it keeps, and the answer of which one was told that it is done gets no more.
Gains(f) ==
    LET s == feed[f].of
    IN  /\ feed[f].pc = "live" =>
              /\ feed'[f].of = s
              /\ Len(feed'[f].copy) >= Len(feed[f].copy)
              /\ \A i \in 1..Len(feed[f].copy) : feed'[f].copy[i] = feed[f].copy[i]
        /\ feed[f].end # "none" =>
              feed'[f].of = s /\ feed'[f].end = feed[f].end /\ feed'[f].copy = feed[f].copy
        /\ feed[f].end = "done" => loop'[s].content = loop[s].content

\* The mapped variables, reader by reader.
LEMMA Mapped ==
    ASSUME NEW f \in Feed
    PROVE  /\ Reading[f] = feed[f].of /\ Text[f] = feed[f].copy /\ Told[f] = feed[f].end
           /\ Attached[f] <=> feed[f].pc = "live"
BY DEF Reading, Text, Told, Attached

LEMMA MappedNext ==
    ASSUME NEW f \in Feed
    PROVE  /\ Reading'[f] = feed'[f].of /\ Text'[f] = feed'[f].copy /\ Told'[f] = feed'[f].end
           /\ Attached'[f] <=> feed'[f].pc = "live"
BY DEF Reading, Text, Told, Attached

\* What a step of AnswerStream does to one reader.
LEMMA StepOfPromise ==
    ASSUME TypeOK, [Promise!ANext]_(Promise!asVars), NEW f \in Feed, Told[f] # "none" => ~Attached[f]
    PROVE  /\ Attached[f] =>
                /\ Reading'[f] = Reading[f]
                /\ Text'[f] = Text[f] \/ Text'[f] = Chunks(Len(Text[f]) + 1)
           /\ Told[f] # "none" => Reading'[f] = Reading[f] /\ Told'[f] = Told[f] /\ Text'[f] = Text[f]
           /\ \A s \in Send : Produced'[s] = Produced[s] \/ ~Promise!Final(s)
<1>1. CASE UNCHANGED Promise!asVars
  BY <1>1 DEF Promise!asVars, Produced, Reading, Attached, Text, Told
<1>2. ASSUME NEW s \in Send, Promise!Produce(s)
      PROVE  /\ UNCHANGED <<Reading, Attached, Text, Told>> /\ ~Promise!Final(s)
             /\ \A t \in Send \ {s} : Produced'[t] = Produced[t]
  BY <1>2 DEF Promise!Produce, Produced, Reading, Attached, Text, Told
<1>3. ASSUME NEW r \in Feed, Promise!Choose(r)
      PROVE  UNCHANGED <<Produced, Text, Told>> /\ ~Attached[r] /\ Told[r] = "none"
             /\ \A g \in Feed \ {r} : Reading'[g] = Reading[g]
  BY <1>3 DEF Promise!Choose, Produced, Reading, Attached, Text, Told
<1>4. ASSUME NEW r \in Feed, Promise!Attach(r)
      PROVE  UNCHANGED <<Produced, Reading, Told>> /\ ~Attached[r] /\ Told[r] = "none"
             /\ \A g \in Feed \ {r} : Text'[g] = Text[g]
  BY <1>4 DEF Promise!Attach, Produced, Reading, Attached, Text, Told
<1>5. ASSUME NEW r \in Feed, Promise!Show(r)
      PROVE  UNCHANGED <<Produced, Reading, Told>> /\ Attached[r]
             /\ Text'[r] = Chunks(Len(Text[r]) + 1)
             /\ \A g \in Feed \ {r} : Text'[g] = Text[g]
  BY <1>5 DEF Promise!Show, Promise!Prefix, Chunks, Produced, Reading, Attached, Text, Told
<1>6. ASSUME NEW r \in Feed, Promise!Finish(r)
      PROVE  UNCHANGED <<Produced, Reading, Text>> /\ Attached[r]
             /\ \A g \in Feed \ {r} : Told'[g] = Told[g]
  BY <1>6 DEF Promise!Finish, Produced, Reading, Attached, Text, Told
<1>7. ASSUME NEW r \in Feed, Promise!Replay(r)
      PROVE  UNCHANGED <<Produced, Reading>> /\ ~Attached[r] /\ Told[r] = "none"
             /\ \A g \in Feed \ {r} : Text'[g] = Text[g] /\ Told'[g] = Told[g]
  BY <1>7 DEF Promise!Replay, Produced, Reading, Attached, Text, Told
<1>8. ASSUME Promise!Detach
      PROVE  UNCHANGED <<Produced, Reading, Text, Told>>
  BY <1>8 DEF Promise!Detach, Produced, Reading, Attached, Text, Told
<1> DEFINE Goal == /\ Attached[f] =>
                        /\ Reading'[f] = Reading[f]
                        /\ Text'[f] = Text[f] \/ Text'[f] = Chunks(Len(Text[f]) + 1)
                   /\ Told[f] # "none" =>
                        Reading'[f] = Reading[f] /\ Told'[f] = Told[f] /\ Text'[f] = Text[f]
                   /\ \A s \in Send : Produced'[s] = Produced[s] \/ ~Promise!Final(s)
<1>a. CASE \E s \in Send : Promise!Produce(s)
  BY <1>a, <1>2
<1>b. CASE \E r \in Feed : Promise!Choose(r) \/ Promise!Attach(r)
  BY <1>b, <1>3, <1>4
<1>c. CASE \E r \in Feed : Promise!Show(r) \/ Promise!Finish(r)
  BY <1>c, <1>5, <1>6
<1>d. CASE \E r \in Feed : Promise!Replay(r)
  BY <1>d, <1>7
<1>e. CASE Promise!Detach
  BY <1>e, <1>8
<1> QED
  BY <1>1, <1>a, <1>b, <1>c, <1>d, <1>e DEF Promise!ANext

LEMMA GainsNext ==
    ASSUME TypeOK, Delivered, [Promise!ANext]_(Promise!asVars), NEW f \in Feed
    PROVE  Gains(f)
<1> DEFINE n == Len(feed[f].copy)
           s == feed[f].of
<1>1. feed[f].of \in Send /\ Fits(feed[f], loop[feed[f].of], registry[feed[f].of])
  BY Looks DEF Delivered, Fed
<1>2. feed[f].end # "none" => feed[f].pc # "live"
  BY <1>1 DEF Fits
<1>3. /\ feed[f].pc = "live" =>
            feed'[f].of = s /\ (feed'[f].copy = feed[f].copy \/ feed'[f].copy = Chunks(n + 1))
      /\ feed[f].end # "none" =>
            feed'[f].of = s /\ feed'[f].end = feed[f].end /\ feed'[f].copy = feed[f].copy
      /\ \A t \in Send : Produced'[t] = Produced[t] \/ ~Promise!Final(t)
  BY <1>2, Mapped, MappedNext, StepOfPromise
<1>4. feed[f].copy = Chunks(n) /\ n \in Nat
  BY <1>1, Looks, FeedFacts DEF Fits, Shown
<1>5. feed'[f].copy = Chunks(n + 1) =>
          /\ Len(feed'[f].copy) >= n
          /\ \A i \in 1..n : feed'[f].copy[i] = feed[f].copy[i]
  BY <1>4 DEF Chunks
<1>6. feed'[f].copy = feed[f].copy =>
          /\ Len(feed'[f].copy) >= n
          /\ \A i \in 1..n : feed'[f].copy[i] = feed[f].copy[i]
  BY <1>4
<1>7. feed[f].end = "done" => loop'[s].content = loop[s].content
  <2> SUFFICES ASSUME feed[f].end = "done"
               PROVE  loop'[s].content = loop[s].content
    OBVIOUS
  <2>1. Promise!Final(s)
    BY <1>1 DEF Promise!Final
  <2>2. Produced'[s] = Produced[s]
    BY <1>1, <1>3, <2>1
  <2> QED
    BY <1>1, <2>2 DEF Produced
<1> QED
  BY <1>3, <1>5, <1>6, <1>7 DEF Gains

\* No reader ever sees its text shrink or change, and none that was told how the answer ended
\* is told otherwise or shown more; when one was told done, the generation adds nothing.
ReadersOnlyGain == [][\A f \in Feed : Gains(f)]_vars

\* By the refinement: each step of AnswerStream leaves a reader what it has been given.
THEOREM NothingIsTakenBack == Spec => ReadersOnlyGain
<1>1. TypeOK /\ TypeOK' /\ Mirror /\ Within /\ Delivered /\ [Next]_vars
      => [\A f \in Feed : Gains(f)]_vars
  BY StreamStep, GainsNext
<1> QED
  BY <1>1, TypeCorrect, AlwaysMirror, AlwaysWithin, AlwaysDelivered, PTL
  DEF Spec, ReadersOnlyGain

-----------------------------------------------------------------------------
(* What becomes of a settled row. StopNeverTouchesSettled does not hold; this   *)
(* is what does.                                                              *)

\* The row of the send has been inserted, or never will be.
Past(s) == loop[s].pc \notin {"unsent", "accepted"}

\* Rows are read when they are there, and those that Stops and reconnects are about
\* to mark were open when they were read.
ReadOpen ==
    /\ \A s \in Send : Past(s) \/ row[s].status = "absent"
    /\ \A p \in Stop : \A item \in stop[p].todo : item.seen.status \in Open /\ Past(item.id)
    /\ \A r \in Reconnect :
          /\ feed[r].pc \in {"read", "mark"} => Past(feed[r].of)
          /\ feed[r].pc = "mark" => feed[r].seen.status \in Open

LEMMA ReadOpenInit == Init => ReadOpen
<1> SUFFICES ASSUME Init PROVE ReadOpen
  OBVIOUS
<1>1. /\ \A s \in Send : row[s].status = "absent"
      /\ \A p \in Stop : stop[p].todo = {}
      /\ \A f \in Feed : feed[f].pc = "idle"
  BY DEF Init, BlankRow
<1> QED
  BY <1>1 DEF ReadOpen

\* A send does not go back behind its insert.
LEMMA PastStays ==
    ASSUME TypeOK, [Next]_vars, NEW t \in Send, loop[t].pc \notin {"unsent", "accepted"}
    PROVE  loop'[t].pc \notin {"unsent", "accepted"}
<1> DEFINE Goes == loop'[t].pc \notin {"unsent", "accepted"}
<1>l. loop \in [Send -> Loop] /\ loop[t] \in Loop
  BY DEF TypeOK
<1>1. ASSUME NEW s \in Send, AcceptTurn(s)
      PROVE  Goes
  <2>1. PICK u \in Send :
          \/ loop' = [loop EXCEPT ![s].pc = "accepted", ![s].anchor = u]
          \/ loop' = [loop EXCEPT ![s].pc = "accepted"]
    BY <1>1 DEF AcceptTurn, ReplayMatches
  <2> QED
    BY <1>1, <2>1, <1>l DEF AcceptTurn, Loop
<1>2. ASSUME NEW s \in Send, PersistAssistantRow(s) \/ StartGeneration(s)
      PROVE  Goes
  BY <1>2, <1>l DEF PersistAssistantRow, StartGeneration, Loop
<1>3. ASSUME NEW s \in Send, EndSearch(s) \/ DiscardAfterStop(s) \/ EndOfStream(s) \/ ProviderThrows(s)
      PROVE  Goes
  BY <1>3, <1>l DEF EndSearch, DiscardAfterStop, EndOfStream, ProviderThrows, Finalize, Loop
<1>4. ASSUME NEW s \in Send, ReceiveDelta(s)
      PROVE  Goes
  BY <1>4, <1>l DEF ReceiveDelta, AfterDelta, Loop
<1>5. ASSUME NEW s \in Send, PersistFirstDelta(s) \/ PersistProgress(s) \/ PersistThrows(s)
      PROVE  Goes
  BY <1>5, <1>l DEF PersistFirstDelta, PersistProgress, PersistThrows, AfterDelta, Finalize, Loop
<1>6. ASSUME NEW s \in Send, SwitchToFallback(s) \/ RecordFallbackModel(s)
      PROVE  Goes
  BY <1>6, <1>l DEF SwitchToFallback, RecordFallbackModel, Finalize, Loop
<1>7. ASSUME NEW s \in Send, SaveTerminalRow(s) \/ SaveThrows(s) \/ PublishTerminal(s)
                              \/ AccountAndUnregister(s)
      PROVE  Goes
  BY <1>7, <1>l
  DEF SaveTerminalRow, SaveThrows, PublishTerminal, AccountAndUnregister, Finalize, Loop
<1>8. ASSUME Crash PROVE Goes
  BY <1>8, CrashedLoop
<1>9. ASSUME UNCHANGED loop PROVE Goes
  BY <1>9
<1>10. ASSUME NEW r \in Reconnect, ReadForReconnect(r) \/ ReconnectStep(r)
      PROVE  Goes
  BY <1>9, <1>10 DEF ReadForReconnect, ReconnectStep, ReplayRow, AttachLive, MarkOrphan
<1>11. ASSUME NEW f \in Feed, Deliver(f) \/ Disconnect(f)
      PROVE  Goes
  BY <1>9, <1>11 DEF Deliver, Disconnect
<1>12. ASSUME NEW p \in Stop, ReadOpenRows(p) \/ StopStep(p)
      PROVE  Goes
  BY <1>9, <1>12 DEF ReadOpenRows, StopStep, StopNextRow, StopSettles, StopMarksOrphan
<1>13. CASE UNCHANGED vars
  BY <1>9, <1>13 DEF vars
<1> QED
  BY <1>1, <1>2, <1>3, <1>4, <1>5, <1>6, <1>7, <1>8, <1>10, <1>11, <1>12, <1>13
  DEF Next, GenerationStep

\* A Stop or a reconnect marks the row as an orphan: as it was when it was read, but for the
\* status.
Marks(s) ==
    \/ \E p \in Stop : \E item \in stop[p].todo :
          /\ stop[p].pc = "mark" /\ item.id = s
          /\ row'[s] = [item.seen EXCEPT !.status = "interrupted"]
    \/ \E r \in Reconnect :
          /\ feed[r].pc = "mark" /\ feed[r].of = s
          /\ row'[s] = [feed[r].seen EXCEPT !.status = "interrupted"]

\* Who writes to a row: its insert, its loop before its end, and the orphan marking.
LEMMA RowWrites ==
    ASSUME TypeOK, [Next]_vars, NEW t \in Send, row'[t] # row[t]
    PROVE  \/ loop[t].pc = "accepted" /\ loop'[t].pc = "persisted"
           \/ loop[t].pc \in {"persistFirst", "persist", "fallback", "save"}
           \/ Marks(t)
<1> DEFINE Goes == \/ loop[t].pc = "accepted" /\ loop'[t].pc = "persisted"
                   \/ loop[t].pc \in {"persistFirst", "persist", "fallback", "save"}
                   \/ Marks(t)
<1>l. loop \in [Send -> Loop] /\ loop[t] \in Loop /\ row \in [Send -> Row]
  BY DEF TypeOK
<1>1. ASSUME NEW s \in Send, PersistAssistantRow(s)
      PROVE  Goes
  BY <1>1, <1>l DEF PersistAssistantRow, Loop
<1>2. ASSUME NEW s \in Send, PersistFirstDelta(s) \/ PersistProgress(s) \/ SwitchToFallback(s)
                              \/ SaveTerminalRow(s)
      PROVE  Goes
  BY <1>2, <1>l
  DEF PersistFirstDelta, PersistProgress, SwitchToFallback, SaveTerminalRow, Progress
<1>3. ASSUME NEW s \in Send, AcceptTurn(s) \/ GenerationStep(s)
      PROVE  Goes
  BY <1>1, <1>2, <1>3
  DEF AcceptTurn, GenerationStep, StartGeneration, EndSearch, DiscardAfterStop, ReceiveDelta,
      PersistThrows, EndOfStream, ProviderThrows, RecordFallbackModel, SaveThrows,
      PublishTerminal, AccountAndUnregister
<1>4. ASSUME NEW r \in Reconnect, ReadForReconnect(r) \/ ReconnectStep(r)
      PROVE  Goes
  <2>1. CASE MarkOrphan(r)
    <3>1. feed[r].pc = "mark" /\ row' = MarkedInterrupted(feed[r].of, feed[r].seen)
      BY <2>1 DEF MarkOrphan
    <3>2. feed[r].of = t /\ row'[t] = [feed[r].seen EXCEPT !.status = "interrupted"]
      BY <3>1, <1>l DEF MarkedInterrupted
    <3> QED
      BY <3>1, <3>2 DEF Marks
  <2> QED
    BY <1>4, <2>1 DEF ReadForReconnect, ReconnectStep, ReplayRow, AttachLive
<1>5. ASSUME NEW f \in Feed, Deliver(f) \/ Disconnect(f)
      PROVE  Goes
  BY <1>5 DEF Deliver, Disconnect
<1>6. ASSUME NEW p \in Stop, ReadOpenRows(p) \/ StopStep(p)
      PROVE  Goes
  <2>1. CASE StopMarksOrphan(p)
    <3>1. PICK item \in stop[p].todo : row' = MarkedInterrupted(item.id, item.seen)
      BY <2>1 DEF StopMarksOrphan
    <3>2. item.id = t /\ row'[t] = [item.seen EXCEPT !.status = "interrupted"]
      BY <3>1, <1>l DEF MarkedInterrupted
    <3> QED
      BY <2>1, <3>2 DEF Marks, StopMarksOrphan
  <2> QED
    BY <1>6, <2>1 DEF ReadOpenRows, StopStep, StopNextRow, StopSettles
<1>7. CASE Crash
  BY <1>7 DEF Crash
<1> QED
  BY <1>3, <1>4, <1>5, <1>6, <1>7 DEF Next, vars

\* What a Stop goes on with it had found, or has just read.
LEMMA TodoShrinks ==
    ASSUME TypeOK, [Next]_vars, NEW p \in Stop, NEW item \in stop'[p].todo
    PROVE  item \in stop[p].todo \/ (item.id \in Send /\ item.seen = row[item.id] /\ row[item.id].status \in Open)
<1> DEFINE Goes == item \in stop[p].todo \/ (item.id \in Send /\ item.seen = row[item.id] /\ row[item.id].status \in Open)
<1>s. stop \in [Stop -> StopRecord] /\ stop[p] \in StopRecord
  BY DEF TypeOK
<1>1. CASE UNCHANGED stop
  BY <1>1
<1>2. ASSUME NEW q \in Stop, ReadOpenRows(q)
      PROVE  Goes
  BY <1>2, <1>s DEF ReadOpenRows, StopRecord
<1>3. ASSUME NEW q \in Stop, StopStep(q)
      PROVE  Goes
  <2>1. \/ stop' = [stop EXCEPT ![q].pc = "wait"] \/ stop' = [stop EXCEPT ![q].pc = "mark"]
        \/ \E i, a : stop' = [stop EXCEPT ![q].pc = "next", ![q].todo = @ \ {i}, ![q].answer = a]
        \/ stop' = [stop EXCEPT ![q].pc = "lost", ![q].todo = {}]
    BY <1>3 DEF StopStep, StopNextRow, StopSettles, StopMarksOrphan
  <2>2. ASSUME NEW i, NEW a,
               stop' = [stop EXCEPT ![q].pc = "next", ![q].todo = @ \ {i}, ![q].answer = a]
        PROVE  stop'[p].todo \subseteq stop[p].todo
    BY <2>2, <1>s DEF StopRecord
  <2>3. ASSUME \/ stop' = [stop EXCEPT ![q].pc = "wait"] \/ stop' = [stop EXCEPT ![q].pc = "mark"]
               \/ stop' = [stop EXCEPT ![q].pc = "lost", ![q].todo = {}]
        PROVE  stop'[p].todo \subseteq stop[p].todo
    BY <2>3, <1>s DEF StopRecord
  <2> QED
    BY <2>1, <2>2, <2>3
<1>4. CASE Crash
  <2>1. stop'[p] = stop[p] \/ stop'[p] = [stop[p] EXCEPT !.pc = "lost", !.todo = {}]
    BY <1>4 DEF Crash
  <2> QED
    BY <2>1, <1>s DEF StopRecord
<1> QED
  BY ZenonT(60), <1>1, <1>2, <1>3, <1>4
  DEF Next, vars, AcceptTurn, GenerationStep, PersistAssistantRow, StartGeneration, EndSearch,
      DiscardAfterStop, ReceiveDelta, PersistFirstDelta, PersistProgress, PersistThrows, EndOfStream,
      ProviderThrows, SwitchToFallback, RecordFallbackModel, SaveTerminalRow, SaveThrows,
      PublishTerminal, AccountAndUnregister, ReadForReconnect, ReconnectStep, ReplayRow, AttachLive,
      MarkOrphan, Deliver, Disconnect
\* What a reconnect has read it keeps until it is answered.
LEMMA ReadsStay ==
    ASSUME TypeOK, Delivered, [Next]_vars, NEW r \in Reconnect, feed'[r].pc \in {"read", "mark"}
    PROVE  \/ /\ feed[r].pc = feed'[r].pc /\ feed'[r].of = feed[r].of
              /\ feed'[r].seen = feed[r].seen
           \/ /\ feed'[r].pc = "read" /\ feed'[r].of \in Send /\ row[feed'[r].of].status # "absent"
              /\ feed'[r].seen = row[feed'[r].of]
           \/ /\ feed[r].pc = "read" /\ feed'[r].pc = "mark" /\ feed'[r].of = feed[r].of
              /\ feed'[r].seen = feed[r].seen /\ feed[r].seen.status \in Open
<1> DEFINE Kept == /\ feed[r].pc = feed'[r].pc /\ feed'[r].of = feed[r].of
                   /\ feed'[r].seen = feed[r].seen
           Goes == \/ Kept
                   \/ /\ feed'[r].pc = "read" /\ feed'[r].of \in Send
                      /\ row[feed'[r].of].status # "absent" /\ feed'[r].seen = row[feed'[r].of]
                   \/ /\ feed[r].pc = "read" /\ feed'[r].pc = "mark" /\ feed'[r].of = feed[r].of
                      /\ feed'[r].seen = feed[r].seen /\ feed[r].seen.status \in Open
<1>t. r \in Feed /\ feed \in [Feed -> FeedRecord] /\ feed[r] \in FeedRecord
  BY DEF TypeOK
<1>q. feed'[r] = feed[r] => Kept
  OBVIOUS
<1>1. ASSUME NEW s \in Send, StartGeneration(s)
      PROVE  Goes
  <2>1. r # s
    BY SendsAssumption
  <2> QED
    BY <1>1, <1>q, <1>t, <2>1, StartShape DEF OnlyFeed
<1>2. ASSUME NEW s \in Send, NEW e, Publish(s, e)
      PROVE  Goes
  <2> DEFINE x == [feed[r] EXCEPT !.queue = Append(@, e)]
  <2>1. x.of = feed[r].of /\ x.pc = feed[r].pc /\ x.seen = feed[r].seen
    BY <1>t DEF FeedRecord
  <2>2. feed'[r] = feed[r] \/ feed'[r] = x
    BY <1>2 DEF Publish
  <2> QED
    BY <1>q, <2>1, <2>2
<1>3. ASSUME NEW s \in Send, AcceptTurn(s) \/ GenerationStep(s)
      PROVE  Goes
  <2>1. \/ UNCHANGED feed \/ StartGeneration(s) \/ \E e : Publish(s, e)
    BY <1>3
    DEF AcceptTurn, GenerationStep, PersistAssistantRow, EndSearch, DiscardAfterStop, ReceiveDelta,
        PersistFirstDelta, PublishDelta, PersistProgress, PersistThrows, EndOfStream,
        ProviderThrows, SwitchToFallback, RecordFallbackModel, SaveTerminalRow, SaveThrows,
        PublishTerminal, AccountAndUnregister
  <2> QED
    BY <1>1, <1>2, <1>q, <2>1
<1>4. ASSUME NEW c \in Reconnect, ReadForReconnect(c) \/ ReconnectStep(c)
      PROVE  Goes
  <2>1. CASE c # r
    <3>1. OnlyFeed(c)
      BY <1>4, ReadShape, ReplayShape, AttachShape, MarkShape DEF ReconnectStep
    <3> QED
      BY <2>1, <3>1, <1>q, <1>t DEF OnlyFeed
  <2>2. CASE c = r
    <3>1. CASE ReadForReconnect(r)
      <4>1. PICK s \in Send : /\ row[s].status # "absent"
                              /\ feed' = [feed EXCEPT ![r].pc = "read", ![r].of = s, ![r].seen = row[s]]
        BY <3>1 DEF ReadForReconnect
      <4>2. feed'[r].of = s /\ feed'[r].pc = "read" /\ feed'[r].seen = row[s]
        BY <4>1, <1>t DEF FeedRecord
      <4> QED
        BY <4>1, <4>2
    <3>2. CASE ReplayRow(r)
      <4>1. feed[r].pc = "read" /\ feed'[r].of = feed[r].of
        BY <3>2, ReplayShape
      <4>2. CASE feed[r].seen.status \in Open /\ feed' = [feed EXCEPT ![r].pc = "mark"]
        BY <4>1, <4>2, <1>t DEF FeedRecord
      <4>3. CASE feed[r].seen.status \notin Open
        <5>1. feed'[r].pc = "closed"
          BY <3>2, <4>3, <1>t DEF ReplayRow, FeedRecord
        <5> QED
          BY <5>1
      <4> QED
        BY <3>2, <4>2, <4>3 DEF ReplayRow
    <3>3. CASE AttachLive(r) \/ MarkOrphan(r)
      BY <3>3, AttachShape, MarkShape
    <3> QED
      BY <1>4, <2>2, <3>1, <3>2, <3>3 DEF ReconnectStep
  <2> QED
    BY <2>1, <2>2
<1>5. ASSUME NEW f \in Feed, Deliver(f) \/ Disconnect(f)
      PROVE  Goes
  <2>1. OnlyFeed(f)
    BY <1>5, DeliverShape, DisconnectShape
  <2>2. CASE f # r
    BY <2>1, <2>2, <1>q, <1>t DEF OnlyFeed
  <2>3. CASE f = r
    <3>1. feed'[r].pc \in {"live", "closed", "left"}
      BY <1>5, <2>3, DeliverShape, DisconnectShape DEF Same
    <3> QED
      BY <3>1
  <2> QED
    BY <2>2, <2>3
<1>6. ASSUME NEW p \in Stop, ReadOpenRows(p) \/ StopStep(p)
      PROVE  Goes
  BY <1>6, <1>q DEF ReadOpenRows, StopStep, StopNextRow, StopSettles, StopMarksOrphan
<1>7. CASE Crash
  BY <1>7, <1>q, <1>t, CrashShape
<1>8. CASE UNCHANGED vars
  BY <1>8, <1>q DEF vars
<1> QED
  BY <1>3, <1>4, <1>5, <1>6, <1>7, <1>8 DEF Next

LEMMA ReadOpenNext == TypeOK /\ Delivered /\ ReadOpen /\ [Next]_vars => ReadOpen'
<1> SUFFICES ASSUME TypeOK, Delivered, ReadOpen, [Next]_vars
             PROVE  ReadOpen'
  OBVIOUS
<1>1. \A s \in Send : Past(s) \/ row[s].status = "absent"
  BY DEF ReadOpen
<1>2. \A s \in Send : Past(s) => loop'[s].pc \notin {"unsent", "accepted"}
  BY PastStays DEF Past
<1>3. ASSUME NEW s \in Send, row[s].status \in Open \/ row[s].status # "absent"
      PROVE  Past(s)
  BY <1>1, <1>3 DEF Open
<1>4. ASSUME NEW s \in Send, ~Past(s), loop'[s].pc \in {"unsent", "accepted"}
      PROVE  row'[s].status = "absent"
  <2>1. ~Marks(s)
    BY <1>4 DEF Marks, ReadOpen
  <2>2. row'[s] = row[s]
    BY <1>4, <2>1, RowWrites DEF Past
  <2> QED
    BY <1>1, <1>4, <2>2
<1>5. ASSUME NEW p \in Stop, NEW item \in stop'[p].todo
      PROVE  item.seen.status \in Open /\ item.id \in Send /\ Past(item.id)
  <2>1. CASE item \in stop[p].todo
    BY <2>1 DEF ReadOpen, TypeOK, StopRecord
  <2>2. CASE item.id \in Send /\ item.seen = row[item.id] /\ row[item.id].status \in Open
    BY <2>2, <1>3
  <2> QED
    BY <2>1, <2>2, TodoShrinks
<1>6. ASSUME NEW r \in Reconnect, feed'[r].pc \in {"read", "mark"}
      PROVE  feed'[r].of \in Send /\ Past(feed'[r].of)
  <2>1. feed[r].of \in Send
    BY Looks
  <2> QED
    BY <1>3, <1>6, <2>1, ReadsStay DEF ReadOpen
<1>7. ASSUME NEW r \in Reconnect, feed'[r].pc = "mark"
      PROVE  feed'[r].seen.status \in Open
  BY <1>7, ReadsStay DEF ReadOpen
<1> QED
  BY <1>1, <1>2, <1>4, <1>5, <1>6, <1>7 DEF ReadOpen, Past

LEMMA AlwaysReadOpen == Spec => []ReadOpen
BY ReadOpenInit, ReadOpenNext, TypeCorrect, AlwaysDelivered, PTL DEF Spec

\* The orphan marking of a row that was open when it was read.
MarksOpen(s) ==
    \/ \E p \in Stop : \E item \in stop[p].todo :
          /\ stop[p].pc = "mark" /\ item.id = s /\ item.seen.status \in Open
          /\ row'[s] = [item.seen EXCEPT !.status = "interrupted"]
    \/ \E r \in Reconnect :
          /\ feed[r].pc = "mark" /\ feed[r].of = s /\ feed[r].seen.status \in Open
          /\ row'[s] = [feed[r].seen EXCEPT !.status = "interrupted"]

\* A settled row is written again only by the orphan marking of a Stop or a reconnect that
\* had read it while it was open, or by its own loop when such a marking came first. So a
\* completed or a failed row is lost to nothing but a stale marking, and gets back the text
\* that was read.
SettledRowsStay ==
    [][\A s \in Send : row[s].status \in Settled /\ row'[s] # row[s] =>
          \/ MarksOpen(s)
          \/ row[s].status = "interrupted" /\ loop[s].pc \in Running]_vars

\* What messages.service.ts:843 says of a Stop fails by stale reads and by nothing else.
THEOREM SettledIsLostToStaleMarks == Spec => SettledRowsStay
<1>1. ASSUME TypeOK, Sound, ReadOpen, [Next]_vars, NEW s \in Send, row[s].status \in Settled, row'[s] # row[s]
      PROVE  MarksOpen(s) \/ (row[s].status = "interrupted" /\ loop[s].pc \in Running)
  <2>1. CASE Marks(s)
    BY <1>1, <2>1 DEF Marks, MarksOpen, ReadOpen
  <2>2. CASE loop[s].pc = "accepted"
    BY <1>1, <2>2 DEF ReadOpen, Past, Settled
  <2>3. CASE loop[s].pc \in {"persistFirst", "persist", "fallback", "save"}
    <3>1. loop[s].pc \in Running /\ loop[s].pc \notin Over
      BY <2>3 DEF Running, Over
    <3>2. row[s].status \notin {"completed", "failed"}
      BY <1>1, <3>1 DEF Sound, RowSound
    <3> QED
      BY <1>1, <3>1, <3>2 DEF Settled
  <2> QED
    BY <1>1, <2>1, <2>2, <2>3, RowWrites
<1>2. TypeOK /\ Sound /\ ReadOpen /\ [Next]_vars
      => [\A s \in Send : row[s].status \in Settled /\ row'[s] # row[s] =>
             \/ MarksOpen(s)
             \/ row[s].status = "interrupted" /\ loop[s].pc \in Running]_vars
  BY <1>1
<1> QED
  BY <1>2, TypeCorrect, AlwaysSound, AlwaysReadOpen, PTL DEF Spec, SettledRowsStay

-----------------------------------------------------------------------------
(* Stops run down: the part of StopAnswers that does not rest on fairness.    *)

\* Rows are stamped by the clock, and so is what was read of them.
Stamped ==
    /\ \A s \in Send : row[s].created <= clock
    /\ \A p \in Stop : \A item \in stop[p].todo : item.seen.created <= clock
    /\ \A r \in Reconnect : feed[r].pc \in {"read", "mark"} => feed[r].seen.created <= clock

LEMMA StampedInit == Init => Stamped
<1> SUFFICES ASSUME Init PROVE Stamped
  OBVIOUS
<1>1. /\ \A s \in Send : row[s].created = 0
      /\ \A p \in Stop : stop[p].todo = {}
      /\ \A f \in Feed : feed[f].pc = "idle"
      /\ clock = 0
  BY DEF Init, BlankRow
<1> QED
  BY <1>1 DEF Stamped, Feed

\* A row is stamped when it is inserted.
LEMMA Stamps ==
    ASSUME TypeOK, [Next]_vars, NEW t \in Send
    PROVE  \/ row'[t].created = row[t].created
           \/ row'[t].created = clock + 1 /\ clock' = clock + 1
           \/ Marks(t)
<1> DEFINE Goes == \/ row'[t].created = row[t].created
                   \/ row'[t].created = clock + 1 /\ clock' = clock + 1
                   \/ Marks(t)
<1>r. row \in [Send -> Row] /\ row[t] \in Row
  BY DEF TypeOK
<1>1. ASSUME NEW s \in Send, PersistAssistantRow(s)
      PROVE  Goes
  BY <1>1, <1>r DEF PersistAssistantRow, Row
<1>2. ASSUME NEW s \in Send, PersistFirstDelta(s) \/ PersistProgress(s) \/ SwitchToFallback(s)
                              \/ SaveTerminalRow(s)
      PROVE  Goes
  BY <1>2, <1>r
  DEF PersistFirstDelta, PersistProgress, SwitchToFallback, SaveTerminalRow, Progress, Row
<1>3. CASE row' = row
  BY <1>3
<1>4. ASSUME NEW s \in Send, AcceptTurn(s) \/ GenerationStep(s)
      PROVE  Goes
  BY <1>1, <1>2, <1>3, <1>4
  DEF AcceptTurn, GenerationStep, StartGeneration, EndSearch, DiscardAfterStop, ReceiveDelta,
      PersistThrows, EndOfStream, ProviderThrows, RecordFallbackModel, SaveThrows,
      PublishTerminal, AccountAndUnregister
<1>5. CASE \A s \in Send : ~(AcceptTurn(s) \/ GenerationStep(s))
  <2>1. CASE row'[t] # row[t]
    <3>1. loop' = loop \/ Crash
      BY <1>5 DEF Next, vars, ReadForReconnect, ReconnectStep, ReplayRow, AttachLive, MarkOrphan,
                  Deliver, Disconnect, ReadOpenRows, StopStep, StopNextRow, StopSettles,
                  StopMarksOrphan
    <3>2. ~Crash
      BY <2>1 DEF Crash
    <3>3. CASE \E r \in Reconnect : MarkOrphan(r)
      <4>1. PICK r \in Reconnect : feed[r].pc = "mark" /\ row' = MarkedInterrupted(feed[r].of, feed[r].seen)
        BY <2>1, <3>3 DEF MarkOrphan
      <4>2. feed[r].of = t /\ row'[t] = [feed[r].seen EXCEPT !.status = "interrupted"]
        BY <2>1, <4>1, <1>r DEF MarkedInterrupted
      <4> QED
        BY <4>1, <4>2 DEF Marks
    <3>4. CASE \E p \in Stop : StopMarksOrphan(p)
      <4>1. PICK p \in Stop : stop[p].pc = "mark"
                              /\ \E item \in stop[p].todo : row' = MarkedInterrupted(item.id, item.seen)
        BY <2>1, <3>4 DEF StopMarksOrphan
      <4>2. PICK item \in stop[p].todo : row' = MarkedInterrupted(item.id, item.seen)
        BY <4>1
      <4>3. item.id = t /\ row'[t] = [item.seen EXCEPT !.status = "interrupted"]
        BY <2>1, <4>2, <1>r DEF MarkedInterrupted
      <4> QED
        BY <4>1, <4>3 DEF Marks
    <3> QED
      BY <1>5, <2>1, <3>2, <3>3, <3>4
      DEF Next, vars, ReadForReconnect, ReconnectStep, ReplayRow, AttachLive,
          Deliver, Disconnect, ReadOpenRows, StopStep, StopNextRow, StopSettles
  <2> QED
    BY <2>1
<1> QED
  BY <1>4, <1>5

LEMMA ClockGoes ==
    ASSUME TypeOK, [Next]_vars
    PROVE  clock \in Nat /\ clock' \in Nat /\ clock <= clock'
<1>1. clock \in Nat
  BY DEF TypeOK
<1>2. clock' = clock \/ clock' = clock + 1
  BY ZenonT(60) DEF Next, vars, AcceptTurn, GenerationStep, PersistAssistantRow, StartGeneration, EndSearch,
      DiscardAfterStop, ReceiveDelta, PersistFirstDelta, PersistProgress, PersistThrows, EndOfStream,
      ProviderThrows, SwitchToFallback, RecordFallbackModel, SaveTerminalRow, SaveThrows,
      PublishTerminal, AccountAndUnregister, ReadForReconnect, ReconnectStep, ReplayRow, AttachLive,
      MarkOrphan, Deliver, Disconnect, ReadOpenRows, StopStep, StopNextRow, StopSettles,
      StopMarksOrphan, Crash
<1> QED
  BY <1>1, <1>2

LEMMA StampedNext == TypeOK /\ Delivered /\ Stamped /\ [Next]_vars => Stamped'
<1> SUFFICES ASSUME TypeOK, Delivered, Stamped, [Next]_vars
             PROVE  Stamped'
  OBVIOUS
<1>c. clock \in Nat /\ clock' \in Nat /\ clock <= clock'
  BY ClockGoes
<1>r. \A s \in Send : row[s] \in Row /\ row[s].created \in Nat
  BY DEF TypeOK, Row
<1>p. \A p \in Stop : \A item \in stop[p].todo : item.seen \in Row /\ item.seen.created \in Nat
  BY DEF TypeOK, StopRecord, Row
<1>f. \A r \in Reconnect : feed[r].seen \in Row /\ feed[r].seen.created \in Nat
  BY DEF TypeOK, FeedRecord, Feed, Row
<1>1. ASSUME NEW s \in Send
      PROVE  row'[s].created <= clock'
  <2>1. CASE row'[s].created = row[s].created
    BY <2>1, <1>c, <1>r DEF Stamped
  <2>2. CASE row'[s].created = clock + 1 /\ clock' = clock + 1
    BY <2>2, <1>c
  <2>3. CASE Marks(s)
    <3>1. ASSUME NEW x \in Row, x.created \in Nat, x.created <= clock,
                 row'[s] = [x EXCEPT !.status = "interrupted"]
          PROVE  row'[s].created <= clock'
      <4>1. row'[s].created = x.created
        BY <3>1 DEF Row
      <4> QED
        BY <3>1, <4>1, <1>c
    <3>2. \/ \E p \in Stop : \E item \in stop[p].todo :
                row'[s] = [item.seen EXCEPT !.status = "interrupted"]
          \/ \E r \in Reconnect : feed[r].pc = "mark"
                /\ row'[s] = [feed[r].seen EXCEPT !.status = "interrupted"]
      BY <2>3 DEF Marks
    <3> QED
      BY <3>1, <3>2, <1>p, <1>f DEF Stamped
  <2> QED
    BY <2>1, <2>2, <2>3, Stamps
<1>2. ASSUME NEW p \in Stop, NEW item \in stop'[p].todo
      PROVE  item.seen.created <= clock'
  <2>1. CASE item \in stop[p].todo
    BY <2>1, <1>c, <1>p DEF Stamped
  <2>2. CASE item.id \in Send /\ item.seen = row[item.id]
    BY <2>2, <1>c, <1>r DEF Stamped
  <2> QED
    BY <2>1, <2>2, TodoShrinks
<1>3. ASSUME NEW r \in Reconnect, feed'[r].pc \in {"read", "mark"}
      PROVE  feed'[r].seen.created <= clock'
  <2>1. CASE feed[r].pc \in {"read", "mark"} /\ feed'[r].seen = feed[r].seen
    BY <2>1, <1>c, <1>f DEF Stamped
  <2>2. CASE feed'[r].of \in Send /\ feed'[r].seen = row[feed'[r].of]
    BY <2>2, <1>c, <1>r DEF Stamped
  <2> QED
    BY <1>3, <2>1, <2>2, ReadsStay
<1> QED
  BY <1>1, <1>2, <1>3 DEF Stamped

LEMMA AlwaysStamped == Spec => []Stamped
BY StampedInit, StampedNext, TypeCorrect, AlwaysDelivered, PTL DEF Spec

\* A Stop that waits or marks does so for a row, and it has found finitely many.
StopBusy ==
    \A p \in Stop : /\ IsFiniteSet(stop[p].todo)
                    /\ stop[p].pc \in {"wait", "mark"} => stop[p].todo # {}

\* What a Stop still has before it: two steps for each row, the first of which may be over.
Left(x) == 2 * Cardinality(x.todo) + IF x.pc = "next" THEN 1 ELSE 0

\* What a step of a Stop does to it.
StopGoes(x, y) ==
    \/ x.pc = "next" /\ y.pc \in {"wait", "mark"} /\ x.todo # {} /\ y.todo = x.todo
    \/ /\ x.pc \in {"wait", "mark"} /\ y.pc = "next"
       /\ \E item \in x.todo : y.todo = x.todo \ {item}
    \/ x.pc \in {"wait", "mark"} /\ x.todo # {} /\ y.pc = "lost" /\ y.todo = {}

LEMMA StopStepGoes ==
    ASSUME TypeOK, NEW p \in Stop, StopStep(p)
    PROVE  /\ StopGoes(stop[p], stop'[p])
           /\ \A q \in Stop : q # p => stop'[q] = stop[q]
<1>s. stop \in [Stop -> StopRecord] /\ stop[p] \in StopRecord
  BY DEF TypeOK
<1>1. CASE StopNextRow(p)
  <2>1. stop[p].pc = "next" /\ stop[p].todo # {}
    BY <1>1 DEF StopNextRow
  <2>2. \/ stop' = [stop EXCEPT ![p].pc = "wait"]
        \/ stop' = [stop EXCEPT ![p].pc = "mark"]
    BY <1>1 DEF StopNextRow
  <2>3. /\ stop'[p].pc \in {"wait", "mark"} /\ stop'[p].todo = stop[p].todo
        /\ \A q \in Stop : q # p => stop'[q] = stop[q]
    BY <2>2, <1>s DEF StopRecord
  <2> QED
    BY <2>1, <2>3 DEF StopGoes
<1>2. ASSUME stop[p].pc \in {"wait", "mark"}, NEW item \in stop[p].todo, NEW a,
             stop' = [stop EXCEPT ![p].pc = "next", ![p].todo = @ \ {item}, ![p].answer = a]
      PROVE  /\ StopGoes(stop[p], stop'[p])
             /\ \A q \in Stop : q # p => stop'[q] = stop[q]
  <2>1. /\ stop'[p].pc = "next" /\ stop'[p].todo = stop[p].todo \ {item}
        /\ \A q \in Stop : q # p => stop'[q] = stop[q]
    BY <1>2, <1>s DEF StopRecord
  <2> QED
    BY <1>2, <2>1 DEF StopGoes
<1>3. CASE StopSettles(p)
  <2>1. PICK item \in stop[p].todo : \E a :
           stop' = [stop EXCEPT ![p].pc = "next", ![p].todo = @ \ {item}, ![p].answer = a]
    BY <1>3 DEF StopSettles
  <2> QED
    BY <1>2, <1>3, <2>1 DEF StopSettles
<1>4. CASE StopMarksOrphan(p)
  <2>1. PICK item \in stop[p].todo :
           \/ \E a : stop' = [stop EXCEPT ![p].pc = "next", ![p].todo = @ \ {item}, ![p].answer = a]
           \/ stop' = [stop EXCEPT ![p].pc = "lost", ![p].todo = {}]
    BY <1>4 DEF StopMarksOrphan
  <2>2. CASE stop' = [stop EXCEPT ![p].pc = "lost", ![p].todo = {}]
    <3>1. /\ stop'[p].pc = "lost" /\ stop'[p].todo = {}
          /\ \A q \in Stop : q # p => stop'[q] = stop[q]
      BY <2>2, <1>s DEF StopRecord
    <3> QED
      BY <1>4, <2>1, <3>1 DEF StopGoes, StopMarksOrphan
  <2> QED
    BY <1>2, <1>4, <2>1, <2>2 DEF StopMarksOrphan
<1> QED
  BY <1>1, <1>3, <1>4 DEF StopStep

\* What else happens to a Stop: it begins, or the process dies.
LEMMA StopElse ==
    ASSUME TypeOK, [Next]_vars, NEW p \in Stop, ~StopStep(p)
    PROVE  \/ stop'[p] = stop[p]
           \/ /\ stop[p].pc = "idle" /\ stop'[p].pc = "next"
              /\ stop'[p].todo = {[id |-> s, seen |-> row[s]] : s \in {u \in Send : row[u].status \in Open}}
           \/ stop'[p].pc = "lost" /\ stop'[p].todo = {}
<1>s. stop \in [Stop -> StopRecord] /\ stop[p] \in StopRecord
  BY DEF TypeOK
<1>1. ASSUME NEW q \in Stop, ReadOpenRows(q)
      PROVE  \/ stop'[p] = stop[p]
             \/ /\ stop[p].pc = "idle" /\ stop'[p].pc = "next"
                /\ stop'[p].todo = {[id |-> s, seen |-> row[s]] : s \in {u \in Send : row[u].status \in Open}}
  <2> DEFINE found == {[id |-> s, seen |-> row[s]] : s \in {u \in Send : row[u].status \in Open}}
  <2>1. stop[q].pc = "idle" /\ stop' = [stop EXCEPT ![q].pc = "next", ![q].todo = found]
    BY <1>1 DEF ReadOpenRows
  <2> HIDE DEF found
  <2>2. CASE q # p
    BY <2>1, <2>2, <1>s
  <2>3. CASE q = p
    <3>1. stop[p].pc = "idle" /\ stop'[p].pc = "next" /\ stop'[p].todo = found
      BY <2>1, <2>3, <1>s DEF StopRecord
    <3> QED
      BY <3>1 DEF found
  <2> QED
    BY <2>2, <2>3
<1>2. ASSUME NEW q \in Stop, StopStep(q)
      PROVE  stop'[p] = stop[p]
  BY <1>2, StopStepGoes
<1>3. CASE Crash
  <2>1. stop'[p] = stop[p] \/ stop'[p] = [stop[p] EXCEPT !.pc = "lost", !.todo = {}]
    BY <1>3 DEF Crash
  <2> QED
    BY <2>1, <1>s DEF StopRecord
<1>4. CASE UNCHANGED stop
  BY <1>4
<1> QED
  BY ZenonT(60), <1>1, <1>2, <1>3, <1>4
  DEF Next, vars, AcceptTurn, GenerationStep, PersistAssistantRow, StartGeneration, EndSearch,
      DiscardAfterStop, ReceiveDelta, PersistFirstDelta, PersistProgress, PersistThrows, EndOfStream,
      ProviderThrows, SwitchToFallback, RecordFallbackModel, SaveTerminalRow, SaveThrows,
      PublishTerminal, AccountAndUnregister, ReadForReconnect, ReconnectStep, ReplayRow, AttachLive,
      MarkOrphan, Deliver, Disconnect

LEMMA StopBusyNext ==
    ASSUME IsFiniteSet(Send), TypeOK, StopBusy, [Next]_vars
    PROVE  StopBusy'
<1> SUFFICES ASSUME NEW p \in Stop
             PROVE  /\ IsFiniteSet(stop'[p].todo)
                    /\ stop'[p].pc \in {"wait", "mark"} => stop'[p].todo # {}
  BY DEF StopBusy
<1>1. IsFiniteSet(stop[p].todo)
  BY DEF StopBusy
<1>2. CASE StopStep(p)
  <2>1. StopGoes(stop[p], stop'[p])
    BY <1>2, StopStepGoes
  <2>2. stop'[p].todo \subseteq stop[p].todo
    BY <2>1 DEF StopGoes
  <2>3. IsFiniteSet(stop'[p].todo)
    BY <1>1, <2>2, FS_Subset
  <2> QED
    BY <2>1, <2>3 DEF StopGoes
<1>3. CASE ~StopStep(p)
  <2> DEFINE open == {u \in Send : row[u].status \in Open}
             found == {[id |-> s, seen |-> row[s]] : s \in open}
  <2>1. IsFiniteSet(found)
    <3>1. IsFiniteSet(open)
      BY FS_Subset
    <3>2. [s \in open |-> [id |-> s, seen |-> row[s]]] \in Surjection(open, found)
      BY DEF Surjection
    <3> QED
      BY <3>1, <3>2, FS_Surjection
  <2>2. IsFiniteSet({})
    BY FS_EmptySet
  <2>3. \/ stop'[p] = stop[p]
        \/ stop'[p].pc = "next" /\ stop'[p].todo = found
        \/ stop'[p].pc = "lost" /\ stop'[p].todo = {}
    BY <1>3, StopElse
  <2> HIDE DEF found
  <2> QED
    BY <1>1, <2>1, <2>2, <2>3 DEF StopBusy
<1> QED
  BY <1>2, <1>3

\* Rows that were found have a newest one.
LEMMA HasNewest ==
    ASSUME TypeOK, Stamped, NEW p \in Stop, stop[p].todo # {}
    PROVE  \E item \in stop[p].todo : IsNewest(p, item)
<1> DEFINE Below == {ss \in Nat \X Nat : ss[1] < ss[2]}
           behind == {clock - item.seen.created : item \in stop[p].todo}
<1>c. clock \in Nat
  BY DEF TypeOK
<1>t. \A item \in stop[p].todo : item.seen.created \in Nat /\ item.seen.created <= clock
  BY DEF TypeOK, StopRecord, Row, Stamped
<1>1. behind \subseteq Nat /\ behind # {}
  <2>1. \A item \in stop[p].todo : clock - item.seen.created \in Nat
    BY <1>c, <1>t
  <2> QED
    BY <2>1
<1>2. IsWellFoundedOn(Below, Nat)
  BY NatLessThanWellFounded DEF OpToRel
<1>3. \A x, y \in Nat : y < x => <<y, x>> \in Below
  OBVIOUS
<1> HIDE DEF Below
<1>4. PICK x \in behind : \A y \in behind : <<y, x>> \notin Below
  BY <1>1, <1>2, WFMin
<1>5. PICK item \in stop[p].todo : x = clock - item.seen.created
  BY <1>4
<1>6. \A other \in stop[p].todo : other.seen.created <= item.seen.created
  <2> SUFFICES ASSUME NEW other \in stop[p].todo PROVE other.seen.created <= item.seen.created
    OBVIOUS
  <2>1. clock - other.seen.created \in behind /\ clock - other.seen.created \in Nat /\ x \in Nat
    BY <1>1
  <2>2. ~(clock - other.seen.created < x)
    BY <1>3, <1>4, <2>1
  <2> QED
    BY <1>5, <2>2, <1>c, <1>t
<1> QED
  BY <1>6 DEF IsNewest

\* A Stop that has begun is answered, lost, or has a newest row to look at, to wait for or
\* to mark: no state leaves it without its next step.
StopHasNext ==
    \A p \in Stop :
        \/ stop[p].pc \in {"idle", "lost"} \/ Answered(p)
        \/ \E item \in stop[p].todo : IsNewest(p, item)

\* Every step of a Stop is one of those it has before it, and nobody adds to them.
StopsRunDown ==
    [][\A p \in Stop :
          /\ stop[p].pc # "idle" => Left(stop'[p]) <= Left(stop[p])
          /\ StopStep(p) => Left(stop'[p]) < Left(stop[p])]_vars

LEMMA LeftIs ==
    ASSUME NEW x, IsFiniteSet(x.todo)
    PROVE  /\ Cardinality(x.todo) \in Nat /\ Left(x) \in Nat
           /\ x.pc = "next" => Left(x) = 2 * Cardinality(x.todo) + 1
           /\ x.pc # "next" => Left(x) = 2 * Cardinality(x.todo)
<1>1. Cardinality(x.todo) \in Nat
  BY FS_CardinalityType
<1> QED
  BY <1>1 DEF Left

LEMMA StopGoesDown ==
    ASSUME NEW x, NEW y, StopGoes(x, y), IsFiniteSet(x.todo), IsFiniteSet(y.todo)
    PROVE  Left(y) < Left(x)
<1>x. /\ Cardinality(x.todo) \in Nat
      /\ x.pc = "next" => Left(x) = 2 * Cardinality(x.todo) + 1
      /\ x.pc # "next" => Left(x) = 2 * Cardinality(x.todo)
  BY LeftIs
<1>y. /\ Cardinality(y.todo) \in Nat
      /\ y.pc = "next" => Left(y) = 2 * Cardinality(y.todo) + 1
      /\ y.pc # "next" => Left(y) = 2 * Cardinality(y.todo)
  BY LeftIs
<1>1. CASE x.pc = "next" /\ y.pc \in {"wait", "mark"} /\ y.todo = x.todo
  BY <1>1, <1>x, <1>y
<1>2. CASE /\ x.pc \in {"wait", "mark"} /\ y.pc = "next"
           /\ \E item \in x.todo : y.todo = x.todo \ {item}
  <2>1. PICK item \in x.todo : y.todo = x.todo \ {item}
    BY <1>2
  <2>2. Cardinality(y.todo) = Cardinality(x.todo) - 1
    BY <2>1, FS_RemoveElement
  <2> QED
    BY <1>2, <2>2, <1>x, <1>y
<1>3. CASE x.pc \in {"wait", "mark"} /\ x.todo # {} /\ y.pc = "lost" /\ y.todo = {}
  <2>1. Cardinality(y.todo) = 0 /\ Cardinality(x.todo) # 0
    BY <1>3, FS_EmptySet
  <2> QED
    BY <1>3, <2>1, <1>x, <1>y
<1> QED
  BY <1>1, <1>2, <1>3 DEF StopGoes

\* A Stop takes finitely many steps, whatever the generations it waits for do, and always has the
\* next one until it is answered or lost.
THEOREM StopsAreAnswered ==
    ASSUME IsFiniteSet(Send)
    PROVE  Spec => []StopHasNext /\ StopsRunDown
<1>1. Init => StopBusy
  <2> SUFFICES ASSUME Init, NEW p \in Stop
               PROVE  IsFiniteSet(stop[p].todo) /\ stop[p].pc = "idle"
    BY DEF StopBusy
  <2>1. stop[p].todo = {} /\ stop[p].pc = "idle"
    BY DEF Init
  <2> QED
    BY <2>1, FS_EmptySet
<1>2. TypeOK /\ StopBusy /\ [Next]_vars => StopBusy'
  BY StopBusyNext
<1>3. TypeOK /\ Stamped /\ StopBusy => StopHasNext
  <2> SUFFICES ASSUME TypeOK, Stamped, StopBusy, NEW p \in Stop,
                      stop[p].pc \notin {"idle", "lost"}, ~Answered(p)
               PROVE  \E item \in stop[p].todo : IsNewest(p, item)
    BY DEF StopHasNext
  <2>1. stop[p].todo # {}
    BY DEF StopBusy, Answered, TypeOK, StopRecord, StopState
  <2> QED
    BY <2>1, HasNewest
<1>4. TypeOK /\ StopBusy /\ StopBusy' /\ [Next]_vars
      => [\A p \in Stop :
             /\ stop[p].pc # "idle" => Left(stop'[p]) <= Left(stop[p])
             /\ StopStep(p) => Left(stop'[p]) < Left(stop[p])]_vars
  <2> SUFFICES ASSUME TypeOK, StopBusy, StopBusy', [Next]_vars, NEW p \in Stop
               PROVE  /\ stop[p].pc # "idle" => Left(stop'[p]) <= Left(stop[p])
                      /\ StopStep(p) => Left(stop'[p]) < Left(stop[p])
    OBVIOUS
  <2>1. IsFiniteSet(stop[p].todo) /\ IsFiniteSet(stop'[p].todo)
    BY DEF StopBusy
  <2>2. Left(stop[p]) \in Nat /\ Left(stop'[p]) \in Nat
    BY <2>1, LeftIs
  <2>3. StopStep(p) => Left(stop'[p]) < Left(stop[p])
    BY <2>1, StopStepGoes, StopGoesDown
  <2>4. ASSUME ~StopStep(p), stop[p].pc # "idle"
        PROVE  Left(stop'[p]) <= Left(stop[p])
    <3>1. CASE stop'[p] = stop[p]
      BY <3>1, <2>2
    <3>2. CASE stop'[p].pc = "lost" /\ stop'[p].todo = {}
      <4>1. Left(stop'[p]) = 2 * Cardinality({})
        BY <3>2, <2>1, LeftIs
      <4>2. Cardinality({}) = 0
        BY FS_EmptySet
      <4> QED
        BY <4>1, <4>2, <2>2
    <3> QED
      BY <2>4, <3>1, <3>2, StopElse
  <2> QED
    BY <2>2, <2>3, <2>4
<1> QED
  BY <1>1, <1>2, <1>3, <1>4, AlwaysStamped, TypeCorrect, PTL DEF Spec, StopsRunDown
=============================================================================
