-------------------------- MODULE ChatTurnRowProofs --------------------------
(***************************************************************************)
(* Theorems about ChatTurn: what its generations, reconnects, Stops and     *)
(* restarts leave in the database, for every set of them and every bound.  *)
(***************************************************************************)
EXTENDS ChatTurnProofs, FiniteSetTheorems

USE DEF Feed, MessageId, UserRow, AssistantRow

-----------------------------------------------------------------------------
(* The assistant row. *)

\* From here on a loop's answer, model and outcome stay what they are.
Over == {"publish", "account", "ended", "lost"}

\* What the assistant row of a send says of its loop. Nobody writes completed
\* or failed but a loop that is over then; unless a write was lost, a loop that has gone
\* past its terminal save has left a settled row.
RowSound(t) ==
    /\ row[t].status = "completed" =>
          /\ loop[t].pc \in Over /\ loop[t].outcome = "completed"
          /\ row[t].content = loop[t].content /\ row[t].model = loop[t].model
    /\ row[t].status = "failed" => loop[t].pc \in Over
    /\ faults = 0 /\ row[t].status \in Open => loop[t].pc \in Running \cup {"persisted", "lost"}
    /\ faults = 0 /\ loop[t].pc \in {"publish", "account", "ended"} => row[t].status \in Settled

Sound == \A t \in Send : RowSound(t)

LEMMA SoundInit == Init => Sound
<1> SUFFICES ASSUME Init, NEW t \in Send PROVE RowSound(t)
  BY DEF Sound
<1>1. row[t].status = "absent" /\ loop[t].pc = "unsent"
  BY DEF Init, BlankRow
<1> QED
  BY <1>1 DEF RowSound, Open

\* A loop that dies with the process, or had ended.
LEMMA CrashedLoop ==
    ASSUME TypeOK, Crash, NEW t \in Send
    PROVE  /\ loop'[t].pc = IF loop[t].pc \in {"unsent", "ended"} THEN loop[t].pc ELSE "lost"
           /\ loop'[t].content = loop[t].content /\ loop'[t].model = loop[t].model
           /\ loop'[t].outcome = loop[t].outcome /\ loop'[t].anchor = loop[t].anchor
<1> DEFINE r == loop[t]
<1>1. r \in Loop
  BY DEF TypeOK
<1>2. LET x == [r EXCEPT !.pc = "lost"]
      IN  /\ x.pc = "lost" /\ x.content = r.content /\ x.model = r.model
          /\ x.outcome = r.outcome /\ x.anchor = r.anchor
  BY <1>1 DEF Loop
<1>3. loop'[t] = IF r.pc \in {"unsent", "ended"} THEN r ELSE [r EXCEPT !.pc = "lost"]
  BY DEF Crash
<1> QED
  BY <1>2, <1>3

\* An orphan that is marked is interrupted, and no other row changes.
LEMMA OrphanMarked ==
    ASSUME TypeOK, NEW s \in Send, NEW seen \in Row, NEW t \in Send,
           row' = MarkedInterrupted(s, seen)
    PROVE  row'[t] = row[t] \/ row'[t].status = "interrupted"
BY DEF TypeOK, MarkedInterrupted, Row

LEMMA SoundNext == Typed /\ Sound /\ [Next]_vars => Sound'
<1> SUFFICES ASSUME Typed, Sound, [Next]_vars, NEW t \in Send PROVE RowSound(t)'
  BY DEF Sound
<1> USE DEF RowSound, Open, Settled, Running, Over
<1>t. TypeOK
  BY DEF Typed
<1>l. loop \in [Send -> Loop] /\ loop[t] \in Loop
  BY <1>t DEF TypeOK
<1>r. row \in [Send -> Row] /\ row[t] \in Row
  BY <1>t DEF TypeOK
<1>f. faults \in Nat
  BY <1>t, Constants DEF TypeOK
<1>m. RowSound(t)
  BY DEF Sound
<1>1. ASSUME NEW s \in Send, AcceptTurn(s)
      PROVE  RowSound(t)'
  <2>1. PICK u \in Send :
          \/ loop' = [loop EXCEPT ![s].pc = "accepted", ![s].anchor = u]
          \/ loop' = [loop EXCEPT ![s].pc = "accepted"]
    BY <1>1 DEF AcceptTurn, ReplayMatches
  <2> QED
    BY <1>1, <2>1, <1>l, <1>m DEF AcceptTurn, Loop
<1>2. ASSUME NEW s \in Send, PersistAssistantRow(s)
      PROVE  RowSound(t)'
  <2>1. CASE s # t
    BY <1>2, <2>1, <1>l, <1>r, <1>f, <1>m DEF PersistAssistantRow, Fault
  <2>2. CASE s = t /\ loop'[t].pc = "persisted"
    BY <1>2, <2>2, <1>l, <1>r, <1>f, <1>m DEF PersistAssistantRow, Fault, Loop, Row
  <2>3. CASE s = t /\ loop'[t].pc # "persisted"
    BY <1>2, <2>3, <1>l, <1>r, <1>f, <1>m DEF PersistAssistantRow, Fault, Loop
  <2> QED
    BY <2>1, <2>2, <2>3
<1>3. ASSUME NEW s \in Send, StartGeneration(s)
      PROVE  RowSound(t)'
  BY <1>3, <1>l, <1>m DEF StartGeneration, Loop
<1>4. ASSUME NEW s \in Send, EndSearch(s)
      PROVE  RowSound(t)'
  BY <1>4, <1>l, <1>f, <1>m DEF EndSearch, Fault, Finalize, Loop
<1>5. ASSUME NEW s \in Send, DiscardAfterStop(s) \/ PersistThrows(s) \/ EndOfStream(s)
      PROVE  RowSound(t)'
  BY <1>5, <1>l, <1>f, <1>m DEF DiscardAfterStop, PersistThrows, EndOfStream, Fault, Finalize, Loop
<1>6. ASSUME NEW s \in Send, ReceiveDelta(s)
      PROVE  RowSound(t)'
  BY <1>6, <1>l, <1>m DEF ReceiveDelta, AfterDelta, Loop
<1>7. ASSUME NEW s \in Send, PersistFirstDelta(s) \/ PersistProgress(s)
      PROVE  RowSound(t)'
  <2>1. row' = Progress(s) /\ faults' = faults /\ \E next \in AfterDelta : loop' = [loop EXCEPT ![s].pc = next]
    BY <1>7 DEF PersistFirstDelta, PersistProgress, AfterDelta
  <2>2. CASE s # t
    BY <2>1, <2>2, <1>l, <1>r, <1>m DEF Progress
  <2>3. CASE s = t
    <3>1. row'[t].status = "streaming"
      BY <2>1, <2>3, <1>r DEF Progress, Row
    <3>2. loop'[t].pc \in AfterDelta
      BY <2>1, <2>3, <1>l DEF Loop
    <3> QED
      BY <3>1, <3>2 DEF AfterDelta
  <2> QED
    BY <2>2, <2>3
<1>8. ASSUME NEW s \in Send, ProviderThrows(s)
      PROVE  RowSound(t)'
  BY <1>8, <1>l, <1>m DEF ProviderThrows, Finalize, Loop
<1>9. ASSUME NEW s \in Send, SwitchToFallback(s)
      PROVE  RowSound(t)'
  BY SMTT(30), <1>9, <1>l, <1>r, <1>f, <1>m DEF SwitchToFallback, Fault, Finalize, Loop, Row
<1>10. ASSUME NEW s \in Send, RecordFallbackModel(s)
       PROVE  RowSound(t)'
  BY <1>10, <1>l, <1>f, <1>m DEF RecordFallbackModel, Fault, Loop
<1>11. ASSUME NEW s \in Send, SaveTerminalRow(s)
       PROVE  RowSound(t)'
  <2>1. loop[s].outcome \in Settled
    BY <1>11 DEF SaveTerminalRow, Typed, LoopReady
  <2> QED
    BY <1>11, <2>1, <1>l, <1>r, <1>m DEF SaveTerminalRow, Loop, Row
<1>12. ASSUME NEW s \in Send, SaveThrows(s)
       PROVE  RowSound(t)'
  BY <1>12, <1>l, <1>f, <1>m DEF SaveThrows, Fault, Finalize, Loop
<1>13. ASSUME NEW s \in Send, PublishTerminal(s)
       PROVE  RowSound(t)'
  BY <1>13, <1>l, <1>m DEF PublishTerminal, Loop
<1>14. ASSUME NEW s \in Send, AccountAndUnregister(s)
       PROVE  RowSound(t)'
  BY <1>14, <1>l, <1>f, <1>m DEF AccountAndUnregister, Fault, Loop
<1>15. CASE UNCHANGED <<row, loop, faults>>
  BY <1>15, <1>m
<1>16. ASSUME NEW r \in Reconnect, MarkOrphan(r)
       PROVE  RowSound(t)'
  <2>1. feed[r].of \in Send /\ feed[r].seen \in Row
    BY <1>t DEF TypeOK, FeedRecord
  <2> QED
    BY <1>16, <2>1, <1>t, <1>f, <1>m, OrphanMarked DEF MarkOrphan, Fault
<1>17. ASSUME NEW r \in Reconnect, ReadForReconnect(r) \/ ReconnectStep(r)
       PROVE  RowSound(t)'
  BY <1>15, <1>16, <1>17 DEF ReconnectStep, ReadForReconnect, ReplayRow, AttachLive
<1>18. ASSUME NEW p \in Stop, StopMarksOrphan(p)
       PROVE  RowSound(t)'
  <2>1. PICK item \in stop[p].todo :
          \/ row' = MarkedInterrupted(item.id, item.seen) /\ UNCHANGED faults
          \/ Fault /\ UNCHANGED row
    BY <1>18 DEF StopMarksOrphan
  <2>2. item.id \in Send /\ item.seen \in Row
    BY <1>t DEF TypeOK, StopRecord
  <2> QED
    BY <1>18, <2>1, <2>2, <1>t, <1>f, <1>m, OrphanMarked DEF StopMarksOrphan, Fault
<1>19. ASSUME NEW p \in Stop, ReadOpenRows(p) \/ StopStep(p)
       PROVE  RowSound(t)'
  BY <1>15, <1>18, <1>19 DEF StopStep, ReadOpenRows, StopNextRow, StopSettles
<1>20. ASSUME NEW f \in Feed, Deliver(f) \/ Disconnect(f)
       PROVE  RowSound(t)'
  BY <1>15, <1>20 DEF Deliver, Disconnect
<1>21. CASE Crash
  <2>1. row' = row /\ faults' = faults
    BY <1>21 DEF Crash
  <2> QED
    BY <1>21, <2>1, <1>t, <1>m, CrashedLoop
<1>22. CASE UNCHANGED vars
  BY <1>15, <1>22 DEF vars
<1>23. ASSUME NEW s \in Send, AcceptTurn(s) \/ GenerationStep(s)
       PROVE  RowSound(t)'
  BY <1>23, <1>1, <1>2, <1>3, <1>4, <1>5, <1>6, <1>7, <1>8, <1>9, <1>10, <1>11, <1>12, <1>13, <1>14
  DEF GenerationStep
<1> QED
  BY <1>17, <1>19, <1>20, <1>21, <1>22, <1>23 DEF Next

LEMMA AlwaysTyped == Spec => []Typed
BY TypedInit, TypedNext, PTL DEF Spec

LEMMA AlwaysSound == Spec => []Sound
BY SoundInit, SoundNext, AlwaysTyped, PTL DEF Spec

\* However reconnects, Stops and restarts mark rows, a row that says completed is
\* the whole answer of a loop that ended so and names the model that gave it.
THEOREM CompletedIsWhole == Spec => []CompletedRowIsWhole
<1>1. Sound => CompletedRowIsWhole
  BY DEF Sound, RowSound, CompletedRowIsWhole
<1> QED
  BY <1>1, AlwaysSound, PTL

\* Unless a write was lost, an open row has a request or loop at work on it, or
\* one that died with the process.
THEOREM NobodyStranded == Spec => []NoStrandedRow
<1>1. Sound => NoStrandedRow
  BY DEF Sound, RowSound, NoStrandedRow
<1> QED
  BY <1>1, AlwaysSound, PTL

-----------------------------------------------------------------------------
(* Stop. *)

\* One step of a Stop that waits: whatever it newly answers is settled.
LEMMA WaitSettles ==
    ASSUME Typed, Sound, Next, NEW p \in Stop,
           faults = 0, stop[p].pc = "wait", stop'[p].answer # stop[p].answer,
           NEW item \in stop[p].todo \ stop'[p].todo
    PROVE  row[item.id].status \in Settled
<1>t. stop \in [Stop -> StopRecord]
  BY DEF Typed, TypeOK
<1>1. ASSUME NEW q \in Stop, StopSettles(q)
      PROVE  row[item.id].status \in Settled
  <2>1. p = q
    BY <1>1, <1>t DEF StopSettles
  <2>2. PICK i \in stop[p].todo :
          \E answer \in {"none"} \cup (IF Completed(i.id) THEN {loop[i.id].outcome} ELSE {}) :
             stop' = [stop EXCEPT ![p].pc = "next", ![p].todo = @ \ {i},
                                  ![p].answer = AnswerWith(p, answer)]
    BY ZenonT(60), <1>1, <2>1 DEF StopSettles
  <2>3. PICK answer \in {"none"} \cup (IF Completed(i.id) THEN {loop[i.id].outcome} ELSE {}) :
             stop' = [stop EXCEPT ![p].pc = "next", ![p].todo = @ \ {i},
                                  ![p].answer = AnswerWith(p, answer)]
    BY <2>2
  <2>4. stop'[p].todo = stop[p].todo \ {i} /\ stop'[p].answer = AnswerWith(p, answer)
    BY <2>3, <1>t DEF StopRecord
  <2>5. item = i
    BY <2>4
  <2>6. answer # "none"
    BY <2>4 DEF AnswerWith
  <2>7. Completed(i.id) /\ i.id \in Send
    BY <2>6, <1>t DEF StopRecord
  <2> QED
    BY <2>5, <2>7 DEF Sound, RowSound, Completed
<1>2. ASSUME UNCHANGED stop
      PROVE  FALSE
  BY <1>2
<1>3. ASSUME NEW q \in Stop, ReadOpenRows(q) \/ StopNextRow(q) \/ StopMarksOrphan(q)
      PROVE  FALSE
  <2>1. p # q
    <3>1. CASE StopNextRow(q)
      BY <3>1, <1>t DEF StopNextRow, StopRecord
    <3>2. CASE ReadOpenRows(q)
      BY <3>2 DEF ReadOpenRows
    <3>3. CASE StopMarksOrphan(q)
      BY <3>3 DEF StopMarksOrphan
    <3> QED
      BY <1>3, <3>1, <3>2, <3>3
  <2>2. stop'[p] = stop[p]
    BY <1>3, <2>1, <1>t DEF ReadOpenRows, StopNextRow, StopMarksOrphan
  <2> QED
    BY <2>2
<1>4. CASE Crash
  <2>1. stop[p] \in StopRecord
    BY <1>t
  <2>2. stop'[p].answer = stop[p].answer
    BY <2>1, <1>4 DEF Crash, StopRecord
  <2> QED
    BY <2>2
<1>5. ASSUME NEW s \in Send, AcceptTurn(s) \/ GenerationStep(s)
      PROVE  FALSE
  BY <1>2, <1>5
  DEF AcceptTurn, GenerationStep, PersistAssistantRow, StartGeneration, EndSearch,
      DiscardAfterStop, ReceiveDelta, PersistFirstDelta, PersistProgress, PersistThrows,
      EndOfStream, ProviderThrows, SwitchToFallback, RecordFallbackModel, SaveTerminalRow,
      SaveThrows, PublishTerminal, AccountAndUnregister
<1>6. ASSUME NEW r \in Reconnect, ReadForReconnect(r) \/ ReconnectStep(r)
      PROVE  FALSE
  BY <1>2, <1>6 DEF ReadForReconnect, ReconnectStep, ReplayRow, AttachLive, MarkOrphan
<1>7. ASSUME NEW f \in Feed, Deliver(f) \/ Disconnect(f)
      PROVE  FALSE
  BY <1>2, <1>7 DEF Deliver, Disconnect
<1> QED
  BY <1>1, <1>3, <1>4, <1>5, <1>6, <1>7 DEF Next, StopStep

\* The completion promise resolves after the save: unless a write was lost, what a
\* waiting Stop answers of a row, the database says as well.
THEOREM StopIsTruthful == Spec => StopReportsSettledRow
<1>1. Typed /\ Sound /\ [Next]_vars =>
        [\A p \in Stop :
            faults = 0 /\ stop[p].pc = "wait" /\ stop'[p].answer # stop[p].answer =>
               \A item \in stop[p].todo \ stop'[p].todo : row[item.id].status \in Settled]_vars
  BY WaitSettles
<1> QED
  BY <1>1, AlwaysTyped, AlwaysSound, PTL DEF Spec, StopReportsSettledRow

\* What a step does to a generation that was aborted before its outcome.
LEMMA AbortedStep ==
    ASSUME TypeOK, Next, NEW t \in Send, Aborted(t), loop[t].outcome = "none"
    PROVE  /\ loop'[t].outcome \in {"none", "interrupted"}
           /\ loop'[t].content = loop[t].content
           /\ loop[t].pc = "search" => loop'[t].pc # "provider"
           /\ loop'[t].pc = "fallback" => loop[t].pc = "fallback"
           /\ loop'[t].model # loop[t].model => loop[t].pc = "fallback"
<1> DEFINE Won == /\ loop'[t].outcome \in {"none", "interrupted"}
                  /\ loop'[t].content = loop[t].content
                  /\ loop[t].pc = "search" => loop'[t].pc # "provider"
                  /\ loop'[t].pc = "fallback" => loop[t].pc = "fallback"
                  /\ loop'[t].model # loop[t].model => loop[t].pc = "fallback"
<1>l. loop \in [Send -> Loop] /\ loop[t] \in Loop
  BY DEF TypeOK
<1>1. ASSUME NEW s \in Send, AcceptTurn(s)
      PROVE  Won
  <2>1. PICK u \in Send :
          \/ loop' = [loop EXCEPT ![s].pc = "accepted", ![s].anchor = u]
          \/ loop' = [loop EXCEPT ![s].pc = "accepted"]
    BY <1>1 DEF AcceptTurn, ReplayMatches
  <2> QED
    BY <2>1, <1>l DEF Loop
<1>2. ASSUME NEW s \in Send, PersistAssistantRow(s) \/ StartGeneration(s)
      PROVE  Won
  BY <1>2, <1>l DEF PersistAssistantRow, StartGeneration, Loop
<1>3. ASSUME NEW s \in Send, EndSearch(s) \/ DiscardAfterStop(s)
      PROVE  Won
  BY <1>3, <1>l DEF EndSearch, DiscardAfterStop, Finalize, OutcomeOfError, Loop
<1>4. ASSUME NEW s \in Send, ReceiveDelta(s) \/ EndOfStream(s) \/ ProviderThrows(s)
      PROVE  Won
  <2>1. s # t /\ loop'[t] = loop[t]
    BY <1>4, <1>l DEF ReceiveDelta, EndOfStream, ProviderThrows, Finalize
  <2> QED
    BY <2>1
<1>5. ASSUME NEW s \in Send, PersistFirstDelta(s) \/ PersistProgress(s) \/ PersistThrows(s)
      PROVE  Won
  BY <1>5, <1>l
  DEF PersistFirstDelta, PersistProgress, PersistThrows, AfterDelta, Finalize, OutcomeOfError, Loop
<1>6. ASSUME NEW s \in Send, SwitchToFallback(s) \/ RecordFallbackModel(s)
      PROVE  Won
  BY <1>6, <1>l DEF SwitchToFallback, RecordFallbackModel, Finalize, OutcomeOfError, Loop
<1>7. ASSUME NEW s \in Send, SaveTerminalRow(s) \/ SaveThrows(s) \/ PublishTerminal(s)
                              \/ AccountAndUnregister(s)
      PROVE  Won
  BY <1>7, <1>l
  DEF SaveTerminalRow, SaveThrows, PublishTerminal, AccountAndUnregister, Finalize,
      OutcomeOfError, Loop
<1>8. CASE Crash
  BY <1>8, CrashedLoop
<1>9. CASE UNCHANGED loop
  BY <1>9
<1>10. ASSUME NEW r \in Reconnect, ReadForReconnect(r) \/ ReconnectStep(r)
      PROVE  Won
  BY <1>9, <1>10 DEF ReadForReconnect, ReconnectStep, ReplayRow, AttachLive, MarkOrphan
<1>11. ASSUME NEW f \in Feed, Deliver(f) \/ Disconnect(f)
      PROVE  Won
  BY <1>9, <1>11 DEF Deliver, Disconnect
<1>12. ASSUME NEW p \in Stop, ReadOpenRows(p) \/ StopStep(p)
      PROVE  Won
  BY <1>9, <1>12 DEF ReadOpenRows, StopStep, StopNextRow, StopSettles, StopMarksOrphan
<1> QED
  BY <1>1, <1>2, <1>3, <1>4, <1>5, <1>6, <1>7, <1>8, <1>10, <1>11, <1>12 DEF Next, GenerationStep

\* Stop wins at every await of the loop, whatever provider and database do next:
\* of what a stopped generation had begun, only the lookup of a fallback goes on.
THEOREM StopAlwaysWins == Spec => StopWins
<1>1. TypeOK /\ [Next]_vars =>
        [\A s \in Send :
            Aborted(s) /\ loop[s].outcome = "none" =>
                /\ loop'[s].outcome \in {"none", "interrupted"}
                /\ loop'[s].content = loop[s].content
                /\ loop[s].pc = "search" => loop'[s].pc # "provider"
                /\ loop'[s].pc = "fallback" => loop[s].pc = "fallback"
                /\ loop'[s].model # loop[s].model => loop[s].pc = "fallback"]_vars
  BY AbortedStep
<1> QED
  BY <1>1, TypeCorrect, PTL DEF Spec, StopWins

-----------------------------------------------------------------------------
(* The usage row of a turn. *)

\* A send is anchored at its own user row until it is accepted as a replay, and a
\* user row belongs to a send that has inserted it for itself.
Anchored(t) ==
    /\ loop[t].pc = "unsent" => loop[t].anchor = t /\ ~UserRowExists(t)
    /\ loop[t].pc # "unsent" => UserRowExists(loop[t].anchor)
    /\ UserRowExists(t) => loop[t].anchor = t

\* Where the usage row of an unshared turn names the loop's model: everywhere but
\* between the switch to a fallback and its record, and past the save.
Named == {"unsent", "accepted", "persisted", "search", "provider", "persistFirst", "persist",
          "fallback", "save"}

Alone(t) == \A u \in Send \ {t} : loop[u].anchor # loop[t].anchor

ModelNamed(t) ==
    faults = 0 /\ loop[t].pc \in Named /\ Alone(t) =>
        IF loop[t].pc = "unsent" THEN loop[t].model = ModelOf[t]
        ELSE usage[UserRow(loop[t].anchor)].model = loop[t].model

\* Unless a write or a process was lost, a usage row some loop of which has ended
\* carries the outcome of one that has.
Ended(s, u) == loop[s].pc = "ended" /\ loop[s].anchor = u
OutcomeKept(u) ==
    faults = 0 /\ crashes = 0 /\ UserRowExists(u) /\ (\E s \in Send : Ended(s, u)) =>
        \E s \in Send : Ended(s, u) /\ usage[UserRow(u)].outcome = loop[s].outcome

Books == \A t \in Send : Anchored(t) /\ ModelNamed(t) /\ OutcomeKept(t)

LEMMA BooksInit == Init => Books
<1> SUFFICES ASSUME Init, NEW t \in Send PROVE Anchored(t) /\ ModelNamed(t) /\ OutcomeKept(t)
  BY DEF Books
<1>1. loop[t].pc = "unsent" /\ loop[t].anchor = t /\ loop[t].model = ModelOf[t]
  BY DEF Init
<1>2. usage[UserRow(t)].outcome = "none"
  BY DEF Init
<1> QED
  BY <1>1, <1>2 DEF Anchored, ModelNamed, OutcomeKept, UserRowExists

\* A step that leaves user rows and anchors alone and takes nobody where the
\* books must say more.
Quiet(t) ==
    /\ usage'[UserRow(t)] = usage[UserRow(t)]
    /\ loop'[t].anchor = loop[t].anchor
    /\ loop'[t].outcome = loop[t].outcome \/ loop[t].pc # "ended"
    /\ loop'[t].pc = "unsent" <=> loop[t].pc = "unsent"
    /\ loop'[t].pc = "ended" <=> loop[t].pc = "ended"
    /\ faults' = 0 /\ loop'[t].pc \in Named => loop[t].pc \in Named /\ loop'[t].model = loop[t].model

LEMMA QuietStep ==
    ASSUME TypeOK, Books, faults' = 0 => faults = 0, crashes' = 0 => crashes = 0,
           \A t \in Send : Quiet(t)
    PROVE  Books'
<1> SUFFICES ASSUME NEW t \in Send PROVE (Anchored(t) /\ ModelNamed(t) /\ OutcomeKept(t))'
  BY DEF Books
<1>a. loop[t].anchor \in Send
  BY DEF TypeOK, Loop
<1>1. Anchored(t)'
  BY <1>a DEF Books, Anchored, Quiet, UserRowExists
<1>2. ModelNamed(t)'
  <2>1. usage'[UserRow(loop'[t].anchor)] = usage[UserRow(loop[t].anchor)]
    BY <1>a DEF Quiet
  <2>2. Alone(t)' => Alone(t)
    BY DEF Alone, Quiet
  <2>3. ModelNamed(t)
    BY DEF Books
  <2>4. /\ loop'[t].pc = "unsent" <=> loop[t].pc = "unsent"
        /\ faults' = 0 /\ loop'[t].pc \in Named => loop[t].pc \in Named /\ loop'[t].model = loop[t].model
    BY DEF Quiet
  <2> QED
    BY <2>1, <2>2, <2>3, <2>4 DEF ModelNamed
<1>3. OutcomeKept(t)'
  <2> SUFFICES ASSUME faults' = 0, crashes' = 0, UserRowExists(t)', NEW v \in Send, Ended(v, t)'
               PROVE  \E s \in Send : Ended(s, t)' /\ usage'[UserRow(t)].outcome = loop'[s].outcome
    BY DEF OutcomeKept
  <2>1. Ended(v, t) /\ UserRowExists(t)
    BY DEF Quiet, Ended, UserRowExists
  <2>2. PICK s \in Send : Ended(s, t) /\ usage[UserRow(t)].outcome = loop[s].outcome
    BY <2>1 DEF Books, OutcomeKept
  <2> QED
    BY <2>2 DEF Quiet, Ended
<1> QED
  BY <1>1, <1>2, <1>3

\* Counters of faults and restarts only grow.
LEMMA FaultsGrow == TypeOK /\ Fault => faults' # 0
BY Constants DEF TypeOK, Fault

\* Marking an orphan closes the usage row of an assistant message, which is none.
LEMMA OrphanUsage ==
    ASSUME TypeOK, NEW s \in Send, NEW o, usage' = RecordedOutcome(AssistantRow(s), o), NEW t \in Send
    PROVE  usage'[UserRow(t)] = usage[UserRow(t)]
BY DEF TypeOK, RecordedOutcome

\* Most steps are quiet.
LEMMA MostAreQuiet ==
    ASSUME TypeOK, Books, Next, NEW t \in Send,
           ~ \E s \in Send : AcceptTurn(s) \/ RecordFallbackModel(s) \/ AccountAndUnregister(s)
    PROVE  /\ Quiet(t)
           /\ faults' = 0 => faults = 0
           /\ crashes' = 0 => crashes = 0
<1> DEFINE Done == /\ Quiet(t)
                   /\ faults' = 0 => faults = 0
                   /\ crashes' = 0 => crashes = 0
<1> USE FaultsGrow DEF Quiet, Named
<1>l. loop \in [Send -> Loop] /\ loop[t] \in Loop
  BY DEF TypeOK
<1>2. ASSUME NEW s \in Send, PersistAssistantRow(s) \/ StartGeneration(s)
      PROVE  Done
  BY <1>2, <1>l DEF PersistAssistantRow, StartGeneration, Loop
<1>3. ASSUME NEW s \in Send, EndSearch(s) \/ DiscardAfterStop(s)
      PROVE  Done
  BY <1>3, <1>l DEF EndSearch, DiscardAfterStop, Finalize, Loop
<1>4. ASSUME NEW s \in Send, ReceiveDelta(s) \/ EndOfStream(s) \/ ProviderThrows(s)
      PROVE  Done
  BY <1>4, <1>l DEF ReceiveDelta, EndOfStream, ProviderThrows, AfterDelta, Finalize, Loop
<1>5. ASSUME NEW s \in Send, PersistFirstDelta(s) \/ PersistProgress(s) \/ PersistThrows(s)
      PROVE  Done
  BY <1>5, <1>l
  DEF PersistFirstDelta, PersistProgress, PersistThrows, AfterDelta, Finalize, Loop
<1>6. ASSUME NEW s \in Send, SwitchToFallback(s)
      PROVE  Done
  BY <1>6, <1>l DEF SwitchToFallback, Finalize, Loop
<1>7. ASSUME NEW s \in Send, SaveTerminalRow(s) \/ SaveThrows(s) \/ PublishTerminal(s)
      PROVE  Done
  BY <1>7, <1>l DEF SaveTerminalRow, SaveThrows, PublishTerminal, Finalize, Loop
<1>8. CASE Crash
  <2>1. crashes' # 0
    <3>1. crashes \in 0..MaxCrash
      BY DEF TypeOK
    <3>2. crashes' = crashes + 1
      BY <1>8 DEF Crash
    <3> QED
      BY <3>1, <3>2, Constants
  <2>2. usage' = usage /\ faults' = faults
    BY <1>8 DEF Crash
  <2> QED
    BY <1>8, <2>1, <2>2, CrashedLoop
<1>9. CASE UNCHANGED <<loop, usage, faults, crashes>>
  BY <1>9
<1>10. ASSUME NEW r \in Reconnect, MarkOrphan(r)
       PROVE  Done
  <2>1. feed[r].of \in Send
    BY DEF TypeOK, FeedRecord
  <2> QED
    BY <1>10, <2>1, OrphanUsage DEF MarkOrphan
<1>11. ASSUME NEW r \in Reconnect, ReadForReconnect(r) \/ ReconnectStep(r)
       PROVE  Done
  BY <1>9, <1>10, <1>11 DEF ReadForReconnect, ReconnectStep, ReplayRow, AttachLive
<1>12. ASSUME NEW f \in Feed, Deliver(f) \/ Disconnect(f)
       PROVE  Done
  BY <1>9, <1>12 DEF Deliver, Disconnect
<1>13. ASSUME NEW p \in Stop, StopMarksOrphan(p)
       PROVE  Done
  <2>1. PICK item \in stop[p].todo :
          \/ usage' = RecordedOutcome(AssistantRow(item.id), "interrupted") /\ UNCHANGED faults
          \/ Fault /\ UNCHANGED usage
    BY <1>13 DEF StopMarksOrphan
  <2>2. item.id \in Send
    BY DEF TypeOK, StopRecord
  <2> QED
    BY <1>13, <2>1, <2>2, OrphanUsage DEF StopMarksOrphan
<1>14. ASSUME NEW p \in Stop, ReadOpenRows(p) \/ StopStep(p)
       PROVE  Done
  BY <1>9, <1>13, <1>14 DEF ReadOpenRows, StopStep, StopNextRow, StopSettles
<1> QED
  BY <1>2, <1>3, <1>4, <1>5, <1>6, <1>7, <1>8, <1>11, <1>12, <1>14 DEF Next, GenerationStep

\* A send that is accepted takes up its own user row, or one that is there.
LEMMA BooksAccept ==
    ASSUME TypeOK, Books, NEW s \in Send, AcceptTurn(s)
    PROVE  Books'
<1>l. loop \in [Send -> Loop] /\ usage \in [MessageId -> Usage]
  BY DEF TypeOK
<1>s. loop[s].pc = "unsent" /\ loop[s].anchor = s /\ ~UserRowExists(s)
  BY DEF AcceptTurn, Books, Anchored
<1>f. UNCHANGED <<faults, crashes>>
  BY DEF AcceptTurn
<1>1. \A x \in Send : /\ loop'[x].model = loop[x].model /\ loop'[x].outcome = loop[x].outcome
                      /\ x # s => loop'[x] = loop[x]
  <2>1. PICK u \in Send : \/ loop' = [loop EXCEPT ![s].pc = "accepted", ![s].anchor = u]
                          \/ loop' = [loop EXCEPT ![s].pc = "accepted"]
    BY DEF AcceptTurn, ReplayMatches
  <2> QED
    BY <2>1, <1>l DEF Loop
<1>2. CASE /\ usage' = [usage EXCEPT ![UserRow(s)] = [outcome |-> "pending", model |-> ModelOf[s]]]
           /\ loop' = [loop EXCEPT ![s].pc = "accepted"]
  <2>1. loop'[s].pc = "accepted" /\ loop'[s].anchor = s
    BY <1>2, <1>l, <1>s DEF Loop
  <2>2. /\ usage'[UserRow(s)].outcome = "pending" /\ usage'[UserRow(s)].model = ModelOf[s]
        /\ \A x \in Send \ {s} : usage'[UserRow(x)] = usage[UserRow(x)]
    BY <1>2, <1>l
  <2> SUFFICES ASSUME NEW t \in Send PROVE (Anchored(t) /\ ModelNamed(t) /\ OutcomeKept(t))'
    BY DEF Books
  <2>a. loop[t].anchor \in Send
    BY <1>l DEF Loop
  <2>b. Anchored(t) /\ ModelNamed(t) /\ OutcomeKept(t)
    BY DEF Books
  <2>3. CASE t = s
    <3>1. Anchored(t)' /\ ModelNamed(t)'
      BY <2>1, <2>2, <2>3, <1>1, <1>s, <1>f, <2>b DEF Anchored, ModelNamed, Alone, UserRowExists, Named
    <3>2. ~ \E x \in Send : Ended(x, t)'
      BY <2>1, <2>3, <1>1, <1>s DEF Books, Anchored, Ended
    <3> QED
      BY <3>1, <3>2 DEF OutcomeKept
  <2>4. CASE t # s
    <3>1. Anchored(t)'
      BY <2>1, <2>2, <2>4, <2>a, <2>b, <1>1 DEF Anchored, UserRowExists
    <3>2. ModelNamed(t)'
      <4>1. loop[t].pc # "unsent" => loop[t].anchor # s
        BY <2>b, <1>s DEF Anchored
      <4>2. Alone(t)' => Alone(t)
        BY <2>1, <2>4, <1>1, <1>s DEF Alone
      <4> QED
        BY <4>1, <4>2, <2>2, <2>4, <2>a, <2>b, <1>1, <1>f DEF ModelNamed
    <3>3. OutcomeKept(t)'
      <4>1. \A x \in Send : Ended(x, t)' <=> Ended(x, t)
        BY <2>1, <2>4, <1>1, <1>s DEF Ended
      <4> QED
        BY <4>1, <2>2, <2>4, <2>b, <1>1, <1>f DEF OutcomeKept, UserRowExists
    <3> QED
      BY <3>1, <3>2, <3>3
  <2> QED
    BY <2>3, <2>4
<1>3. ASSUME NEW u \in ReplayMatches(s), usage' = usage,
             loop' = [loop EXCEPT ![s].pc = "accepted", ![s].anchor = u]
      PROVE  Books'
  <2>0. u \in Send /\ UserRowExists(u) /\ u # s
    BY <1>3, <1>s DEF ReplayMatches
  <2>1. loop'[s].pc = "accepted" /\ loop'[s].anchor = u
    BY <1>3, <1>l, <2>0 DEF Loop
  <2>2. loop'[u].anchor = u
    BY <2>0, <1>1 DEF Books, Anchored
  <2> SUFFICES ASSUME NEW t \in Send PROVE (Anchored(t) /\ ModelNamed(t) /\ OutcomeKept(t))'
    BY DEF Books
  <2>a. loop[t].anchor \in Send
    BY <1>l DEF Loop
  <2>b. Anchored(t) /\ ModelNamed(t) /\ OutcomeKept(t)
    BY DEF Books
  <2>3. Anchored(t)'
    BY <2>0, <2>1, <2>a, <2>b, <1>1, <1>3, <1>s DEF Anchored, UserRowExists
  <2>4. ModelNamed(t)'
    <3>1. CASE t = s
      <4>1. ~Alone(t)'
        BY <3>1, <2>0, <2>1, <2>2 DEF Alone
      <4> QED
        BY <4>1 DEF ModelNamed
    <3>2. CASE t # s
      <4>1. loop[t].pc # "unsent" => loop[t].anchor # s
        BY <2>b, <1>s DEF Anchored
      <4>2. loop[t].pc = "unsent" => loop[t].anchor = t
        BY <2>b DEF Anchored
      <4>3. Alone(t)' => Alone(t)
        BY <4>1, <4>2, <3>2, <1>1, <1>s DEF Alone
      <4> QED
        BY <4>3, <3>2, <2>b, <1>1, <1>3, <1>f DEF ModelNamed
    <3> QED
      BY <3>1, <3>2
  <2>5. OutcomeKept(t)'
    <3>1. \A x \in Send : Ended(x, t)' <=> Ended(x, t)
      BY <2>1, <1>1, <1>s DEF Ended
    <3> QED
      BY <3>1, <2>b, <1>1, <1>3, <1>f DEF OutcomeKept, UserRowExists
  <2> QED
    BY <2>3, <2>4, <2>5
<1> QED
  BY <1>2, <1>3 DEF AcceptTurn

\* A write to one usage row.
LEMMA UserRowWritten ==
    ASSUME usage \in [MessageId -> Usage], NEW a \in Send, NEW v
    PROVE  /\ usage' = [usage EXCEPT ![UserRow(a)].model = v] =>
                /\ usage'[UserRow(a)].model = v
                /\ usage'[UserRow(a)].outcome = usage[UserRow(a)].outcome
                /\ \A x \in Send \ {a} : usage'[UserRow(x)] = usage[UserRow(x)]
           /\ usage' = [usage EXCEPT ![UserRow(a)].outcome = v] =>
                /\ usage'[UserRow(a)].outcome = v
                /\ usage'[UserRow(a)].model = usage[UserRow(a)].model
                /\ \A x \in Send \ {a} : usage'[UserRow(x)] = usage[UserRow(x)]
<1> DEFINE i == UserRow(a)
           r == usage[i]
<1>1. i \in MessageId /\ r \in Usage
  OBVIOUS
<1>2. LET m == [r EXCEPT !.model = v]
          o == [r EXCEPT !.outcome = v]
      IN  m.model = v /\ m.outcome = r.outcome /\ o.outcome = v /\ o.model = r.model
  BY <1>1 DEF Usage
<1>3. \A x \in Send \ {a} : UserRow(x) # i /\ UserRow(x) \in MessageId
  OBVIOUS
<1> QED
  BY <1>1, <1>2, <1>3

\* The fallback is recorded on the usage row of the turn: others that are
\* alone have another one.
LEMMA BooksFallback ==
    ASSUME TypeOK, Books, NEW s \in Send, RecordFallbackModel(s)
    PROVE  Books'
<1>l. loop \in [Send -> Loop] /\ usage \in [MessageId -> Usage]
  BY DEF TypeOK
<1> DEFINE a == loop[s].anchor
<1>a. a \in Send
  BY <1>l DEF Loop
<1>1. /\ loop[s].pc = "fallbackUsage" /\ loop'[s].pc = "provider"
      /\ \A x \in Send : /\ loop'[x].model = loop[x].model /\ loop'[x].outcome = loop[x].outcome
                         /\ loop'[x].anchor = loop[x].anchor
                         /\ x # s => loop'[x] = loop[x]
  BY <1>l DEF RecordFallbackModel, Loop
<1>2. crashes' = crashes /\ (faults' = 0 => faults = 0)
  BY FaultsGrow DEF RecordFallbackModel
<1>3. \/ faults' # 0 /\ usage' = usage
      \/ /\ usage'[UserRow(a)].model = loop[s].model
         /\ \A x \in Send : /\ usage'[UserRow(x)].outcome = usage[UserRow(x)].outcome
                            /\ x # a => usage'[UserRow(x)] = usage[UserRow(x)]
  <2>1. CASE Fault /\ usage' = usage
    BY <2>1, FaultsGrow
  <2>2. CASE usage' = [usage EXCEPT ![UserRow(a)].model = loop[s].model]
    <3>1. /\ usage'[UserRow(a)].model = loop[s].model
          /\ usage'[UserRow(a)].outcome = usage[UserRow(a)].outcome
          /\ \A x \in Send \ {a} : usage'[UserRow(x)] = usage[UserRow(x)]
      BY <2>2, <1>l, <1>a, UserRowWritten
    <3> QED
      BY <3>1
  <2>3. (Fault /\ usage' = usage) \/ usage' = [usage EXCEPT ![UserRow(a)].model = loop[s].model]
    BY DEF RecordFallbackModel
  <2> QED
    BY <2>1, <2>2, <2>3
<1> SUFFICES ASSUME NEW t \in Send PROVE (Anchored(t) /\ ModelNamed(t) /\ OutcomeKept(t))'
  BY DEF Books
<1>b. Anchored(t) /\ ModelNamed(t) /\ OutcomeKept(t) /\ loop[t].anchor \in Send
  BY <1>l DEF Books, Loop
<1>4. \A x \in Send : UserRowExists(x)' <=> UserRowExists(x)
  BY <1>3 DEF UserRowExists
<1>5. Anchored(t)'
  BY <1>1, <1>4, <1>b DEF Anchored
<1>6. ModelNamed(t)'
  <2>1. Alone(t)' => Alone(t)
    BY <1>1 DEF Alone
  <2>2. CASE t = s
    BY <2>1, <2>2, <1>1, <1>3 DEF ModelNamed
  <2>3. CASE t # s
    <3>1. Alone(t) => loop[t].anchor # a
      BY <2>3 DEF Alone
    <3> QED
      BY <2>1, <2>3, <3>1, <1>1, <1>2, <1>3, <1>b DEF ModelNamed
  <2> QED
    BY <2>2, <2>3
<1>7. OutcomeKept(t)'
  <2>1. \A x \in Send : Ended(x, t)' <=> Ended(x, t)
    BY <1>1 DEF Ended
  <2>2. usage'[UserRow(t)].outcome = usage[UserRow(t)].outcome
    BY <1>3
  <2> QED
    BY <2>1, <2>2, <1>1, <1>2, <1>4, <1>b DEF OutcomeKept
<1> QED
  BY <1>5, <1>6, <1>7

\* A loop that ends leaves its outcome on the usage row of its turn.
LEMMA BooksAccount ==
    ASSUME Typed, Books, NEW s \in Send, AccountAndUnregister(s)
    PROVE  Books'
<1>l. loop \in [Send -> Loop] /\ usage \in [MessageId -> Usage]
  BY DEF Typed, TypeOK
<1> DEFINE a == loop[s].anchor
<1>a. a \in Send
  BY <1>l DEF Loop
<1>1. /\ loop[s].pc = "account" /\ loop'[s].pc = "ended"
      /\ \A x \in Send : /\ loop'[x].model = loop[x].model /\ loop'[x].outcome = loop[x].outcome
                         /\ loop'[x].anchor = loop[x].anchor
                         /\ x # s => loop'[x] = loop[x]
  BY <1>l DEF AccountAndUnregister, Loop
<1>2. crashes' = crashes /\ (faults' = 0 => faults = 0)
  BY FaultsGrow DEF Typed, AccountAndUnregister
<1>x. UserRowExists(a)
  BY <1>1 DEF Books, Anchored
<1>3. \/ faults' # 0 /\ usage' = usage
      \/ /\ usage'[UserRow(a)].outcome = loop[s].outcome
         /\ \A x \in Send : /\ usage'[UserRow(x)].model = usage[UserRow(x)].model
                            /\ x # a => usage'[UserRow(x)] = usage[UserRow(x)]
  <2>1. CASE Fault /\ usage' = usage
    BY <2>1, FaultsGrow DEF Typed
  <2>2. CASE usage' = RecordedOutcome(UserRow(a), loop[s].outcome)
    <3>1. usage' = [usage EXCEPT ![UserRow(a)].outcome = loop[s].outcome]
      BY <2>2, <1>x DEF RecordedOutcome, UserRowExists
    <3>2. /\ usage'[UserRow(a)].outcome = loop[s].outcome
          /\ usage'[UserRow(a)].model = usage[UserRow(a)].model
          /\ \A x \in Send \ {a} : usage'[UserRow(x)] = usage[UserRow(x)]
      BY <3>1, <1>l, <1>a, UserRowWritten
    <3> QED
      BY <3>2
  <2>3. (Fault /\ usage' = usage) \/ usage' = RecordedOutcome(UserRow(a), loop[s].outcome)
    BY DEF AccountAndUnregister
  <2> QED
    BY <2>1, <2>2, <2>3
<1> SUFFICES ASSUME NEW t \in Send PROVE (Anchored(t) /\ ModelNamed(t) /\ OutcomeKept(t))'
  BY DEF Books
<1>b. Anchored(t) /\ ModelNamed(t) /\ OutcomeKept(t) /\ loop[t].anchor \in Send
  BY <1>l DEF Books, Loop
<1>o. loop[s].outcome # "none"
  BY <1>1 DEF Typed, LoopReady, Settled
<1>4. \A x \in Send : UserRowExists(x)' <=> UserRowExists(x)
  BY <1>3, <1>x, <1>o DEF UserRowExists
<1>5. Anchored(t)'
  BY <1>1, <1>4, <1>b DEF Anchored
<1>6. ModelNamed(t)'
  <2>1. Alone(t)' => Alone(t)
    BY <1>1 DEF Alone
  <2>2. CASE t = s
    BY <2>2, <1>1 DEF ModelNamed, Named
  <2>3. CASE t # s
    BY <2>1, <2>3, <1>1, <1>2, <1>3, <1>b DEF ModelNamed
  <2> QED
    BY <2>2, <2>3
<1>7. OutcomeKept(t)'
  <2>1. CASE t = a
    <3>1. Ended(s, t)'
      BY <2>1, <1>1 DEF Ended
    <3> QED
      BY <2>1, <3>1, <1>1, <1>3 DEF OutcomeKept
  <2>2. CASE t # a
    <3>1. \A x \in Send : Ended(x, t)' <=> Ended(x, t)
      BY <2>2, <1>1 DEF Ended
    <3> QED
      BY <2>2, <3>1, <1>1, <1>2, <1>3, <1>4, <1>b DEF OutcomeKept
  <2> QED
    BY <2>1, <2>2
<1> QED
  BY <1>5, <1>6, <1>7

LEMMA BooksNext == Typed /\ Books /\ [Next]_vars => Books'
<1> SUFFICES ASSUME Typed, Books, [Next]_vars PROVE Books'
  OBVIOUS
<1>t. TypeOK
  BY DEF Typed
<1>1. CASE \E s \in Send : AcceptTurn(s) \/ RecordFallbackModel(s) \/ AccountAndUnregister(s)
  BY <1>1, <1>t, BooksAccept, BooksFallback, BooksAccount
<1>2. CASE Next /\ ~ \E s \in Send : AcceptTurn(s) \/ RecordFallbackModel(s) \/ AccountAndUnregister(s)
  BY <1>2, <1>t, MostAreQuiet, QuietStep, SendsAssumption
<1>3. CASE UNCHANGED vars
  <2>1. \A t \in Send : Quiet(t)
    BY <1>3 DEF vars, Quiet
  <2> QED
    BY <1>3, <1>t, <2>1, QuietStep DEF vars
<1> QED
  BY <1>1, <1>2, <1>3

LEMMA AlwaysBooks == Spec => []Books
BY BooksInit, BooksNext, AlwaysTyped, PTL DEF Spec

\* Unless a write was lost, while a generation of a turn sent once receives its
\* answer or saves it, the usage row names the model that gives it, whatever
\* fallbacks it has gone through.
THEOREM UsageNamesModel == Spec => []UsageNamesAnsweringModel
<1>1. Books => UsageNamesAnsweringModel
  <2> SUFFICES ASSUME Books, faults = 0, NEW s \in Send,
                      loop[s].pc \in {"persistFirst", "persist", "save"},
                      \A u \in Send \ {s} : loop[u].anchor # loop[s].anchor
               PROVE  usage[UserRow(loop[s].anchor)].model = loop[s].model
    BY DEF UsageNamesAnsweringModel
  <2> QED
    BY DEF Books, ModelNamed, Alone, Named
<1> QED
  BY <1>1, AlwaysBooks, PTL

\* Unless a write or the process was lost, a usage row is closed once all loops of
\* its turn are over, with the outcome of one of them.
THEOREM UsageIsClosed == Spec => []UsageClosed
<1>1. Books => UsageClosed
  <2> SUFFICES ASSUME Books, faults = 0, crashes = 0, NEW u \in Send, UserRowExists(u),
                      \A s \in {s \in Send : loop[s].pc # "unsent" /\ loop[s].anchor = u} :
                         loop[s].pc = "ended"
               PROVE  \E s \in {s \in Send : loop[s].pc # "unsent" /\ loop[s].anchor = u} :
                         usage[UserRow(u)].outcome = loop[s].outcome
    BY DEF UsageClosed
  <2>1. loop[u].anchor = u /\ loop[u].pc # "unsent"
    BY DEF Books, Anchored
  <2>2. Ended(u, u)
    BY <2>1 DEF Ended
  <2>3. PICK s \in Send : Ended(s, u) /\ usage[UserRow(u)].outcome = loop[s].outcome
    BY <2>2 DEF Books, OutcomeKept
  <2> QED
    BY <2>3 DEF Ended
<1> QED
  BY <1>1, AlwaysBooks, PTL

-----------------------------------------------------------------------------
(* Generations run down: the safety half of GenerationSettles.                 *)

\* How far a loop is from its end, when no more is received and no other model asked.
Stage(l) ==
    CASE l.pc \in {"ended", "lost"} -> 0
      [] l.pc = "account" -> 1
      [] l.pc = "publish" -> 2
      [] l.pc = "save" /\ l.outcome # "completed" -> 3
      [] l.pc = "save" /\ l.outcome = "completed" -> 4
      [] l.pc = "fallback" -> 5
      [] l.pc = "provider" -> 6
      [] l.pc \in {"search", "persist", "fallbackUsage"} -> 7
      [] l.pc \in {"persisted", "persistFirst"} -> 8
      [] l.pc = "accepted" -> 9
      [] l.pc = "unsent" -> 10

\* What a loop still has before it: chunks, models it has not asked, and its way to the end.
Remaining(l) == 10 * ((MaxChunk - l.content) + Cardinality(Model \ l.tried)) + Stage(l)

\* The model a loop is about to switch to is one it has not asked.
FallbackIsNew == \A s \in Send : loop[s].pc = "fallback" => Fallback[loop[s].model] \notin loop[s].tried

LEMMA FallbackIsNewInit == Init => FallbackIsNew
<1> SUFFICES ASSUME Init PROVE FallbackIsNew
  OBVIOUS
<1>1. \A s \in Send : loop[s].pc = "unsent"
  BY DEF Init
<1> QED
  BY <1>1 DEF FallbackIsNew

LEMMA FallbackIsNewNext == TypeOK /\ FallbackIsNew /\ [Next]_vars => FallbackIsNew'
<1> SUFFICES ASSUME TypeOK, FallbackIsNew, [Next]_vars, NEW t \in Send, loop'[t].pc = "fallback"
             PROVE  Fallback[loop'[t].model] \notin loop'[t].tried
  BY DEF FallbackIsNew
<1> DEFINE Goes == Fallback[loop'[t].model] \notin loop'[t].tried
<1>l. loop \in [Send -> Loop] /\ loop[t] \in Loop
  BY DEF TypeOK
<1>m. loop[t].pc = "fallback" => Fallback[loop[t].model] \notin loop[t].tried
  BY DEF FallbackIsNew
<1>1. ASSUME NEW s \in Send, AcceptTurn(s)
      PROVE  Goes
  <2>1. PICK u \in Send :
          \/ loop' = [loop EXCEPT ![s].pc = "accepted", ![s].anchor = u]
          \/ loop' = [loop EXCEPT ![s].pc = "accepted"]
    BY <1>1 DEF AcceptTurn, ReplayMatches
  <2> QED
    BY <1>1, <2>1, <1>l, <1>m DEF AcceptTurn, Loop
<1>2. ASSUME NEW s \in Send, PersistAssistantRow(s) \/ StartGeneration(s)
      PROVE  Goes
  BY <1>2, <1>l, <1>m DEF PersistAssistantRow, StartGeneration, Loop
<1>3. ASSUME NEW s \in Send, EndSearch(s) \/ DiscardAfterStop(s) \/ EndOfStream(s)
      PROVE  Goes
  BY <1>3, <1>l, <1>m DEF EndSearch, DiscardAfterStop, EndOfStream, Finalize, Loop
<1>13. ASSUME NEW s \in Send, ProviderThrows(s)
      PROVE  Goes
  BY <1>13, <1>l, <1>m DEF ProviderThrows, MayFallBack, Finalize, Loop
<1>4. ASSUME NEW s \in Send, ReceiveDelta(s)
      PROVE  Goes
  BY <1>4, <1>l, <1>m DEF ReceiveDelta, AfterDelta, Loop
<1>5. ASSUME NEW s \in Send, PersistFirstDelta(s) \/ PersistProgress(s) \/ PersistThrows(s)
      PROVE  Goes
  BY <1>5, <1>l, <1>m DEF PersistFirstDelta, PersistProgress, PersistThrows, AfterDelta, Finalize, Loop
<1>6. ASSUME NEW s \in Send, SwitchToFallback(s) \/ RecordFallbackModel(s)
      PROVE  Goes
  BY <1>6, <1>l, <1>m DEF SwitchToFallback, RecordFallbackModel, Finalize, Loop
<1>7. ASSUME NEW s \in Send, SaveTerminalRow(s) \/ SaveThrows(s) \/ PublishTerminal(s)
                              \/ AccountAndUnregister(s)
      PROVE  Goes
  BY <1>7, <1>l, <1>m
  DEF SaveTerminalRow, SaveThrows, PublishTerminal, AccountAndUnregister, Finalize, Loop
<1>8. ASSUME Crash PROVE Goes
  BY <1>8, CrashedLoop
<1>9. ASSUME UNCHANGED loop PROVE Goes
  BY <1>9, <1>m
<1>10. ASSUME NEW r \in Reconnect, ReadForReconnect(r) \/ ReconnectStep(r)
      PROVE  Goes
  BY <1>9, <1>10 DEF ReadForReconnect, ReconnectStep, ReplayRow, AttachLive, MarkOrphan
<1>11. ASSUME NEW f \in Feed, Deliver(f) \/ Disconnect(f)
      PROVE  Goes
  BY <1>9, <1>11 DEF Deliver, Disconnect
<1>12. ASSUME NEW p \in Stop, ReadOpenRows(p) \/ StopStep(p)
      PROVE  Goes
  BY <1>9, <1>12 DEF ReadOpenRows, StopStep, StopNextRow, StopSettles, StopMarksOrphan
<1> QED
  BY <1>1, <1>2, <1>3, <1>13, <1>4, <1>5, <1>6, <1>7, <1>8, <1>9, <1>10, <1>11, <1>12
  DEF Next, GenerationStep, vars

LEMMA AlwaysFallbackIsNew == Spec => []FallbackIsNew
BY FallbackIsNewInit, FallbackIsNewNext, TypeCorrect, PTL DEF Spec

\* What is left is a number.
LEMMA StageTyped == ASSUME NEW l \in Loop PROVE Stage(l) \in 0..10
BY DEF Loop, LoopState, Admission, Running, Stage

LEMMA RemainingTyped ==
    ASSUME IsFiniteSet(Model), NEW l \in Loop
    PROVE  /\ IsFiniteSet(Model \ l.tried) /\ Cardinality(Model \ l.tried) \in Nat
           /\ MaxChunk - l.content \in Nat /\ Remaining(l) \in Nat
<1>1. IsFiniteSet(Model \ l.tried)
  <2>1. Model \ l.tried \subseteq Model
    OBVIOUS
  <2> QED
    BY <2>1, FS_Subset
<1>2. Cardinality(Model \ l.tried) \in Nat
  BY <1>1, FS_CardinalityType
<1>3. MaxChunk - l.content \in Nat
  BY Constants DEF Loop
<1> QED
  BY <1>1, <1>2, <1>3, StageTyped DEF Remaining

\* The three ways on.
LEMMA GoesOn ==
    ASSUME IsFiniteSet(Model), NEW l \in Loop, NEW m \in Loop,
           m.content = l.content, m.tried = l.tried, Stage(m) < Stage(l)
    PROVE  Remaining(m) < Remaining(l)
BY RemainingTyped, StageTyped DEF Remaining

LEMMA GoesOnReceiving ==
    ASSUME IsFiniteSet(Model), NEW l \in Loop, NEW m \in Loop,
           m.content = l.content + 1, m.tried = l.tried, Stage(m) < Stage(l) + 10
    PROVE  Remaining(m) < Remaining(l)
<1>1. l.content \in Nat
  BY Constants DEF Loop
<1>2. MaxChunk - m.content = (MaxChunk - l.content) - 1
  BY <1>1, Constants
<1> QED
  BY <1>2, RemainingTyped, StageTyped DEF Remaining

LEMMA GoesOnElsewhere ==
    ASSUME IsFiniteSet(Model), NEW l \in Loop, NEW m \in Loop, NEW x \in Model, x \notin l.tried,
           m.content = l.content, m.tried = l.tried \cup {x}, Stage(m) < Stage(l) + 10
    PROVE  Remaining(m) < Remaining(l)
<1>1. IsFiniteSet(Model \ l.tried) /\ x \in Model \ l.tried
  BY RemainingTyped
<1>2. Model \ m.tried = (Model \ l.tried) \ {x}
  OBVIOUS
<1>3. Cardinality(Model \ m.tried) = Cardinality(Model \ l.tried) - 1
  BY ZenonT(60), <1>1, <1>2, FS_RemoveElement
<1> QED
  BY <1>3, RemainingTyped, StageTyped DEF Remaining

\* A step of a loop takes it one of these ways, and leaves the others alone.
LEMMA LoopAdvances ==
    ASSUME Typed, TypeOK', FallbackIsNew, IsFiniteSet(Model), NEW s \in Send,
           AcceptTurn(s) \/ GenerationStep(s)
    PROVE  /\ Remaining(loop'[s]) < Remaining(loop[s])
           /\ \A t \in Send \ {s} : loop'[t] = loop[t]
<1> DEFINE l == loop[s]
           m == loop'[s]
           Others == \A t \in Send \ {s} : loop'[t] = loop[t]
           On == m.content = l.content /\ m.tried = l.tried /\ Stage(m) < Stage(l)
           Receiving == m.content = l.content + 1 /\ m.tried = l.tried /\ Stage(m) < Stage(l) + 10
           Elsewhere == \E x \in Model : /\ x \notin l.tried /\ m.tried = l.tried \cup {x}
                                         /\ m.content = l.content /\ Stage(m) < Stage(l) + 10
           Goes == Others /\ (On \/ Receiving \/ Elsewhere)
<1>l. loop \in [Send -> Loop] /\ l \in Loop /\ m \in Loop
  BY DEF Typed, TypeOK
<1>1. ASSUME AcceptTurn(s)
      PROVE  Goes
  <2>1. PICK u \in Send :
          \/ loop' = [loop EXCEPT ![s].pc = "accepted", ![s].anchor = u]
          \/ loop' = [loop EXCEPT ![s].pc = "accepted"]
    BY <1>1 DEF AcceptTurn, ReplayMatches
  <2> QED
    BY <1>1, <2>1, <1>l DEF AcceptTurn, Loop, Stage
<1>2. ASSUME PersistAssistantRow(s)
      PROVE  Goes
  BY <1>2, <1>l DEF PersistAssistantRow, Loop, Stage
<1>3. ASSUME StartGeneration(s)
      PROVE  Goes
  BY <1>3, <1>l DEF StartGeneration, Loop, Stage
<1>4. ASSUME EndSearch(s)
      PROVE  Goes
  BY <1>4, <1>l DEF EndSearch, OutcomeOfError, Finalize, Loop, Stage
<1>5. ASSUME DiscardAfterStop(s) \/ EndOfStream(s)
      PROVE  Goes
  BY <1>5, <1>l DEF DiscardAfterStop, EndOfStream, Finalize, Loop, Stage
<1>6. ASSUME ProviderThrows(s)
      PROVE  Goes
  BY <1>6, <1>l DEF ProviderThrows, Finalize, Loop, Stage
<1>7. ASSUME ReceiveDelta(s)
      PROVE  Goes
  <2>1. CASE loop' = [loop EXCEPT ![s].content = 1, ![s].pc = "persistFirst"] /\ l.content = 0
    BY <1>7, <2>1, <1>l DEF ReceiveDelta, Loop, Stage
  <2>2. ASSUME NEW next \in AfterDelta, loop' = [loop EXCEPT ![s].content = @ + 1, ![s].pc = next]
        PROVE  Goes
    BY <1>7, <2>2, <1>l DEF ReceiveDelta, AfterDelta, Loop, Stage
  <2> QED
    BY <1>7, <2>1, <2>2 DEF ReceiveDelta
<1>8. ASSUME PersistFirstDelta(s) \/ PersistProgress(s)
      PROVE  Goes
  BY SMTT(30), <1>8, <1>l DEF PersistFirstDelta, PersistProgress, AfterDelta, Loop, Stage
<1>9. ASSUME PersistThrows(s)
      PROVE  Goes
  BY <1>9, <1>l DEF PersistThrows, OutcomeOfError, Finalize, Loop, Stage
<1>10. ASSUME SwitchToFallback(s)
       PROVE  Goes
  <2> DEFINE x == Fallback[l.model]
  <2>1. x \in Model /\ x \notin l.tried /\ l.pc = "fallback"
    BY <1>10 DEF SwitchToFallback, Typed, LoopReady, FallbackIsNew
  <2>2. CASE loop' = [loop EXCEPT ![s].model = x, ![s].tried = @ \cup {x}, ![s].pc = "fallbackUsage"]
    <3>1. m.pc = "fallbackUsage" /\ m.tried = l.tried \cup {x} /\ m.content = l.content /\ Others
      BY <2>2, <1>l DEF Loop
    <3> QED
      BY <2>1, <3>1 DEF Stage
  <2>3. CASE Finalize(s, OutcomeOfError(s))
    BY <2>1, <2>3, <1>l DEF OutcomeOfError, Finalize, Loop, Stage
  <2>4. ASSUME NEW o, o # "completed",
               loop' = [loop EXCEPT ![s].model = x, ![s].tried = @ \cup {x}, ![s].pc = "save",
                                    ![s].outcome = o]
        PROVE  Goes
    <3>1. /\ m.pc = "save" /\ m.outcome # "completed" /\ m.tried = l.tried \cup {x}
          /\ m.content = l.content /\ Others
      BY <2>4, <1>l DEF Loop
    <3> QED
      BY <2>1, <3>1 DEF Stage
  <2>5. OutcomeOfError(s) # "completed"
    BY DEF OutcomeOfError
  <2> QED
    BY <1>10, <2>2, <2>3, <2>4, <2>5 DEF SwitchToFallback
<1>11. ASSUME RecordFallbackModel(s)
       PROVE  Goes
  BY <1>11, <1>l DEF RecordFallbackModel, Loop, Stage
<1>12. ASSUME SaveTerminalRow(s) \/ PublishTerminal(s) \/ AccountAndUnregister(s)
       PROVE  Goes
  BY <1>12, <1>l DEF SaveTerminalRow, PublishTerminal, AccountAndUnregister, Loop, Stage
<1>13. ASSUME SaveThrows(s)
       PROVE  Goes
  BY <1>13, <1>l DEF SaveThrows, OutcomeOfError, Finalize, Loop, Stage
<1>14. Goes
  BY <1>1, <1>2, <1>3, <1>4, <1>5, <1>6, <1>7, <1>8, <1>9, <1>10, <1>11, <1>12, <1>13
  DEF GenerationStep
<1> HIDE DEF l, m
<1>15. Remaining(m) < Remaining(l)
  BY <1>l, <1>14, GoesOn, GoesOnReceiving, GoesOnElsewhere
<1> QED
  BY <1>14, <1>15 DEF l, m

\* A crash ends a loop, and nobody else touches one.
LEMMA LoopsWait ==
    ASSUME Typed, TypeOK', FallbackIsNew, IsFiniteSet(Model), [Next]_vars, NEW t \in Send
    PROVE  Remaining(loop'[t]) <= Remaining(loop[t])
<1>l. loop \in [Send -> Loop] /\ loop[t] \in Loop /\ loop'[t] \in Loop
  BY DEF Typed, TypeOK
<1>n. Remaining(loop[t]) \in Nat /\ Remaining(loop'[t]) \in Nat
  BY <1>l, RemainingTyped
<1>q. loop'[t] = loop[t] => Remaining(loop'[t]) <= Remaining(loop[t])
  BY <1>n
<1>1. ASSUME NEW s \in Send, AcceptTurn(s) \/ GenerationStep(s)
      PROVE  Remaining(loop'[t]) <= Remaining(loop[t])
  <2>1. CASE s = t
    BY <1>1, <2>1, <1>n, LoopAdvances
  <2>2. CASE s # t
    BY <1>1, <2>2, <1>q, LoopAdvances
  <2> QED
    BY <2>1, <2>2
<1>2. CASE Crash
  <2> DEFINE l == loop[t]
             m == loop'[t]
  <2>1. m = l \/ (m = [l EXCEPT !.pc = "lost"] /\ l.pc # "ended")
    BY <1>2 DEF Crash
  <2>2. CASE m = [l EXCEPT !.pc = "lost"] /\ l.pc # "lost" /\ l.pc # "ended"
    <3>1. m.content = l.content /\ m.tried = l.tried /\ Stage(m) < Stage(l)
      BY <2>2, <1>l DEF Loop, LoopState, Admission, Running, Stage
    <3> HIDE DEF l, m
    <3>2. Remaining(m) < Remaining(l)
      BY <3>1, <1>l, GoesOn DEF l, m
    <3> QED
      BY <3>2, <1>n DEF l, m
  <2>3. CASE m = [l EXCEPT !.pc = "lost"] /\ l.pc = "lost"
    <3>1. m = l
      BY <2>3, <1>l DEF Loop
    <3> QED
      BY <3>1, <1>q
  <2> QED
    BY <1>q, <2>1, <2>2, <2>3
<1>3. CASE UNCHANGED loop
  BY <1>3, <1>q
<1>4. ASSUME NEW r \in Reconnect, ReadForReconnect(r) \/ ReconnectStep(r)
      PROVE  UNCHANGED loop
  BY <1>4 DEF ReadForReconnect, ReconnectStep, ReplayRow, AttachLive, MarkOrphan
<1>5. ASSUME NEW f \in Feed, Deliver(f) \/ Disconnect(f)
      PROVE  UNCHANGED loop
  BY <1>5 DEF Deliver, Disconnect
<1>6. ASSUME NEW p \in Stop, ReadOpenRows(p) \/ StopStep(p)
      PROVE  UNCHANGED loop
  BY <1>6 DEF ReadOpenRows, StopStep, StopNextRow, StopSettles, StopMarksOrphan
<1> QED
  BY <1>1, <1>2, <1>3, <1>4, <1>5, <1>6 DEF Next, vars

\* With finitely many models every step of a generation, in a cycle of fallbacks or with saves
\* that throw, brings it nearer to its end, and nothing that anybody else does takes it
\* further away: it makes no more steps than it has before it.
RunsDown ==
    [][\A s \in Send :
          /\ Remaining(loop'[s]) <= Remaining(loop[s])
          /\ GenerationStep(s) => Remaining(loop'[s]) < Remaining(loop[s])]_vars

THEOREM GenerationsRunDown ==
    ASSUME IsFiniteSet(Model)
    PROVE  Spec => [](\A s \in Send : Remaining(loop[s]) \in Nat) /\ RunsDown
<1>1. TypeOK => \A s \in Send : Remaining(loop[s]) \in Nat
  BY RemainingTyped DEF TypeOK
<1>2. Typed /\ TypeOK' /\ FallbackIsNew /\ [Next]_vars
      => [\A s \in Send :
             /\ Remaining(loop'[s]) <= Remaining(loop[s])
             /\ GenerationStep(s) => Remaining(loop'[s]) < Remaining(loop[s])]_vars
  BY LoopsWait, LoopAdvances
<1> QED
  BY <1>1, <1>2, TypeCorrect, AlwaysTyped, AlwaysFallbackIsNew, PTL DEF Spec, RunsDown
=============================================================================
