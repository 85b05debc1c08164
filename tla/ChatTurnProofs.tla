--------------------------- MODULE ChatTurnProofs ---------------------------
(***************************************************************************)
(* Theorems about ChatTurn for every set of sends, readers, stops and       *)
(* models, and every bound.                                                 *)
(***************************************************************************)
EXTENDS ChatTurn, TLAPS

USE DEF Feed, MessageId, UserRow, AssistantRow

\* The bounds are natural numbers and the maps have their domains.
LEMMA Constants ==
    /\ MaxChunk \in Nat /\ MaxFault \in Nat /\ MaxCrash \in Nat
    /\ ModelOf \in [Send -> Model]
    /\ Fallback \in [Model -> Model \cup {NoModel}]
    /\ Send \cap Reconnect = {}
BY SendsAssumption, ModelsAssumption, BoundsAssumption

\* The target a reader has before it asks is a send.
LEMMA SomeSend == (CHOOSE s \in Send : TRUE) \in Send
BY SendsAssumption

\* A text one chunk longer is the text with the next chunk appended.
LEMMA ChunksGrow ==
    ASSUME NEW n \in Nat
    PROVE  /\ Chunks(n) \in Seq(Nat)
           /\ Len(Chunks(n)) = n
           /\ Append(Chunks(n), n + 1) = Chunks(n + 1)
BY DEF Chunks

-----------------------------------------------------------------------------
(* Types. *)

\* A loop that left for its terminal save has an outcome to save, and one that
\* asks for its fallback has one to ask for.
LoopReady ==
    \A s \in Send :
        /\ loop[s].pc \in {"save", "publish", "account", "ended"} => loop[s].outcome \in Settled
        /\ loop[s].pc = "fallback" => Fallback[loop[s].model] \in Model

Typed == TypeOK /\ LoopReady

\* The names of states, outcomes and events belong to their sets.
LEMMA LoopNames ==
    \A x \in {"unsent", "accepted", "persisted", "search", "provider", "persistFirst",
              "persist", "fallback", "fallbackUsage", "save", "publish", "account",
              "ended", "lost"} : x \in LoopState
BY DEF LoopState, Admission, Running

\* Outcomes likewise.
LEMMA OutcomeNames ==
    \A x \in {"none", "completed", "failed", "interrupted"} : x \in Outcome
BY DEF Outcome, Settled

\* Feed states, Stop states and terminal events likewise.
LEMMA FeedNames ==
    /\ \A x \in {"idle", "read", "mark", "live", "closed", "left", "lost"} : x \in FeedState
    /\ \A x \in {"idle", "next", "wait", "mark", "lost"} : x \in StopState
    /\ \A x \in {"none", "done", "failed", "cancelled"} : x \in Terminal \cup {"none"}
BY DEF FeedState, StopState, Terminal

Status == Open \cup Settled \cup {"absent"}

\* Row statuses likewise.
LEMMA StatusNames ==
    /\ \A x \in {"absent", "pending", "streaming", "completed", "failed", "interrupted"} :
          x \in Status
    /\ Settled \subseteq Status
BY DEF Status, Open, Settled

\* The initial state is typed.
LEMMA TypedInit == Init => Typed
<1> SUFFICES ASSUME Init PROVE Typed
  OBVIOUS
<1>1. \A s \in Send : BlankRow(s) \in Row
  BY Constants DEF BlankRow, Row
<1>2. row \in [Send -> Row]
  BY <1>1 DEF Init
<1>3. feed \in [Feed -> FeedRecord]
  <2>1. <<>> \in Seq(Event) /\ <<>> \in Seq(Nat)
    OBVIOUS
  <2> QED
    BY <1>1, <2>1, SomeSend, FeedNames DEF Init, FeedRecord
<1>4. loop \in [Send -> Loop]
  <2>1. \A s \in Send : {ModelOf[s]} \in SUBSET Model /\ ModelOf[s] \in Model
    BY Constants
  <2>2. 0 \in 0..MaxChunk
    BY Constants
  <2> QED
    BY <2>1, <2>2, LoopNames, OutcomeNames DEF Init, Loop
<1>5. usage \in [MessageId -> Usage]
  BY Constants DEF Init, Usage
<1>6. stop \in [Stop -> StopRecord]
  BY FeedNames, OutcomeNames DEF Init, StopRecord
<1>7. LoopReady
  BY DEF Init, LoopReady
<1>8. registry \in [Send -> [live : BOOLEAN, content : Nat, aborted : BOOLEAN]]
  BY DEF Init
<1>9. clock \in Nat /\ faults \in 0..MaxFault /\ crashes \in 0..MaxCrash
  <2>1. clock = 0 /\ faults = 0 /\ crashes = 0
    BY DEF Init
  <2> QED
    BY <2>1, Constants
<1> QED
  BY <1>2, <1>3, <1>4, <1>5, <1>6, <1>7, <1>8, <1>9 DEF Typed, TypeOK

\* Every update of a loop that the handlers make gives a loop.
LEMMA LoopUpdates ==
    ASSUME NEW f \in [Send -> Loop], NEW i \in Send
    PROVE  /\ \A x \in LoopState :
              [f EXCEPT ![i].pc = x] \in [Send -> Loop]
           /\ \A x \in LoopState, y \in Outcome :
              [f EXCEPT ![i].pc = x, ![i].outcome = y] \in [Send -> Loop]
           /\ \A x \in LoopState, a \in Send :
              [f EXCEPT ![i].pc = x, ![i].anchor = a] \in [Send -> Loop]
           /\ \A x \in LoopState, n \in 0..MaxChunk :
              [f EXCEPT ![i].content = n, ![i].pc = x] \in [Send -> Loop]
           /\ \A x \in LoopState, m \in Model :
              [f EXCEPT ![i].model = m, ![i].tried = @ \cup {m}, ![i].pc = x] \in [Send -> Loop]
           /\ \A x \in LoopState, m \in Model, y \in Outcome :
              [f EXCEPT ![i].model = m, ![i].tried = @ \cup {m}, ![i].pc = x, ![i].outcome = y] \in [Send -> Loop]
<1> DEFINE r == f[i]
<1>1. r \in Loop
  OBVIOUS
<1>0. \A q \in Loop : [f EXCEPT ![i] = q] \in [Send -> Loop]
  OBVIOUS
<1>2. ASSUME NEW x \in LoopState
      PROVE  [f EXCEPT ![i].pc = x] \in [Send -> Loop]
  <2>1. [r EXCEPT !.pc = x] \in Loop
    BY <1>1 DEF Loop
  <2>2. [f EXCEPT ![i].pc = x] = [f EXCEPT ![i] = [r EXCEPT !.pc = x]]
    BY DEF Loop
  <2> QED
    BY <2>1, <2>2, <1>0
<1>3. ASSUME NEW x \in LoopState, NEW y \in Outcome
      PROVE  [f EXCEPT ![i].pc = x, ![i].outcome = y] \in [Send -> Loop]
  <2>1. [r EXCEPT !.pc = x, !.outcome = y] \in Loop
    BY <1>1 DEF Loop
  <2>2. [f EXCEPT ![i].pc = x, ![i].outcome = y] = [f EXCEPT ![i] = [r EXCEPT !.pc = x, !.outcome = y]]
    BY DEF Loop
  <2> QED
    BY <2>1, <2>2, <1>0
<1>4. ASSUME NEW x \in LoopState, NEW a \in Send
      PROVE  [f EXCEPT ![i].pc = x, ![i].anchor = a] \in [Send -> Loop]
  <2>1. [r EXCEPT !.pc = x, !.anchor = a] \in Loop
    BY <1>1 DEF Loop
  <2>2. [f EXCEPT ![i].pc = x, ![i].anchor = a] = [f EXCEPT ![i] = [r EXCEPT !.pc = x, !.anchor = a]]
    BY DEF Loop
  <2> QED
    BY <2>1, <2>2, <1>0
<1>5. ASSUME NEW x \in LoopState, NEW n \in 0..MaxChunk
      PROVE  [f EXCEPT ![i].content = n, ![i].pc = x] \in [Send -> Loop]
  <2>1. [r EXCEPT !.content = n, !.pc = x] \in Loop
    BY <1>1 DEF Loop
  <2>2. [f EXCEPT ![i].content = n, ![i].pc = x] = [f EXCEPT ![i] = [r EXCEPT !.content = n, !.pc = x]]
    BY DEF Loop
  <2> QED
    BY <2>1, <2>2, <1>0
<1>6. ASSUME NEW x \in LoopState, NEW m \in Model
      PROVE  [f EXCEPT ![i].model = m, ![i].tried = @ \cup {m}, ![i].pc = x] \in [Send -> Loop]
  <2>1. [r EXCEPT !.model = m, !.tried = @ \cup {m}, !.pc = x] \in Loop
    BY <1>1 DEF Loop
  <2>2. [f EXCEPT ![i].model = m, ![i].tried = @ \cup {m}, ![i].pc = x] = [f EXCEPT ![i] = [r EXCEPT !.model = m, !.tried = @ \cup {m}, !.pc = x]]
    BY DEF Loop
  <2> QED
    BY <2>1, <2>2, <1>0
<1>7. ASSUME NEW x \in LoopState, NEW m \in Model, NEW y \in Outcome
      PROVE  [f EXCEPT ![i].model = m, ![i].tried = @ \cup {m}, ![i].pc = x, ![i].outcome = y] \in [Send -> Loop]
  <2>1. [r EXCEPT !.model = m, !.tried = @ \cup {m}, !.pc = x, !.outcome = y] \in Loop
    BY <1>1 DEF Loop
  <2>2. [f EXCEPT ![i].model = m, ![i].tried = @ \cup {m}, ![i].pc = x, ![i].outcome = y] = [f EXCEPT ![i] = [r EXCEPT !.model = m, !.tried = @ \cup {m}, !.pc = x, !.outcome = y]]
    BY DEF Loop
  <2> QED
    BY <2>1, <2>2, <1>0
<1> QED
  BY <1>2, <1>3, <1>4, <1>5, <1>6, <1>7

\* Every update of an assistant row gives a row.
LEMMA RowUpdates ==
    ASSUME NEW f \in [Send -> Row], NEW i \in Send
    PROVE  /\ \A x \in Status, n \in Nat :
              [f EXCEPT ![i].status = x, ![i].created = n] \in [Send -> Row]
           /\ \A x \in Status, n \in 0..MaxChunk :
              [f EXCEPT ![i].status = x, ![i].content = n] \in [Send -> Row]
           /\ \A x \in Status, n \in 0..MaxChunk, m \in Model :
              [f EXCEPT ![i].status = x, ![i].content = n, ![i].model = m] \in [Send -> Row]
           /\ \A m \in Model :
              [f EXCEPT ![i].model = m] \in [Send -> Row]
<1> DEFINE r == f[i]
<1>1. r \in Row
  OBVIOUS
<1>0. \A q \in Row : [f EXCEPT ![i] = q] \in [Send -> Row]
  OBVIOUS
<1>2. ASSUME NEW x \in Status, NEW n \in Nat
      PROVE  [f EXCEPT ![i].status = x, ![i].created = n] \in [Send -> Row]
  <2>1. [r EXCEPT !.status = x, !.created = n] \in Row
    BY <1>1 DEF Row, Status
  <2>2. [f EXCEPT ![i].status = x, ![i].created = n] = [f EXCEPT ![i] = [r EXCEPT !.status = x, !.created = n]]
    BY DEF Row, Status
  <2> QED
    BY <2>1, <2>2, <1>0
<1>3. ASSUME NEW x \in Status, NEW n \in 0..MaxChunk
      PROVE  [f EXCEPT ![i].status = x, ![i].content = n] \in [Send -> Row]
  <2>1. [r EXCEPT !.status = x, !.content = n] \in Row
    BY <1>1 DEF Row, Status
  <2>2. [f EXCEPT ![i].status = x, ![i].content = n] = [f EXCEPT ![i] = [r EXCEPT !.status = x, !.content = n]]
    BY DEF Row, Status
  <2> QED
    BY <2>1, <2>2, <1>0
<1>4. ASSUME NEW x \in Status, NEW n \in 0..MaxChunk, NEW m \in Model
      PROVE  [f EXCEPT ![i].status = x, ![i].content = n, ![i].model = m] \in [Send -> Row]
  <2>1. [r EXCEPT !.status = x, !.content = n, !.model = m] \in Row
    BY <1>1 DEF Row, Status
  <2>2. [f EXCEPT ![i].status = x, ![i].content = n, ![i].model = m] = [f EXCEPT ![i] = [r EXCEPT !.status = x, !.content = n, !.model = m]]
    BY DEF Row, Status
  <2> QED
    BY <2>1, <2>2, <1>0
<1>5. ASSUME NEW m \in Model
      PROVE  [f EXCEPT ![i].model = m] \in [Send -> Row]
  <2>1. [r EXCEPT !.model = m] \in Row
    BY <1>1 DEF Row, Status
  <2>2. [f EXCEPT ![i].model = m] = [f EXCEPT ![i] = [r EXCEPT !.model = m]]
    BY DEF Row, Status
  <2> QED
    BY <2>1, <2>2, <1>0
<1> QED
  BY <1>2, <1>3, <1>4, <1>5

\* Every update of a feed that the handlers make gives a feed.
LEMMA FeedMoves ==
    ASSUME NEW f \in [Feed -> FeedRecord], NEW i \in Feed, NEW x \in FeedState
    PROVE  [f EXCEPT ![i].pc = x] \in [Feed -> FeedRecord]
<1> DEFINE r == f[i]
<1>1. r \in FeedRecord
  OBVIOUS
<1>2. [r EXCEPT !.pc = x] \in FeedRecord
  BY <1>1 DEF FeedRecord
<1>3. [f EXCEPT ![i].pc = x] = [f EXCEPT ![i] = [r EXCEPT !.pc = x]]
  BY DEF FeedRecord
<1> QED
  BY <1>2, <1>3

\* A reconnect picks its row.
LEMMA FeedTargets ==
    ASSUME NEW f \in [Feed -> FeedRecord], NEW i \in Feed, NEW x \in FeedState, NEW s \in Send, NEW w \in Row
    PROVE  [f EXCEPT ![i].pc = x, ![i].of = s, ![i].seen = w] \in [Feed -> FeedRecord]
<1> DEFINE r == f[i]
<1>1. r \in FeedRecord
  OBVIOUS
<1>2. [r EXCEPT !.pc = x, !.of = s, !.seen = w] \in FeedRecord
  BY <1>1 DEF FeedRecord
<1>3. [f EXCEPT ![i].pc = x, ![i].of = s, ![i].seen = w] = [f EXCEPT ![i] = [r EXCEPT !.pc = x, !.of = s, !.seen = w]]
  BY DEF FeedRecord
<1> QED
  BY <1>2, <1>3

\* A reader attaches with a snapshot.
LEMMA FeedAttaches ==
    ASSUME NEW f \in [Feed -> FeedRecord], NEW i \in Feed, NEW x \in FeedState, NEW c \in Seq(Nat)
    PROVE  [f EXCEPT ![i].pc = x, ![i].copy = c] \in [Feed -> FeedRecord]
<1> DEFINE r == f[i]
<1>1. r \in FeedRecord
  OBVIOUS
<1>2. [r EXCEPT !.pc = x, !.copy = c] \in FeedRecord
  BY <1>1 DEF FeedRecord
<1>3. [f EXCEPT ![i].pc = x, ![i].copy = c] = [f EXCEPT ![i] = [r EXCEPT !.pc = x, !.copy = c]]
  BY DEF FeedRecord
<1> QED
  BY <1>2, <1>3

\* A reader gets a settled row and its end.
LEMMA FeedReplays ==
    ASSUME NEW f \in [Feed -> FeedRecord], NEW i \in Feed, NEW x \in FeedState, NEW c \in Seq(Nat), NEW e \in Terminal \cup {"none"}
    PROVE  [f EXCEPT ![i].pc = x, ![i].copy = c, ![i].end = e] \in [Feed -> FeedRecord]
<1> DEFINE r == f[i]
<1>1. r \in FeedRecord
  OBVIOUS
<1>2. [r EXCEPT !.pc = x, !.copy = c, !.end = e] \in FeedRecord
  BY <1>1 DEF FeedRecord
<1>3. [f EXCEPT ![i].pc = x, ![i].copy = c, ![i].end = e] = [f EXCEPT ![i] = [r EXCEPT !.pc = x, !.copy = c, !.end = e]]
  BY DEF FeedRecord
<1> QED
  BY <1>2, <1>3

\* A reader gets the orphan it had marked.
LEMMA FeedMarks ==
    ASSUME NEW f \in [Feed -> FeedRecord], NEW i \in Feed, NEW x \in FeedState, NEW e \in Terminal \cup {"none"}, NEW c \in Seq(Nat)
    PROVE  [f EXCEPT ![i].pc = x, ![i].end = e, ![i].copy = c] \in [Feed -> FeedRecord]
<1> DEFINE r == f[i]
<1>1. r \in FeedRecord
  OBVIOUS
<1>2. [r EXCEPT !.pc = x, !.end = e, !.copy = c] \in FeedRecord
  BY <1>1 DEF FeedRecord
<1>3. [f EXCEPT ![i].pc = x, ![i].end = e, ![i].copy = c] = [f EXCEPT ![i] = [r EXCEPT !.pc = x, !.end = e, !.copy = c]]
  BY DEF FeedRecord
<1> QED
  BY <1>2, <1>3

\* A reader is told of a failure only.
LEMMA FeedFails ==
    ASSUME NEW f \in [Feed -> FeedRecord], NEW i \in Feed, NEW x \in FeedState, NEW e \in Terminal \cup {"none"}
    PROVE  [f EXCEPT ![i].pc = x, ![i].end = e] \in [Feed -> FeedRecord]
<1> DEFINE r == f[i]
<1>1. r \in FeedRecord
  OBVIOUS
<1>2. [r EXCEPT !.pc = x, !.end = e] \in FeedRecord
  BY <1>1 DEF FeedRecord
<1>3. [f EXCEPT ![i].pc = x, ![i].end = e] = [f EXCEPT ![i] = [r EXCEPT !.pc = x, !.end = e]]
  BY DEF FeedRecord
<1> QED
  BY <1>2, <1>3

\* A reader shows a delta.
LEMMA FeedShows ==
    ASSUME NEW f \in [Feed -> FeedRecord], NEW i \in Feed, NEW q \in Seq(Event), NEW c \in Seq(Nat)
    PROVE  [f EXCEPT ![i].queue = q, ![i].copy = c] \in [Feed -> FeedRecord]
<1> DEFINE r == f[i]
<1>1. r \in FeedRecord
  OBVIOUS
<1>2. [r EXCEPT !.queue = q, !.copy = c] \in FeedRecord
  BY <1>1 DEF FeedRecord
<1>3. [f EXCEPT ![i].queue = q, ![i].copy = c] = [f EXCEPT ![i] = [r EXCEPT !.queue = q, !.copy = c]]
  BY DEF FeedRecord
<1> QED
  BY <1>2, <1>3

\* A reader takes its terminal event.
LEMMA FeedEnds ==
    ASSUME NEW f \in [Feed -> FeedRecord], NEW i \in Feed, NEW x \in FeedState, NEW q \in Seq(Event), NEW e \in Terminal \cup {"none"}
    PROVE  [f EXCEPT ![i].queue = q, ![i].pc = x, ![i].end = e] \in [Feed -> FeedRecord]
<1> DEFINE r == f[i]
<1>1. r \in FeedRecord
  OBVIOUS
<1>2. [r EXCEPT !.queue = q, !.pc = x, !.end = e] \in FeedRecord
  BY <1>1 DEF FeedRecord
<1>3. [f EXCEPT ![i].queue = q, ![i].pc = x, ![i].end = e] = [f EXCEPT ![i] = [r EXCEPT !.queue = q, !.pc = x, !.end = e]]
  BY DEF FeedRecord
<1> QED
  BY <1>2, <1>3

\* A reader leaves.
LEMMA FeedLeaves ==
    ASSUME NEW f \in [Feed -> FeedRecord], NEW i \in Feed, NEW x \in FeedState, NEW q \in Seq(Event)
    PROVE  [f EXCEPT ![i].pc = x, ![i].queue = q] \in [Feed -> FeedRecord]
<1> DEFINE r == f[i]
<1>1. r \in FeedRecord
  OBVIOUS
<1>2. [r EXCEPT !.pc = x, !.queue = q] \in FeedRecord
  BY <1>1 DEF FeedRecord
<1>3. [f EXCEPT ![i].pc = x, ![i].queue = q] = [f EXCEPT ![i] = [r EXCEPT !.pc = x, !.queue = q]]
  BY DEF FeedRecord
<1> QED
  BY <1>2, <1>3

Found == [id : Send, seen : Row]

\* Every update of a Stop request that its handler makes gives a Stop request.
LEMMA StopMoves ==
    ASSUME NEW f \in [Stop -> StopRecord], NEW i \in Stop, NEW x \in StopState
    PROVE  [f EXCEPT ![i].pc = x] \in [Stop -> StopRecord]
<1> DEFINE r == f[i]
<1>1. r \in StopRecord
  OBVIOUS
<1>2. [r EXCEPT !.pc = x] \in StopRecord
  BY <1>1 DEF StopRecord, Found
<1>3. [f EXCEPT ![i].pc = x] = [f EXCEPT ![i] = [r EXCEPT !.pc = x]]
  BY DEF StopRecord
<1> QED
  BY <1>2, <1>3

\* A Stop replaces its list.
LEMMA StopFinds ==
    ASSUME NEW f \in [Stop -> StopRecord], NEW i \in Stop, NEW x \in StopState, NEW d \in SUBSET Found
    PROVE  [f EXCEPT ![i].pc = x, ![i].todo = d] \in [Stop -> StopRecord]
<1> DEFINE r == f[i]
<1>1. r \in StopRecord
  OBVIOUS
<1>2. [r EXCEPT !.pc = x, !.todo = d] \in StopRecord
  BY <1>1 DEF StopRecord, Found
<1>3. [f EXCEPT ![i].pc = x, ![i].todo = d] = [f EXCEPT ![i] = [r EXCEPT !.pc = x, !.todo = d]]
  BY DEF StopRecord
<1> QED
  BY <1>2, <1>3

\* A Stop goes on to the next row with an answer.
LEMMA StopAdvances ==
    ASSUME NEW f \in [Stop -> StopRecord], NEW i \in Stop, NEW x \in StopState, NEW d \in SUBSET Found, NEW y \in Outcome
    PROVE  [f EXCEPT ![i].pc = x, ![i].todo = d, ![i].answer = y] \in [Stop -> StopRecord]
<1> DEFINE r == f[i]
<1>1. r \in StopRecord
  OBVIOUS
<1>2. [r EXCEPT !.pc = x, !.todo = d, !.answer = y] \in StopRecord
  BY <1>1 DEF StopRecord, Found
<1>3. [f EXCEPT ![i].pc = x, ![i].todo = d, ![i].answer = y] = [f EXCEPT ![i] = [r EXCEPT !.pc = x, !.todo = d, !.answer = y]]
  BY DEF StopRecord
<1> QED
  BY <1>2, <1>3

\* Publishing an event leaves feeds.
LEMMA EventsArePublished ==
    ASSUME feed \in [Feed -> FeedRecord], NEW s \in Send, NEW e \in Event, Publish(s, e)
    PROVE  feed' \in [Feed -> FeedRecord]
<1>1. ASSUME NEW f \in Feed
      PROVE  [feed[f] EXCEPT !.queue = Append(@, e)] \in FeedRecord
  <2> DEFINE r == feed[f]
  <2>1. r \in FeedRecord
    OBVIOUS
  <2>2. Append(r.queue, e) \in Seq(Event)
    BY <2>1 DEF FeedRecord
  <2>3. \A q \in Seq(Event) : [r EXCEPT !.queue = q] \in FeedRecord
    BY <2>1 DEF FeedRecord
  <2> QED
    BY <2>2, <2>3
<1> QED
  BY <1>1 DEF Publish

\* Publishing a delta leaves feeds and a registry.
LEMMA DeltasArePublished ==
    ASSUME feed \in [Feed -> FeedRecord], NEW s \in Send, NEW n \in Nat,
           registry \in [Send -> [live : BOOLEAN, content : Nat, aborted : BOOLEAN]],
           PublishDelta(s, n)
    PROVE  /\ feed' \in [Feed -> FeedRecord]
           /\ registry' \in [Send -> [live : BOOLEAN, content : Nat, aborted : BOOLEAN]]
<1>1. [type |-> "delta", chunk |-> n] \in Event
  BY DEF Event
<1>2. feed' \in [Feed -> FeedRecord]
  BY <1>1, EventsArePublished DEF PublishDelta
<1>3. [registry EXCEPT ![s].content = @ + 1]
        \in [Send -> [live : BOOLEAN, content : Nat, aborted : BOOLEAN]]
  OBVIOUS
<1> QED
  BY <1>2, <1>3 DEF PublishDelta

\* Every step keeps the types.
LEMMA TypedNext == Typed /\ [Next]_vars => Typed'
<1> SUFFICES ASSUME Typed, [Next]_vars
             PROVE  Typed'
  OBVIOUS
<1>l. loop \in [Send -> Loop]
  BY DEF Typed, TypeOK
<1>f. feed \in [Feed -> FeedRecord]
  BY DEF Typed, TypeOK
<1>r. row \in [Send -> Row]
  BY DEF Typed, TypeOK
<1>p. stop \in [Stop -> StopRecord]
  BY DEF Typed, TypeOK
<1>u. usage \in [MessageId -> Usage]
  BY DEF Typed, TypeOK
<1>g. registry \in [Send -> [live : BOOLEAN, content : Nat, aborted : BOOLEAN]]
  BY DEF Typed, TypeOK
<1>n. clock \in Nat /\ faults \in 0..MaxFault /\ crashes \in 0..MaxCrash
  BY DEF Typed, TypeOK
<1>o. LoopReady
  BY DEF Typed
<1>x. Fault => faults' \in 0..MaxFault
  BY <1>n, Constants DEF Fault
<1>y. ASSUME NEW s \in Send
      PROVE  /\ OutcomeOfError(s) \in Settled
             /\ loop[s].content \in 0..MaxChunk /\ loop[s].model \in Model
             /\ loop[s].outcome \in Outcome /\ loop[s].anchor \in Send
  BY <1>l DEF OutcomeOfError, Settled, Loop
<1>z. ASSUME NEW id \in MessageId, NEW x \in Settled
      PROVE  RecordedOutcome(id, x) \in [MessageId -> Usage]
  BY <1>z, <1>u DEF RecordedOutcome, Usage
<1>w. ASSUME NEW s \in Send, NEW x \in Settled, Finalize(s, x)
      PROVE  loop' \in [Send -> Loop] /\ LoopReady'
  <2>1. x \in Outcome
    BY <1>w DEF Outcome
  <2>2. loop' \in [Send -> Loop]
    BY <1>w, <2>1, <1>l, LoopUpdates, LoopNames DEF Finalize
  <2>3. LoopReady'
    BY <1>w, <1>l, <1>o DEF Finalize, LoopReady, Loop
  <2> QED
    BY <2>2, <2>3
<1>v. ASSUME NEW s \in Send, NEW x \in LoopState \ {"save", "publish", "account", "ended", "fallback"},
             loop' = [loop EXCEPT ![s].pc = x]
      PROVE  loop' \in [Send -> Loop] /\ LoopReady'
  <2>1. loop' \in [Send -> Loop]
    BY <1>l, <1>v, LoopUpdates
  <2>2. LoopReady'
    BY <1>l, <1>o, <1>v DEF LoopReady, Loop
  <2> QED
    BY <2>1, <2>2
<1>1. ASSUME NEW s \in Send, AcceptTurn(s)
      PROVE  Typed'
  <2>0. ReplayMatches(s) \subseteq Send
    BY DEF ReplayMatches
  <2>1. loop' \in [Send -> Loop]
    <3>1. CASE loop' = [loop EXCEPT ![s].pc = "accepted"]
      BY <3>1, <1>1, <1>l, LoopUpdates, LoopNames
    <3>2. ASSUME NEW u \in Send, loop' = [loop EXCEPT ![s].pc = "accepted", ![s].anchor = u]
          PROVE  loop' \in [Send -> Loop]
      BY <3>2, <1>1, <1>l, LoopUpdates, LoopNames
    <3> QED
      BY <1>1, <2>0, <3>1, <3>2 DEF AcceptTurn
  <2>2. usage' \in [MessageId -> Usage]
    <3>1. [outcome |-> "pending", model |-> ModelOf[s]] \in Usage
      BY <1>1, Constants DEF Usage
    <3>2. [usage EXCEPT ![UserRow(s)] = [outcome |-> "pending", model |-> ModelOf[s]]]
            \in [MessageId -> Usage]
      BY <1>1, <1>u, <3>1
    <3> QED
      BY <1>1, <1>u, <3>2 DEF AcceptTurn
  <2>3. LoopReady'
    BY <1>1, <1>l, <1>o DEF AcceptTurn, LoopReady, Loop
  <2> QED
    BY <1>1, <1>f, <1>r, <1>p, <1>g, <1>n, <2>1, <2>2, <2>3 DEF AcceptTurn, Typed, TypeOK
<1>2. ASSUME NEW s \in Send, PersistAssistantRow(s)
      PROVE  Typed'
  <2>1. loop' \in [Send -> Loop] /\ LoopReady'
    <3>1. CASE loop' = [loop EXCEPT ![s].pc = "persisted"]
      BY <3>1, <1>v, LoopNames
    <3>2. CASE loop' = [loop EXCEPT ![s].pc = "lost"]
      BY <3>2, <1>v, LoopNames
    <3> QED
      BY <1>2, <3>1, <3>2 DEF PersistAssistantRow
  <2>2. row' \in [Send -> Row]
    <3>1. "pending" \in Status /\ clock + 1 \in Nat
      BY <1>n, StatusNames
    <3>2. [row EXCEPT ![s].status = "pending", ![s].created = clock + 1] \in [Send -> Row]
      BY <1>2, <1>r, <3>1, RowUpdates
    <3> QED
      BY <1>2, <1>r, <3>2 DEF PersistAssistantRow
  <2>3. clock' \in Nat /\ faults' \in 0..MaxFault
    BY <1>2, <1>n, <1>x DEF PersistAssistantRow
  <2> QED
    BY <1>2, <1>f, <1>u, <1>p, <1>g, <1>n, <2>1, <2>2, <2>3
    DEF PersistAssistantRow, Typed, TypeOK
<1>3. ASSUME NEW s \in Send, StartGeneration(s)
      PROVE  Typed'
  <2>1. loop' \in [Send -> Loop] /\ LoopReady'
    <3>1. CASE loop' = [loop EXCEPT ![s].pc = "search"]
      BY <1>3, <3>1, <1>v, LoopNames
    <3>2. CASE loop' = [loop EXCEPT ![s].pc = "provider"]
      BY <1>3, <3>2, <1>v, LoopNames
    <3> QED
      BY <1>3, <3>1, <3>2 DEF StartGeneration
  <2>2. feed' \in [Feed -> FeedRecord]
    BY <1>3, <1>f, FeedMoves, FeedNames DEF StartGeneration
  <2>3. registry' \in [Send -> [live : BOOLEAN, content : Nat, aborted : BOOLEAN]]
    BY <1>3, <1>g DEF StartGeneration
  <2> QED
    BY <1>3, <1>r, <1>u, <1>p, <1>n, <2>1, <2>2, <2>3 DEF StartGeneration, Typed, TypeOK
<1>4. ASSUME NEW s \in Send, EndSearch(s)
      PROVE  Typed'
  <2>1. loop' \in [Send -> Loop] /\ LoopReady'
    <3>1. CASE loop' = [loop EXCEPT ![s].pc = "provider"]
      BY <1>4, <3>1, <1>v, LoopNames
    <3>2. CASE Finalize(s, "interrupted")
      BY <1>4, <3>2, <1>w DEF Settled
    <3>3. CASE Finalize(s, OutcomeOfError(s))
      BY <1>4, <3>3, <1>w, <1>y
    <3> QED
      BY <1>4, <3>1, <3>2, <3>3 DEF EndSearch
  <2>2. faults' \in 0..MaxFault
    BY <1>4, <1>n, <1>x DEF EndSearch
  <2> QED
    BY <1>4, <1>r, <1>f, <1>g, <1>u, <1>p, <1>n, <2>1, <2>2 DEF EndSearch, Typed, TypeOK
<1>5. ASSUME NEW s \in Send, DiscardAfterStop(s)
      PROVE  Typed'
  <2>1. loop' \in [Send -> Loop] /\ LoopReady'
    BY <1>5, <1>w DEF DiscardAfterStop, Settled
  <2> QED
    BY <1>5, <1>r, <1>f, <1>g, <1>u, <1>p, <1>n, <2>1 DEF DiscardAfterStop, Typed, TypeOK
<1>6. ASSUME NEW s \in Send, ReceiveDelta(s)
      PROVE  Typed'
  <2>1. loop[s].content + 1 \in 0..MaxChunk /\ loop[s].content + 1 \in Nat
    BY <1>6, <1>y, Constants DEF ReceiveDelta
  <2>2. loop' \in [Send -> Loop] /\ LoopReady'
    <3>1. ASSUME NEW n \in 0..MaxChunk, NEW x \in {"provider", "persist", "persistFirst"},
                 loop' = [loop EXCEPT ![s].content = n, ![s].pc = x]
          PROVE  loop' \in [Send -> Loop] /\ LoopReady'
      <4>1. x \in LoopState
        BY <3>1, LoopNames
      <4>2. loop' \in [Send -> Loop]
        BY <1>6, <3>1, <4>1, <1>l, LoopUpdates
      <4>3. LoopReady'
        BY <1>6, <3>1, <1>l, <1>o DEF LoopReady, Loop
      <4> QED
        BY <4>2, <4>3
    <3>2. CASE loop' = [loop EXCEPT ![s].content = 1, ![s].pc = "persistFirst"]
               /\ loop[s].content = 0
      <4>1. 1 \in 0..MaxChunk
        BY <3>2, <2>1
      <4> QED
        BY <3>1, <3>2, <4>1
    <3>3. CASE \E next \in AfterDelta :
                 loop' = [loop EXCEPT ![s].content = @ + 1, ![s].pc = next]
      BY <3>1, <3>3, <2>1 DEF AfterDelta
    <3> QED
      BY <1>6, <3>2, <3>3 DEF ReceiveDelta
  <2>3. /\ feed' \in [Feed -> FeedRecord]
        /\ registry' \in [Send -> [live : BOOLEAN, content : Nat, aborted : BOOLEAN]]
    <3>1. CASE PublishDelta(s, loop[s].content + 1)
      BY <1>6, <3>1, <2>1, <1>f, <1>g, DeltasArePublished
    <3>2. CASE UNCHANGED <<registry, feed>>
      BY <3>2, <1>f, <1>g
    <3> QED
      BY <1>6, <3>1, <3>2 DEF ReceiveDelta
  <2> QED
    BY <1>6, <1>r, <1>u, <1>p, <1>n, <2>2, <2>3 DEF ReceiveDelta, Typed, TypeOK
<1>7. ASSUME NEW s \in Send, PersistFirstDelta(s) \/ PersistProgress(s)
      PROVE  Typed'
  <2>1. loop' \in [Send -> Loop] /\ LoopReady'
    <3>1. ASSUME NEW next \in {"provider", "persist"}, loop' = [loop EXCEPT ![s].pc = next]
          PROVE  loop' \in [Send -> Loop] /\ LoopReady'
      BY <1>7, <3>1, <1>v, LoopNames
    <3> QED
      BY <1>7, <3>1 DEF PersistFirstDelta, PersistProgress, AfterDelta
  <2>2. row' \in [Send -> Row]
    <3>1. [row EXCEPT ![s].status = "streaming", ![s].content = loop[s].content]
            \in [Send -> Row]
      BY <1>7, <1>r, <1>y, RowUpdates, StatusNames
    <3> QED
      BY <1>7, <3>1 DEF PersistFirstDelta, PersistProgress, Progress
  <2>3. /\ feed' \in [Feed -> FeedRecord]
        /\ registry' \in [Send -> [live : BOOLEAN, content : Nat, aborted : BOOLEAN]]
    <3>1. CASE PublishDelta(s, loop[s].content)
      <4>1. loop[s].content \in Nat
        BY <1>7, <1>y, Constants
      <4> QED
        BY <1>7, <3>1, <4>1, <1>f, <1>g, DeltasArePublished
    <3>2. CASE UNCHANGED <<registry, feed>>
      BY <3>2, <1>f, <1>g
    <3> QED
      BY <1>7, <3>1, <3>2 DEF PersistFirstDelta, PersistProgress
  <2> QED
    BY <1>7, <1>u, <1>p, <1>n, <2>1, <2>2, <2>3
    DEF PersistFirstDelta, PersistProgress, Typed, TypeOK
<1>8. ASSUME NEW s \in Send, PersistThrows(s)
      PROVE  Typed'
  <2>1. loop' \in [Send -> Loop] /\ LoopReady'
    BY <1>8, <1>w, <1>y DEF PersistThrows
  <2>2. faults' \in 0..MaxFault
    BY <1>8, <1>x DEF PersistThrows
  <2> QED
    BY <1>8, <1>r, <1>f, <1>g, <1>u, <1>p, <1>n, <2>1, <2>2 DEF PersistThrows, Typed, TypeOK
<1>9. ASSUME NEW s \in Send, EndOfStream(s)
      PROVE  Typed'
  <2>1. loop' \in [Send -> Loop] /\ LoopReady'
    BY <1>9, <1>w DEF EndOfStream, Settled
  <2> QED
    BY <1>9, <1>r, <1>f, <1>g, <1>u, <1>p, <1>n, <2>1 DEF EndOfStream, Typed, TypeOK
<1>10. ASSUME NEW s \in Send, ProviderThrows(s)
       PROVE  Typed'
  <2>1. loop' \in [Send -> Loop] /\ LoopReady'
    <3>1. CASE loop' = [loop EXCEPT ![s].pc = "fallback"] /\ MayFallBack(s)
      <4>1. Fallback[loop[s].model] \in Model
        BY <1>10, <3>1, <1>y, Constants DEF MayFallBack
      <4>2. loop' \in [Send -> Loop]
        BY <1>10, <3>1, <1>l, LoopUpdates, LoopNames
      <4>3. LoopReady'
        BY <1>10, <3>1, <4>1, <1>l, <1>o DEF LoopReady, Loop
      <4> QED
        BY <4>2, <4>3
    <3>2. CASE Finalize(s, "failed")
      BY <1>10, <3>2, <1>w DEF Settled
    <3> QED
      BY <1>10, <3>1, <3>2 DEF ProviderThrows
  <2> QED
    BY <1>10, <1>r, <1>f, <1>g, <1>u, <1>p, <1>n, <2>1 DEF ProviderThrows, Typed, TypeOK
<1>11. ASSUME NEW s \in Send, SwitchToFallback(s)
       PROVE  Typed'
  <2> DEFINE fallback == Fallback[loop[s].model]
  <2>1. fallback \in Model
    BY <1>11, <1>o DEF LoopReady, SwitchToFallback
  <2>2. loop' \in [Send -> Loop] /\ LoopReady'
    <3>1. CASE loop' = [loop EXCEPT ![s].model = fallback, ![s].tried = @ \cup {fallback},
                                    ![s].pc = "fallbackUsage"]
      <4>1. loop' \in [Send -> Loop]
        BY <1>11, <3>1, <2>1, <1>l, LoopUpdates, LoopNames
      <4>2. LoopReady'
        BY <1>11, <3>1, <1>l, <1>o DEF LoopReady, Loop
      <4> QED
        BY <4>1, <4>2
    <3>2. CASE Finalize(s, OutcomeOfError(s))
      BY <1>11, <3>2, <1>w, <1>y
    <3>3. CASE loop' = [loop EXCEPT ![s].model = fallback, ![s].tried = @ \cup {fallback},
                                    ![s].pc = "save", ![s].outcome = OutcomeOfError(s)]
      <4>1. OutcomeOfError(s) \in Settled /\ OutcomeOfError(s) \in Outcome
        BY <1>11, <1>y DEF Outcome
      <4>2. loop' \in [Send -> Loop]
        BY <1>11, <3>3, <2>1, <4>1, <1>l, LoopUpdates, LoopNames
      <4>3. LoopReady'
        BY <1>11, <3>3, <4>1, <1>l, <1>o DEF LoopReady, Loop
      <4> QED
        BY <4>2, <4>3
    <3> QED
      BY <1>11, <3>1, <3>2, <3>3 DEF SwitchToFallback
  <2>3. row' \in [Send -> Row]
    <3>1. [row EXCEPT ![s].model = fallback] \in [Send -> Row]
      BY <1>11, <1>r, <2>1, RowUpdates
    <3> QED
      BY <1>11, <1>r, <3>1 DEF SwitchToFallback
  <2>4. faults' \in 0..MaxFault
    BY <1>11, <1>n, <1>x DEF SwitchToFallback
  <2> QED
    BY <1>11, <1>f, <1>g, <1>u, <1>p, <1>n, <2>2, <2>3, <2>4
    DEF SwitchToFallback, Typed, TypeOK
<1>12. ASSUME NEW s \in Send, RecordFallbackModel(s)
       PROVE  Typed'
  <2>1. loop' \in [Send -> Loop] /\ LoopReady'
    BY <1>12, <1>v, LoopNames DEF RecordFallbackModel
  <2>2. usage' \in [MessageId -> Usage]
    <3>1. [usage EXCEPT ![UserRow(loop[s].anchor)].model = loop[s].model]
            \in [MessageId -> Usage]
      BY <1>12, <1>u, <1>y DEF Usage
    <3> QED
      BY <1>12, <1>u, <3>1 DEF RecordFallbackModel
  <2>3. faults' \in 0..MaxFault
    BY <1>12, <1>n, <1>x DEF RecordFallbackModel
  <2> QED
    BY <1>12, <1>r, <1>f, <1>g, <1>p, <1>n, <2>1, <2>2, <2>3
    DEF RecordFallbackModel, Typed, TypeOK
<1>13. ASSUME NEW s \in Send, SaveTerminalRow(s)
       PROVE  Typed'
  <2>1. loop[s].outcome \in Settled
    BY <1>13, <1>o DEF LoopReady, SaveTerminalRow
  <2>2. loop' \in [Send -> Loop] /\ LoopReady'
    <3>1. loop' \in [Send -> Loop]
      BY <1>13, <1>l, LoopUpdates, LoopNames DEF SaveTerminalRow
    <3>2. LoopReady'
      BY <1>13, <2>1, <1>l, <1>o DEF SaveTerminalRow, LoopReady, Loop
    <3> QED
      BY <3>1, <3>2
  <2>3. row' \in [Send -> Row]
    BY <1>13, <1>r, <1>y, <2>1, RowUpdates, StatusNames DEF SaveTerminalRow
  <2> QED
    BY <1>13, <1>f, <1>g, <1>u, <1>p, <1>n, <2>2, <2>3 DEF SaveTerminalRow, Typed, TypeOK
<1>14. ASSUME NEW s \in Send, SaveThrows(s)
       PROVE  Typed'
  <2>1. loop' \in [Send -> Loop] /\ LoopReady'
    <3>1. CASE Finalize(s, OutcomeOfError(s))
      BY <1>14, <3>1, <1>w, <1>y
    <3>2. CASE loop' = [loop EXCEPT ![s].pc = "publish"]
      <4>1. loop' \in [Send -> Loop]
        BY <1>14, <3>2, <1>l, LoopUpdates, LoopNames
      <4>2. LoopReady'
        BY <1>14, <3>2, <1>l, <1>o DEF SaveThrows, LoopReady, Loop
      <4> QED
        BY <4>1, <4>2
    <3> QED
      BY <1>14, <3>1, <3>2 DEF SaveThrows
  <2>2. faults' \in 0..MaxFault
    BY <1>14, <1>x DEF SaveThrows
  <2> QED
    BY <1>14, <1>r, <1>f, <1>g, <1>u, <1>p, <1>n, <2>1, <2>2 DEF SaveThrows, Typed, TypeOK
<1>15. ASSUME NEW s \in Send, PublishTerminal(s)
       PROVE  Typed'
  <2>1. loop' \in [Send -> Loop]
    BY <1>15, <1>l, LoopUpdates, LoopNames DEF PublishTerminal
  <2>2. LoopReady'
    BY <1>15, <1>l, <1>o DEF PublishTerminal, LoopReady, Loop
  <2>3. TerminalEvent(s) \in Event
    <3>1. loop[s].content \in Nat
      BY <1>15, <1>y, Constants
    <3> QED
      BY <3>1 DEF TerminalEvent, Event, Terminal
  <2>4. feed' \in [Feed -> FeedRecord]
    BY <1>15, <1>f, <2>3, EventsArePublished DEF PublishTerminal
  <2> QED
    BY <1>15, <1>r, <1>g, <1>u, <1>p, <1>n, <2>1, <2>2, <2>4 DEF PublishTerminal, Typed, TypeOK
<1>16. ASSUME NEW s \in Send, AccountAndUnregister(s)
       PROVE  Typed'
  <2>1. loop' \in [Send -> Loop]
    BY <1>16, <1>l, LoopUpdates, LoopNames DEF AccountAndUnregister
  <2>2. LoopReady'
    BY <1>16, <1>l, <1>o DEF AccountAndUnregister, LoopReady, Loop
  <2>3. usage' \in [MessageId -> Usage]
    <3>1. loop[s].outcome \in Settled
      BY <1>16, <1>o DEF AccountAndUnregister, LoopReady
    <3>2. RecordedOutcome(UserRow(loop[s].anchor), loop[s].outcome) \in [MessageId -> Usage]
      BY <1>16, <1>y, <1>z, <3>1
    <3> QED
      BY <1>16, <1>u, <3>2 DEF AccountAndUnregister
  <2>4. registry' \in [Send -> [live : BOOLEAN, content : Nat, aborted : BOOLEAN]]
    BY <1>16, <1>g DEF AccountAndUnregister, NoGeneration
  <2>5. faults' \in 0..MaxFault
    BY <1>16, <1>n, <1>x DEF AccountAndUnregister
  <2> QED
    BY <1>16, <1>r, <1>f, <1>p, <1>n, <2>1, <2>2, <2>3, <2>4, <2>5
    DEF AccountAndUnregister, Typed, TypeOK
<1>q. ASSUME NEW f \in Feed
      PROVE  /\ feed[f].of \in Send /\ feed[f].seen \in Row /\ feed[f].copy \in Seq(Nat)
             /\ feed[f].queue \in Seq(Event)
             /\ feed[f].seen.status \in Status /\ feed[f].seen.content \in 0..MaxChunk
  BY <1>f DEF FeedRecord, Row, Status
<1>s. ASSUME NEW n \in 0..MaxChunk
      PROVE  Chunks(n) \in Seq(Nat)
  <2>1. n \in Nat
    BY <1>s, Constants
  <2> QED
    BY <2>1, ChunksGrow
<1>m. ASSUME NEW s \in Send, NEW seen \in Row
      PROVE  MarkedInterrupted(s, seen) \in [Send -> Row]
  <2>1. [seen EXCEPT !.status = "interrupted"] \in Row
    BY <1>m, StatusNames DEF Row, Status
  <2> QED
    BY <1>m, <1>r, <2>1 DEF MarkedInterrupted
<1>17. ASSUME NEW r \in Reconnect, ReadForReconnect(r)
       PROVE  Typed'
  <2>1. feed' \in [Feed -> FeedRecord]
    <3>1. PICK s \in Send :
            feed' = [feed EXCEPT ![r].pc = "read", ![r].of = s, ![r].seen = row[s]]
      BY <1>17 DEF ReadForReconnect
    <3>2. row[s] \in Row /\ "read" \in FeedState
      BY <1>r, FeedNames
    <3> QED
      BY <1>17, <1>f, <3>1, <3>2, FeedTargets
  <2> QED
    BY <1>17, <1>l, <1>o, <1>r, <1>g, <1>u, <1>p, <1>n, <2>1
    DEF ReadForReconnect, Typed, TypeOK, LoopReady
<1>18. ASSUME NEW r \in Reconnect, ReplayRow(r)
       PROVE  Typed'
  <2>1. feed' \in [Feed -> FeedRecord]
    <3>1. ASSUME NEW end \in {"done", "failed"},
                 feed' = [feed EXCEPT ![r].pc = "closed",
                                      ![r].copy = Chunks(feed[r].seen.content),
                                      ![r].end = end]
          PROVE  feed' \in [Feed -> FeedRecord]
      <4>1. /\ Chunks(feed[r].seen.content) \in Seq(Nat)
            /\ "closed" \in FeedState /\ end \in Terminal \cup {"none"}
        BY <1>18, <3>1, <1>q, <1>s, FeedNames
      <4>2. ASSUME NEW c \in Seq(Nat)
            PROVE  [feed EXCEPT ![r].pc = "closed", ![r].copy = c, ![r].end = end]
                     \in [Feed -> FeedRecord]
        <5>1. r \in Feed
          BY <1>18 DEF Feed
        <5> QED
          BY ZenonT(60), <4>2, <5>1, <4>1, <1>f, FeedReplays
      <4> QED
        BY <3>1, <4>1, <4>2
    <3>2. CASE feed' = [feed EXCEPT ![r].pc = "mark"]
      BY <1>18, <3>2, <1>f, FeedMoves, FeedNames
    <3> QED
      BY <1>18, <3>1, <3>2 DEF ReplayRow
  <2> QED
    BY <1>18, <1>l, <1>o, <1>r, <1>g, <1>u, <1>p, <1>n, <2>1
    DEF ReplayRow, Typed, TypeOK, LoopReady
<1>19. ASSUME NEW r \in Reconnect, AttachLive(r)
       PROVE  Typed'
  <2>1. Chunks(registry[feed[r].of].content) \in Seq(Nat)
    <3>1. registry[feed[r].of].content \in Nat
      BY <1>19, <1>q, <1>g
    <3> QED
      BY <3>1, ChunksGrow
  <2>2. feed' \in [Feed -> FeedRecord]
    <3>1. "live" \in FeedState
      BY FeedNames
    <3> QED
      BY <1>19, <1>f, <2>1, <3>1, FeedAttaches DEF AttachLive
  <2> QED
    BY <1>19, <1>l, <1>o, <1>r, <1>g, <1>u, <1>p, <1>n, <2>2
    DEF AttachLive, Typed, TypeOK, LoopReady
<1>20. ASSUME NEW r \in Reconnect, MarkOrphan(r)
       PROVE  Typed'
  <2>1. feed' \in [Feed -> FeedRecord]
    <3>1. CASE feed' = [feed EXCEPT ![r].pc = "closed", ![r].end = "failed",
                                    ![r].copy = Chunks(feed[r].seen.content)]
      <4>1. /\ Chunks(feed[r].seen.content) \in Seq(Nat)
            /\ "closed" \in FeedState /\ "failed" \in Terminal \cup {"none"}
        BY <1>20, <1>q, <1>s, FeedNames
      <4>2. ASSUME NEW c \in Seq(Nat), NEW e \in Terminal \cup {"none"}
            PROVE  [feed EXCEPT ![r].pc = "closed", ![r].end = e, ![r].copy = c]
                     \in [Feed -> FeedRecord]
        BY <1>20, <4>1, <4>2, <1>f, FeedMarks
      <4> QED
        BY <3>1, <4>1, <4>2
    <3>2. CASE feed' = [feed EXCEPT ![r].pc = "closed", ![r].end = "failed"]
      <4>1. "closed" \in FeedState /\ "failed" \in Terminal \cup {"none"}
        BY FeedNames
      <4> QED
        BY <1>20, <3>2, <4>1, <1>f, FeedFails
    <3> QED
      BY <1>20, <3>1, <3>2 DEF MarkOrphan
  <2>2. row' \in [Send -> Row]
    BY <1>20, <1>r, <1>q, <1>m DEF MarkOrphan
  <2>3. usage' \in [MessageId -> Usage]
    <3>1. RecordedOutcome(AssistantRow(feed[r].of), "interrupted") \in [MessageId -> Usage]
      BY <1>20, <1>q, <1>z DEF Settled
    <3> QED
      BY <1>20, <1>u, <3>1 DEF MarkOrphan
  <2>4. faults' \in 0..MaxFault
    BY <1>20, <1>n, <1>x DEF MarkOrphan
  <2> QED
    BY <1>20, <1>l, <1>o, <1>g, <1>p, <1>n, <2>1, <2>2, <2>3, <2>4
    DEF MarkOrphan, Typed, TypeOK, LoopReady
<1>21. ASSUME NEW f \in Feed, Deliver(f)
       PROVE  Typed'
  <2> DEFINE event == Head(feed[f].queue)
  <2>1. /\ event \in Event /\ Tail(feed[f].queue) \in Seq(Event)
    BY <1>21, <1>q DEF Deliver
  <2>2. feed' \in [Feed -> FeedRecord]
    <3>1. CASE event.type = "delta"
      <4>1. Append(feed[f].copy, event.chunk) \in Seq(Nat)
        BY <1>21, <1>q, <2>1 DEF Event
      <4> QED
        BY <1>21, <1>f, <2>1, <3>1, <4>1, FeedShows DEF Deliver
    <3>2. CASE event.type # "delta"
      <4>1. event.type \in Terminal \cup {"none"} /\ "closed" \in FeedState
        BY <2>1, <3>2, FeedNames DEF Event
      <4>2. ASSUME NEW q \in Seq(Event), NEW e \in Terminal \cup {"none"}
            PROVE  [feed EXCEPT ![f].queue = q, ![f].pc = "closed", ![f].end = e]
                     \in [Feed -> FeedRecord]
        BY <1>21, <4>1, <4>2, <1>f, FeedEnds
      <4> QED
        BY <1>21, <2>1, <3>2, <4>1, <4>2 DEF Deliver
    <3> QED
      BY <3>1, <3>2
  <2> QED
    BY <1>21, <1>l, <1>o, <1>r, <1>g, <1>u, <1>p, <1>n, <2>2
    DEF Deliver, Typed, TypeOK, LoopReady
<1>22. ASSUME NEW f \in Feed, Disconnect(f)
       PROVE  Typed'
  <2>1. <<>> \in Seq(Event) /\ "left" \in FeedState
    BY FeedNames
  <2>2. feed' \in [Feed -> FeedRecord]
    BY <1>22, <1>f, <2>1, FeedLeaves DEF Disconnect
  <2> QED
    BY <1>22, <1>l, <1>o, <1>r, <1>g, <1>u, <1>p, <1>n, <2>2
    DEF Disconnect, Typed, TypeOK, LoopReady
<1>t. ASSUME NEW p \in Stop
      PROVE  /\ stop[p].todo \in SUBSET Found /\ stop[p].answer \in Outcome
             /\ \A item \in stop[p].todo : item.id \in Send /\ item.seen \in Row
  BY <1>p DEF StopRecord, Found
<1>23. ASSUME NEW p \in Stop, ReadOpenRows(p)
       PROVE  Typed'
  <2>1. {[id |-> s, seen |-> row[s]] : s \in {u \in Send : row[u].status \in Open}}
          \in SUBSET Found
    BY <1>r DEF Found
  <2>2. stop' \in [Stop -> StopRecord]
    BY <1>23, <1>p, <2>1, StopFinds, FeedNames DEF ReadOpenRows
  <2> QED
    BY <1>23, <1>l, <1>o, <1>f, <1>r, <1>g, <1>u, <1>n, <2>2
    DEF ReadOpenRows, Typed, TypeOK, LoopReady
<1>24. ASSUME NEW p \in Stop, StopNextRow(p)
       PROVE  Typed'
  <2>1. PICK item \in stop[p].todo :
          \/ /\ registry' = [registry EXCEPT ![item.id].aborted = TRUE]
             /\ stop' = [stop EXCEPT ![p].pc = "wait"]
          \/ /\ stop' = [stop EXCEPT ![p].pc = "mark"]
             /\ UNCHANGED registry
    BY <1>24 DEF StopNextRow
  <2>2. stop' \in [Stop -> StopRecord]
    BY <1>24, <1>p, <2>1, StopMoves, FeedNames
  <2>3. registry' \in [Send -> [live : BOOLEAN, content : Nat, aborted : BOOLEAN]]
    BY ZenonT(60), <1>24, <1>t, <1>g, <2>1
  <2> QED
    BY <1>24, <1>l, <1>o, <1>f, <1>r, <1>u, <1>n, <2>2, <2>3
    DEF StopNextRow, Typed, TypeOK, LoopReady
<1>25. ASSUME NEW p \in Stop, StopSettles(p)
       PROVE  Typed'
  <2>0. PICK item \in stop[p].todo :
          \E answer \in {"none"} \cup
                        (IF Completed(item.id) THEN {loop[item.id].outcome} ELSE {}) :
             stop' = [stop EXCEPT ![p].pc = "next", ![p].todo = @ \ {item},
                                  ![p].answer = AnswerWith(p, answer)]
    BY <1>25 DEF StopSettles
  <2>1. PICK answer \in {"none", loop[item.id].outcome} :
          stop' = [stop EXCEPT ![p].pc = "next", ![p].todo = @ \ {item},
                               ![p].answer = AnswerWith(p, answer)]
    BY <2>0
  <2>2. answer \in Outcome
    <3>1. loop[item.id].outcome \in Outcome
      BY <1>25, <1>t, <1>y
    <3> QED
      BY <2>1, <3>1, OutcomeNames
  <2>3. AnswerWith(p, answer) \in Outcome
    BY <1>25, <1>t, <2>2 DEF AnswerWith
  <2>4. stop[p].todo \ {item} \in SUBSET Found
    BY <1>25, <1>t
  <2>5. stop' \in [Stop -> StopRecord]
    BY <1>25, <1>p, <2>1, <2>3, <2>4, StopAdvances, FeedNames
  <2> QED
    BY <1>25, <1>l, <1>o, <1>f, <1>r, <1>g, <1>u, <1>n, <2>5
    DEF StopSettles, Typed, TypeOK, LoopReady
<1>26. ASSUME NEW p \in Stop, StopMarksOrphan(p)
       PROVE  Typed'
  <2>1. PICK item \in stop[p].todo :
          \/ /\ row' = MarkedInterrupted(item.id, item.seen)
             /\ usage' = RecordedOutcome(AssistantRow(item.id), "interrupted")
             /\ stop' = [stop EXCEPT ![p].pc = "next", ![p].todo = @ \ {item},
                                     ![p].answer = AnswerWith(p, "interrupted")]
             /\ UNCHANGED faults
          \/ /\ Fault
             /\ stop' = [stop EXCEPT ![p].pc = "lost", ![p].todo = {}]
             /\ UNCHANGED <<row, usage>>
    BY <1>26 DEF StopMarksOrphan
  <2>2. item.id \in Send /\ item.seen \in Row
    BY <1>26, <1>t
  <2>3. row' \in [Send -> Row]
    BY <1>r, <1>m, <2>1, <2>2
  <2>4. usage' \in [MessageId -> Usage]
    <3>1. RecordedOutcome(AssistantRow(item.id), "interrupted") \in [MessageId -> Usage]
      BY <1>z, <2>2 DEF Settled
    <3> QED
      BY <1>u, <2>1, <3>1
  <2>5. stop' \in [Stop -> StopRecord]
    <3>1. AnswerWith(p, "interrupted") \in Outcome
      BY <1>26, <1>t, OutcomeNames DEF AnswerWith
    <3>2. stop[p].todo \ {item} \in SUBSET Found /\ {} \in SUBSET Found
      BY <1>26, <1>t
    <3>3. /\ [stop EXCEPT ![p].pc = "next", ![p].todo = @ \ {item},
                           ![p].answer = AnswerWith(p, "interrupted")] \in [Stop -> StopRecord]
          /\ [stop EXCEPT ![p].pc = "lost", ![p].todo = {}] \in [Stop -> StopRecord]
      BY <1>26, <1>p, <3>1, <3>2, StopAdvances, StopFinds, FeedNames
    <3> QED
      BY <2>1, <3>3
  <2>6. faults' \in 0..MaxFault
    BY <1>n, <1>x, <2>1
  <2> QED
    BY <1>26, <1>l, <1>o, <1>f, <1>g, <1>n, <2>3, <2>4, <2>5, <2>6
    DEF StopMarksOrphan, Typed, TypeOK, LoopReady
<1>27. CASE Crash
  <2>1. loop' \in [Send -> Loop]
    <3>1. ASSUME NEW s \in Send
          PROVE  [loop[s] EXCEPT !.pc = "lost"] \in Loop
      <4> DEFINE r == loop[s]
      <4>1. r \in Loop
        BY <3>1, <1>l
      <4> QED
        BY <4>1, LoopNames DEF Loop
    <3> QED
      BY <1>27, <1>l, <3>1 DEF Crash
  <2>2. LoopReady'
    BY ZenonT(60), <1>27, <1>l, <1>o DEF Crash, LoopReady, Loop
  <2>3. feed' \in [Feed -> FeedRecord]
    <3>1. ASSUME NEW f \in Feed
          PROVE  [feed[f] EXCEPT !.pc = "lost", !.queue = <<>>] \in FeedRecord
      <4> DEFINE r == feed[f]
      <4>1. r \in FeedRecord /\ <<>> \in Seq(Event)
        BY <3>1, <1>f
      <4> QED
        BY <4>1, FeedNames DEF FeedRecord
    <3> QED
      BY <1>27, <1>f, <3>1 DEF Crash
  <2>4. stop' \in [Stop -> StopRecord]
    <3>1. ASSUME NEW p \in Stop
          PROVE  [stop[p] EXCEPT !.pc = "lost", !.todo = {}] \in StopRecord
      <4> DEFINE r == stop[p]
      <4>1. r \in StopRecord
        BY <3>1, <1>p
      <4> QED
        BY <4>1, FeedNames DEF StopRecord
    <3> QED
      BY <1>27, <1>p, <3>1 DEF Crash
  <2>5. registry' \in [Send -> [live : BOOLEAN, content : Nat, aborted : BOOLEAN]]
    BY <1>27 DEF Crash, NoGeneration
  <2>6. crashes' \in 0..MaxCrash
    <3>1. crashes < MaxCrash /\ crashes' = crashes + 1
      BY <1>27 DEF Crash
    <3> QED
      BY <1>n, <3>1, Constants
  <2> QED
    BY <1>27, <1>r, <1>u, <1>n, <2>1, <2>2, <2>3, <2>4, <2>5, <2>6 DEF Crash, Typed, TypeOK
<1>28. CASE UNCHANGED vars
  BY <1>28 DEF vars, Typed, TypeOK, LoopReady
<1> QED
  BY <1>1, <1>2, <1>3, <1>4, <1>5, <1>6, <1>7, <1>8, <1>9, <1>10, <1>11, <1>12, <1>13,
     <1>14, <1>15, <1>16, <1>17, <1>18, <1>19, <1>20, <1>21, <1>22, <1>23, <1>24, <1>25,
     <1>26, <1>27, <1>28
  DEF Next, GenerationStep, ReconnectStep, StopStep

\* In every reachable state each variable has the shape the code gives it.
THEOREM TypeCorrect == Spec => []TypeOK
<1>1. Typed => TypeOK
  BY DEF Typed
<1> QED
  BY <1>1, TypedInit, TypedNext, PTL DEF Spec

-----------------------------------------------------------------------------
(* The registry. *)

\* The registry entry of a send and its loop. While the first delta waits for
\* its save the loop is one chunk ahead; no outcome is decided, and before the
\* start no text received, until the code gets there.
Mirrored(t) ==
    /\ registry[t].live <=> loop[t].pc \in Running
    /\ loop[t].pc \in Running \ {"persistFirst"} /\ loop[t].outcome \in {"none", "completed"}
       => registry[t].content = loop[t].content
    /\ loop[t].pc = "persistFirst" => registry[t].content = 0 /\ loop[t].content = 1
    /\ loop[t].pc \in Admission => loop[t].content = 0
    /\ loop[t].pc \in Admission \cup (Running \ {"save", "publish", "account"})
       => loop[t].outcome = "none"
Mirror == \A t \in Send : Mirrored(t)

\* Every step keeps registry and loop together.
LEMMA MirrorNext == TypeOK /\ Mirror /\ [Next]_vars => Mirror'
<1> SUFFICES ASSUME TypeOK, Mirror, [Next]_vars, NEW t \in Send
             PROVE  Mirrored(t)'
  BY DEF Mirror
<1> DEFINE Reg == [live : BOOLEAN, content : Nat, aborted : BOOLEAN]
<1>l. loop \in [Send -> Loop]
  BY DEF TypeOK
<1>g. registry \in [Send -> Reg]
  BY DEF TypeOK
<1>m. Mirrored(t)
  BY DEF Mirror
<1>c. loop[t].content \in Nat
  BY <1>l, Constants DEF Loop
<1>1. ASSUME NEW s \in Send, AcceptTurn(s)
      PROVE  Mirrored(t)'
  <2>1. PICK u \in Send :
          \/ loop' = [loop EXCEPT ![s].pc = "accepted", ![s].anchor = u]
          \/ loop' = [loop EXCEPT ![s].pc = "accepted"]
    BY <1>1 DEF AcceptTurn, ReplayMatches
  <2> QED
    BY <1>1, <2>1, <1>l, <1>m DEF AcceptTurn, Mirrored, Loop, Admission, Running
<1>2. ASSUME NEW s \in Send, PersistAssistantRow(s)
      PROVE  Mirrored(t)'
  BY <1>2, <1>l, <1>m DEF PersistAssistantRow, Mirrored, Loop, Admission, Running
<1>3. ASSUME NEW s \in Send, StartGeneration(s)
      PROVE  Mirrored(t)'
  BY <1>3, <1>l, <1>g, <1>m DEF StartGeneration, Mirrored, Loop, Admission, Running
<1>6. ASSUME NEW s \in Send, ReceiveDelta(s)
      PROVE  Mirrored(t)'
  BY <1>6, <1>l, <1>g, <1>m, <1>c
  DEF ReceiveDelta, PublishDelta, AfterDelta, Mirrored, Loop, Admission, Running
<1>7. ASSUME NEW s \in Send, PersistFirstDelta(s) \/ PersistProgress(s)
      PROVE  Mirrored(t)'
  BY SMTT(30), <1>7, <1>l, <1>g, <1>m, <1>c
  DEF PersistFirstDelta, PersistProgress, PublishDelta, AfterDelta, Mirrored, Loop,
      Admission, Running
<1>4. ASSUME NEW s \in Send, EndSearch(s)
      PROVE  Mirrored(t)'
  BY <1>4, <1>l, <1>m
  DEF EndSearch, Finalize, OutcomeOfError, Mirrored, Loop, Admission, Running
<1>5. ASSUME NEW s \in Send, DiscardAfterStop(s) \/ PersistThrows(s) \/ EndOfStream(s)
      PROVE  Mirrored(t)'
  BY <1>5, <1>l, <1>m
  DEF DiscardAfterStop, PersistThrows, EndOfStream, Finalize, OutcomeOfError, Mirrored,
      Loop, Admission, Running
<1>8. ASSUME NEW s \in Send, ProviderThrows(s)
      PROVE  Mirrored(t)'
  BY <1>8, <1>l, <1>m DEF ProviderThrows, Finalize, Mirrored, Loop, Admission, Running
<1>9. ASSUME NEW s \in Send, SwitchToFallback(s)
      PROVE  Mirrored(t)'
  BY <1>9, <1>l, <1>m
  DEF SwitchToFallback, Finalize, OutcomeOfError, Mirrored, Loop, Admission, Running
<1>10. ASSUME NEW s \in Send, RecordFallbackModel(s) \/ SaveTerminalRow(s) \/ PublishTerminal(s)
       PROVE  Mirrored(t)'
  BY <1>10, <1>l, <1>m
  DEF RecordFallbackModel, SaveTerminalRow, PublishTerminal, Mirrored, Loop, Admission, Running
<1>11. ASSUME NEW s \in Send, SaveThrows(s)
       PROVE  Mirrored(t)'
  BY <1>11, <1>l, <1>m
  DEF SaveThrows, Finalize, OutcomeOfError, Mirrored, Loop, Admission, Running
<1>12. ASSUME NEW s \in Send, AccountAndUnregister(s)
       PROVE  Mirrored(t)'
  BY <1>12, <1>l, <1>g, <1>m
  DEF AccountAndUnregister, NoGeneration, Mirrored, Loop, Admission, Running
<1>13. ASSUME NEW p \in Stop, StopNextRow(p)
       PROVE  Mirrored(t)'
  <2>1. loop' = loop /\ registry'[t].live = registry[t].live
        /\ registry'[t].content = registry[t].content
    BY <1>13, <1>g DEF StopNextRow
  <2> QED
    BY <2>1, <1>m DEF Mirrored
<1>14. CASE Crash
  <2>1. ~registry'[t].live
    BY <1>14 DEF Crash, NoGeneration
  <2>2. loop'[t].pc = "lost" \/ (loop[t].pc \in {"unsent", "ended"} /\ loop'[t] = loop[t])
    <3> DEFINE r == loop[t]
    <3>1. r \in Loop
      BY <1>l
    <3>2. [r EXCEPT !.pc = "lost"].pc = "lost"
      BY <3>1 DEF Loop
    <3>3. loop'[t] = IF r.pc \in {"unsent", "ended"} THEN r ELSE [r EXCEPT !.pc = "lost"]
      BY <1>14 DEF Crash
    <3> QED
      BY <3>2, <3>3
  <2> QED
    BY <2>1, <2>2, <1>m DEF Mirrored, Admission, Running
<1>15. CASE UNCHANGED <<loop, registry>>
  BY <1>15, <1>m DEF Mirrored
<1>16. ASSUME NEW r \in Reconnect, ReadForReconnect(r) \/ ReconnectStep(r)
       PROVE  Mirrored(t)'
  BY <1>15, <1>16 DEF ReconnectStep, ReadForReconnect, ReplayRow, AttachLive, MarkOrphan
<1>17. ASSUME NEW f \in Feed, Deliver(f) \/ Disconnect(f)
       PROVE  Mirrored(t)'
  BY <1>15, <1>17 DEF Deliver, Disconnect
<1>18. ASSUME NEW p \in Stop, ReadOpenRows(p) \/ StopSettles(p) \/ StopMarksOrphan(p)
       PROVE  Mirrored(t)'
  BY <1>15, <1>18 DEF ReadOpenRows, StopSettles, StopMarksOrphan
<1>19. CASE UNCHANGED vars
  BY <1>15, <1>19 DEF vars
<1>20. ASSUME NEW s \in Send, AcceptTurn(s) \/ GenerationStep(s)
       PROVE  Mirrored(t)'
  BY <1>20, <1>1, <1>2, <1>3, <1>4, <1>5, <1>6, <1>7, <1>8, <1>9, <1>10, <1>11, <1>12
  DEF GenerationStep
<1>21. ASSUME NEW p \in Stop, ReadOpenRows(p) \/ StopStep(p)
       PROVE  Mirrored(t)'
  BY <1>21, <1>13, <1>18 DEF StopStep
<1> QED
  BY <1>14, <1>16, <1>17, <1>19, <1>20, <1>21 DEF Next

LEMMA AlwaysMirror == Spec => []Mirror
<1>1. Init => Mirror
  <2> SUFFICES ASSUME Init, NEW t \in Send
               PROVE  Mirrored(t)
    BY DEF Mirror
  <2>1. /\ loop[t].pc = "unsent" /\ loop[t].content = 0 /\ loop[t].outcome = "none"
        /\ ~registry[t].live
    BY DEF Init
  <2> QED
    BY <2>1 DEF Mirrored, Admission, Running
<1> QED
  BY <1>1, TypeCorrect, MirrorNext, PTL DEF Spec

\* A registry entry lives exactly as long as its loop runs, on every path out of
\* it, and its buffer is what the loop has received and published.
THEOREM RegistryMirrors == Spec => []RegistryMirrorsLoop
<1>1. Mirror => RegistryMirrorsLoop
  BY DEF Mirror, Mirrored, RegistryMirrorsLoop
<1> QED
  BY <1>1, AlwaysMirror, PTL
=============================================================================
