------------------------------ MODULE ChatTurn ------------------------------
(***************************************************************************)
(* The chat turns of one conversation in one server process: the detached  *)
(* generation loops (MessagesService.runGeneration), the in-memory         *)
(* GenerationRegistry they publish to, the SSE feeds of the sender and of  *)
(* reconnecting clients, the Stop endpoint, the assistant and usage rows   *)
(* they all write, and the death and restart of the process.               *)
(*                                                                         *)
(* Node runs one callback at a time, so what happens between two awaits is *)
(* one action; every await of a database write, of the provider or of the  *)
(* subscriber queue is a point where the other actors may step in.         *)
(*                                                                         *)
(* Data: the answer is a row of numbered chunks, so a text is the number   *)
(* of chunks it holds, and a delta event carries the number of its chunk.  *)
(* A send persists at most one user row and one assistant row; the rows    *)
(* are named <<s, "user">> and <<s, "assistant">>.                         *)
(***************************************************************************)
EXTENDS Integers, Sequences

CONSTANTS
    Send,        \* POST .../messages requests
    Reconnect,   \* GET .../messages/:id/stream requests
    Stop,        \* POST .../messages/stop requests
    Turn,        \* idempotency tokens (clientMessageId)
    TurnOf,      \* the token of each send
    Model,       \* the ai_models rows
    ModelOf,     \* the model each send asks for
    Fallback,    \* ai_models.fallbackModelId, NoModel when null
    NoModel,
    WebSearch,   \* the sends that opted in to web search
    MaxChunk,    \* bound: chunks the provider yields in one answer
    MaxFault,    \* bound: failed database writes
    MaxCrash     \* bound: process restarts

ASSUME SendsAssumption ==
    /\ TurnOf \in [Send -> Turn]
    /\ ModelOf \in [Send -> Model]
    /\ Send \cap Reconnect = {}
    /\ WebSearch \subseteq Send
    /\ Send # {}
ASSUME ModelsAssumption ==
    /\ Fallback \in [Model -> Model \cup {NoModel}]
    /\ NoModel \notin Model
ASSUME BoundsAssumption ==
    /\ MaxChunk \in Nat
    /\ MaxFault \in Nat
    /\ MaxCrash \in Nat

VARIABLES
    row,        \* messages: the assistant row of each send
    clock,      \* the database clock that stamps created_at
    usage,      \* usage_records, by message_id
    loop,       \* the generation loop of each send
    registry,   \* GenerationRegistry.generations
    feed,       \* the SSE feed of each sender and of each reconnect
    stop,       \* the Stop requests
    faults,     \* failed database writes so far
    crashes     \* restarts so far

vars == <<row, clock, usage, loop, registry, feed, stop, faults, crashes>>

Feed == Send \cup Reconnect
MessageId == Send \X {"user", "assistant"}
UserRow(s) == <<s, "user">>
AssistantRow(s) == <<s, "assistant">>

Open == {"pending", "streaming"}
Settled == {"completed", "interrupted", "failed"}
Row == [status : Open \cup Settled \cup {"absent"}, content : 0..MaxChunk,
        model : Model, created : Nat]

Outcome == Settled \cup {"none"}
Usage == [outcome : Settled \cup {"pending", "none"}, model : Model]

\* Where a send stands: not sent, user row accepted, assistant row committed,
\* then the awaits of runGeneration in the order of the code.
Admission == {"unsent", "accepted", "persisted"}
Running == {"search", "provider", "persistFirst", "persist", "fallback",
            "fallbackUsage", "save", "publish", "account"}
LoopState == Admission \cup Running \cup {"ended", "lost"}
Loop == [pc : LoopState, content : 0..MaxChunk, model : Model,
         tried : SUBSET Model, anchor : Send, outcome : Outcome]

Terminal == {"done", "failed", "cancelled"}
Event == [type : {"delta"} \cup Terminal, chunk : Nat]
FeedState == {"idle", "read", "mark", "live", "closed", "left", "lost"}
FeedRecord == [pc : FeedState, of : Send, seen : Row, queue : Seq(Event),
               copy : Seq(Nat), end : Terminal \cup {"none"}]

StopState == {"idle", "next", "wait", "mark", "lost"}
StopRecord == [pc : StopState, todo : SUBSET [id : Send, seen : Row],
               answer : Outcome]

\* The text made of the first n chunks of an answer.
Chunks(n) == [i \in 1..n |-> i]

BlankRow(s) == [status |-> "absent", content |-> 0, model |-> ModelOf[s],
                created |-> 0]

Init ==
    /\ row = [s \in Send |-> BlankRow(s)]
    /\ clock = 0
    /\ usage = [m \in MessageId |-> [outcome |-> "none", model |-> ModelOf[m[1]]]]
    /\ loop = [s \in Send |-> [pc |-> "unsent", content |-> 0, model |-> ModelOf[s],
                               tried |-> {ModelOf[s]}, anchor |-> s,
                               outcome |-> "none"]]
    /\ registry = [s \in Send |-> [live |-> FALSE, content |-> 0, aborted |-> FALSE]]
    /\ feed = [f \in Feed |->
                 LET target == IF f \in Send THEN f ELSE CHOOSE s \in Send : TRUE
                 IN  [pc |-> "idle", of |-> target, seen |-> BlankRow(target),
                      queue |-> <<>>, copy |-> <<>>, end |-> "none"]]
    /\ stop = [p \in Stop |-> [pc |-> "idle", todo |-> {}, answer |-> "none"]]
    /\ faults = 0
    /\ crashes = 0

\* A database write that throws.
Fault == faults < MaxFault /\ faults' = faults + 1

-----------------------------------------------------------------------------
(* GenerationRegistry. *)

NoGeneration == [live |-> FALSE, content |-> 0, aborted |-> FALSE]

Subscribers(s) == {f \in Feed : feed[f].pc = "live" /\ feed[f].of = s}

\* Mutant of Publish: the terminal event of a Stop is not fanned out.
PublishNoCancelled(s, event) ==
    feed' = [f \in Feed |->
               IF registry[s].live /\ f \in Subscribers(s) /\ event.type # "cancelled"
               THEN [feed[f] EXCEPT !.queue = Append(@, event)]
               ELSE feed[f]]

\* Fan an event out to the subscribers; without a registered generation the
\* publish functions return at once.
Publish(s, event) ==
    feed' = [f \in Feed |->
               IF registry[s].live /\ f \in Subscribers(s)
               THEN [feed[f] EXCEPT !.queue = Append(@, event)]
               ELSE feed[f]]

\* The snapshot buffer grows with the delta that is fanned out.
PublishDelta(s, chunk) ==
    /\ registry' = IF registry[s].live
                   THEN [registry EXCEPT ![s].content = @ + 1]
                   ELSE registry
    /\ Publish(s, [type |-> "delta", chunk |-> chunk])

-----------------------------------------------------------------------------
(* UsageService. *)

\* Mutant of RecordedOutcome: only a completed turn is accounted for.
RecordedIfCompleted(id, outcome) ==
    [usage EXCEPT ![id].outcome =
       IF @ = "none" \/ outcome # "completed" THEN @ ELSE outcome]

\* Terminal update of the usage row anchored at a message; without such a row
\* the service logs and records nothing.
RecordedOutcome(id, outcome) ==
    [usage EXCEPT ![id].outcome = IF @ = "none" THEN @ ELSE outcome]

-----------------------------------------------------------------------------
(* beginChatTurn, from the HTTP request to the detached loop. *)

UserRowExists(s) == usage[UserRow(s)].outcome # "none"
ReplayMatches(s) == {u \in Send : UserRowExists(u) /\ TurnOf[u] = TurnOf[s]}

\* Reuse the user row of a replay, or insert user row and usage row in one
\* transaction. TurnAdmission looks inside this step.
AcceptTurn(s) ==
    /\ loop[s].pc = "unsent"
    /\ \/ /\ ReplayMatches(s) = {}
          /\ usage' = [usage EXCEPT ![UserRow(s)] =
                         [outcome |-> "pending", model |-> ModelOf[s]]]
          /\ loop' = [loop EXCEPT ![s].pc = "accepted"]
       \/ \E u \in ReplayMatches(s) :
             /\ loop' = [loop EXCEPT ![s].pc = "accepted", ![s].anchor = u]
             /\ UNCHANGED usage
    /\ UNCHANGED <<row, clock, registry, feed, stop, faults, crashes>>

\* The assistant row commits as pending; if the insert throws, the request ends.
PersistAssistantRow(s) ==
    /\ loop[s].pc = "accepted"
    /\ \/ /\ clock' = clock + 1
          /\ row' = [row EXCEPT ![s].status = "pending", ![s].created = clock + 1]
          /\ loop' = [loop EXCEPT ![s].pc = "persisted"]
          /\ UNCHANGED faults
       \/ /\ Fault
          /\ loop' = [loop EXCEPT ![s].pc = "lost"]
          /\ UNCHANGED <<row, clock>>
    /\ UNCHANGED <<usage, registry, feed, stop, crashes>>

\* The continuation of that insert: register, subscribe the sender's feed and
\* start the loop, all without an await in between.
StartGeneration(s) ==
    /\ loop[s].pc = "persisted"
    /\ loop' = [loop EXCEPT ![s].pc = IF s \in WebSearch THEN "search" ELSE "provider"]
    /\ registry' = [registry EXCEPT ![s] =
                      [live |-> TRUE, content |-> 0, aborted |-> FALSE]]
    /\ feed' = [feed EXCEPT ![s].pc = "live"]
    /\ UNCHANGED <<row, clock, usage, stop, faults, crashes>>

-----------------------------------------------------------------------------
(* runGeneration. *)

Aborted(s) == registry[s].aborted

\* Which catch branch an error takes.
OutcomeOfError(s) == IF Aborted(s) THEN "interrupted" ELSE "failed"

\* Leave the loop for the terminal save of the given outcome.
Finalize(s, outcome) ==
    loop' = [loop EXCEPT ![s].pc = "save", ![s].outcome = outcome]

\* The web search ends and its sources are stored; it degrades, never fails,
\* but the update of the row may throw.
EndSearch(s) ==
    /\ loop[s].pc = "search"
    /\ \/ /\ ~Aborted(s)
          /\ loop' = [loop EXCEPT ![s].pc = "provider"]
          /\ UNCHANGED faults
       \/ /\ Aborted(s)
          /\ Finalize(s, "interrupted")
          /\ UNCHANGED faults
       \/ /\ Fault
          /\ Finalize(s, OutcomeOfError(s))
    /\ UNCHANGED <<row, clock, usage, registry, feed, stop, crashes>>

\* Mutant of DiscardAfterStop: the terminal save is skipped.
DiscardWithoutSave(s) ==
    /\ loop[s].pc = "provider"
    /\ Aborted(s)
    /\ loop' = [loop EXCEPT ![s].pc = "publish", ![s].outcome = "interrupted"]
    /\ UNCHANGED <<row, clock, usage, registry, feed, stop, faults, crashes>>

\* A token, the end of the stream or an error surfaces after the user stopped.
DiscardAfterStop(s) ==
    /\ loop[s].pc = "provider"
    /\ Aborted(s)
    /\ Finalize(s, "interrupted")
    /\ UNCHANGED <<row, clock, usage, registry, feed, stop, faults, crashes>>

\* After a delta the throttle decides whether the progress is written.
AfterDelta == {"provider", "persist"}

\* A text event: the first one is persisted before it is published.
ReceiveDelta(s) ==
    /\ loop[s].pc = "provider"
    /\ ~Aborted(s)
    /\ loop[s].content < MaxChunk
    /\ \/ /\ loop[s].content = 0
          /\ loop' = [loop EXCEPT ![s].content = 1, ![s].pc = "persistFirst"]
          /\ UNCHANGED <<registry, feed>>
       \/ /\ loop[s].content > 0
          /\ \E next \in AfterDelta :
                loop' = [loop EXCEPT ![s].content = @ + 1, ![s].pc = next]
          /\ PublishDelta(s, loop[s].content + 1)
    /\ UNCHANGED <<row, clock, usage, stop, faults, crashes>>

\* persistProgress writes content and status of the entity, whatever the row
\* says by then.
Progress(s) == [row EXCEPT ![s].status = "streaming", ![s].content = loop[s].content]

PersistFirstDelta(s) ==
    /\ loop[s].pc = "persistFirst"
    /\ row' = Progress(s)
    /\ PublishDelta(s, loop[s].content)
    /\ \E next \in AfterDelta : loop' = [loop EXCEPT ![s].pc = next]
    /\ UNCHANGED <<clock, usage, stop, faults, crashes>>

PersistProgress(s) ==
    /\ loop[s].pc = "persist"
    /\ row' = Progress(s)
    /\ loop' = [loop EXCEPT ![s].pc = "provider"]
    /\ UNCHANGED <<clock, usage, registry, feed, stop, faults, crashes>>

\* A database error is no ProviderError: no fallback, the turn fails.
PersistThrows(s) ==
    /\ loop[s].pc \in {"persistFirst", "persist"}
    /\ Fault
    /\ Finalize(s, OutcomeOfError(s))
    /\ UNCHANGED <<row, clock, usage, registry, feed, stop, crashes>>

\* Mutant of EndOfStream: the status is not set before the save.
EndWithoutStatus(s) ==
    /\ loop[s].pc = "provider"
    /\ ~Aborted(s)
    /\ loop' = [loop EXCEPT ![s].pc = "save"]
    /\ UNCHANGED <<row, clock, usage, registry, feed, stop, faults, crashes>>

EndOfStream(s) ==
    /\ loop[s].pc = "provider"
    /\ ~Aborted(s)
    /\ Finalize(s, "completed")
    /\ UNCHANGED <<row, clock, usage, registry, feed, stop, faults, crashes>>

\* Mutant of MayFallBack: attempted models are forgotten.
MayFallBackAgain(s) ==
    /\ loop[s].content = 0
    /\ Fallback[loop[s].model] # NoModel

MayFallBack(s) ==
    /\ loop[s].content = 0
    /\ Fallback[loop[s].model] # NoModel
    /\ Fallback[loop[s].model] \notin loop[s].tried

\* Mutant of ProviderThrows: the catch block does not look at the signal.
ThrowsAfterStop(s) ==
    /\ loop[s].pc = "provider"
    /\ \/ MayFallBack(s) /\ loop' = [loop EXCEPT ![s].pc = "fallback"]
       \/ Finalize(s, "failed")
    /\ UNCHANGED <<row, clock, usage, registry, feed, stop, faults, crashes>>

\* The provider throws: a retryable kind before the first delta asks for the
\* fallback model, everything else ends the turn.
ProviderThrows(s) ==
    /\ loop[s].pc = "provider"
    /\ ~Aborted(s)
    /\ \/ MayFallBack(s) /\ loop' = [loop EXCEPT ![s].pc = "fallback"]
       \/ Finalize(s, "failed")
    /\ UNCHANGED <<row, clock, usage, registry, feed, stop, faults, crashes>>

\* resolveFallbackCandidate answers: the switch is persisted on the row, or
\* the original error stands (the candidate is refused, the update throws).
SwitchToFallback(s) ==
    LET fallback == Fallback[loop[s].model]
    IN  /\ loop[s].pc = "fallback"
        /\ \/ /\ row' = [row EXCEPT ![s].model = fallback]
              /\ loop' = [loop EXCEPT ![s].model = fallback,
                                      ![s].tried = @ \cup {fallback},
                                      ![s].pc = "fallbackUsage"]
              /\ UNCHANGED faults
           \/ /\ Finalize(s, OutcomeOfError(s))
              /\ UNCHANGED <<row, faults>>
           \/ /\ Fault
              /\ loop' = [loop EXCEPT ![s].model = fallback,
                                      ![s].tried = @ \cup {fallback},
                                      ![s].pc = "save",
                                      ![s].outcome = OutcomeOfError(s)]
              /\ UNCHANGED row
        /\ UNCHANGED <<clock, usage, registry, feed, stop, crashes>>

\* Mutant of RecordFallbackModel: the usage row of the assistant message.
RecordFallbackAtAssistant(s) ==
    /\ loop[s].pc = "fallbackUsage"
    /\ usage' = [usage EXCEPT ![AssistantRow(s)].model = loop[s].model]
    /\ loop' = [loop EXCEPT ![s].pc = "provider"]
    /\ UNCHANGED <<row, clock, registry, feed, stop, faults, crashes>>

\* recordFallbackModel swallows its own errors.
RecordFallbackModel(s) ==
    /\ loop[s].pc = "fallbackUsage"
    /\ \/ /\ usage' = [usage EXCEPT ![UserRow(loop[s].anchor)].model = loop[s].model]
          /\ UNCHANGED faults
       \/ Fault /\ UNCHANGED usage
    /\ loop' = [loop EXCEPT ![s].pc = "provider"]
    /\ UNCHANGED <<row, clock, registry, feed, stop, crashes>>

\* Mutant of SaveTerminalRow: only the status is written.
SaveStatusOnly(s) ==
    /\ loop[s].pc = "save"
    /\ row' = [row EXCEPT ![s].status = loop[s].outcome]
    /\ loop' = [loop EXCEPT ![s].pc = "publish"]
    /\ UNCHANGED <<clock, usage, registry, feed, stop, faults, crashes>>

\* The terminal save: the whole entity is written.
SaveTerminalRow(s) ==
    /\ loop[s].pc = "save"
    /\ row' = [row EXCEPT ![s].status = loop[s].outcome,
                          ![s].content = loop[s].content,
                          ![s].model = loop[s].model]
    /\ loop' = [loop EXCEPT ![s].pc = "publish"]
    /\ UNCHANGED <<clock, usage, registry, feed, stop, faults, crashes>>

\* A failed save of a completed answer re-enters the catch; in the catch the
\* error is logged and the terminal event goes out all the same.
SaveThrows(s) ==
    /\ loop[s].pc = "save"
    /\ Fault
    /\ IF loop[s].outcome = "completed"
       THEN Finalize(s, OutcomeOfError(s))
       ELSE loop' = [loop EXCEPT ![s].pc = "publish"]
    /\ UNCHANGED <<row, clock, usage, registry, feed, stop, crashes>>

\* Mutant of TerminalEvent: a failure is announced as done.
FailureLooksDone(s) ==
    [type |-> IF loop[s].outcome = "interrupted" THEN "cancelled" ELSE "done",
     chunk |-> loop[s].content]

TerminalEvent(s) ==
    [type |-> IF loop[s].outcome = "completed" THEN "done"
              ELSE IF loop[s].outcome = "failed" THEN "failed" ELSE "cancelled",
     chunk |-> loop[s].content]

\* publishDone / publishFailed / publishCancelled and the completion promise.
PublishTerminal(s) ==
    /\ loop[s].pc = "publish"
    /\ Publish(s, TerminalEvent(s))
    /\ loop' = [loop EXCEPT ![s].pc = "account"]
    /\ UNCHANGED <<row, clock, usage, registry, stop, faults, crashes>>

\* Mutant of AccountAndUnregister: unregister is not in a finally block.
UnregisterIfAccounted(s) ==
    /\ loop[s].pc = "account"
    /\ \/ /\ usage' = RecordedOutcome(UserRow(loop[s].anchor), loop[s].outcome)
          /\ registry' = [registry EXCEPT ![s] = NoGeneration]
          /\ UNCHANGED faults
       \/ Fault /\ UNCHANGED <<usage, registry>>
    /\ loop' = [loop EXCEPT ![s].pc = "ended"]
    /\ UNCHANGED <<row, clock, feed, stop, crashes>>

\* recordTurnEnd (best effort), then the finally block unregisters.
AccountAndUnregister(s) ==
    /\ loop[s].pc = "account"
    /\ \/ /\ usage' = RecordedOutcome(UserRow(loop[s].anchor), loop[s].outcome)
          /\ UNCHANGED faults
       \/ Fault /\ UNCHANGED usage
    /\ registry' = [registry EXCEPT ![s] = NoGeneration]
    /\ loop' = [loop EXCEPT ![s].pc = "ended"]
    /\ UNCHANGED <<row, clock, feed, stop, crashes>>

-----------------------------------------------------------------------------
(* reconnectGeneration and the two event feeds. *)

\* The reconnect reads the conversation; what it read may be stale by the time
\* it goes on.
ReadForReconnect(r) ==
    /\ feed[r].pc = "idle"
    /\ \E s \in Send :
          /\ row[s].status # "absent"
          /\ feed' = [feed EXCEPT ![r].pc = "read", ![r].of = s, ![r].seen = row[s]]
    /\ UNCHANGED <<row, clock, usage, loop, registry, stop, faults, crashes>>

\* No live generation: an open row goes to the orphan marking, a settled row
\* is replayed as it was read.
ReplayRow(r) ==
    LET seen == feed[r].seen
    IN  /\ feed[r].pc = "read"
        /\ ~registry[feed[r].of].live
        /\ feed' = IF seen.status \in Open
                   THEN [feed EXCEPT ![r].pc = "mark"]
                   ELSE [feed EXCEPT ![r].pc = "closed",
                                     ![r].copy = Chunks(seen.content),
                                     ![r].end = IF seen.status = "completed"
                                                THEN "done" ELSE "failed"]
        /\ UNCHANGED <<row, clock, usage, loop, registry, stop, faults, crashes>>

\* Mutant of AttachLive: the snapshot is the row as it was read.
AttachToStaleRow(r) ==
    LET s == feed[r].of
    IN  /\ feed[r].pc = "read"
        /\ registry[s].live
        /\ feed' = [feed EXCEPT ![r].pc = "live", ![r].copy = Chunks(feed[r].seen.content)]
        /\ UNCHANGED <<row, clock, usage, loop, registry, stop, faults, crashes>>

\* Live generation: subscribe, then snapshot, in one callback.
AttachLive(r) ==
    LET s == feed[r].of
    IN  /\ feed[r].pc = "read"
        /\ registry[s].live
        /\ feed' = [feed EXCEPT ![r].pc = "live",
                                ![r].copy = Chunks(registry[s].content)]
        /\ UNCHANGED <<row, clock, usage, loop, registry, stop, faults, crashes>>

\* markOrphanedInterrupted saves the entity it was given, then asks the usage
\* service to close the row anchored at that entity.
MarkedInterrupted(s, seen) ==
    [row EXCEPT ![s] = [seen EXCEPT !.status = "interrupted"]]

\* The orphan marking of a reconnect; if the save throws, the controller
\* writes a bare failed event.
MarkOrphan(r) ==
    LET s == feed[r].of
    IN  /\ feed[r].pc = "mark"
        /\ \/ /\ row' = MarkedInterrupted(s, feed[r].seen)
              /\ usage' = RecordedOutcome(AssistantRow(s), "interrupted")
              /\ feed' = [feed EXCEPT ![r].pc = "closed", ![r].end = "failed",
                                      ![r].copy = Chunks(feed[r].seen.content)]
              /\ UNCHANGED faults
           \/ /\ Fault
              /\ feed' = [feed EXCEPT ![r].pc = "closed", ![r].end = "failed"]
              /\ UNCHANGED <<row, usage>>
        /\ UNCHANGED <<clock, loop, registry, stop, crashes>>

\* Mutant of Deliver: the queue is popped from the wrong end.
DeliverNewest(f) ==
    /\ feed[f].pc = "live"
    /\ feed[f].queue # <<>>
    /\ LET last == Len(feed[f].queue)
           event == feed[f].queue[last]
       IN  feed' = IF event.type = "delta"
                   THEN [feed EXCEPT ![f].queue = SubSeq(@, 1, last - 1),
                                     ![f].copy = Append(@, event.chunk)]
                   ELSE [feed EXCEPT ![f].queue = SubSeq(@, 1, last - 1),
                                     ![f].pc = "closed", ![f].end = event.type]
    /\ UNCHANGED <<row, clock, usage, loop, registry, stop, faults, crashes>>

\* The pump takes the next event: a delta is appended, a terminal event ends
\* the feed and unsubscribes.
Deliver(f) ==
    /\ feed[f].pc = "live"
    /\ feed[f].queue # <<>>
    /\ LET event == Head(feed[f].queue)
       IN  feed' = IF event.type = "delta"
                   THEN [feed EXCEPT ![f].queue = Tail(@),
                                     ![f].copy = Append(@, event.chunk)]
                   ELSE [feed EXCEPT ![f].queue = Tail(@), ![f].pc = "closed",
                                     ![f].end = event.type]
    /\ UNCHANGED <<row, clock, usage, loop, registry, stop, faults, crashes>>

\* The client leaves: only its subscription goes.
Disconnect(f) ==
    /\ feed[f].pc = "live"
    /\ feed' = [feed EXCEPT ![f].pc = "left", ![f].queue = <<>>]
    /\ UNCHANGED <<row, clock, usage, loop, registry, stop, faults, crashes>>

-----------------------------------------------------------------------------
(* stopConversationGeneration. *)

ReadOpenRows(p) ==
    /\ stop[p].pc = "idle"
    /\ stop' = [stop EXCEPT ![p].pc = "next",
                            ![p].todo = {[id |-> s, seen |-> row[s]] :
                                           s \in {u \in Send : row[u].status \in Open}}]
    /\ UNCHANGED <<row, clock, usage, loop, registry, feed, faults, crashes>>

\* ORDER BY createdAt DESC.
IsNewest(p, item) ==
    /\ item \in stop[p].todo
    /\ \A other \in stop[p].todo : other.seen.created <= item.seen.created

\* The next open row: abort its live generation and await its completion, or
\* mark it as an orphan.
StopNextRow(p) ==
    /\ stop[p].pc = "next"
    /\ \E item \in stop[p].todo :
          /\ IsNewest(p, item)
          /\ IF registry[item.id].live
             THEN /\ registry' = [registry EXCEPT ![item.id].aborted = TRUE]
                  /\ stop' = [stop EXCEPT ![p].pc = "wait"]
             ELSE /\ stop' = [stop EXCEPT ![p].pc = "mark"]
                  /\ UNCHANGED registry
    /\ UNCHANGED <<row, clock, usage, loop, feed, faults, crashes>>

\* The first row of the response wins.
AnswerWith(p, status) == IF stop[p].answer = "none" THEN status ELSE stop[p].answer

\* Mutant of Completed: the promise resolves before the terminal save.
ResolvedBeforeSave(s) == loop[s].pc \in {"save", "publish", "account", "ended"}

Completed(s) == loop[s].pc \in {"account", "ended"}

\* Mutant of StopSettles: no time limit, and only an answer resolves the promise.
StopAwaitsAnswer(p) ==
    /\ stop[p].pc = "wait"
    /\ \E item \in stop[p].todo :
          /\ IsNewest(p, item)
          /\ Completed(item.id)
          /\ loop[item.id].outcome = "completed"
          /\ stop' = [stop EXCEPT ![p].pc = "next", ![p].todo = @ \ {item},
                                  ![p].answer = AnswerWith(p, "completed")]
    /\ UNCHANGED <<row, clock, usage, loop, registry, feed, faults, crashes>>

\* The completion promise resolves with the final row, or the wait times out
\* and the response has no row.
StopSettles(p) ==
    /\ stop[p].pc = "wait"
    /\ \E item \in stop[p].todo :
          /\ IsNewest(p, item)
          /\ \E answer \in {"none"} \cup
                           (IF Completed(item.id) THEN {loop[item.id].outcome} ELSE {}) :
                stop' = [stop EXCEPT ![p].pc = "next", ![p].todo = @ \ {item},
                                     ![p].answer = AnswerWith(p, answer)]
    /\ UNCHANGED <<row, clock, usage, loop, registry, feed, faults, crashes>>

\* The orphan marking of a Stop; a save that throws ends the request.
StopMarksOrphan(p) ==
    /\ stop[p].pc = "mark"
    /\ \E item \in stop[p].todo :
          /\ IsNewest(p, item)
          /\ \/ /\ row' = MarkedInterrupted(item.id, item.seen)
                /\ usage' = RecordedOutcome(AssistantRow(item.id), "interrupted")
                /\ stop' = [stop EXCEPT ![p].pc = "next", ![p].todo = @ \ {item},
                                        ![p].answer = AnswerWith(p, "interrupted")]
                /\ UNCHANGED faults
             \/ /\ Fault
                /\ stop' = [stop EXCEPT ![p].pc = "lost", ![p].todo = {}]
                /\ UNCHANGED <<row, usage>>
    /\ UNCHANGED <<clock, loop, registry, feed, crashes>>

Answered(p) == stop[p].pc = "next" /\ stop[p].todo = {}

-----------------------------------------------------------------------------
(* The process dies and a new one starts: the registry, the loops and every  *)
(* open request die with it, the rows stay.                                  *)

Crash ==
    /\ crashes < MaxCrash
    /\ crashes' = crashes + 1
    /\ loop' = [s \in Send |->
                  IF loop[s].pc \in {"unsent", "ended"} THEN loop[s]
                  ELSE [loop[s] EXCEPT !.pc = "lost"]]
    /\ registry' = [s \in Send |-> NoGeneration]
    /\ feed' = [f \in Feed |->
                  IF feed[f].pc \in {"read", "mark", "live"}
                  THEN [feed[f] EXCEPT !.pc = "lost", !.queue = <<>>]
                  ELSE feed[f]]
    /\ stop' = [p \in Stop |->
                  IF stop[p].pc = "idle" \/ Answered(p) THEN stop[p]
                  ELSE [stop[p] EXCEPT !.pc = "lost", !.todo = {}]]
    /\ UNCHANGED <<row, clock, usage, faults>>

-----------------------------------------------------------------------------
(* The request handler and the loop of one send, past its start. *)
GenerationStep(s) ==
    \/ PersistAssistantRow(s)
    \/ StartGeneration(s)
    \/ EndSearch(s)
    \/ DiscardAfterStop(s)
    \/ ReceiveDelta(s)
    \/ PersistFirstDelta(s)
    \/ PersistProgress(s)
    \/ PersistThrows(s)
    \/ EndOfStream(s)
    \/ ProviderThrows(s)
    \/ SwitchToFallback(s)
    \/ RecordFallbackModel(s)
    \/ SaveTerminalRow(s)
    \/ SaveThrows(s)
    \/ PublishTerminal(s)
    \/ AccountAndUnregister(s)

ReconnectStep(r) == ReplayRow(r) \/ AttachLive(r) \/ MarkOrphan(r)

StopStep(p) == StopNextRow(p) \/ StopSettles(p) \/ StopMarksOrphan(p)

Next ==
    \/ \E s \in Send : AcceptTurn(s) \/ GenerationStep(s)
    \/ \E r \in Reconnect : ReadForReconnect(r) \/ ReconnectStep(r)
    \/ \E f \in Feed : Deliver(f) \/ Disconnect(f)
    \/ \E p \in Stop : ReadOpenRows(p) \/ StopStep(p)
    \/ Crash

\* Clients act when they like. What the server has begun it goes on with: the
\* event loop runs every ready continuation, the database answers or throws,
\* adapters time the provider out, and a connected client keeps reading.
Fairness ==
    /\ \A s \in Send : WF_vars(GenerationStep(s))
    /\ \A r \in Reconnect : WF_vars(ReconnectStep(r))
    /\ \A f \in Feed : WF_vars(Deliver(f))
    /\ \A p \in Stop : WF_vars(StopStep(p))

Spec == Init /\ [][Next]_vars
FairSpec == Spec /\ Fairness

-----------------------------------------------------------------------------
(* Correctness. *)

\* Every variable holds a value of the shape the code gives it.
TypeOK ==
    /\ row \in [Send -> Row]
    /\ clock \in Nat
    /\ usage \in [MessageId -> Usage]
    /\ loop \in [Send -> Loop]
    /\ registry \in [Send -> [live : BOOLEAN, content : Nat, aborted : BOOLEAN]]
    /\ feed \in [Feed -> FeedRecord]
    /\ stop \in [Stop -> StopRecord]
    /\ faults \in 0..MaxFault
    /\ crashes \in 0..MaxCrash

\* Snapshot and deltas concatenate to the exact answer (Invariant 10 of the
\* service): what a client has is always a beginning of the answer, the events
\* waiting for it continue that text chunk by chunk, and at most one of them
\* is terminal, the last.
ExactDelivery ==
    \A f \in Feed :
        LET queue == feed[f].queue
            shown == Len(feed[f].copy)
        IN  /\ feed[f].copy = Chunks(shown)
            /\ \A i \in 1..Len(queue) :
                  /\ queue[i].type = "delta" => queue[i].chunk = shown + i
                  /\ queue[i].type # "delta" => i = Len(queue)

\* A live feed has, on the screen or on its way, everything published so far:
\* no token falls between the snapshot and the subscription.
NothingLost ==
    \A f \in Feed :
        LET s == feed[f].of
            queue == feed[f].queue
            waiting == IF queue # <<>> /\ queue[Len(queue)].type # "delta"
                       THEN Len(queue) - 1 ELSE Len(queue)
        IN  feed[f].pc = "live" /\ registry[s].live
            => Len(feed[f].copy) + waiting = registry[s].content

\* Whoever was told done, live or by replay of the row, has the whole answer.
DoneIsWhole ==
    \A f \in Feed :
        feed[f].end = "done" =>
            /\ feed[f].copy = Chunks(loop[feed[f].of].content)
            /\ loop[feed[f].of].outcome = "completed"

\* The registry entry lives exactly as long as the loop runs, on every path
\* out of it, and holds what the loop has published.
RegistryMirrorsLoop ==
    \A s \in Send :
        /\ registry[s].live <=> loop[s].pc \in Running
        /\ loop[s].pc \in Running \ {"persistFirst"} /\ loop[s].outcome \in {"none", "completed"}
           => registry[s].content = loop[s].content

\* A row that says completed is the whole answer of a loop that ended so, and
\* names the model that gave it, also after a fallback.
CompletedRowIsWhole ==
    \A s \in Send :
        row[s].status = "completed" =>
            /\ loop[s].outcome = "completed"
            /\ row[s].content = loop[s].content
            /\ row[s].model = loop[s].model

\* Unless the database failed, only a row whose request or loop is at work, or
\* died with the process, is pending or streaming.
NoStrandedRow ==
    faults = 0 =>
        \A s \in Send :
            row[s].status \in Open => loop[s].pc \in Running \cup {"persisted", "lost"}

\* Unless a write was lost, the usage row of a turn all of whose loops are
\* over carries the outcome of one of them.
UsageClosed ==
    faults = 0 /\ crashes = 0 =>
        \A u \in Send :
            LET loops == {s \in Send : loop[s].pc # "unsent" /\ loop[s].anchor = u}
            IN  /\ UserRowExists(u)
                /\ \A s \in loops : loop[s].pc = "ended"
                => \E s \in loops : usage[UserRow(u)].outcome = loop[s].outcome

\* Tokens and cost go to the model that answers, also after a fallback: while a
\* generation receives its answer or saves it, the usage row of its turn names
\* its model (saves that threw and turns sent again aside).
UsageNamesAnsweringModel ==
    faults = 0 =>
        \A s \in Send :
            /\ loop[s].pc \in {"persistFirst", "persist", "save"}
            /\ \A u \in Send \ {s} : loop[u].anchor # loop[s].anchor
            => usage[UserRow(loop[s].anchor)].model = loop[s].model

\* messages.service.ts:667-669 "a stopped turn stays stopped, on the model that
\* was actually answering": a generation aborted before its outcome was decided
\* is interrupted, never completed and never failed, takes in no token it
\* receives later, asks no provider after a search and looks for no fallback.
\* Only a fallback lookup that was under way when the Stop came goes on to its
\* end (:688-713): it may still rename row and usage row to the other model and
\* enter the provider loop once more, where the aborted signal ends the turn.
StopWins ==
    [][\A s \in Send :
          Aborted(s) /\ loop[s].outcome = "none" =>
              /\ loop'[s].outcome \in {"none", "interrupted"}
              /\ loop'[s].content = loop[s].content
              /\ loop[s].pc = "search" => loop'[s].pc # "provider"
              /\ loop'[s].pc = "fallback" => loop[s].pc = "fallback"
              /\ loop'[s].model # loop[s].model => loop[s].pc = "fallback"]_vars

\* A Stop that heard of the completion reports no row before the database has
\* a settled one (saves that threw aside).
StopReportsSettledRow ==
    [][\A p \in Stop :
          faults = 0 /\ stop[p].pc = "wait" /\ stop'[p].answer # stop[p].answer =>
              \A item \in stop[p].todo \ stop'[p].todo :
                  row[item.id].status \in Settled]_vars

\* Every generation comes to its end, whatever provider, database and users do.
GenerationSettles ==
    \A s \in Send : loop[s].pc = "accepted" ~> loop[s].pc \in {"ended", "lost"}

\* The sender's own feed always ends: with its terminal event, or because the
\* client or the process went away.
SenderFeedEnds ==
    \A s \in Send : feed[s].pc = "live" ~> feed[s].pc \in {"closed", "left", "lost"}

\* Every Stop is answered.
StopAnswers ==
    \A p \in Stop : stop[p].pc # "idle" ~> Answered(p) \/ stop[p].pc = "lost"

\* What the readers see is what AnswerStream promises.
Promise == INSTANCE AnswerStream WITH
    Answer <- Send,
    Reader <- Feed,
    produced <- [s \in Send |-> loop[s].content],
    reading <- [f \in Feed |-> feed[f].of],
    attached <- [f \in Feed |-> feed[f].pc = "live"],
    text <- [f \in Feed |-> feed[f].copy],
    told <- [f \in Feed |-> feed[f].end]
KeepsPromise == Promise!ASpec

-----------------------------------------------------------------------------
(* A sentence of the code that the code does not keep. *)

\* Stop touches no completed, failed or interrupted row.
StopNeverTouchesSettled ==
    [][\A s \in Send :
          row[s].status \in Settled /\ (\E p \in Stop : stop'[p] # stop[p])
          => row'[s] = row[s]]_vars
=============================================================================
