------------------------------ MODULE ChatView ------------------------------
(***************************************************************************)
(* The chat page of one browser tab (ChatView.vue) and its two streams     *)
(* (client.ts): sending, leaving and coming back, a lost connection, Stop, *)
(* retry and page reload, while the server's generations go on.            *)
(*                                                                         *)
(* A page runs one task at a time: an action is what happens between two   *)
(* awaits.  The server is what the page can see of it: a generation        *)
(* produces tokens and settles, and a feed delivers them in order and then *)
(* the terminal event.  ChatTurn models how the server does that.          *)
(***************************************************************************)
EXTENDS Integers, FiniteSets

CONSTANTS
    Conversation,
    Existing,       \* the conversations there are at first
    NoConversation, \* activeId = null: a new chat
    Feed,           \* sends and recoveries that may be under way at a time
    NoFeed,         \* streamHandle = null
    Load,           \* page loads that may be under way at a time
    MaxRow,         \* bound: assistant rows
    MaxText,        \* bound: tokens of an answer
    MaxMove,        \* bound: navigations, page reloads and Stops
    MaxFault        \* bound: lost connections and Stop requests, networks that come back

ASSUME ChatViewAssumption ==
    /\ NoConversation \notin Conversation
    /\ Existing \subseteq Conversation /\ Existing # {}
    /\ NoFeed \notin Feed
    /\ {MaxRow, MaxText, MaxMove, MaxFault} \subseteq Nat

VARIABLES
    active,    \* activeId
    loaded,    \* the conversation that messages and selectedModelId came from
    shown,     \* messages: the assistant rows on the screen
    streaming, \* streaming
    handle,    \* streamHandle, and with it activeStreamRowId
    recovery,  \* networkRecoveryRowId
    loading,   \* messagesLoading
    feed,      \* sends and recoveries under way
    load,      \* loadMessages under way
    stop,      \* the Stop request
    known,     \* the conversations that exist
    row,       \* the server's assistant rows
    moves, faults,
    stray      \* history: a step that was Overtaken has been taken

pageVars == <<active, loaded, shown, streaming, handle, recovery, loading>>
serverVars == <<known, row>>
vars == <<pageVars, feed, load, stop, serverVars, moves, faults, stray>>

Row == 1..MaxRow
NoRow == 0

\* What a row says; a pending and a streaming row are open.
NoView == [status |-> "none", text |-> 0]
NothingShown == [r \in Row |-> NoView]

\* A feed, the row it writes to once it knows it, whether that row object is
\* the one on the screen (on), and the tokens it has delivered (at).
NoStream == [pc |-> "idle", recovers |-> FALSE, row |-> NoRow, conversation |-> NoConversation,
             on |-> FALSE, at |-> 0, seen |-> "none"]
NoLoad == [pc |-> "idle", conversation |-> NoConversation, view |-> NothingShown]
NoStop == [pc |-> "idle", conversation |-> NoConversation, row |-> NoRow]

Init ==
    /\ active \in Existing /\ loaded = active
    /\ known = Existing
    /\ shown = NothingShown
    /\ streaming = FALSE /\ handle = NoFeed /\ recovery = NoRow
    /\ loading = FALSE
    /\ feed = [f \in Feed |-> NoStream]
    /\ load = [l \in Load |-> NoLoad]
    /\ stop = NoStop
    /\ row = [r \in Row |-> [conversation |-> NoConversation, status |-> "none", text |-> 0]]
    /\ moves = 0 /\ faults = 0
    /\ stray = FALSE

Fault == faults < MaxFault /\ faults' = faults + 1
Move == moves < MaxMove /\ moves' = moves + 1

\* Mutant of ViewOf: the whole entity.
Entity(r) == row[r]

ViewOf(r) == [status |-> row[r].status, text |-> row[r].text]

Off(feeds) == [f \in Feed |-> [feeds[f] EXCEPT !.on = FALSE]]
Free(f) == feed[f].pc = "idle"

-----------------------------------------------------------------------------
(* Parts of the page's handlers. *)

\* loadMessages, with feeds and rows as the caller leaves them.
LoadMessages(l, feeds, rows, c) ==
    IF c = NoConversation
    THEN /\ shown' = NothingShown /\ loaded' = c /\ feed' = Off(feeds)
         /\ UNCHANGED <<load, loading>>
    ELSE /\ load[l].pc = "idle"
         /\ load' = [load EXCEPT ![l] = [NoLoad EXCEPT !.pc = "asked", !.conversation = c]]
         /\ loading' = TRUE
         /\ feed' = feeds /\ shown' = rows /\ UNCHANGED loaded

Finish == streaming' = FALSE /\ handle' = NoFeed

\* recoverGeneration for a row on the screen, unless something streams.
Recover(f, r, feeds) ==
    IF streaming \/ active = NoConversation
    THEN feed' = feeds /\ UNCHANGED <<streaming, handle>>
    ELSE /\ Free(f)
         /\ feed' = [feeds EXCEPT ![f] = [NoStream EXCEPT !.pc = "sent", !.recovers = TRUE, !.row = r,
                                              !.conversation = active, !.on = TRUE]]
         /\ streaming' = TRUE /\ handle' = f

\* AbortController.abort: no callback any more, except that a refusal whose
\* body is being read is reported all the same.  The server may accept a turn
\* whose request is adrift.
Aborted(s) ==
    CASE s.pc = "sent" /\ ~s.recovers -> [NoStream EXCEPT !.pc = "adrift", !.conversation = s.conversation]
      [] s.pc = "adrift" -> s
      [] s.pc \in {"refused", "rejected"} /\ ~s.recovers -> [NoStream EXCEPT !.pc = "rejected"]
      [] OTHER -> NoStream

AbortHandle == IF handle = NoFeed THEN feed ELSE [feed EXCEPT ![handle] = Aborted(@)]

\* Mutant of Detach: the stream is left alone.
LeaveStream == feed

\* detachStream of a page that streams; the caller resets what Finish resets.
Detach == IF streaming THEN AbortHandle ELSE feed

-----------------------------------------------------------------------------
(* Sending. *)

\* The rest of send once there is a conversation.
GoOut(f) ==
    /\ feed' = [feed EXCEPT ![f] = [NoStream EXCEPT !.pc = "sent", !.conversation = active, !.on = TRUE]]
    /\ streaming' = TRUE /\ handle' = f /\ recovery' = NoRow

\* In a new chat the conversation is created first, and nothing streams yet.
\* Bound: nothing is sent when no row is left for it.
BeginSend(f) ==
    /\ ~streaming /\ Free(f)
    /\ \E r \in Row : row[r].status = "none"
    /\ IF active = NoConversation
       THEN feed' = [feed EXCEPT ![f].pc = "creating"] /\ UNCHANGED <<streaming, handle, recovery>>
       ELSE GoOut(f)

Send(f) ==
    /\ BeginSend(f)
    /\ UNCHANGED <<active, loaded, shown, loading, load, stop, serverVars, moves, faults, stray>>

\* A failed or interrupted answer is taken off the screen and asked for again.
Retry(f, r) ==
    /\ shown[r].status \in {"failed", "interrupted"}
    /\ BeginSend(f)
    /\ shown' = [shown EXCEPT ![r] = NoView]
    /\ UNCHANGED <<active, loaded, loading, load, stop, serverVars, moves, faults, stray>>

\* createConversation opens what it created, whatever is open by now.
Created(f) ==
    /\ feed[f].pc = "creating"
    /\ \E c \in Conversation \ known : known' = known \cup {c} /\ active' = c /\ loaded' = c
    /\ shown' = NothingShown
    /\ feed' = Off([feed EXCEPT ![f].pc = "created"])
    /\ stray' = (stray \/ streaming)
    /\ UNCHANGED <<streaming, handle, recovery, loading, load, stop, row, moves, faults>>

\* The chosen model is stored in between; streaming is not looked at again.
SendGoesOn(f) ==
    /\ feed[f].pc = "created"
    /\ IF active = NoConversation
       THEN feed' = [feed EXCEPT ![f] = NoStream] /\ UNCHANGED <<streaming, handle, recovery>>
       ELSE GoOut(f)
    /\ stray' = (stray \/ (streaming /\ active # NoConversation))
    /\ UNCHANGED <<active, loaded, shown, loading, load, stop, serverVars, moves, faults>>

CreationFails(f) ==
    /\ feed[f].pc = "creating"
    /\ feed' = [feed EXCEPT ![f] = NoStream]
    /\ UNCHANGED <<pageVars, load, stop, serverVars, moves, faults, stray>>

-----------------------------------------------------------------------------
(* The server, as the page meets it. *)

\* A turn is accepted and its meta event arrives, unless the request was
\* aborted since it left, or its connection lost.
Accept(f) ==
    /\ feed[f].pc \in {"sent", "adrift"} /\ ~feed[f].recovers
    /\ \E r \in Row :
          /\ row[r].status = "none" /\ \A q \in 1..r - 1 : row[q].status # "none"
          /\ row' = [row EXCEPT ![r] = [conversation |-> feed[f].conversation, status |-> "open", text |-> 0]]
          /\ IF feed[f].pc = "adrift"
             THEN feed' = [feed EXCEPT ![f] = NoStream] /\ UNCHANGED shown
             ELSE /\ feed' = [feed EXCEPT ![f] = [@ EXCEPT !.pc = "open", !.row = r]]
                  /\ shown' = IF feed[f].on THEN [shown EXCEPT ![r] = [status |-> "open", text |-> 0]] ELSE shown
    /\ UNCHANGED <<active, loaded, streaming, handle, recovery, loading, load, stop, known, moves, faults, stray>>

\* A turn is not allowed, or the row to recover is not one of the conversation.
Refuse(f) ==
    /\ feed[f].pc \in {"sent", "adrift"}
    /\ feed[f].recovers => row[feed[f].row].conversation # feed[f].conversation
    /\ feed' = [feed EXCEPT ![f] = IF @.pc = "adrift" THEN NoStream ELSE [@ EXCEPT !.pc = "refused"]]
    /\ UNCHANGED <<pageVars, load, stop, serverVars, moves, faults, stray>>

\* The reconnect stream begins with what there is.
Attach(f) ==
    /\ feed[f].pc = "sent" /\ feed[f].recovers
    /\ LET r == feed[f].row IN
       /\ row[r].conversation = feed[f].conversation
       /\ feed' = [feed EXCEPT ![f] = [@ EXCEPT !.pc = "attached", !.at = row[r].text, !.seen = row[r].status]]
    /\ UNCHANGED <<pageVars, load, stop, serverVars, moves, faults, stray>>

Produce(r) ==
    /\ row[r].status = "open" /\ row[r].text < MaxText
    /\ row' = [row EXCEPT ![r].text = @ + 1]
    /\ UNCHANGED <<pageVars, feed, load, stop, known, moves, faults, stray>>

Settle(r) ==
    /\ row[r].status = "open"
    /\ \E s \in {"completed", "failed"} : row' = [row EXCEPT ![r].status = s]
    /\ UNCHANGED <<pageVars, feed, load, stop, known, moves, faults, stray>>

-----------------------------------------------------------------------------
(* What a feed brings. *)

\* A row object that is no longer on the screen changes unseen.
ShowBy(f, view) == IF feed[f].on THEN [shown EXCEPT ![feed[f].row] = view] ELSE shown

\* Mutant of OnSnapshot: it is appended to what is there.
AppendSnapshot(f) ==
    /\ feed[f].pc = "attached"
    /\ shown' = ShowBy(f, [status |-> feed[f].seen, text |-> shown[feed[f].row].text + feed[f].at])
    /\ feed' = [feed EXCEPT ![f].pc = "open", ![f].seen = "none"]
    /\ UNCHANGED <<active, loaded, streaming, handle, recovery, loading, load, stop, serverVars, moves, faults, stray>>

\* The snapshot takes the place of what is there.
OnSnapshot(f) ==
    /\ feed[f].pc = "attached"
    /\ shown' = ShowBy(f, [status |-> feed[f].seen, text |-> feed[f].at])
    /\ feed' = [feed EXCEPT ![f].pc = "open", ![f].seen = "none"]
    /\ UNCHANGED <<active, loaded, streaming, handle, recovery, loading, load, stop, serverVars, moves, faults, stray>>

\* A send writes all it received so far, a recovery appends to what it finds.
OnDelta(f) ==
    /\ feed[f].pc = "open" /\ feed[f].at < row[feed[f].row].text
    /\ shown' = ShowBy(f, [status |-> "open",
                           text |-> IF feed[f].recovers THEN shown[feed[f].row].text + 1 ELSE feed[f].at + 1])
    /\ feed' = [feed EXCEPT ![f].at = @ + 1]
    /\ UNCHANGED <<active, loaded, streaming, handle, recovery, loading, load, stop, serverVars, moves, faults, stray>>

AtEnd(f) ==
    /\ feed[f].pc = "open" /\ feed[f].at = row[feed[f].row].text
    /\ row[feed[f].row].status # "open"

\* done, cancelled, and failed on the reconnect stream: the row as persisted.
OnTerminal(f) ==
    /\ AtEnd(f)
    /\ feed[f].recovers \/ row[feed[f].row].status # "failed"
    /\ shown' = ShowBy(f, ViewOf(feed[f].row))
    /\ feed' = [feed EXCEPT ![f] = NoStream]
    /\ Finish
    /\ UNCHANGED <<active, loaded, recovery, loading, load, stop, serverVars, moves, faults, stray>>

\* onError and onFailed without a row.
Failed(f, l) ==
    LET ended == [feed EXCEPT ![f] = IF @.pc = "sent" THEN Aborted(@) ELSE NoStream]
        s == feed[f] IN
    /\ Finish
    /\ IF s.recovers \/ s.at > 0
       THEN /\ shown' = ShowBy(f, [shown[s.row] EXCEPT !.status = "interrupted"])
            /\ recovery' = s.row
            /\ feed' = ended
            /\ UNCHANGED <<load, loading, loaded>>
       ELSE LoadMessages(l, ended, shown, active) /\ UNCHANGED recovery
    /\ UNCHANGED <<active, stop, serverVars, moves>>

\* A failed event is an error to the sender's feed.
OnFailed(f, l) ==
    /\ AtEnd(f) /\ ~feed[f].recovers /\ row[feed[f].row].status = "failed"
    /\ Failed(f, l)
    /\ UNCHANGED <<faults, stray>>

ReadRefusal(f, l) ==
    /\ feed[f].pc \in {"refused", "rejected"}
    /\ Failed(f, l)
    /\ UNCHANGED faults
    /\ stray' = (stray \/ (feed[f].pc = "rejected" /\ streaming))

\* The connection is lost.
Drop(f, l) ==
    /\ feed[f].pc \in {"sent", "refused", "attached", "open"}
    /\ Fault
    /\ Failed(f, l)
    /\ UNCHANGED stray

-----------------------------------------------------------------------------
(* Opening conversations. *)

\* The server answers with the rows as they are persisted, an open one with
\* some of its tokens.
ReadConversation(l) ==
    /\ load[l].pc = "asked"
    /\ \E text \in [Row -> 0..MaxText] :
          /\ \A r \in Row : IF row[r].status = "open" THEN text[r] <= row[r].text ELSE text[r] = row[r].text
          /\ load' = [load EXCEPT ![l].pc = "read",
                          ![l].view = [r \in Row |-> IF row[r].conversation = load[l].conversation
                                                     THEN [status |-> row[r].status, text |-> text[r]]
                                                     ELSE NoView]]
    /\ UNCHANGED <<pageVars, feed, stop, serverVars, moves, faults, stray>>

\* What was asked for goes to the screen, whatever is open by now; the newest
\* open row is recovered.
LoadArrives(l, f) ==
    /\ load[l].pc = "read"
    /\ shown' = load[l].view /\ loaded' = load[l].conversation
    /\ loading' = FALSE
    /\ load' = [load EXCEPT ![l] = NoLoad]
    /\ LET open == {r \in Row : load[l].view[r].status = "open"} IN
       IF open = {}
       THEN feed' = Off(feed) /\ UNCHANGED <<streaming, handle>>
       ELSE \E r \in open : (\A q \in open : q <= r) /\ Recover(f, r, Off(feed))
    /\ UNCHANGED <<active, recovery, stop, serverVars, moves, faults, stray>>

LoadFails(l) ==
    /\ load[l].pc = "asked"
    /\ load' = [load EXCEPT ![l] = NoLoad]
    /\ loading' = FALSE
    /\ UNCHANGED <<active, loaded, shown, streaming, handle, recovery, feed, stop, serverVars, moves, faults, stray>>

\* The old rows stay until the new ones are there.
SelectConversation(c, l) ==
    /\ c \in known /\ c # active /\ Move
    /\ active' = c
    /\ Finish
    /\ LoadMessages(l, Detach, shown, c)
    /\ UNCHANGED <<recovery, stop, serverVars, faults, stray>>

StartNewConversation ==
    /\ active # NoConversation /\ Move
    /\ active' = NoConversation /\ loaded' = NoConversation
    /\ shown' = NothingShown
    /\ feed' = Off(Detach)
    /\ Finish
    /\ UNCHANGED <<recovery, loading, load, stop, serverVars, faults, stray>>

\* Everything but the open conversation is forgotten.
Refresh(l) ==
    /\ active # NoConversation /\ Move
    /\ shown' = NothingShown /\ loaded' = active
    /\ Finish
    /\ recovery' = NoRow
    /\ feed' = [f \in Feed |-> IF feed[f].pc \in {"sent", "adrift"} THEN Aborted(feed[f]) ELSE NoStream]
    /\ load' = [k \in Load |-> IF k = l THEN [NoLoad EXCEPT !.pc = "asked", !.conversation = active] ELSE NoLoad]
    /\ loading' = TRUE
    /\ stop' = CASE stop.pc = "sent" -> [stop EXCEPT !.pc = "unheard"]
                 [] stop.pc = "answered" -> [NoStop EXCEPT !.pc = "over"]
                 [] OTHER -> stop
    /\ UNCHANGED <<active, serverVars, faults, stray>>

-----------------------------------------------------------------------------
(* Connectivity. *)

\* The network goes and comes back: the watcher re-attaches the row whose
\* feed was lost, unless the page is busy.  Nothing else asks whether the
\* browser is online, and whether connections are lost is another matter.
ComeOnline(f) ==
    /\ Fault
    /\ ~streaming /\ ~loading /\ recovery # NoRow
    /\ recovery' = NoRow
    /\ IF shown[recovery].status \in {"interrupted", "open"}
       THEN Recover(f, recovery, feed)
       ELSE UNCHANGED <<feed, streaming, handle>>
    /\ UNCHANGED <<active, loaded, shown, loading, load, stop, serverVars, moves, stray>>

-----------------------------------------------------------------------------
(* Stop. *)

\* The row is found by the id the feed began with: that of a recovery, or the
\* placeholder's until meta.
StopStreaming ==
    /\ active # NoConversation /\ handle # NoFeed /\ stop.pc = "idle" /\ Move
    /\ feed' = AbortHandle
    /\ Finish
    /\ LET r == feed[handle].row IN
       shown' = IF feed[handle].recovers /\ shown[r] # NoView
                THEN [shown EXCEPT ![r].status = "interrupted"] ELSE shown
    /\ stop' = [NoStop EXCEPT !.pc = "sent", !.conversation = active]
    /\ UNCHANGED <<active, loaded, recovery, loading, load, serverVars, faults, stray>>

\* The open rows of the conversation settle, as interrupted unless they end by
\* themselves while the Stop waits for them; the answer is the newest of them.
StopReaches ==
    /\ stop.pc \in {"sent", "unheard"}
    /\ LET open == {r \in Row : row[r].status = "open" /\ row[r].conversation = stop.conversation} IN
       /\ \E ends \in [open -> {"interrupted", "completed", "failed"}] :
             row' = [r \in Row |-> IF r \in open THEN [row[r] EXCEPT !.status = ends[r]] ELSE row[r]]
       /\ stop' = IF stop.pc = "unheard" THEN [NoStop EXCEPT !.pc = "over"]
                   ELSE [NoStop EXCEPT !.pc = "answered",
                             !.row = IF open = {} THEN NoRow ELSE CHOOSE r \in open : \A q \in open : q <= r]
    /\ UNCHANGED <<pageVars, feed, load, known, moves, faults, stray>>

StopAnswered ==
    /\ stop.pc = "answered"
    /\ shown' = IF stop.row # NoRow /\ shown[stop.row] # NoView
                THEN [shown EXCEPT ![stop.row] = ViewOf(stop.row)] ELSE shown
    /\ stop' = [NoStop EXCEPT !.pc = "over", !.row = stop.row]
    /\ UNCHANGED <<active, loaded, streaming, handle, recovery, loading, feed, load, serverVars, moves, faults, stray>>

StopLost ==
    /\ stop.pc \in {"sent", "unheard", "answered"} /\ Fault
    /\ stop' = [NoStop EXCEPT !.pc = "over"]
    /\ UNCHANGED <<pageVars, feed, load, serverVars, moves, stray>>

-----------------------------------------------------------------------------
Next ==
    \/ \E f \in Feed :
          \/ Send(f) \/ Created(f) \/ SendGoesOn(f) \/ CreationFails(f)
          \/ Accept(f) \/ Refuse(f) \/ Attach(f)
          \/ OnSnapshot(f) \/ OnDelta(f) \/ OnTerminal(f)
          \/ ComeOnline(f)
          \/ \E r \in Row : Retry(f, r)
          \/ \E l \in Load : OnFailed(f, l) \/ ReadRefusal(f, l) \/ Drop(f, l) \/ LoadArrives(l, f)
    \/ \E r \in Row : Produce(r) \/ Settle(r)
    \/ \E l \in Load :
          \/ ReadConversation(l) \/ LoadFails(l) \/ Refresh(l)
          \/ \E c \in Conversation : SelectConversation(c, l)
    \/ StartNewConversation
    \/ StopStreaming \/ StopReaches \/ StopAnswered \/ StopLost

Spec == Init /\ [][Next]_vars

-----------------------------------------------------------------------------
Status == {"none", "open", "completed", "failed", "interrupted"}
View == [status : Status, text : 0..MaxText]
Anywhere == Conversation \cup {NoConversation}

TypeOK ==
    /\ active \in Anywhere /\ loaded \in Anywhere /\ known \subseteq Conversation
    /\ shown \in [Row -> [status : Status, text : Nat]]
    /\ streaming \in BOOLEAN /\ loading \in BOOLEAN
    /\ handle \in Feed \cup {NoFeed} /\ recovery \in Row \cup {NoRow}
    /\ feed \in [Feed -> [pc : {"idle", "creating", "created", "sent", "adrift", "refused", "rejected",
                                "attached", "open"},
                          recovers : BOOLEAN, row : Row \cup {NoRow}, conversation : Anywhere,
                          on : BOOLEAN, at : 0..MaxText, seen : Status]]
    /\ load \in [Load -> [pc : {"idle", "asked", "read"}, conversation : Anywhere, view : [Row -> View]]]
    /\ stop \in [pc : {"idle", "sent", "unheard", "answered", "over"}, conversation : Anywhere, row : Row \cup {NoRow}]
    /\ row \in [Row -> [conversation : Anywhere, status : Status, text : 0..MaxText]]
    /\ moves \in 0..MaxMove /\ faults \in 0..MaxFault /\ stray \in BOOLEAN

\* docs/CONVERSATION_RESILIENCE.md:33-34 "The frontend NEVER invents a
\* message": whatever snapshots, deltas, loads and local interruptions come in
\* whatever order, the screen shows of a row no token twice and none the server
\* has not produced, and a completed answer is whole.  The answer of a Stop is
\* left out: it may overtake deltas of a recovery, which then append to it.
\* Nothing is said once a step was Overtaken: two feeds may then write a row.
ShowsServersText ==
    stray \/ \A r \in Row \ {stop.row} :
        /\ shown[r].text <= row[r].text
        /\ shown[r].status = "completed" => shown[r] = ViewOf(r)

Live(f) == feed[f].pc \in {"sent", "refused", "attached", "open"}

\* The page says it is streaming exactly while the feed it can abort is alive,
\* no other feed is, and that one is of the open conversation.
OneLive ==
    \A f \in Feed : /\ Live(f) <=> streaming /\ f = handle
                    /\ Live(f) => feed[f].conversation = active

\* A send resumes while the page streams: the send of a new chat once its
\* conversation is created or its model is stored, beside another send or
\* beside the recovery of a conversation selected meanwhile (ChatView.vue:
\* 341-343 opens what was created, :860-919 goes on unasked), or one that was
\* aborted when its refusal is read at last (client.ts:515).
Overtaken ==
    /\ streaming
    /\ \E f \in Feed : \/ feed[f].pc = "creating" /\ feed'[f].pc = "created"
                       \/ feed[f].pc = "created" /\ feed'[f].pc = "sent"
                       \/ feed[f].pc = "rejected" /\ feed'[f].pc = "idle"

\* ChatView.vue:1143 "Detach this tab from the live transport", :850 and :1040:
\* no send, recovery, load, switch, reload, Stop, loss or return of the network
\* takes a page out of OneLive, but for the step of a send that is Overtaken:
\* its stream or its end then takes the place of the one that can be aborted.
KeepsOneLive == [][OneLive /\ ~OneLive' => Overtaken]_vars

\* ChatView.vue:281 "keeps conversations isolated: switching from a
\* conversation with Model B into one without a selection shows the default,
\* never the previous conversation's choice": messages and model that come to
\* the screen are those of the open conversation.
LoadsWhatIsOpen == [][loaded' # loaded => loaded' = active']_vars
=============================================================================
