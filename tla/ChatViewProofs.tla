--------------------------- MODULE ChatViewProofs ---------------------------
(***************************************************************************)
(* Theorems about ChatView, for every set of conversations, feeds and       *)
(* loads and for every bound.                                               *)
(***************************************************************************)
EXTENDS ChatView, WellFoundedInduction, TLAPS

-----------------------------------------------------------------------------
(* Types. A feed that delivers, or recovers, knows its row.                 *)

Text == 0..MaxText
StreamState == {"idle", "creating", "created", "sent", "adrift", "refused", "rejected",
                "attached", "open"}
Stream == [pc : StreamState, recovers : BOOLEAN, row : Row \cup {NoRow}, conversation : Anywhere,
           on : BOOLEAN, at : Text, seen : Status]
Aimed == {s \in Stream : s.recovers \/ s.pc \in {"attached", "open"} => s.row \in Row}
Shown == [status : Status, text : Nat]
LoadRecord == [pc : {"idle", "asked", "read"}, conversation : Anywhere, view : [Row -> View]]
StopRecord == [pc : {"idle", "sent", "unheard", "answered", "over"}, conversation : Anywhere,
               row : Row \cup {NoRow}]
RowRecord == [conversation : Anywhere, status : Status, text : Text]

PageTyped ==
    /\ active \in Anywhere /\ loaded \in Anywhere
    /\ shown \in [Row -> Shown]
    /\ streaming \in BOOLEAN /\ loading \in BOOLEAN
    /\ handle \in Feed \cup {NoFeed} /\ recovery \in Row \cup {NoRow}
FeedTyped == feed \in [Feed -> Aimed]
LoadTyped == load \in [Load -> LoadRecord]
StopTyped == stop \in StopRecord
ServerTyped == known \subseteq Conversation /\ row \in [Row -> RowRecord]
CountTyped == moves \in 0..MaxMove /\ faults \in 0..MaxFault /\ stray \in BOOLEAN
Typed == PageTyped /\ FeedTyped /\ LoadTyped /\ StopTyped /\ ServerTyped /\ CountTyped

\* The bounds are numbers.
LEMMA Bounds == MaxRow \in Nat /\ MaxText \in Nat /\ MaxMove \in Nat /\ MaxFault \in Nat
BY ChatViewAssumption

LEMMA TypedIsTypeOK == Typed => TypeOK
BY DEF Typed, TypeOK, PageTyped, FeedTyped, LoadTyped, StopTyped, ServerTyped, CountTyped,
       Aimed, Stream, StreamState, Shown, LoadRecord, StopRecord, RowRecord, Text

\* The sets that names belong to.
LEMMA Names ==
    /\ \A x \in {"none", "open", "completed", "failed", "interrupted"} : x \in Status
    /\ \A x \in {"idle", "creating", "created", "sent", "adrift", "refused", "rejected",
                 "attached", "open"} : x \in StreamState
    /\ NoConversation \in Anywhere /\ Conversation \subseteq Anywhere
    /\ 0 \in Text /\ Text \subseteq Nat
BY Bounds DEF Status, StreamState, Anywhere, Text

\* What is on the screen, and what a load brings.
LEMMA ViewTypes ==
    /\ NoView \in View /\ View \subseteq Shown
    /\ \A x \in Status, n \in Nat : [status |-> x, text |-> n] \in Shown
    /\ \A x \in Status, n \in Text : [status |-> x, text |-> n] \in View
    /\ \A v \in Shown, x \in Status : [v EXCEPT !.status = x] \in Shown
    /\ NothingShown \in [Row -> View] /\ NothingShown \in [Row -> Shown]
<1>1. View = [status : Status, text : Text]
  BY DEF View, Text
<1>2. NoView \in View /\ View \subseteq Shown
  BY <1>1, Names DEF NoView, Shown
<1>3. \A v \in Shown, x \in Status : [v EXCEPT !.status = x] \in Shown
  BY DEF Shown
<1>4. NothingShown \in [Row -> View] /\ NothingShown \in [Row -> Shown]
  BY <1>2 DEF NothingShown
<1> QED
  BY <1>1, <1>2, <1>3, <1>4 DEF Shown

-----------------------------------------------------------------------------
(* What the handlers make of a feed. *)

LiveState == {"sent", "refused", "attached", "open"}

\* A feed that is not there.
LEMMA NoStreamFacts ==
    /\ NoStream \in Aimed /\ NoStream.pc = "idle" /\ NoStream.pc \notin LiveState
    /\ NoStream.on = FALSE /\ NoStream.at = 0
BY Names DEF NoStream, Aimed, Stream, LiveState

\* A send, and a recovery of a row.
Outgoing(c) == [NoStream EXCEPT !.pc = "sent", !.conversation = c, !.on = TRUE]
Recovery(c, r) == [NoStream EXCEPT !.pc = "sent", !.recovers = TRUE, !.row = r,
                                   !.conversation = c, !.on = TRUE]
LEMMA OutgoingFacts ==
    ASSUME NEW c \in Anywhere
    PROVE  /\ Outgoing(c) \in Aimed /\ Outgoing(c).pc = "sent" /\ Outgoing(c).conversation = c
           /\ ~Outgoing(c).recovers /\ Outgoing(c).at = 0 /\ Outgoing(c).on
BY Names DEF Outgoing, NoStream, Aimed, Stream

LEMMA RecoveryFacts ==
    ASSUME NEW c \in Anywhere, NEW r \in Row
    PROVE  /\ Recovery(c, r) \in Aimed /\ Recovery(c, r).pc = "sent"
           /\ Recovery(c, r).conversation = c /\ Recovery(c, r).recovers
           /\ Recovery(c, r).row = r /\ Recovery(c, r).at = 0
BY Names DEF Recovery, NoStream, Aimed, Stream

\* Feeds that agree but for the state and the fields named.
Alike(s, t, fields) ==
    /\ "pc" \in fields => t.pc = s.pc
    /\ "recovers" \in fields => t.recovers = s.recovers
    /\ "row" \in fields => t.row = s.row
    /\ "conversation" \in fields => t.conversation = s.conversation
    /\ "on" \in fields => t.on = s.on
    /\ "at" \in fields => t.at = s.at
    /\ "seen" \in fields => t.seen = s.seen

\* A row object leaves the screen.
LEMMA OffFacts ==
    ASSUME NEW feeds \in [Feed -> Aimed]
    PROVE  /\ Off(feeds) \in [Feed -> Aimed]
           /\ \A f \in Feed : /\ Off(feeds)[f].on = FALSE
                              /\ Alike(feeds[f], Off(feeds)[f],
                                       {"pc", "recovers", "row", "conversation", "at", "seen"})
<1>1. ASSUME NEW s \in Aimed
      PROVE  /\ [s EXCEPT !.on = FALSE] \in Aimed /\ [s EXCEPT !.on = FALSE].on = FALSE
             /\ Alike(s, [s EXCEPT !.on = FALSE],
                      {"pc", "recovers", "row", "conversation", "at", "seen"})
  BY DEF Aimed, Stream, Alike
<1> QED
  BY <1>1 DEF Off

\* A feed goes to another state of its own.
LEMMA StateFacts ==
    ASSUME NEW s \in Aimed, NEW x \in {"creating", "created", "refused", "rejected"}
    PROVE  /\ [s EXCEPT !.pc = x] \in Aimed /\ [s EXCEPT !.pc = x].pc = x
           /\ Alike(s, [s EXCEPT !.pc = x], {"recovers", "row", "conversation", "on", "at", "seen"})
BY Names DEF Aimed, Stream, Alike

\* Whatever is aborted delivers no more.
LEMMA AbortedFacts ==
    ASSUME NEW s \in Aimed
    PROVE  /\ Aborted(s) \in Aimed /\ Aborted(s).pc \in {"idle", "adrift", "rejected"}
           /\ Aborted(s).pc = "idle" => Aborted(s) = NoStream
<1>1. CASE s.pc = "sent" /\ ~s.recovers
  BY <1>1, Names DEF Aborted, NoStream, Aimed, Stream
<1>2. CASE s.pc = "adrift"
  BY <1>2 DEF Aborted
<1>3. CASE s.pc \in {"refused", "rejected"} /\ ~s.recovers
  <2>1. Aborted(s) = [NoStream EXCEPT !.pc = "rejected"]
    BY <1>3 DEF Aborted
  <2> QED
    BY <1>3, <2>1, Names DEF NoStream, Aimed, Stream
<1>4. CASE /\ ~(s.pc = "sent" /\ ~s.recovers) /\ s.pc # "adrift"
           /\ ~(s.pc \in {"refused", "rejected"} /\ ~s.recovers)
  <2>1. Aborted(s) = NoStream
    BY <1>4 DEF Aborted
  <2> QED
    BY <2>1, NoStreamFacts
<1> QED
  BY <1>1, <1>2, <1>3, <1>4

\* A send learns its row.
LEMMA AcceptedFacts ==
    ASSUME NEW s \in Aimed, NEW r \in Row
    PROVE  LET t == [s EXCEPT !.pc = "open", !.row = r]
           IN  /\ t \in Aimed /\ t.pc = "open" /\ t.row = r
               /\ Alike(s, t, {"recovers", "conversation", "on", "at", "seen"})
BY Names DEF Aimed, Stream, Alike

\* A recovery attaches.
Attaching(s, n, x) == [s EXCEPT !.pc = "attached", !.at = n, !.seen = x]
LEMMA AttachedFacts ==
    ASSUME NEW s \in Aimed, s.recovers, NEW n \in Text, NEW x \in Status
    PROVE  /\ Attaching(s, n, x) \in Aimed /\ Attaching(s, n, x).pc = "attached"
           /\ Attaching(s, n, x).at = n /\ Attaching(s, n, x).seen = x
           /\ Alike(s, Attaching(s, n, x), {"recovers", "conversation", "on", "row"})
BY Names DEF Attaching, Aimed, Stream, Alike

\* The snapshot, and a token.
LEMMA SnapshotFacts ==
    ASSUME NEW s \in Aimed, s.pc = "attached"
    PROVE  LET t == [s EXCEPT !.pc = "open", !.seen = "none"]
           IN  /\ t \in Aimed /\ t.pc = "open"
               /\ Alike(s, t, {"recovers", "conversation", "on", "row", "at"})
BY Names DEF Aimed, Stream, Alike

LEMMA TokenFacts ==
    ASSUME NEW s \in Aimed, NEW n \in Text
    PROVE  LET t == [s EXCEPT !.at = n]
           IN  /\ t \in Aimed /\ t.at = n
               /\ Alike(s, t, {"pc", "recovers", "conversation", "on", "row", "seen"})
BY DEF Aimed, Stream, Alike

-----------------------------------------------------------------------------
(* Type correctness. *)

\* One feed changes.
LEMMA FeedChanges ==
    ASSUME NEW feeds \in [Feed -> Aimed], NEW f \in Feed, NEW t \in Aimed
    PROVE  [feeds EXCEPT ![f] = t] \in [Feed -> Aimed]
OBVIOUS

LEMMA AbortTyped ==
    ASSUME Typed
    PROVE  AbortHandle \in [Feed -> Aimed] /\ Detach \in [Feed -> Aimed]
<1>1. feed \in [Feed -> Aimed] /\ handle \in Feed \cup {NoFeed}
  BY DEF Typed, FeedTyped, PageTyped
<1>2. handle \in Feed => AbortHandle = [feed EXCEPT ![handle] = Aborted(feed[handle])]
  BY ChatViewAssumption DEF AbortHandle
<1>3. handle \in Feed => Aborted(feed[handle]) \in Aimed
  BY <1>1, AbortedFacts
<1>4. AbortHandle \in [Feed -> Aimed]
  BY <1>1, <1>2, <1>3, FeedChanges DEF AbortHandle
<1> QED
  BY <1>1, <1>4 DEF Detach

LEMMA LoadMessagesTyped ==
    ASSUME Typed, NEW l \in Load, NEW feeds \in [Feed -> Aimed], NEW rows \in [Row -> Shown],
           NEW c \in Anywhere, LoadMessages(l, feeds, rows, c)
    PROVE  /\ FeedTyped' /\ LoadTyped'
           /\ shown' \in [Row -> Shown] /\ loaded' \in Anywhere /\ loading' \in BOOLEAN
<1>1. load \in [Load -> LoadRecord] /\ loaded \in Anywhere /\ loading \in BOOLEAN
  BY DEF Typed, LoadTyped, PageTyped
<1>2. CASE c = NoConversation
  BY <1>1, <1>2, OffFacts, ViewTypes DEF LoadMessages, FeedTyped, LoadTyped
<1>3. CASE c # NoConversation
  <2>1. [NoLoad EXCEPT !.pc = "asked", !.conversation = c] \in LoadRecord
    BY ViewTypes DEF NoLoad, LoadRecord
  <2>2. feed' = feeds /\ shown' = rows /\ loading' = TRUE /\ UNCHANGED loaded
        /\ load' = [load EXCEPT ![l] = [NoLoad EXCEPT !.pc = "asked", !.conversation = c]]
    BY <1>3 DEF LoadMessages
  <2> QED
    BY <1>1, <2>1, <2>2 DEF FeedTyped, LoadTyped
<1> QED
  BY <1>2, <1>3

LEMMA RecoverTyped ==
    ASSUME Typed, NEW f \in Feed, NEW r \in Row, NEW feeds \in [Feed -> Aimed],
           Recover(f, r, feeds)
    PROVE  FeedTyped' /\ streaming' \in BOOLEAN /\ handle' \in Feed \cup {NoFeed}
<1>1. streaming \in BOOLEAN /\ handle \in Feed \cup {NoFeed} /\ active \in Anywhere
  BY DEF Typed, PageTyped
<1>2. Recovery(active, r) \in Aimed
  BY <1>1, RecoveryFacts
<1>3. \/ feed' = feeds /\ UNCHANGED <<streaming, handle>>
      \/ feed' = [feeds EXCEPT ![f] = Recovery(active, r)] /\ streaming' = TRUE /\ handle' = f
  BY DEF Recover, Recovery
<1> QED
  BY <1>1, <1>2, <1>3, FeedChanges DEF FeedTyped

LEMMA BeginSendTyped ==
    ASSUME Typed, NEW f \in Feed, GoOut(f) \/ BeginSend(f)
    PROVE  /\ FeedTyped' /\ streaming' \in BOOLEAN /\ handle' \in Feed \cup {NoFeed}
           /\ recovery' \in Row \cup {NoRow}
<1>1. /\ streaming \in BOOLEAN /\ handle \in Feed \cup {NoFeed} /\ active \in Anywhere
      /\ recovery \in Row \cup {NoRow} /\ feed \in [Feed -> Aimed]
  BY DEF Typed, PageTyped, FeedTyped
<1>2. Outgoing(active) \in Aimed /\ [feed[f] EXCEPT !.pc = "creating"] \in Aimed
  BY <1>1, OutgoingFacts, StateFacts
<1>3. \/ /\ feed' = [feed EXCEPT ![f] = [feed[f] EXCEPT !.pc = "creating"]]
         /\ UNCHANGED <<streaming, handle, recovery>>
      \/ /\ feed' = [feed EXCEPT ![f] = Outgoing(active)]
         /\ streaming' = TRUE /\ handle' = f /\ recovery' = NoRow
  <2>1. GoOut(f) => /\ feed' = [feed EXCEPT ![f] = Outgoing(active)]
                    /\ streaming' = TRUE /\ handle' = f /\ recovery' = NoRow
    BY DEF GoOut, Outgoing
  <2>2. BeginSend(f) /\ ~GoOut(f) =>
            /\ feed' = [feed EXCEPT ![f] = [feed[f] EXCEPT !.pc = "creating"]]
            /\ UNCHANGED <<streaming, handle, recovery>>
    BY <1>1 DEF BeginSend
  <2> QED
    BY <2>1, <2>2
<1> QED
  BY <1>1, <1>2, <1>3, FeedChanges DEF FeedTyped

LEMMA FailedTyped ==
    ASSUME Typed, NEW f \in Feed, NEW l \in Load, Failed(f, l)
    PROVE  PageTyped' /\ FeedTyped' /\ LoadTyped'
<1>1. /\ active \in Anywhere /\ loaded \in Anywhere /\ loading \in BOOLEAN
      /\ shown \in [Row -> Shown] /\ recovery \in Row \cup {NoRow}
      /\ feed \in [Feed -> Aimed] /\ LoadTyped
  BY DEF Typed, PageTyped, FeedTyped
<1> DEFINE s == feed[f]
           ended == [feed EXCEPT ![f] = IF @.pc = "sent" THEN Aborted(@) ELSE NoStream]
<1>2. ended \in [Feed -> Aimed]
  BY <1>1, AbortedFacts, NoStreamFacts
<1>3. s \in Aimed /\ s.row \in Row \cup {NoRow}
  BY <1>1 DEF Aimed, Stream
<1>4. streaming' = FALSE /\ handle' = NoFeed /\ active' = active
  BY DEF Failed, Finish
<1>5. CASE s.recovers \/ s.at > 0
  <2>1. /\ shown' = ShowBy(f, [shown[s.row] EXCEPT !.status = "interrupted"])
        /\ recovery' = s.row /\ feed' = ended /\ UNCHANGED <<load, loading, loaded>>
    BY <1>5 DEF Failed
  <2>2. shown' \in [Row -> Shown]
    <3>1. CASE s.row \in Row
      <4>1. [shown[s.row] EXCEPT !.status = "interrupted"] \in Shown
        BY <1>1, <3>1, ViewTypes, Names
      <4> QED
        BY <1>1, <2>1, <4>1 DEF ShowBy
    <3>2. CASE s.row \notin Row
      BY <1>1, <2>1, <3>2 DEF ShowBy
    <3> QED
      BY <3>1, <3>2
  <2> QED
    BY <1>1, <1>2, <1>3, <1>4, <2>1, <2>2 DEF PageTyped, FeedTyped, LoadTyped
<1>6. CASE ~(s.recovers \/ s.at > 0)
  <2>1. LoadMessages(l, ended, shown, active) /\ UNCHANGED recovery
    BY <1>6 DEF Failed
  <2>2. /\ FeedTyped' /\ LoadTyped'
        /\ shown' \in [Row -> Shown] /\ loaded' \in Anywhere /\ loading' \in BOOLEAN
    <3> HIDE DEF ended
    <3> QED
      BY <1>1, <1>2, <2>1, LoadMessagesTyped
  <2> QED
    BY <1>1, <1>4, <2>1, <2>2 DEF PageTyped
<1> QED
  BY <1>5, <1>6

LEMMA TypedInit == Init => Typed
<1> SUFFICES ASSUME Init PROVE Typed
  OBVIOUS
<1>1. active \in Anywhere /\ Existing \subseteq Conversation
  BY ChatViewAssumption DEF Init, Anywhere
<1>2. PageTyped
  BY <1>1, ViewTypes DEF Init, PageTyped
<1>3. FeedTyped
  BY NoStreamFacts DEF Init, FeedTyped
<1>4. NoLoad \in LoadRecord /\ NoStop \in StopRecord
  BY ViewTypes, Names DEF NoLoad, NoStop, LoadRecord, StopRecord
<1>5. [conversation |-> NoConversation, status |-> "none", text |-> 0] \in RowRecord
  BY Names DEF RowRecord
<1>6. ServerTyped
  BY <1>1, <1>5 DEF Init, ServerTyped
<1>7. CountTyped
  <2>1. moves = 0 /\ faults = 0 /\ stray \in BOOLEAN
    BY DEF Init
  <2> QED
    BY <2>1, Bounds DEF CountTyped
<1> QED
  BY <1>2, <1>3, <1>4, <1>6, <1>7 DEF Init, Typed, LoadTyped, StopTyped

\* Counters.
LEMMA Counts ==
    ASSUME Typed
    PROVE  /\ Move => moves' \in 0..MaxMove
           /\ Fault => faults' \in 0..MaxFault
BY Bounds DEF Typed, CountTyped, Move, Fault

LEMMA TypedSend ==
    ASSUME Typed, NEW f \in Feed,
           \/ Send(f) \/ Created(f) \/ SendGoesOn(f) \/ CreationFails(f)
           \/ \E r \in Row : Retry(f, r)
    PROVE  Typed'
<1> USE DEF Typed
<1>f. feed \in [Feed -> Aimed]
  BY DEF FeedTyped
<1>n. [feed EXCEPT ![f] = NoStream] \in [Feed -> Aimed]
  BY <1>f, NoStreamFacts, FeedChanges
<1>1. CASE Send(f)
  <2>1. FeedTyped' /\ PageTyped'
    BY <1>1, BeginSendTyped DEF Send, PageTyped
  <2> QED
    BY <1>1, <2>1 DEF Send, serverVars, LoadTyped, StopTyped, ServerTyped, CountTyped
<1>2. ASSUME NEW r \in Row, Retry(f, r)
      PROVE  Typed'
  <2>1. shown' \in [Row -> Shown]
    BY <1>2, ViewTypes DEF Retry, PageTyped
  <2>2. FeedTyped' /\ PageTyped'
    BY <1>2, <2>1, BeginSendTyped DEF Retry, PageTyped
  <2> QED
    BY <1>2, <2>2 DEF Retry, serverVars, LoadTyped, StopTyped, ServerTyped, CountTyped
<1>3. CASE Created(f)
  <2>1. PICK c \in Conversation : known' = known \cup {c} /\ active' = c /\ loaded' = c
    BY <1>3 DEF Created
  <2>2. FeedTyped'
    <3>1. [feed[f] EXCEPT !.pc = "created"] \in Aimed
      BY <1>f, StateFacts
    <3>2. [feed EXCEPT ![f] = [feed[f] EXCEPT !.pc = "created"]] \in [Feed -> Aimed]
      BY <1>f, <3>1, FeedChanges
    <3>3. feed' = Off([feed EXCEPT ![f] = [feed[f] EXCEPT !.pc = "created"]])
      BY <1>f, <1>3 DEF Created
    <3> QED
      BY <3>2, <3>3, OffFacts DEF FeedTyped
  <2>3. PageTyped'
    BY <1>3, <2>1, ViewTypes, Names DEF Created, PageTyped
  <2>4. CountTyped'
    BY <1>3 DEF Created, CountTyped, PageTyped
  <2> QED
    BY <1>3, <2>1, <2>2, <2>3, <2>4 DEF Created, LoadTyped, StopTyped, ServerTyped
<1>4. CASE SendGoesOn(f)
  <2>1. FeedTyped' /\ PageTyped'
    <3>1. CASE active = NoConversation
      BY <1>4, <1>n, <3>1 DEF SendGoesOn, FeedTyped, PageTyped
    <3>2. CASE active # NoConversation
      BY <1>4, <3>2, BeginSendTyped DEF SendGoesOn, PageTyped
    <3> QED
      BY <3>1, <3>2
  <2>2. CountTyped'
    BY <1>4 DEF SendGoesOn, CountTyped, PageTyped
  <2> QED
    BY <1>4, <2>1, <2>2 DEF SendGoesOn, serverVars, LoadTyped, StopTyped, ServerTyped
<1>5. CASE CreationFails(f)
  BY <1>5, <1>n
  DEF CreationFails, FeedTyped, pageVars, serverVars, PageTyped, LoadTyped, StopTyped,
      ServerTyped, CountTyped
<1> QED
  BY <1>1, <1>2, <1>3, <1>4, <1>5

LEMMA TypedServer ==
    ASSUME Typed,
           \/ \E f \in Feed : Accept(f) \/ Refuse(f) \/ Attach(f)
           \/ \E r \in Row : Produce(r) \/ Settle(r)
    PROVE  Typed'
<1> USE DEF Typed
<1>f. feed \in [Feed -> Aimed] /\ row \in [Row -> RowRecord] /\ shown \in [Row -> Shown]
  BY DEF FeedTyped, ServerTyped, PageTyped
<1>s. ASSUME NEW f \in Feed
      PROVE  /\ feed[f] \in Aimed /\ feed[f].conversation \in Anywhere
             /\ feed[f].recovers => feed[f].row \in Row
  <2>1. feed[f] \in Aimed
    BY <1>f
  <2> QED
    BY <2>1 DEF Aimed, Stream
<1>1. ASSUME NEW f \in Feed, Accept(f)
      PROVE  Typed'
  <2>1. PICK r \in Row :
          /\ row' = [row EXCEPT ![r] = [conversation |-> feed[f].conversation, status |-> "open", text |-> 0]]
          /\ IF feed[f].pc = "adrift"
             THEN feed' = [feed EXCEPT ![f] = NoStream] /\ UNCHANGED shown
             ELSE /\ feed' = [feed EXCEPT ![f] = [feed[f] EXCEPT !.pc = "open", !.row = r]]
                  /\ shown' = IF feed[f].on THEN [shown EXCEPT ![r] = [status |-> "open", text |-> 0]] ELSE shown
    BY <1>1, <1>f DEF Accept
  <2>2. [conversation |-> feed[f].conversation, status |-> "open", text |-> 0] \in RowRecord
    BY <1>s, Names DEF RowRecord
  <2>3. [feed[f] EXCEPT !.pc = "open", !.row = r] \in Aimed
    BY <1>s, AcceptedFacts
  <2>4. feed' \in [Feed -> Aimed]
    BY <1>f, <2>1, <2>3, NoStreamFacts, FeedChanges
  <2>5. shown' \in [Row -> Shown]
    BY <1>f, <2>1, ViewTypes, Names
  <2>6. row' \in [Row -> RowRecord]
    BY <1>f, <2>1, <2>2
  <2> QED
    BY <1>1, <2>4, <2>5, <2>6
    DEF Accept, FeedTyped, PageTyped, LoadTyped, StopTyped, ServerTyped, CountTyped
<1>2. ASSUME NEW f \in Feed, Refuse(f)
      PROVE  Typed'
  <2>1. feed' = [feed EXCEPT ![f] = IF feed[f].pc = "adrift" THEN NoStream
                                    ELSE [feed[f] EXCEPT !.pc = "refused"]]
    BY <1>2, <1>f DEF Refuse
  <2>2. feed' \in [Feed -> Aimed]
    BY <1>f, <1>s, <2>1, NoStreamFacts, StateFacts, FeedChanges
  <2> QED
    BY <1>2, <2>2
    DEF Refuse, pageVars, serverVars, FeedTyped, PageTyped, LoadTyped, StopTyped, ServerTyped, CountTyped
<1>3. ASSUME NEW f \in Feed, Attach(f)
      PROVE  Typed'
  <2>1. feed[f].row \in Row /\ feed[f].recovers
    BY <1>3, <1>s DEF Attach
  <2>2. row[feed[f].row].text \in Text /\ row[feed[f].row].status \in Status
    BY <1>f, <2>1 DEF RowRecord
  <2>3. feed' = [feed EXCEPT ![f] = Attaching(feed[f], row[feed[f].row].text, row[feed[f].row].status)]
    BY <1>3, <1>f DEF Attach, Attaching
  <2>4. feed' \in [Feed -> Aimed]
    BY <1>f, <1>s, <2>1, <2>2, <2>3, AttachedFacts, FeedChanges
  <2> QED
    BY <1>3, <2>4
    DEF Attach, pageVars, serverVars, FeedTyped, PageTyped, LoadTyped, StopTyped, ServerTyped, CountTyped
<1>4. ASSUME NEW r \in Row, Produce(r)
      PROVE  Typed'
  <2>1. row[r] \in RowRecord
    BY <1>f
  <2>2. [row[r] EXCEPT !.text = @ + 1] \in RowRecord
    BY <1>4, <2>1, Bounds DEF Produce, RowRecord, Text
  <2>3. row' \in [Row -> RowRecord]
    BY <1>4, <1>f, <2>2 DEF Produce
  <2> QED
    BY <1>4, <2>3
    DEF Produce, pageVars, FeedTyped, PageTyped, LoadTyped, StopTyped, ServerTyped, CountTyped
<1>5. ASSUME NEW r \in Row, Settle(r)
      PROVE  Typed'
  <2>1. row[r] \in RowRecord
    BY <1>f
  <2>2. PICK s \in {"completed", "failed"} : row' = [row EXCEPT ![r].status = s]
    BY <1>5 DEF Settle
  <2>3. [row[r] EXCEPT !.status = s] \in RowRecord
    BY <2>1, Names DEF RowRecord
  <2>4. row' \in [Row -> RowRecord]
    BY <1>f, <2>2, <2>3
  <2> QED
    BY <1>5, <2>4
    DEF Settle, pageVars, FeedTyped, PageTyped, LoadTyped, StopTyped, ServerTyped, CountTyped
<1> QED
  BY <1>1, <1>2, <1>3, <1>4, <1>5

LEMMA TypedFeed ==
    ASSUME Typed, NEW f \in Feed,
           \/ OnSnapshot(f) \/ OnDelta(f) \/ OnTerminal(f)
           \/ \E l \in Load : OnFailed(f, l) \/ ReadRefusal(f, l) \/ Drop(f, l)
    PROVE  Typed'
<1> USE DEF Typed
<1>f. feed \in [Feed -> Aimed] /\ row \in [Row -> RowRecord] /\ shown \in [Row -> Shown]
  BY DEF FeedTyped, ServerTyped, PageTyped
<1> DEFINE s == feed[f]
<1>s. /\ s \in Aimed /\ s.at \in Text /\ s.seen \in Status
      /\ s.recovers \/ s.pc \in {"attached", "open"} => s.row \in Row
  <2>1. s \in Aimed
    BY <1>f
  <2> QED
    BY <2>1 DEF Aimed, Stream
<1>t. s.row \in Row =>
          /\ row[s.row].text \in Text /\ row[s.row].status \in Status
          /\ shown[s.row].text \in Nat
  <2>1. s.row \in Row => row[s.row] \in RowRecord /\ shown[s.row] \in Shown
    BY <1>f
  <2> QED
    BY <2>1 DEF RowRecord, Shown
<1>b. ASSUME NEW v \in Shown PROVE ShowBy(f, v) \in [Row -> Shown]
  BY <1>f DEF ShowBy
<1>1. CASE OnSnapshot(f)
  <2>1. [status |-> s.seen, text |-> s.at] \in Shown
    BY <1>s, ViewTypes, Names
  <2>2. shown' \in [Row -> Shown]
    BY <1>1, <1>b, <2>1 DEF OnSnapshot
  <2>3. [feed[f] EXCEPT !.pc = "open", !.seen = "none"] \in Aimed
    BY <1>1, <1>s, SnapshotFacts DEF OnSnapshot
  <2>4. feed' = [feed EXCEPT ![f] = [feed[f] EXCEPT !.pc = "open", !.seen = "none"]]
    BY <1>1, <1>f DEF OnSnapshot
  <2>5. feed' \in [Feed -> Aimed]
    BY <1>f, <2>3, <2>4, FeedChanges
  <2> QED
    BY <1>1, <2>2, <2>5
    DEF OnSnapshot, serverVars, FeedTyped, PageTyped, LoadTyped, StopTyped, ServerTyped, CountTyped
<1>2. CASE OnDelta(f)
  <2>0. s.row \in Row /\ s.at < row[s.row].text
    BY <1>2, <1>s DEF OnDelta
  <2>1. s.at + 1 \in Text
    BY <2>0, <1>s, <1>t, Bounds DEF Text
  <2>2. shown[s.row].text + 1 \in Nat /\ s.at + 1 \in Nat
    BY <2>0, <2>1, <1>t DEF Text
  <2>3. [status |-> "open", text |-> IF s.recovers THEN shown[s.row].text + 1 ELSE s.at + 1] \in Shown
    BY <2>2, ViewTypes, Names
  <2>4. shown' \in [Row -> Shown]
    BY <1>2, <1>b, <2>3 DEF OnDelta
  <2>5. [feed[f] EXCEPT !.at = s.at + 1] \in Aimed
    BY <1>s, <2>1, TokenFacts
  <2>6. feed' = [feed EXCEPT ![f] = [feed[f] EXCEPT !.at = s.at + 1]]
    BY <1>2, <1>f DEF OnDelta
  <2>7. feed' \in [Feed -> Aimed]
    BY <1>f, <2>5, <2>6, FeedChanges
  <2> QED
    BY <1>2, <2>4, <2>7
    DEF OnDelta, serverVars, FeedTyped, PageTyped, LoadTyped, StopTyped, ServerTyped, CountTyped
<1>3. CASE OnTerminal(f)
  <2>1. s.row \in Row
    BY <1>3, <1>s DEF OnTerminal, AtEnd
  <2>2. ViewOf(s.row) \in Shown
    BY <2>1, <1>t, ViewTypes DEF ViewOf
  <2>3. shown' \in [Row -> Shown]
    BY <1>3, <1>b, <2>2 DEF OnTerminal
  <2>4. feed' \in [Feed -> Aimed]
    BY <1>3, <1>f, NoStreamFacts, FeedChanges DEF OnTerminal
  <2> QED
    BY <1>3, <2>3, <2>4
    DEF OnTerminal, Finish, serverVars, FeedTyped, PageTyped, LoadTyped, StopTyped, ServerTyped, CountTyped
<1>4. ASSUME NEW l \in Load, OnFailed(f, l) \/ ReadRefusal(f, l) \/ Drop(f, l)
      PROVE  Typed'
  <2>1. Failed(f, l)
    BY <1>4 DEF OnFailed, ReadRefusal, Drop
  <2>2. UNCHANGED <<stop, known, row, moves>>
    BY <2>1 DEF Failed, serverVars
  <2>3. faults' \in 0..MaxFault /\ stray' \in BOOLEAN
    BY <1>4, Counts DEF OnFailed, ReadRefusal, Drop, CountTyped
  <2> QED
    BY <2>1, <2>2, <2>3, FailedTyped DEF StopTyped, ServerTyped, CountTyped
<1> QED
  BY <1>1, <1>2, <1>3, <1>4

LEMMA TypedOpening ==
    ASSUME Typed,
           \/ \E l \in Load : \/ ReadConversation(l) \/ LoadFails(l) \/ Refresh(l)
                              \/ \E f \in Feed : LoadArrives(l, f)
                              \/ \E c \in Conversation : SelectConversation(c, l)
           \/ StartNewConversation
           \/ \E f \in Feed : ComeOnline(f)
    PROVE  Typed'
<1> USE DEF Typed
<1>f. /\ feed \in [Feed -> Aimed] /\ row \in [Row -> RowRecord] /\ load \in [Load -> LoadRecord]
      /\ shown \in [Row -> Shown] /\ active \in Anywhere /\ stop \in StopRecord
  BY DEF FeedTyped, ServerTyped, LoadTyped, PageTyped, StopTyped
<1>l. ASSUME NEW l \in Load
      PROVE  load[l].conversation \in Anywhere /\ load[l].view \in [Row -> View]
  <2>1. load[l] \in LoadRecord
    BY <1>f
  <2> QED
    BY <2>1 DEF LoadRecord
<1>n. NoLoad \in LoadRecord /\ [NoLoad EXCEPT !.pc = "asked", !.conversation = active] \in LoadRecord
  BY <1>f, ViewTypes, Names DEF NoLoad, LoadRecord
<1>1. ASSUME NEW l \in Load, ReadConversation(l)
      PROVE  Typed'
  <2>1. PICK text \in [Row -> Text] :
          load' = [load EXCEPT ![l].pc = "read",
                      ![l].view = [r \in Row |-> IF row[r].conversation = load[l].conversation
                                                 THEN [status |-> row[r].status, text |-> text[r]]
                                                 ELSE NoView]]
    BY <1>1 DEF ReadConversation, Text
  <2> DEFINE view == [r \in Row |-> IF row[r].conversation = load[l].conversation
                                    THEN [status |-> row[r].status, text |-> text[r]]
                                    ELSE NoView]
  <2>2. \A r \in Row : row[r].status \in Status
    BY <1>f DEF RowRecord
  <2>3. view \in [Row -> View]
    BY <2>2, ViewTypes
  <2>4. load' = [load EXCEPT ![l] = [load[l] EXCEPT !.pc = "read", !.view = view]]
    BY <2>1, <1>f
  <2>5. load[l] \in LoadRecord
    BY <1>f
  <2> HIDE DEF view
  <2>6. [load[l] EXCEPT !.pc = "read", !.view = view] \in LoadRecord
    BY <2>3, <2>5 DEF LoadRecord
  <2>7. LoadTyped'
    BY <1>f, <2>4, <2>6 DEF LoadTyped
  <2> QED
    BY <1>1, <2>7
    DEF ReadConversation, pageVars, serverVars, FeedTyped, PageTyped, StopTyped, ServerTyped, CountTyped
<1>2. ASSUME NEW l \in Load, LoadFails(l)
      PROVE  Typed'
  BY <1>2, <1>f, <1>n
  DEF LoadFails, serverVars, FeedTyped, PageTyped, LoadTyped, StopTyped, ServerTyped, CountTyped
<1>3. ASSUME NEW l \in Load, Refresh(l)
      PROVE  Typed'
  <2>1. FeedTyped'
    BY <1>3, <1>f, AbortedFacts, NoStreamFacts DEF Refresh, FeedTyped
  <2>2. LoadTyped'
    BY <1>3, <1>n DEF Refresh, LoadTyped
  <2>3. StopTyped'
    <3>1. \/ stop' = [stop EXCEPT !.pc = "unheard"]
          \/ stop' = [NoStop EXCEPT !.pc = "over"]
          \/ stop' = stop
      BY <1>3 DEF Refresh
    <3>2. [stop EXCEPT !.pc = "unheard"] \in StopRecord
      BY <1>f DEF StopRecord
    <3>3. [NoStop EXCEPT !.pc = "over"] \in StopRecord
      BY Names DEF StopRecord, NoStop
    <3> QED
      BY <1>f, <3>1, <3>2, <3>3 DEF StopTyped
  <2>4. PageTyped'
    BY <1>3, <1>f, ViewTypes DEF Refresh, Finish, PageTyped
  <2>5. CountTyped'
    BY <1>3, Counts DEF Refresh, CountTyped
  <2> QED
    BY <1>3, <2>1, <2>2, <2>3, <2>4, <2>5 DEF Refresh, serverVars, ServerTyped
<1>4. ASSUME NEW l \in Load, NEW f \in Feed, LoadArrives(l, f)
      PROVE  Typed'
  <2>1. FeedTyped' /\ streaming' \in BOOLEAN /\ handle' \in Feed \cup {NoFeed}
    <3>1. Off(feed) \in [Feed -> Aimed]
      BY <1>f, OffFacts
    <3>2. CASE feed' = Off(feed) /\ UNCHANGED <<streaming, handle>>
      BY <3>1, <3>2 DEF FeedTyped, PageTyped
    <3>3. CASE \E r \in Row : Recover(f, r, Off(feed))
      BY <3>1, <3>3, RecoverTyped
    <3> QED
      BY <1>4, <3>2, <3>3 DEF LoadArrives
  <2>2. PageTyped'
    BY <1>4, <1>l, <2>1, ViewTypes DEF LoadArrives, PageTyped
  <2>3. LoadTyped'
    BY <1>4, <1>f, <1>n DEF LoadArrives, LoadTyped
  <2> QED
    BY <1>4, <2>1, <2>2, <2>3 DEF LoadArrives, serverVars, StopTyped, ServerTyped, CountTyped
<1>5. ASSUME NEW l \in Load, NEW c \in Conversation, SelectConversation(c, l)
      PROVE  Typed'
  <2>1. LoadMessages(l, Detach, shown, c) /\ c \in Anywhere
    BY <1>5, Names DEF SelectConversation
  <2>2. Detach \in [Feed -> Aimed]
    BY AbortTyped
  <2>3. /\ FeedTyped' /\ LoadTyped'
        /\ shown' \in [Row -> Shown] /\ loaded' \in Anywhere /\ loading' \in BOOLEAN
    BY <1>f, <2>1, <2>2, LoadMessagesTyped
  <2>4. PageTyped'
    BY <1>5, <2>1, <2>3 DEF SelectConversation, Finish, PageTyped
  <2>5. CountTyped'
    BY <1>5, Counts DEF SelectConversation, CountTyped
  <2> QED
    BY <1>5, <2>3, <2>4, <2>5 DEF SelectConversation, serverVars, StopTyped, ServerTyped
<1>6. CASE StartNewConversation
  <2>1. FeedTyped'
    BY <1>6, AbortTyped, OffFacts DEF StartNewConversation, FeedTyped
  <2>2. PageTyped'
    BY <1>6, ViewTypes, Names DEF StartNewConversation, Finish, PageTyped
  <2>3. CountTyped'
    BY <1>6, Counts DEF StartNewConversation, CountTyped
  <2> QED
    BY <1>6, <2>1, <2>2, <2>3 DEF StartNewConversation, serverVars, LoadTyped, StopTyped, ServerTyped
<1>7. ASSUME NEW f \in Feed, ComeOnline(f)
      PROVE  Typed'
  <2>1. FeedTyped' /\ streaming' \in BOOLEAN /\ handle' \in Feed \cup {NoFeed}
        /\ recovery' \in Row \cup {NoRow}
    <3>1. CASE UNCHANGED <<feed, streaming, handle, recovery>>
      BY <3>1 DEF FeedTyped, PageTyped
    <3>2. CASE recovery # NoRow /\ recovery' = NoRow /\ UNCHANGED <<feed, streaming, handle>>
      BY <3>2 DEF FeedTyped, PageTyped
    <3>3. CASE recovery # NoRow /\ recovery' = NoRow /\ Recover(f, recovery, feed)
      <4>1. recovery \in Row
        BY <3>3 DEF PageTyped
      <4> QED
        BY <1>f, <3>3, <4>1, RecoverTyped
    <3> QED
      BY <1>7, <3>1, <3>2, <3>3 DEF ComeOnline
  <2>2. PageTyped'
    BY <1>7, <2>1 DEF ComeOnline, PageTyped
  <2>3. CountTyped'
    BY <1>7, Counts DEF ComeOnline, CountTyped
  <2> QED
    BY <1>7, <2>1, <2>2, <2>3 DEF ComeOnline, serverVars, LoadTyped, StopTyped, ServerTyped
<1> QED
  BY <1>1, <1>2, <1>3, <1>4, <1>5, <1>6, <1>7

\* Rows that there are have a newest one.
LEMMA Newest ==
    ASSUME NEW open \in SUBSET Row, open # {}
    PROVE  /\ \E r \in open : \A q \in open : q <= r
           /\ (CHOOSE r \in open : \A q \in open : q <= r) \in Row
<1> DEFINE Below == {ss \in Nat \X Nat : ss[1] < ss[2]}
           behind == {MaxRow - r : r \in open}
<1>1. behind \subseteq Nat /\ behind # {}
  <2>1. \A r \in open : MaxRow - r \in Nat
    BY Bounds DEF Row
  <2> QED
    BY <2>1
<1>2. IsWellFoundedOn(Below, Nat)
  BY NatLessThanWellFounded DEF OpToRel
<1>3. \A x, y \in Nat : y < x => <<y, x>> \in Below
  OBVIOUS
<1> HIDE DEF Below
<1>4. PICK x \in behind : \A y \in behind : <<y, x>> \notin Below
  BY <1>1, <1>2, WFMin
<1>5. PICK r \in open : x = MaxRow - r
  BY <1>4
<1>6. \A q \in open : q <= r
  <2> SUFFICES ASSUME NEW q \in open PROVE q <= r
    OBVIOUS
  <2>1. MaxRow - q \in behind /\ MaxRow - q \in Nat /\ x \in Nat
    BY <1>1
  <2>2. ~(MaxRow - q < x)
    BY <1>3, <1>4, <2>1
  <2>3. q \in Int /\ r \in Int
    BY DEF Row
  <2> QED
    BY <1>5, <2>2, <2>3, Bounds
<1> QED
  BY <1>6

LEMMA TypedStop ==
    ASSUME Typed, StopStreaming \/ StopReaches \/ StopAnswered \/ StopLost
    PROVE  Typed'
<1> USE DEF Typed
<1>f. /\ feed \in [Feed -> Aimed] /\ row \in [Row -> RowRecord]
      /\ shown \in [Row -> Shown] /\ active \in Anywhere /\ stop \in StopRecord
  BY DEF FeedTyped, ServerTyped, PageTyped, StopTyped
<1>o. /\ [NoStop EXCEPT !.pc = "over"] \in StopRecord
      /\ [NoStop EXCEPT !.pc = "sent", !.conversation = active] \in StopRecord
      /\ \A r \in Row \cup {NoRow} :
            /\ [NoStop EXCEPT !.pc = "over", !.row = r] \in StopRecord
            /\ [stop EXCEPT !.pc = "answered", !.row = r] \in StopRecord
  BY <1>f, Names DEF StopRecord, NoStop
<1>1. CASE StopStreaming
  <2>1. FeedTyped'
    BY <1>1, AbortTyped DEF StopStreaming, FeedTyped
  <2>2. shown' \in [Row -> Shown]
    <3>1. \/ shown' = shown
          \/ shown' = [shown EXCEPT ![feed[handle].row] =
                          [shown[feed[handle].row] EXCEPT !.status = "interrupted"]]
      BY <1>1, <1>f DEF StopStreaming
    <3>2. ASSUME feed[handle].row \in Row
          PROVE  [shown[feed[handle].row] EXCEPT !.status = "interrupted"] \in Shown
      BY <1>f, <3>2, ViewTypes, Names
    <3> QED
      BY <1>f, <3>1, <3>2
  <2>3. PageTyped'
    BY <1>1, <2>2 DEF StopStreaming, Finish, PageTyped
  <2>4. CountTyped'
    BY <1>1, Counts DEF StopStreaming, CountTyped
  <2>5. StopTyped'
    BY <1>1, <1>o DEF StopStreaming, StopTyped
  <2> QED
    BY <1>1, <2>1, <2>3, <2>4, <2>5 DEF StopStreaming, serverVars, LoadTyped, ServerTyped
<1>2. CASE StopReaches
  <2> DEFINE open == {r \in Row : row[r].status = "open" /\ row[r].conversation = stop.conversation}
             answer == IF open = {} THEN NoRow ELSE CHOOSE r \in open : \A q \in open : q <= r
  <2>0. PICK ends \in [open -> {"interrupted", "completed", "failed"}] :
          row' = [r \in Row |-> IF r \in open THEN [row[r] EXCEPT !.status = ends[r]] ELSE row[r]]
    BY <1>2 DEF StopReaches
  <2> DEFINE settled == [r \in Row |-> IF r \in open THEN [row[r] EXCEPT !.status = ends[r]] ELSE row[r]]
  <2>1. settled \in [Row -> RowRecord]
    <3>1. ASSUME NEW r \in Row, NEW x \in Status PROVE [row[r] EXCEPT !.status = x] \in RowRecord
      <4>1. row[r] \in RowRecord
        BY <1>f
      <4> QED
        BY <4>1 DEF RowRecord
    <3>2. \A r \in open : ends[r] \in Status
      BY <2>0, Names
    <3> QED
      BY <1>f, <3>1, <3>2
  <2>2. answer \in Row \cup {NoRow}
    <3>1. open \in SUBSET Row
      OBVIOUS
    <3> HIDE DEF open
    <3> QED
      BY <3>1, Newest
  <2>3. /\ row' = settled
        /\ stop' = IF stop.pc = "unheard" THEN [NoStop EXCEPT !.pc = "over"]
                   ELSE [NoStop EXCEPT !.pc = "answered", !.row = answer]
    BY <1>2, <2>0 DEF StopReaches
  <2> HIDE DEF settled, answer
  <2>4. StopTyped'
    BY <1>o, <2>2, <2>3, Names DEF StopTyped, StopRecord, NoStop
  <2> QED
    BY <1>2, <2>1, <2>3, <2>4
    DEF StopReaches, pageVars, FeedTyped, PageTyped, LoadTyped, ServerTyped, CountTyped
<1>3. CASE StopAnswered
  <2>1. stop.row \in Row \cup {NoRow}
    BY <1>f DEF StopRecord
  <2>2. shown' \in [Row -> Shown]
    <3>1. ASSUME stop.row \in Row PROVE ViewOf(stop.row) \in Shown
      <4>1. row[stop.row] \in RowRecord
        BY <1>f, <3>1
      <4> QED
        BY <4>1, ViewTypes DEF ViewOf, RowRecord
    <3> QED
      BY <1>3, <1>f, <2>1, <3>1 DEF StopAnswered
  <2>3. StopTyped'
    BY <1>3, <1>o, <2>1 DEF StopAnswered, StopTyped
  <2> QED
    BY <1>3, <2>2, <2>3
    DEF StopAnswered, serverVars, FeedTyped, PageTyped, LoadTyped, ServerTyped, CountTyped
<1>4. CASE StopLost
  <2>1. StopTyped' /\ CountTyped'
    BY <1>4, <1>o, Counts DEF StopLost, StopTyped, CountTyped
  <2> QED
    BY <1>4, <2>1 DEF StopLost, pageVars, serverVars, FeedTyped, PageTyped, LoadTyped, ServerTyped
<1> QED
  BY <1>1, <1>2, <1>3, <1>4

LEMMA TypedNext == Typed /\ [Next]_vars => Typed'
<1> SUFFICES ASSUME Typed, [Next]_vars PROVE Typed'
  OBVIOUS
<1>1. CASE UNCHANGED vars
  BY <1>1
  DEF vars, pageVars, serverVars, Typed, PageTyped, FeedTyped, LoadTyped, StopTyped,
      ServerTyped, CountTyped
<1>2. CASE Next
  BY <1>2, TypedSend, TypedServer, TypedFeed, TypedOpening, TypedStop DEF Next
<1> QED
  BY <1>1, <1>2

LEMMA AlwaysTyped == Spec => []Typed
<1>1. Init => Typed
  BY TypedInit
<1>2. Typed /\ [Next]_vars => Typed'
  BY TypedNext
<1> QED
  BY <1>1, <1>2, PTL DEF Spec

\* The page's variables keep their types: a feed that delivers knows the row
\* it writes to, and the answer of a Stop names a row there is.
THEOREM TypeCorrect == Spec => []TypeOK
<1>1. Spec => []Typed
  BY AlwaysTyped
<1>2. Typed => TypeOK
  BY TypedIsTypeOK
<1> QED
  BY <1>1, <1>2, PTL

-----------------------------------------------------------------------------
(* One live feed.  A step leaves who is live alone, silences the page, or    *)
(* begins a feed on a silent page.                                           *)

Kept ==
    /\ UNCHANGED <<active, streaming, handle>>
    /\ \A f \in Feed : /\ Live(f)' <=> Live(f)
                       /\ Live(f) => feed'[f].conversation = feed[f].conversation
Silenced ==
    /\ streaming' = FALSE
    /\ \A f \in Feed : ~Live(f)'
Begun(f) ==
    /\ streaming' = TRUE /\ handle' = f
    /\ Live(f)' /\ feed'[f].conversation = active'
    /\ \A g \in Feed \ {f} : ~Live(g)'

Beside == Overtaken /\ stray'

Shape == Beside \/ Kept \/ Silenced \/ \E f \in Feed : Begun(f)

LEMMA ShapeIsEnough == OneLive /\ Shape => OneLive' \/ Beside
<1> SUFFICES ASSUME OneLive, Shape PROVE OneLive' \/ Beside
  OBVIOUS
<1>2. CASE Kept
  BY <1>2 DEF OneLive, Kept
<1>3. CASE Silenced
  BY <1>3 DEF OneLive, Silenced
<1>4. CASE \E f \in Feed : Begun(f)
  BY <1>4 DEF OneLive, Begun
<1> QED
  BY <1>2, <1>3, <1>4 DEF Shape

\* Who is live, of a page that keeps the rule.
LEMMA Alone ==
    ASSUME OneLive
    PROVE  /\ ~streaming => \A f \in Feed : ~Live(f)
           /\ \A f \in Feed : Live(f) => /\ streaming /\ f = handle
                                         /\ \A g \in Feed \ {f} : ~Live(g)
BY DEF OneLive

\* A live feed is live, however its state is called.
LEMMA LiveMeans == \A f \in Feed : Live(f) <=> feed[f].pc \in LiveState
BY DEF Live, LiveState

LEMMA LiveMeansNext == \A f \in Feed : Live(f)' <=> feed'[f].pc \in LiveState
BY DEF Live, LiveState

\* What is aborted is not live.
LEMMA AbortSilences ==
    ASSUME Typed, OneLive
    PROVE  /\ \A f \in Feed : Detach[f].pc \notin LiveState
           /\ \A f \in Feed : AbortHandle[f].pc \notin LiveState
<1>1. feed \in [Feed -> Aimed] /\ handle \in Feed \cup {NoFeed} /\ NoFeed \notin Feed
  BY ChatViewAssumption DEF Typed, FeedTyped, PageTyped
<1>2. \A f \in Feed : feed[f].pc \in LiveState => streaming /\ f = handle
  BY LiveMeans, Alone
<1>3. handle \in Feed => Aborted(feed[handle]).pc \notin LiveState
  BY <1>1, AbortedFacts DEF LiveState
<1>4. \A f \in Feed : AbortHandle[f].pc \notin LiveState
  BY <1>1, <1>2, <1>3 DEF AbortHandle
<1>5. \A f \in Feed : ~streaming => feed[f].pc \notin LiveState
  BY <1>2
<1> QED
  BY <1>4, <1>5 DEF Detach

\* Loading silences a page when the feeds it is given are not live.
LEMMA LoadSilences ==
    ASSUME Typed, NEW l \in Load, NEW feeds \in [Feed -> Aimed], NEW rows, NEW c,
           LoadMessages(l, feeds, rows, c), streaming' = FALSE,
           \A f \in Feed : feeds[f].pc \notin LiveState
    PROVE  Silenced
<1>1. feed' = Off(feeds) \/ feed' = feeds
  BY DEF LoadMessages
<1>2. \A f \in Feed : Off(feeds)[f].pc = feeds[f].pc
  BY OffFacts DEF Alike
<1> QED
  BY <1>1, <1>2, LiveMeansNext DEF Silenced

\* A recovery begins on a silent page, or not at all.
LEMMA RecoverShapes ==
    ASSUME Typed, OneLive, NEW f \in Feed, NEW r \in Row,
           NEW feeds \in [Feed -> Aimed], Recover(f, r, feeds), active' = active,
           \A g \in Feed : /\ feeds[g].pc = feed[g].pc
                           /\ feeds[g].conversation = feed[g].conversation
    PROVE  Kept \/ Begun(f)
<1>1. CASE streaming \/ active = NoConversation
  <2>1. feed' = feeds /\ UNCHANGED <<streaming, handle>>
    BY <1>1 DEF Recover
  <2> QED
    BY <2>1, LiveMeans, LiveMeansNext DEF Kept
<1>2. CASE ~(streaming \/ active = NoConversation)
  <2>1. feed' = [feeds EXCEPT ![f] = Recovery(active, r)] /\ streaming' = TRUE /\ handle' = f
    BY <1>2 DEF Recover, Recovery
  <2>2. active \in Anywhere
    BY DEF Typed, PageTyped
  <2>3. Recovery(active, r).pc = "sent" /\ Recovery(active, r).conversation = active
    BY <2>2, RecoveryFacts
  <2>4. feed'[f] = Recovery(active, r) /\ \A g \in Feed \ {f} : feed'[g] = feeds[g]
    BY <2>1
  <2>5. \A g \in Feed : feed[g].pc \notin LiveState
    BY <1>2, Alone, LiveMeans
  <2>6. Live(f)' /\ \A g \in Feed \ {f} : ~Live(g)'
    BY <2>3, <2>4, <2>5, LiveMeansNext DEF LiveState
  <2> QED
    BY <2>1, <2>3, <2>4, <2>6 DEF Begun
<1> QED
  BY <1>1, <1>2

\* A request goes out on a silent page.
LEMMA GoOutBegins ==
    ASSUME Typed, OneLive, ~streaming, NEW f \in Feed, GoOut(f), active' = active
    PROVE  Begun(f)
<1>1. feed \in [Feed -> Aimed] /\ active \in Anywhere
  BY DEF Typed, FeedTyped, PageTyped
<1>2. feed' = [feed EXCEPT ![f] = Outgoing(active)] /\ streaming' = TRUE /\ handle' = f
  BY DEF GoOut, Outgoing
<1>3. Outgoing(active).pc = "sent" /\ Outgoing(active).conversation = active
  BY <1>1, OutgoingFacts
<1>4. feed'[f] = Outgoing(active) /\ \A g \in Feed \ {f} : feed'[g] = feed[g]
  BY <1>1, <1>2
<1>5. \A g \in Feed : feed[g].pc \notin LiveState
  BY Alone, LiveMeans
<1>6. Live(f)' /\ \A g \in Feed \ {f} : ~Live(g)'
  BY <1>3, <1>4, <1>5, LiveMeansNext DEF LiveState
<1> QED
  BY <1>2, <1>3, <1>4, <1>6 DEF Begun

\* A feed whose state and conversation are those of another kind of life.
LEMMA OneChanges ==
    ASSUME Typed, NEW f \in Feed, NEW t \in Aimed, feed' = [feed EXCEPT ![f] = t],
           t.pc \in LiveState <=> feed[f].pc \in LiveState,
           feed[f].pc \in LiveState => t.conversation = feed[f].conversation,
           UNCHANGED <<active, streaming, handle>>
    PROVE  Kept
<1>1. feed \in [Feed -> Aimed]
  BY DEF Typed, FeedTyped
<1>2. feed'[f] = t /\ \A g \in Feed \ {f} : feed'[g] = feed[g]
  BY <1>1
<1> QED
  BY <1>2, LiveMeans, LiveMeansNext DEF Kept

LEMMA SendShape ==
    ASSUME Typed, OneLive, NEW f \in Feed,
           \/ Send(f) \/ Created(f) \/ SendGoesOn(f) \/ CreationFails(f)
           \/ \E r \in Row : Retry(f, r)
    PROVE  Shape
<1>f. feed \in [Feed -> Aimed] /\ feed[f] \in Aimed
  BY DEF Typed, FeedTyped
<1>1. ASSUME BeginSend(f), active' = active PROVE Kept \/ Begun(f)
  <2>1. CASE active = NoConversation
    <3>1. feed' = [feed EXCEPT ![f] = [feed[f] EXCEPT !.pc = "creating"]]
          /\ UNCHANGED <<streaming, handle>> /\ feed[f].pc = "idle"
      BY <1>1, <1>f, <2>1 DEF BeginSend, Free
    <3>2. [feed[f] EXCEPT !.pc = "creating"] \in Aimed /\ [feed[f] EXCEPT !.pc = "creating"].pc = "creating"
      BY <1>f, StateFacts
    <3> QED
      BY <1>1, <3>1, <3>2, OneChanges DEF LiveState
  <2>2. CASE active # NoConversation
    BY <1>1, <2>2, GoOutBegins DEF BeginSend
  <2> QED
    BY <2>1, <2>2
<1>2. CASE Send(f)
  BY <1>1, <1>2 DEF Send, Shape
<1>3. CASE \E r \in Row : Retry(f, r)
  BY <1>1, <1>3 DEF Retry, Shape
<1>4. CASE Created(f)
  <2>1. CASE streaming
    <3>1. stray' /\ feed[f].pc = "creating"
      BY <1>4, <2>1 DEF Created
    <3>2. [feed[f] EXCEPT !.pc = "created"] \in Aimed /\ [feed[f] EXCEPT !.pc = "created"].pc = "created"
      BY <1>f, StateFacts
    <3> DEFINE feeds == [feed EXCEPT ![f] = [feed[f] EXCEPT !.pc = "created"]]
    <3>3. feeds \in [Feed -> Aimed] /\ feeds[f].pc = "created"
      BY <1>f, <3>2, FeedChanges
    <3>4. feed' = Off(feeds)
      BY <1>4, <1>f DEF Created
    <3> HIDE DEF feeds
    <3>5. feed'[f].pc = "created"
      BY <3>3, <3>4, OffFacts DEF Alike
    <3> QED
      BY <2>1, <3>1, <3>5 DEF Overtaken, Beside, Shape
  <2>2. CASE ~streaming
    <3>1. [feed[f] EXCEPT !.pc = "created"] \in Aimed /\ [feed[f] EXCEPT !.pc = "created"].pc = "created"
      BY <1>f, StateFacts
    <3> DEFINE feeds == [feed EXCEPT ![f] = [feed[f] EXCEPT !.pc = "created"]]
    <3>2. feeds \in [Feed -> Aimed]
      BY <1>f, <3>1, FeedChanges
    <3>3. \A g \in Feed : feeds[g].pc \notin LiveState
      <4>1. \A g \in Feed : feed[g].pc \notin LiveState
        BY <2>2, Alone, LiveMeans
      <4> QED
        BY <1>f, <3>1, <4>1 DEF LiveState
    <3>4. feed' = Off(feeds) /\ streaming' = streaming
      BY <1>4, <1>f DEF Created
    <3> HIDE DEF feeds
    <3>5. \A g \in Feed : Off(feeds)[g].pc = feeds[g].pc
      BY <3>2, OffFacts DEF Alike
    <3>6. \A g \in Feed : ~Live(g)'
      BY <3>3, <3>4, <3>5, LiveMeansNext
    <3>7. streaming = FALSE
      BY <2>2 DEF Typed, PageTyped
    <3> QED
      BY <3>4, <3>6, <3>7 DEF Silenced, Shape
  <2> QED
    BY <2>1, <2>2
<1>5. CASE SendGoesOn(f)
  <2>1. CASE streaming /\ active # NoConversation
    <3>1. stray' /\ feed[f].pc = "created" /\ GoOut(f) /\ active \in Anywhere
      BY <1>5, <2>1 DEF SendGoesOn, Typed, PageTyped
    <3>2. feed' = [feed EXCEPT ![f] = Outgoing(active)]
      BY <3>1 DEF GoOut, Outgoing
    <3>3. feed'[f].pc = "sent"
      BY <1>f, <3>1, <3>2, OutgoingFacts
    <3> QED
      BY <2>1, <3>1, <3>3 DEF Overtaken, Beside, Shape
  <2>2. CASE ~streaming /\ active # NoConversation
    BY <1>5, <2>2, GoOutBegins DEF SendGoesOn, Shape
  <2>3. CASE active = NoConversation
    <3>1. feed' = [feed EXCEPT ![f] = NoStream] /\ UNCHANGED <<active, streaming, handle>>
          /\ feed[f].pc = "created"
      BY <1>5, <2>3 DEF SendGoesOn
    <3> QED
      BY <3>1, NoStreamFacts, OneChanges DEF LiveState, Shape
  <2> QED
    BY <2>1, <2>2, <2>3
<1>6. CASE CreationFails(f)
  <2>1. feed' = [feed EXCEPT ![f] = NoStream] /\ UNCHANGED <<active, streaming, handle>>
        /\ feed[f].pc = "creating"
    BY <1>6 DEF CreationFails, pageVars
  <2> QED
    BY <2>1, NoStreamFacts, OneChanges DEF LiveState, Shape
<1> QED
  BY <1>2, <1>3, <1>4, <1>5, <1>6

LEMMA ServerShape ==
    ASSUME Typed, OneLive,
           \/ \E f \in Feed : Accept(f) \/ Refuse(f) \/ Attach(f)
           \/ \E r \in Row : Produce(r) \/ Settle(r)
    PROVE  Shape
<1>f. feed \in [Feed -> Aimed] /\ row \in [Row -> RowRecord]
  BY DEF Typed, FeedTyped, ServerTyped
<1>1. ASSUME NEW f \in Feed, Accept(f)
      PROVE  Kept
  <2>0. feed[f] \in Aimed /\ feed[f].pc \in {"sent", "adrift"} /\ UNCHANGED <<active, streaming, handle>>
    BY <1>f, <1>1 DEF Accept
  <2>1. CASE feed[f].pc = "adrift"
    <3>1. feed' = [feed EXCEPT ![f] = NoStream]
      BY <1>1, <2>1 DEF Accept
    <3> QED
      BY <2>0, <2>1, <3>1, NoStreamFacts, OneChanges DEF LiveState
  <2>2. CASE feed[f].pc # "adrift"
    <3>1. PICK r \in Row : feed' = [feed EXCEPT ![f] = [feed[f] EXCEPT !.pc = "open", !.row = r]]
      BY <1>f, <1>1, <2>2 DEF Accept
    <3> DEFINE t == [feed[f] EXCEPT !.pc = "open", !.row = r]
    <3>2. t \in Aimed /\ t.pc = "open" /\ t.conversation = feed[f].conversation
      BY <2>0, AcceptedFacts DEF Alike
    <3> HIDE DEF t
    <3>3. feed' = [feed EXCEPT ![f] = t]
      BY <3>1 DEF t
    <3> QED
      BY <2>0, <2>2, <3>2, <3>3, OneChanges DEF LiveState
  <2> QED
    BY <2>1, <2>2
<1>2. ASSUME NEW f \in Feed, Refuse(f)
      PROVE  Kept
  <2>0. feed[f] \in Aimed /\ feed[f].pc \in {"sent", "adrift"} /\ UNCHANGED <<active, streaming, handle>>
    BY <1>f, <1>2 DEF Refuse, pageVars
  <2>1. CASE feed[f].pc = "adrift"
    <3>1. feed' = [feed EXCEPT ![f] = NoStream]
      BY <1>f, <1>2, <2>1 DEF Refuse
    <3> QED
      BY <2>0, <2>1, <3>1, NoStreamFacts, OneChanges DEF LiveState
  <2>2. CASE feed[f].pc # "adrift"
    <3> DEFINE t == [feed[f] EXCEPT !.pc = "refused"]
    <3>2. t \in Aimed /\ t.pc = "refused" /\ t.conversation = feed[f].conversation
      BY <2>0, StateFacts DEF Alike
    <3>3. feed' = [feed EXCEPT ![f] = t]
      BY <1>f, <1>2, <2>2 DEF Refuse
    <3> HIDE DEF t
    <3> QED
      BY <2>0, <2>2, <3>2, <3>3, OneChanges DEF LiveState
  <2> QED
    BY <2>1, <2>2
<1>3. ASSUME NEW f \in Feed, Attach(f)
      PROVE  Kept
  <2>0. /\ feed[f] \in Aimed /\ feed[f].pc = "sent" /\ feed[f].recovers
        /\ UNCHANGED <<active, streaming, handle>>
    BY <1>f, <1>3 DEF Attach, pageVars
  <2>1. feed[f].row \in Row
    BY <2>0 DEF Aimed
  <2> DEFINE n == row[feed[f].row].text
             x == row[feed[f].row].status
             t == Attaching(feed[f], n, x)
  <2>2. n \in Text /\ x \in Status
    BY <1>f, <2>1 DEF RowRecord
  <2>4. feed' = [feed EXCEPT ![f] = t]
    BY <1>f, <1>3 DEF Attach, Attaching
  <2> HIDE DEF n, x
  <2>3. t \in Aimed /\ t.pc = "attached" /\ t.conversation = feed[f].conversation
    BY <2>0, <2>2, AttachedFacts DEF Alike
  <2> HIDE DEF t
  <2> QED
    BY <2>0, <2>3, <2>4, OneChanges DEF LiveState
<1>4. ASSUME NEW r \in Row, Produce(r) \/ Settle(r)
      PROVE  Kept
  BY <1>4, LiveMeans, LiveMeansNext DEF Produce, Settle, pageVars, Kept
<1> QED
  BY <1>1, <1>2, <1>3, <1>4 DEF Shape

LEMMA FeedShape ==
    ASSUME Typed, OneLive, NEW f \in Feed,
           \/ OnSnapshot(f) \/ OnDelta(f) \/ OnTerminal(f)
           \/ \E l \in Load : OnFailed(f, l) \/ ReadRefusal(f, l) \/ Drop(f, l)
    PROVE  Shape
<1>f. feed \in [Feed -> Aimed] /\ feed[f] \in Aimed /\ row \in [Row -> RowRecord]
  BY DEF Typed, FeedTyped, ServerTyped
<1>1. CASE OnSnapshot(f)
  <2> DEFINE t == [feed[f] EXCEPT !.pc = "open", !.seen = "none"]
  <2>1. feed' = [feed EXCEPT ![f] = t] /\ feed[f].pc = "attached"
        /\ UNCHANGED <<active, streaming, handle>>
    BY <1>1, <1>f DEF OnSnapshot
  <2>2. t \in Aimed /\ t.pc = "open" /\ t.conversation = feed[f].conversation
    BY <1>f, <2>1, SnapshotFacts DEF Alike
  <2> HIDE DEF t
  <2> QED
    BY <2>1, <2>2, OneChanges DEF LiveState, Shape
<1>2. CASE OnDelta(f)
  <2> DEFINE t == [feed[f] EXCEPT !.at = feed[f].at + 1]
  <2>1. feed' = [feed EXCEPT ![f] = t] /\ feed[f].pc = "open"
        /\ UNCHANGED <<active, streaming, handle>>
    BY <1>2, <1>f DEF OnDelta
  <2>2. feed[f].at + 1 \in Text
    <3>1. feed[f].row \in Row /\ feed[f].at \in Text /\ feed[f].at < row[feed[f].row].text
      BY <1>2, <1>f, <2>1 DEF OnDelta, Aimed, Stream
    <3>2. row[feed[f].row].text \in Text
      BY <1>f, <3>1 DEF RowRecord
    <3> QED
      BY <3>1, <3>2, Bounds DEF Text
  <2>3. t \in Aimed /\ t.pc = feed[f].pc /\ t.conversation = feed[f].conversation
    BY <1>f, <2>2, TokenFacts DEF Alike
  <2> HIDE DEF t
  <2> QED
    BY <2>1, <2>3, OneChanges DEF Shape
<1>3. CASE OnTerminal(f)
  <2>1. feed' = [feed EXCEPT ![f] = NoStream] /\ streaming' = FALSE /\ Live(f)
    BY <1>3 DEF OnTerminal, Finish, AtEnd, Live
  <2>2. \A g \in Feed \ {f} : feed'[g].pc \notin LiveState
    BY <1>f, <2>1, Alone, LiveMeans
  <2>3. feed'[f].pc \notin LiveState
    BY <1>f, <2>1, NoStreamFacts
  <2> QED
    BY <2>1, <2>2, <2>3, LiveMeansNext DEF Silenced, Shape
<1>4. ASSUME NEW l \in Load, OnFailed(f, l) \/ ReadRefusal(f, l) \/ Drop(f, l)
      PROVE  Shape
  <2>0. Failed(f, l)
    BY <1>4 DEF OnFailed, ReadRefusal, Drop
  <2>1. CASE feed[f].pc = "rejected" /\ streaming
    <3>1. stray'
      BY <1>4, <2>1 DEF OnFailed, AtEnd, ReadRefusal, Drop
    <3>2. feed'[f].pc = "idle"
      <4> DEFINE ended == [feed EXCEPT ![f] = NoStream]
      <4>1. feed' = ended \/ LoadMessages(l, ended, shown, active)
        BY <1>f, <2>0, <2>1 DEF Failed
      <4>2. ended \in [Feed -> Aimed] /\ ended[f].pc = "idle"
        BY <1>f, NoStreamFacts
      <4> HIDE DEF ended
      <4>3. feed' = ended \/ feed' = Off(ended)
        BY <4>1 DEF LoadMessages
      <4>4. Off(ended)[f].pc = "idle"
        BY <4>2, OffFacts DEF Alike
      <4> QED
        BY <4>2, <4>3, <4>4
    <3> QED
      BY <2>1, <3>1, <3>2 DEF Overtaken, Beside, Shape
  <2>2. CASE feed[f].pc # "rejected" \/ ~streaming
    <3>1. Failed(f, l) /\ (Live(f) \/ ~streaming)
      BY <1>4, <2>0, <2>2 DEF OnFailed, AtEnd, ReadRefusal, Drop, Live
    <3> DEFINE ended == [feed EXCEPT ![f] = IF feed[f].pc = "sent" THEN Aborted(feed[f]) ELSE NoStream]
    <3>2. Aborted(feed[f]) \in Aimed /\ Aborted(feed[f]).pc \notin LiveState
      BY <1>f, AbortedFacts DEF LiveState
    <3>3. ended \in [Feed -> Aimed]
      BY <1>f, <3>2, NoStreamFacts
    <3>4. \A g \in Feed : ended[g].pc \notin LiveState
      <4>1. \A g \in Feed \ {f} : feed[g].pc \notin LiveState
        BY <3>1, Alone, LiveMeans
      <4>2. \A g \in Feed \ {f} : ended[g] = feed[g]
        BY <1>f
      <4>3. ended[f].pc \notin LiveState
        BY <1>f, <3>2, NoStreamFacts
      <4> QED
        BY <4>1, <4>2, <4>3
    <3>5. streaming' = FALSE
      BY <3>1 DEF Failed, Finish
    <3>6. feed' = ended \/ LoadMessages(l, ended, shown, active)
      BY <3>1, <1>f DEF Failed
    <3> HIDE DEF ended
    <3>7. Silenced
      <4>1. CASE feed' = ended
        BY <3>4, <3>5, <4>1, LiveMeansNext DEF Silenced
      <4>2. CASE LoadMessages(l, ended, shown, active)
        BY <3>3, <3>4, <3>5, <4>2, LoadSilences
      <4> QED
        BY <3>6, <4>1, <4>2
    <3> QED
      BY <3>7 DEF Shape
  <2> QED
    BY <2>1, <2>2
<1> QED
  BY <1>1, <1>2, <1>3, <1>4

LEMMA OpeningShape ==
    ASSUME Typed, OneLive,
           \/ \E l \in Load : \/ ReadConversation(l) \/ LoadFails(l) \/ Refresh(l)
                              \/ \E f \in Feed : LoadArrives(l, f)
                              \/ \E c \in Conversation : SelectConversation(c, l)
           \/ StartNewConversation
           \/ \E f \in Feed : ComeOnline(f)
    PROVE  Shape
<1>f. feed \in [Feed -> Aimed] /\ recovery \in Row \cup {NoRow}
  BY DEF Typed, FeedTyped, PageTyped
<1>o. /\ Off(feed) \in [Feed -> Aimed]
      /\ \A f \in Feed : /\ Off(feed)[f].pc = feed[f].pc
                         /\ Off(feed)[f].conversation = feed[f].conversation
  BY <1>f, OffFacts DEF Alike
<1>1. ASSUME NEW l \in Load, ReadConversation(l) \/ LoadFails(l)
      PROVE  Kept
  BY <1>1, LiveMeans, LiveMeansNext DEF ReadConversation, LoadFails, pageVars, Kept
<1>2. ASSUME NEW l \in Load, Refresh(l)
      PROVE  Silenced
  <2>1. \A f \in Feed : Aborted(feed[f]).pc \notin LiveState
    BY <1>f, AbortedFacts DEF LiveState
  <2>2. \A f \in Feed : feed'[f].pc \notin LiveState
    BY <1>2, <2>1, NoStreamFacts DEF Refresh
  <2> QED
    BY <1>2, <2>2, LiveMeansNext DEF Refresh, Finish, Silenced
<1>3. ASSUME NEW l \in Load, NEW f \in Feed, LoadArrives(l, f)
      PROVE  Kept \/ Begun(f)
  <2>1. active' = active
    BY <1>3 DEF LoadArrives
  <2>2. CASE feed' = Off(feed) /\ UNCHANGED <<streaming, handle>>
    BY <1>o, <2>1, <2>2, LiveMeans, LiveMeansNext DEF Kept
  <2>3. CASE \E r \in Row : Recover(f, r, Off(feed))
    BY <1>o, <2>1, <2>3, RecoverShapes
  <2> QED
    BY <1>3, <2>2, <2>3 DEF LoadArrives
<1>4. ASSUME NEW l \in Load, NEW c \in Conversation, SelectConversation(c, l)
      PROVE  Silenced
  BY <1>4, AbortTyped, AbortSilences, LoadSilences DEF SelectConversation, Finish
<1>5. CASE StartNewConversation
  <2>1. Detach \in [Feed -> Aimed]
    BY AbortTyped
  <2>2. \A f \in Feed : Off(Detach)[f].pc = Detach[f].pc
    BY <2>1, OffFacts DEF Alike
  <2>3. feed' = Off(Detach) /\ streaming' = FALSE
    BY <1>5 DEF StartNewConversation, Finish
  <2> QED
    BY <2>2, <2>3, AbortSilences, LiveMeansNext DEF Silenced, Shape
<1>6. ASSUME NEW f \in Feed, ComeOnline(f)
      PROVE  Kept \/ Begun(f)
  <2>1. active' = active
    BY <1>6 DEF ComeOnline
  <2>2. CASE UNCHANGED <<feed, streaming, handle>>
    BY <2>1, <2>2, LiveMeans, LiveMeansNext DEF Kept
  <2>3. CASE recovery # NoRow /\ Recover(f, recovery, feed)
    <3>1. recovery \in Row
      BY <1>f, <2>3
    <3> QED
      BY <1>f, <2>1, <2>3, <3>1, RecoverShapes
  <2> QED
    BY <1>6, <2>2, <2>3 DEF ComeOnline
<1> QED
  BY <1>1, <1>2, <1>3, <1>4, <1>5, <1>6 DEF Shape

LEMMA StopShape ==
    ASSUME Typed, OneLive, StopStreaming \/ StopReaches \/ StopAnswered \/ StopLost
    PROVE  Shape
<1>1. CASE StopStreaming
  BY <1>1, AbortSilences, LiveMeansNext DEF StopStreaming, Finish, Silenced, Shape
<1>2. CASE StopReaches \/ StopAnswered \/ StopLost
  <2>1. UNCHANGED <<active, streaming, handle, feed>>
    BY <1>2 DEF StopReaches, StopAnswered, StopLost, pageVars
  <2> QED
    BY <2>1, LiveMeans, LiveMeansNext DEF Kept, Shape
<1> QED
  BY <1>1, <1>2

\* What happened once is remembered.
LEMMA StrayStays == stray /\ [Next]_vars => stray'
<1> SUFFICES ASSUME stray, [Next]_vars PROVE stray'
  OBVIOUS
<1>1. CASE Next
  BY <1>1
  DEF Next, Send, Retry, Created, SendGoesOn, CreationFails, Accept, Refuse, Attach, Produce,
      Settle, OnSnapshot, OnDelta, OnTerminal, OnFailed, ReadRefusal, Drop, ReadConversation,
      LoadArrives, LoadFails, SelectConversation, StartNewConversation, Refresh, ComeOnline,
      StopStreaming, StopReaches, StopAnswered, StopLost
<1> QED
  BY <1>1 DEF vars

LEMMA OneLiveNext == Typed /\ OneLive /\ [Next]_vars => OneLive' \/ Beside
<1> SUFFICES ASSUME Typed, OneLive, [Next]_vars PROVE OneLive' \/ Beside
  OBVIOUS
<1>1. CASE UNCHANGED vars
  <2>1. UNCHANGED <<active, streaming, handle, feed>>
    BY <1>1 DEF vars, pageVars
  <2>2. Kept
    BY <2>1, LiveMeans, LiveMeansNext DEF Kept
  <2> QED
    BY <2>2, ShapeIsEnough DEF Shape
<1>2. CASE Next
  <2>1. Shape
    BY <1>2, SendShape, ServerShape, FeedShape, OpeningShape, StopShape DEF Next
  <2> QED
    BY <2>1, ShapeIsEnough
<1> QED
  BY <1>1, <1>2

\* A page that streams exactly while the one feed it can abort is alive, that
\* feed being of the open conversation, stays one in every step but that of a
\* send which resumes while the page streams: created by now, stored its model
\* by now, or aborted before its refusal was read.
THEOREM OneLiveFeed == Spec => KeepsOneLive
<1>1. Typed /\ [Next]_vars => [OneLive /\ ~OneLive' => Overtaken]_vars
  BY OneLiveNext DEF Beside
<1>2. Spec => []Typed
  BY AlwaysTyped
<1> QED
  BY <1>1, <1>2, PTL DEF Spec, KeepsOneLive

\* Until the first such step the page is always one.
LEMMA OneLiveBefore == Spec => [](stray \/ OneLive)
<1>1. Init => stray \/ OneLive
  BY DEF Init, OneLive, Live, NoStream
<1>2. Typed /\ (stray \/ OneLive) /\ [Next]_vars => (stray \/ OneLive)'
  BY OneLiveNext, StrayStays DEF Beside
<1>3. Spec => []Typed
  BY AlwaysTyped
<1> QED
  BY <1>1, <1>2, <1>3, PTL DEF Spec

-----------------------------------------------------------------------------
(* What the screen shows.  A view tells of a row no more than there is, and  *)
(* "completed" only of the whole.  Loads, snapshots and the screen tell the  *)
(* truth, and a recovery appends to exactly what it has delivered, unless    *)
(* the answer of a Stop was written over it.                                 *)

Tells(v, x) ==
    /\ v.text <= x.text
    /\ v.status = "completed" => x.status = "completed" /\ v.text = x.text

Spared == IF stop.pc = "over" THEN stop.row ELSE NoRow
Appends(f) == feed[f].pc = "open" /\ feed[f].recovers /\ feed[f].on

RowsFresh == \A r \in Row : row[r].status = "none" => row[r].text = 0
LoadsTrue == \A l \in Load : load[l].pc = "read" => \A r \in Row : Tells(load[l].view[r], row[r])
ShownTrue == \A r \in Row \ {Spared} : Tells(shown[r], row[r])
SnapshotsTrue ==
    \A f \in Feed : feed[f].pc = "attached" =>
        Tells([status |-> feed[f].seen, text |-> feed[f].at], row[feed[f].row])
AppendsTrue ==
    \A f \in Feed : Appends(f) /\ feed[f].row # Spared => shown[feed[f].row].text = feed[f].at

FeedsTrue == ShownTrue /\ SnapshotsTrue /\ AppendsTrue
Truth == RowsFresh /\ LoadsTrue /\ FeedsTrue

\* Rows only grow, and a completed one is final.
Grown ==
    \A r \in Row : /\ row[r].text <= row'[r].text
                   /\ row[r].status = "completed" => row'[r] = row[r]

\* How a row ends.
Ended == {"interrupted", "completed", "failed"}

LEMMA RowTypes ==
    ASSUME Typed
    PROVE  /\ \A r \in Row : row[r].text \in Text /\ row[r].text \in Nat /\ row[r].status \in Status
           /\ \A r \in Row : shown[r].text \in Nat /\ shown[r].status \in Status
           /\ \A f \in Feed : /\ feed[f].at \in Text /\ feed[f].at \in Nat /\ feed[f].seen \in Status
                              /\ feed[f].row \in Row \cup {NoRow}
                              /\ feed[f].recovers \in BOOLEAN
                              /\ feed[f].recovers \/ feed[f].pc \in {"attached", "open"} =>
                                    feed[f].row \in Row
<1>1. row \in [Row -> RowRecord] /\ shown \in [Row -> Shown] /\ feed \in [Feed -> Aimed]
  BY DEF Typed, ServerTyped, PageTyped, FeedTyped
<1>2. \A r \in Row : row[r] \in RowRecord /\ shown[r] \in Shown
  BY <1>1
<1>3. \A f \in Feed : feed[f] \in Aimed
  BY <1>1
<1>4. \A r \in Row : row[r].text \in Text /\ row[r].status \in Status
  BY <1>2 DEF RowRecord
<1>5. \A r \in Row : shown[r].text \in Nat /\ shown[r].status \in Status
  BY <1>2 DEF Shown
<1>6. \A f \in Feed : /\ feed[f].at \in Text /\ feed[f].seen \in Status
                      /\ feed[f].row \in Row \cup {NoRow}
                      /\ feed[f].recovers \in BOOLEAN
                      /\ feed[f].recovers \/ feed[f].pc \in {"attached", "open"} => feed[f].row \in Row
  BY <1>3 DEF Aimed, Stream
<1> QED
  BY <1>4, <1>5, <1>6, Names

LEMMA TellsOn ==
    ASSUME Typed, Typed', Grown, NEW r \in Row, NEW v, v.text \in Nat, Tells(v, row[r])
    PROVE  Tells(v, row'[r])
<1>1. row[r].text \in Nat /\ row'[r].text \in Nat
  <2>1. \A q \in Row : row[q].text \in Nat
    BY RowTypes
  <2>2. \A q \in Row : row'[q].text \in Text
    <3>1. row' \in [Row -> RowRecord]
      BY DEF Typed, ServerTyped
    <3>2. \A q \in Row : row'[q] \in RowRecord
      BY <3>1
    <3> QED
      BY <3>2 DEF RowRecord
  <2> QED
    BY <2>1, <2>2, Names
<1> QED
  BY <1>1 DEF Grown, Tells

\* A row that is new is empty, so that rows grow in every step.
LEMMA RowsGrow ==
    ASSUME Typed, RowsFresh, [Next]_vars
    PROVE  Grown /\ RowsFresh'
<1>t. row \in [Row -> RowRecord] /\ \A r \in Row : row[r].text \in Nat
  BY RowTypes DEF Typed, ServerTyped
<1>s. CASE UNCHANGED row
  BY <1>s, <1>t DEF Grown, RowsFresh
<1>1. ASSUME NEW f \in Feed, Accept(f)
      PROVE  Grown /\ RowsFresh'
  <2>1. PICK r \in Row :
          /\ row[r].status = "none"
          /\ row' = [row EXCEPT ![r] = [conversation |-> feed[f].conversation, status |-> "open", text |-> 0]]
    BY <1>1 DEF Accept
  <2>2. row[r].text = 0
    BY <2>1 DEF RowsFresh
  <2>3. /\ row'[r] = [conversation |-> feed[f].conversation, status |-> "open", text |-> 0]
        /\ \A q \in Row \ {r} : row'[q] = row[q]
    BY <1>t, <2>1
  <2>4. row'[r].status = "open" /\ row'[r].text = 0
    BY <2>3
  <2>5. Grown
    BY <1>t, <2>1, <2>2, <2>3, <2>4 DEF Grown
  <2>6. RowsFresh'
    BY <2>3, <2>4 DEF RowsFresh
  <2> QED
    BY <2>5, <2>6
<1>2. ASSUME NEW r \in Row, Produce(r)
      PROVE  Grown /\ RowsFresh'
  <2>1. row' = [row EXCEPT ![r] = [row[r] EXCEPT !.text = row[r].text + 1]] /\ row[r].status = "open"
    BY <1>2, <1>t DEF Produce
  <2>2. row[r] \in RowRecord
    BY <1>t
  <2>3. [row[r] EXCEPT !.text = row[r].text + 1].text = row[r].text + 1
        /\ [row[r] EXCEPT !.text = row[r].text + 1].status = row[r].status
    BY <2>2 DEF RowRecord
  <2>4. \A q \in Row \ {r} : row'[q] = row[q]
    BY <1>t, <2>1
  <2>5. row'[r].text = row[r].text + 1 /\ row'[r].status = "open"
    BY <1>t, <2>1, <2>3
  <2> QED
    BY <1>t, <2>1, <2>4, <2>5 DEF Grown, RowsFresh
<1>3. ASSUME NEW r \in Row, Settle(r)
      PROVE  Grown /\ RowsFresh'
  <2>1. PICK x \in {"completed", "failed"} : row' = [row EXCEPT ![r] = [row[r] EXCEPT !.status = x]]
    BY <1>3, <1>t DEF Settle
  <2>2. row[r] \in RowRecord /\ row[r].status = "open"
    BY <1>3, <1>t DEF Settle
  <2>3. [row[r] EXCEPT !.status = x].text = row[r].text /\ [row[r] EXCEPT !.status = x].status = x
    BY <2>2 DEF RowRecord
  <2>4. \A q \in Row \ {r} : row'[q] = row[q]
    BY <1>t, <2>1
  <2>5. row'[r].text = row[r].text /\ row'[r].status # "none"
    BY <1>t, <2>1, <2>3
  <2> QED
    BY <1>t, <2>2, <2>4, <2>5 DEF Grown, RowsFresh
<1>4. CASE StopReaches
  <2>1. ASSUME NEW r \in Row
        PROVE  \/ row'[r] = row[r]
               \/ /\ row[r].status = "open"
                  /\ \E x \in Ended : row'[r] = [row[r] EXCEPT !.status = x]
    <3> DEFINE open == {q \in Row : row[q].status = "open" /\ row[q].conversation = stop.conversation}
    <3>1. PICK ends \in [open -> Ended] :
            row' = [q \in Row |-> IF q \in open THEN [row[q] EXCEPT !.status = ends[q]] ELSE row[q]]
      BY <1>4 DEF StopReaches, Ended
    <3>2. CASE r \in open
      <4>1. ends[r] \in Ended /\ row'[r] = [row[r] EXCEPT !.status = ends[r]] /\ row[r].status = "open"
        BY <3>1, <3>2
      <4> QED
        BY <4>1
    <3>3. CASE r \notin open
      BY <3>1, <3>3
    <3> QED
      BY <3>2, <3>3
  <2>2. ASSUME NEW r \in Row, NEW x \in Ended
        PROVE  /\ [row[r] EXCEPT !.status = x].text = row[r].text
               /\ [row[r] EXCEPT !.status = x].status \in Ended
    <3>1. row[r] \in RowRecord
      BY <1>t
    <3> QED
      BY <3>1 DEF RowRecord
  <2>3. ASSUME NEW r \in Row
        PROVE  /\ row'[r].text = row[r].text
               /\ row'[r] = row[r] \/ (row[r].status = "open" /\ row'[r].status \in Ended)
    BY <2>1, <2>2
  <2> QED
    BY <1>t, <2>3 DEF Grown, RowsFresh, Ended
<1> QED
  <2>1. CASE UNCHANGED vars
    BY <1>s, <2>1 DEF vars, serverVars
  <2>2. CASE Next
    <3>1. \/ UNCHANGED row
          \/ \E f \in Feed : Accept(f)
          \/ \E r \in Row : Produce(r) \/ Settle(r)
          \/ StopReaches
      BY ZenonT(60), <2>2
      DEF Next, serverVars, Send, Retry, Created, SendGoesOn, CreationFails, Refuse, Attach,
          OnSnapshot, OnDelta, OnTerminal, OnFailed, ReadRefusal, Drop, Failed, ReadConversation,
          LoadArrives, LoadFails, SelectConversation, StartNewConversation, Refresh, ComeOnline,
          StopStreaming, StopAnswered, StopLost
    <3> QED
      BY <1>s, <1>1, <1>2, <1>3, <1>4, <3>1
  <2> QED
    BY <2>1, <2>2

\* A load that has its answer still has it.
LoadsKept == \A k \in Load : load'[k].pc = "read" => load'[k] = load[k]

LEMMA LoadMessagesKeeps ==
    ASSUME Typed, NEW l \in Load, NEW feeds, NEW rows, NEW c, LoadMessages(l, feeds, rows, c)
    PROVE  LoadsKept
<1>1. load \in [Load -> LoadRecord]
  BY DEF Typed, LoadTyped
<1>2. load' = load \/ load' = [load EXCEPT ![l] = [NoLoad EXCEPT !.pc = "asked", !.conversation = c]]
  BY DEF LoadMessages
<1>3. [NoLoad EXCEPT !.pc = "asked", !.conversation = c].pc = "asked"
  BY DEF NoLoad
<1> QED
  BY <1>1, <1>2, <1>3 DEF LoadsKept

LEMMA LoadsChange ==
    ASSUME Typed, [Next]_vars
    PROVE  LoadsKept \/ \E l \in Load : ReadConversation(l)
<1>t. load \in [Load -> LoadRecord]
  BY DEF Typed, LoadTyped
<1>n. NoLoad.pc = "idle"
  BY DEF NoLoad
<1>1. CASE UNCHANGED load
  BY <1>1 DEF LoadsKept
<1>2. ASSUME NEW f \in Feed, NEW l \in Load, OnFailed(f, l) \/ ReadRefusal(f, l) \/ Drop(f, l)
      PROVE  LoadsKept
  <2>1. Failed(f, l)
    BY <1>2 DEF OnFailed, ReadRefusal, Drop
  <2> DEFINE asked == [NoLoad EXCEPT !.pc = "asked", !.conversation = active]
  <2>2. load' = load \/ load' = [load EXCEPT ![l] = asked]
    BY <2>1 DEF Failed, LoadMessages
  <2>3. asked.pc = "asked"
    BY DEF NoLoad
  <2> QED
    BY <1>t, <2>2, <2>3 DEF LoadsKept
<1>3. ASSUME NEW l \in Load, LoadFails(l) \/ \E f \in Feed : LoadArrives(l, f)
      PROVE  LoadsKept
  <2>1. load' = [load EXCEPT ![l] = NoLoad]
    BY <1>3 DEF LoadFails, LoadArrives
  <2> QED
    BY <1>t, <1>n, <2>1 DEF LoadsKept
<1>4. ASSUME NEW l \in Load, Refresh(l)
      PROVE  LoadsKept
  <2>1. load' = [k \in Load |-> IF k = l THEN [NoLoad EXCEPT !.pc = "asked", !.conversation = active]
                                ELSE NoLoad]
    BY <1>4 DEF Refresh
  <2>2. [NoLoad EXCEPT !.pc = "asked", !.conversation = active].pc = "asked"
    BY DEF NoLoad
  <2> QED
    BY <1>n, <2>1, <2>2 DEF LoadsKept
<1>5. ASSUME NEW l \in Load, NEW c \in Conversation, SelectConversation(c, l)
      PROVE  LoadsKept
  BY <1>5, LoadMessagesKeeps DEF SelectConversation
<1>6. CASE UNCHANGED vars
  BY <1>1, <1>6 DEF vars
<1>7. CASE Next
  <2>1. \/ UNCHANGED load
        \/ \E f \in Feed, l \in Load : OnFailed(f, l) \/ ReadRefusal(f, l) \/ Drop(f, l)
        \/ \E l \in Load : LoadFails(l) \/ \E f \in Feed : LoadArrives(l, f)
        \/ \E l \in Load : Refresh(l) \/ \E c \in Conversation : SelectConversation(c, l)
        \/ \E l \in Load : ReadConversation(l)
    BY <1>7
    DEF Next, Send, Retry, Created, SendGoesOn, CreationFails, Accept, Refuse, Attach, Produce,
        Settle, OnSnapshot, OnDelta, OnTerminal, StartNewConversation, ComeOnline,
        StopStreaming, StopReaches, StopAnswered, StopLost
  <2> QED
    BY <1>1, <1>2, <1>3, <1>4, <1>5, <2>1
<1> QED
  BY <1>6, <1>7

\* What a load brings is what was persisted when it was read.
LEMMA LoadsTell ==
    ASSUME Typed, Typed', LoadsTrue, Grown, [Next]_vars
    PROVE  LoadsTrue'
<1>t. load \in [Load -> LoadRecord]
  BY DEF Typed, LoadTyped
<1>v. ASSUME NEW k \in Load, NEW r \in Row
      PROVE  load[k].view[r].text \in Nat
  <2>1. load[k].view \in [Row -> View]
    <3>1. load[k] \in LoadRecord
      BY <1>t
    <3> QED
      BY <3>1 DEF LoadRecord
  <2>2. load[k].view[r] \in View
    BY <2>1
  <2> QED
    BY <2>2, Names DEF View, Text
<1>1. ASSUME NEW k \in Load, load[k].pc = "read", NEW r \in Row
      PROVE  Tells(load[k].view[r], row'[r])
  BY <1>1, <1>v, TellsOn DEF LoadsTrue
<1>2. CASE LoadsKept
  <2> SUFFICES ASSUME NEW k \in Load, load'[k].pc = "read", NEW r \in Row
               PROVE  Tells(load'[k].view[r], row'[r])
    BY DEF LoadsTrue, Tells
  <2>1. load'[k] = load[k]
    BY <1>2 DEF LoadsKept
  <2> QED
    BY <1>1, <2>1
<1>3. ASSUME NEW l \in Load, ReadConversation(l)
      PROVE  LoadsTrue'
  <2>1. PICK text \in [Row -> Text] :
          /\ \A r \in Row : IF row[r].status = "open" THEN text[r] <= row[r].text ELSE text[r] = row[r].text
          /\ load' = [load EXCEPT ![l].pc = "read",
                      ![l].view = [r \in Row |-> IF row[r].conversation = load[l].conversation
                                                 THEN [status |-> row[r].status, text |-> text[r]]
                                                 ELSE NoView]]
    BY <1>3 DEF ReadConversation, Text
  <2> DEFINE view == [r \in Row |-> IF row[r].conversation = load[l].conversation
                                    THEN [status |-> row[r].status, text |-> text[r]]
                                    ELSE NoView]
  <2>2. ASSUME NEW r \in Row PROVE Tells(view[r], row[r])
    <3>1. row[r].text \in Nat /\ text[r] \in Nat
      BY RowTypes, Names
    <3>2. CASE row[r].conversation = load[l].conversation
      <4>1. view[r].status = row[r].status /\ view[r].text = text[r]
        BY <3>2
      <4> HIDE DEF view
      <4> QED
        BY <2>1, <3>1, <4>1 DEF Tells
    <3>3. CASE row[r].conversation # load[l].conversation
      <4>1. view[r].status = "none" /\ view[r].text = 0
        BY <3>3 DEF NoView
      <4> HIDE DEF view
      <4> QED
        BY <3>1, <4>1 DEF Tells
    <3> QED
      BY <3>2, <3>3
  <2>3. load' = [load EXCEPT ![l] = [load[l] EXCEPT !.pc = "read", !.view = view]]
    BY <2>1, <1>t
  <2>4. load[l] \in LoadRecord
    BY <1>t
  <2> HIDE DEF view
  <2>5. [load[l] EXCEPT !.pc = "read", !.view = view].view = view
    BY <2>4 DEF LoadRecord
  <2>6. load'[l].view = view /\ \A k \in Load \ {l} : load'[k] = load[k]
    BY <1>t, <2>3, <2>5
  <2>7. row' = row
    BY <1>3 DEF ReadConversation, serverVars
  <2> SUFFICES ASSUME NEW k \in Load, load'[k].pc = "read", NEW r \in Row
               PROVE  Tells(load'[k].view[r], row'[r])
    BY DEF LoadsTrue, Tells
  <2>8. CASE k = l
    BY <2>2, <2>6, <2>7, <2>8
  <2>9. CASE k # l
    <3>1. load'[k] = load[k]
      BY <2>6, <2>9
    <3> QED
      BY <1>1, <3>1
  <2> QED
    BY <2>8, <2>9
<1> QED
  BY <1>2, <1>3, LoadsChange

\* Feeds change so that none tells or appends anything new.
Calm(f) ==
    /\ feed'[f].pc = "attached" =>
          /\ feed[f].pc = "attached" /\ feed'[f].row = feed[f].row
          /\ feed'[f].at = feed[f].at /\ feed'[f].seen = feed[f].seen
    /\ feed'[f].pc = "open" /\ feed'[f].recovers /\ feed'[f].on =>
          /\ Appends(f)
          /\ feed'[f].row = feed[f].row /\ feed'[f].at = feed[f].at

\* What a step may write on the screen: what there is, or an interruption.
Written ==
    \A r \in Row :
        \/ shown'[r] = shown[r]
        \/ shown'[r].text = shown[r].text /\ shown'[r].status = "interrupted"
        \/ Tells(shown'[r], row'[r])

\* Nothing is written over what a recovery appends to.
Unwritten ==
    \A f \in Feed : feed'[f].pc = "open" /\ feed'[f].recovers /\ feed'[f].on =>
        \/ feed'[f].row = Spared'
        \/ shown'[feed'[f].row].text = shown[feed'[f].row].text

SparedStays == Spared' = Spared \/ Spared = NoRow

LEMMA ShownTells ==
    ASSUME Typed, Typed', ShownTrue, Grown, SparedStays, Written
    PROVE  ShownTrue'
<1>1. ASSUME NEW r \in Row \ {Spared'}
      PROVE  Tells(shown'[r], row'[r])
  <2>1. r \in Row /\ r # Spared
    BY DEF SparedStays, Row, NoRow
  <2>2. shown[r].text \in Nat
    BY <2>1, RowTypes
  <2>3. Tells(shown[r], row'[r])
    BY <2>1, <2>2, TellsOn DEF ShownTrue
  <2>4. CASE shown'[r].text = shown[r].text /\ shown'[r].status = "interrupted"
    BY <2>3, <2>4 DEF Tells
  <2> QED
    BY <2>1, <2>3, <2>4 DEF Written
<1> QED
  BY <1>1 DEF ShownTrue, Tells

LEMMA SnapshotsTell ==
    ASSUME Typed, Typed', SnapshotsTrue, Grown, \A f \in Feed : Calm(f)
    PROVE  SnapshotsTrue'
<1>1. ASSUME NEW f \in Feed, feed'[f].pc = "attached"
      PROVE  Tells([status |-> feed'[f].seen, text |-> feed'[f].at], row'[feed'[f].row])
  <2>1. /\ feed[f].pc = "attached" /\ feed'[f].row = feed[f].row
        /\ feed'[f].at = feed[f].at /\ feed'[f].seen = feed[f].seen
    BY <1>1 DEF Calm
  <2>2. feed[f].row \in Row /\ feed[f].at \in Nat
    BY <2>1, RowTypes
  <2> DEFINE v == [status |-> feed[f].seen, text |-> feed[f].at]
  <2>3. v.text \in Nat /\ Tells(v, row[feed[f].row])
    BY <2>1, <2>2 DEF SnapshotsTrue
  <2> HIDE DEF v
  <2>4. Tells(v, row'[feed[f].row])
    BY <2>2, <2>3, TellsOn
  <2> QED
    BY <2>1, <2>4 DEF v
<1> QED
  BY <1>1 DEF SnapshotsTrue, Tells

LEMMA AppendsTell ==
    ASSUME AppendsTrue, SparedStays, Unwritten, \A f \in Feed : Calm(f), Typed
    PROVE  AppendsTrue'
<1> SUFFICES ASSUME NEW f \in Feed, feed'[f].pc = "open", feed'[f].recovers, feed'[f].on,
                    feed'[f].row # Spared'
             PROVE  shown'[feed'[f].row].text = feed'[f].at
  BY DEF AppendsTrue, Appends
<1>1. Appends(f) /\ feed'[f].row = feed[f].row /\ feed'[f].at = feed[f].at
  BY DEF Calm
<1>2. feed[f].row # Spared
  <2>1. feed[f].row \in Row
    BY <1>1, RowTypes DEF Appends
  <2> QED
    BY <1>1, <2>1 DEF SparedStays, Row, NoRow
<1>3. shown[feed[f].row].text = feed[f].at
  BY <1>1, <1>2 DEF AppendsTrue
<1>4. shown'[feed'[f].row].text = shown[feed'[f].row].text
  BY DEF Unwritten
<1> QED
  BY <1>1, <1>3, <1>4

LEMMA FeedsTell ==
    ASSUME Typed, Typed', FeedsTrue, Grown, SparedStays, Written, Unwritten,
           \A f \in Feed : Calm(f)
    PROVE  FeedsTrue'
<1>1. ShownTrue' /\ SnapshotsTrue'
  BY ShownTells, SnapshotsTell DEF FeedsTrue
<1>2. AppendsTrue'
  BY AppendsTell DEF FeedsTrue
<1> QED
  BY <1>1, <1>2 DEF FeedsTrue

\* A row is spared from when the page has the answer of its Stop.
LEMMA SparedOnce ==
    ASSUME Typed, [Next]_vars
    PROVE  SparedStays
<1>t. stop \in StopRecord
  BY DEF Typed, StopTyped
<1>1. CASE UNCHANGED stop
  BY <1>1 DEF SparedStays, Spared
<1>2. CASE stop.pc # "over"
  BY <1>2 DEF SparedStays, Spared
<1>3. CASE UNCHANGED vars
  BY <1>1, <1>3 DEF vars
<1>4. CASE Next
  <2>1. CASE StopStreaming \/ StopReaches \/ StopAnswered \/ StopLost
    BY <1>2, <2>1 DEF StopStreaming, StopReaches, StopAnswered, StopLost
  <2>2. ASSUME NEW l \in Load, Refresh(l)
        PROVE  SparedStays
    BY <1>1, <1>2, <2>2 DEF Refresh
  <2>3. ASSUME NEW f \in Feed, NEW l \in Load, OnFailed(f, l) \/ ReadRefusal(f, l) \/ Drop(f, l)
        PROVE  UNCHANGED stop
    BY <2>3 DEF OnFailed, ReadRefusal, Drop, Failed
  <2>4. \/ UNCHANGED stop
        \/ StopStreaming \/ StopReaches \/ StopAnswered \/ StopLost
        \/ \E l \in Load : Refresh(l)
        \/ \E f \in Feed, l \in Load : OnFailed(f, l) \/ ReadRefusal(f, l) \/ Drop(f, l)
    BY <1>4
    DEF Next, Send, Retry, Created, SendGoesOn, CreationFails, Accept, Refuse, Attach, Produce,
        Settle, OnSnapshot, OnDelta, OnTerminal, ReadConversation, LoadArrives, LoadFails,
        SelectConversation, StartNewConversation, ComeOnline
  <2> QED
    BY <1>1, <2>1, <2>2, <2>3, <2>4
<1> QED
  BY <1>3, <1>4

\* The screen is left alone, or nothing delivers any more.
LEMMA ScreenStays == shown' = shown => Written /\ Unwritten
BY DEF Written, Unwritten

LEMMA NoDelivery ==
    ASSUME \A f \in Feed : feed'[f].pc \notin {"attached", "open"}
    PROVE  Unwritten /\ \A f \in Feed : Calm(f)
BY DEF Unwritten, Calm

LEMMA Unmoved == \A f \in Feed : feed'[f] = feed[f] => Calm(f)
BY DEF Calm, Appends

\* One feed goes where it delivers nothing.
LEMMA CalmChange ==
    ASSUME Typed, NEW f \in Feed, NEW t, feed' = [feed EXCEPT ![f] = t],
           t.pc \notin {"attached", "open"}
    PROVE  \A g \in Feed : Calm(g)
<1>1. feed'[f] = t /\ \A g \in Feed \ {f} : feed'[g] = feed[g]
  BY DEF Typed, FeedTyped
<1> QED
  BY <1>1, Unmoved DEF Calm

\* When nothing is live but what takes the step, nothing delivers afterwards.
LEMMA DeliversNoMore ==
    ASSUME Typed, NEW f \in Feed, NEW t, feed' = [feed EXCEPT ![f] = t],
           t.pc \notin {"attached", "open"}, \A g \in Feed \ {f} : ~Live(g)
    PROVE  \A g \in Feed : feed'[g].pc \notin {"attached", "open"}
<1>1. feed'[f] = t /\ \A g \in Feed \ {f} : feed'[g] = feed[g]
  BY DEF Typed, FeedTyped
<1> QED
  BY <1>1 DEF Live

\* A page silenced by its own abort, and by a load.
LEMMA SilentDelivery ==
    Silenced => \A f \in Feed : feed'[f].pc \notin {"attached", "open"}
BY LiveMeansNext DEF Silenced, LiveState

\* A send that begins.
LEMMA BeginSendCalm ==
    ASSUME Typed, NEW f \in Feed, GoOut(f) \/ BeginSend(f)
    PROVE  /\ \A g \in Feed : Calm(g)
           /\ (\A g \in Feed : ~Live(g)) => \A g \in Feed : feed'[g].pc \notin {"attached", "open"}
<1>1. feed \in [Feed -> Aimed] /\ feed[f] \in Aimed /\ active \in Anywhere
  BY DEF Typed, FeedTyped, PageTyped
<1>2. Outgoing(active).pc = "sent" /\ [feed[f] EXCEPT !.pc = "creating"].pc = "creating"
  BY <1>1, OutgoingFacts, StateFacts
<1>3. \/ feed' = [feed EXCEPT ![f] = [feed[f] EXCEPT !.pc = "creating"]]
      \/ feed' = [feed EXCEPT ![f] = Outgoing(active)]
  BY <1>1 DEF BeginSend, GoOut, Outgoing
<1>4. CASE feed' = [feed EXCEPT ![f] = Outgoing(active)]
  BY <1>2, <1>4, CalmChange, DeliversNoMore
<1> DEFINE t == [feed[f] EXCEPT !.pc = "creating"]
<1>5. CASE feed' = [feed EXCEPT ![f] = t]
  <2>1. t.pc = "creating"
    BY <1>2
  <2> HIDE DEF t
  <2> QED
    BY <1>5, <2>1, CalmChange, DeliversNoMore
<1> QED
  BY <1>3, <1>4, <1>5

Premises == Typed /\ Typed' /\ FeedsTrue /\ OneLive /\ Grown /\ SparedStays

LEMMA EmptyTells ==
    ASSUME Typed'
    PROVE  \A r \in Row : Tells(NoView, row'[r])
<1>1. row' \in [Row -> RowRecord]
  BY DEF Typed, ServerTyped
<1>2. \A r \in Row : row'[r] \in RowRecord
  BY <1>1
<1>3. \A r \in Row : row'[r].text \in Nat
  BY <1>2, Names DEF RowRecord
<1> QED
  BY <1>3 DEF NoView, Tells

LEMMA SendTells ==
    ASSUME Premises, NEW f \in Feed,
           \/ Send(f) \/ Created(f) \/ SendGoesOn(f) \/ CreationFails(f)
           \/ \E r \in Row : Retry(f, r)
    PROVE  FeedsTrue'
<1> USE DEF Premises
<1>f. feed \in [Feed -> Aimed] /\ feed[f] \in Aimed /\ shown \in [Row -> Shown]
  BY DEF Typed, FeedTyped, PageTyped
<1>1. CASE Send(f) \/ SendGoesOn(f) \/ CreationFails(f)
  <2>1. shown' = shown
    BY <1>1 DEF Send, SendGoesOn, CreationFails, pageVars
  <2>2. (GoOut(f) \/ BeginSend(f)) \/ feed' = [feed EXCEPT ![f] = NoStream]
    BY <1>1 DEF Send, SendGoesOn, CreationFails
  <2>3. \A g \in Feed : Calm(g)
    <3>1. CASE feed' = [feed EXCEPT ![f] = NoStream]
      BY <3>1, NoStreamFacts, CalmChange
    <3> QED
      BY <2>2, <3>1, BeginSendCalm
  <2> QED
    BY <2>1, <2>3, ScreenStays, FeedsTell
<1>2. ASSUME NEW r \in Row, Retry(f, r)
      PROVE  FeedsTrue'
  <2>1. BeginSend(f) /\ ~streaming /\ shown' = [shown EXCEPT ![r] = NoView]
    BY <1>2 DEF Retry, BeginSend
  <2>2. \A g \in Feed : feed'[g].pc \notin {"attached", "open"}
    BY <2>1, Alone, BeginSendCalm
  <2>3. Written
    BY <1>f, <2>1, EmptyTells DEF Written
  <2> QED
    BY <2>2, <2>3, NoDelivery, FeedsTell
<1>3. CASE Created(f)
  <2> DEFINE t == [feed[f] EXCEPT !.pc = "created"]
             feeds == [feed EXCEPT ![f] = t]
  <2>1. t \in Aimed /\ t.pc = "created"
    BY <1>f, StateFacts
  <2>2. feed' = Off(feeds) /\ shown' = NothingShown
    BY <1>3, <1>f DEF Created
  <2> HIDE DEF t
  <2>3. feeds \in [Feed -> Aimed] /\ feeds[f].pc = "created" /\ \A g \in Feed \ {f} : feeds[g] = feed[g]
    BY <1>f, <2>1
  <2> HIDE DEF feeds
  <2>4. \A g \in Feed : /\ feed'[g].on = FALSE /\ feed'[g].pc = feeds[g].pc
                        /\ feed'[g].row = feeds[g].row /\ feed'[g].at = feeds[g].at
                        /\ feed'[g].seen = feeds[g].seen
    BY <2>2, <2>3, OffFacts DEF Alike
  <2>5. Unwritten /\ \A g \in Feed : Calm(g)
    BY <2>3, <2>4 DEF Unwritten, Calm
  <2>6. Written
    BY <2>2, EmptyTells DEF Written, NothingShown
  <2> QED
    BY <2>5, <2>6, FeedsTell
<1> QED
  BY <1>1, <1>2, <1>3

LEMMA ServerTells ==
    ASSUME Premises,
           \/ \E f \in Feed : Accept(f) \/ Refuse(f) \/ Attach(f)
           \/ \E r \in Row : Produce(r) \/ Settle(r)
    PROVE  FeedsTrue'
<1> USE DEF Premises
<1>f. /\ feed \in [Feed -> Aimed] /\ shown \in [Row -> Shown] /\ row \in [Row -> RowRecord]
      /\ row' \in [Row -> RowRecord]
  BY DEF Typed, FeedTyped, PageTyped, ServerTyped
<1>1. ASSUME NEW f \in Feed, Accept(f)
      PROVE  FeedsTrue'
  <2>1. PICK r \in Row :
          /\ row' = [row EXCEPT ![r] = [conversation |-> feed[f].conversation, status |-> "open", text |-> 0]]
          /\ IF feed[f].pc = "adrift"
             THEN feed' = [feed EXCEPT ![f] = NoStream] /\ UNCHANGED shown
             ELSE /\ feed' = [feed EXCEPT ![f] = [feed[f] EXCEPT !.pc = "open", !.row = r]]
                  /\ shown' = IF feed[f].on THEN [shown EXCEPT ![r] = [status |-> "open", text |-> 0]] ELSE shown
    BY <1>1, <1>f DEF Accept
  <2>2. CASE feed[f].pc = "adrift"
    <3>1. shown' = shown /\ feed' = [feed EXCEPT ![f] = NoStream]
      BY <2>1, <2>2
    <3> QED
      BY <3>1, NoStreamFacts, CalmChange, ScreenStays, FeedsTell
  <2>3. CASE feed[f].pc # "adrift"
    <3> DEFINE t == [feed[f] EXCEPT !.pc = "open", !.row = r]
    <3>1. feed' = [feed EXCEPT ![f] = t]
      BY <2>1, <2>3
    <3>2. feed[f] \in Aimed /\ feed[f].pc = "sent" /\ ~feed[f].recovers
      BY <1>1, <1>f, <2>3 DEF Accept
    <3>3. t.pc = "open" /\ ~t.recovers
      BY <3>2, AcceptedFacts DEF Alike
    <3> HIDE DEF t
    <3>4. \A g \in Feed \ {f} : ~Live(g)
      BY <3>2, Alone DEF Live
    <3>5. feed'[f] = t /\ \A g \in Feed \ {f} : feed'[g] = feed[g]
      BY <1>f, <3>1
    <3>6. /\ feed'[f].pc = "open" /\ ~feed'[f].recovers
          /\ \A g \in Feed \ {f} : feed'[g].pc \notin {"attached", "open"}
      BY <3>3, <3>4, <3>5 DEF Live
    <3>7. Unwritten /\ \A g \in Feed : Calm(g)
      BY <3>6 DEF Unwritten, Calm
    <3>8. Written
      <4>1. row'[r].text = 0
        BY <1>f, <2>1
      <4>2. Tells([status |-> "open", text |-> 0], row'[r])
        BY <4>1 DEF Tells
      <4>3. \A q \in Row : shown'[q] = shown[q] \/ (q = r /\ shown'[q] = [status |-> "open", text |-> 0])
        BY <1>f, <2>1, <2>3
      <4> QED
        BY <4>2, <4>3 DEF Written
    <3> QED
      BY <3>7, <3>8, FeedsTell
  <2> QED
    BY <2>2, <2>3
<1>2. ASSUME NEW f \in Feed, Refuse(f)
      PROVE  FeedsTrue'
  <2>1. shown' = shown
    BY <1>2 DEF Refuse, pageVars
  <2>2. feed[f] \in Aimed
    BY <1>f
  <2>3. CASE feed[f].pc = "adrift"
    <3>1. feed' = [feed EXCEPT ![f] = NoStream]
      BY <1>2, <1>f, <2>3 DEF Refuse
    <3> QED
      BY <2>1, <3>1, NoStreamFacts, CalmChange, ScreenStays, FeedsTell
  <2>4. CASE feed[f].pc # "adrift"
    <3> DEFINE t == [feed[f] EXCEPT !.pc = "refused"]
    <3>1. feed' = [feed EXCEPT ![f] = t]
      BY <1>2, <1>f, <2>4 DEF Refuse
    <3>2. t.pc = "refused"
      BY <2>2, StateFacts
    <3> HIDE DEF t
    <3> QED
      BY <2>1, <3>1, <3>2, CalmChange, ScreenStays, FeedsTell
  <2> QED
    BY <2>3, <2>4
<1>3. ASSUME NEW f \in Feed, Attach(f)
      PROVE  FeedsTrue'
  <2>0. feed[f] \in Aimed /\ feed[f].recovers /\ feed[f].row \in Row /\ feed[f].pc = "sent"
    BY <1>f, <1>3, RowTypes DEF Attach
  <2> DEFINE n == row[feed[f].row].text
             x == row[feed[f].row].status
             t == Attaching(feed[f], n, x)
  <2>1. feed' = [feed EXCEPT ![f] = t] /\ shown' = shown /\ row' = row /\ stop' = stop
    BY <1>f, <1>3 DEF Attach, Attaching, pageVars, serverVars
  <2>2. n \in Text /\ x \in Status /\ n \in Nat
    BY <2>0, RowTypes
  <2>3. Tells([status |-> x, text |-> n], row[feed[f].row])
    BY <2>2 DEF Tells
  <2> HIDE DEF n, x
  <2>4. t.pc = "attached" /\ t.at = n /\ t.seen = x /\ t.row = feed[f].row
    BY <2>0, <2>2, AttachedFacts DEF Alike
  <2> HIDE DEF t
  <2>5. feed'[f] = t /\ \A g \in Feed \ {f} : feed'[g] = feed[g]
    BY <1>f, <2>1
  <2>7. ShownTrue'
    BY <2>1, ScreenStays, ShownTells DEF FeedsTrue
  <2>8. SnapshotsTrue'
    <3>1. ASSUME NEW g \in Feed, feed'[g].pc = "attached"
          PROVE  Tells([status |-> feed'[g].seen, text |-> feed'[g].at], row'[feed'[g].row])
      <4>1. CASE g = f
        BY <2>1, <2>3, <2>4, <2>5, <4>1
      <4>2. CASE g # f
        <5>1. feed'[g] = feed[g]
          BY <2>5, <4>2
        <5> QED
          BY <2>1, <3>1, <5>1 DEF FeedsTrue, SnapshotsTrue
      <4> QED
        BY <4>1, <4>2
    <3> QED
      BY <3>1 DEF SnapshotsTrue, Tells
  <2>9. AppendsTrue'
    <3>2. Spared' = Spared
      BY <2>1 DEF Spared
    <3>3. ASSUME NEW g \in Feed, feed'[g].pc = "open", feed'[g].recovers, feed'[g].on,
                 feed'[g].row # Spared'
          PROVE  shown'[feed'[g].row].text = feed'[g].at
      <4>1. g # f
        BY <2>4, <2>5, <3>3
      <4>2. feed'[g] = feed[g]
        BY <2>5, <4>1
      <4> QED
        BY <2>1, <3>2, <3>3, <4>2 DEF FeedsTrue, AppendsTrue, Appends
    <3> QED
      BY <3>3 DEF AppendsTrue, Appends
  <2> QED
    BY <2>7, <2>8, <2>9 DEF FeedsTrue
<1>4. ASSUME NEW r \in Row, Produce(r) \/ Settle(r)
      PROVE  FeedsTrue'
  <2>1. shown' = shown /\ feed' = feed
    BY <1>4 DEF Produce, Settle, pageVars
  <2> QED
    BY <2>1, Unmoved, ScreenStays, FeedsTell
<1> QED
  BY <1>1, <1>2, <1>3, <1>4

LEMMA OpeningTells ==
    ASSUME Premises, LoadsTrue,
           \/ \E l \in Load : \/ ReadConversation(l) \/ LoadFails(l) \/ Refresh(l)
                              \/ \E f \in Feed : LoadArrives(l, f)
                              \/ \E c \in Conversation : SelectConversation(c, l)
           \/ StartNewConversation
           \/ \E f \in Feed : ComeOnline(f)
    PROVE  FeedsTrue'
<1> USE DEF Premises
<1>f. /\ feed \in [Feed -> Aimed] /\ recovery \in Row \cup {NoRow} /\ active \in Anywhere
      /\ load \in [Load -> LoadRecord]
  BY DEF Typed, FeedTyped, PageTyped, LoadTyped
<1>e. shown' = NothingShown => Written
  BY EmptyTells DEF Written, NothingShown
<1>1. ASSUME NEW l \in Load, ReadConversation(l) \/ LoadFails(l)
      PROVE  FeedsTrue'
  <2>1. shown' = shown /\ feed' = feed
    BY <1>1 DEF ReadConversation, LoadFails, pageVars
  <2> QED
    BY <2>1, Unmoved, ScreenStays, FeedsTell
<1>2. ASSUME NEW l \in Load, Refresh(l)
      PROVE  FeedsTrue'
  <2>1. \A f \in Feed : Aborted(feed[f]).pc \notin {"attached", "open"}
    BY <1>f, AbortedFacts
  <2>2. \A f \in Feed : feed'[f].pc \notin {"attached", "open"}
    BY <1>2, <2>1, NoStreamFacts DEF Refresh
  <2>3. shown' = NothingShown
    BY <1>2 DEF Refresh
  <2> QED
    BY <1>e, <2>2, <2>3, NoDelivery, FeedsTell
<1>3. ASSUME NEW l \in Load, NEW f \in Feed, LoadArrives(l, f)
      PROVE  FeedsTrue'
  <2>1. Off(feed) \in [Feed -> Aimed]
    BY <1>f, OffFacts
  <2>2. \A g \in Feed : /\ Off(feed)[g].on = FALSE /\ Off(feed)[g].pc = feed[g].pc
                        /\ Off(feed)[g].row = feed[g].row /\ Off(feed)[g].at = feed[g].at
                        /\ Off(feed)[g].seen = feed[g].seen
    BY <1>f, OffFacts DEF Alike
  <2>3. feed' = Off(feed) \/ \E r \in Row : feed' = [Off(feed) EXCEPT ![f] = Recovery(active, r)]
    BY <1>3 DEF LoadArrives, Recover, Recovery
  <2>4. \A r \in Row : Recovery(active, r).pc = "sent"
    BY <1>f, RecoveryFacts
  <2>5. \A g \in Feed : feed'[g] = Off(feed)[g] \/ feed'[g].pc = "sent"
    BY <2>1, <2>3, <2>4
  <2>6. Unwritten /\ \A g \in Feed : Calm(g)
    BY <2>2, <2>5 DEF Unwritten, Calm
  <2>7. Written
    <3>1. shown' = load[l].view /\ load[l].pc = "read"
      BY <1>3 DEF LoadArrives
    <3>2. row' = row
      BY <1>3 DEF LoadArrives, serverVars
    <3> QED
      BY <3>1, <3>2 DEF LoadsTrue, Written
  <2> QED
    BY <2>6, <2>7, FeedsTell
<1>4. ASSUME NEW l \in Load, NEW c \in Conversation, SelectConversation(c, l)
      PROVE  FeedsTrue'
  <2>1. Silenced
    BY <1>4, AbortTyped, AbortSilences, LoadSilences DEF SelectConversation, Finish
  <2>2. shown' = shown
    BY <1>4, ChatViewAssumption DEF SelectConversation, LoadMessages
  <2> QED
    BY <2>1, <2>2, SilentDelivery, NoDelivery, ScreenStays, FeedsTell
<1>5. CASE StartNewConversation
  <2>1. Detach \in [Feed -> Aimed]
    BY AbortTyped
  <2>2. \A f \in Feed : Off(Detach)[f].pc = Detach[f].pc
    BY <2>1, OffFacts DEF Alike
  <2>3. feed' = Off(Detach) /\ streaming' = FALSE /\ shown' = NothingShown
    BY <1>5 DEF StartNewConversation, Finish
  <2>4. Silenced
    BY <2>2, <2>3, AbortSilences, LiveMeansNext DEF Silenced
  <2> QED
    BY <1>e, <2>3, <2>4, SilentDelivery, NoDelivery, FeedsTell
<1>6. ASSUME NEW f \in Feed, ComeOnline(f)
      PROVE  FeedsTrue'
  <2>1. shown' = shown
    BY <1>6 DEF ComeOnline
  <2>2. feed' = feed \/ (recovery \in Row /\ feed' = [feed EXCEPT ![f] = Recovery(active, recovery)])
    BY <1>6, <1>f DEF ComeOnline, Recover, Recovery
  <2>3. CASE feed' = feed
    BY <2>1, <2>3, Unmoved, ScreenStays, FeedsTell
  <2>4. CASE recovery \in Row /\ feed' = [feed EXCEPT ![f] = Recovery(active, recovery)]
    <3>1. Recovery(active, recovery).pc = "sent"
      BY <1>f, <2>4, RecoveryFacts
    <3> QED
      BY <2>1, <2>4, <3>1, CalmChange, ScreenStays, FeedsTell
  <2> QED
    BY <2>2, <2>3, <2>4
<1> QED
  BY <1>1, <1>2, <1>3, <1>4, <1>5, <1>6

LEMMA StopTells ==
    ASSUME Premises, StopStreaming \/ StopReaches \/ StopAnswered \/ StopLost
    PROVE  FeedsTrue'
<1> USE DEF Premises
<1>f. /\ feed \in [Feed -> Aimed] /\ shown \in [Row -> Shown] /\ stop \in StopRecord
      /\ stop' \in StopRecord
  BY DEF Typed, FeedTyped, PageTyped, StopTyped
<1>1. CASE StopStreaming
  <2>1. Silenced
    BY <1>1, AbortSilences, LiveMeansNext DEF StopStreaming, Finish, Silenced
  <2>2. Written
    <3>1. \/ shown' = shown
          \/ shown' = [shown EXCEPT ![feed[handle].row] =
                          [shown[feed[handle].row] EXCEPT !.status = "interrupted"]]
      BY <1>1, <1>f DEF StopStreaming
    <3>2. ASSUME NEW r \in Row
          PROVE  /\ [shown[r] EXCEPT !.status = "interrupted"].text = shown[r].text
                 /\ [shown[r] EXCEPT !.status = "interrupted"].status = "interrupted"
      <4>1. shown[r] \in Shown
        BY <1>f
      <4> QED
        BY <4>1 DEF Shown
    <3>3. \A r \in Row : shown'[r] = shown[r] \/ shown'[r] = [shown[r] EXCEPT !.status = "interrupted"]
      BY <1>f, <3>1
    <3> QED
      BY <3>2, <3>3 DEF Written
  <2> QED
    BY <2>1, <2>2, SilentDelivery, NoDelivery, FeedsTell
<1>2. CASE StopReaches \/ StopLost
  <2>1. shown' = shown /\ feed' = feed
    BY <1>2 DEF StopReaches, StopLost, pageVars
  <2> QED
    BY <2>1, Unmoved, ScreenStays, FeedsTell
<1>3. CASE StopAnswered
  <2>1. feed' = feed /\ row' = row /\ stop' = [NoStop EXCEPT !.pc = "over", !.row = stop.row]
    BY <1>3 DEF StopAnswered, serverVars
  <2>2. Spared' = stop.row
    <3>1. stop'.pc = "over" /\ stop'.row = stop.row
      BY <2>1 DEF NoStop
    <3> QED
      BY <3>1 DEF Spared
  <2>3. shown' = shown \/ (stop.row \in Row /\ shown' = [shown EXCEPT ![stop.row] = ViewOf(stop.row)])
    BY <1>3, <1>f DEF StopAnswered, StopRecord
  <2>4. Written
    <3>1. CASE shown' = shown
      BY <3>1 DEF Written
    <3>2. CASE stop.row \in Row /\ shown' = [shown EXCEPT ![stop.row] = ViewOf(stop.row)]
      <4>1. row[stop.row].text \in Nat
        BY <3>2, RowTypes
      <4>2. Tells(ViewOf(stop.row), row'[stop.row])
        BY <2>1, <4>1 DEF ViewOf, Tells
      <4> QED
        BY <1>f, <3>2, <4>2 DEF Written
    <3> QED
      BY <2>3, <3>1, <3>2
  <2>5. Unwritten
    <3>1. \A r \in Row : r = stop.row \/ shown'[r] = shown[r]
      BY <1>f, <2>3
    <3> SUFFICES ASSUME NEW f \in Feed, feed'[f].pc = "open", feed'[f].row # Spared'
                 PROVE  shown'[feed'[f].row].text = shown[feed'[f].row].text
      BY DEF Unwritten
    <3>2. feed'[f].row \in Row
      BY <2>1, RowTypes
    <3> QED
      BY <2>2, <3>1, <3>2
  <2> QED
    BY <2>1, <2>4, <2>5, Unmoved, FeedsTell
<1> QED
  BY <1>1, <1>2, <1>3

LEMMA FeedTells ==
    ASSUME Premises, NEW f \in Feed,
           \/ OnSnapshot(f) \/ OnDelta(f) \/ OnTerminal(f)
           \/ \E l \in Load : OnFailed(f, l) \/ ReadRefusal(f, l) \/ Drop(f, l)
    PROVE  FeedsTrue' \/ stray'
<1> USE DEF Premises
<1> DEFINE s == feed[f]
<1>f. /\ feed \in [Feed -> Aimed] /\ shown \in [Row -> Shown] /\ s \in Aimed
  BY DEF Typed, FeedTyped, PageTyped
<1>s. /\ s.at \in Nat /\ s.seen \in Status
      /\ s.recovers \/ s.pc \in {"attached", "open"} => s.row \in Row
      /\ s.row \in Row => row[s.row].text \in Nat /\ shown[s.row].text \in Nat
  BY RowTypes
<1>a. s.pc \in {"sent", "refused", "attached", "open"} => \A g \in Feed \ {f} : ~Live(g)
  BY Alone DEF Live
<1>b. ASSUME NEW v, shown' = ShowBy(f, v), s.row \in Row
      PROVE  /\ \A r \in Row : shown'[r] = shown[r] \/ (s.on /\ r = s.row /\ shown'[r] = v)
             /\ s.on => shown'[s.row] = v
  BY <1>b, <1>f DEF ShowBy
<1>1. CASE OnSnapshot(f)
  <2> DEFINE t == [s EXCEPT !.pc = "open", !.seen = "none"]
             v == [status |-> s.seen, text |-> s.at]
  <2>1. /\ feed' = [feed EXCEPT ![f] = t] /\ shown' = ShowBy(f, v)
        /\ s.pc = "attached" /\ row' = row /\ stop' = stop
    BY <1>1, <1>f DEF OnSnapshot, serverVars
  <2>2. t.pc = "open" /\ t.recovers = s.recovers /\ t.on = s.on /\ t.row = s.row /\ t.at = s.at
    BY <1>f, <2>1, SnapshotFacts DEF Alike
  <2>3. s.row \in Row /\ Tells(v, row[s.row]) /\ v.text = s.at
    BY <1>s, <2>1 DEF FeedsTrue, SnapshotsTrue
  <2> HIDE DEF t, v
  <2>4. feed'[f] = t /\ \A g \in Feed \ {f} : feed'[g].pc \notin {"attached", "open"}
    BY <1>f, <1>a, <2>1 DEF Live
  <2>5. ShownTrue'
    <3>1. Written
      BY <1>b, <2>1, <2>3 DEF Written
    <3> QED
      BY <3>1, ShownTells DEF FeedsTrue
  <2>6. SnapshotsTrue'
    BY <2>2, <2>4 DEF SnapshotsTrue
  <2>7. AppendsTrue'
    <3> SUFFICES ASSUME NEW g \in Feed, feed'[g].pc = "open", feed'[g].on
                 PROVE  shown'[feed'[g].row].text = feed'[g].at
      BY DEF AppendsTrue, Appends
    <3>1. g = f
      BY <2>4
    <3> QED
      BY <1>b, <2>1, <2>2, <2>3, <2>4, <3>1
  <2> QED
    BY <2>5, <2>6, <2>7 DEF FeedsTrue
<1>2. CASE OnDelta(f)
  <2> DEFINE t == [s EXCEPT !.at = s.at + 1]
             n == IF s.recovers THEN shown[s.row].text + 1 ELSE s.at + 1
             v == [status |-> "open", text |-> n]
  <2>1. /\ feed' = [feed EXCEPT ![f] = t] /\ shown' = ShowBy(f, v)
        /\ s.pc = "open" /\ s.at < row[s.row].text /\ row' = row /\ stop' = stop
    BY <1>2, <1>f DEF OnDelta, serverVars
  <2>2. s.row \in Row
    BY <1>s, <2>1
  <2>3. s.at + 1 \in Text
    <3>1. row[s.row].text \in Text
      BY <2>2, RowTypes
    <3> QED
      BY <1>s, <2>1, <2>2, <3>1, Bounds DEF Text
  <2>4. t.pc = "open" /\ t.recovers = s.recovers /\ t.on = s.on /\ t.row = s.row /\ t.at = s.at + 1
    BY <1>f, <2>1, <2>3, TokenFacts DEF Alike
  <2>5. s.recovers /\ s.on /\ s.row # Spared => n = s.at + 1
    BY <2>1 DEF FeedsTrue, AppendsTrue, Appends
  <2>6. v.status = "open" /\ v.text = n
    OBVIOUS
  <2>7. ~s.recovers => n = s.at + 1
    OBVIOUS
  <2> HIDE DEF t, v, n
  <2>8. feed'[f] = t /\ \A g \in Feed \ {f} : feed'[g].pc \notin {"attached", "open"}
    BY <1>f, <1>a, <2>1 DEF Live
  <2>9. Spared' = Spared
    BY <2>1 DEF Spared
  <2>10. ShownTrue'
    <3>1. ASSUME NEW r \in Row \ {Spared}
          PROVE  Tells(shown'[r], row[r])
      <4>1. CASE shown'[r] = shown[r]
        BY <4>1 DEF FeedsTrue, ShownTrue
      <4>2. CASE s.on /\ r = s.row /\ shown'[r] = v
        <5>1. n = s.at + 1
          BY <2>5, <2>7, <4>2
        <5>2. n <= row[r].text
          BY <1>s, <2>1, <2>2, <4>2, <5>1
        <5> QED
          BY <2>6, <4>2, <5>2 DEF Tells
      <4> QED
        BY <1>b, <2>1, <2>2, <4>1, <4>2
    <3> QED
      BY <2>1, <2>9, <3>1 DEF ShownTrue, Tells
  <2>11. SnapshotsTrue'
    BY <2>4, <2>8 DEF SnapshotsTrue
  <2>12. AppendsTrue'
    <3> SUFFICES ASSUME NEW g \in Feed, feed'[g].pc = "open", feed'[g].recovers, feed'[g].on,
                        feed'[g].row # Spared'
                 PROVE  shown'[feed'[g].row].text = feed'[g].at
      BY DEF AppendsTrue, Appends
    <3>1. g = f
      BY <2>8
    <3>2. s.on /\ s.recovers /\ s.row # Spared
      BY <2>4, <2>8, <2>9, <3>1
    <3>3. shown'[s.row] = v
      BY <1>b, <2>1, <2>2, <3>2
    <3> QED
      BY <2>4, <2>5, <2>6, <2>8, <3>1, <3>2, <3>3
  <2> QED
    BY <2>10, <2>11, <2>12 DEF FeedsTrue
<1>3. CASE OnTerminal(f)
  <2>1. /\ feed' = [feed EXCEPT ![f] = NoStream] /\ shown' = ShowBy(f, ViewOf(s.row))
        /\ s.pc = "open" /\ row' = row
    BY <1>3 DEF OnTerminal, AtEnd, serverVars
  <2>2. \A g \in Feed : feed'[g].pc \notin {"attached", "open"}
    BY <1>a, <2>1, NoStreamFacts, DeliversNoMore
  <2>3. Tells(ViewOf(s.row), row[s.row])
    BY <1>s, <2>1 DEF ViewOf, Tells
  <2>4. Written
    BY <1>b, <1>s, <2>1, <2>3 DEF Written
  <2> QED
    BY <2>2, <2>4, NoDelivery, FeedsTell
<1>4. ASSUME NEW l \in Load, OnFailed(f, l) \/ ReadRefusal(f, l) \/ Drop(f, l)
      PROVE  FeedsTrue' \/ stray'
  <2>1. CASE s.pc = "rejected" /\ streaming
    BY <1>4, <2>1 DEF OnFailed, AtEnd, ReadRefusal, Drop
  <2>2. CASE s.pc # "rejected" \/ ~streaming
    <3>0. s.pc \in {"sent", "refused", "rejected", "attached", "open"} /\ Failed(f, l)
      BY <1>4 DEF OnFailed, AtEnd, ReadRefusal, Drop
    <3>1. Failed(f, l) /\ \A g \in Feed \ {f} : ~Live(g)
      BY <1>a, <2>2, <3>0, Alone
    <3> DEFINE t == IF s.pc = "sent" THEN Aborted(s) ELSE NoStream
               ended == [feed EXCEPT ![f] = t]
               v == [shown[s.row] EXCEPT !.status = "interrupted"]
    <3>2. t \in Aimed /\ t.pc \notin {"attached", "open"} /\ t.pc \notin LiveState
      BY <1>f, AbortedFacts, NoStreamFacts DEF LiveState
    <3>3. \/ (s.recovers \/ s.at > 0) /\ shown' = ShowBy(f, v) /\ feed' = ended
          \/ LoadMessages(l, ended, shown, active)
      BY <3>1, <1>f DEF Failed
    <3>4. streaming' = FALSE
      BY <3>1 DEF Failed, Finish
    <3> HIDE DEF t
    <3>5. ended \in [Feed -> Aimed] /\ \A g \in Feed : ended[g].pc \notin LiveState
      BY <1>f, <3>1, <3>2 DEF Live, LiveState
    <3> HIDE DEF ended
    <3>6. \A g \in Feed : feed'[g].pc \notin {"attached", "open"}
      <4>1. CASE feed' = ended
        BY <3>5, <4>1 DEF LiveState
      <4>2. CASE LoadMessages(l, ended, shown, active)
        BY <3>4, <3>5, <4>2, LoadSilences, SilentDelivery
      <4> QED
        BY <3>3, <4>1, <4>2
    <3>7. Written
      <4>1. CASE shown' = ShowBy(f, v)
        <5>1. CASE s.row \in Row
          <6>1. v.text = shown[s.row].text /\ v.status = "interrupted"
            <7>1. shown[s.row] \in Shown
              BY <1>f, <5>1
            <7> QED
              BY <7>1 DEF Shown
          <6> HIDE DEF v
          <6> QED
            BY <1>b, <4>1, <5>1, <6>1 DEF Written
        <5>2. CASE s.row \notin Row
          <6>1. shown' = shown
            BY <1>f, <4>1, <5>2 DEF ShowBy
          <6> QED
            BY <6>1 DEF Written
        <5> QED
          BY <5>1, <5>2
      <4>2. CASE LoadMessages(l, ended, shown, active)
        <5>1. shown' = shown \/ shown' = NothingShown
          BY <4>2 DEF LoadMessages
        <5> QED
          BY <5>1, EmptyTells DEF Written, NothingShown
      <4> QED
        BY <3>3, <4>1, <4>2
    <3> QED
      BY <3>6, <3>7, NoDelivery, FeedsTell
  <2> QED
    BY <2>1, <2>2
<1> QED
  BY <1>1, <1>2, <1>3, <1>4

LEMMA TruthInit == Init => Truth
<1> SUFFICES ASSUME Init PROVE Truth
  OBVIOUS
<1>1. \A r \in Row : row[r].text = 0
  BY DEF Init
<1>2. \A r \in Row : shown[r].text = 0 /\ shown[r].status = "none"
  BY DEF Init, NothingShown, NoView
<1>3. \A f \in Feed : feed[f].pc = "idle"
  BY DEF Init, NoStream
<1>4. \A l \in Load : load[l].pc = "idle"
  BY DEF Init, NoLoad
<1> QED
  BY <1>1, <1>2, <1>3, <1>4
  DEF Truth, RowsFresh, LoadsTrue, FeedsTrue, ShownTrue, SnapshotsTrue, AppendsTrue, Appends, Tells

LEMMA TruthNext ==
    (Typed /\ Typed' /\ (stray \/ OneLive) /\ (stray \/ Truth)) /\ [Next]_vars => (stray \/ Truth)'
<1> SUFFICES ASSUME Typed, Typed', stray \/ OneLive, stray \/ Truth, [Next]_vars
             PROVE  stray' \/ Truth'
  OBVIOUS
<1>1. CASE stray
  BY <1>1, StrayStays
<1>2. CASE ~stray
  <2>1. Truth
    BY <1>2
  <2>2. Grown /\ RowsFresh'
    BY <2>1, RowsGrow DEF Truth
  <2>3. LoadsTrue'
    BY <2>1, <2>2, LoadsTell DEF Truth
  <2>4. Premises /\ LoadsTrue
    BY <1>2, <2>1, <2>2, SparedOnce DEF Premises, Truth
  <2>5. FeedsTrue' \/ stray'
    <3>1. CASE Next
      BY <2>4, <3>1, SendTells, ServerTells, FeedTells, OpeningTells, StopTells DEF Next
    <3>2. CASE UNCHANGED vars
      <4>1. shown' = shown /\ feed' = feed
        BY <3>2 DEF vars, pageVars
      <4> QED
        BY <2>4, <4>1, Unmoved, ScreenStays, FeedsTell DEF Premises
    <3> QED
      BY <3>1, <3>2
  <2> QED
    BY <2>2, <2>3, <2>5 DEF Truth
<1> QED
  BY <1>1, <1>2

\* Whatever snapshots, deltas, loads and local interruptions come in whatever
\* order, the screen shows no token twice, none the server has not produced,
\* and a completed answer is whole.
THEOREM ScreenIsTruthful == Spec => []ShowsServersText
<1>1. Init => stray \/ Truth
  BY TruthInit
<1>2. (Typed /\ Typed' /\ (stray \/ OneLive) /\ (stray \/ Truth)) /\ [Next]_vars => (stray \/ Truth)'
  BY TruthNext
<1>3. Spec => []Typed
  BY AlwaysTyped
<1>4. Spec => [](stray \/ OneLive)
  BY OneLiveBefore
<1>5. Typed /\ (stray \/ Truth) => ShowsServersText
  <2> SUFFICES ASSUME Typed, Truth, NEW r \in Row \ {stop.row}
               PROVE  /\ shown[r].text <= row[r].text
                      /\ shown[r].status = "completed" => shown[r] = ViewOf(r)
    BY DEF ShowsServersText
  <2>1. r # Spared
    BY DEF Spared, Row, NoRow
  <2>2. Tells(shown[r], row[r])
    BY <2>1 DEF Truth, FeedsTrue, ShownTrue
  <2>3. shown[r] \in Shown
    BY DEF Typed, PageTyped
  <2>4. shown[r] = [status |-> shown[r].status, text |-> shown[r].text]
    BY <2>3 DEF Shown
  <2> QED
    BY <2>2, <2>4 DEF Tells, ViewOf
<1> QED
  BY <1>1, <1>2, <1>3, <1>4, <1>5, PTL DEF Spec
=============================================================================
