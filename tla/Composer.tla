------------------------------ MODULE Composer ------------------------------
(***************************************************************************)
(* The message composer of one browser tab: the files the user picks, the  *)
(* upload queue that transfers them one at a time (uploadQueue.ts), the    *)
(* chips that show them, and how chips follow the open conversation        *)
(* (ChatView.vue).                                                         *)
(*                                                                         *)
(* A page runs one task at a time, so an action is what happens between    *)
(* two awaits: the answer of a request and everything the code does with   *)
(* it.  The server stores, references and deletes file rows in steps of    *)
(* its own.  A pick of several files is several picks in a row: nothing of *)
(* the page depends on their being one batch.                              *)
(***************************************************************************)
EXTENDS Integers, Sequences, SequencesExt

CONSTANTS
    File,           \* files the user picks, each under the local id of its chip
    Conversation,
    Existing,       \* the conversations there are at first
    NoConversation, \* activeId = null: a new chat
    Load,           \* page loads that may be under way at the same time
    MaxFiles,       \* MAX_FILES_PER_MESSAGE
    MaxMove,        \* bound: navigations and removals of uploaded files
    MaxFault        \* bound: failed uploads

ASSUME ComposerAssumption ==
    /\ NoConversation \notin Conversation
    /\ Existing \subseteq Conversation /\ Existing # {}
    /\ MaxFiles \in Nat \ {0}
    /\ MaxMove \in Nat /\ MaxFault \in Nat

VARIABLES
    active,    \* activeId
    known,     \* the conversations that exist
    pick,      \* how far the pick of a file has come
    home,      \* the conversation a picked file belongs to
    chip,      \* the chips of files that have no server row yet
    shown,     \* how many chips show a server row
    queue,     \* the queue's waiting files, the one in flight included
    running,   \* a drain() is awaiting an upload
    transfer,  \* the upload requests in flight
    attempt,   \* how often a file was sent
    done,      \* the queue's record of finished uploads
    removed,   \* removedUploadIds
    row,       \* file rows: the n-th upload of a file creates row <<file, n>>
    used,      \* rows a persisted message refers to
    deletion,  \* rows a DELETE request is on its way for
    load,      \* loadMessages and loadConversationFiles in flight
    turn,      \* the message being sent with files
    moves, faults,
    landed,    \* history: files whose upload succeeded, until a send cleared them
    strayed,   \* history: a conversation was created under an open one
    overtaken  \* history: a retry went ahead of the file in flight

history == <<landed, strayed, overtaken>>

queueVars == <<queue, running, transfer, attempt, chip>>
serverVars == <<row, used>>
vars == <<active, known, pick, home, queueVars, shown, done, removed, serverVars,
          deletion, load, turn, moves, faults, history>>

Row == File \X (1..MaxFault + 1)
FileOf(r) == r[1]
RowOf(f) == <<f, attempt[f]>>

NoLoad == [pc |-> "idle", conversation |-> NoConversation, used |-> {}, rows |-> {}]
NoTurn == [pc |-> "idle", rows |-> {}, conversation |-> NoConversation, attached |-> FALSE]

Init ==
    /\ active \in Existing
    /\ known = Existing
    /\ pick = [f \in File |-> "none"]
    /\ home = [f \in File |-> NoConversation]
    /\ chip = [f \in File |-> "none"]
    /\ shown = [r \in Row |-> 0]
    /\ queue = <<>> /\ running = FALSE
    /\ transfer = [f \in File |-> "none"]
    /\ attempt = [f \in File |-> 0]
    /\ done = {} /\ removed = {}
    /\ row = [r \in Row |-> "none"]
    /\ used = {} /\ deletion = {}
    /\ load = [l \in Load |-> NoLoad]
    /\ turn = NoTurn
    /\ moves = 0 /\ faults = 0
    /\ landed = {} /\ strayed = FALSE /\ overtaken = FALSE

Fault == faults < MaxFault /\ faults' = faults + 1

-----------------------------------------------------------------------------
(* The queue of uploadQueue.ts. *)

\* drain() with nothing in flight: the first file goes out, or the queue rests.
\* q and chips are queue and chips as the caller leaves them, busy the
\* transfers that go on.
Drain(q, chips, busy) ==
    /\ queue' = q
    /\ running' = (q # <<>>)
    /\ IF q = <<>>
       THEN chip' = chips /\ transfer' = busy /\ UNCHANGED attempt
       ELSE /\ chip' = [chips EXCEPT ![Head(q)] = IF @ = "none" THEN "none" ELSE "uploading"]
            /\ transfer' = [busy EXCEPT ![Head(q)] = "sent"]
            /\ attempt' = [attempt EXCEPT ![Head(q)] = @ + 1]

\* Mutant of Resume: whether a transfer is running is not looked at.
ResumeAnyway(q, chips) == Drain(q, chips, transfer)

\* drain() from a caller that does not know whether one is running.
Resume(q, chips) ==
    IF running
    THEN queue' = q /\ chip' = chips /\ UNCHANGED <<running, transfer, attempt>>
    ELSE Drain(q, chips, transfer)

Queued(f) == f \in Range(queue)

\* Mutant of Behind: the first file goes whichever it is.
BehindAny(f) == IF queue # <<>> THEN Tail(queue) ELSE queue

\* The queue without the file whose transfer ended; a drop() or reset() may
\* have taken it out before.
Behind(f) == IF queue # <<>> /\ Head(queue) = f THEN Tail(queue) ELSE queue

Enqueue(f, chips) ==
    IF f \in done \/ Queued(f)
    THEN chip' = chips /\ UNCHANGED <<queue, running, transfer, attempt>>
    ELSE Resume(Append(queue, f), chips)

-----------------------------------------------------------------------------
(* Picking files. *)

Chips == Cardinality({f \in File : chip[f] # "none"})
         + Cardinality({x \in Row \X {1, 2} : x[2] <= shown[x[1]]})

AddChip(f, c) ==
    /\ pick' = [pick EXCEPT ![f] = "chip"]
    /\ home' = [home EXCEPT ![f] = c]
    /\ Enqueue(f, [chip EXCEPT ![f] = "pending"])

Pick(f) ==
    /\ pick[f] = "none"
    /\ active # NoConversation
    /\ Chips < MaxFiles
    /\ AddChip(f, active)
    /\ UNCHANGED <<active, known, shown, done, removed, serverVars, deletion, load, turn, moves, faults, history>>

\* In a new chat the conversation is created first.
PickInNewChat(f) ==
    /\ pick[f] = "none"
    /\ active = NoConversation
    /\ Chips < MaxFiles
    /\ pick' = [pick EXCEPT ![f] = "creating"]
    /\ UNCHANGED <<active, known, home, queueVars, shown, done, removed, serverVars, deletion, load, turn, moves, faults, history>>

\* createConversation opens what it created, whatever is open by now.
Created(f) ==
    /\ pick[f] = "creating"
    /\ \E c \in Conversation \ known : known' = known \cup {c} /\ active' = c
    /\ pick' = [pick EXCEPT ![f] = "created"]
    /\ strayed' = (strayed \/ active # NoConversation)
    /\ UNCHANGED <<home, queueVars, shown, done, removed, serverVars, deletion, load, turn, moves, faults, landed, overtaken>>

\* The chosen model is stored in between; then the file goes to the
\* conversation that is open, if one is.
PickGoesOn(f) ==
    /\ pick[f] = "created"
    /\ IF active = NoConversation
       THEN pick' = [pick EXCEPT ![f] = "dropped"] /\ UNCHANGED <<home, queueVars>>
       ELSE AddChip(f, active)
    /\ UNCHANGED <<active, known, shown, done, removed, serverVars, deletion, load, turn, moves, faults, history>>

-----------------------------------------------------------------------------
(* Transfers. *)

\* The server stores the file's row; the answer is on its way.
Store(f) ==
    /\ transfer[f] = "sent"
    /\ transfer' = [transfer EXCEPT ![f] = "stored"]
    /\ row' = [row EXCEPT ![RowOf(f)] = "stored"]
    /\ UNCHANGED <<active, known, pick, home, chip, shown, queue, running, attempt, done, removed, used, deletion, load, turn, moves, faults, history>>

\* Mutant of GoOn: the file is not shifted off the queue.
GoOnUnshifted(f, chips) ==
    /\ done' = done \cup {f}
    /\ Drain(queue, chips, [transfer EXCEPT ![f] = "none"])

\* The rest of drain() after an upload that did not reject.
GoOn(f, chips) ==
    /\ done' = done \cup {f}
    /\ Drain(Behind(f), chips, [transfer EXCEPT ![f] = "none"])

\* The user removed the chip meanwhile: the row goes again.
UploadedInVain(f) ==
    /\ removed' = removed \ {f}
    /\ deletion' = deletion \cup {RowOf(f)}
    /\ GoOn(f, chip)
    /\ UNCHANGED <<shown, landed>>

\* Mutant of Adopt: a chip that is gone is not added again.
AdoptIntoChip(f) ==
    /\ IF home[f] = active /\ chip[f] # "none"
       THEN shown' = [shown EXCEPT ![RowOf(f)] = @ + 1] /\ GoOn(f, [chip EXCEPT ![f] = "none"])
       ELSE GoOn(f, chip) /\ UNCHANGED shown
    /\ landed' = landed \cup {f}
    /\ UNCHANGED <<removed, deletion>>

\* A chip of the row takes the local one's place, or is added if a switch to
\* another conversation and back took that away.  While another conversation
\* is open, the row waits for its own.
Adopt(f) ==
    /\ IF home[f] = active
       THEN shown' = [shown EXCEPT ![RowOf(f)] = @ + 1] /\ GoOn(f, [chip EXCEPT ![f] = "none"])
       ELSE GoOn(f, chip) /\ UNCHANGED shown
    /\ landed' = landed \cup {f}
    /\ UNCHANGED <<removed, deletion>>

Uploaded(f) ==
    /\ transfer[f] = "stored"
    /\ IF f \in removed THEN UploadedInVain(f) ELSE Adopt(f)
    /\ UNCHANGED <<active, known, pick, home, serverVars, load, turn, moves, faults, strayed, overtaken>>

\* Refused, or the answer is lost after the row was stored.
UploadFails(f) ==
    /\ transfer[f] # "none"
    /\ Fault
    /\ IF f \in removed
       THEN removed' = removed \ {f} /\ GoOn(f, chip)
       ELSE /\ chip' = [chip EXCEPT ![f] = IF @ = "none" THEN "none" ELSE "error"]
            /\ queue' = Behind(f) /\ running' = FALSE
            /\ transfer' = [transfer EXCEPT ![f] = "none"]
            /\ UNCHANGED <<attempt, done, removed>>
    /\ UNCHANGED <<active, known, pick, home, shown, serverVars, deletion, load, turn, moves, history>>

-----------------------------------------------------------------------------
(* What the user does with chips. *)

RetryUpload(f) ==
    /\ chip[f] = "error"
    /\ LET chips == [chip EXCEPT ![f] = "pending"] IN
       IF f \in done \/ Queued(f)
       THEN chip' = chips /\ UNCHANGED <<queue, running, transfer, attempt>>
       ELSE Resume(<<f>> \o queue, chips)
    /\ UNCHANGED <<active, known, pick, home, shown, done, removed, serverVars, deletion, load, turn, moves, faults, landed, strayed>>
    /\ overtaken' = (overtaken \/ running)

\* A chip that is waiting or in flight: what the upload brings is to go again.
RemoveChip(f) ==
    /\ chip[f] # "none"
    /\ removed' = IF chip[f] = "error" THEN removed ELSE removed \cup {f}
    /\ Resume(RemoveFirst(queue, f), [chip EXCEPT ![f] = "none"])
    /\ UNCHANGED <<active, known, pick, home, shown, done, serverVars, deletion, load, turn, moves, faults, history>>

\* Every chip of the row goes; drop() resumes the queue whatever its id.
RemoveRowChip(r) ==
    /\ shown[r] > 0 /\ moves < MaxMove
    /\ moves' = moves + 1
    /\ shown' = [shown EXCEPT ![r] = 0]
    /\ deletion' = deletion \cup {r}
    /\ Resume(queue, chip)
    /\ UNCHANGED <<active, known, pick, home, done, removed, serverVars, load, turn, faults, history>>

-----------------------------------------------------------------------------
(* The server's part of a deletion: only a draft goes, a file of a message  *)
(* stays.  A request that fails, here and below, is one whose answer does   *)
(* not come: the page swallows the error.                                   *)

DeleteRow(r) ==
    /\ r \in deletion
    /\ row' = [row EXCEPT ![r] = IF @ = "stored" /\ r \notin used THEN "deleted" ELSE @]
    /\ deletion' = deletion \ {r}
    /\ UNCHANGED <<active, known, pick, home, queueVars, shown, done, removed, used, load, turn, moves, faults, history>>

-----------------------------------------------------------------------------
(* Opening conversations. *)

\* loadMessages for the conversation c.
StartLoad(l, c) ==
    /\ load[l].pc = "idle"
    /\ load' = [load EXCEPT ![l] = [NoLoad EXCEPT !.pc = "messages", !.conversation = c]]

NoChips == [f \in File |-> "none"]
NothingShown == [r \in Row |-> 0]
Detached == [turn EXCEPT !.attached = FALSE]

\* The chips go, what is queued goes on.
SelectConversation(c, l) ==
    /\ c \in known /\ c # active /\ moves < MaxMove
    /\ active' = c
    /\ chip' = NoChips /\ shown' = NothingShown
    /\ turn' = Detached
    /\ StartLoad(l, c)
    /\ moves' = moves + 1
    /\ UNCHANGED <<known, pick, home, queue, running, transfer, attempt, done, removed, serverVars, deletion, faults, history>>

\* A new chat forgets the queue too; the upload in flight still ends there.
StartNewConversation ==
    /\ active # NoConversation /\ moves < MaxMove
    /\ active' = NoConversation
    /\ chip' = NoChips /\ shown' = NothingShown
    /\ queue' = <<>> /\ done' = {}
    /\ turn' = Detached
    /\ moves' = moves + 1
    /\ UNCHANGED <<known, pick, home, running, transfer, attempt, removed, serverVars, deletion, load, faults, history>>

\* The server reads the messages of the conversation asked for: which of its
\* files are used.
ReadMessages(l) ==
    /\ load[l].pc = "messages"
    /\ load' = [load EXCEPT ![l].pc = "read",
                            ![l].used = {r \in used : home[FileOf(r)] = load[l].conversation}]
    /\ UNCHANGED <<active, known, pick, home, queueVars, shown, done, removed, serverVars, deletion, turn, moves, faults, history>>

\* The messages arrive; loadConversationFiles goes on with the files of the
\* conversation that is open by now.
LoadFiles(l) ==
    /\ load[l].pc = "read"
    /\ load' = IF active = NoConversation
               THEN [load EXCEPT ![l] = NoLoad]
               ELSE [load EXCEPT ![l].pc = "files", ![l].conversation = active]
    /\ UNCHANGED <<active, known, pick, home, queueVars, shown, done, removed, serverVars, deletion, turn, moves, faults, history>>

ReadFiles(l) ==
    /\ load[l].pc = "files"
    /\ load' = [load EXCEPT ![l].pc = "listed",
                            ![l].rows = {r \in Row : row[r] = "stored" /\ home[FileOf(r)] = load[l].conversation}]
    /\ UNCHANGED <<active, known, pick, home, queueVars, shown, done, removed, serverVars, deletion, turn, moves, faults, history>>

\* Mutant of RestoreChips: what the composer shows already is not looked at.
RestoreAllChips(l) ==
    /\ load[l].pc = "listed"
    /\ shown' = IF load[l].conversation = active
                THEN [r \in Row |-> IF r \in load[l].rows \ load[l].used THEN shown[r] + 1 ELSE shown[r]]
                ELSE shown
    /\ load' = [load EXCEPT ![l] = NoLoad]
    /\ UNCHANGED <<active, known, pick, home, queueVars, done, removed, serverVars, deletion, turn, moves, faults, history>>

\* Mutant of RestoreChips: what is open by now is not looked at.
RestoreAnyChips(l) ==
    /\ load[l].pc = "listed"
    /\ shown' = [r \in Row |-> IF r \in load[l].rows \ load[l].used /\ shown[r] = 0 THEN 1 ELSE shown[r]]
    /\ load' = [load EXCEPT ![l] = NoLoad]
    /\ UNCHANGED <<active, known, pick, home, queueVars, done, removed, serverVars, deletion, turn, moves, faults, history>>

\* Files no message refers to and no chip shows come back as chips.
RestoreChips(l) ==
    /\ load[l].pc = "listed"
    /\ shown' = IF load[l].conversation = active
                THEN [r \in Row |-> IF r \in load[l].rows \ load[l].used /\ shown[r] = 0 THEN 1 ELSE shown[r]]
                ELSE shown
    /\ load' = [load EXCEPT ![l] = NoLoad]
    /\ UNCHANGED <<active, known, pick, home, queueVars, done, removed, serverVars, deletion, turn, moves, faults, history>>

-----------------------------------------------------------------------------
(* Sending files with a message. *)

\* The chips whose file the composer knows to be READY: any, as processing goes.
Shown == {r \in Row : shown[r] > 0}

\* canSend and send: every upload is through; what is READY goes along.
SendFiles ==
    /\ active # NoConversation
    /\ turn.pc = "idle"
    /\ chip = NoChips
    /\ \E rows \in SUBSET Shown \ {{}} :
          turn' = [pc |-> "sent", rows |-> rows, conversation |-> active, attached |-> TRUE]
    /\ UNCHANGED <<active, known, pick, home, queueVars, shown, done, removed, serverVars, deletion, load, moves, faults, history>>

\* The server checks that the rows are there and of the conversation ...
CheckFiles ==
    /\ turn.pc = "sent"
    /\ \A r \in turn.rows : row[r] = "stored" /\ home[FileOf(r)] = turn.conversation
    /\ turn' = [turn EXCEPT !.pc = "checked"]
    /\ UNCHANGED <<active, known, pick, home, queueVars, shown, done, removed, serverVars, deletion, load, moves, faults, history>>

\* ... and attaches them to the message some awaits later.
AcceptTurn ==
    /\ turn.pc = "checked"
    /\ used' = used \cup turn.rows
    /\ turn' = [turn EXCEPT !.pc = "accepted"]
    /\ UNCHANGED <<active, known, pick, home, queueVars, shown, done, removed, row, deletion, load, moves, faults, history>>

\* finish(): every READY chip goes, also of files that became READY since,
\* unless the page has left the feed.
Finish ==
    IF turn.attached
    THEN \E rows \in SUBSET Shown :
            /\ turn.rows \cap Shown \subseteq rows
            /\ shown' = [r \in Row |-> IF r \in rows THEN 0 ELSE shown[r]]
            /\ landed' = landed \ {FileOf(r) : r \in rows}
    ELSE UNCHANGED <<shown, landed>>

EndTurn ==
    /\ turn.pc = "accepted"
    /\ turn' = [NoTurn EXCEPT !.pc = "over"]
    /\ Finish
    /\ UNCHANGED <<active, known, pick, home, queueVars, done, removed, serverVars, deletion, load, moves, faults, strayed, overtaken>>

\* Refused or lost before the first token: the page also loads what is open.
\* The server may still be at it, and accept what the page has given up.
TurnFails(l) ==
    /\ turn.pc \in {"sent", "checked", "accepted"}
    /\ \/ turn' = [NoTurn EXCEPT !.pc = "over"]
       \/ turn.attached /\ turn' = Detached
    /\ Finish
    /\ IF turn.attached THEN StartLoad(l, active) ELSE UNCHANGED load
    /\ UNCHANGED <<active, known, pick, home, queueVars, done, removed, serverVars, deletion, moves, faults, strayed, overtaken>>

-----------------------------------------------------------------------------
Next ==
    \/ \E f \in File :
          \/ Pick(f) \/ PickInNewChat(f) \/ Created(f) \/ PickGoesOn(f)
          \/ Store(f) \/ Uploaded(f) \/ UploadFails(f)
          \/ RetryUpload(f) \/ RemoveChip(f)
    \/ \E r \in Row : RemoveRowChip(r) \/ DeleteRow(r)
    \/ \E l \in Load :
          \/ \E c \in Conversation : SelectConversation(c, l)
          \/ ReadMessages(l) \/ LoadFiles(l) \/ ReadFiles(l) \/ RestoreChips(l) \/ TurnFails(l)
    \/ StartNewConversation
    \/ SendFiles \/ CheckFiles \/ AcceptTurn \/ EndTurn

Spec == Init /\ [][Next]_vars

-----------------------------------------------------------------------------
ChipState == {"none", "pending", "uploading", "error"}
LoadRecord == [pc : {"idle", "messages", "read", "files", "listed"},
               conversation : Conversation \cup {NoConversation},
               used : SUBSET Row, rows : SUBSET Row]

TypeOK ==
    /\ active \in Conversation \cup {NoConversation}
    /\ known \subseteq Conversation
    /\ pick \in [File -> {"none", "creating", "created", "dropped", "chip"}]
    /\ home \in [File -> Conversation \cup {NoConversation}]
    /\ chip \in [File -> ChipState]
    /\ shown \in [Row -> 0..2]
    /\ queue \in Seq(File)
    /\ running \in BOOLEAN
    /\ transfer \in [File -> {"none", "sent", "stored"}]
    /\ attempt \in [File -> 0..MaxFault + 1]
    /\ done \subseteq File /\ removed \subseteq File
    /\ row \in [Row -> {"none", "stored", "deleted"}]
    /\ used \subseteq Row /\ deletion \subseteq Row
    /\ load \in [Load -> LoadRecord]
    /\ turn \in [pc : {"idle", "sent", "checked", "accepted", "over"}, rows : SUBSET Row,
                 conversation : Conversation \cup {NoConversation}, attached : BOOLEAN]
    /\ moves \in 0..MaxMove /\ faults \in 0..MaxFault
    /\ landed \subseteq File /\ strayed \in BOOLEAN /\ overtaken \in BOOLEAN

\* uploadQueue.ts:4 "Files are transferred one at a time": whatever picks,
\* retries, removals, resets and answers come in between, no two uploads are
\* in flight, and one is exactly while the queue says it is running.
OneTransfer ==
    /\ \A f, g \in File : transfer[f] # "none" /\ transfer[g] # "none" => f = g
    /\ running <=> \E f \in File : transfer[f] # "none"

\* uploadQueue.ts:12 "Ids that uploaded successfully are remembered, so no
\* file is ever transferred twice": no upload begins of a file that is in done
\* or gets there.  Only a retry that goes ahead of the file in flight breaks it.
NeverSentTwice == [][overtaken \/ \A f \in done' : attempt'[f] = attempt[f]]_vars

\* A chip is what the queue makes of it: a pending one waits in the queue, an
\* uploading one is the one in flight, and a failed one is out of the queue,
\* so that its retry is not ignored.  Only creating a conversation while
\* another is opened breaks it; and when a retry went ahead of a file in
\* flight that then fails, that one stays queued and cannot be retried.
EveryChipIsServed ==
    strayed \/ \A f \in File :
        /\ chip[f] = "pending" => Queued(f) /\ transfer[f] = "none"
        /\ chip[f] = "uploading" => transfer[f] # "none"
        /\ chip[f] = "error" => transfer[f] = "none" /\ f \notin done /\ (overtaken \/ ~Queued(f))

\* ChatView.vue:326 "Chips picked for A must not silently become attachments
\* of B": whatever answers come late, the composer shows only files of the
\* open conversation, so long as none is created under an open one.
NoForeignChip ==
    strayed \/ /\ \A f \in File : chip[f] # "none" => home[f] = active
               /\ \A r \in Row : shown[r] > 0 => home[FileOf(r)] = active

\* ChatView.vue:546 "so a finished upload is never invisible": an upload that
\* succeeded shows in its conversation, when nothing is being loaded, unless
\* its chip or row was removed, a message refers to it, or the end of a send
\* cleared its chip with those of the files that were sent.
UploadsStayVisible ==
    (\A l \in Load : load[l] = NoLoad) =>
        \A f \in landed :
            LET rows == {r \in Row : FileOf(r) = f} IN
            home[f] = active /\ (\A r \in rows : row[r] # "deleted" /\ r \notin deletion \cup used)
                => \E r \in rows : shown[r] > 0
=============================================================================
