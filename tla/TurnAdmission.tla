--------------------------- MODULE TurnAdmission ---------------------------
(***************************************************************************)
(* How a send becomes an accepted turn: the pre-flight of                  *)
(* MessagesService.assertChatTurnAllowed (token lookup, content collision, *)
(* daily quota) and the first half of beginChatTurn (second token lookup,  *)
(* the transaction that inserts user row and usage row). Nothing is locked *)
(* between these reads and the insert, so several requests of one user     *)
(* interleave at every await.                                              *)
(*                                                                         *)
(* A user row and its usage row are named by the send that inserted them.  *)
(* All sends are of one user; a token stands for (conversation, token).    *)
(***************************************************************************)
EXTENDS Integers, FiniteSets

CONSTANTS
    Send,
    Token, TokenOf,      \* clientMessageId of each send, NoToken when absent
    NoToken,
    Content, ContentOf,  \* the text of each send
    Admin,               \* the sends made with the admin role
    DailyMessages,       \* the plan's daily message quota
    MaxInFlight,         \* bound: requests between arrival and acceptance
    MaxFault,            \* bound: failed transactions
    MaxDay               \* bound: UTC midnights

ASSUME AdmissionAssumption ==
    /\ IsFiniteSet(Send)
    /\ NoToken \notin Token
    /\ TokenOf \in [Send -> Token \cup {NoToken}]
    /\ ContentOf \in [Send -> Content]
    /\ Admin \subseteq Send
    /\ DailyMessages \in Nat
    /\ MaxInFlight \in Nat \ {0}
    /\ MaxFault \in Nat
    /\ MaxDay \in Nat

VARIABLES
    send,      \* where each request stands, and the user row of its turn
    userRow,   \* messages: the user rows
    usage,     \* usage_records, by message_id
    today,     \* the current UTC day
    faults     \* failed transactions so far

vars == <<send, userRow, usage, today, faults>>

Checking == {"lookup", "quota", "begin", "insert"}
SendState == Checking \cup {"new", "running", "ended", "refused", "died"}
Outcome == {"pending", "completed", "failed", "interrupted"}

Init ==
    /\ send = [s \in Send |-> [pc |-> "new", anchor |-> s]]
    /\ userRow = {}
    /\ usage = [s \in Send |-> [outcome |-> "pending", day |-> 0]]
    /\ today = 0
    /\ faults = 0

InFlight == {s \in Send : send[s].pc \in Checking}

\* The user rows that carry the token of a send.
Matches(s) == {u \in userRow : TokenOf[s] # NoToken /\ TokenOf[u] = TokenOf[s]}

Goto(s, pc) == send' = [send EXCEPT ![s].pc = pc]

-----------------------------------------------------------------------------
(* assertChatTurnAllowed. *)

Arrive(s) ==
    /\ send[s].pc = "new"
    /\ Cardinality(InFlight) < MaxInFlight
    /\ Goto(s, "lookup")
    /\ UNCHANGED <<userRow, usage, today, faults>>

\* Ownership, search switch, entitlements, model, plan features, attachments:
\* all of them only read and refuse.
RefuseByGate(s) ==
    /\ send[s].pc = "lookup"
    /\ Goto(s, "refused")
    /\ UNCHANGED <<userRow, usage, today, faults>>

\* The first token lookup: a collision is refused, a replay and an admin skip
\* the quota.
LookUpToken(s) ==
    /\ send[s].pc = "lookup"
    /\ \/ /\ Matches(s) = {}
          /\ Goto(s, IF s \in Admin THEN "begin" ELSE "quota")
       \/ \E u \in Matches(s) :
             Goto(s, IF ContentOf[u] = ContentOf[s] THEN "begin" ELSE "refused")
    /\ UNCHANGED <<userRow, usage, today, faults>>

\* Today's usage rows whose outcome is not failed.
Counted == {u \in userRow : usage[u].day = today /\ usage[u].outcome # "failed"}

\* Mutant of CheckQuota: off by one.
CheckQuotaLate(s) ==
    /\ send[s].pc = "quota"
    /\ Goto(s, IF Cardinality(Counted) <= DailyMessages THEN "begin" ELSE "refused")
    /\ UNCHANGED <<userRow, usage, today, faults>>

CheckQuota(s) ==
    /\ send[s].pc = "quota"
    /\ Goto(s, IF Cardinality(Counted) < DailyMessages THEN "begin" ELSE "refused")
    /\ UNCHANGED <<userRow, usage, today, faults>>

-----------------------------------------------------------------------------
(* beginChatTurn. *)

\* Mutant of ResolveUserRow: a retry inserts its rows again.
InsertAlways(s) ==
    /\ send[s].pc = "begin"
    /\ Goto(s, "insert")
    /\ UNCHANGED <<userRow, usage, today, faults>>

\* The second token lookup decides between reuse and insert.
ResolveUserRow(s) ==
    /\ send[s].pc = "begin"
    /\ \/ Matches(s) = {} /\ Goto(s, "insert")
       \/ \E u \in Matches(s) :
             send' = [send EXCEPT ![s].pc = "running", ![s].anchor = u]
    /\ UNCHANGED <<userRow, usage, today, faults>>

\* Mutant of InsertTurn: the usage row is dated a day ahead.
InsertTurnTomorrow(s) ==
    /\ send[s].pc = "insert"
    /\ userRow' = userRow \cup {s}
    /\ usage' = [usage EXCEPT ![s] = [outcome |-> "pending", day |-> today + 1]]
    /\ Goto(s, "running")
    /\ UNCHANGED <<today, faults>>

\* User row and usage row in one transaction, or neither.
InsertTurn(s) ==
    /\ send[s].pc = "insert"
    /\ \/ /\ userRow' = userRow \cup {s}
          /\ usage' = [usage EXCEPT ![s] = [outcome |-> "pending", day |-> today]]
          /\ Goto(s, "running")
          /\ UNCHANGED faults
       \/ /\ faults < MaxFault
          /\ faults' = faults + 1
          /\ Goto(s, "died")
          /\ UNCHANGED <<userRow, usage>>
    /\ UNCHANGED today

\* The generation of the turn ends and recordTurnEnd updates the usage row at
\* its anchor, whatever that row says by then.
EndTurn(s) ==
    /\ send[s].pc = "running"
    /\ Goto(s, "ended")
    /\ \E outcome \in Outcome \ {"pending"} :
          usage' = [usage EXCEPT ![send[s].anchor].outcome = outcome]
    /\ UNCHANGED <<userRow, today, faults>>

\* startOfUtcDay moves.
Midnight ==
    /\ today < MaxDay
    /\ today' = today + 1
    /\ UNCHANGED <<send, userRow, usage, faults>>

Next ==
    \/ \E s \in Send :
          \/ Arrive(s) \/ RefuseByGate(s) \/ LookUpToken(s) \/ CheckQuota(s)
          \/ ResolveUserRow(s) \/ InsertTurn(s) \/ EndTurn(s)
    \/ Midnight

Spec == Init /\ [][Next]_vars

-----------------------------------------------------------------------------
(* Correctness. *)

\* Every variable holds a value of the shape the code gives it.
TypeOK ==
    /\ send \in [Send -> [pc : SendState, anchor : Send]]
    /\ userRow \subseteq Send
    /\ usage \in [Send -> [outcome : Outcome, day : 0..MaxDay]]
    /\ today \in 0..MaxDay
    /\ faults \in 0..MaxFault

\* A token has more than one user row only while its sends overlap: however
\* often a send is repeated, there are never more rows of its token than
\* requests were in flight at a time, and one if they came one by one.
DuplicatesAreRaceWidth ==
    \A t \in Token : Cardinality({u \in userRow : TokenOf[u] = t}) <= MaxInFlight

\* A turn that no later send repeated.
Unretried(u) == \A s \in Send \ {u} : send[s].anchor # u

\* Sends that passed the quota and have no user row yet.
Admitted == {s \in Send \ Admin :
                \/ send[s].pc = "insert"
                \/ send[s].pc = "begin" /\ Matches(s) = {}}

Charged == {u \in Counted \ Admin : Unretried(u)}

\* Concurrent sends exceed the daily limit by the race width at most: the sends
\* admitted and not yet inserted, and today's rows that no retry has touched,
\* stay below the limit plus the other requests in flight.
OverrunIsRaceWidth ==
    Cardinality(Charged) + Cardinality(Admitted) <= DailyMessages + MaxInFlight - 1
=============================================================================
