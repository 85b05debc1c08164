------------------------ MODULE TurnAdmissionProofs ------------------------
(***************************************************************************)
(* Theorems about TurnAdmission: type correctness, and that nothing but    *)
(* the requests in flight at a time bounds how far unlocked look-ups let   *)
(* tokens be used twice and the daily quota be exceeded. They hold for     *)
(* every set of sends, every limit and every number of requests in flight. *)
(***************************************************************************)
EXTENDS TurnAdmission, FiniteSetTheorems, TLAPS

-----------------------------------------------------------------------------
(* Types. *)

LEMMA TypedInit == Init => TypeOK
BY AdmissionAssumption DEF Init, TypeOK, SendState, Checking, Outcome

LEMMA GotoTyped ==
    ASSUME TypeOK, NEW s \in Send, NEW pc \in SendState, Goto(s, pc)
    PROVE  send' \in [Send -> [pc : SendState, anchor : Send]]
BY DEF TypeOK, Goto

LEMMA ReuseTyped ==
    ASSUME NEW f \in [Send -> [pc : SendState, anchor : Send]],
           NEW s \in Send, NEW pc \in SendState, NEW a \in Send
    PROVE  /\ [f EXCEPT ![s].pc = pc, ![s].anchor = a] \in [Send -> [pc : SendState, anchor : Send]]
           /\ [f EXCEPT ![s].pc = pc, ![s].anchor = a][s].pc = pc
           /\ \A x \in Send \ {s} : [f EXCEPT ![s].pc = pc, ![s].anchor = a][x] = f[x]
<1> DEFINE g == [f EXCEPT ![s].pc = pc, ![s].anchor = a]
<1>1. g[s] = [f[s] EXCEPT !.pc = pc, !.anchor = a]
  OBVIOUS
<1>2. f[s] \in [pc : SendState, anchor : Send]
  OBVIOUS
<1>3. g[s] \in [pc : SendState, anchor : Send] /\ g[s].pc = pc
  BY <1>1, <1>2
<1>4. \A x \in Send \ {s} : g[x] = f[x]
  OBVIOUS
<1>5. g = [x \in Send |-> g[x]]
  OBVIOUS
<1> HIDE DEF g
<1>6. g \in [Send -> [pc : SendState, anchor : Send]]
  BY <1>3, <1>4, <1>5
<1> QED
  BY <1>3, <1>4, <1>6 DEF g

LEMMA TypedNext == TypeOK /\ [Next]_vars => TypeOK'
<1> SUFFICES ASSUME TypeOK, [Next]_vars
             PROVE  TypeOK'
  OBVIOUS
<1> USE AdmissionAssumption
<1>1. ASSUME NEW s \in Send, Arrive(s) PROVE TypeOK'
  BY <1>1, GotoTyped DEF Arrive, TypeOK, SendState, Checking
<1>2. ASSUME NEW s \in Send, RefuseByGate(s) PROVE TypeOK'
  BY <1>2, GotoTyped DEF RefuseByGate, TypeOK, SendState
<1>3. ASSUME NEW s \in Send, LookUpToken(s) PROVE TypeOK'
  BY <1>3, GotoTyped DEF LookUpToken, TypeOK, SendState, Checking
<1>4. ASSUME NEW s \in Send, CheckQuota(s) PROVE TypeOK'
  BY <1>4, GotoTyped DEF CheckQuota, TypeOK, SendState, Checking
<1>5. ASSUME NEW s \in Send, ResolveUserRow(s) PROVE TypeOK'
  <2>1. CASE Matches(s) = {} /\ Goto(s, "insert")
    BY <1>5, <2>1, GotoTyped DEF ResolveUserRow, TypeOK, SendState, Checking
  <2>2. ASSUME NEW u \in Matches(s), send' = [send EXCEPT ![s].pc = "running", ![s].anchor = u]
        PROVE  TypeOK'
    <3>1. u \in Send /\ "running" \in SendState
      BY DEF Matches, TypeOK, SendState
    <3>2. send \in [Send -> [pc : SendState, anchor : Send]]
      BY DEF TypeOK
    <3>3. send' \in [Send -> [pc : SendState, anchor : Send]]
      BY <2>2, <3>1, <3>2, ReuseTyped
    <3> QED
      BY <1>5, <3>3 DEF ResolveUserRow, TypeOK
  <2> QED
    BY <1>5, <2>1, <2>2 DEF ResolveUserRow
<1>6. ASSUME NEW s \in Send, InsertTurn(s) PROVE TypeOK'
  <2>1. "running" \in SendState /\ "died" \in SendState /\ "pending" \in Outcome
    BY DEF SendState, Outcome
  <2>2. send' \in [Send -> [pc : SendState, anchor : Send]]
    BY <1>6, <2>1, GotoTyped DEF InsertTurn
  <2>3. usage' \in [Send -> [outcome : Outcome, day : 0..MaxDay]]
    BY <1>6, <2>1 DEF InsertTurn, TypeOK
  <2> QED
    BY <1>6, <2>2, <2>3 DEF InsertTurn, TypeOK
<1>7. ASSUME NEW s \in Send, EndTurn(s) PROVE TypeOK'
  <2>1. send' \in [Send -> [pc : SendState, anchor : Send]]
    BY <1>7, GotoTyped DEF EndTurn, SendState
  <2>2. usage' \in [Send -> [outcome : Outcome, day : 0..MaxDay]]
    BY <1>7 DEF EndTurn, TypeOK
  <2> QED
    BY <1>7, <2>1, <2>2 DEF EndTurn, TypeOK
<1>8. CASE Midnight
  BY <1>8 DEF Midnight, TypeOK
<1>9. CASE UNCHANGED vars
  BY <1>9 DEF vars, TypeOK
<1> QED
  BY <1>1, <1>2, <1>3, <1>4, <1>5, <1>6, <1>7, <1>8, <1>9 DEF Next

\* Every variable holds a value of the shape the code gives it, whatever the
\* sends, limits and bounds are.
THEOREM TypeCorrect == Spec => []TypeOK
BY TypedInit, TypedNext, PTL DEF Spec

-----------------------------------------------------------------------------
(* Where a send stands says what is written of it. *)

Anchored(s) == send[s].anchor = s

Rows ==
    /\ \A s \in Send : send[s].pc \in Checking \cup {"new"} => s \notin userRow /\ Anchored(s)
    /\ \A u \in userRow : Anchored(u)
    /\ \A u \in Send : usage[u].day <= today

LEMMA RowsInit == Init => Rows
BY AdmissionAssumption DEF Init, Rows, Anchored

LEMMA RowsNext == TypeOK /\ Rows /\ [Next]_vars => Rows'
<1> SUFFICES ASSUME TypeOK, Rows, [Next]_vars
             PROVE  Rows'
  OBVIOUS
<1> USE AdmissionAssumption DEF Rows, Anchored, TypeOK, Goto
<1>1. ASSUME NEW s \in Send, Arrive(s) PROVE Rows'
  BY <1>1 DEF Arrive, Checking
<1>2. ASSUME NEW s \in Send, RefuseByGate(s) PROVE Rows'
  BY <1>2 DEF RefuseByGate, Checking
<1>3. ASSUME NEW s \in Send, LookUpToken(s) PROVE Rows'
  BY <1>3 DEF LookUpToken, Checking
<1>4. ASSUME NEW s \in Send, CheckQuota(s) PROVE Rows'
  BY <1>4 DEF CheckQuota, Checking
<1>5. ASSUME NEW s \in Send, ResolveUserRow(s) PROVE Rows'
  <2>1. CASE Goto(s, "insert")
    <3>1. send[s].pc \in Checking /\ userRow' = userRow /\ usage' = usage /\ today' = today
      BY <1>5 DEF ResolveUserRow, Checking
    <3>2. \A x \in Send : send'[x].anchor = send[x].anchor
      BY <2>1
    <3>3. \A x \in Send \ {s} : send'[x] = send[x]
      BY <2>1
    <3> QED
      BY <3>1, <3>2, <3>3
  <2>2. ASSUME NEW u \in Matches(s), send' = [send EXCEPT ![s].pc = "running", ![s].anchor = u]
        PROVE  Rows'
    <3>1. s \notin userRow
      BY <1>5 DEF ResolveUserRow, Checking
    <3>u. u \in Send /\ "running" \in SendState
      BY DEF Matches, SendState
    <3>2. \A x \in Send \ {s} : send'[x] = send[x]
      BY <2>2, <3>u, ReuseTyped
    <3>3. send'[s].pc = "running"
      BY <2>2, <3>u, ReuseTyped
    <3>4. userRow' = userRow /\ usage' = usage /\ today' = today
      BY <1>5 DEF ResolveUserRow
    <3> QED
      BY <3>1, <3>2, <3>3, <3>4 DEF Checking
  <2> QED
    BY <1>5, <2>1, <2>2 DEF ResolveUserRow
<1>6. ASSUME NEW s \in Send, InsertTurn(s) PROVE Rows'
  <2>1. CASE userRow' = userRow \cup {s} /\ Goto(s, "running")
             /\ usage' = [usage EXCEPT ![s] = [outcome |-> "pending", day |-> today]]
    BY <1>6, <2>1 DEF InsertTurn, Checking
  <2>2. CASE Goto(s, "died") /\ UNCHANGED <<userRow, usage>>
    BY <1>6, <2>2 DEF InsertTurn, Checking
  <2> QED
    BY <1>6, <2>1, <2>2 DEF InsertTurn
<1>7. ASSUME NEW s \in Send, EndTurn(s) PROVE Rows'
  <2>1. \A u \in Send : usage'[u].day = usage[u].day
    BY <1>7 DEF EndTurn
  <2>2. \A u \in Send : send'[u].anchor = send[u].anchor
    BY <1>7 DEF EndTurn
  <2>3. \A u \in Send : send'[u].pc \in Checking \cup {"new"} => send'[u].pc = send[u].pc
    BY <1>7 DEF EndTurn, Checking
  <2>4. userRow' = userRow /\ today' = today
    BY <1>7 DEF EndTurn
  <2> QED
    BY <2>1, <2>2, <2>3, <2>4
<1>8. CASE Midnight
  BY <1>8 DEF Midnight
<1>9. CASE UNCHANGED vars
  BY <1>9 DEF vars
<1> QED
  BY <1>1, <1>2, <1>3, <1>4, <1>5, <1>6, <1>7, <1>8, <1>9 DEF Next

-----------------------------------------------------------------------------
(* What each step makes of the sends: the only way into a state. *)

LEMMA Finite == ASSUME NEW S \in SUBSET Send PROVE IsFiniteSet(S) /\ Cardinality(S) \in Nat
BY AdmissionAssumption, FS_Subset, FS_CardinalityType

\* A smaller set of sends stays below a bound.
LEMMA StaysBelow ==
    ASSUME NEW S \in SUBSET Send, NEW T \in SUBSET S, NEW n \in Int, Cardinality(S) <= n
    PROVE  Cardinality(T) <= n
<1>1. IsFiniteSet(S) /\ Cardinality(S) \in Nat /\ Cardinality(T) \in Nat
  BY Finite
<1> QED
  BY <1>1, FS_Subset

LEMMA OneMore == ASSUME NEW S, NEW x, IsFiniteSet(S)
                 PROVE  Cardinality(S \cup {x}) <= Cardinality(S) + 1
<1>1. Cardinality(S \cup {x}) = IF x \in S THEN Cardinality(S) ELSE Cardinality(S) + 1
  BY FS_AddElement
<1>2. Cardinality(S) \in Nat
  BY FS_CardinalityType
<1> QED
  BY <1>1, <1>2

Moved(s) == \A x \in Send \ {s} : send'[x] = send[x]

LEMMA GotoMoves == ASSUME TypeOK, NEW s \in Send, NEW pc, Goto(s, pc)
                   PROVE  Moved(s) /\ send'[s].pc = pc /\ send'[s].anchor = send[s].anchor
BY DEF TypeOK, Goto, Moved

LEMMA ReuseMoves ==
    ASSUME TypeOK, NEW s \in Send, NEW u \in Send,
           send' = [send EXCEPT ![s].pc = "running", ![s].anchor = u]
    PROVE  Moved(s) /\ send'[s].pc = "running"
<1>1. send \in [Send -> [pc : SendState, anchor : Send]] /\ "running" \in SendState
  BY DEF TypeOK, SendState
<1> QED
  BY <1>1, ReuseTyped DEF Moved

-----------------------------------------------------------------------------
(* At most MaxInFlight requests are in flight. *)

InFlightBounded == Cardinality(InFlight) <= MaxInFlight

LEMMA InFlightInit == Init => InFlightBounded
<1> SUFFICES ASSUME Init
             PROVE  InFlightBounded
  OBVIOUS
<1>1. InFlight = {}
  BY DEF Init, InFlight, Checking
<1> QED
  BY <1>1, FS_EmptySet, AdmissionAssumption DEF InFlightBounded

\* Only Arrive brings another request in flight.
LEMMA FlightNext ==
    ASSUME TypeOK, [Next]_vars
    PROVE  InFlight' \subseteq InFlight \/ \E s \in Send : Arrive(s)
<1>1. ASSUME NEW s \in Send,
             \/ RefuseByGate(s) \/ LookUpToken(s) \/ CheckQuota(s)
             \/ ResolveUserRow(s) \/ InsertTurn(s)
      PROVE  InFlight' \subseteq InFlight
  <2>1. send[s].pc \in Checking
    BY <1>1 DEF RefuseByGate, LookUpToken, CheckQuota, ResolveUserRow, InsertTurn, Checking
  <2>2. Moved(s)
    <3>1. \A u \in Matches(s) : u \in Send
      BY DEF Matches, TypeOK
    <3> QED
      BY <1>1, <3>1, GotoMoves, ReuseMoves
      DEF RefuseByGate, LookUpToken, CheckQuota, ResolveUserRow, InsertTurn
  <2> QED
    BY <2>1, <2>2 DEF InFlight, Moved
<1>2. ASSUME NEW s \in Send, EndTurn(s) PROVE InFlight' \subseteq InFlight
  BY <1>2, GotoMoves DEF EndTurn, InFlight, Checking, Moved
<1>3. ASSUME Midnight \/ UNCHANGED vars PROVE InFlight' \subseteq InFlight
  BY <1>3 DEF Midnight, vars, InFlight
<1> QED
  BY <1>1, <1>2, <1>3 DEF Next

LEMMA InFlightNext == TypeOK /\ InFlightBounded /\ [Next]_vars => InFlightBounded'
<1> SUFFICES ASSUME TypeOK, InFlightBounded, [Next]_vars
             PROVE  InFlightBounded'
  OBVIOUS
<1>1. InFlight \in SUBSET Send /\ MaxInFlight \in Int
  BY AdmissionAssumption DEF InFlight
<1>2. CASE InFlight' \subseteq InFlight
  BY <1>1, <1>2, StaysBelow DEF InFlightBounded
<1>3. ASSUME NEW s \in Send, Arrive(s) PROVE InFlightBounded'
  <2>1. InFlight' \subseteq InFlight \cup {s}
    BY <1>3, GotoMoves DEF Arrive, InFlight, Moved
  <2>2. InFlight \cup {s} \in SUBSET Send
    BY <1>1
  <2>3. Cardinality(InFlight \cup {s}) <= MaxInFlight
    <3>1. IsFiniteSet(InFlight) /\ Cardinality(InFlight) \in Nat
      BY <1>1, Finite
    <3>2. Cardinality(InFlight) < MaxInFlight
      BY <1>3 DEF Arrive
    <3>3. Cardinality(InFlight \cup {s}) <= Cardinality(InFlight) + 1
      BY <3>1, OneMore
    <3>4. Cardinality(InFlight \cup {s}) \in Nat
      BY <2>2, Finite
    <3> QED
      BY <1>1, <3>1, <3>2, <3>3, <3>4
  <2> QED
    BY <1>1, <2>1, <2>2, <2>3, StaysBelow DEF InFlightBounded
<1> QED
  BY <1>2, <1>3, FlightNext
-----------------------------------------------------------------------------
(* DuplicatesAreRaceWidth.  Who gets to insert a row of a token saw none of *)
(* it, so all who are about to insert then are in flight; afterwards nobody *)
(* joins them.                                                              *)

Inserters(t) == {s \in Send : TokenOf[s] = t /\ (s \in userRow \/ send[s].pc = "insert")}

FewInsert == \A t \in Token : Cardinality(Inserters(t)) <= MaxInFlight

LEMMA FewInsertInit == Init => FewInsert
<1> SUFFICES ASSUME Init, NEW t \in Token
             PROVE  Cardinality(Inserters(t)) <= MaxInFlight
  BY DEF FewInsert
<1>1. Inserters(t) = {}
  BY DEF Init, Inserters
<1> QED
  BY <1>1, FS_EmptySet, AdmissionAssumption

LEMMA InsertersNext ==
    ASSUME TypeOK, [Next]_vars, NEW t \in Token
    PROVE  Inserters(t)' \subseteq Inserters(t) \/ Inserters(t)' \subseteq InFlight'
<1>1. ASSUME NEW s \in Send, Arrive(s) \/ RefuseByGate(s) \/ LookUpToken(s) \/ CheckQuota(s) \/ EndTurn(s)
      PROVE  Inserters(t)' \subseteq Inserters(t)
  <2>1. userRow' = userRow
    BY <1>1 DEF Arrive, RefuseByGate, LookUpToken, CheckQuota, EndTurn
  <2>2. Moved(s) /\ send'[s].pc # "insert"
    BY <1>1, GotoMoves DEF Arrive, RefuseByGate, LookUpToken, CheckQuota, EndTurn
  <2> QED
    BY <2>1, <2>2 DEF Inserters, Moved
<1>2. ASSUME NEW s \in Send, ResolveUserRow(s)
      PROVE  Inserters(t)' \subseteq Inserters(t) \/ Inserters(t)' \subseteq InFlight'
  <2>1. userRow' = userRow
    BY <1>2 DEF ResolveUserRow
  <2>2. CASE Matches(s) = {} /\ Goto(s, "insert") /\ TokenOf[s] = t
    <3>1. t # NoToken
      BY AdmissionAssumption
    <3>2. \A u \in userRow : TokenOf[u] # t
      BY <2>2, <3>1 DEF Matches
    <3> QED
      BY <2>1, <3>2 DEF Inserters, InFlight, Checking
  <2>3. CASE Goto(s, "insert") /\ TokenOf[s] # t
    <3>1. Moved(s)
      BY <2>3, GotoMoves
    <3> QED
      BY <2>1, <2>3, <3>1 DEF Inserters, Moved
  <2>4. ASSUME NEW u \in Matches(s), send' = [send EXCEPT ![s].pc = "running", ![s].anchor = u]
        PROVE  Inserters(t)' \subseteq Inserters(t)
    <3>1. u \in Send
      BY DEF Matches, TypeOK
    <3>2. Moved(s) /\ send'[s].pc = "running"
      BY <2>4, <3>1, ReuseMoves
    <3> QED
      BY <2>1, <3>2 DEF Inserters, Moved
  <2> QED
    BY <1>2, <2>2, <2>3, <2>4 DEF ResolveUserRow
<1>3. ASSUME NEW s \in Send, InsertTurn(s)
      PROVE  Inserters(t)' \subseteq Inserters(t)
  <2>1. userRow' \subseteq userRow \cup {s} /\ send[s].pc = "insert"
    BY <1>3 DEF InsertTurn
  <2>2. Moved(s)
    BY <1>3, GotoMoves DEF InsertTurn
  <2> QED
    BY <2>1, <2>2 DEF Inserters, Moved
<1>4. ASSUME Midnight \/ UNCHANGED vars PROVE Inserters(t)' \subseteq Inserters(t)
  BY <1>4 DEF Midnight, vars, Inserters
<1> QED
  BY <1>1, <1>2, <1>3, <1>4 DEF Next

LEMMA FewInsertNext ==
    TypeOK /\ InFlightBounded' /\ FewInsert /\ [Next]_vars => FewInsert'
<1> SUFFICES ASSUME TypeOK, InFlightBounded', FewInsert, [Next]_vars, NEW t \in Token
             PROVE  Cardinality(Inserters(t)') <= MaxInFlight
  BY DEF FewInsert
<1>1. Inserters(t) \in SUBSET Send /\ InFlight' \in SUBSET Send /\ MaxInFlight \in Int
  BY AdmissionAssumption DEF Inserters, InFlight
<1>2. CASE Inserters(t)' \subseteq Inserters(t)
  BY <1>1, <1>2, StaysBelow DEF FewInsert
<1>3. CASE Inserters(t)' \subseteq InFlight'
  BY <1>1, <1>3, StaysBelow DEF InFlightBounded
<1> QED
  BY <1>2, <1>3, InsertersNext

LEMMA FewInsertFewRows == TypeOK /\ FewInsert => DuplicatesAreRaceWidth
<1> SUFFICES ASSUME TypeOK, FewInsert, NEW t \in Token
             PROVE  Cardinality({u \in userRow : TokenOf[u] = t}) <= MaxInFlight
  BY DEF DuplicatesAreRaceWidth
<1>1. {u \in userRow : TokenOf[u] = t} \in SUBSET Inserters(t)
  BY DEF Inserters, TypeOK
<1>2. Inserters(t) \in SUBSET Send /\ MaxInFlight \in Int
  BY AdmissionAssumption DEF Inserters
<1> QED
  BY <1>1, <1>2, StaysBelow DEF FewInsert

\* A token has never more user rows than requests were in flight at a time,
\* for every number of sends, repeated in every order, with any of them failing.
THEOREM DuplicatesBounded == Spec => []DuplicatesAreRaceWidth
<1>1. Init => TypeOK /\ InFlightBounded /\ FewInsert
  BY TypedInit, InFlightInit, FewInsertInit
<1>2. TypeOK /\ InFlightBounded /\ FewInsert /\ [Next]_vars
      => (TypeOK /\ InFlightBounded /\ FewInsert)'
  BY TypedNext, InFlightNext, FewInsertNext
<1>3. TypeOK /\ InFlightBounded /\ FewInsert => DuplicatesAreRaceWidth
  BY FewInsertFewRows
<1> QED
  BY <1>1, <1>2, <1>3, PTL DEF Spec
-----------------------------------------------------------------------------
(* OverrunIsRaceWidth.  The sends that count together, exposed to the       *)
(* limit, are those admitted and those charged.  Only a quota check adds    *)
(* one, and it has just seen the rows below the limit; what it has not seen *)
(* is in flight.                                                            *)

Exposed == Charged \cup Admitted

\* What a turn is charged for stays counted until its own generation ends or
\* another send takes it up.
StillCounted ==
    \A u \in userRow : send[u].pc = "running" /\ Unretried(u) => usage[u].outcome # "failed"

\* A send names another row once at most, and its own before.
LEMMA AnchorsNext ==
    ASSUME TypeOK, Rows, [Next]_vars, NEW x \in Send
    PROVE  send'[x].anchor = send[x].anchor \/ send[x].anchor = x
<1>1. ASSUME NEW s \in Send, NEW pc, Goto(s, pc)
      PROVE  send'[x].anchor = send[x].anchor
  BY <1>1, GotoMoves DEF Moved
<1>2. ASSUME NEW s \in Send, ResolveUserRow(s)
      PROVE  send'[x].anchor = send[x].anchor \/ send[x].anchor = x
  <2>1. Anchored(s)
    BY <1>2 DEF ResolveUserRow, Rows, Checking
  <2>2. ASSUME NEW u \in Matches(s), send' = [send EXCEPT ![s].pc = "running", ![s].anchor = u]
        PROVE  send'[x].anchor = send[x].anchor \/ send[x].anchor = x
    <3>1. u \in Send
      BY DEF Matches, TypeOK
    <3> QED
      BY <2>1, <2>2, <3>1, ReuseMoves DEF Moved, Anchored
  <2> QED
    BY <1>1, <1>2, <2>2 DEF ResolveUserRow
<1>3. ASSUME NEW s \in Send,
             \/ Arrive(s) \/ RefuseByGate(s) \/ LookUpToken(s)
             \/ CheckQuota(s) \/ InsertTurn(s) \/ EndTurn(s)
      PROVE  send'[x].anchor = send[x].anchor
  BY <1>1, <1>3 DEF Arrive, RefuseByGate, LookUpToken, CheckQuota, InsertTurn, EndTurn
<1>4. ASSUME Midnight \/ UNCHANGED vars PROVE send'[x].anchor = send[x].anchor
  BY <1>4 DEF Midnight, vars
<1> QED
  BY <1>2, <1>3, <1>4 DEF Next

LEMMA StaysUnretried ==
    ASSUME TypeOK, Rows, [Next]_vars, NEW u \in Send, Unretried(u)'
    PROVE  Unretried(u)
<1> SUFFICES ASSUME NEW x \in Send \ {u}, send[x].anchor = u
             PROVE  FALSE
  BY DEF Unretried
<1>1. send'[x].anchor = u
  BY AnchorsNext
<1> QED
  BY <1>1 DEF Unretried

LEMMA StillCountedInit == Init => StillCounted
BY DEF Init, StillCounted

LEMMA StillCountedNext ==
    TypeOK /\ Rows /\ StillCounted /\ [Next]_vars => StillCounted'
<1> SUFFICES ASSUME TypeOK, Rows, StillCounted, [Next]_vars,
                    NEW u \in userRow', send'[u].pc = "running", Unretried(u)'
             PROVE  usage'[u].outcome # "failed"
  BY DEF StillCounted
<1>0. userRow \subseteq Send
  BY DEF TypeOK
<1>1. ASSUME NEW s \in Send,
             \/ Arrive(s) \/ RefuseByGate(s) \/ LookUpToken(s) \/ CheckQuota(s) \/ ResolveUserRow(s)
      PROVE  usage'[u].outcome # "failed"
  <2>1. userRow' = userRow /\ usage' = usage /\ send[s].pc \in Checking \cup {"new"}
    BY <1>1 DEF Arrive, RefuseByGate, LookUpToken, CheckQuota, ResolveUserRow, Checking
  <2>2. u # s
    BY <2>1 DEF Rows
  <2>3. Moved(s)
    <3>1. \A v \in Matches(s) : v \in Send
      BY DEF Matches, TypeOK
    <3> QED
      BY <1>1, <3>1, GotoMoves, ReuseMoves
      DEF Arrive, RefuseByGate, LookUpToken, CheckQuota, ResolveUserRow
  <2> QED
    BY <1>0, <2>1, <2>2, <2>3, StaysUnretried DEF StillCounted, Moved
<1>2. ASSUME NEW s \in Send, InsertTurn(s) PROVE usage'[u].outcome # "failed"
  <2>1. Moved(s)
    BY <1>2, GotoMoves DEF InsertTurn
  <2>2. CASE u = s
    <3>1. send'[s].pc # "died"
      BY <2>2
    <3>2. usage' = [usage EXCEPT ![s] = [outcome |-> "pending", day |-> today]]
      BY <1>2, <3>1, GotoMoves DEF InsertTurn
    <3> QED
      BY <2>2, <3>2 DEF TypeOK
  <2>3. CASE u # s
    <3>1. u \in userRow /\ usage'[u] = usage[u]
      BY <1>2, <2>3 DEF InsertTurn, TypeOK
    <3> QED
      BY <1>0, <2>1, <2>3, <3>1, StaysUnretried DEF StillCounted, Moved
  <2> QED
    BY <2>2, <2>3
<1>3. ASSUME NEW s \in Send, EndTurn(s) PROVE usage'[u].outcome # "failed"
  <2>1. Moved(s) /\ send'[s].pc = "ended" /\ userRow' = userRow
    BY <1>3, GotoMoves DEF EndTurn
  <2>2. u # s /\ u \in Send
    BY <1>0, <2>1
  <2>3. send[s].anchor # u
    BY <2>2, StaysUnretried DEF Unretried
  <2>4. usage'[u] = usage[u]
    BY <1>3, <2>2, <2>3 DEF EndTurn, TypeOK
  <2> QED
    BY <2>1, <2>2, <2>4, StaysUnretried DEF StillCounted, Moved
<1>4. ASSUME Midnight \/ UNCHANGED vars PROVE usage'[u].outcome # "failed"
  BY <1>0, <1>4, StaysUnretried DEF Midnight, vars, StillCounted
<1> QED
  BY <1>1, <1>2, <1>3, <1>4 DEF Next
-----------------------------------------------------------------------------
(* Who joins those exposed. *)

LEMMA ExposedParts ==
    ASSUME TypeOK, Rows
    PROVE  /\ Charged \in SUBSET Send /\ Admitted \in SUBSET Send
           /\ Charged \cap Admitted = {}
           /\ Admitted \subseteq InFlight
BY DEF TypeOK, Rows, Charged, Counted, Admitted, InFlight, Checking

\* Rows are never taken back, so a token that is used stays used.
LEMMA MatchesGrow == ASSUME [Next]_vars, NEW x \in Send PROVE Matches(x) \subseteq Matches(x)'
<1>1. userRow \subseteq userRow'
  BY DEF Next, vars, Arrive, RefuseByGate, LookUpToken, CheckQuota, ResolveUserRow, InsertTurn,
         EndTurn, Midnight
<1> QED
  BY <1>1 DEF Matches

\* A send that another moves on stays what it was.
LEMMA OthersAdmitted ==
    ASSUME [Next]_vars, NEW s \in Send, Moved(s), NEW x \in Admitted', x # s
    PROVE  x \in Admitted
BY MatchesGrow DEF Moved, Admitted

\* A step that leaves the rows alone charges nobody.
LEMMA ChargedStay ==
    ASSUME TypeOK, Rows, [Next]_vars, UNCHANGED <<userRow, usage, today>>
    PROVE  Charged' \subseteq Charged
<1> SUFFICES ASSUME NEW x \in Charged'
             PROVE  x \in Charged
  OBVIOUS
<1>1. x \in Counted /\ x \notin Admin /\ x \in Send /\ Unretried(x)'
  BY DEF Charged, Counted, TypeOK
<1> QED
  BY <1>1, StaysUnretried DEF Charged

LEMMA ReadersNext ==
    ASSUME TypeOK, Rows, [Next]_vars, NEW s \in Send,
           Arrive(s) \/ RefuseByGate(s) \/ LookUpToken(s) \/ ResolveUserRow(s)
    PROVE  Admitted' \subseteq Admitted /\ Charged' \subseteq Charged
<1>1. UNCHANGED <<userRow, usage, today>>
  BY DEF Arrive, RefuseByGate, LookUpToken, ResolveUserRow
<1>2. Matches(s)' = Matches(s)
  BY <1>1 DEF Matches
<1>3. Moved(s) /\ (s \in Admitted' => s \in Admitted)
  <2>1. CASE Arrive(s) \/ RefuseByGate(s)
    BY <2>1, GotoMoves DEF Arrive, RefuseByGate, Admitted
  <2>2. CASE LookUpToken(s)
    BY <1>2, <2>2, GotoMoves DEF LookUpToken, Admitted
  <2>3. CASE ResolveUserRow(s) /\ Matches(s) = {} /\ Goto(s, "insert")
    BY <2>3, GotoMoves DEF ResolveUserRow, Admitted
  <2>4. ASSUME NEW u \in Matches(s), send' = [send EXCEPT ![s].pc = "running", ![s].anchor = u]
        PROVE  Moved(s) /\ s \notin Admitted'
    <3>1. u \in Send
      BY DEF Matches, TypeOK
    <3> QED
      BY <2>4, <3>1, ReuseMoves DEF Admitted
  <2> QED
    BY <2>1, <2>2, <2>3, <2>4 DEF ResolveUserRow
<1> QED
  BY <1>1, <1>3, OthersAdmitted, ChargedStay

\* The send that inserts was admitted, unless it is an administrator's.
LEMMA InsertNext ==
    ASSUME TypeOK, Rows, [Next]_vars, NEW s \in Send, InsertTurn(s)
    PROVE  Admitted' \subseteq Admitted /\ Charged' \subseteq Exposed
<1>1. Moved(s) /\ send[s].pc = "insert" /\ send'[s].pc \in {"running", "died"} /\ today' = today
  BY GotoMoves DEF InsertTurn
<1>2. Admitted' \subseteq Admitted
  BY <1>1, OthersAdmitted DEF Admitted
<1>3. ASSUME NEW x \in Charged' PROVE x \in Exposed
  <2>1. CASE x = s
    <3>1. s \notin Admin
      BY <2>1 DEF Charged
    <3> QED
      BY <1>1, <2>1, <3>1 DEF Admitted, Exposed
  <2>2. CASE x # s
    <3>1. x \in userRow /\ x \in Send /\ usage'[x] = usage[x]
      BY <2>2 DEF InsertTurn, Charged, Counted, TypeOK
    <3>2. x \notin Admin /\ Unretried(x)'
      BY DEF Charged
    <3>3. Unretried(x)
      BY <3>1, <3>2, StaysUnretried
    <3>4. usage'[x].day = today' /\ usage'[x].outcome # "failed"
      BY DEF Charged, Counted
    <3> QED
      BY <1>1, <3>1, <3>2, <3>3, <3>4 DEF Charged, Counted, Exposed
  <2> QED
    BY <2>1, <2>2
<1> QED
  BY <1>2, <1>3

\* A turn that ends was counted, or another send has taken its row up.
LEMMA EndNext ==
    ASSUME TypeOK, Rows, StillCounted, [Next]_vars, NEW s \in Send, EndTurn(s)
    PROVE  Admitted' \subseteq Admitted /\ Charged' \subseteq Charged
<1>1. Moved(s) /\ send[s].pc = "running" /\ send'[s].pc = "ended" /\ userRow' = userRow /\ today' = today
  BY GotoMoves DEF EndTurn
<1>2. Admitted' \subseteq Admitted
  BY <1>1, OthersAdmitted DEF Admitted
<1>3. ASSUME NEW x \in Charged' PROVE x \in Charged
  <2>1. x \in userRow /\ x \in Send /\ x \notin Admin /\ Unretried(x)
    BY <1>1, StaysUnretried DEF Charged, Counted, TypeOK
  <2>2. usage'[x].day = usage[x].day
    BY <2>1 DEF EndTurn, TypeOK
  <2>3. CASE x = s
    BY <1>1, <2>1, <2>2, <2>3 DEF StillCounted, Charged, Counted
  <2>4. CASE x # s
    <3>1. send[s].anchor # x
      BY <2>1, <2>4 DEF Unretried
    <3>2. usage'[x] = usage[x]
      BY <2>1, <3>1 DEF EndTurn, TypeOK
    <3> QED
      BY <1>1, <2>1, <3>2 DEF Charged, Counted
  <2> QED
    BY <2>3, <2>4
<1> QED
  BY <1>2, <1>3

\* The check counts every row of today, and admits at most one send.
LEMMA CheckNext ==
    ASSUME TypeOK, Rows, [Next]_vars, NEW s \in Send, CheckQuota(s)
    PROVE  /\ Charged' \subseteq Charged
           /\ \/ Admitted' \subseteq Admitted
              \/ Cardinality(Counted) < DailyMessages /\ Admitted' \subseteq InFlight
<1>1. UNCHANGED <<userRow, usage, today>> /\ send[s].pc = "quota" /\ Moved(s)
  BY GotoMoves DEF CheckQuota
<1>2. CASE Cardinality(Counted) < DailyMessages
  <2>1. \A x \in Admitted' : x \in InFlight
    BY <1>1, OthersAdmitted, ExposedParts DEF InFlight, Checking
  <2> QED
    BY <1>1, <1>2, <2>1, ChargedStay
<1>3. CASE ~(Cardinality(Counted) < DailyMessages)
  <2>1. send'[s].pc = "refused"
    BY <1>3, GotoMoves DEF CheckQuota
  <2> QED
    BY <1>1, <2>1, OthersAdmitted, ChargedStay DEF Admitted
<1> QED
  BY <1>2, <1>3

\* No row is of a day that has just begun.
LEMMA MidnightNext ==
    ASSUME TypeOK, Rows, Midnight
    PROVE  Admitted' = Admitted /\ Charged' = {}
<1>1. Admitted' = Admitted
  BY DEF Midnight, Admitted, Matches
<1>2. ASSUME NEW x \in Charged' PROVE FALSE
  <2>1. x \in Send /\ usage[x].day = today + 1
    BY DEF Midnight, Charged, Counted, TypeOK
  <2>2. usage[x].day \in Nat /\ today \in Nat /\ usage[x].day <= today
    BY <2>1 DEF Rows, TypeOK
  <2> QED
    BY <2>1, <2>2
<1> QED
  BY <1>1, <1>2
-----------------------------------------------------------------------------
(* The bound. *)

ExposureBounded ==
    /\ Cardinality(Exposed) <= DailyMessages + MaxInFlight - 1
    /\ DailyMessages = 0 => Admitted = {}

LEMMA ExposureInit == Init => ExposureBounded
<1> SUFFICES ASSUME Init
             PROVE  ExposureBounded
  OBVIOUS
<1>1. Exposed = {} /\ Admitted = {}
  BY DEF Init, Exposed, Charged, Counted, Admitted
<1> QED
  BY <1>1, FS_EmptySet, AdmissionAssumption DEF ExposureBounded

\* The union of two sets is no larger than both together.
LEMMA UnionBounded ==
    ASSUME NEW S \in SUBSET Send, NEW T \in SUBSET Send
    PROVE  /\ S \cup T \in SUBSET Send
           /\ Cardinality(S \cup T) <= Cardinality(S) + Cardinality(T)
<1>1. IsFiniteSet(S) /\ IsFiniteSet(T) /\ Cardinality(S) \in Nat /\ Cardinality(T) \in Nat
  BY Finite
<1>2. S \cap T \in SUBSET Send
  OBVIOUS
<1>3. Cardinality(S \cap T) \in Nat
  BY <1>2, Finite
<1>4. Cardinality(S \cup T) = Cardinality(S) + Cardinality(T) - Cardinality(S \cap T)
  BY <1>1, FS_Union
<1> QED
  BY <1>1, <1>3, <1>4

LEMMA ExposureNext ==
    TypeOK /\ Rows /\ StillCounted /\ InFlightBounded /\ ExposureBounded /\ [Next]_vars
    => ExposureBounded'
<1> SUFFICES ASSUME TypeOK, Rows, StillCounted, InFlightBounded, ExposureBounded, [Next]_vars
             PROVE  ExposureBounded'
  OBVIOUS
<1>0. /\ DailyMessages \in Nat /\ MaxInFlight \in Nat /\ MaxInFlight > 0
      /\ Exposed \in SUBSET Send /\ InFlight \in SUBSET Send
      /\ Charged \in SUBSET Send /\ Counted \in SUBSET Send
      /\ Charged \subseteq Counted /\ Admitted \subseteq InFlight
  BY AdmissionAssumption, ExposedParts DEF Exposed, Charged, Counted, InFlight, TypeOK
<1>1. ASSUME Admitted' \subseteq Admitted, Exposed' \subseteq Exposed
      PROVE  ExposureBounded'
  <2>1. DailyMessages + MaxInFlight - 1 \in Int
    BY <1>0
  <2>2. Cardinality(Exposed') <= DailyMessages + MaxInFlight - 1
    BY <1>0, <1>1, <2>1, StaysBelow DEF ExposureBounded
  <2> QED
    BY <1>1, <2>2 DEF ExposureBounded
<1>2. ASSUME NEW s \in Send, CheckQuota(s)
      PROVE  ExposureBounded'
  <2>1. CASE Admitted' \subseteq Admitted
    BY <1>1, <1>2, <2>1, CheckNext DEF Exposed
  <2>2. CASE Cardinality(Counted) < DailyMessages /\ Admitted' \subseteq InFlight
    <3>1. Exposed' \subseteq Counted \cup InFlight
      BY <1>0, <1>2, <2>2, CheckNext DEF Exposed
    <3>2. /\ Counted \cup InFlight \in SUBSET Send
          /\ Cardinality(Counted \cup InFlight) <= Cardinality(Counted) + Cardinality(InFlight)
      BY <1>0, UnionBounded
    <3>3. Cardinality(Counted) \in Nat /\ Cardinality(InFlight) \in Nat
          /\ Cardinality(Counted \cup InFlight) \in Nat
      BY <1>0, <3>2, Finite
    <3>4. DailyMessages + MaxInFlight - 1 \in Int
          /\ Cardinality(Counted \cup InFlight) <= DailyMessages + MaxInFlight - 1
      BY <1>0, <2>2, <3>2, <3>3 DEF InFlightBounded
    <3>5. Cardinality(Exposed') <= DailyMessages + MaxInFlight - 1
      BY <3>1, <3>2, <3>4, StaysBelow
    <3>6. DailyMessages # 0
      BY <1>0, <2>2, <3>3
    <3> QED
      BY <3>5, <3>6 DEF ExposureBounded
  <2> QED
    BY <1>2, <2>1, <2>2, CheckNext
<1>3. CASE Midnight
  <2>1. Admitted' = Admitted /\ Exposed' = Admitted
    BY <1>3, MidnightNext DEF Exposed
  <2>2. Exposed' \subseteq Exposed
    BY <2>1 DEF Exposed
  <2> QED
    BY <1>1, <2>1, <2>2
<1>4. ASSUME NEW s \in Send, Arrive(s) \/ RefuseByGate(s) \/ LookUpToken(s) \/ ResolveUserRow(s)
      PROVE  ExposureBounded'
  BY <1>1, <1>4, ReadersNext DEF Exposed
<1>5. ASSUME NEW s \in Send, InsertTurn(s) PROVE ExposureBounded'
  BY <1>1, <1>5, InsertNext DEF Exposed
<1>6. ASSUME NEW s \in Send, EndTurn(s) PROVE ExposureBounded'
  BY <1>1, <1>6, EndNext DEF Exposed
<1>7. CASE UNCHANGED vars
  <2>1. Admitted' = Admitted /\ Charged' = Charged
    BY <1>7 DEF vars, Admitted, Matches, Charged, Counted, Unretried
  <2> QED
    BY <1>1, <2>1 DEF Exposed
<1> QED
  BY <1>2, <1>3, <1>4, <1>5, <1>6, <1>7 DEF Next

LEMMA ExposureIsOverrun == TypeOK /\ Rows /\ ExposureBounded => OverrunIsRaceWidth
<1> SUFFICES ASSUME TypeOK, Rows, ExposureBounded
             PROVE  OverrunIsRaceWidth
  OBVIOUS
<1>1. Charged \in SUBSET Send /\ Admitted \in SUBSET Send /\ Charged \cap Admitted = {}
  BY ExposedParts
<1>2. IsFiniteSet(Charged) /\ IsFiniteSet(Admitted)
      /\ Cardinality(Charged) \in Nat /\ Cardinality(Admitted) \in Nat
  BY <1>1, Finite
<1>3. Cardinality(Exposed) = Cardinality(Charged) + Cardinality(Admitted)
                             - Cardinality(Charged \cap Admitted)
  BY <1>2, FS_Union DEF Exposed
<1>4. Cardinality(Charged \cap Admitted) = 0
  BY <1>1, FS_EmptySet
<1> QED
  BY <1>2, <1>3, <1>4 DEF ExposureBounded, OverrunIsRaceWidth

\* However many sends race past the quota check, at whatever time of day, the
\* turns charged and admitted exceed the limit by no more than the other
\* requests that were in flight.
THEOREM OverrunBounded == Spec => []OverrunIsRaceWidth
<1> DEFINE IInv == TypeOK /\ Rows /\ StillCounted /\ InFlightBounded /\ ExposureBounded
<1>1. Init => IInv
  BY TypedInit, RowsInit, StillCountedInit, InFlightInit, ExposureInit
<1>2. IInv /\ [Next]_vars => IInv'
  BY TypedNext, RowsNext, StillCountedNext, InFlightNext, ExposureNext
<1>3. IInv => OverrunIsRaceWidth
  BY ExposureIsOverrun
<1> QED
  BY <1>1, <1>2, <1>3, PTL DEF Spec
=============================================================================
