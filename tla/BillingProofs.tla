---------------------------- MODULE BillingProofs ----------------------------
(***************************************************************************)
(* Theorems about Billing: type correctness, at most one active            *)
(* subscription, at most one grant for each payment, effects that come     *)
(* together, that Billing implements PaidAccess, what a payment that has   *)
(* ended keeps, and that deliveries run down. All of them hold for every   *)
(* set of payments, plans, events, deliveries (finite for the last) and    *)
(* cancellations and every number of failures.                             *)
(***************************************************************************)
EXTENDS Billing, FiniteSetTheorems, TLAPS

-----------------------------------------------------------------------------
(* Types. *)

LEMMA TypedInit == Init => TypeOK
BY BillingAssumption DEF Init, TypeOK, PaymentStatus, SubscriptionStatus, DeliveryState

\* What an answered delivery, a status in the inbox and a changed subscription
\* look like.
LEMMA TypedNext == TypeOK /\ [Next]_vars => TypeOK'
<1> SUFFICES ASSUME TypeOK, [Next]_vars
             PROVE  TypeOK'
  OBVIOUS
<1> USE BillingAssumption DEF TypeOK, Fault
<1>1. ASSUME NEW p \in Payment, CreatePayment(p)
      PROVE  TypeOK'
  BY <1>1 DEF CreatePayment, PaymentStatus
<1>2. ASSUME NEW p \in Payment, ReadToCancel(p)
      PROVE  TypeOK'
  BY <1>2 DEF ReadToCancel
<1>3. ASSUME NEW p \in Payment, SaveCancelled(p)
      PROVE  TypeOK'
  BY <1>3 DEF SaveCancelled, PaymentStatus
<1>4. ASSUME NEW d \in Delivery, InsertEvent(d)
      PROVE  TypeOK'
  BY <1>4 DEF InsertEvent, Answer, DeliveryState
<1>5. ASSUME NEW d \in Delivery, IgnoreEvent(d)
      PROVE  TypeOK'
  BY <1>5 DEF IgnoreEvent, Finish, Answer, DeliveryState
<1>6. ASSUME NEW d \in Delivery, ClosePayment(d)
      PROVE  TypeOK'
  BY <1>6 DEF ClosePayment, Finish, Answer, DeliveryState, PaymentStatus
<1>7. ASSUME NEW d \in Delivery, LockPayment(d)
      PROVE  TypeOK'
  <2>1. Active \in SUBSET Delivery
    BY DEF Active
  <2> QED
    BY <1>7, <2>1 DEF LockPayment, DeliveryState
<1>8. ASSUME NEW d \in Delivery, Activate(d)
      PROVE  TypeOK'
  <2>1. Superseded(d) \in [Delivery -> SubscriptionStatus]
    BY DEF Superseded, SubscriptionStatus
  <2>2. CASE Active \subseteq delivery[d].previous
    <3>1. payment' \in [Payment -> PaymentStatus]
      BY <1>8, <2>2 DEF Activate, PaymentStatus
    <3>2. Finish(d, "processed")
      BY <1>8, <2>2 DEF Activate
    <3>3. inbox' \in [Event -> {"absent", "processed", "ignored"}]
      BY <3>2 DEF Finish
    <3>4. delivery' \in [Delivery -> [pc : DeliveryState, previous : SUBSET Delivery]]
      BY <3>2 DEF Finish, Answer, DeliveryState
    <3> QED
      BY <1>8, <2>1, <2>2, <3>1, <3>3, <3>4 DEF Activate
  <2>3. CASE ~(Active \subseteq delivery[d].previous)
    BY <1>8, <2>3 DEF Activate, Answer, DeliveryState
  <2> QED
    BY <2>2, <2>3
<1>9. ASSUME NEW d \in Delivery, Rollback(d)
      PROVE  TypeOK'
  BY <1>9 DEF Rollback, Answer, DeliveryState
<1>10. ASSUME NEW x \in Delivery, PeriodEnds(x) \/ Expire(x)
       PROVE  TypeOK'
  BY <1>10 DEF PeriodEnds, Expire, SubscriptionStatus
<1>11. ASSUME NEW c \in Cancel, ReadSubscription(c)
       PROVE  TypeOK'
  BY <1>11 DEF ReadSubscription, Active
<1>12. ASSUME NEW c \in Cancel, SaveSubscription(c)
       PROVE  TypeOK'
  <2>1. sub' \in [Delivery -> SubscriptionStatus]
    BY <1>12 DEF SaveSubscription, SubscriptionStatus
  <2>2. cancel' \in [Cancel -> [pc : {"idle", "save", "sync"}, of : Delivery \cup {NoDelivery}]]
    <3>1. ASSUME NEW x \in Delivery \cup {NoDelivery},
                 NEW pc \in {"idle", "save", "sync"}
          PROVE  [cancel EXCEPT ![c] = [pc |-> pc, of |-> x]]
                   \in [Cancel -> [pc : {"idle", "save", "sync"}, of : Delivery \cup {NoDelivery}]]
      BY <3>1
    <3>2. [cancel EXCEPT ![c].pc = "sync"]
            \in [Cancel -> [pc : {"idle", "save", "sync"}, of : Delivery \cup {NoDelivery}]]
      OBVIOUS
    <3>3. \/ cancel' = [cancel EXCEPT ![c].pc = "sync"]
          \/ cancel' = [cancel EXCEPT ![c] = [pc |-> "idle", of |-> NoDelivery]]
      BY <1>12 DEF SaveSubscription
    <3> QED
      BY <3>1, <3>2, <3>3
  <2> QED
    BY <1>12, <2>1, <2>2 DEF SaveSubscription
<1>13. ASSUME NEW c \in Cancel, SyncPlan(c)
       PROVE  TypeOK'
  BY <1>13 DEF SyncPlan
<1>14. ASSUME Crash
       PROVE  TypeOK'
  BY <1>14 DEF Crash, DeliveryState
<1>15. CASE UNCHANGED vars
  BY <1>15 DEF vars
<1> QED
  BY <1>1, <1>2, <1>3, <1>4, <1>5, <1>6, <1>7, <1>8, <1>9, <1>10, <1>11, <1>12, <1>13,
     <1>14, <1>15 DEF Next, DeliveryStep

\* Every variable keeps the shape the code gives it.
THEOREM TypeCorrect == Spec => []TypeOK
BY TypedInit, TypedNext, PTL DEF Spec

-----------------------------------------------------------------------------
(* The ledger: what the locks keep true while transactions are open, and the  *)
(* three invariants, which need each other.                                   *)

Row(x) == sub[x] # "absent"

\* One transaction at a time for an event and for a payment; while one is
\* open its event has no effect yet, and a payment that is locked is pending.
LocksHold ==
    /\ \A d, e \in Delivery : Open(d) /\ Open(e) /\ EventOf[d] = EventOf[e] => d = e
    /\ \A d, e \in Delivery :
          delivery[d].pc = "locked" /\ delivery[e].pc = "locked" /\ PaymentAt(d) = PaymentAt(e)
             => d = e
    /\ \A d \in Delivery : Open(d) => inbox[EventOf[d]] = "absent"
    /\ \A d \in Delivery : delivery[d].pc = "locked" => payment[PaymentAt(d)] = "pending"

\* What was read of the subscriptions outside their locks are rows that exist.
ReadsExist ==
    /\ \A d \in Delivery : \A x \in delivery[d].previous : Row(x)
    /\ \A c \in Cancel : cancel[c].pc = "save" => cancel[c].of \in Delivery /\ Row(cancel[c].of)

Ledger == LocksHold /\ ReadsExist /\ OneActive /\ OneGrantPerPayment /\ EffectsTogether

LEMMA LedgerInit == Init => Ledger
<1> SUFFICES ASSUME Init
             PROVE  Ledger
  OBVIOUS
<1>1. /\ \A d \in Delivery : ~Open(d) /\ delivery[d].pc # "locked" /\ delivery[d].previous = {}
      /\ \A d \in Delivery : ~Row(d) /\ sub[d] = "absent"
      /\ \A c \in Cancel : cancel[c].pc = "idle"
      /\ \A p \in Payment : payment[p] = "absent"
  BY DEF Init, Open, Row
<1>2. LocksHold
  BY <1>1 DEF LocksHold
<1>3. ReadsExist
  BY <1>1 DEF ReadsExist
<1>4. OneActive
  BY <1>1 DEF OneActive, Active
<1>5. OneGrantPerPayment
  BY <1>1 DEF OneGrantPerPayment
<1>6. EffectsTogether
  BY <1>1 DEF EffectsTogether
<1> QED
  BY <1>2, <1>3, <1>4, <1>5, <1>6 DEF Ledger

\* A step that leaves payments, inbox and transactions alone, adds no row and
\* activates none keeps the ledger, if the cancellations it leaves saving
\* have read rows that exist.
LEMMA RowsOnlyEnd ==
    ASSUME TypeOK, TypeOK', Ledger, UNCHANGED <<payment, inbox, delivery>>,
           \A x \in Delivery : Row(x)' <=> Row(x),
           Active' \subseteq Active,
           \A c \in Cancel : cancel'[c].pc = "save" => cancel'[c].of \in Delivery /\ Row(cancel'[c].of)
    PROVE  Ledger'
<1>1. LocksHold'
  BY DEF Ledger, LocksHold, Open, PaymentAt
<1>2. ReadsExist'
  BY DEF Ledger, ReadsExist, Row, TypeOK
<1>3. OneActive'
  BY DEF Ledger, OneActive
<1>4. OneGrantPerPayment'
  BY DEF Ledger, OneGrantPerPayment, Row, PaymentAt
<1>5. EffectsTogether'
  BY DEF Ledger, EffectsTogether, Row, PaymentAt
<1> QED
  BY <1>1, <1>2, <1>3, <1>4, <1>5 DEF Ledger

\* A step that touches only one delivery, which had no effect before it and
\* is not left in a transaction, keeps the ledger.
LEMMA DeliveryLeaves ==
    ASSUME TypeOK, Ledger, NEW d \in Delivery, Open(d) \/ delivery[d].pc \in {"unsent", "error"},
           UNCHANGED <<payment, inbox, sub, cancel>>,
           NEW pc \in {"error", "answered"}, Answer(d, pc)
    PROVE  Ledger'
<1>1. \A e \in Delivery :
         /\ e # d => delivery'[e] = delivery[e]
         /\ e = d => delivery'[e].pc = pc /\ delivery'[e].previous = {}
  BY DEF TypeOK, Answer
<1>0. \A e \in Delivery :
         /\ Open(e)' => e # d /\ Open(e)
         /\ delivery'[e].pc = "locked" => e # d /\ delivery[e].pc = "locked"
  BY <1>1 DEF Open
<1>2. LocksHold'
  BY <1>0 DEF Ledger, LocksHold, PaymentAt
<1>3. ReadsExist'
  BY <1>1 DEF Ledger, ReadsExist, Row
<1>4. OneActive'
  BY DEF Ledger, OneActive, Active
<1>5. OneGrantPerPayment'
  BY DEF Ledger, OneGrantPerPayment, PaymentAt
<1>6. ~Row(d)
  BY DEF Ledger, EffectsTogether, Row, Open
<1>7. EffectsTogether'
  BY <1>1, <1>6 DEF Ledger, EffectsTogether, Row, PaymentAt
<1> QED
  BY <1>2, <1>3, <1>4, <1>5, <1>7 DEF Ledger

LEMMA LedgerNext == TypeOK /\ Ledger /\ [Next]_vars => Ledger'
<1> SUFFICES ASSUME TypeOK, Ledger, [Next]_vars
             PROVE  Ledger'
  OBVIOUS
<1>t. TypeOK'
  BY TypedNext
<1>p. \A d \in Delivery : EventOf[d] \in Event /\ PaymentAt(d) \in Payment
  BY BillingAssumption DEF PaymentAt
<1>1. ASSUME NEW p \in Payment, CreatePayment(p)
      PROVE  Ledger'
  <2>1. \A q \in Payment : payment[q] # "absent" => payment'[q] = payment[q]
    BY <1>1 DEF CreatePayment, TypeOK
  <2>2. LocksHold'
    BY <1>1, <1>p, <2>1 DEF CreatePayment, Ledger, LocksHold, Open, PaymentAt
  <2>3. ReadsExist' /\ OneActive' /\ OneGrantPerPayment'
    BY <1>1 DEF CreatePayment, Ledger, ReadsExist, Row, OneActive, Active, OneGrantPerPayment,
                PaymentAt
  <2>4. EffectsTogether'
    <3>1. \A q \in Payment : payment'[q] = "success" => payment[q] = "success"
      BY <1>1 DEF CreatePayment, TypeOK
    <3> QED
      BY <1>1, <1>p, <2>1, <3>1 DEF CreatePayment, Ledger, EffectsTogether, PaymentAt
  <2> QED
    BY <2>2, <2>3, <2>4 DEF Ledger
<1>2. ASSUME NEW p \in Payment, ReadToCancel(p)
      PROVE  Ledger'
  BY <1>2, <1>t, RowsOnlyEnd DEF ReadToCancel, Row, Active, Ledger, ReadsExist
<1>3. ASSUME NEW p \in Payment, SaveCancelled(p)
      PROVE  Ledger'
  <2>1. \A q \in Payment :
           /\ q # p => payment'[q] = payment[q]
           /\ payment'[q] \in {payment[q], "cancelled"}
    BY <1>3 DEF SaveCancelled, Fault, TypeOK
  <2>2. LocksHold'
    BY <1>3, <1>p, <2>1 DEF SaveCancelled, Ledger, LocksHold, Open, PaymentAt, Locked
  <2>3. ReadsExist' /\ OneActive' /\ OneGrantPerPayment'
    BY <1>3 DEF SaveCancelled, Ledger, ReadsExist, Row, OneActive, Active, OneGrantPerPayment,
                PaymentAt
  <2>4. EffectsTogether'
    BY <1>3, <1>p, <2>1 DEF SaveCancelled, Ledger, EffectsTogether, PaymentAt
  <2> QED
    BY <2>2, <2>3, <2>4 DEF Ledger
<1>4. ASSUME NEW d \in Delivery, InsertEvent(d)
      PROVE  Ledger'
  <2>1. CASE inbox[EventOf[d]] # "absent"
    BY <1>4, <2>1, DeliveryLeaves DEF InsertEvent
  <2>2. CASE inbox[EventOf[d]] = "absent"
    <3>1. Answer(d, "received")
      BY <1>4, <2>2 DEF InsertEvent
    <3>2. /\ UNCHANGED <<payment, inbox, sub, cancel>>
          /\ \A e \in Delivery \ {d} : Open(e) => EventOf[e] # EventOf[d]
          /\ delivery[d].pc # "answered"
      BY <1>4 DEF InsertEvent
    <3>3. \A e \in Delivery :
             /\ e # d => delivery'[e] = delivery[e]
             /\ e = d => delivery'[e].pc = "received" /\ delivery'[e].previous = {}
      BY <3>1 DEF TypeOK, Answer
    <3>4. \A e \in Delivery :
             /\ Open(e)' => e = d \/ Open(e)
             /\ delivery'[e].pc = "locked" => e # d /\ delivery[e].pc = "locked"
      BY <3>3 DEF Open
    <3>5. LocksHold'
      BY <2>2, <3>2, <3>4 DEF Ledger, LocksHold, PaymentAt
    <3>6. ReadsExist'
      BY <3>2, <3>3 DEF Ledger, ReadsExist, Row
    <3>7. OneActive' /\ OneGrantPerPayment'
      BY <3>2 DEF Ledger, OneActive, Active, OneGrantPerPayment, PaymentAt
    <3>8. EffectsTogether'
      BY <3>2, <3>3 DEF Ledger, EffectsTogether, PaymentAt
    <3> QED
      BY <3>5, <3>6, <3>7, <3>8 DEF Ledger
  <2> QED
    BY <2>1, <2>2
<1>5. ASSUME NEW d \in Delivery, NEW status \in {"ignored", "processed"},
             delivery[d].pc = "received", Finish(d, status),
             UNCHANGED <<sub, cancel>>,
             \A q \in Payment :
                /\ payment'[q] = "success" => payment[q] = "success"
                /\ payment[q] # "pending" => payment'[q] = payment[q]
                /\ Locked(q) => payment'[q] = payment[q]
      PROVE  Ledger'
  <2>1. \A e \in Delivery :
           /\ e # d => delivery'[e] = delivery[e]
           /\ e = d => delivery'[e].pc = "answered" /\ delivery'[e].previous = {}
    BY <1>5 DEF TypeOK, Finish, Answer
  <2>2. \A e \in Delivery :
           /\ Open(e)' => e # d /\ Open(e)
           /\ delivery'[e].pc = "locked" => e # d /\ delivery[e].pc = "locked"
    BY <2>1 DEF Open
  <2>3. \A v \in Event : v # EventOf[d] => inbox'[v] = inbox[v]
    BY <1>5 DEF TypeOK, Finish
  <2>4. Open(d)
    BY <1>5 DEF Open
  <2>5. LocksHold'
    BY <1>5, <1>p, <2>2, <2>3, <2>4 DEF Ledger, LocksHold, PaymentAt, Locked
  <2>6. ReadsExist' /\ OneActive' /\ OneGrantPerPayment'
    BY <1>5, <2>1 DEF Ledger, ReadsExist, Row, OneActive, Active, OneGrantPerPayment, PaymentAt
  <2>7. \A e \in Delivery : Row(e) => EventOf[e] # EventOf[d] /\ e # d
    BY <2>4 DEF Ledger, LocksHold, EffectsTogether, Row
  <2>8. EffectsTogether'
    BY <1>5, <1>p, <2>1, <2>3, <2>7 DEF Ledger, EffectsTogether, Row, PaymentAt
  <2> QED
    BY <2>5, <2>6, <2>8 DEF Ledger
<1>6. ASSUME NEW d \in Delivery, IgnoreEvent(d)
      PROVE  Ledger'
  BY <1>5, <1>6 DEF IgnoreEvent
<1>7. ASSUME NEW d \in Delivery, ClosePayment(d)
      PROVE  Ledger'
  <2>1. Finish(d, "processed") /\ delivery[d].pc = "received" /\ UNCHANGED <<sub, cancel>>
    BY <1>7 DEF ClosePayment
  <2>2. \A q \in Payment :
           /\ payment'[q] = "success" => payment[q] = "success"
           /\ payment[q] # "pending" => payment'[q] = payment[q]
           /\ Locked(q) => payment'[q] = payment[q]
    BY <1>7 DEF ClosePayment, TypeOK
  <2> QED
    BY <1>5, <2>1, <2>2
<1>8. ASSUME NEW d \in Delivery, LockPayment(d)
      PROVE  Ledger'
  <2>1. \A e \in Delivery :
           /\ e # d => delivery'[e] = delivery[e]
           /\ e = d => delivery'[e].pc = "locked" /\ delivery'[e].previous = Active
    <3>1. Active \in SUBSET Delivery
      BY DEF Active
    <3> QED
      BY <1>8, <3>1 DEF LockPayment, TypeOK
  <2>2. \A e \in Delivery :
           /\ Open(e)' <=> Open(e)
           /\ delivery'[e].pc = "locked" => e = d \/ delivery[e].pc = "locked"
    BY <1>8, <2>1 DEF Open, LockPayment
  <2>3. LocksHold'
    BY <1>8, <2>2 DEF LockPayment, Ledger, LocksHold, Locked, PaymentAt
  <2>4. ReadsExist'
    <3>1. \A x \in Active : Row(x)
      BY DEF Active, Row
    <3>2. \A e \in Delivery : \A x \in delivery'[e].previous : Row(x)
      BY <2>1, <3>1 DEF Ledger, ReadsExist
    <3>3. UNCHANGED <<sub, cancel>>
      BY <1>8 DEF LockPayment
    <3> QED
      BY <3>2, <3>3 DEF Ledger, ReadsExist, Row
  <2>5. OneActive' /\ OneGrantPerPayment'
    BY <1>8 DEF LockPayment, Ledger, OneActive, Active, OneGrantPerPayment, PaymentAt
  <2>6. EffectsTogether'
    BY <1>8, <2>1 DEF LockPayment, Ledger, EffectsTogether, PaymentAt
  <2> QED
    BY <2>3, <2>4, <2>5, <2>6 DEF Ledger
<1>9. ASSUME NEW d \in Delivery, Activate(d)
      PROVE  Ledger'
  <2>1. CASE ~(Active \subseteq delivery[d].previous)
    BY <1>9, <2>1, DeliveryLeaves DEF Activate, Open
  <2>2. CASE Active \subseteq delivery[d].previous
    <3>1. /\ payment' = [payment EXCEPT ![PaymentAt(d)] = "success"]
          /\ sub' = Superseded(d)
          /\ Finish(d, "processed")
          /\ delivery[d].pc = "locked"
          /\ UNCHANGED cancel
      BY <1>9, <2>2 DEF Activate
    <3>2. \A e \in Delivery :
             /\ e # d => delivery'[e] = delivery[e]
             /\ e = d => delivery'[e].pc = "answered" /\ delivery'[e].previous = {}
      BY <3>1 DEF TypeOK, Finish, Answer
    <3>3. /\ \A v \in Event : v # EventOf[d] => inbox'[v] = inbox[v]
          /\ inbox'[EventOf[d]] = "processed"
      BY <1>p, <3>1 DEF TypeOK, Finish
    <3>4. /\ \A q \in Payment : q # PaymentAt(d) => payment'[q] = payment[q]
          /\ payment'[PaymentAt(d)] = "success"
      BY <1>p, <3>1 DEF TypeOK
    <3>5. /\ \A x \in Delivery \ {d} : Row(x)' <=> Row(x)
          /\ Row(d)'
      BY <3>1 DEF Superseded, Row, Ledger, ReadsExist
    <3>6. \A x \in Active' : x = d
      BY <2>2, <3>1 DEF Superseded, Active
    <3>7. /\ Open(d)
          /\ payment[PaymentAt(d)] = "pending"
      BY <3>1 DEF Open, Ledger, LocksHold
    <3>8. \A x \in Delivery : Row(x) => PaymentAt(x) # PaymentAt(d)
      BY <3>7 DEF Ledger, EffectsTogether, Row
    <3>9. LocksHold'
      <4>1. \A e \in Delivery :
               /\ Open(e)' => e # d /\ Open(e)
               /\ delivery'[e].pc = "locked" => e # d /\ delivery[e].pc = "locked"
        BY <3>2 DEF Open
      <4> QED
        BY <1>p, <3>1, <3>3, <3>4, <3>7, <4>1 DEF Ledger, LocksHold, PaymentAt
    <3>10. ReadsExist'
      <4>1. \A e \in Delivery : delivery[e].previous \subseteq Delivery
        BY DEF TypeOK
      <4>2. \A x \in Delivery : Row(x) => Row(x)'
        BY <3>5
      <4>3. \A e \in Delivery : \A x \in delivery'[e].previous : x \in Delivery /\ Row(x)
        BY <3>2, <4>1 DEF Ledger, ReadsExist
      <4> QED
        BY <3>1, <4>2, <4>3 DEF Ledger, ReadsExist
    <3>11. OneActive'
      BY <3>6 DEF OneActive
    <3>12. OneGrantPerPayment'
      BY <3>5, <3>8 DEF Ledger, OneGrantPerPayment, Row, PaymentAt
    <3>13. EffectsTogether'
      BY <1>p, <3>2, <3>3, <3>4, <3>5 DEF Ledger, EffectsTogether, Row, PaymentAt
    <3> QED
      BY <3>9, <3>10, <3>11, <3>12, <3>13 DEF Ledger
  <2> QED
    BY <2>1, <2>2
<1>10. ASSUME NEW d \in Delivery, Rollback(d)
       PROVE  Ledger'
  BY <1>10, DeliveryLeaves DEF Rollback
<1>11. ASSUME NEW x \in Delivery, PeriodEnds(x) \/ Expire(x)
       PROVE  Ledger'
  <2>1. UNCHANGED <<payment, inbox, delivery, cancel>>
    BY <1>11 DEF PeriodEnds, Expire
  <2>2. \A y \in Delivery : Row(y)' <=> Row(y)
    BY <1>11 DEF PeriodEnds, Expire, Row, TypeOK
  <2>3. Active' \subseteq Active
    BY <1>11 DEF PeriodEnds, Expire, Active, TypeOK
  <2> QED
    BY <1>t, <2>1, <2>2, <2>3, RowsOnlyEnd DEF Ledger, ReadsExist
<1>12. ASSUME NEW c \in Cancel, ReadSubscription(c)
       PROVE  Ledger'
  <2>1. \A k \in Cancel : cancel'[k].pc = "save" => cancel'[k].of \in Delivery /\ Row(cancel'[k].of)
    <3>1. PICK x \in Active : cancel' = [cancel EXCEPT ![c] = [pc |-> "save", of |-> x]]
      BY <1>12 DEF ReadSubscription
    <3>2. x \in Delivery /\ Row(x)
      BY DEF Active, Row
    <3> QED
      BY <3>1, <3>2 DEF Ledger, ReadsExist, TypeOK
  <2> QED
    BY <1>12, <1>t, <2>1, RowsOnlyEnd DEF ReadSubscription, Row, Active
<1>13. ASSUME NEW c \in Cancel, SaveSubscription(c) \/ SyncPlan(c)
       PROVE  Ledger'
  <2>1. \A k \in Cancel : cancel'[k].pc = "save" => cancel[k].pc = "save" /\ cancel'[k] = cancel[k]
    BY <1>13 DEF SaveSubscription, SyncPlan, TypeOK
  <2>2. \/ UNCHANGED sub
        \/ /\ sub' = [sub EXCEPT ![cancel[c].of] = "cancelled"]
           /\ cancel[c].pc = "save"
    BY <1>13 DEF SaveSubscription, SyncPlan
  <2>3. \A y \in Delivery : Row(y)' <=> Row(y)
    BY <2>2 DEF Row, TypeOK, Ledger, ReadsExist
  <2>4. Active' \subseteq Active
    BY <2>2 DEF Active, TypeOK
  <2>5. UNCHANGED <<payment, inbox, delivery>>
    BY <1>13 DEF SaveSubscription, SyncPlan
  <2> QED
    BY <1>t, <2>1, <2>3, <2>4, <2>5, RowsOnlyEnd DEF Ledger, ReadsExist
<1>14. ASSUME Crash
       PROVE  Ledger'
  <2>1. \A e \in Delivery : IF Open(e)
                            THEN delivery'[e].pc = "error" /\ delivery'[e].previous = {}
                            ELSE delivery'[e] = delivery[e]
    BY <1>14 DEF Crash
  <2>2. \A e \in Delivery : ~Open(e)' /\ delivery'[e].pc # "locked"
    BY <2>1 DEF Open
  <2>3. UNCHANGED <<payment, inbox, sub>> /\ \A c \in Cancel : cancel'[c].pc = "idle"
    BY <1>14 DEF Crash
  <2>4. LocksHold'
    BY <2>2 DEF LocksHold
  <2>5. ReadsExist'
    BY <2>1, <2>3 DEF Ledger, ReadsExist, Row
  <2>6. OneActive' /\ OneGrantPerPayment'
    BY <2>3 DEF Ledger, OneActive, Active, OneGrantPerPayment, PaymentAt
  <2>7. EffectsTogether'
    BY <2>1, <2>3 DEF Ledger, EffectsTogether, PaymentAt, Open
  <2> QED
    BY <2>4, <2>5, <2>6, <2>7 DEF Ledger
<1>15. CASE UNCHANGED vars
  BY <1>15, <1>t, RowsOnlyEnd DEF vars, Row, Active, Ledger, ReadsExist
<1> QED
  BY <1>1, <1>2, <1>3, <1>4, <1>6, <1>7, <1>8, <1>9, <1>10, <1>11, <1>12, <1>13,
     <1>14, <1>15 DEF Next, DeliveryStep

LEMMA LedgerKept == Spec => []Ledger
BY LedgerInit, LedgerNext, TypeCorrect, PTL DEF Spec

\* INV-01: at most one subscription of the user is active, however the
\* webhook's transactions, expiry, cancellations and crashes interleave.
THEOREM AtMostOneActive == Spec => []OneActive
BY LedgerKept, PTL DEF Ledger

\* INV-02 and INV-04: a payment is turned into at most one subscription,
\* however many deliveries of however many events report its success.
THEOREM GrantedOnce == Spec => []OneGrantPerPayment
BY LedgerKept, PTL DEF Ledger

\* INV-03: the effects of a success are seen together or not at all.
THEOREM AllOrNothing == Spec => []EffectsTogether
BY LedgerKept, PTL DEF Ledger

-----------------------------------------------------------------------------
(* The plan. *)

\* While nothing fails, only a step that sets the plan to free, or the save
\* of a cancellation that will, takes the last active subscription.
LEMMA PlanNext == TypeOK /\ NoPremiumLeftBehind /\ [Next]_vars => NoPremiumLeftBehind'
<1> SUFFICES ASSUME TypeOK, NoPremiumLeftBehind, [Next]_vars, faults' = 0, plan' = "premium"
             PROVE  Active' # {} \/ \E c \in Cancel : cancel'[c].pc = "sync"
  BY DEF NoPremiumLeftBehind
<1>1. ~Fault
  BY BillingAssumption DEF Fault, TypeOK
<1>2. faults = 0
  BY <1>1 DEF Next, DeliveryStep, vars, CreatePayment, ReadToCancel, SaveCancelled, InsertEvent,
              IgnoreEvent, ClosePayment, LockPayment, Activate, Rollback, PeriodEnds, Expire,
              ReadSubscription, SaveSubscription, SyncPlan, Crash
<1>3. ASSUME UNCHANGED <<plan, cancel>>, Active' = Active
      PROVE  Active' # {} \/ \E c \in Cancel : cancel'[c].pc = "sync"
  BY <1>2, <1>3 DEF NoPremiumLeftBehind
<1>4. ASSUME NEW p \in Payment, CreatePayment(p) \/ ReadToCancel(p) \/ SaveCancelled(p)
      PROVE  Active' # {} \/ \E c \in Cancel : cancel'[c].pc = "sync"
  BY <1>3, <1>4 DEF CreatePayment, ReadToCancel, SaveCancelled, Active
<1>5. ASSUME NEW d \in Delivery,
             InsertEvent(d) \/ IgnoreEvent(d) \/ ClosePayment(d) \/ LockPayment(d) \/ Rollback(d)
      PROVE  Active' # {} \/ \E c \in Cancel : cancel'[c].pc = "sync"
  BY <1>3, <1>5 DEF InsertEvent, IgnoreEvent, ClosePayment, LockPayment, Rollback, Active
<1>6. ASSUME NEW d \in Delivery, Activate(d)
      PROVE  Active' # {} \/ \E c \in Cancel : cancel'[c].pc = "sync"
  <2>1. CASE Active \subseteq delivery[d].previous
    <3>1. sub'[d] = "active"
      BY <1>6, <2>1 DEF Activate, Superseded
    <3> QED
      BY <3>1 DEF Active
  <2>2. CASE ~(Active \subseteq delivery[d].previous)
    BY <1>3, <1>6, <2>2 DEF Activate, Active
  <2> QED
    BY <2>1, <2>2
<1>7. ASSUME NEW x \in Delivery, PeriodEnds(x)
      PROVE  Active' # {} \/ \E c \in Cancel : cancel'[c].pc = "sync"
  <2>1. UNCHANGED <<plan, cancel>> /\ Active' = Active
    BY <1>7 DEF PeriodEnds, Active, TypeOK
  <2> QED
    BY <1>3, <2>1
<1>8. ASSUME NEW x \in Delivery, Expire(x) PROVE FALSE
  BY <1>8 DEF Expire
<1>9. ASSUME NEW c \in Cancel, ReadSubscription(c)
      PROVE  Active' # {} \/ \E k \in Cancel : cancel'[k].pc = "sync"
  <2>1. plan' = plan /\ Active' = Active /\ cancel[c].pc = "idle"
    BY <1>9 DEF ReadSubscription, Active
  <2>2. \A k \in Cancel \ {c} : cancel'[k] = cancel[k]
    BY <1>9 DEF ReadSubscription, TypeOK
  <2> QED
    BY <1>2, <2>1, <2>2 DEF NoPremiumLeftBehind
<1>10. ASSUME NEW c \in Cancel, SaveSubscription(c)
       PROVE  cancel'[c].pc = "sync"
  BY <1>1, <1>10 DEF SaveSubscription, TypeOK
<1>11. ASSUME NEW c \in Cancel, SyncPlan(c) PROVE FALSE
  BY <1>1, <1>11 DEF SyncPlan
<1>12. CASE Crash
  BY <1>1, <1>12 DEF Crash
<1>13. CASE UNCHANGED vars
  BY <1>3, <1>13 DEF vars, Active
<1> QED
  BY <1>4, <1>5, <1>6, <1>7, <1>8, <1>9, <1>10, <1>11, <1>12, <1>13 DEF Next, DeliveryStep

\* While nothing fails, nobody keeps the premium plan without an active
\* subscription, except until a cancellation that has saved sets the plan.
THEOREM PlanFollowsSubscription == Spec => []NoPremiumLeftBehind
<1>1. Init => NoPremiumLeftBehind
  BY DEF Init, NoPremiumLeftBehind
<1> QED
  BY <1>1, PlanNext, TypeCorrect, PTL DEF Spec

-----------------------------------------------------------------------------
(* Refinement. *)

\* A payment whose cancellation is in flight has been opened.
CheckedOut == \A p \in checkout : payment[p] # "absent"

LEMMA CheckedOutKept == Spec => []CheckedOut
<1>1. Init => CheckedOut
  BY DEF Init, CheckedOut
<1>2. TypeOK /\ CheckedOut /\ [Next]_vars => CheckedOut'
  <2> SUFFICES ASSUME TypeOK, CheckedOut, [Next]_vars
               PROVE  CheckedOut'
    OBVIOUS
  <2>1. \A p \in Payment : payment[p] # "absent" => payment'[p] # "absent"
    BY DEF TypeOK, Next, vars, DeliveryStep, CreatePayment, ReadToCancel, SaveCancelled,
           InsertEvent, IgnoreEvent, ClosePayment, LockPayment, Activate, Rollback, PeriodEnds,
           Expire, ReadSubscription, SaveSubscription, SyncPlan, Crash
  <2>2. checkout' \subseteq checkout \cup {p \in Payment : payment[p] = "pending"}
    BY DEF TypeOK, Next, vars, DeliveryStep, CreatePayment, ReadToCancel, SaveCancelled,
           InsertEvent, IgnoreEvent, ClosePayment, LockPayment, Activate, Rollback, PeriodEnds,
           Expire, ReadSubscription, SaveSubscription, SyncPlan, Crash
  <2> QED
    BY <2>1, <2>2 DEF CheckedOut, TypeOK
<1> QED
  BY <1>1, <1>2, TypeCorrect, PTL DEF Spec

\* While rows and payments stay as they are, so does what became of them; and
\* access follows the only active subscription.
LEMMA SameFate ==
    ASSUME UNCHANGED payment, \A x \in Delivery : Row(x)' <=> Row(x)
    PROVE  UNCHANGED FateOf
<1>1. \A p \in Payment : Granted(p)' <=> Granted(p)
  BY DEF Granted, Row, PaymentAt
<1> QED
  BY <1>1 DEF FateOf

LEMMA AccessIs == ASSUME OneActive, NEW x \in Active
                  PROVE  AccessOf = PaymentAt(x)
BY DEF OneActive, AccessOf

\* Subscriptions that end are access that ends.
LEMMA AccessOnlyEnds ==
    ASSUME OneActive, OneActive', UNCHANGED FateOf, Active' \subseteq Active
    PROVE  [Promise!PNext]_(Promise!paVars)
<1>1. CASE Active' = Active
  BY <1>1 DEF AccessOf, PaymentAt, Promise!paVars
<1>2. CASE Active' # Active
  <2>1. Active' = {}
    BY <1>2 DEF OneActive
  <2>2. AccessOf' = NoDelivery
    BY <2>1 DEF AccessOf
  <2> QED
    BY <2>2 DEF Promise!PNext, Promise!EndAccess, Promise!paVars
<1> QED
  BY <1>1, <1>2

\* One payment moves, and nothing else changes.
LEMMA OneMoves ==
    ASSUME UNCHANGED <<sub>>, NEW p \in Payment,
           \A q \in Payment : q # p => payment'[q] = payment[q],
           NEW from, NEW to, FateOf[p] = from, FateOf'[p] = to
    PROVE  Promise!Move(p, from, to) /\ UNCHANGED AccessOf
<1>1. AccessOf' = AccessOf
  BY DEF AccessOf, Active, PaymentAt
<1>2. \A q \in Payment : Granted(q)' <=> Granted(q)
  BY DEF Granted, PaymentAt
<1>3. \A q \in Payment : q # p => FateOf'[q] = FateOf[q]
  BY <1>2 DEF FateOf
<1>4. FateOf' = [q \in Payment |-> FateOf'[q]] /\ FateOf = [q \in Payment |-> FateOf[q]]
  BY DEF FateOf
<1>5. FateOf' = [FateOf EXCEPT ![p] = to]
  BY <1>3, <1>4
<1> QED
  BY <1>1, <1>5 DEF Promise!Move

LEMMA PromiseStep ==
    TypeOK /\ TypeOK' /\ Ledger /\ Ledger' /\ CheckedOut /\ [Next]_vars
       => [Promise!PNext]_(Promise!paVars)
<1> SUFFICES ASSUME TypeOK, TypeOK', Ledger, Ledger', CheckedOut, [Next]_vars
             PROVE  [Promise!PNext]_(Promise!paVars)
  OBVIOUS
<1>p. \A d \in Delivery : EventOf[d] \in Event /\ PaymentAt(d) \in Payment
  BY BillingAssumption DEF PaymentAt
<1>q. OneActive /\ OneActive'
  BY DEF Ledger
<1>g. \A p \in Payment : payment[p] \in {"absent", "pending", "failed"} => ~Granted(p)
  BY DEF Ledger, EffectsTogether, Granted
<1>s. ASSUME UNCHANGED <<payment, sub>>
      PROVE  [Promise!PNext]_(Promise!paVars)
  <2>1. FateOf' = FateOf
    BY <1>s, SameFate DEF Row
  <2>2. AccessOf' = AccessOf
    BY <1>s DEF AccessOf, Active, PaymentAt
  <2> QED
    BY <2>1, <2>2 DEF Promise!paVars
<1>e. ASSUME UNCHANGED payment, Active' \subseteq Active, \A x \in Delivery : Row(x)' <=> Row(x)
      PROVE  [Promise!PNext]_(Promise!paVars)
  BY <1>e, <1>q, SameFate, AccessOnlyEnds
<1>c. ASSUME NEW p \in Payment, payment[p] = "pending", UNCHANGED sub,
             payment'[p] \in {"failed", "cancelled"},
             \A q \in Payment : q # p => payment'[q] = payment[q]
      PROVE  [Promise!PNext]_(Promise!paVars)
  <2>1. ~Granted(p) /\ ~Granted(p)'
    BY <1>c, <1>g DEF Granted, PaymentAt
  <2>2. FateOf[p] = "open" /\ FateOf'[p] = "closed"
    BY <1>c, <2>1 DEF FateOf
  <2>3. Promise!Close(p)
    BY <1>c, <2>2, OneMoves DEF Promise!Close
  <2> QED
    BY <2>3 DEF Promise!PNext
<1>1. ASSUME NEW p \in Payment, CreatePayment(p)
      PROVE  [Promise!PNext]_(Promise!paVars)
  <2>1. /\ \A q \in Payment : q # p => payment'[q] = payment[q]
        /\ payment[p] = "absent"
        /\ payment'[p] = "pending"
        /\ UNCHANGED sub
    BY <1>1 DEF CreatePayment, TypeOK
  <2>2. FateOf[p] = "none"
    BY <1>g, <2>1 DEF FateOf
  <2>3. ~Granted(p)'
    BY <1>g, <2>1 DEF Granted, PaymentAt
  <2>4. FateOf'[p] = "open"
    BY <2>1, <2>3 DEF FateOf
  <2>5. Promise!Open(p)
    BY <2>1, <2>2, <2>4, OneMoves DEF Promise!Open
  <2> QED
    BY <2>5 DEF Promise!PNext
<1>2. ASSUME NEW p \in Payment, SaveCancelled(p)
      PROVE  [Promise!PNext]_(Promise!paVars)
  <2>1. /\ UNCHANGED sub
        /\ payment[p] # "absent"
        /\ \/ UNCHANGED payment
           \/ payment' = [payment EXCEPT ![p] = "cancelled"]
    BY <1>2 DEF SaveCancelled, CheckedOut
  <2>2. CASE UNCHANGED payment
    BY <1>s, <2>1, <2>2
  <2>3. CASE payment' = [payment EXCEPT ![p] = "cancelled"]
    <3>1. /\ \A q \in Payment : q # p => payment'[q] = payment[q]
          /\ payment'[p] = "cancelled"
      BY <2>3 DEF TypeOK
    <3>2. CASE payment[p] = "pending"
      BY <1>c, <2>1, <3>1, <3>2
    <3>3. CASE payment[p] # "pending"
      <4>1. \A q \in Payment : Granted(q)' <=> Granted(q)
        BY <2>1 DEF Granted, PaymentAt
      <4>2. payment[p] = "success" => Granted(p)
        BY DEF Ledger, EffectsTogether, Granted
      <4>3. \A q \in Payment : FateOf'[q] = FateOf[q]
        BY <2>1, <3>1, <3>3, <4>1 DEF FateOf
      <4>4. FateOf' = FateOf
        BY <4>3 DEF FateOf
      <4>5. AccessOf' = AccessOf
        BY <2>1 DEF AccessOf, Active, PaymentAt
      <4> QED
        BY <4>4, <4>5 DEF Promise!paVars
    <3> QED
      BY <3>2, <3>3
  <2> QED
    BY <2>1, <2>2, <2>3
<1>3. ASSUME NEW d \in Delivery, ClosePayment(d)
      PROVE  [Promise!PNext]_(Promise!paVars)
  <2>1. /\ \A q \in Payment : q # PaymentAt(d) => payment'[q] = payment[q]
        /\ payment[PaymentAt(d)] = "pending"
        /\ payment'[PaymentAt(d)] \in {"failed", "cancelled"}
        /\ UNCHANGED sub
    BY <1>3, <1>p DEF ClosePayment, TypeOK
  <2> QED
    BY <1>c, <1>p, <2>1
<1>4. ASSUME NEW d \in Delivery, Activate(d)
      PROVE  [Promise!PNext]_(Promise!paVars)
  <2>1. CASE ~(Active \subseteq delivery[d].previous)
    BY <1>4, <1>s, <2>1 DEF Activate
  <2>2. CASE Active \subseteq delivery[d].previous
    <3> DEFINE p == PaymentAt(d)
    <3>1. /\ payment' = [payment EXCEPT ![p] = "success"]
          /\ sub' = Superseded(d)
          /\ delivery[d].pc = "locked"
      BY <1>4, <2>2 DEF Activate
    <3>2. /\ \A q \in Payment : q # p => payment'[q] = payment[q]
          /\ payment'[p] = "success"
      BY <1>p, <3>1 DEF TypeOK
    <3>3. payment[p] = "pending"
      BY <3>1 DEF Ledger, LocksHold
    <3>4. /\ \A x \in Delivery \ {d} : Row(x)' <=> Row(x)
          /\ d \in Active'
      BY <3>1 DEF Superseded, Row, Active, Ledger, ReadsExist
    <3>5. /\ \A q \in Payment : q # p => (Granted(q)' <=> Granted(q))
          /\ Granted(p)'
      BY <3>4 DEF Granted, Row, Active, PaymentAt
    <3>6. /\ \A q \in Payment : q # p => FateOf'[q] = FateOf[q]
          /\ FateOf[p] = "open"
          /\ FateOf'[p] = "granted"
      <4>1. \A q \in Payment : q # p => FateOf'[q] = FateOf[q]
        BY <3>2, <3>5 DEF FateOf
      <4>2. FateOf[p] = "open"
        BY <1>g, <1>p, <3>3 DEF FateOf
      <4>3. FateOf'[p] = "granted"
        BY <1>p, <3>2, <3>5 DEF FateOf
      <4> QED
        BY <4>1, <4>2, <4>3
    <3>7. FateOf' = [FateOf EXCEPT ![p] = "granted"]
      BY <1>p, <3>6 DEF FateOf
    <3>8. AccessOf' = p
      BY <1>q, <3>4 DEF OneActive, AccessOf, PaymentAt
    <3>9. Promise!Grant(p)
      BY <3>6, <3>7, <3>8 DEF Promise!Grant, Promise!Move
    <3> QED
      BY <1>p, <3>9 DEF Promise!PNext
  <2> QED
    BY <2>1, <2>2
<1>5. ASSUME NEW x \in Delivery, PeriodEnds(x) \/ Expire(x)
      PROVE  [Promise!PNext]_(Promise!paVars)
  <2>1. UNCHANGED payment
    BY <1>5 DEF PeriodEnds, Expire
  <2>2. Active' \subseteq Active
    BY <1>5 DEF PeriodEnds, Expire, Active, TypeOK
  <2>3. \A y \in Delivery : Row(y)' <=> Row(y)
    BY <1>5 DEF PeriodEnds, Expire, Row, TypeOK
  <2> QED
    BY <1>e, <2>1, <2>2, <2>3
<1>6. ASSUME NEW c \in Cancel, SaveSubscription(c)
      PROVE  [Promise!PNext]_(Promise!paVars)
  <2>1. UNCHANGED payment
    BY <1>6 DEF SaveSubscription
  <2>2. \/ UNCHANGED sub
        \/ sub' = [sub EXCEPT ![cancel[c].of] = "cancelled"] /\ cancel[c].pc = "save"
    BY <1>6 DEF SaveSubscription
  <2>3. Active' \subseteq Active
    BY <2>2 DEF Active, TypeOK
  <2>4. \A y \in Delivery : Row(y)' <=> Row(y)
    BY <2>2 DEF Row, TypeOK, Ledger, ReadsExist
  <2> QED
    BY <1>e, <2>1, <2>3, <2>4
<1>7. ASSUME NEW d \in Delivery,
             InsertEvent(d) \/ IgnoreEvent(d) \/ LockPayment(d) \/ Rollback(d)
      PROVE  [Promise!PNext]_(Promise!paVars)
  BY <1>7, <1>s DEF InsertEvent, IgnoreEvent, LockPayment, Rollback
<1>8. ASSUME NEW c \in Cancel, ReadSubscription(c) \/ SyncPlan(c)
      PROVE  [Promise!PNext]_(Promise!paVars)
  BY <1>8, <1>s DEF ReadSubscription, SyncPlan
<1>9. ASSUME NEW p \in Payment, ReadToCancel(p)
      PROVE  [Promise!PNext]_(Promise!paVars)
  BY <1>9, <1>s DEF ReadToCancel
<1>10. ASSUME Crash \/ UNCHANGED vars
       PROVE  [Promise!PNext]_(Promise!paVars)
  BY <1>10, <1>s DEF Crash, vars
<1> QED
  BY <1>1, <1>2, <1>3, <1>4, <1>5, <1>6, <1>7, <1>8, <1>9, <1>10 DEF Next, DeliveryStep

\* What billing does is what PaidAccess promises: every payment is opened once
\* and granted at most once, and access rests on one granted payment at a time.
THEOREM ImplementsPromise == Spec => KeepsPromise
<1>1. Init => Promise!PInit
  <2>1. ASSUME Init
        PROVE  FateOf = [p \in Payment |-> "none"] /\ AccessOf = NoDelivery
    <3>1. \A p \in Payment : payment[p] = "absent" /\ ~Granted(p)
      BY <2>1 DEF Init, Granted
    <3>2. FateOf = [p \in Payment |-> "none"]
      BY <3>1 DEF FateOf
    <3>3. AccessOf = NoDelivery
      BY <2>1 DEF Init, AccessOf, Active
    <3> QED
      BY <3>2, <3>3
  <2> QED
    BY <2>1 DEF Promise!PInit
<1> QED
  BY <1>1, PromiseStep, TypeCorrect, LedgerKept, CheckedOutKept, PTL
  DEF Spec, KeepsPromise, Promise!PSpec

-----------------------------------------------------------------------------
(* What ended payments keep. That the terminal states of a payment are         *)
(* immutable does not hold (TerminalIsImmutable); this is what does.           *)

\* What the gateway settled is changed only by the user's cancellation that read
\* the payment while it was pending, and only to cancelled; what became of the
\* payment for the user stays what it was even then.
EndedPaymentsStay ==
    [][\A p \in Payment :
          payment[p] \in {"success", "failed", "cancelled"} =>
             /\ payment'[p] = payment[p] \/ (p \in checkout /\ payment'[p] = "cancelled")
             /\ FateOf'[p] = FateOf[p]]_vars

\* One step of the code writes an ended payment: saving a cancellation.
LEMMA EndedWrites ==
    ASSUME TypeOK, Ledger, [Next]_vars, NEW p \in Payment,
           payment[p] \in {"success", "failed", "cancelled"}
    PROVE  payment'[p] = payment[p] \/ (p \in checkout /\ payment'[p] = "cancelled")
<1>1. ASSUME NEW q \in Payment, CreatePayment(q)
      PROVE  payment'[p] = payment[p]
  BY <1>1 DEF CreatePayment, TypeOK
<1>2. ASSUME NEW q \in Payment, SaveCancelled(q)
      PROVE  payment'[p] = payment[p] \/ (p \in checkout /\ payment'[p] = "cancelled")
  BY <1>2 DEF SaveCancelled, TypeOK
<1>3. ASSUME NEW d \in Delivery, ClosePayment(d)
      PROVE  payment'[p] = payment[p]
  BY <1>3 DEF ClosePayment, TypeOK
<1>4. ASSUME NEW d \in Delivery, Activate(d)
      PROVE  payment'[p] = payment[p]
  <2>1. payment[PaymentAt(d)] = "pending"
    BY <1>4 DEF Activate, Ledger, LocksHold
  <2> QED
    BY <1>4, <2>1 DEF Activate, TypeOK
<1>5. CASE UNCHANGED payment
  BY <1>5
<1> QED
  BY <1>1, <1>2, <1>3, <1>4, <1>5
  DEF Next, vars, DeliveryStep, ReadToCancel, InsertEvent, IgnoreEvent, LockPayment, Rollback,
      PeriodEnds, Expire, ReadSubscription, SaveSubscription, SyncPlan, Crash

\* What PaidAccess promises of a payment that was granted or closed.
LEMMA PromisedFateStays ==
    ASSUME [Promise!PNext]_(Promise!paVars), NEW p \in Payment, FateOf[p] \in {"granted", "closed"}
    PROVE  FateOf'[p] = FateOf[p]
<1>1. FateOf = [q \in Payment |-> FateOf[q]]
  BY DEF FateOf
<1>2. ASSUME NEW q \in Payment, NEW from \in {"none", "open"}, NEW to, Promise!Move(q, from, to)
      PROVE  FateOf'[p] = FateOf[p]
  <2>1. FateOf[q] = from /\ FateOf' = [FateOf EXCEPT ![q] = to]
    BY <1>2 DEF Promise!Move
  <2>2. p # q
    BY <2>1
  <2> QED
    BY <1>1, <2>1, <2>2
<1> QED
  BY <1>2 DEF Promise!PNext, Promise!Open, Promise!Grant, Promise!Close, Promise!EndAccess,
              Promise!paVars

\* However cancellations and events of the gateway cross, a payment that has ended is
\* rewritten by nothing but a cancellation that was already on its way, and
\* the grant the user has of it, or has not, stays.
THEOREM EndedIsLostToCancel == Spec => EndedPaymentsStay
<1>1. TypeOK /\ Ledger /\ [Promise!PNext]_(Promise!paVars) /\ [Next]_vars
      => [\A p \in Payment :
             payment[p] \in {"success", "failed", "cancelled"} =>
                /\ payment'[p] = payment[p] \/ (p \in checkout /\ payment'[p] = "cancelled")
                /\ FateOf'[p] = FateOf[p]]_vars
  <2> SUFFICES ASSUME TypeOK, Ledger, [Promise!PNext]_(Promise!paVars), [Next]_vars,
                      NEW p \in Payment, payment[p] \in {"success", "failed", "cancelled"}
               PROVE  /\ payment'[p] = payment[p] \/ (p \in checkout /\ payment'[p] = "cancelled")
                      /\ FateOf'[p] = FateOf[p]
    OBVIOUS
  <2>1. FateOf[p] \in {"granted", "closed"}
    BY DEF FateOf
  <2> QED
    BY <2>1, EndedWrites, PromisedFateStays
<1> QED
  BY <1>1, PromiseStep, TypeCorrect, LedgerKept, CheckedOutKept, PTL DEF Spec, EndedPaymentsStay

\* Access rests on a payment of the user that was granted, whatever the
\* payment's row says since.
THEOREM AccessIsPaid ==
    Spec => [](\A x \in Active : AccessOf = PaymentAt(x) /\ FateOf[PaymentAt(x)] = "granted")
<1>1. TypeOK /\ Ledger
      => \A x \in Active : AccessOf = PaymentAt(x) /\ FateOf[PaymentAt(x)] = "granted"
  <2> SUFFICES ASSUME TypeOK, Ledger, NEW x \in Active
               PROVE  AccessOf = PaymentAt(x) /\ FateOf[PaymentAt(x)] = "granted"
    OBVIOUS
  <2>1. x \in Delivery /\ sub[x] # "absent"
    BY DEF Active
  <2>2. /\ PaymentAt(x) \in Payment
        /\ Granted(PaymentAt(x))
        /\ payment[PaymentAt(x)] \in {"success", "cancelled"}
    BY <2>1, BillingAssumption DEF PaymentAt, Granted, Ledger, EffectsTogether
  <2>3. FateOf[PaymentAt(x)] = "granted"
    BY <2>2 DEF FateOf
  <2>4. AccessOf = PaymentAt(x)
    BY AccessIs DEF Ledger
  <2> QED
    BY <2>3, <2>4
<1> QED
  BY <1>1, TypeCorrect, LedgerKept, PTL

-----------------------------------------------------------------------------
(* Deliveries run down: the part of DeliveriesAnswered that does not rest on   *)
(* fairness.                                                                   *)

\* The deliveries that have granted nothing. A transaction that was overtaken by
\* another one's grant has its refusal, the gateway's retry and all the steps of
\* a new transaction before it; the grant that overtook it is one less to come.
Unused == {x \in Delivery : sub[x] = "absent"}

Stage(d) ==
    CASE delivery[d].pc = "answered" -> 0
      [] delivery[d].pc = "locked" -> IF Active \subseteq delivery[d].previous THEN 1 ELSE 4
      [] delivery[d].pc = "received" -> 2
      [] OTHER -> 3

Remaining(d) == 5 * Cardinality(Unused) + Stage(d)

LEMMA StageTyped == ASSUME NEW d \in Delivery
                    PROVE  Stage(d) \in 0..4 /\ (Stage(d))' \in 0..4
BY DEF Stage

LEMMA RemainingTyped ==
    ASSUME IsFiniteSet(Delivery), NEW d \in Delivery
    PROVE  Cardinality(Unused) \in Nat /\ Remaining(d) \in Nat
<1>1. IsFiniteSet(Unused)
  BY FS_Subset DEF Unused
<1>2. Cardinality(Unused) \in Nat
  BY <1>1, FS_CardinalityType
<1> QED
  BY <1>2, StageTyped DEF Remaining

\* A step that grants nothing keeps the count of what is unused, and
\* no transaction is overtaken.
LEMMA NotOvertaken ==
    ASSUME TypeOK, Ledger, Active' \subseteq Active, NEW d \in Delivery, delivery'[d] = delivery[d]
    PROVE  (Stage(d))' <= Stage(d)
BY DEF Stage

\* The steps of one delivery bring that delivery nearer to its answer and no
\* other further away.
LEMMA DeliveryAdvances ==
    ASSUME IsFiniteSet(Delivery), TypeOK, TypeOK', Ledger, NEW d \in Delivery, DeliveryStep(d)
    PROVE  /\ Remaining(d)' < Remaining(d)
           /\ \A e \in Delivery : Remaining(e)' <= Remaining(e)
<1>u. Cardinality(Unused) \in Nat
  BY RemainingTyped
<1>s. \A e \in Delivery : Stage(e) \in 0..4 /\ (Stage(e))' \in 0..4
  BY StageTyped
<1>k. ASSUME UNCHANGED sub, delivery[d].pc # "answered",
             \A e \in Delivery \ {d} : delivery'[e] = delivery[e],
             (Stage(d))' < Stage(d)
      PROVE  /\ Remaining(d)' < Remaining(d)
             /\ \A e \in Delivery : Remaining(e)' <= Remaining(e)
  <2>1. Unused' = Unused /\ Active' = Active
    BY <1>k DEF Unused, Active
  <2>2. \A e \in Delivery : (Stage(e))' <= Stage(e)
    BY <1>k, <1>s, <2>1, NotOvertaken
  <2>3. Cardinality(Unused)' = Cardinality(Unused)
    BY <2>1
  <2> QED
    BY <1>k, <1>u, <1>s, <2>2, <2>3 DEF Remaining
<1>a. ASSUME UNCHANGED sub, NEW pc \in {"answered", "received", "error"}, Answer(d, pc),
             pc = "answered" => delivery[d].pc # "answered",
             pc = "received" => delivery[d].pc \in {"unsent", "error"},
             pc = "error" => delivery[d].pc = "locked" /\ ~(Active \subseteq delivery[d].previous)
      PROVE  /\ Remaining(d)' < Remaining(d)
             /\ \A e \in Delivery : Remaining(e)' <= Remaining(e)
  <2>1. /\ delivery'[d].pc = pc
        /\ \A e \in Delivery \ {d} : delivery'[e] = delivery[e]
    BY <1>a DEF Answer, TypeOK
  <2>2. (Stage(d))' < Stage(d)
    BY <1>a, <2>1 DEF Stage
  <2> QED
    BY <1>a, <1>k, <2>1, <2>2
<1>1. CASE InsertEvent(d)
  <2>1. /\ UNCHANGED sub
        /\ delivery[d].pc \in {"unsent", "error"}
        /\ Answer(d, "received") \/ Answer(d, "answered")
    BY <1>1 DEF InsertEvent
  <2> QED
    BY <1>a, <2>1
<1>2. CASE IgnoreEvent(d) \/ ClosePayment(d)
  <2>1. UNCHANGED sub /\ delivery[d].pc = "received" /\ Answer(d, "answered")
    BY <1>2 DEF IgnoreEvent, ClosePayment, Finish
  <2> QED
    BY <1>a, <2>1
<1>3. CASE LockPayment(d)
  <2>1. /\ UNCHANGED sub
        /\ delivery[d].pc = "received"
        /\ delivery' = [delivery EXCEPT ![d] = [pc |-> "locked", previous |-> Active]]
    BY <1>3 DEF LockPayment
  <2>2. /\ delivery'[d].pc = "locked" /\ delivery'[d].previous = Active
        /\ \A e \in Delivery \ {d} : delivery'[e] = delivery[e]
    BY <2>1 DEF TypeOK
  <2>3. Active' = Active
    BY <2>1 DEF Active
  <2>4. (Stage(d))' = 1 /\ Stage(d) = 2
    BY <2>1, <2>2, <2>3 DEF Stage
  <2> QED
    BY <1>k, <2>1, <2>2, <2>4
<1>4. CASE Activate(d) /\ ~(Active \subseteq delivery[d].previous)
  BY <1>4, <1>a DEF Activate
<1>5. CASE Activate(d) /\ Active \subseteq delivery[d].previous
  <2>1. /\ delivery[d].pc = "locked"
        /\ sub' = Superseded(d)
        /\ Answer(d, "answered")
    BY <1>5 DEF Activate, Finish
  <2>2. sub[d] = "absent" /\ d \in Unused
    BY <2>1 DEF Ledger, EffectsTogether, Unused
  <2>3. Unused' = Unused \ {d}
    BY <2>1 DEF Unused, Superseded, Ledger, ReadsExist, Row
  <2>4. Cardinality(Unused)' = Cardinality(Unused) - 1
    <3>1. IsFiniteSet(Unused)
      BY FS_Subset DEF Unused
    <3>2. Cardinality(Unused \ {d}) = Cardinality(Unused) - 1
      BY <2>2, <3>1, FS_RemoveElement
    <3> QED
      BY <2>3, <3>2
  <2>5. \A e \in Delivery : Remaining(e)' < Remaining(e)
    BY <1>u, <1>s, <2>4 DEF Remaining
  <2>6. \A e \in Delivery : Remaining(e)' \in Nat /\ Remaining(e) \in Nat
    <3>1. Cardinality(Unused)' \in Nat
      <4>1. IsFiniteSet(Unused')
        BY <2>3, FS_Subset DEF Unused
      <4> QED
        BY <4>1, FS_CardinalityType
    <3> QED
      BY <1>u, <1>s, <3>1 DEF Remaining
  <2> QED
    BY <2>5, <2>6
<1> QED
  BY <1>1, <1>2, <1>3, <1>4, <1>5 DEF DeliveryStep

\* While nothing fails nobody else takes a delivery further from its answer:
\* subscriptions that end overtake no transaction.
LEMMA DeliveriesWait ==
    ASSUME IsFiniteSet(Delivery), TypeOK, TypeOK', Ledger, [Next]_vars, UNCHANGED faults,
           NEW e \in Delivery
    PROVE  Remaining(e)' <= Remaining(e)
<1>u. Cardinality(Unused) \in Nat /\ Stage(e) \in 0..4 /\ (Stage(e))' \in 0..4
  BY RemainingTyped, StageTyped
<1>w. ASSUME UNCHANGED delivery, Active' \subseteq Active,
             \A y \in Delivery : Row(y)' <=> Row(y)
      PROVE  Remaining(e)' <= Remaining(e)
  <2>1. Unused' = Unused
    BY <1>w DEF Unused, Row
  <2>2. Cardinality(Unused)' = Cardinality(Unused)
    BY <2>1
  <2>3. (Stage(e))' <= Stage(e)
    BY <1>w, NotOvertaken
  <2> QED
    BY <1>u, <2>2, <2>3 DEF Remaining
<1>1. ASSUME NEW d \in Delivery, DeliveryStep(d)
      PROVE  Remaining(e)' <= Remaining(e)
  BY <1>1, DeliveryAdvances
<1>2. ASSUME NEW x \in Delivery, PeriodEnds(x) \/ Expire(x)
      PROVE  Remaining(e)' <= Remaining(e)
  <2>1. UNCHANGED delivery
    BY <1>2 DEF PeriodEnds, Expire
  <2>2. Active' \subseteq Active
    BY <1>2 DEF PeriodEnds, Expire, Active, TypeOK
  <2>3. \A y \in Delivery : Row(y)' <=> Row(y)
    BY <1>2 DEF PeriodEnds, Expire, Row, TypeOK
  <2> QED
    BY <1>w, <2>1, <2>2, <2>3
<1>3. ASSUME NEW c \in Cancel, SaveSubscription(c)
      PROVE  Remaining(e)' <= Remaining(e)
  <2>1. UNCHANGED delivery
    BY <1>3 DEF SaveSubscription
  <2>2. \/ UNCHANGED sub
        \/ sub' = [sub EXCEPT ![cancel[c].of] = "cancelled"] /\ cancel[c].pc = "save"
    BY <1>3 DEF SaveSubscription
  <2>3. Active' \subseteq Active
    BY <2>2 DEF Active, TypeOK
  <2>4. \A y \in Delivery : Row(y)' <=> Row(y)
    BY <2>2 DEF Row, TypeOK, Ledger, ReadsExist
  <2> QED
    BY <1>w, <2>1, <2>3, <2>4
<1>4. CASE UNCHANGED <<delivery, sub>>
  BY <1>4, <1>w DEF Row, Active
<1>5. ASSUME Fault
      PROVE  FALSE
  BY <1>5 DEF Fault, TypeOK
<1> QED
  BY <1>1, <1>2, <1>3, <1>4, <1>5
  DEF Next, vars, CreatePayment, ReadToCancel, SaveCancelled, Rollback, ReadSubscription,
      SyncPlan, Crash

\* A delivery makes no more steps than it has before it, and only a failed
\* transaction or a restart gives it more: transactions that are refused by the unique
\* index and sent again cannot go on overtaking each other.
DeliveriesRunDown ==
    [][\A d \in Delivery :
          /\ faults' = faults => Remaining(d)' <= Remaining(d)
          /\ DeliveryStep(d) => Remaining(d)' < Remaining(d)]_vars

THEOREM RetriesRunDown ==
    ASSUME IsFiniteSet(Delivery)
    PROVE  Spec => [](\A d \in Delivery : Remaining(d) \in Nat) /\ DeliveriesRunDown
<1>1. \A d \in Delivery : Remaining(d) \in Nat
  BY RemainingTyped
<1>2. TypeOK /\ TypeOK' /\ Ledger /\ [Next]_vars
      => [\A d \in Delivery :
             /\ faults' = faults => Remaining(d)' <= Remaining(d)
             /\ DeliveryStep(d) => Remaining(d)' < Remaining(d)]_vars
  BY DeliveryAdvances, DeliveriesWait
<1> QED
  BY <1>1, <1>2, TypeCorrect, LedgerKept, PTL DEF Spec, DeliveriesRunDown
=============================================================================
