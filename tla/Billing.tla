------------------------------ MODULE Billing ------------------------------
(***************************************************************************)
(* Checkout, gateway webhook, subscriptions and the plan mirrored on the   *)
(* user row, for one user: PaymentsService, WebhookService,                *)
(* SubscriptionsService and the endpoints that call them.                  *)
(*                                                                         *)
(* PostgreSQL runs at READ COMMITTED. A webhook transaction holds the      *)
(* inbox key it inserted and the payment row it locked until it ends, and  *)
(* what it wrote shows when it commits, so its writes are one action, the  *)
(* commit; what it read before is kept in the delivery. Requests outside   *)
(* a transaction read, await, and save what they read.                     *)
(*                                                                         *)
(* A subscription row is named by the delivery whose transaction inserted  *)
(* it, so that two rows of one payment would be told apart.                *)
(***************************************************************************)
EXTENDS Integers, FiniteSets

CONSTANTS
    Payment,    \* payments rows of the user
    Plan,
    PlanOf,     \* the plan each payment buys
    Event,      \* gateway event ids
    KindOf,     \* what each event reports
    PaymentOf,  \* the payment each event is about
    Delivery,   \* webhook requests; an event may be delivered many times
    EventOf,    \* the event each delivery carries
    Cancel,     \* POST /billing/subscription/cancel requests
    NoDelivery,
    MaxFault    \* bound: failed database calls and restarts

Kind == {"success", "failed", "cancelled", "unknown"}

ASSUME BillingAssumption ==
    /\ PlanOf \in [Payment -> Plan]
    /\ KindOf \in [Event -> Kind]
    /\ PaymentOf \in [Event -> Payment]
    /\ EventOf \in [Delivery -> Event]
    /\ NoDelivery \notin Delivery
    /\ MaxFault \in Nat

VARIABLES
    payment,    \* payments.status
    inbox,      \* webhook_events.status, by event id
    delivery,   \* the webhook requests and their transactions
    sub,        \* subscriptions.status, and whether the period has ended
    plan,       \* users.plan
    checkout,   \* payments with a user's cancellation in flight
    cancel,     \* the subscription cancellations in flight
    faults      \* failed database calls and restarts so far

vars == <<payment, inbox, delivery, sub, plan, checkout, cancel, faults>>

PaymentStatus == {"absent", "pending", "success", "failed", "cancelled"}
SubscriptionStatus == {"absent", "active", "overdue", "expired", "cancelled"}

\* A delivery is on its way, in its transaction with the inbox row inserted
\* (received) or with the payment locked too (locked), answered with an
\* error, or answered for good.
DeliveryState == {"unsent", "received", "locked", "error", "answered"}

PaymentAt(d) == PaymentOf[EventOf[d]]
KindAt(d) == KindOf[EventOf[d]]

Init ==
    /\ payment = [p \in Payment |-> "absent"]
    /\ inbox = [e \in Event |-> "absent"]
    /\ delivery = [d \in Delivery |-> [pc |-> "unsent", previous |-> {}]]
    /\ sub = [d \in Delivery |-> "absent"]
    /\ plan = "free"
    /\ checkout = {}
    /\ cancel = [c \in Cancel |-> [pc |-> "idle", of |-> NoDelivery]]
    /\ faults = 0

\* A subscription whose period is over is stored as active until it is expired.
Active == {d \in Delivery : sub[d] \in {"active", "overdue"}}

\* The transactions that are open, and the payment rows they have locked.
Open(d) == delivery[d].pc \in {"received", "locked"}
Locked(p) == \E d \in Delivery : delivery[d].pc = "locked" /\ PaymentAt(d) = p

Fault == faults < MaxFault /\ faults' = faults + 1

Answer(d, pc) == delivery' = [delivery EXCEPT ![d] = [pc |-> pc, previous |-> {}]]

-----------------------------------------------------------------------------
(* PaymentsService. *)

\* create: one pending payment per plan, by the lookup or, when two requests
\* race, by the partial unique index.
CreatePayment(p) ==
    /\ payment[p] = "absent"
    /\ \A q \in Payment : PlanOf[q] = PlanOf[p] => payment[q] # "pending"
    /\ payment' = [payment EXCEPT ![p] = "pending"]
    /\ UNCHANGED <<inbox, delivery, sub, plan, checkout, cancel, faults>>

\* cancelPending: the row is read without a lock ...
ReadToCancel(p) ==
    /\ payment[p] = "pending"
    /\ p \notin checkout
    /\ checkout' = checkout \cup {p}
    /\ UNCHANGED <<payment, inbox, delivery, sub, plan, cancel, faults>>

\* ... and saved as cancelled, as soon as no transaction holds it.
SaveCancelled(p) ==
    /\ p \in checkout
    /\ ~Locked(p)
    /\ checkout' = checkout \ {p}
    /\ \/ payment' = [payment EXCEPT ![p] = "cancelled"] /\ UNCHANGED faults
       \/ Fault /\ UNCHANGED payment
    /\ UNCHANGED <<inbox, delivery, sub, plan, cancel>>

-----------------------------------------------------------------------------
(* WebhookService. *)

\* The inbox row is inserted. An open transaction with the same key makes the
\* insert wait for its end; a committed one makes this delivery a duplicate.
\* The gateway sends again what was answered with an error.
InsertEvent(d) ==
    /\ delivery[d].pc \in {"unsent", "error"}
    /\ payment[PaymentAt(d)] # "absent"
    /\ \A other \in Delivery \ {d} : Open(other) => EventOf[other] # EventOf[d]
    /\ Answer(d, IF inbox[EventOf[d]] = "absent" THEN "received" ELSE "answered")
    /\ UNCHANGED <<payment, inbox, sub, plan, checkout, cancel, faults>>

Finish(d, status) ==
    /\ inbox' = [inbox EXCEPT ![EventOf[d]] = status]
    /\ Answer(d, "answered")

\* Mutant of IgnoreEvent: the inbox keeps a status it does not know.
IgnoreAsDuplicate(d) ==
    /\ delivery[d].pc = "received"
    /\ ~Locked(PaymentAt(d))
    /\ payment[PaymentAt(d)] # "pending" \/ KindAt(d) = "unknown"
    /\ Finish(d, "duplicate")
    /\ UNCHANGED <<payment, sub, plan, checkout, cancel, faults>>

\* Mutant of IgnoreEvent: only a repeated success is late.
IgnoreRepeatedSuccess(d) ==
    /\ delivery[d].pc = "received"
    /\ ~Locked(PaymentAt(d))
    /\ payment[PaymentAt(d)] = "success" \/ KindAt(d) = "unknown"
    /\ Finish(d, "ignored")
    /\ UNCHANGED <<payment, sub, plan, checkout, cancel, faults>>

\* A late or an unknown event has no effect.
IgnoreEvent(d) ==
    /\ delivery[d].pc = "received"
    /\ ~Locked(PaymentAt(d))
    /\ payment[PaymentAt(d)] # "pending" \/ KindAt(d) = "unknown"
    /\ Finish(d, "ignored")
    /\ UNCHANGED <<payment, sub, plan, checkout, cancel, faults>>

\* payment.failed and payment.cancelled.
ClosePayment(d) ==
    /\ delivery[d].pc = "received"
    /\ ~Locked(PaymentAt(d))
    /\ payment[PaymentAt(d)] = "pending"
    /\ KindAt(d) \in {"failed", "cancelled"}
    /\ payment' = [payment EXCEPT ![PaymentAt(d)] = KindAt(d)]
    /\ Finish(d, "processed")
    /\ UNCHANGED <<sub, plan, checkout, cancel, faults>>

\* Mutant of LockPayment: the row is read without FOR UPDATE.
ReadPayment(d) ==
    /\ delivery[d].pc = "received"
    /\ payment[PaymentAt(d)] = "pending"
    /\ KindAt(d) = "success"
    /\ delivery' = [delivery EXCEPT ![d] = [pc |-> "locked", previous |-> Active]]
    /\ UNCHANGED <<payment, inbox, sub, plan, checkout, cancel, faults>>

\* payment.succeeded: the payment is locked and pending, and activation reads
\* the user's active subscriptions, which nothing locks.
LockPayment(d) ==
    /\ delivery[d].pc = "received"
    /\ ~Locked(PaymentAt(d))
    /\ payment[PaymentAt(d)] = "pending"
    /\ KindAt(d) = "success"
    /\ delivery' = [delivery EXCEPT ![d] = [pc |-> "locked", previous |-> Active]]
    /\ UNCHANGED <<payment, inbox, sub, plan, checkout, cancel, faults>>

\* What activation leaves of the subscriptions: those it read as active are
\* cancelled, whatever became of them since, and its own is active.
Superseded(d) ==
    [x \in Delivery |-> IF x = d THEN "active"
                        ELSE IF x \in delivery[d].previous THEN "cancelled"
                        ELSE sub[x]]

\* Mutant of Activate: an active row it did not read stays beside the new one.
ActivateBeside(d) ==
    /\ delivery[d].pc = "locked"
    /\ payment' = [payment EXCEPT ![PaymentAt(d)] = "success"]
    /\ sub' = Superseded(d)
    /\ plan' = "premium"
    /\ Finish(d, "processed")
    /\ UNCHANGED <<checkout, cancel, faults>>

\* Mutant of Activate: the subscription is activated outside the transaction
\* and a failure keeps the payment.
ActivateApart(d) ==
    /\ delivery[d].pc = "locked"
    /\ payment' = [payment EXCEPT ![PaymentAt(d)] = "success"]
    /\ IF Active \subseteq delivery[d].previous
       THEN sub' = Superseded(d) /\ plan' = "premium" /\ Finish(d, "processed")
       ELSE Answer(d, "error") /\ UNCHANGED <<sub, plan, inbox>>
    /\ UNCHANGED <<checkout, cancel, faults>>

\* The transaction commits payment, subscriptions, plan and inbox row, unless a
\* subscription became active meanwhile: the partial unique index refuses a
\* second one and all of it is rolled back.
Activate(d) ==
    /\ delivery[d].pc = "locked"
    /\ IF Active \subseteq delivery[d].previous
       THEN /\ payment' = [payment EXCEPT ![PaymentAt(d)] = "success"]
            /\ sub' = Superseded(d)
            /\ plan' = "premium"
            /\ Finish(d, "processed")
       ELSE /\ Answer(d, "error")
            /\ UNCHANGED <<payment, sub, plan, inbox>>
    /\ UNCHANGED <<checkout, cancel, faults>>

\* A statement fails and the transaction is rolled back.
Rollback(d) ==
    /\ Open(d)
    /\ Fault
    /\ Answer(d, "error")
    /\ UNCHANGED <<payment, inbox, sub, plan, checkout, cancel>>

-----------------------------------------------------------------------------
(* SubscriptionsService. *)

\* Time: the period of an active subscription ends.
PeriodEnds(x) ==
    /\ sub[x] = "active"
    /\ sub' = [sub EXCEPT ![x] = "overdue"]
    /\ UNCHANGED <<payment, inbox, delivery, plan, checkout, cancel, faults>>

\* Mutant of Expire: users.plan is forgotten.
ExpireKeepsPlan(x) ==
    /\ sub[x] = "overdue"
    /\ sub' = [sub EXCEPT ![x] = "expired"]
    /\ UNCHANGED <<payment, inbox, delivery, plan, checkout, cancel, faults>>

\* expireIfDue, from any request that asks for the user's entitlements: one
\* transaction that locks the row and looks at it again.
Expire(x) ==
    /\ sub[x] = "overdue"
    /\ sub' = [sub EXCEPT ![x] = "expired"]
    /\ plan' = "free"
    /\ UNCHANGED <<payment, inbox, delivery, checkout, cancel, faults>>

\* cancel: the active subscription is read ...
ReadSubscription(c) ==
    /\ cancel[c].pc = "idle"
    /\ \E x \in Active : cancel' = [cancel EXCEPT ![c] = [pc |-> "save", of |-> x]]
    /\ UNCHANGED <<payment, inbox, delivery, sub, plan, checkout, faults>>

\* ... saved as cancelled ...
SaveSubscription(c) ==
    /\ cancel[c].pc = "save"
    /\ \/ /\ sub' = [sub EXCEPT ![cancel[c].of] = "cancelled"]
          /\ cancel' = [cancel EXCEPT ![c].pc = "sync"]
          /\ UNCHANGED faults
       \/ /\ Fault
          /\ cancel' = [cancel EXCEPT ![c] = [pc |-> "idle", of |-> NoDelivery]]
          /\ UNCHANGED sub
    /\ UNCHANGED <<payment, inbox, delivery, plan, checkout>>

\* ... and the user's plan is set to free.
SyncPlan(c) ==
    /\ cancel[c].pc = "sync"
    /\ \/ plan' = "free" /\ UNCHANGED faults
       \/ Fault /\ UNCHANGED plan
    /\ cancel' = [cancel EXCEPT ![c] = [pc |-> "idle", of |-> NoDelivery]]
    /\ UNCHANGED <<payment, inbox, delivery, sub, checkout>>

-----------------------------------------------------------------------------
\* The process dies: open transactions are rolled back, requests are gone.
Crash ==
    /\ Fault
    /\ delivery' = [d \in Delivery |->
                      IF Open(d) THEN [pc |-> "error", previous |-> {}] ELSE delivery[d]]
    /\ checkout' = {}
    /\ cancel' = [c \in Cancel |-> [pc |-> "idle", of |-> NoDelivery]]
    /\ UNCHANGED <<payment, inbox, sub, plan>>

DeliveryStep(d) ==
    InsertEvent(d) \/ IgnoreEvent(d) \/ ClosePayment(d) \/ LockPayment(d) \/ Activate(d)

Next ==
    \/ \E p \in Payment : CreatePayment(p) \/ ReadToCancel(p) \/ SaveCancelled(p)
    \/ \E d \in Delivery :
          DeliveryStep(d) \/ Rollback(d) \/ PeriodEnds(d) \/ Expire(d)
    \/ \E c \in Cancel : ReadSubscription(c) \/ SaveSubscription(c) \/ SyncPlan(c)
    \/ Crash

\* The gateway sends each event until it is answered, and a transaction that
\* has begun goes on; users and time do as they like.
Fairness == \A d \in Delivery : WF_vars(DeliveryStep(d))

Spec == Init /\ [][Next]_vars
FairSpec == Spec /\ Fairness

-----------------------------------------------------------------------------
(* Correctness. *)

\* Every variable holds a value of the shape the code gives it.
TypeOK ==
    /\ payment \in [Payment -> PaymentStatus]
    /\ inbox \in [Event -> {"absent", "processed", "ignored"}]
    /\ delivery \in [Delivery -> [pc : DeliveryState, previous : SUBSET Delivery]]
    /\ sub \in [Delivery -> SubscriptionStatus]
    /\ plan \in {"free", "premium"}
    /\ checkout \subseteq Payment
    /\ cancel \in [Cancel -> [pc : {"idle", "save", "sync"}, of : Delivery \cup {NoDelivery}]]
    /\ faults \in 0..MaxFault

\* INV-01: at most one subscription of the user is active.
OneActive == \A x, y \in Active : x = y

\* INV-02, INV-04: however often success is reported, under the same event id
\* or under fresh ones, a payment is turned into at most one subscription.
OneGrantPerPayment ==
    \A x, y \in Delivery :
        sub[x] # "absent" /\ sub[y] # "absent" /\ PaymentAt(x) = PaymentAt(y) => x = y

\* INV-03: payment, subscription and inbox row change together. A payment
\* that succeeded has its subscription, a subscription has a payment that
\* succeeded (the user's late cancellation aside) and its event is processed,
\* and a payment that the gateway refused has none.
EffectsTogether ==
    /\ \A p \in Payment : payment[p] = "success" =>
          \E d \in Delivery : PaymentAt(d) = p /\ sub[d] # "absent"
    /\ \A d \in Delivery : sub[d] # "absent" =>
          /\ payment[PaymentAt(d)] \in {"success", "cancelled"}
          /\ inbox[EventOf[d]] = "processed"
          /\ delivery[d].pc = "answered"

\* Nobody keeps the premium plan without an active subscription, longer than
\* it takes a cancellation to go from its save to its last step.
NoPremiumLeftBehind ==
    faults = 0 /\ plan = "premium" =>
        Active # {} \/ \E c \in Cancel : cancel[c].pc = "sync"

\* Every event is answered in the end: no transactions wait on each other, and
\* those the unique index refuses get through when they are sent again.
DeliveriesAnswered ==
    (\A d \in Delivery : payment[PaymentAt(d)] # "absent")
        ~> (\A d \in Delivery : delivery[d].pc = "answered")

\* What the user gets is what PaidAccess promises.
Granted(p) == \E d \in Delivery : PaymentAt(d) = p /\ sub[d] # "absent"

FateOf ==
    [p \in Payment |-> CASE payment[p] = "absent" -> "none"
                         [] payment[p] = "pending" -> "open"
                         [] Granted(p) -> "granted"
                         [] OTHER -> "closed"]

AccessOf == IF Active = {} THEN NoDelivery ELSE PaymentAt(CHOOSE x \in Active : TRUE)

Promise == INSTANCE PaidAccess WITH Nothing <- NoDelivery, fate <- FateOf, access <- AccessOf
KeepsPromise == Promise!PSpec

-----------------------------------------------------------------------------
(* A sentence of the documents that the code does not keep. *)

\* Terminal states of a payment are immutable.
TerminalIsImmutable ==
    [][\A p \in Payment :
          payment[p] \in {"success", "failed", "cancelled"} => payment'[p] = payment[p]]_vars
=============================================================================
