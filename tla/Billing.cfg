SPECIFICATION FairSpec
CONSTANTS
    p1 = p1
    p2 = p2
    basic = basic
    pro = pro
    e1 = e1
    e2 = e2
    e3 = e3
    e4 = e4
    d1 = d1
    d2 = d2
    d3 = d3
    d4 = d4
    d5 = d5
    Payment = {p1, p2}
    Plan = {basic, pro}
    PlanOf <- TwoPlans
    Event = {e1, e2, e3, e4}
    KindOf <- Events
    PaymentOf <- About
    Delivery = {d1, d2, d3, d4, d5}
    EventOf <- Carries
    Cancel = {c1}
    NoDelivery = none
    MaxFault = 1
CHECK_DEADLOCK FALSE
INVARIANTS
    TypeOK
    OneActive
    OneGrantPerPayment
    EffectsTogether
    NoPremiumLeftBehind
PROPERTIES
    DeliveriesAnswered
    KeepsPromise
