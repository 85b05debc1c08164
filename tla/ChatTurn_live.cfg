SPECIFICATION FairSpec
CONSTANTS
    s1 = s1
    s2 = s2
    t1 = t1
    mA = mA
    mB = mB
    mC = mC
    none = none
    Send = {s1}
    Reconnect = {r1}
    Stop = {p1}
    WebSearch = {}
    Turn = {t1}
    TurnOf <- SameTurn
    Model = {mA, mB}
    ModelOf <- TwoModels
    Fallback <- FallbackCycle
    NoModel = none
    MaxChunk = 1
    MaxFault = 1
    MaxCrash = 1
CHECK_DEADLOCK FALSE
PROPERTIES
    GenerationSettles
    SenderFeedEnds
    StopAnswers
