SPECIFICATION Spec
CONSTANTS
    s1 = s1
    s2 = s2
    t1 = t1
    mA = mA
    mB = mB
    mC = mC
    none = none
    Send = {s1, s2}
    Reconnect = {}
    Stop = {p1}
    WebSearch = {}
    Turn = {t1}
    TurnOf <- SameTurn
    Model = {mA, mB}
    ModelOf <- TwoModels
    Fallback <- NoFallbacks
    NoModel = none
    MaxChunk = 1
    MaxFault = 0
    MaxCrash = 0
CHECK_DEADLOCK FALSE
PROPERTY StopNeverTouchesSettled
