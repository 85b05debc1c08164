SPECIFICATION Spec
CONSTANTS
    s1 = s1
    s2 = s2
    s3 = s3
    s4 = s4
    t1 = t1
    t2 = t2
    c1 = c1
    c2 = c2
    Send = {s1, s2, s3, s4}
    Token = {t1, t2}
    TokenOf <- RepeatedToken
    NoToken = noToken
    Content = {c1, c2}
    ContentOf <- RepeatedContent
    Admin = {s2}
    DailyMessages = 1
    MaxInFlight = 2
    MaxFault = 1
    MaxDay = 1
CHECK_DEADLOCK FALSE
INVARIANTS
    TypeOK
    DuplicatesAreRaceWidth
    OverrunIsRaceWidth
