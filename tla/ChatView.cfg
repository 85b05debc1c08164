SPECIFICATION Spec
CONSTANTS
    Conversation = {a, n}
    Existing = {a}
    NoConversation = none
    Feed = {f1, f2}
    NoFeed = nofeed
    Load = {l1}
    MaxRow = 2
    MaxText = 1
    MaxMove = 2
    MaxFault = 1
SYMMETRY Alike
CONSTRAINT Bounded
CHECK_DEADLOCK FALSE
INVARIANTS
    TypeOK
    ShowsServersText
PROPERTY KeepsOneLive
