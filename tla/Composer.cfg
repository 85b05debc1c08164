SPECIFICATION Spec
CONSTANTS
    File = {f1, f2}
    Conversation = {a, n}
    Existing = {a}
    NoConversation = none
    Load = {l1, l2}
    MaxFiles = 2
    MaxMove = 2
    MaxFault = 2
CONSTRAINT Bounded
SYMMETRY Alike
CHECK_DEADLOCK FALSE
INVARIANTS
    TypeOK
    OneTransfer
    EveryChipIsServed
    NoForeignChip
    UploadsStayVisible
PROPERTY
    NeverSentTwice
