SPECIFICATION Spec
CONSTANTS
    Worker = {w1, w2, w3}
    Upload = upload
    Sweep = sweep
    Retry = {r1}
    Reprocess = {}
    Delete = {d1}
    NoWorker = none
    MaxAttempts = 2
    MaxFault = 1
SYMMETRY Workers
CHECK_DEADLOCK FALSE
INVARIANTS
    TypeOK
    ReadyHasText
    OneRun
    NoOrphanObject
PROPERTY FollowsDiagram
