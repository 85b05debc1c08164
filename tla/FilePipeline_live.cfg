SPECIFICATION FairSpec
CONSTANTS
    Worker = {w1}
    Upload = upload
    Sweep = sweep
    Retry = {}
    Reprocess = {a1}
    Delete = {}
    NoWorker = none
    MaxAttempts = 2
    MaxFault = 2
CHECK_DEADLOCK FALSE
PROPERTY FileSettles
