SPECIFICATION Spec
CONSTANTS
    Executors = {e1}
    Threads = {th1}
    Ops = {send}
    NaturalOps = {send}
    GatedOps = {}
    MaxAttempts = 1
    MaxTurns = 2
    MaxRounds = 1
    MaxBatch = 1
    MaxCrashes = 0
    NoOne = NoOne
    NoThread = NoThread
    NoOp = NoOp
CHECK_DEADLOCK FALSE
INVARIANTS
    BusinessKeyIsKept
