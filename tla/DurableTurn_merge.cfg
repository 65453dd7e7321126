SPECIFICATION Spec
CONSTANTS
    Executors = {e1}
    Threads = {th1}
    Ops = {pay}
    NaturalOps = {}
    GatedOps = {}
    MaxAttempts = 1
    MaxTurns = 1
    MaxRounds = 1
    MaxBatch = 2
    MaxCrashes = 1
    NoOne = NoOne
    NoThread = NoThread
    NoOp = NoOp
CHECK_DEADLOCK FALSE
INVARIANTS
    IdenticalCallsNotMerged
