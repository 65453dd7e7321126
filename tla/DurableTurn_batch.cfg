SPECIFICATION FairSpec
CONSTANTS
    Executors = {e1, e2}
    Threads = {th1}
    Ops = {pay, send}
    NaturalOps = {send}
    GatedOps = {pay}
    MaxAttempts = 2
    MaxTurns = 1
    MaxRounds = 1
    MaxBatch = 2
    MaxCrashes = 3
    NoOne = NoOne
    NoThread = NoThread
    NoOp = NoOp
CHECK_DEADLOCK FALSE
INVARIANTS
    TypeOK
    EffectIsAccounted
    CacheIsBacked
PROPERTIES
    AbandonedIsSettled
