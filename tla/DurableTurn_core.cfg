SPECIFICATION Spec
CONSTANTS
    Executors = {e1, e2}
    Threads = {th1, th2}
    Ops = {send}
    NaturalOps = {send}
    GatedOps = {send}
    MaxAttempts = 1
    MaxTurns = 2
    MaxRounds = 1
    MaxBatch = 1
    MaxCrashes = 1
    NoOne = NoOne
    NoThread = NoThread
    NoOp = NoOp
SYMMETRY ExecutorSymmetry
CHECK_DEADLOCK FALSE
INVARIANTS
    EffectAtMostOnce
    LiveTurnIsOwned
    DoneIsSettled
    NoLostExchange
    ClearedStaysCleared
PROPERTIES
    KeepsContract
    EndedIsFinal
    ReservedOnlyIfApproved
