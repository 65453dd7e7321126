SPECIFICATION Spec
CONSTANTS
    Workers = {w1, w2}
    a1 = a1
    Accounts = {a1, a2}
    TurnStreams = {}
    PlanStreams = {plan}
    Origin <- OriginA1
    MaxMessages = 1
    MaxChunks = 2
    ChunksPerJob = 2
    NoOne = NoOne
    NoAccount = NoAccount
SYMMETRY WorkerSymmetry
INVARIANTS
    TypeOK
    ShownOnce
    NoFalseReceipt
PROPERTIES
    SendsAreCurrent
