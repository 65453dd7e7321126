SPECIFICATION FairSpec
CONSTANTS
    Workers = {w1}
    a1 = a1
    Accounts = {a1}
    TurnStreams = {turn}
    PlanStreams = {}
    Origin <- OriginA1
    MaxMessages = 2
    MaxChunks = 1
    ChunksPerJob = 1
    NoOne = NoOne
    NoAccount = NoAccount
INVARIANTS
    StreamInOrder
PROPERTIES
    KeepsPromise
    HeadIsSettled
