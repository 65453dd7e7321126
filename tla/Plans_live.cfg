SPECIFICATION FairSpec
CONSTANTS
    Poller = poller
    Desk = desk
    NoOne = noone
    AutoResume = FALSE
    MaxSteps = 1
    MaxTurns = 1
    MaxAttempts = 2
    MaxResumes = 1
    MaxCrashes = 2
INVARIANTS
    TypeOK
PROPERTIES
    PlanIsReported
