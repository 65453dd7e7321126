SPECIFICATION Spec
CONSTANTS
    Poller = poller
    Desk = desk
    NoOne = noone
    AutoResume = TRUE
    MaxSteps = 2
    MaxTurns = 2
    MaxAttempts = 2
    MaxResumes = 1
    MaxCrashes = 1
INVARIANTS
    OneTurnPerStep
    StopIsFenced
    DoubtIsShown
    DoneIsEarned
PROPERTIES
    SummaryIsLast
