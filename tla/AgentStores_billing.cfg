SPECIFICATION Spec
CONSTANTS
    Tables = {"budget"}
    Owner = 2
    Agents = {1, 2, 3}
    PeerHandlers = {2, 3}
    Delays = {1, 2}
    Cap <- Tolerances
    Audience <- Hearers
    MaxClock = 2
    MaxAged = 1
    MaxDrops = 1
    Pollers = {1, 2}
    Intakes = {i1, i2}
    Covered = TRUE
    MaxRequests = 2
    MaxDeaths = 1
    Participants = {1, 2}
    Synthesizers = {s1, s2}
    MaxFails = 2
    k1 = k1
    k2 = k2
    k3 = k3
    Calls = {k1, k2, k3}
    Accounts = {"day", "chat"}
    Day = "day"
    Charged <- ChargedCalls
    Limit <- Limits
    Estimate = 2
    Prices = {1, 3}
    Attempts <- Chains
    MaxDays = 1
    Users = {u}
    Turns = {turn}
    Foreign = {other}
    Sleepers = {sleeper}
    Resets = {r}
    Nobody = Nobody
    MaxEpoch = 1
    cron = cron
    manual = manual
    clerk = clerk
    Mails = {1, 2, 3, 4}
    Items <- MailItems
    Charge <- Charges
    Unsupported <- ForeignCharges
    Runners = {cron, manual}
    Daily = cron
    Clerks = {clerk}
    Scenes <- MailScenes
    Archiving = TRUE
    MaxFaults = 2
CHECK_DEADLOCK FALSE
INVARIANTS
    UnknownKeepsCounting
