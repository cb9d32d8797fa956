SPECIFICATION FairSpec
CONSTANTS
    Job = {j1, j2}
    NoJob = NoJob
    OwnRun = {p1, p2}
    OtherRun = {o1}
    NoRun = NoRun
    Key = {}
    NoKey = NoKey
    MaxAttempts = 2
    Concurrency = 1
    Retain = 1
    MaxStalled = 2
    External = {"run", "die"}
    Stalls = TRUE
    Slow = FALSE
    Pauses = FALSE
    Timeouts = TRUE
    Graceful = FALSE
    Drains = FALSE
INVARIANTS
    LimitsAreKept
PROPERTIES
    EveryJobSettles
CHECK_DEADLOCK FALSE
