SPECIFICATION Spec
CONSTANTS
    Job = {j1}
    NoJob = NoJob
    OwnRun = {}
    OtherRun = {o1}
    NoRun = NoRun
    Key = {k1}
    NoKey = NoKey
    MaxAttempts = 2
    Concurrency = 2
    Retain = 1
    MaxStalled = 1
    External = {"run"}
    Stalls = TRUE
    Slow = TRUE
    Pauses = FALSE
    Timeouts = FALSE
    Graceful = TRUE
    Drains = TRUE
PROPERTIES
    SettledIsFinal
CHECK_DEADLOCK FALSE
