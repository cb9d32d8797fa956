SPECIFICATION Spec
CONSTANTS
    Job = {j1}
    NoJob = NoJob
    OwnRun = {p1}
    OtherRun = {}
    NoRun = NoRun
    Key = {k1}
    NoKey = NoKey
    MaxAttempts = 2
    Concurrency = 2
    Retain = 1
    MaxStalled = 1
    External = {}
    Stalls = FALSE
    Slow = FALSE
    Pauses = FALSE
    Timeouts = FALSE
    Graceful = TRUE
    Drains = FALSE
INVARIANTS
    NothingIsWrittenBack
CHECK_DEADLOCK FALSE
