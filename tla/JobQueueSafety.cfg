SPECIFICATION Spec
CONSTANTS
    Job = {j1, j2}
    NoJob = NoJob
    OwnRun = {p1, p2}
    OtherRun = {o1, o2}
    NoRun = NoRun
    Key = {k1}
    NoKey = NoKey
    MaxAttempts = 2
    Concurrency = 2
    Retain = 1
    MaxStalled = 2
    External = {"run", "release", "die"}
    Stalls = TRUE
    Slow = FALSE
    Pauses = TRUE
    Timeouts = TRUE
    Graceful = TRUE
    Drains = TRUE
SYMMETRY Symmetry
INVARIANTS
    TypeOK
    OneProcessorPerJob
    KeyFollowsJob
    SlotsAreCounted
PROPERTIES
    SettledIsFinal
CHECK_DEADLOCK FALSE
