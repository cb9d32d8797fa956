SPECIFICATION Spec
CONSTANTS
    every = every
    once = once
    other = other
    work = work
    chore = chore
    Schedules = {every, once, other}
    Jobs = {work, chore}
    JobOf <- MCJobOf
    Recurring = {every, other}
    CatchUp = {every}
    Policies <- MCPolicies
    JobLimit <- MCJobLimit
    MaxAttempts <- MCAttempts
    MaxConcurrency = 2
    MAX_PENDING_RUNS = 2
    Removable = {chore}
    StopKinds = {"abort", "drain"}
    Reentrant = {"pause", "cancel", "schedule"}
    Execs = {e1, e2, e3}
    None = None
INVARIANTS
    TypeOK
    LimitsAreKept
    FireTimesAreKept
    SilenceIsKept
