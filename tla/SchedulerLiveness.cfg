SPECIFICATION FairSpec
CONSTANTS
    every = every
    once = once
    other = other
    work = work
    chore = chore
    Schedules = {every, once, other}
    Jobs = {work, chore}
    JobOf <- MCJobOf
    Recurring = {every, other}
    CatchUp = {}
    Policies <- MCFewPolicies
    JobLimit <- MCJobLimit
    MaxAttempts <- MCAttempts
    MaxConcurrency = 2
    MAX_PENDING_RUNS = 2
    Removable = {}
    StopKinds = {"abort", "drain"}
    Reentrant = {}
    Execs = {e1, e2}
    None = None
PROPERTIES
    DueIsServed
    HeldRunStarts
