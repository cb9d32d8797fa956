SPECIFICATION FairSpec
CONSTANTS
    Caller = {c1, c2, c3}
    Conn = {x1, x2, x3}
    NoConn = NoConn
    MaxSize = 1
    MinSize = 1
    EagerInit = TRUE
    RoomToInit = TRUE
    DoubleRelease = FALSE
    IdleTimeout = FALSE
    MaxLifetime = TRUE
    AcquireTimeout = FALSE
    FailingOps = {}
    HealthProbe = FALSE
PROPERTIES
    ParkedIsAnswered
    DrainClosesAll
CHECK_DEADLOCK FALSE
