SPECIFICATION Spec
CONSTANTS
    Caller = {}
    Conn = {x1, x2, x3, x4}
    NoConn = NoConn
    MaxSize = 2
    MinSize = 2
    EagerInit = TRUE
    RoomToInit = FALSE
    DoubleRelease = FALSE
    IdleTimeout = FALSE
    MaxLifetime = FALSE
    AcquireTimeout = FALSE
    FailingOps = {"initialize"}
    HealthProbe = FALSE
INVARIANT
    MaxIsHard
CHECK_DEADLOCK FALSE
