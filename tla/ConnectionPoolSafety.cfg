SPECIFICATION Spec
CONSTANTS
    Caller = {c1, c2, c3, c4, c5}
    Conn = {x1, x2, x3, x4}
    NoConn = NoConn
    MaxSize = 3
    MinSize = 2
    EagerInit = TRUE
    RoomToInit = TRUE
    DoubleRelease = FALSE
    IdleTimeout = TRUE
    MaxLifetime = TRUE
    AcquireTimeout = TRUE
    FailingOps = {"acquire", "replenish", "initialize", "probe"}
    HealthProbe = TRUE
SYMMETRY Symmetry
INVARIANTS
    TypeOK
    ExclusiveHolding
    SlotsAreKept
    QueueIsExact
    NothingIsLeftBehind
PROPERTIES
    WaitersAreServed
    ImplementsLease
CHECK_DEADLOCK FALSE
