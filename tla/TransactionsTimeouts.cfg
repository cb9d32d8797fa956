SPECIFICATION FairSpec
CONSTANTS
    Txn = {t1, t2, t3}
    NoTxn = NoTxn
    MaxOutermost = 1
    Propagations = {"required", "nested"}
    Callbacks = FALSE
    Timeouts = TRUE
    Retries = FALSE
    Awaited = TRUE
    ByHand = {}
    Direct = {}
    Vetoes = {}
    FailingHooks = {"beforeCommit"}
    FailingAdapter = {}
INVARIANTS
    ReportedCommitIsKept
PROPERTIES
    TimeoutEndsRun
CHECK_DEADLOCK FALSE
