SPECIFICATION Spec
CONSTANTS
    Txn = {t1, t2}
    NoTxn = NoTxn
    MaxOutermost = 1
    Propagations = {"required", "nested", "supports"}
    Callbacks = TRUE
    Timeouts = TRUE
    Retries = FALSE
    Awaited = FALSE
    ByHand = {"commit", "rollback"}
    Direct = {"commit", "rollback"}
    Vetoes = {}
    FailingHooks = {"beforeRollback", "afterCommit", "afterBegin", "onError"}
    FailingAdapter = {"rollback", "releaseSavepoint"}
SYMMETRY Symmetry
INVARIANTS
    HeldOnce
PROPERTIES
    TerminalIsFinal
CHECK_DEADLOCK FALSE
