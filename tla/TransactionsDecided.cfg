SPECIFICATION Spec
CONSTANTS
    Txn = {t1}
    NoTxn = NoTxn
    MaxOutermost = 1
    Propagations = {"required"}
    Callbacks = TRUE
    Timeouts = TRUE
    Retries = FALSE
    Awaited = TRUE
    ByHand = {}
    Direct = {}
    Vetoes = {}
    FailingHooks = {}
    FailingAdapter = {}
INVARIANTS
    StateMatchesAdapter
CHECK_DEADLOCK FALSE
