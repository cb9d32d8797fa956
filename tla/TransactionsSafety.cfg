SPECIFICATION Spec
CONSTANTS
    Txn = {t1, t2, t3}
    NoTxn = NoTxn
    MaxOutermost = 1
    Propagations = {"required", "supports", "requires_new", "nested", "not_supported"}
    Callbacks = TRUE
    Timeouts = FALSE
    Retries = TRUE
    Awaited = TRUE
    ByHand = {}
    Direct = {}
    Vetoes = {"body"}
    FailingHooks = {"beforeBegin", "beforeCommit"}
    FailingAdapter = {"begin", "commit", "createSavepoint"}
SYMMETRY Symmetry
INVARIANTS
    TypeOK
    OutcomeFollowsAdapter
    CallbacksFollowOutermost
    ReplayedWorkIsGone
PROPERTIES
    ImplementsUnitOfWork
CHECK_DEADLOCK FALSE
