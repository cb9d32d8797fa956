SPECIFICATION Spec
CONSTANTS
    store = store
    cache = cache
    server = server
    Component = {store, cache, server}
    DependsOn <- MCDependsOn
    Critical = {cache}
    Retries <- MCRetries
    Bounded = {store}
    Reentrant = TRUE
INVARIANTS
    HooksNeverOverlap
