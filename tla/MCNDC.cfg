\* An AbstractThread and a foreign thread of scopes; depth 2, one failure each.
CONSTANTS
    NDCThreads = {t1, t2}
    AbstractThreads = {t1}
    Scoped = {t2}
    Blocks = {b1, b2}
    Messages = {m1, m2}
    NULL = NULL
    MaxDepth = 2
    MaxFailures = 1
SPECIFICATION NDCSpec
INVARIANTS
    StacksOwned
    ContextsChained
    ScopesNest
\* Both threads may have ended.
CHECK_DEADLOCK FALSE
