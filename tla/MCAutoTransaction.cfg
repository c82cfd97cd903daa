\* Two connections, three scopes, one I/O error.
CONSTANTS
    Conns = {c1, c2}
    MaxErrors = 1
    MaxScopes = 3
SPECIFICATION FairSpec
INVARIANTS
    AllOrNothing
    ScopeIsTransaction
    NoLockLeft
PROPERTIES
    ScopesEnd
\* The threads may open no more scopes.
CHECK_DEADLOCK FALSE
