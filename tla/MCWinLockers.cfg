\* Two threads, two lockers of every kind; one thread may be terminated.
CONSTANTS
    Threads = {t1, t2}
    Lockers = {l1, l2}
    Nobody = Nobody
    MaxDeaths = 1
    MaxDepth = 2
SPECIFICATION FairSpec
INVARIANTS
    MutualExclusion
PROPERTIES
    WaitersGetIn
\* A thread may be terminated in a scope that the other one waits for.
CHECK_DEADLOCK FALSE
