\* Two threads, one locker of every kind; no thread is terminated.
CONSTANTS
    Threads = {t1, t2}
    Lockers = {l1}
    Nobody = Nobody
    MaxDeaths = 0
    MaxDepth = 2
SPECIFICATION Spec
INVARIANTS
    UnusedEventIsSet
\* An event may have lost its signal.
CHECK_DEADLOCK FALSE
