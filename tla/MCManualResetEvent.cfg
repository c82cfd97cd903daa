\* Two threads that call every method, counter modulo 3.
CONSTANTS
    Threads = {t1, t2}
    Nobody = Nobody
    CountMod = 3
SPECIFICATION FairEventSpec
INVARIANTS
    NoUnjustifiedReturn
    CounterTellsSignals
PROPERTIES
    ImplementsEvent
    TimedWaitEnds
