\* Two starts, so that a restart overlaps the first run and its join.
CONSTANTS
    Clients = {c1, c2}
    Workers = {w1, w2}
    Null = Null
    MaxStarts = 2
SPECIFICATION FairSpec
INVARIANTS
    RunningFlagTruthful
    ReclaimedOnce
PROPERTIES
    EventuallyFreed
    ImplementsLifetime
\* A program that has destroyed its thread object has nothing more to do.
CHECK_DEADLOCK FALSE
