\* Two threads, three smart-pointer variables, two objects.
CONSTANTS
    Objects = {o1, o2}
    Ptrs = {p1, p2, p3}
    Threads = {t1, t2}
    Null = Null
SPECIFICATION FairSpec
INVARIANTS
    CountIsExact
    NoUseAfterFree
PROPERTIES
    ImplementsLifetime
