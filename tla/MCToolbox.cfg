SPECIFICATION Spec
CONSTANTS
    Base = 2  LongMax = 150  Clock <- MCClock  Micros = {0, 9, 63}
    Factors = {2, 3}  MinLimit = 16  MaxSteps = 3
    U32 = 9  Indexes = {0, 1, 2, 3, 4, 5, 6, 7}  Nums = {0, 1, 2, 3, 5}  MaxNodes = 3
    Byte = 4  MaxSizes = {9}  Messages <- MCMessages  MaxReads = 3
    Things <- MCThings  Reserves = {1, 25}  MaxThings = 3  MaxWritten = 9  Leftover = 2
    Q = 1  Table <- MCTable  ToB64 <- MCToB64  Pad = 1  Chunk = 3  DecodeChunk = 8
    Plains <- MCPlains  Keys <- MCKeys  MaxCalls = 2
    Words <- MCWords  Narrows <- MCNarrows  Refused = {55296}
    BufferSizes = {0, 1, 2, 3, 4, 7}  Comma = 44
    Handles = {h1, h2, h3}  Impls = {i1, i2, i3}  MaxStmts = 1
    Null = null  Dead = dead
    Nobody = nobody
    Objects = {o1, o2, o3}  Numbers = {n1, n2}  MaxSuspends = 1
INVARIANTS TimesOrdered TimeTold RangesTold MessageRead FirstInFirstOut RoundTrip TextKept
    ConnectionsShared ThreadsSeeTheirObject
CHECK_DEADLOCK FALSE
