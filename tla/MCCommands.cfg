SPECIFICATION Spec
CONSTANTS
    Byte = 4
    SizeT = 4
    SizeofString = 28
    Fills = {0, 1}
    Junk = {0, 1}
INVARIANTS
    StreamInBuffer
    LengthIsExact
    RequestReadable
    ResponseReadable
    NoSilentTruncation
CHECK_DEADLOCK FALSE
