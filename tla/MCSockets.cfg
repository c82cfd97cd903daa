\* Two threads, three socket objects, two handles, one failure of WSAStartup.
CONSTANTS
    Threads = {t1, t2}
    MaxFailures = 1
    Vars = {v1, v2, v3}
    Handles = {h1, h2}
    INVALID_SOCKET = INVALID_SOCKET
SPECIFICATION FairSpec
INVARIANTS
    StartedOnce
    HandlesAccounted
PROPERTIES
    CallsEnd
\* The program may stop using sockets.
CHECK_DEADLOCK FALSE
