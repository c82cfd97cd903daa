\* Two threads, one failure of WSAStartup.
CONSTANTS
    Threads = {t1, t2}
    MaxFailures = 1
SPECIFICATION WinSockSpec
INVARIANTS
    WaitersThrow
CHECK_DEADLOCK FALSE
