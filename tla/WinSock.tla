------------------------------- MODULE WinSock -------------------------------
(***************************************************************************)
(* init_winsock() of log4cplus/socket-win32.cxx: the first thread that     *)
(* needs Winsock starts it, with winsock_state as a once-flag changed by   *)
(* InterlockedCompareExchange; the other threads spin until it is there.   *)
(* The destructor of the static WinSockInitializer shuts Winsock down.     *)
(***************************************************************************)
EXTENDS Naturals

CONSTANTS Threads,
          MaxFailures   \* bound on the failures of WSAStartup

ASSUME WinSockAssumption == MaxFailures \in Nat

VARIABLES winsock_state,
          pc,         \* pc[t]: where t is in init_winsock()
          startups,   \* successful WSAStartup calls less WSACleanup calls
          failures,   \* failed WSAStartup calls
          exited      \* the static destructor has run

initVars == <<winsock_state, pc, startups, failures, exited>>

WSInitStates == {"WS_UNINITIALIZED", "WS_INITIALIZING", "WS_INITIALIZED"}

\* "ready": init_winsock() has returned; "threw": it has thrown; "assert0": it
\* stands at assert (0), which ends a build without NDEBUG.
InitTypeOK == /\ winsock_state \in WSInitStates
              /\ pc \in [Threads -> {"out", "check", "cas", "startup", "publish", "revert",
                                     "wait", "assert0", "ready", "threw"}]
              /\ startups \in Nat
              /\ failures \in 0 .. MaxFailures
              /\ exited \in BOOLEAN

InitWinSock == /\ winsock_state = "WS_UNINITIALIZED"
               /\ pc = [t \in Threads |-> "out"]
               /\ startups = 0 /\ failures = 0 /\ exited = FALSE

Goto(t, from, to) == pc[t] = from /\ pc' = [pc EXCEPT ![t] = to]

\* The caller enters init_winsock() and, later, goes on after it.
Enter(t) == /\ Goto(t, "out", "check")
            /\ UNCHANGED <<winsock_state, startups, failures, exited>>

Leave(t) == /\ Goto(t, "ready", "out") \/ Goto(t, "threw", "out")
            /\ UNCHANGED <<winsock_state, startups, failures, exited>>

\* The quick check before the compare-and-exchange.
Check(t) == /\ Goto(t, "check", IF winsock_state = "WS_INITIALIZED" THEN "ready" ELSE "cas")
            /\ UNCHANGED <<winsock_state, startups, failures, exited>>

CompareExchange(t) ==
    /\ Goto(t, "cas", CASE winsock_state = "WS_UNINITIALIZED" -> "startup"
                        [] winsock_state = "WS_INITIALIZING"  -> "wait"
                        [] winsock_state = "WS_INITIALIZED"   -> "ready")
    /\ winsock_state' = IF winsock_state = "WS_UNINITIALIZED" THEN "WS_INITIALIZING"
                        ELSE winsock_state
    /\ UNCHANGED <<startups, failures, exited>>

Startup(t) ==
    /\ \/ /\ Goto(t, "startup", "publish")
          /\ startups' = startups + 1
          /\ UNCHANGED failures
       \/ /\ Goto(t, "startup", "revert")
          /\ failures < MaxFailures
          /\ failures' = failures + 1
          /\ UNCHANGED startups
    /\ UNCHANGED <<winsock_state, exited>>

\* The compare-and-exchange after WSAStartup takes effect only in WS_INITIALIZING.
Exchange(to) == winsock_state' = IF winsock_state = "WS_INITIALIZING" THEN to
                                 ELSE winsock_state

Publish(t) == /\ Goto(t, "publish", "ready")
              /\ Exchange("WS_INITIALIZED")
              /\ UNCHANGED <<startups, failures, exited>>

RevertForgotten(t) ==   \* a slip: the failing thread throws without reverting the state
    /\ Goto(t, "revert", "threw")
    /\ UNCHANGED <<winsock_state, startups, failures, exited>>

Revert(t) == /\ Goto(t, "revert", "threw")
             /\ Exchange("WS_UNINITIALIZED")
             /\ UNCHANGED <<startups, failures, exited>>

WaitOnce(t) ==   \* a slip: the waiter does not look at the state again
    /\ Goto(t, "wait", "ready")
    /\ UNCHANGED <<winsock_state, startups, failures, exited>>

\* A look at the state in the loop of Sleep (0); WS_INITIALIZING means another turn.
Wait(t) == /\ winsock_state # "WS_INITIALIZING"
           /\ Goto(t, "wait", IF winsock_state = "WS_INITIALIZED" THEN "ready" ELSE "assert0")
           /\ UNCHANGED <<winsock_state, startups, failures, exited>>

\* In a build with NDEBUG assert (0) is void and the throw behind it happens.
AssertVoid(t) == /\ Goto(t, "assert0", "threw")
                 /\ UNCHANGED <<winsock_state, startups, failures, exited>>

\* ~WinSockInitializer at the exit of the program; other threads may still run.
Exit == /\ ~exited /\ exited' = TRUE
        /\ startups' = IF winsock_state = "WS_INITIALIZED" THEN startups - 1 ELSE startups
        /\ UNCHANGED <<winsock_state, pc, failures>>

InitStep(t) == Check(t) \/ CompareExchange(t) \/ Startup(t) \/ Publish(t) \/ Revert(t)
               \/ Wait(t) \/ AssertVoid(t)

NextWinSock == Exit \/ \E t \in Threads : Enter(t) \/ InitStep(t) \/ Leave(t)

WinSockSpec == InitWinSock /\ [][NextWinSock]_initVars

\* Every thread that is inside init_winsock() runs.
FairWinSockSpec == WinSockSpec /\ \A t \in Threads : WF_initVars(InitStep(t))

-----------------------------------------------------------------------------
(* Correctness. *)

\* Winsock is started at most once, and init_winsock() returns to nobody before
\* that has succeeded: neither the quick check nor the spin lets a thread pass
\* while another one is still starting it or has failed to.
StartedOnce == startups <= 1 /\ (~exited /\ (\E t \in Threads : pc[t] = "ready") => startups = 1)

\* assert (val == WS_INITIALIZING) after WSAStartup: only the thread that moved
\* the state to WS_INITIALIZING moves it on.
ExchangeAsserts == \A t \in Threads :
    pc[t] \in {"publish", "revert"} => winsock_state = "WS_INITIALIZING"

\* "Revert the state back to WS_UNINITIALIZED to unblock other threads and let
\* them throw exception": a thread that waits throws, it does not fail an assert.
WaitersThrow == \A t \in Threads : pc[t] # "assert0"

\* No thread spins for ever: init_winsock() ends, whatever WSAStartup gives.
InitEnds == \A t \in Threads : pc[t] = "check" ~> pc[t] \in {"ready", "threw"}

=============================================================================
