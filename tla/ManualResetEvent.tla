-------------------------- MODULE ManualResetEvent --------------------------
(***************************************************************************)
(* log4cplus::thread::ManualResetEvent on pthreads: a mutex, a condition   *)
(* variable, the flag signaled and the counter sigcount by which a waiter  *)
(* tells a signal from a spurious wakeup.  Each method holds the mutex     *)
(* through a MutexGuard; pthread_cond_wait gives it up while it sleeps.    *)
(***************************************************************************)
EXTENDS Integers

CONSTANTS Threads,   \* the threads that use the event
          Nobody,    \* the owner of a free mutex
          CountMod   \* sigcount is unsigned: 2^32 in the program

ASSUME EventAssumption == Nobody \notin Threads /\ CountMod \in Nat \ {0, 1}

VARIABLES mutex,      \* the owner of mtx
          signaled,   \* the flag
          sigcount,   \* signals so far, modulo CountMod
          at,         \* at[t]: where t is in the method it calls
          call,       \* call[t]: the method t calls, or called last
          prev,       \* prev[t]: the local prev_count
          timedOut,   \* the threads whose pthread_cond_timedwait has given ETIMEDOUT
          result,     \* result[t]: what the method returns ("error": it throws)
          granted     \* history: the threads whose wait began on an open event, or
                      \* during whose wait signal() was called

shared == <<mutex, signaled, sigcount>>
local == <<at, call, prev, timedOut, result, granted>>
eventVars == <<shared, local>>

Methods == {"signal", "reset", "wait", "timed_wait"}
Inside == {"asleep", "relock", "recheck"}     \* within a wait on the condition variable
Holding == {"body", "recheck", "unlock"}      \* with the mutex held

EventTypeOK == /\ mutex \in Threads \cup {Nobody}
               /\ signaled \in BOOLEAN
               /\ sigcount \in 0 .. CountMod - 1
               /\ at \in [Threads -> {"idle", "lock", "body", "unlock"} \cup Inside]
               /\ call \in [Threads -> Methods]
               /\ prev \in [Threads -> 0 .. CountMod - 1]
               /\ timedOut \subseteq Threads
               /\ result \in [Threads -> {"none", "true", "false", "error"}]
               /\ granted \subseteq Threads

EventInit == /\ mutex = Nobody /\ signaled \in BOOLEAN /\ sigcount = 0
             /\ at = [t \in Threads |-> "idle"]
             /\ call = [t \in Threads |-> "reset"]
             /\ prev = [t \in Threads |-> 0]
             /\ timedOut = {}
             /\ result = [t \in Threads |-> "none"]
             /\ granted = {}

-----------------------------------------------------------------------------
CallMethod(t) == /\ at[t] = "idle"
                 /\ at' = [at EXCEPT ![t] = "lock"]
                 /\ \E m \in Methods : call' = [call EXCEPT ![t] = m]
                 /\ result' = [result EXCEPT ![t] = "none"]
                 /\ timedOut' = timedOut \ {t}
                 /\ granted' = granted \ {t}
                 /\ UNCHANGED <<shared, prev>>

\* Fewer than CountMod signals arrive during one wait (2^32 in the program).
CountModSuffices == \A u \in Threads :
    at[u] \in Inside => (sigcount + 1) % CountMod # prev[u]

\* MutexGuard mguard (mtx), or the condition variable taking the mutex back.
Acquire(t) == /\ at[t] \in {"lock", "relock"}
              /\ mutex = Nobody
              /\ at[t] = "lock" /\ call[t] = "signal" => CountModSuffices
              /\ mutex' = t
              /\ at' = [at EXCEPT ![t] = IF at[t] = "lock" THEN "body" ELSE "recheck"]
              /\ UNCHANGED <<signaled, sigcount, call, prev, timedOut, result, granted>>

\* The return: ~MutexGuard, or unlock() and detach() before a throw.
Release(t) == /\ at[t] = "unlock"
              /\ mutex' = Nobody
              /\ at' = [at EXCEPT ![t] = "idle"]
              /\ UNCHANGED <<signaled, sigcount, call, prev, timedOut, result, granted>>

Return(t, value) == /\ at' = [at EXCEPT ![t] = "unlock"]
                    /\ result' = [result EXCEPT ![t] = value]
                    /\ UNCHANGED <<call, prev, timedOut, mutex>>

InBody(t, method) == at[t] = "body" /\ call[t] = method

SignalOne(t) ==   \* a slip: the counter is left alone
    /\ InBody(t, "signal")
    /\ signaled' = TRUE
    /\ at' = [u \in Threads |-> IF u = t THEN "unlock"
                                ELSE IF at[u] = "asleep" THEN "relock" ELSE at[u]]
    /\ granted' = granted \cup {u \in Threads : at[u] \in Inside}
    /\ UNCHANGED <<mutex, sigcount, call, prev, timedOut, result>>

\* signal(): the broadcast sends every sleeper to take the mutex.
Signal(t) ==
    /\ InBody(t, "signal")
    /\ signaled' = TRUE
    /\ sigcount' = (sigcount + 1) % CountMod
    /\ at' = [u \in Threads |-> IF u = t THEN "unlock"
                                ELSE IF at[u] = "asleep" THEN "relock" ELSE at[u]]
    /\ granted' = granted \cup {u \in Threads : at[u] \in Inside}
    /\ UNCHANGED <<mutex, call, prev, timedOut, result>>

Reset(t) == /\ InBody(t, "reset")
            /\ signaled' = FALSE
            /\ Return(t, "none")
            /\ UNCHANGED <<sigcount, granted>>

\* pthread_cond_wait: sleep and give up the mutex, in one step.
Sleep(t) == /\ at' = [at EXCEPT ![t] = "asleep"]
            /\ mutex' = Nobody
            /\ UNCHANGED <<signaled, sigcount, call, timedOut, result, granted>>

WaitBegin(t) ==
    /\ InBody(t, "wait") \/ InBody(t, "timed_wait")
    /\ \/ /\ signaled
          /\ Return(t, "true")
          /\ granted' = granted \cup {t}
          /\ UNCHANGED <<signaled, sigcount>>
       \/ /\ ~signaled
          /\ prev' = [prev EXCEPT ![t] = sigcount]
          /\ Sleep(t)

\* The wakeup time can have tv_nsec = 10^9, since Time::operator+= normalises with >
\* in place of >=: pthread_cond_timedwait then fails at once with EINVAL, the mutex
\* still held, and timed_wait() throws.
BadDeadline(t) == /\ InBody(t, "timed_wait") /\ ~signaled
                  /\ Return(t, "error")
                  /\ UNCHANGED <<signaled, sigcount, granted>>

Wake(t, timeout) == /\ at[t] = "asleep"
                    /\ at' = [at EXCEPT ![t] = "relock"]
                    /\ timedOut' = IF timeout THEN timedOut \cup {t} ELSE timedOut \ {t}
                    /\ UNCHANGED <<shared, call, prev, result, granted>>

Spurious(t) == Wake(t, FALSE)
Timeout(t) == call[t] = "timed_wait" /\ Wake(t, TRUE)

RecheckOnce(t) ==   \* a slip: "if" in place of "do ... while"
    /\ at[t] = "recheck"
    /\ Return(t, IF t \in timedOut THEN "false" ELSE "true")
    /\ UNCHANGED <<signaled, sigcount, granted>>

RecheckFlag(t) ==   \* a slip: the loop tests signaled in place of the counter
    /\ at[t] = "recheck"
    /\ \/ /\ t \in timedOut \/ signaled
          /\ Return(t, IF t \in timedOut THEN "false" ELSE "true")
          /\ UNCHANGED <<signaled, sigcount, granted>>
       \/ /\ t \notin timedOut /\ ~signaled
          /\ Sleep(t) /\ UNCHANGED prev

RecheckIgnoreTimeout(t) ==   \* a slip: ETIMEDOUT is taken for a spurious wakeup
    /\ at[t] = "recheck"
    /\ \/ /\ prev[t] # sigcount
          /\ Return(t, "true")
          /\ UNCHANGED <<signaled, sigcount, granted>>
       \/ /\ prev[t] = sigcount
          /\ Sleep(t) /\ UNCHANGED prev

\* Back from the condition variable with the mutex held.
Recheck(t) ==
    /\ at[t] = "recheck"
    /\ \/ /\ t \in timedOut
          /\ Return(t, "false")
          /\ UNCHANGED <<signaled, sigcount, granted>>
       \/ /\ t \notin timedOut /\ prev[t] # sigcount
          /\ Return(t, "true")
          /\ UNCHANGED <<signaled, sigcount, granted>>
       \/ /\ t \notin timedOut /\ prev[t] = sigcount
          /\ Sleep(t) /\ UNCHANGED prev

Continue(t) == Signal(t) \/ Reset(t) \/ WaitBegin(t) \/ BadDeadline(t) \/ Recheck(t) \/ Release(t)

EventNext == \E t \in Threads :
    CallMethod(t) \/ Acquire(t) \/ Continue(t) \/ Spurious(t) \/ Timeout(t)

EventSpec == EventInit /\ [][EventNext]_eventVars

\* A thread inside a method is scheduled, gets the mutex if it is free time and
\* again, and finds its (absolute) deadline passed if it goes on waiting.
FairEventSpec == EventSpec /\ \A t \in Threads :
    WF_eventVars(Continue(t)) /\ SF_eventVars(Acquire(t)) /\ SF_eventVars(Timeout(t))

-----------------------------------------------------------------------------
(* Correctness. *)

\* The mutex is held exactly inside the methods' critical sections: every return
\* and throw gives it back, and no sleeper keeps it.
GuardsBalanced == \A t \in Threads : mutex = t <=> at[t] \in Holding

\* wait() returns, and timed_wait() returns true, only if the event was open
\* when the wait began or has been signalled since: never on a spurious wakeup.
NoUnjustifiedReturn == \A t \in Threads :
    at[t] = "unlock" /\ result[t] = "true" => t \in granted

\* A sleeper knows of the signals it has missed through the counter alone, even
\* when reset() has closed the event again and even when the counter wraps.
CounterTellsSignals == \A t \in Threads :
    at[t] \in Inside => (t \in granted <=> prev[t] # sigcount)

Waiter == [t \in Threads |->
    IF at[t] = "unlock" /\ result[t] = "true" THEN "released"
    ELSE IF at[t] \notin Inside THEN "out"
    ELSE IF t \in granted THEN "released"
    ELSE IF call[t] = "timed_wait" THEN "deadline" ELSE "waiting"]

Event == INSTANCE ResetEvent WITH waiter <- Waiter

\* The class is a manual-reset event: also a signal() with a reset() right behind
\* it releases every thread that waits at that moment, and all of them return.
ImplementsEvent == Event!Spec

\* timed_wait() ends, whoever signals or does not.
TimedWaitEnds == \A t \in Threads : (at[t] = "asleep" /\ call[t] = "timed_wait") ~> at[t] = "idle"

=============================================================================
