----------------------------- MODULE WinLockers -----------------------------
(***************************************************************************)
(* The lockers of win_sync_func.h (mutex, event, critical_section and      *)
(* semaphore as the default constructors make them; mutex2 is a mutex),    *)
(* used through lock() and unlock() as scoped_lock_t does, or through      *)
(* wait_for_locker.  The result of a wait is kept in the member _wait_ret, *)
(* which all threads share.                                                *)
(*                                                                         *)
(* A thread that calls lock() holds nothing else; several lockers are      *)
(* taken by one wait_for_locker.  A thread may be terminated in its scope. *)
(***************************************************************************)
EXTENDS Naturals, FiniteSets

CONSTANTS Threads, Lockers,
          Nobody,      \* the owner of a free mutex or critical section
          MaxDeaths,   \* bound on the threads that are terminated
          MaxDepth     \* bound on how often a thread takes what it owns already

ASSUME WinLockersAssumption == /\ IsFiniteSet(Threads) /\ Nobody \notin Threads
                               /\ MaxDeaths \in Nat /\ MaxDepth \in Nat \ {0}

VARIABLES kind,        \* kind[l]: the class of l
          timed,       \* the lockers whose _wait_time is not INFINITE
          owner,       \* owner[l]: the owner of a mutex or critical section
          depth,       \* depth[l]: how often its owner has it
          permits,     \* permits[l]: an event's state, a semaphore's count
          abandoned,   \* the mutexes whose owner was terminated
          wait_ret,    \* wait_ret[l]: the member _wait_ret
          pc,          \* pc[t]: where t is in lock()
          target,      \* target[t]: the lockers t waits for
          reg,         \* reg[t]: the result of t's wait
          held,        \* held[t]: the lockers t has been told it has
          deaths       \* threads terminated so far

objects == <<owner, depth, permits, abandoned>>
vars == <<kind, timed, objects, wait_ret, pc, target, reg, held, deaths>>

Kinds == {"mutex", "event", "critical_section", "semaphore"}
WaitResults == {"WAIT_OBJECT_0", "WAIT_ABANDONED", "WAIT_TIMEOUT"}

TypeOK == /\ kind \in [Lockers -> Kinds]
          /\ timed \subseteq Lockers
          /\ owner \in [Lockers -> Threads \cup {Nobody}]
          /\ depth \in [Lockers -> Nat]
          /\ permits \in [Lockers -> Nat]
          /\ \A l \in Lockers : kind[l] = "event" => permits[l] <= 1
          /\ abandoned \subseteq Lockers
          /\ wait_ret \in [Lockers -> WaitResults]
          /\ pc \in [Threads -> {"out", "wait", "waitAll", "waitAny", "reset", "check", "in", "dead"}]
          /\ target \in [Threads -> SUBSET Lockers]
          /\ reg \in [Threads -> WaitResults]
          /\ held \in [Threads -> SUBSET Lockers]
          /\ deaths \in 0 .. MaxDeaths

\* _wait_ret is not initialised.
Init == /\ kind \in [Lockers -> Kinds]
        /\ timed \in SUBSET Lockers
        /\ owner = [l \in Lockers |-> Nobody]
        /\ depth = [l \in Lockers |-> 0]
        /\ permits = [l \in Lockers |-> IF kind[l] \in {"event", "semaphore"} THEN 1 ELSE 0]
        /\ abandoned = {}
        /\ \E r \in {"WAIT_OBJECT_0", "WAIT_TIMEOUT"} : wait_ret = [l \in Lockers |-> r]
        /\ pc = [t \in Threads |-> "out"]
        /\ target = [t \in Threads |-> {}]
        /\ reg = [t \in Threads |-> "WAIT_OBJECT_0"]
        /\ held = [t \in Threads |-> {}]
        /\ deaths = 0

-----------------------------------------------------------------------------
(* The objects of the system. *)

Owned(l) == kind[l] \in {"mutex", "critical_section"}

Available(t, l) == IF Owned(l) THEN owner[l] \in {Nobody, t} ELSE permits[l] > 0

TakeManual(t, ls) ==   \* a slip: the events are made manual-reset
    /\ \A l \in ls : depth[l] < MaxDepth
    /\ owner' = [l \in Lockers |-> IF l \in ls /\ Owned(l) THEN t ELSE owner[l]]
    /\ depth' = [l \in Lockers |-> IF l \in ls /\ Owned(l) THEN depth[l] + 1 ELSE depth[l]]
    /\ permits' = [l \in Lockers |-> IF l \in ls /\ kind[l] = "semaphore" THEN permits[l] - 1
                                     ELSE permits[l]]
    /\ abandoned' = abandoned \ ls

\* A wait that succeeds takes all of ls.
Take(t, ls) ==
    /\ \A l \in ls : depth[l] < MaxDepth
    /\ owner' = [l \in Lockers |-> IF l \in ls /\ Owned(l) THEN t ELSE owner[l]]
    /\ depth' = [l \in Lockers |-> IF l \in ls /\ Owned(l) THEN depth[l] + 1 ELSE depth[l]]
    /\ permits' = [l \in Lockers |-> IF l \in ls /\ ~Owned(l) THEN permits[l] - 1 ELSE permits[l]]
    /\ abandoned' = abandoned \ ls

\* A call of t succeeds with ls, or fails; the locals of the call are forgotten.
Succeed(t, ls) == /\ pc' = [pc EXCEPT ![t] = "in"]
                  /\ held' = [held EXCEPT ![t] = ls]
                  /\ target' = [target EXCEPT ![t] = {}]
                  /\ reg' = [reg EXCEPT ![t] = "WAIT_OBJECT_0"]
Fail(t) == /\ pc' = [pc EXCEPT ![t] = "out"]
           /\ target' = [target EXCEPT ![t] = {}]
           /\ reg' = [reg EXCEPT ![t] = "WAIT_OBJECT_0"]
           /\ UNCHANGED held

Result(ls) == IF ls \cap abandoned = {} THEN "WAIT_OBJECT_0" ELSE "WAIT_ABANDONED"

-----------------------------------------------------------------------------
(* lock(). *)

Lock(t, l) == /\ pc[t] = "out"
              /\ pc' = [pc EXCEPT ![t] = "wait"]
              /\ target' = [target EXCEPT ![t] = {l}]
              /\ UNCHANGED <<kind, timed, objects, wait_ret, reg, held, deaths>>

\* EnterCriticalSection.
Enter(t) == \E l \in target[t] :
    /\ pc[t] = "wait" /\ kind[l] = "critical_section" /\ Available(t, l)
    /\ Take(t, {l}) /\ Succeed(t, {l})
    /\ UNCHANGED <<kind, timed, wait_ret, deaths>>

\* try_lock() of a critical_section; it does nothing when it fails.
TryLock(t, l) == /\ pc[t] = "out" /\ kind[l] = "critical_section" /\ Available(t, l)
                 /\ Take(t, {l}) /\ Succeed(t, {l})
                 /\ UNCHANGED <<kind, timed, wait_ret, deaths>>

\* The wait is over and its result is stored; an event is then reset.
Store(t, l, result) == /\ reg' = [reg EXCEPT ![t] = result]
                       /\ wait_ret' = [wait_ret EXCEPT ![l] = result]
                       /\ pc' = [pc EXCEPT ![t] = IF kind[l] = "event" THEN "reset" ELSE "check"]
                       /\ UNCHANGED <<kind, timed, target, held, deaths>>

WaitReturns(t) == \E l \in target[t] :
    /\ pc[t] = "wait" /\ kind[l] # "critical_section" /\ Available(t, l)
    /\ Take(t, {l})
    /\ Store(t, l, Result({l}))

TimesOut(t) ==
    \E l \in target[t] : /\ pc[t] = "wait" /\ kind[l] # "critical_section" /\ l \in timed
                         /\ ~Available(t, l)
                         /\ Store(t, l, "WAIT_TIMEOUT")
                         /\ UNCHANGED objects

\* ResetEvent, whatever the wait has given.
ResetEvent(t) == /\ pc[t] = "reset"
                 /\ pc' = [pc EXCEPT ![t] = "check"]
                 /\ permits' = [l \in Lockers |-> IF l \in target[t] THEN 0 ELSE permits[l]]
                 /\ UNCHANGED <<kind, timed, owner, depth, abandoned, wait_ret, target, reg, held,
                                deaths>>

\* WAIT_OBJECT_0 == _wait_ret: the member is read again after ResetEvent; without a
\* call in between the compiler may use the value it has just stored.
Check(t) == \E l \in target[t] :
    /\ pc[t] = "check"
    /\ \E result \in IF kind[l] = "event" THEN {wait_ret[l]} ELSE {wait_ret[l], reg[t]} :
          IF result = "WAIT_OBJECT_0" THEN Succeed(t, {l}) ELSE Fail(t)
    /\ UNCHANGED <<kind, timed, objects, wait_ret, deaths>>

-----------------------------------------------------------------------------
(* wait_for_locker, for one locker or several; a critical_section has no handle. *)

WaitFor(t, ls) == /\ pc[t] = "out" /\ ls # {}
                  /\ \A l \in ls : kind[l] # "critical_section"
                  /\ \E m \in {"waitAll", "waitAny"} : pc' = [pc EXCEPT ![t] = m]
                  /\ target' = [target EXCEPT ![t] = ls]
                  /\ UNCHANGED <<kind, timed, objects, wait_ret, reg, held, deaths>>

\* The caller takes WAIT_OBJECT_0 for success and anything else for failure.
WaitForReturns(t) ==
    /\ \E ls \in SUBSET target[t] :
          /\ \/ pc[t] = "waitAll" /\ ls = target[t]
             \/ pc[t] = "waitAny" /\ Cardinality(ls) = 1
          /\ \A l \in ls : Available(t, l)
          /\ Take(t, ls)
          /\ IF Result(ls) = "WAIT_OBJECT_0" THEN Succeed(t, ls) ELSE Fail(t)
    /\ UNCHANGED <<kind, timed, wait_ret, deaths>>

\* A call with a finite wat_ms.
WaitForTimesOut(t) == /\ pc[t] \in {"waitAll", "waitAny"}
                      /\ Fail(t)
                      /\ UNCHANGED <<kind, timed, objects, wait_ret, deaths>>

-----------------------------------------------------------------------------
UnlockForgets(t, l) ==   \* a slip: a mutex is not released
    /\ pc[t] = "in" /\ l \in held[t]
    /\ held' = [held EXCEPT ![t] = @ \ {l}]
    /\ pc' = [pc EXCEPT ![t] = IF held'[t] = {} THEN "out" ELSE @]
    /\ permits' = [permits EXCEPT ![l] = IF Owned(l) THEN @ ELSE @ + 1]
    /\ UNCHANGED <<kind, timed, owner, depth, abandoned, wait_ret, target, reg, deaths>>

\* unlock(): ReleaseMutex and LeaveCriticalSection undo one lock of the owner,
\* SetEvent sets, ReleaseSemaphore counts.
Unlock(t, l) ==
    /\ pc[t] = "in" /\ l \in held[t]
    /\ held' = [held EXCEPT ![t] = @ \ {l}]
    /\ pc' = [pc EXCEPT ![t] = IF held'[t] = {} THEN "out" ELSE @]
    /\ IF Owned(l) /\ owner[l] = t
       THEN /\ depth' = [depth EXCEPT ![l] = @ - 1]
            /\ owner' = [owner EXCEPT ![l] = IF depth[l] = 1 THEN Nobody ELSE @]
       ELSE UNCHANGED <<owner, depth>>
    /\ permits' = [permits EXCEPT ![l] = CASE kind[l] = "event" -> 1
                                           [] kind[l] = "semaphore" -> @ + 1
                                           [] OTHER -> @]
    /\ UNCHANGED <<kind, timed, abandoned, wait_ret, target, reg, deaths>>

\* A thread is terminated in its scope: the system abandons its mutexes.
Die(t) ==
    /\ deaths < MaxDeaths /\ deaths' = deaths + 1
    /\ pc[t] = "in"
    /\ pc' = [pc EXCEPT ![t] = "dead"]
    /\ held' = [held EXCEPT ![t] = {}]
    /\ LET mine == {l \in Lockers : kind[l] = "mutex" /\ owner[l] = t} IN
          /\ abandoned' = abandoned \cup mine
          /\ owner' = [l \in Lockers |-> IF l \in mine THEN Nobody ELSE owner[l]]
          /\ depth' = [l \in Lockers |-> IF l \in mine THEN 0 ELSE depth[l]]
    /\ UNCHANGED <<kind, timed, permits, wait_ret, target, reg>>

Wait(t) == Enter(t) \/ WaitReturns(t) \/ WaitForReturns(t)
Continue(t) == ResetEvent(t) \/ Check(t) \/ \E l \in Lockers : Unlock(t, l)

Next == \E t \in Threads : \/ \E l \in Lockers : Lock(t, l) \/ TryLock(t, l)
                           \/ \E ls \in SUBSET Lockers : WaitFor(t, ls)
                           \/ Wait(t) \/ TimesOut(t) \/ WaitForTimesOut(t)
                           \/ Continue(t) \/ Die(t)

Spec == Init /\ [][Next]_vars

\* A thread leaves its scope, and a wait that could succeed time and again does.
FairSpec == Spec /\ \A t \in Threads : WF_vars(Continue(t)) /\ SF_vars(Wait(t))

-----------------------------------------------------------------------------
(* Correctness. *)

Holders(l) == {t \in Threads : l \in held[t]}

\* A locker that is waited for without a time limit excludes, whatever the others
\* do: the initial state, the automatic reset and the extra ResetEvent of an event
\* let one thread at most into a scope, also after a thread was terminated in it.
\* For such a locker the two assertions of scoped_lock_t hold as long as no thread
\* is terminated: lock() has got the locker, although _wait_ret is shared, and the
\* thread in the scope is the one that may release it.
OneHolder == \A l \in Lockers : l \notin timed \/ kind[l] = "critical_section" =>
    Cardinality(Holders(l)) <= 1
ScopedAsserts == deaths = 0 => \A t \in Threads :
    /\ pc[t] = "check" /\ target[t] \cap timed = {} =>
          reg[t] = "WAIT_OBJECT_0" /\ \A l \in target[t] : wait_ret[l] = "WAIT_OBJECT_0"
    /\ \A l \in held[t] \ timed : Owned(l) => owner[l] = t /\ depth[l] = 1
MutualExclusion == OneHolder /\ ScopedAsserts

\* Without time limits, and until a thread is terminated, nobody waits in lock()
\* for ever: every scope gives back what it took, the extra ResetEvent loses no
\* signal, and a wait for several lockers at once holds none of them meanwhile.
WaitersGetIn == timed = {} =>
    \A t \in Threads : pc[t] = "wait" ~> pc[t] = "in" \/ deaths > 0

\* "mutex, event, critical_section, semaphore: four common locks, all fit for
\* operations that need synchronisation", an event with any _wait_time too: when
\* nobody uses it, it can be locked.
UnusedEventIsSet == (\A t \in Threads : pc[t] = "out") =>
    \A l \in Lockers : kind[l] = "event" => permits[l] = 1

=============================================================================
