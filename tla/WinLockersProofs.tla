-------------------------- MODULE WinLockersProofs --------------------------
(***************************************************************************)
(* Proofs about WinLockers for any sets of threads and lockers.  That a    *)
(* locker excludes is not inductive: between the return of its wait and    *)
(* the test of _wait_ret a thread has taken the locker without having been *)
(* told, and the member it is about to test is one that others write.      *)
(***************************************************************************)
EXTENDS WinLockers, FiniteSetTheorems, TLAPS

\* The lockers that are waited for without a time limit, or never report a time-out.
Strict(l) == l \notin timed \/ kind[l] = "critical_section"

\* A thread uses a locker from the return of its wait to its unlock().
Told(t, l) == l \in held[t]
Returned(t, l) == pc[t] \in {"reset", "check"} /\ l \in target[t]
Uses(t, l) == Told(t, l) \/ Returned(t, l)

\* Only a thread in its scope holds lockers; lock() is about one locker.
PlaceInv == \A t \in Threads :
    /\ pc[t] # "in" => held[t] = {}
    /\ pc[t] \in {"wait", "reset", "check"} => \E l \in Lockers : target[t] = {l}
    /\ pc[t] \in {"reset", "check"} => \A l \in target[t] : kind[l] # "critical_section"

\* An owned locker that is used belongs to its user, ...
OwnerInv == \A l \in Lockers :
    /\ owner[l] # Nobody => depth[l] > 0
    /\ Strict(l) /\ Owned(l) => \A t \in Threads : Uses(t, l) => owner[l] = t

\* ... and an event or semaphore has one permit or one user.
PermitInv == \A l \in Lockers : Strict(l) /\ ~Owned(l) =>
    /\ permits[l] <= 1
    /\ \A t \in Threads : Uses(t, l) =>
          permits[l] = 0 /\ \A u \in Threads : Uses(u, l) => u = t

\* Until a thread is terminated a wait without a limit succeeds, and its result
\* stays in _wait_ret until it is tested.
ResultInv == deaths = 0 =>
    /\ abandoned = {}
    /\ \A t \in Threads, l \in Lockers : Returned(t, l) /\ l \notin timed =>
          reg[t] = "WAIT_OBJECT_0" /\ wait_ret[l] = "WAIT_OBJECT_0"

\* Until then nobody owns a mutex or critical section without using it, or twice.
DepthInv == deaths = 0 => \A l \in Lockers : l \notin timed /\ Owned(l) =>
    IF owner[l] = Nobody THEN depth[l] = 0 ELSE depth[l] = 1 /\ Uses(owner[l], l)

IInv == TypeOK /\ PlaceInv /\ OwnerInv /\ PermitInv /\ ResultInv /\ DepthInv

-----------------------------------------------------------------------------
USE WinLockersAssumption DEF WinLockersAssumption, Kinds, WaitResults

LEMMA InitEstablishes == Init => IInv
  BY DEF Init, IInv, TypeOK, PlaceInv, OwnerInv, PermitInv, ResultInv, DepthInv,
         Uses, Told, Returned, Strict, Owned

\* What a successful wait does to the objects.
LEMMA TakeEffect ==
    ASSUME TypeOK, NEW t \in Threads, NEW ls \in SUBSET Lockers, Take(t, ls),
           \A l \in ls : Available(t, l)
    PROVE  /\ owner' \in [Lockers -> Threads \cup {Nobody}]
           /\ depth' \in [Lockers -> Nat]
           /\ permits' \in [Lockers -> Nat]
           /\ \A l \in Lockers : kind[l] = "event" => permits'[l] <= 1
           /\ abandoned' \subseteq abandoned
           /\ \A l \in ls : Owned(l) =>
                 /\ owner[l] \in {Nobody, t} /\ owner'[l] = t
                 /\ depth'[l] = depth[l] + 1 /\ permits'[l] = permits[l]
           /\ \A l \in ls : ~Owned(l) =>
                 /\ permits[l] > 0 /\ permits'[l] = permits[l] - 1
                 /\ owner'[l] = owner[l] /\ depth'[l] = depth[l]
           /\ \A l \in Lockers \ ls :
                 owner'[l] = owner[l] /\ depth'[l] = depth[l] /\ permits'[l] = permits[l]
  BY DEF Take, Available, Owned, TypeOK

\* A thread that waits uses nothing, and what it may take nobody else uses.
LEMMA TakenIsFree ==
    ASSUME IInv, NEW t \in Threads, pc[t] \notin {"in", "reset", "check"},
           NEW l \in Lockers, Strict(l), Available(t, l)
    PROVE  \A u \in Threads : ~Uses(u, l)
  BY DEF IInv, TypeOK, PlaceInv, OwnerInv, PermitInv, Uses, Told, Returned, Available

-----------------------------------------------------------------------------
\* Calls that begin, and waits for several lockers that time out, change neither
\* the objects nor who uses what.
LEMMA QuietStep ==
    ASSUME IInv, NEW t \in Threads,
           UNCHANGED <<kind, timed, objects, wait_ret, held, deaths>>,
           pc[t] \notin {"in", "reset", "check"},
           NEW p \in {"out", "wait", "waitAll", "waitAny"}, pc' = [pc EXCEPT ![t] = p],
           NEW ls \in SUBSET Lockers, target' = [target EXCEPT ![t] = ls],
           p = "wait" => \E l \in Lockers : ls = {l},
           NEW r \in WaitResults, reg' = [reg EXCEPT ![t] = r]
    PROVE  IInv'
  <1> USE DEF IInv
  <1>1. TypeOK'
    BY DEF TypeOK, objects
  <1>2. \A u \in Threads, l \in Lockers : (Uses(u, l)' <=> Uses(u, l)) /\ (Returned(u, l)' <=> Returned(u, l))
    BY DEF TypeOK, Uses, Told, Returned
  <1>3. PlaceInv'
    BY DEF PlaceInv, TypeOK
  <1>4. OwnerInv' /\ PermitInv'
    BY <1>2 DEF OwnerInv, PermitInv, Strict, Owned, objects
  <1>5. ResultInv'
    BY <1>2 DEF ResultInv, TypeOK, objects, Returned
  <1>6. DepthInv'
    BY <1>2 DEF DepthInv, TypeOK, objects, Owned
  <1> QED
    BY <1>1, <1>3, <1>4, <1>5, <1>6

LEMMA CallsBegin ==
    ASSUME IInv, NEW t \in Threads,
           \/ \E l \in Lockers : Lock(t, l)
           \/ \E ls \in SUBSET Lockers : WaitFor(t, ls)
           \/ WaitForTimesOut(t)
    PROVE  IInv'
  <1> TypeOK
    BY DEF IInv
  <1>1. CASE \E l \in Lockers : Lock(t, l)
    <2> PICK l \in Lockers : Lock(t, l)
      BY <1>1
    <2>1. reg' = [reg EXCEPT ![t] = reg[t]] /\ reg[t] \in WaitResults
      BY DEF Lock, TypeOK
    <2>2. {l} \in SUBSET Lockers /\ target' = [target EXCEPT ![t] = {l}]
      BY DEF Lock
    <2> QED
      BY <2>1, <2>2, QuietStep DEF Lock
  <1>2. CASE \E ls \in SUBSET Lockers : WaitFor(t, ls)
    <2> PICK ls \in SUBSET Lockers : WaitFor(t, ls)
      BY <1>2
    <2>1. reg' = [reg EXCEPT ![t] = reg[t]] /\ reg[t] \in WaitResults
      BY DEF WaitFor, TypeOK
    <2>2. PICK p \in {"waitAll", "waitAny"} : pc' = [pc EXCEPT ![t] = p]
      BY DEF WaitFor
    <2> QED
      BY <2>1, <2>2, QuietStep DEF WaitFor
  <1>3. CASE WaitForTimesOut(t)
    <2>1. {} \in SUBSET Lockers
      OBVIOUS
    <2> QED
      BY <1>3, <2>1, QuietStep DEF WaitForTimesOut, Fail
  <1> QED
    BY <1>1, <1>2, <1>3

\* A wait that takes its lockers and tells its caller.
LEMMA TakesAndTells ==
    ASSUME IInv, NEW t \in Threads, NEW ls \in SUBSET Lockers,
           pc[t] \notin {"in", "reset", "check"}, \A l \in ls : Available(t, l),
           Take(t, ls), Succeed(t, ls), UNCHANGED <<kind, timed, wait_ret, deaths>>
    PROVE  IInv'
  <1> USE DEF IInv
  <1>1. /\ \A u \in Threads \ {t}, l \in Lockers :
             (Uses(u, l)' <=> Uses(u, l)) /\ (Returned(u, l)' <=> Returned(u, l))
        /\ \A l \in Lockers : (Uses(t, l)' <=> l \in ls) /\ ~Uses(t, l) /\ ~Returned(t, l)'
    BY DEF TypeOK, PlaceInv, Uses, Told, Returned, Succeed
  <1>2. \A l \in ls : Strict(l) => \A u \in Threads : ~Uses(u, l)
    BY TakenIsFree
  <1>3. TypeOK'
    BY TakeEffect DEF TypeOK, Succeed
  <1>4. PlaceInv'
    BY DEF PlaceInv, TypeOK, Succeed
  <1>5. OwnerInv'
    BY <1>1, <1>2, TakeEffect DEF OwnerInv, TypeOK, Strict, Owned
  <1>6. PermitInv'
    BY <1>1, <1>2, TakeEffect DEF PermitInv, TypeOK, Strict, Owned
  <1>7. ResultInv'
    BY <1>1, TakeEffect DEF ResultInv, TypeOK, Succeed
  <1>8. DepthInv'
    BY <1>1, <1>2, TakeEffect DEF DepthInv, TypeOK, Strict, Owned
  <1> QED
    BY <1>3, <1>4, <1>5, <1>6, <1>7, <1>8

\* Or one of several lockers was abandoned: it takes them and reports a failure.
\* Nobody uses them then, and the permits of the others are lost.
LEMMA TakesAndFails ==
    ASSUME IInv, NEW t \in Threads, NEW ls \in SUBSET Lockers,
           pc[t] \notin {"in", "reset", "check"}, \A l \in ls : Available(t, l),
           ls \cap abandoned # {},
           Take(t, ls), Fail(t), UNCHANGED <<kind, timed, wait_ret, deaths>>
    PROVE  IInv'
  <1> USE DEF IInv
  <1>1. \A u \in Threads, l \in Lockers :
           (Uses(u, l)' <=> Uses(u, l)) /\ (Returned(u, l)' <=> Returned(u, l))
    BY DEF TypeOK, PlaceInv, Uses, Told, Returned, Fail
  <1>2. \A l \in ls : Strict(l) => \A u \in Threads : ~Uses(u, l)
    BY TakenIsFree
  <1>3. TypeOK'
    <2>1. reg' \in [Threads -> WaitResults] /\ target' \in [Threads -> SUBSET Lockers]
      BY DEF TypeOK, Fail
    <2> QED
      BY <2>1, TakeEffect DEF TypeOK, Fail
  <1>4. PlaceInv'
    BY DEF PlaceInv, TypeOK, Fail
  <1>5. OwnerInv'
    BY <1>1, <1>2, TakeEffect DEF OwnerInv, TypeOK, Strict, Owned
  <1>6. PermitInv'
    BY <1>1, <1>2, TakeEffect DEF PermitInv, TypeOK, Strict, Owned
  <1>7. deaths' # 0
    BY DEF ResultInv
  <1>8. ResultInv' /\ DepthInv'
    BY <1>7 DEF ResultInv, DepthInv
  <1> QED
    BY <1>3, <1>4, <1>5, <1>6, <1>8

LEMMA ScopesBegin ==
    ASSUME IInv, NEW t \in Threads,
           Enter(t) \/ (\E l \in Lockers : TryLock(t, l)) \/ WaitForReturns(t)
    PROVE  IInv'
  <1> TypeOK
    BY DEF IInv
  <1>1. CASE Enter(t)
    <2> PICK l \in target[t] : /\ pc[t] = "wait" /\ Available(t, l)
                               /\ Take(t, {l}) /\ Succeed(t, {l})
                               /\ UNCHANGED <<kind, timed, wait_ret, deaths>>
      BY <1>1 DEF Enter
    <2>1. {l} \in SUBSET Lockers /\ \A m \in {l} : Available(t, m)
      BY DEF TypeOK
    <2> QED
      BY <2>1, TakesAndTells
  <1>2. CASE \E l \in Lockers : TryLock(t, l)
    <2> PICK l \in Lockers : TryLock(t, l)
      BY <1>2
    <2>1. {l} \in SUBSET Lockers /\ \A m \in {l} : Available(t, m)
      BY DEF TryLock
    <2> QED
      BY <2>1, TakesAndTells DEF TryLock
  <1>3. CASE WaitForReturns(t)
    <2> PICK ls \in SUBSET target[t] :
          /\ pc[t] \in {"waitAll", "waitAny"} /\ \A l \in ls : Available(t, l)
          /\ Take(t, ls)
          /\ IF Result(ls) = "WAIT_OBJECT_0" THEN Succeed(t, ls) ELSE Fail(t)
      BY <1>3 DEF WaitForReturns
    <2>1. ls \in SUBSET Lockers /\ UNCHANGED <<kind, timed, wait_ret, deaths>>
      BY <1>3 DEF TypeOK, WaitForReturns
    <2>2. CASE ls \cap abandoned = {}
      BY <2>1, <2>2, TakesAndTells DEF Result
    <2>3. CASE ls \cap abandoned # {}
      BY <2>1, <2>3, TakesAndFails DEF Result
    <2> QED
      BY <2>2, <2>3
  <1> QED
    BY <1>1, <1>2, <1>3

-----------------------------------------------------------------------------
\* lock() of a mutex, event or semaphore, step by step.
LEMMA WaitReturnsStep ==
    ASSUME IInv, NEW t \in Threads, WaitReturns(t)
    PROVE  IInv'
  <1> USE DEF IInv
  <1> PICK l \in target[t] : /\ pc[t] = "wait" /\ kind[l] # "critical_section"
                             /\ Available(t, l) /\ Take(t, {l}) /\ Store(t, l, Result({l}))
    BY DEF WaitReturns
  <1>1. l \in Lockers /\ target[t] = {l} /\ UNCHANGED <<kind, timed, target, held, deaths>>
    BY DEF TypeOK, PlaceInv, Store
  <1>2. {l} \in SUBSET Lockers /\ \A m \in {l} : Available(t, m)
    BY <1>1
  <1>3. Result({l}) \in WaitResults /\ (abandoned = {} => Result({l}) = "WAIT_OBJECT_0")
    BY DEF Result
  <1>4. /\ \A u \in Threads \ {t}, m \in Lockers :
             (Uses(u, m)' <=> Uses(u, m)) /\ (Returned(u, m)' <=> Returned(u, m))
        /\ \A m \in Lockers : (Uses(t, m)' <=> m = l) /\ ~Uses(t, m) /\ (Returned(t, m)' <=> m = l)
    BY <1>1 DEF TypeOK, PlaceInv, Uses, Told, Returned, Store
  <1>5. Strict(l) => \A u \in Threads : ~Uses(u, l)
    BY <1>1, TakenIsFree
  <1>6. TypeOK'
    BY <1>1, <1>2, <1>3, TakeEffect DEF TypeOK, Store
  <1>7. PlaceInv'
    BY <1>1 DEF PlaceInv, TypeOK, Store
  <1>8. OwnerInv'
    BY <1>1, <1>2, <1>4, <1>5, TakeEffect DEF OwnerInv, TypeOK, Strict, Owned
  <1>9. PermitInv'
    BY <1>1, <1>2, <1>4, <1>5, TakeEffect DEF PermitInv, TypeOK, Strict, Owned
  <1>10. ResultInv'
    <2> SUFFICES ASSUME deaths' = 0
                 PROVE  /\ abandoned' = {}
                        /\ \A u \in Threads, m \in Lockers : Returned(u, m)' /\ m \notin timed' =>
                              reg'[u] = "WAIT_OBJECT_0" /\ wait_ret'[m] = "WAIT_OBJECT_0"
      BY DEF ResultInv
    <2>1. abandoned = {} /\ abandoned' = {} /\ Result({l}) = "WAIT_OBJECT_0"
      BY <1>1, <1>2, <1>3, TakeEffect DEF ResultInv
    <2>2. /\ reg' = [reg EXCEPT ![t] = "WAIT_OBJECT_0"]
          /\ wait_ret' = [wait_ret EXCEPT ![l] = "WAIT_OBJECT_0"]
      BY <2>1 DEF Store
    <2> QED
      BY <1>1, <1>4, <2>1, <2>2 DEF ResultInv, TypeOK
  <1>11. DepthInv'
    BY <1>1, <1>2, <1>4, <1>5, TakeEffect DEF DepthInv, TypeOK, Strict, Owned
  <1> QED
    BY <1>6, <1>7, <1>8, <1>9, <1>10, <1>11

LEMMA TimesOutStep ==
    ASSUME IInv, NEW t \in Threads, TimesOut(t)
    PROVE  IInv'
  <1> USE DEF IInv
  <1> PICK l \in target[t] : /\ pc[t] = "wait" /\ kind[l] # "critical_section" /\ l \in timed
                             /\ Store(t, l, "WAIT_TIMEOUT") /\ UNCHANGED objects
    BY DEF TimesOut
  <1>1. /\ l \in Lockers /\ target[t] = {l} /\ UNCHANGED <<kind, timed, target, held, deaths>>
        /\ UNCHANGED <<owner, depth, permits, abandoned>>
    BY DEF TypeOK, PlaceInv, Store, objects
  <1>2. \A u \in Threads, m \in Lockers : m # l =>
           (Uses(u, m)' <=> Uses(u, m)) /\ (Returned(u, m)' <=> Returned(u, m))
    BY <1>1 DEF TypeOK, PlaceInv, Uses, Told, Returned, Store
  <1>3. ~Strict(l)
    BY DEF Strict
  <1>4. \A u \in Threads, m \in Lockers : Returned(u, m) /\ m # l => u # t
    BY DEF Returned, PlaceInv
  <1>5. TypeOK'
    BY <1>1 DEF TypeOK, Store
  <1>6. PlaceInv'
    BY <1>1 DEF PlaceInv, TypeOK, Store
  <1>7. OwnerInv' /\ PermitInv'
    BY <1>1, <1>2, <1>3 DEF OwnerInv, PermitInv, Strict, Owned
  <1>8. ResultInv'
    BY <1>1, <1>2, <1>4 DEF ResultInv, TypeOK, Store
  <1>9. DepthInv'
    BY <1>1, <1>2, <1>3 DEF DepthInv, TypeOK, Strict, Owned
  <1> QED
    BY <1>5, <1>6, <1>7, <1>8, <1>9

LEMMA ResetEventStep ==
    ASSUME IInv, NEW t \in Threads, ResetEvent(t)
    PROVE  IInv'
  <1> USE DEF IInv
  <1>1. /\ pc[t] = "reset" /\ pc' = [pc EXCEPT ![t] = "check"]
        /\ permits' = [l \in Lockers |-> IF l \in target[t] THEN 0 ELSE permits[l]]
        /\ UNCHANGED <<kind, timed, owner, depth, abandoned, wait_ret, target, reg, held, deaths>>
    BY DEF ResetEvent
  <1>2. \A u \in Threads, l \in Lockers :
           (Uses(u, l)' <=> Uses(u, l)) /\ (Returned(u, l)' <=> Returned(u, l))
    BY <1>1 DEF TypeOK, Uses, Told, Returned
  <1>3. \A l \in Lockers : permits'[l] <= permits[l] /\ permits'[l] \in Nat
    BY <1>1 DEF TypeOK
  <1>4. TypeOK'
    BY <1>1 DEF TypeOK
  <1>5. PlaceInv'
    BY <1>1 DEF PlaceInv, TypeOK
  <1>6. OwnerInv'
    BY <1>1, <1>2 DEF OwnerInv, Strict, Owned
  <1>7. PermitInv'
    BY <1>1, <1>2, <1>3 DEF PermitInv, Strict, Owned, TypeOK
  <1>8. ResultInv' /\ DepthInv'
    BY <1>1, <1>2 DEF ResultInv, DepthInv, Owned, TypeOK
  <1> QED
    BY <1>4, <1>5, <1>6, <1>7, <1>8

LEMMA CheckStep ==
    ASSUME IInv, NEW t \in Threads, Check(t)
    PROVE  IInv'
  <1> USE DEF IInv
  <1> PICK l \in target[t] : /\ pc[t] = "check"
                             /\ \E result \in {wait_ret[l], reg[t]} :
                                   IF result = "WAIT_OBJECT_0" THEN Succeed(t, {l}) ELSE Fail(t)
                             /\ UNCHANGED <<kind, timed, objects, wait_ret, deaths>>
    BY DEF Check
  <1>1. /\ l \in Lockers /\ target[t] = {l}
        /\ UNCHANGED <<kind, timed, owner, depth, permits, abandoned, wait_ret, deaths>>
    BY DEF TypeOK, PlaceInv, objects
  <1>2. held[t] = {} /\ Uses(t, l) /\ Returned(t, l) /\ \A m \in Lockers : Uses(t, m) => m = l
    BY <1>1 DEF PlaceInv, Uses, Told, Returned
  <1>3. CASE Succeed(t, {l})
    <2>1. /\ \A u \in Threads, m \in Lockers : Uses(u, m)' <=> Uses(u, m)
          /\ \A u \in Threads, m \in Lockers : Returned(u, m)' => Returned(u, m) /\ u # t
      BY <1>1, <1>2, <1>3 DEF TypeOK, Uses, Told, Returned, Succeed
    <2>2. TypeOK'
      BY <1>1, <1>3 DEF TypeOK, Succeed
    <2>3. PlaceInv'
      BY <1>1, <1>3 DEF PlaceInv, TypeOK, Succeed
    <2>4. OwnerInv' /\ PermitInv'
      BY <1>1, <2>1 DEF OwnerInv, PermitInv, Strict, Owned
    <2>5. ResultInv'
      BY <1>1, <1>3, <2>1 DEF ResultInv, TypeOK, Succeed
    <2>6. DepthInv'
      BY <1>1, <2>1 DEF DepthInv, Owned, TypeOK
    <2> QED
      BY <2>2, <2>3, <2>4, <2>5, <2>6
  <1>4. CASE Fail(t) /\ ~(deaths = 0 /\ l \notin timed)
    <2>1. /\ \A u \in Threads, m \in Lockers : Uses(u, m)' => Uses(u, m)
          /\ \A u \in Threads, m \in Lockers : m # l => (Uses(u, m)' <=> Uses(u, m))
          /\ \A u \in Threads, m \in Lockers : Returned(u, m)' => Returned(u, m) /\ u # t
      BY <1>1, <1>2, <1>4 DEF TypeOK, Uses, Told, Returned, Fail
    <2>2. TypeOK'
      BY <1>1, <1>4 DEF TypeOK, Fail
    <2>3. PlaceInv'
      BY <1>1, <1>4 DEF PlaceInv, TypeOK, Fail
    <2>4. OwnerInv' /\ PermitInv'
      BY <1>1, <2>1 DEF OwnerInv, PermitInv, Strict, Owned
    <2>5. ResultInv'
      BY <1>1, <1>4, <2>1 DEF ResultInv, TypeOK, Fail
    <2>6. DepthInv'
      BY <1>1, <1>4, <2>1 DEF DepthInv, Owned, TypeOK
    <2> QED
      BY <2>2, <2>3, <2>4, <2>5, <2>6
  <1>5. deaths = 0 /\ l \notin timed => reg[t] = "WAIT_OBJECT_0" /\ wait_ret[l] = "WAIT_OBJECT_0"
    BY <1>1, <1>2 DEF ResultInv
  <1> QED
    BY <1>3, <1>4, <1>5

-----------------------------------------------------------------------------
LEMMA UnlockStep ==
    ASSUME IInv, NEW t \in Threads, NEW l \in Lockers, Unlock(t, l)
    PROVE  IInv'
  <1> USE DEF IInv
  <1> DEFINE mine == Owned(l) /\ owner[l] = t
  <1>1. /\ pc[t] = "in" /\ l \in held[t] /\ held' = [held EXCEPT ![t] = @ \ {l}]
        /\ pc' = [pc EXCEPT ![t] = IF held'[t] = {} THEN "out" ELSE @]
        /\ UNCHANGED <<kind, timed, abandoned, wait_ret, target, reg, deaths>>
    BY DEF Unlock
  <1>2. /\ owner' \in [Lockers -> Threads \cup {Nobody}] /\ depth' \in [Lockers -> Nat]
        /\ permits' \in [Lockers -> Nat]
        /\ \A m \in Lockers : m # l =>
              owner'[m] = owner[m] /\ depth'[m] = depth[m] /\ permits'[m] = permits[m]
        /\ ~mine => owner' = owner /\ depth' = depth
        /\ mine => /\ owner'[l] = IF depth[l] = 1 THEN Nobody ELSE t
                   /\ depth'[l] = depth[l] - 1 /\ depth[l] > 0
        /\ kind[l] = "event" => permits'[l] = 1
        /\ kind[l] = "semaphore" => permits'[l] = permits[l] + 1
        /\ Owned(l) => permits'[l] = permits[l]
    BY DEF Unlock, TypeOK, OwnerInv, Owned
  <1>3. /\ \A u \in Threads, m \in Lockers : Uses(u, m)' <=> Uses(u, m) /\ ~(u = t /\ m = l)
        /\ \A u \in Threads, m \in Lockers : Returned(u, m)' <=> Returned(u, m)
        /\ Uses(t, l)
    BY <1>1 DEF TypeOK, Uses, Told, Returned
  <1>4. TypeOK'
    <2>1. \A m \in Lockers : kind'[m] = "event" => permits'[m] <= 1
      BY <1>1, <1>2 DEF TypeOK
    <2> QED
      BY <1>1, <1>2, <2>1 DEF TypeOK
  <1>5. PlaceInv'
    BY <1>1 DEF PlaceInv, TypeOK
  <1>6. OwnerInv'
    BY <1>1, <1>2, <1>3 DEF OwnerInv, Strict, Owned, TypeOK
  <1>7. PermitInv'
    BY <1>1, <1>2, <1>3 DEF PermitInv, Strict, Owned, TypeOK
  <1>8. ResultInv'
    BY <1>1, <1>3 DEF ResultInv
  <1>9. DepthInv'
    BY <1>1, <1>2, <1>3 DEF DepthInv, OwnerInv, Strict, Owned, TypeOK
  <1> QED
    BY <1>4, <1>5, <1>6, <1>7, <1>8, <1>9

LEMMA DieStep ==
    ASSUME IInv, NEW t \in Threads, Die(t)
    PROVE  IInv'
  <1> USE DEF IInv
  <1> DEFINE mine == {l \in Lockers : kind[l] = "mutex" /\ owner[l] = t}
  <1>1. /\ pc[t] = "in" /\ pc' = [pc EXCEPT ![t] = "dead"] /\ held' = [held EXCEPT ![t] = {}]
        /\ deaths' = deaths + 1 /\ deaths < MaxDeaths /\ abandoned' = abandoned \cup mine
        /\ owner' = [l \in Lockers |-> IF l \in mine THEN Nobody ELSE owner[l]]
        /\ depth' = [l \in Lockers |-> IF l \in mine THEN 0 ELSE depth[l]]
        /\ UNCHANGED <<kind, timed, permits, wait_ret, target, reg>>
    BY DEF Die
  <1>2. \A u \in Threads, l \in Lockers : Uses(u, l)' <=> Uses(u, l) /\ u # t
    BY <1>1 DEF TypeOK, Uses, Told, Returned
  <1>3. TypeOK' /\ deaths' # 0
    BY <1>1 DEF TypeOK
  <1>4. PlaceInv'
    BY <1>1 DEF PlaceInv, TypeOK
  <1>5. OwnerInv'
    BY <1>1, <1>2 DEF OwnerInv, Strict, Owned, TypeOK
  <1>6. PermitInv'
    BY <1>1, <1>2 DEF PermitInv, Strict, Owned
  <1>7. ResultInv' /\ DepthInv'
    BY <1>3 DEF ResultInv, DepthInv
  <1> QED
    BY <1>3, <1>4, <1>5, <1>6, <1>7

-----------------------------------------------------------------------------
LEMMA Inductive == IInv /\ [Next]_vars => IInv'
  <1> SUFFICES ASSUME IInv, [Next]_vars PROVE IInv'
    OBVIOUS
  <1>1. CASE UNCHANGED vars
    BY <1>1 DEF vars, objects, IInv, TypeOK, PlaceInv, OwnerInv, PermitInv, ResultInv, DepthInv,
                Uses, Told, Returned, Strict, Owned
  <1>2. CASE Next
    <2> PICK t \in Threads :
          \/ \E l \in Lockers : Lock(t, l) \/ TryLock(t, l)
          \/ \E ls \in SUBSET Lockers : WaitFor(t, ls)
          \/ Wait(t) \/ TimesOut(t) \/ WaitForTimesOut(t)
          \/ Continue(t) \/ Die(t)
      BY <1>2 DEF Next
    <2> QED
      BY CallsBegin, ScopesBegin, WaitReturnsStep, TimesOutStep, ResetEventStep, CheckStep,
         UnlockStep, DieStep DEF Wait, Continue
  <1> QED
    BY <1>1, <1>2

LEMMA HoldersAtMostOne ==
    ASSUME IInv, NEW l \in Lockers, Strict(l)
    PROVE  Cardinality(Holders(l)) <= 1
  <1>1. \A t, u \in Holders(l) : t = u
    BY DEF IInv, OwnerInv, PermitInv, Holders, Uses, Told
  <1>2. CASE Holders(l) = {}
    BY <1>2, FS_EmptySet
  <1>3. CASE Holders(l) # {}
    <2> PICK t : t \in Holders(l)
      BY <1>3
    <2>1. Holders(l) = {t}
      BY <1>1
    <2>2. Cardinality({t}) = 1
      BY FS_Singleton
    <2> QED
      BY <2>1, <2>2
  <1> QED
    BY <1>2, <1>3

LEMMA Implies == IInv => MutualExclusion
  <1> SUFFICES ASSUME IInv PROVE MutualExclusion
    OBVIOUS
  <1>1. OneHolder
    BY HoldersAtMostOne DEF OneHolder, Strict
  <1>2. ScopedAsserts
    <2> SUFFICES ASSUME deaths = 0, NEW t \in Threads
                 PROVE  /\ pc[t] = "check" /\ target[t] \cap timed = {} =>
                              reg[t] = "WAIT_OBJECT_0" /\ \A l \in target[t] : wait_ret[l] = "WAIT_OBJECT_0"
                        /\ \A l \in held[t] \ timed : Owned(l) => owner[l] = t /\ depth[l] = 1
      BY DEF ScopedAsserts
    <2>1. ASSUME pc[t] = "check", target[t] \cap timed = {}
          PROVE  reg[t] = "WAIT_OBJECT_0" /\ \A l \in target[t] : wait_ret[l] = "WAIT_OBJECT_0"
      BY <2>1 DEF IInv, TypeOK, PlaceInv, ResultInv, Returned
    <2>2. ASSUME NEW l \in held[t] \ timed, Owned(l)
          PROVE  owner[l] = t /\ depth[l] = 1
      BY <2>2 DEF IInv, TypeOK, OwnerInv, DepthInv, Uses, Told, Strict
    <2> QED
      BY <2>1, <2>2
  <1> QED
    BY <1>1, <1>2 DEF MutualExclusion

\* Every variable keeps its type.
THEOREM TypeCorrect == Spec => []TypeOK
  <1>1. IInv => TypeOK
    BY DEF IInv
  <1> QED
    BY InitEstablishes, Inductive, <1>1, PTL DEF Spec

\* Any number of threads may use any number of lockers of any class: one that is
\* waited for without a time limit lets one thread at a time into a scope, and
\* until a thread is terminated both assertions of scoped_lock_t hold.
THEOREM LockersExclude == Spec => []MutualExclusion
  BY InitEstablishes, Inductive, Implies, PTL DEF Spec

=============================================================================
