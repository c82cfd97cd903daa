------------------------- MODULE SharedObjectProofs -------------------------
(***************************************************************************)
(* Proofs about SharedObject for every set of objects, smart pointers and  *)
(* threads.  CountIsExact and NoUseAfterFree are not inductive: that a     *)
(* count is exact needs the mutex to protect the loaded value, that an     *)
(* object is alive needs every referrer to be known when it is deleted.    *)
(* IInv adds both.                                                         *)
(***************************************************************************)
EXTENDS SharedObject, FiniteSetTheorems, TLAPS

\* The shape of a thread's local state at each place of an operation.
Shape == \A t \in Threads :
    /\ op[t].pc = "idle" => op[t] = Idle
    /\ op[t].pc = "swap" => op[t].mode = "add"
    /\ op[t].pc = "delete" => op[t].mode = "destroy"
    /\ op[t].mode = "destroy" => op[t].pc \in {"unlock", "delete"}
    /\ op[t].mode = "add" => op[t].dst \in Ptrs

\* access_mutex is held by the thread inside addReference or removeReference.
MutexInv == \A t \in Threads, o \in Objects :
    mutex[o] = t <=> op[t].pc \in {"load", "store", "unlock"} /\ op[t].tmp = o

\* The loaded count is still the current one when it is stored.
RegInv == \A t \in Threads : op[t].pc = "store" => op[t].reg = count[op[t].tmp]

\* Whatever a pointer or a temporary points to is alive.
AliveInv == /\ \A t \in Threads : op[t].tmp # Null => life[op[t].tmp] = "alive"
            /\ \A p \in Ptrs : ptr[p] # Null => life[ptr[p]] = "alive"

\* Smart-pointer variables are not assigned under another thread's feet.
ExclusiveUse == \A t, u \in Threads :
    t # u /\ op[t].dst # Null => op[t].dst # op[u].dst /\ op[t].dst # op[u].src

Alone(t) == /\ ~Owning(t)
            /\ \A p \in Ptrs : ptr[p] # op[t].tmp
            /\ \A u \in Threads : u # t => op[u].tmp # op[t].tmp

\* Before addReference has counted it, a temporary is covered by the pointer it
\* is copied from, or points to a new object that only its thread knows.
Adding(t) == op[t].mode = "add" /\ op[t].pc \in {"lock", "load", "store"}
AddInv == \A t \in Threads : Adding(t) =>
    \/ op[t].src \in Ptrs /\ ptr[op[t].src] = op[t].tmp
    \/ Alone(t)

\* A thread about to delete an object is the only one that knows it.
DestroyInv == \A t \in Threads : op[t].mode = "destroy" => Alone(t)

IInv == /\ TypeOK /\ Shape /\ MutexInv /\ RegInv /\ AliveInv /\ ExclusiveUse
        /\ CountIsExact /\ AddInv /\ DestroyInv

-----------------------------------------------------------------------------
USE SharedObjectAssumption

\* Exchanging one element of a finite set for another keeps its size.
LEMMA Exchange ==
    ASSUME NEW S, IsFiniteSet(S), NEW a \in S, NEW b, b \notin S
    PROVE  Cardinality((S \ {a}) \cup {b}) = Cardinality(S)
  <1>1. /\ IsFiniteSet(S \ {a})
        /\ Cardinality(S \ {a}) = Cardinality(S) - 1
    BY FS_RemoveElement
  <1>2. Cardinality((S \ {a}) \cup {b}) = Cardinality(S \ {a}) + 1
    BY <1>1, FS_AddElement
  <1>3. Cardinality(S) \in Nat
    BY FS_CardinalityType
  <1>4. QED
    BY <1>1, <1>2, <1>3

\* The holders of an object form a finite set.
LEMMA HoldersFinite ==
    ASSUME NEW o
    PROVE  IsFiniteSet(Holders(o)) /\ Cardinality(Holders(o)) \in Nat
  <1>1. IsFiniteSet({p \in Ptrs : ptr[p] = o})
    BY FS_Subset
  <1>2. IsFiniteSet({t \in Threads : Owning(t) /\ op[t].tmp = o})
    BY FS_Subset
  <1>3. IsFiniteSet(Holders(o))
    BY <1>1, <1>2, FS_Union DEF Holders
  <1>4. QED
    BY <1>3, FS_CardinalityType

-----------------------------------------------------------------------------
(* Each action preserves the invariant. *)

LEMMA LockStep ==
    ASSUME IInv, NEW t \in Threads, Lock(t)
    PROVE  IInv'
  <1> USE DEF IInv
  <1>1. TypeOK' /\ Shape'
    BY DEF Lock, TypeOK, Shape, Op, Idle, At, Pointee
  <1>2. \A u \in Threads : Owning(u)' <=> Owning(u)
    BY DEF Lock, TypeOK, Op, Owning
  <1>3. MutexInv'
    BY DEF Lock, TypeOK, Op, Pointee, MutexInv
  <1>4. RegInv' /\ AliveInv' /\ ExclusiveUse'
    BY DEF Lock, TypeOK, Op, Pointee, RegInv, AliveInv, ExclusiveUse
  <1>5. CountIsExact'
    <2>1. \A o \in Objects : Holders(o)' = Holders(o)
      BY <1>2 DEF Lock, TypeOK, Op, Holders
    <2>2. QED
      BY <2>1 DEF Lock, CountIsExact
  <1>6. \A u \in Threads : Alone(u) => Alone(u)'
    BY <1>2 DEF Lock, TypeOK, Op, Alone
  <1>7. AddInv' /\ DestroyInv'
    BY <1>6 DEF Lock, TypeOK, Op, AddInv, DestroyInv, Adding
  <1>8. QED
    BY <1>1, <1>3, <1>4, <1>5, <1>7

LEMMA LoadStep ==
    ASSUME IInv, NEW t \in Threads, Load(t)
    PROVE  IInv'
  <1> USE DEF IInv
  <1>1. op[t].tmp \in Objects /\ count[op[t].tmp] \in Int
    BY DEF Load, TypeOK, Op, Pointee
  <1>2. TypeOK' /\ Shape'
    <2>1. [op[t] EXCEPT !.pc = "store", !.reg = count[op[t].tmp]] \in Op
      BY <1>1 DEF TypeOK, Op
    <2>2. op' \in [Threads -> Op]
      BY <2>1 DEF Load, TypeOK, Op
    <2>3. QED
      BY <1>1, <2>2 DEF Load, TypeOK, Shape, Op, Idle, At
  <1>3. \A u \in Threads : Owning(u)' <=> Owning(u)
    BY DEF Load, TypeOK, Op, Owning
  <1>4. MutexInv' /\ RegInv'
    BY DEF Load, TypeOK, Op, MutexInv, RegInv
  <1>5. AliveInv' /\ ExclusiveUse'
    BY DEF Load, TypeOK, Op, AliveInv, ExclusiveUse
  <1>6. CountIsExact'
    <2>1. \A o \in Objects : Holders(o)' = Holders(o)
      BY <1>3 DEF Load, TypeOK, Op, Holders
    <2>2. QED
      BY <2>1 DEF Load, CountIsExact
  <1>7. \A u \in Threads : Alone(u) => Alone(u)'
    BY <1>3 DEF Load, TypeOK, Op, Alone
  <1>8. AddInv' /\ DestroyInv'
    BY <1>7 DEF Load, TypeOK, Op, AddInv, DestroyInv, Adding
  <1>9. QED
    BY <1>2, <1>4, <1>5, <1>6, <1>8

LEMMA UnlockStep ==
    ASSUME IInv, NEW t \in Threads, Unlock(t)
    PROVE  IInv'
  <1> USE DEF IInv
  <1> DEFINE new == CASE op[t].mode = "add" -> [op[t] EXCEPT !.pc = "swap"]
                      [] op[t].mode = "destroy" -> [op[t] EXCEPT !.pc = "delete"]
                      [] op[t].mode = "remove" -> Idle
  <1>1. /\ new \in Op
        /\ op' = [op EXCEPT ![t] = new]
        /\ new.pc \in {"swap", "delete", "idle"}
        /\ new.tmp = op[t].tmp \/ new.tmp = Null
        /\ new.src = op[t].src \/ new.src = Null
        /\ new.dst = op[t].dst \/ new.dst = Null
        /\ new.mode = op[t].mode
    BY DEF Unlock, TypeOK, Op, Idle, At, Pointee
  <1> HIDE DEF new
  <1>2. TypeOK'
    <2>1. op' \in [Threads -> Op]
      BY <1>1 DEF TypeOK
    <2>2. new.pc = "idle" \/ new.tmp # Null
      BY DEF new, Unlock, TypeOK, Op, Idle, At
    <2>3. \A u \in Threads : op'[u].pc \notin {"idle", "swap"} => op'[u].tmp # Null
      BY <1>1, <2>2 DEF TypeOK
    <2>4. mutex' \in [Objects -> Threads \cup {Null}]
      BY DEF Unlock, TypeOK
    <2>5. QED
      BY <2>1, <2>3, <2>4 DEF Unlock, TypeOK
  <1>3. Shape'
    BY <1>1 DEF Unlock, TypeOK, Shape, Op, Idle, At, Pointee, new
  <1>4. \A u \in Threads : Owning(u)' <=> Owning(u)
    BY <1>1 DEF Unlock, TypeOK, Op, Owning, Shape, Idle, At, new
  <1>5. MutexInv'
    BY <1>1 DEF Unlock, TypeOK, Op, Pointee, MutexInv
  <1>6. RegInv' /\ AliveInv' /\ ExclusiveUse'
    BY <1>1 DEF Unlock, TypeOK, Op, RegInv, AliveInv, ExclusiveUse
  <1>7. CountIsExact'
    <2>1. \A o \in Objects, u \in Threads :
             (Owning(u) /\ op[u].tmp = o)' <=> Owning(u) /\ op[u].tmp = o
      BY <1>1, <1>4 DEF Unlock, TypeOK, Op, Pointee, Owning, new
    <2>2. \A o \in Objects : Holders(o)' = Holders(o)
      BY <2>1 DEF Unlock, Holders
    <2>3. QED
      BY <2>2 DEF Unlock, CountIsExact
  <1>8. \A u \in Threads : Alone(u) /\ op[u].tmp # Null /\ op'[u].tmp = op[u].tmp => Alone(u)'
    BY <1>1, <1>4 DEF Unlock, TypeOK, Op, Alone
  <1>9. AddInv'
    BY <1>1, <1>8 DEF Unlock, TypeOK, Op, AddInv, Adding
  <1>10. DestroyInv'
    BY <1>1, <1>8 DEF Unlock, TypeOK, Op, DestroyInv, Shape, new
  <1>11. QED
    BY <1>2, <1>3, <1>5, <1>6, <1>7, <1>9, <1>10

LEMMA DeleteStep ==
    ASSUME IInv, NEW t \in Threads, Delete(t)
    PROVE  IInv'
  <1> USE DEF IInv
  <1>1. /\ op' = [op EXCEPT ![t] = Idle] /\ Idle \in Op
        /\ op[t].tmp \in Objects /\ op[t].mode = "destroy" /\ Alone(t)
    BY DEF Delete, TypeOK, Op, Pointee, Idle, At, Shape, DestroyInv
  <1>2. TypeOK' /\ Shape'
    BY <1>1 DEF Delete, TypeOK, Shape, Idle, At
  <1>3. \A u \in Threads : Owning(u)' <=> Owning(u)
    BY <1>1 DEF TypeOK, Owning, Alone, Idle, At
  <1>4. MutexInv' /\ RegInv' /\ ExclusiveUse'
    BY <1>1 DEF Delete, TypeOK, MutexInv, RegInv, ExclusiveUse, Idle, At
  <1>5. AliveInv'
    BY <1>1 DEF Delete, TypeOK, AliveInv, Alone, Idle, At
  <1>6. CountIsExact'
    <2>1. \A o \in Objects, u \in Threads :
             (Owning(u) /\ op[u].tmp = o)' <=> Owning(u) /\ op[u].tmp = o
      BY <1>1, <1>3 DEF TypeOK, Alone
    <2>2. \A o \in Objects : Holders(o)' = Holders(o)
      BY <2>1 DEF Delete, Holders
    <2>3. QED
      BY <2>2 DEF Delete, CountIsExact
  <1>7. \A u \in Threads : u # t /\ op[u].tmp # Null /\ Alone(u) => Alone(u)'
    BY <1>1, <1>3 DEF Delete, TypeOK, Alone, Idle, At
  <1>8. AddInv' /\ DestroyInv'
    BY <1>1, <1>7 DEF Delete, TypeOK, AddInv, DestroyInv, Adding, Shape, Idle, At
  <1>9. QED
    BY <1>2, <1>4, <1>5, <1>6, <1>8

LEMMA StoreStep ==
    ASSUME IInv, NEW t \in Threads, Store(t)
    PROVE  IInv'
  <1> USE DEF IInv
  <1> DEFINE o == op[t].tmp
             n == Counted(t)
             mode == IF op[t].mode = "remove" /\ n = 0 THEN "destroy" ELSE op[t].mode
             new == [op[t] EXCEPT !.pc = "unlock", !.mode = mode]
  <1>1. /\ o \in Objects /\ op[t].pc = "store"
        /\ op[t].mode \in {"add", "remove"}
        /\ op[t].reg = count[o] /\ count[o] \in Int
        /\ mutex[o] = t
    BY DEF Store, TypeOK, Op, Pointee, Shape, RegInv, MutexInv
  <1>2. n = IF op[t].mode = "add" THEN count[o] + 1 ELSE count[o] - 1
    BY <1>1 DEF Counted
  <1>3. /\ new \in Op /\ op' = [op EXCEPT ![t] = new]
        /\ new.pc = "unlock" /\ new.mode = mode /\ new.tmp = o
        /\ new.dst = op[t].dst /\ new.src = op[t].src
        /\ count' = [count EXCEPT ![o] = n]
    BY <1>1 DEF Store, TypeOK, Op
  <1> HIDE DEF n, new
  <1>4. TypeOK' /\ Shape'
    <2>1. op' \in [Threads -> Op] /\ count' \in [Objects -> Int]
      BY <1>1, <1>2, <1>3 DEF TypeOK
    <2>2. \A u \in Threads : op'[u].pc \notin {"idle", "swap"} => op'[u].tmp # Null
      BY <1>1, <1>3 DEF TypeOK
    <2>3. Shape'
      BY <1>1, <1>3 DEF TypeOK, Shape
    <2>4. QED
      BY <2>1, <2>2, <2>3 DEF Store, TypeOK
  <1>5. MutexInv' /\ AliveInv' /\ ExclusiveUse'
    BY <1>1, <1>3 DEF Store, TypeOK, MutexInv, AliveInv, ExclusiveUse
  <1>6. RegInv'
    BY <1>1, <1>3 DEF TypeOK, RegInv, MutexInv
  <1>7. /\ \A u \in Threads : u # t => (Owning(u)' <=> Owning(u))
        /\ Owning(t)' <=> op[t].mode = "add"
        /\ Owning(t) <=> op[t].mode = "remove"
    BY <1>1, <1>3 DEF TypeOK, Op, Owning
  <1>8. \A q \in Objects : Holders(q)' = CASE q # o -> Holders(q)
                                          [] q = o /\ op[t].mode = "add" -> Holders(q) \cup {t}
                                          [] q = o /\ op[t].mode = "remove" -> Holders(q) \ {t}
    <2> TAKE q \in Objects
    <2>1. CASE q # o
      BY <2>1, <1>1, <1>3, <1>7 DEF TypeOK, Holders, Store
    <2>2. CASE q = o /\ op[t].mode = "add"
      BY <2>2, <1>1, <1>3, <1>7 DEF TypeOK, Holders, Store
    <2>3. CASE q = o /\ op[t].mode = "remove"
      BY <2>3, <1>1, <1>3, <1>7 DEF TypeOK, Holders, Store
    <2>4. QED
      BY <2>1, <2>2, <2>3, <1>1
  <1>9. CountIsExact'
    <2> SUFFICES ASSUME NEW q \in Objects
                 PROVE  count'[q] = Cardinality(Holders(q)')
      BY DEF CountIsExact
    <2>1. count[q] = Cardinality(Holders(q)) /\ IsFiniteSet(Holders(q))
      BY HoldersFinite DEF CountIsExact
    <2>2. CASE q # o
      BY <2>1, <2>2, <1>3, <1>8 DEF TypeOK
    <2>3. CASE q = o /\ op[t].mode = "add"
      <3>1. t \notin Holders(q)
        BY <2>3, <1>7 DEF Holders
      <3>2. Cardinality(Holders(q) \cup {t}) = Cardinality(Holders(q)) + 1
        BY <3>1, <2>1, FS_AddElement
      <3>3. QED
        BY <3>2, <2>1, <2>3, <1>2, <1>3, <1>8 DEF TypeOK
    <2>4. CASE q = o /\ op[t].mode = "remove"
      <3>1. t \in Holders(q)
        BY <2>4, <1>7 DEF Holders
      <3>2. QED
        BY <3>1, <2>1, <2>4, <1>2, <1>3, <1>8, FS_RemoveElement DEF TypeOK
    <2>5. QED
      BY <2>2, <2>3, <2>4, <1>1
  <1>10. \A u \in Threads : u # t /\ Alone(u) => Alone(u)'
    BY <1>3, <1>7 DEF Store, TypeOK, Alone
  <1>11. AddInv'
    BY <1>1, <1>3, <1>10 DEF Store, TypeOK, AddInv, Adding
  <1>12. DestroyInv'
    <2>1. ASSUME new.mode = "destroy"
          PROVE  Alone(t)'
      <3>1. op[t].mode = "remove" /\ count'[o] = 0
        BY <2>1, <1>1, <1>3 DEF TypeOK
      <3>2. IsFiniteSet(Holders(o)) /\ IsFiniteSet(Holders(o) \ {t})
        BY HoldersFinite, FS_RemoveElement
      <3>3. Holders(o) \ {t} = {}
        BY <3>1, <3>2, <1>1, <1>8, <1>9, FS_EmptySet DEF CountIsExact
      <3>4. \A p \in Ptrs : ptr[p] # o
        BY <3>3 DEF Holders
      <3>5. \A u \in Threads : u # t => op[u].tmp # o
        <4> SUFFICES ASSUME NEW u \in Threads, u # t, op[u].tmp = o
                     PROVE  FALSE
          OBVIOUS
        <4>1. ~Owning(u)
          BY <3>3 DEF Holders
        <4>2. op[u].pc \notin {"load", "store", "unlock"}
          BY <1>1 DEF MutexInv
        <4>3. op[u].mode # "destroy"
          BY DEF DestroyInv, Alone
        <4>4. op[u].pc = "lock" /\ op[u].mode = "add"
          BY <4>1, <4>2, <4>3, <1>1 DEF Owning, TypeOK, Op, Shape, Idle, At, Pointee
        <4>5. Adding(u)
          BY <4>4 DEF Adding
        <4>6. QED
          BY <4>5, <3>4, <1>1 DEF AddInv, Alone
      <3>6. ~Owning(t)'
        BY <3>1, <1>7
      <3>7. QED
        BY <3>4, <3>5, <3>6, <1>3 DEF Store, TypeOK, Alone
    <2>2. QED
      BY <2>1, <1>3, <1>10 DEF TypeOK, DestroyInv
  <1>13. QED
    BY <1>4, <1>5, <1>6, <1>9, <1>11, <1>12

LEMMA SwapStep ==
    ASSUME IInv, NEW t \in Threads, Swap(t)
    PROVE  IInv'
  <1> USE DEF IInv
  <1> DEFINE p == op[t].dst
             tmp == op[t].tmp
             old == ptr[p]
             new == IF old = Null THEN Idle ELSE At("lock", "remove", old, Null, Null)
  <1>1. /\ p \in Ptrs /\ tmp \in Pointee /\ old \in Pointee
        /\ op[t].pc = "swap" /\ op[t].mode = "add"
    BY DEF Swap, TypeOK, Op, Shape
  <1>2. /\ new \in Op /\ op' = [op EXCEPT ![t] = new]
        /\ new.tmp = old /\ new.mode = "remove" /\ new.dst = Null /\ new.src = Null
        /\ new.pc = IF old = Null THEN "idle" ELSE "lock"
        /\ new.pc = "idle" => new = Idle
        /\ ptr' = [ptr EXCEPT ![p] = tmp]
    BY <1>1 DEF Swap, Idle, At, Op
  <1> HIDE DEF new
  <1>3. TypeOK' /\ Shape'
    BY <1>1, <1>2 DEF Swap, TypeOK, Shape, Pointee
  <1>4. MutexInv' /\ RegInv' /\ ExclusiveUse'
    BY <1>1, <1>2 DEF Swap, TypeOK, MutexInv, RegInv, ExclusiveUse
  <1>5. AliveInv'
    BY <1>1, <1>2 DEF Swap, TypeOK, AliveInv, Pointee
  <1>6. /\ \A u \in Threads : u # t => (Owning(u)' <=> Owning(u))
        /\ Owning(t)' <=> old # Null
        /\ Owning(t) <=> tmp # Null
    BY <1>1, <1>2 DEF TypeOK, Owning
  <1>7. CountIsExact'
    <2> SUFFICES ASSUME NEW o \in Objects
                 PROVE  Cardinality(Holders(o)') = Cardinality(Holders(o))
      BY DEF Swap, CountIsExact
    <2>1. IsFiniteSet(Holders(o))
      BY HoldersFinite
    <2>2. CASE o = tmp /\ o # old
      <3>1. Holders(o)' = (Holders(o) \ {t}) \cup {p}
        BY <2>2, <1>1, <1>2, <1>6 DEF TypeOK, Holders
      <3>2. t \in Holders(o) /\ p \notin Holders(o)
        BY <2>2, <1>1, <1>6 DEF Holders
      <3>3. QED
        BY <3>1, <3>2, <2>1, Exchange
    <2>3. CASE o = old /\ o # tmp
      <3>1. Holders(o)' = (Holders(o) \ {p}) \cup {t}
        BY <2>3, <1>1, <1>2, <1>6 DEF TypeOK, Holders
      <3>2. p \in Holders(o) /\ t \notin Holders(o)
        BY <2>3, <1>1, <1>6 DEF Holders
      <3>3. QED
        BY <3>1, <3>2, <2>1, Exchange
    <2>4. CASE o = old <=> o = tmp
      <3>1. Holders(o)' = Holders(o)
        BY <2>4, <1>1, <1>2, <1>6 DEF TypeOK, Holders
      <3>2. QED
        BY <3>1
    <2>5. QED
      BY <2>2, <2>3, <2>4
  <1>8. \A u \in Threads : u # t /\ op[u].tmp # Null /\ Alone(u) => Alone(u)'
    BY <1>1, <1>2, <1>6 DEF TypeOK, Alone
  <1>9. AddInv'
    BY <1>1, <1>2, <1>8 DEF TypeOK, AddInv, Adding, ExclusiveUse
  <1>10. DestroyInv'
    BY <1>1, <1>2, <1>8 DEF TypeOK, DestroyInv, Shape
  <1>11. QED
    BY <1>3, <1>4, <1>5, <1>7, <1>9, <1>10

LEMMA DestructStep ==
    ASSUME IInv, NEW t \in Threads, NEW p \in Ptrs, Destruct(t, p)
    PROVE  IInv'
  <1> USE DEF IInv
  <1> DEFINE old == ptr[p]
             new == At("lock", "remove", old, Null, Null)
  <1>1. /\ old \in Objects
        /\ op[t].pc = "idle" /\ op[t].tmp = Null /\ op[t].mode = "remove"
        /\ \A u \in Threads : op[u].src # p
    BY DEF Destruct, TypeOK, Pointee, Shape, Idle, At, Writable
  <1>2. /\ new \in Op /\ op' = [op EXCEPT ![t] = new]
        /\ new.tmp = old /\ new.mode = "remove" /\ new.dst = Null /\ new.src = Null
        /\ new.pc = "lock"
        /\ ptr' = [ptr EXCEPT ![p] = Null]
    BY <1>1 DEF Destruct, Idle, At, Op, Pointee
  <1> HIDE DEF new
  <1>3. TypeOK' /\ Shape'
    BY <1>1, <1>2 DEF Destruct, TypeOK, Shape, Pointee
  <1>4. MutexInv' /\ RegInv' /\ ExclusiveUse'
    BY <1>1, <1>2 DEF Destruct, TypeOK, MutexInv, RegInv, ExclusiveUse
  <1>5. AliveInv'
    BY <1>1, <1>2 DEF Destruct, TypeOK, AliveInv, Pointee
  <1>6. /\ \A u \in Threads : u # t => (Owning(u)' <=> Owning(u))
        /\ Owning(t)' /\ ~Owning(t)
    BY <1>1, <1>2 DEF TypeOK, Owning
  <1>7. CountIsExact'
    <2> SUFFICES ASSUME NEW o \in Objects
                 PROVE  Cardinality(Holders(o)') = Cardinality(Holders(o))
      BY DEF Destruct, CountIsExact
    <2>1. IsFiniteSet(Holders(o))
      BY HoldersFinite
    <2>2. CASE o = old
      <3>1. Holders(o)' = (Holders(o) \ {p}) \cup {t}
        BY <2>2, <1>1, <1>2, <1>6 DEF TypeOK, Holders
      <3>2. p \in Holders(o) /\ t \notin Holders(o)
        BY <2>2, <1>1, <1>6 DEF Holders
      <3>3. QED
        BY <3>1, <3>2, <2>1, Exchange
    <2>3. CASE o # old
      <3>1. Holders(o)' = Holders(o)
        BY <2>3, <1>1, <1>2, <1>6 DEF TypeOK, Holders
      <3>2. QED
        BY <3>1
    <2>4. QED
      BY <2>2, <2>3
  <1>8. \A u \in Threads : u # t /\ op[u].tmp # Null /\ Alone(u) => Alone(u)'
    BY <1>1, <1>2, <1>6 DEF TypeOK, Alone
  <1>9. AddInv'
    BY <1>1, <1>2, <1>8 DEF TypeOK, AddInv, Adding
  <1>10. DestroyInv'
    BY <1>1, <1>2, <1>8 DEF TypeOK, DestroyInv, Shape
  <1>11. QED
    BY <1>3, <1>4, <1>5, <1>7, <1>9, <1>10

LEMMA CopyStep ==
    ASSUME IInv, NEW t \in Threads, NEW p \in Ptrs, NEW q \in Ptrs, Copy(t, p, q)
    PROVE  IInv'
  <1> USE DEF IInv
  <1> DEFINE o == ptr[q]
             new == At(IF o = Null THEN "swap" ELSE "lock", "add", o, p, q)
  <1>1. /\ o \in Pointee
        /\ op[t].pc = "idle" /\ op[t].tmp = Null /\ op[t].mode = "remove"
        /\ \A u \in Threads : op[u].dst # p /\ op[u].src # p /\ op[u].dst # q
    BY DEF Copy, TypeOK, Shape, Idle, At, Writable, Readable
  <1>2. /\ new \in Op /\ op' = [op EXCEPT ![t] = new]
        /\ new.tmp = o /\ new.mode = "add" /\ new.dst = p /\ new.src = q
        /\ new.pc = IF o = Null THEN "swap" ELSE "lock"
        /\ UNCHANGED <<ptr, count, mutex, life>>
    BY <1>1 DEF Copy, Assign, Idle, At, Op
  <1> HIDE DEF new
  <1>3. TypeOK' /\ Shape'
    BY <1>1, <1>2 DEF TypeOK, Shape
  <1>4. MutexInv' /\ RegInv' /\ ExclusiveUse'
    BY <1>1, <1>2 DEF TypeOK, MutexInv, RegInv, ExclusiveUse
  <1>5. AliveInv'
    BY <1>1, <1>2 DEF TypeOK, AliveInv
  <1>6. \A u \in Threads : Owning(u)' <=> Owning(u)
    BY <1>1, <1>2 DEF TypeOK, Owning
  <1>7. CountIsExact'
    <2>1. \A x \in Objects : Holders(x)' = Holders(x)
      BY <1>1, <1>2, <1>6 DEF TypeOK, Holders, Owning
    <2>2. QED
      BY <2>1, <1>2 DEF CountIsExact
  <1>8. \A u \in Threads : u # t /\ op[u].tmp # Null /\ Alone(u) => Alone(u)'
    BY <1>1, <1>2, <1>6 DEF TypeOK, Alone
  <1>9. AddInv' /\ DestroyInv'
    BY <1>1, <1>2, <1>8 DEF TypeOK, AddInv, Adding, DestroyInv, Shape
  <1>10. QED
    BY <1>3, <1>4, <1>5, <1>7, <1>9

LEMMA ConstructStep ==
    ASSUME IInv, NEW t \in Threads, NEW p \in Ptrs, NEW o \in Objects, Construct(t, p, o)
    PROVE  IInv'
  <1> USE DEF IInv
  <1> DEFINE new == At(IF o = Null THEN "swap" ELSE "lock", "add", o, p, Null)
  <1>1. /\ o # Null /\ life[o] = "unborn" /\ life' = [life EXCEPT ![o] = "alive"]
        /\ op[t].pc = "idle" /\ op[t].tmp = Null /\ op[t].mode = "remove"
        /\ \A u \in Threads : op[u].dst # p /\ op[u].src # p
        /\ \A u \in Threads : op[u].tmp # o
        /\ \A x \in Ptrs : ptr[x] # o
    BY DEF Construct, Shape, Idle, At, Writable, AliveInv
  <1>2. /\ new \in Op /\ op' = [op EXCEPT ![t] = new]
        /\ new.tmp = o /\ new.mode = "add" /\ new.dst = p /\ new.src = Null
        /\ new.pc = "lock"
        /\ UNCHANGED <<ptr, count, mutex>>
    BY <1>1 DEF Construct, Assign, Idle, At, Op, Pointee
  <1> HIDE DEF new
  <1>3. TypeOK' /\ Shape'
    BY <1>1, <1>2 DEF TypeOK, Shape
  <1>4. MutexInv' /\ RegInv' /\ ExclusiveUse'
    BY <1>1, <1>2 DEF TypeOK, MutexInv, RegInv, ExclusiveUse
  <1>5. AliveInv'
    BY <1>1, <1>2 DEF TypeOK, AliveInv
  <1>6. \A u \in Threads : Owning(u)' <=> Owning(u)
    BY <1>1, <1>2 DEF TypeOK, Owning
  <1>7. CountIsExact'
    <2>1. \A x \in Objects : Holders(x)' = Holders(x)
      BY <1>1, <1>2, <1>6 DEF TypeOK, Holders, Owning
    <2>2. QED
      BY <2>1, <1>2 DEF CountIsExact
  <1>8. /\ \A u \in Threads : u # t /\ Alone(u) => Alone(u)'
        /\ Alone(t)'
    BY <1>1, <1>2, <1>6 DEF TypeOK, Alone, Owning
  <1>9. AddInv' /\ DestroyInv'
    BY <1>1, <1>2, <1>8 DEF TypeOK, AddInv, Adding, DestroyInv
  <1>10. QED
    BY <1>3, <1>4, <1>5, <1>7, <1>9

-----------------------------------------------------------------------------
(* The theorems. *)

LEMMA InitInv == Init => IInv
  <1> SUFFICES ASSUME Init PROVE IInv
    OBVIOUS
  <1>1. Idle \in Op
    BY DEF Idle, At, Op, Pointee
  <1>2. \A o \in Objects : Holders(o) = {}
    BY DEF Init, Holders, Owning, Idle, At
  <1>3. TypeOK /\ Shape /\ MutexInv /\ RegInv /\ AliveInv /\ ExclusiveUse
    BY <1>1 DEF Init, TypeOK, Shape, MutexInv, RegInv, AliveInv, ExclusiveUse, Pointee, Idle, At
  <1>4. CountIsExact
    BY <1>2, FS_EmptySet DEF Init, CountIsExact
  <1>5. AddInv /\ DestroyInv
    BY DEF Init, AddInv, Adding, DestroyInv, Idle, At
  <1>6. QED
    BY <1>3, <1>4, <1>5 DEF IInv

LEMMA StutterInv == IInv /\ UNCHANGED vars => IInv'
  BY DEF vars, IInv, TypeOK, Shape, MutexInv, RegInv, AliveInv, ExclusiveUse, CountIsExact,
         AddInv, DestroyInv, Adding, Alone, Owning, Holders

LEMMA NextInv == IInv /\ [Next]_vars => IInv'
  <1> SUFFICES ASSUME IInv, [Next]_vars PROVE IInv'
    OBVIOUS
  <1>1. ASSUME NEW t \in Threads, Begin(t) PROVE IInv'
    BY <1>1, CopyStep, ConstructStep, DestructStep DEF Begin
  <1>2. ASSUME NEW t \in Threads, Continue(t) PROVE IInv'
    BY <1>2, SwapStep, LockStep, LoadStep, StoreStep, UnlockStep, DeleteStep DEF Continue
  <1>3. CASE UNCHANGED vars
    BY <1>3, StutterInv
  <1>4. QED
    BY <1>1, <1>2, <1>3 DEF Next

LEMMA Invariance == Spec => []IInv
  BY InitInv, NextInv, PTL DEF Spec

\* Type correctness: in particular addReference and removeReference never run on
\* a null pointer.
THEOREM TypeCorrect == Spec => []TypeOK
  <1>1. IInv => TypeOK
    BY DEF IInv
  <1>2. QED
    BY <1>1, Invariance, PTL

\* However many threads copy, assign and destroy smart pointers, an object's
\* count is the number of smart pointers that own a reference to it.
THEOREM CountsAreExact == Spec => []CountIsExact
  <1>1. IInv => CountIsExact
    BY DEF IInv
  <1>2. QED
    BY <1>1, Invariance, PTL

\* No thread touches a freed object and no smart pointer dangles.
THEOREM MemorySafe == Spec => []NoUseAfterFree
  <1>1. IInv => NoUseAfterFree
    BY DEF IInv, AliveInv, TypeOK, NoUseAfterFree
  <1>2. QED
    BY <1>1, Invariance, PTL

\* The asserts of pointer.cxx never fail.
THEOREM AssertsHold == Spec => []Asserts
  <1>1. IInv => Asserts
    <2> SUFFICES ASSUME IInv, NEW t \in Threads
                 PROVE  /\ op[t].pc = "load" => count[op[t].tmp] >= IF op[t].mode = "add" THEN 0 ELSE 1
                        /\ op[t].pc = "delete" => count[op[t].tmp] = 0
      BY DEF Asserts
    <2> DEFINE o == op[t].tmp
    <2>1. op[t].pc \in {"load", "delete"} =>
             o \in Objects /\ count[o] = Cardinality(Holders(o))
      BY DEF IInv, TypeOK, Op, Pointee, CountIsExact
    <2>2. IsFiniteSet(Holders(o)) /\ Cardinality(Holders(o)) \in Nat
      BY HoldersFinite
    <2>3. Cardinality(Holders(o)) = 0 <=> Holders(o) = {}
      BY <2>2, FS_EmptySet
    <2>4. ASSUME op[t].pc = "load", op[t].mode # "add" PROVE Holders(o) # {}
      <3>1. op[t].tmp # Null
        BY <2>4 DEF IInv, TypeOK
      <3>2. t \in Holders(o)
        BY <2>4, <3>1 DEF Holders, Owning
      <3>3. QED
        BY <3>2
    <2>5. ASSUME op[t].pc = "delete" PROVE Holders(o) = {}
      BY <2>5 DEF IInv, Shape, DestroyInv, Alone, Holders
    <2>6. QED
      BY <2>1, <2>2, <2>3, <2>4, <2>5
  <1>2. QED
    BY <1>1, Invariance, PTL

-----------------------------------------------------------------------------
(* Smart pointers implement shared ownership.  Since the counts are exact,  *)
(* the abstract number of references is the count itself.                   *)

LEMMA RefsAreCounts ==
    ASSUME IInv, IInv'
    PROVE  Refs = count /\ Refs' = count'
  <1>1. Refs = count
    BY DEF IInv, TypeOK, CountIsExact, Refs
  <1>2. Refs' = count'
    BY DEF IInv, TypeOK, CountIsExact, Refs
  <1>3. QED
    BY <1>1, <1>2

LEMMA InitRefines == Init => Lifetime!Init
  <1> SUFFICES ASSUME Init PROVE Lifetime!Init
    OBVIOUS
  <1>1. Refs = count
    BY InitInv DEF IInv, TypeOK, CountIsExact, Refs
  <1>2. Stage = [o \in Objects |-> "unborn"]
    BY DEF Init, Stage
  <1>3. QED
    BY <1>1, <1>2 DEF Init, Lifetime!Init

\* Threads that start, end or continue an operation without storing a count,
\* creating or deleting, leave the abstract state alone.
LEMMA Quiet ==
    ASSUME IInv, IInv', UNCHANGED <<count, life>>, \A o \in Objects : Doomed(o)' <=> Doomed(o)
    PROVE  UNCHANGED Lifetime!vars
  <1>1. Stage' = Stage
    BY DEF Stage
  <1>2. QED
    BY <1>1, RefsAreCounts DEF Lifetime!vars

LEMMA ConstructRefines ==
    ASSUME IInv, IInv', NEW t \in Threads, NEW p \in Ptrs, NEW o \in Objects, Construct(t, p, o)
    PROVE  Lifetime!Create(o)
  <1>1. life[o] = "unborn" /\ life' = [life EXCEPT ![o] = "alive"] /\ count' = count
    BY DEF Construct
  <1>2. Stage[o] = "unborn"
    BY <1>1 DEF Stage
  <1>3. \A u \in Threads : op[u].tmp # o
    BY <1>1 DEF IInv, TypeOK, AliveInv
  <1>4. \A x \in Objects : Doomed(x)' <=> Doomed(x)
    BY <1>3 DEF Construct, Assign, At, IInv, TypeOK, Op, Shape, Idle, Doomed
  <1>5. ~Doomed(o)
    BY <1>3 DEF Doomed
  <1>6. Stage' = [Stage EXCEPT ![o] = "born"]
    BY <1>1, <1>4, <1>5 DEF Stage, IInv, TypeOK
  <1>7. QED
    BY <1>1, <1>2, <1>6, RefsAreCounts DEF Lifetime!Create

LEMMA StoreRefines ==
    ASSUME IInv, IInv', NEW t \in Threads, Store(t)
    PROVE  Lifetime!Acquire(op[t].tmp) \/ Lifetime!Release(op[t].tmp)
  <1>0. PICK o \in Objects : o = op[t].tmp
    BY DEF Store, IInv, TypeOK, Op, Pointee
  <1>1. /\ op[t].pc = "store" /\ op[t].tmp = o /\ op[t].mode \in {"add", "remove"}
        /\ op[t].reg = count[o] /\ count[o] \in Int /\ life[o] = "alive"
    BY <1>0 DEF Store, IInv, TypeOK, Shape, RegInv, AliveInv, Op
  <1>2. ~Doomed(o)
    BY <1>1 DEF IInv, DestroyInv, Alone, Doomed
  <1>3. Stage[o] = "born"
    BY <1>1, <1>2 DEF Stage
  <1>4. \A x \in Objects : x # o => (Doomed(x)' <=> Doomed(x))
    BY <1>1 DEF Store, IInv, TypeOK, Op, Doomed
  <1>5. CASE op[t].mode = "add"
    <2>1. count' = [count EXCEPT ![o] = @ + 1]
      BY <1>1, <1>5 DEF Store, Counted, IInv, TypeOK
    <2>2. ~Doomed(o)'
      BY <1>1, <1>2, <1>5 DEF Store, IInv, TypeOK, Op, Doomed
    <2>3. Stage' = Stage
      BY <1>1, <1>2, <1>4, <2>2 DEF Store, Stage
    <2>4. QED
      BY <1>1, <1>3, <2>1, <2>3, RefsAreCounts DEF Lifetime!Acquire
  <1>6. CASE op[t].mode = "remove"
    <2>1. count' = [count EXCEPT ![o] = @ - 1]
      BY <1>1, <1>6 DEF Store, Counted, IInv, TypeOK
    <2>2. Doomed(o)' <=> count[o] = 1
      BY <1>1, <1>2, <1>6 DEF Store, Counted, IInv, TypeOK, Op, Doomed
    <2>3. Stage' = [Stage EXCEPT ![o] = IF count[o] = 1 THEN "doomed" ELSE @]
      BY <1>1, <1>2, <1>4, <2>2 DEF Store, Stage
    <2>4. count[o] > 0
      <3>1. t \in Holders(o)
        BY <1>1, <1>6 DEF Holders, Owning, IInv, TypeOK
      <3>2. IsFiniteSet(Holders(o)) /\ Cardinality(Holders(o)) \in Nat
        BY HoldersFinite
      <3>3. Cardinality(Holders(o)) # 0
        BY <3>1, <3>2, FS_EmptySet
      <3>4. QED
        BY <1>1, <3>2, <3>3 DEF IInv, CountIsExact
    <2>5. QED
      BY <1>1, <1>3, <2>1, <2>3, <2>4, RefsAreCounts DEF Lifetime!Release
  <1>7. QED
    BY <1>1, <1>5, <1>6

LEMMA DeleteRefines ==
    ASSUME IInv, IInv', NEW t \in Threads, Delete(t)
    PROVE  Lifetime!Destroy(op[t].tmp)
  <1> DEFINE o == op[t].tmp
  <1>1. /\ op[t].mode = "destroy" /\ o \in Objects /\ life[o] = "alive"
        /\ life' = [life EXCEPT ![o] = "freed"] /\ count' = count
    BY DEF Delete, IInv, TypeOK, Shape, AliveInv, Op, Pointee
  <1>2. Stage[o] = "doomed"
    BY <1>1 DEF Stage, Doomed
  <1>3. \A x \in Objects : x # o => (Doomed(x)' <=> Doomed(x))
    BY <1>1 DEF Delete, Idle, At, IInv, TypeOK, Op, Doomed
  <1>4. Stage' = [Stage EXCEPT ![o] = "dead"]
    BY <1>1, <1>3 DEF Stage, IInv, TypeOK
  <1>5. QED
    BY <1>1, <1>2, <1>4, RefsAreCounts DEF Lifetime!Destroy

LEMMA BeginRefines ==
    ASSUME IInv, IInv', NEW t \in Threads, Begin(t)
    PROVE  [Lifetime!Next]_Lifetime!vars
  <1>1. CASE \E p, q \in Ptrs : Copy(t, p, q)
    <2>1. \A o \in Objects : Doomed(o)' <=> Doomed(o)
      BY <1>1 DEF Copy, Assign, At, Idle, IInv, TypeOK, Shape, Op, Doomed
    <2>2. QED
      BY <1>1, <2>1, Quiet DEF Copy
  <1>2. CASE \E p \in Ptrs, o \in Objects : Construct(t, p, o)
    BY <1>2, ConstructRefines DEF Lifetime!Next
  <1>3. CASE \E p \in Ptrs : Destruct(t, p)
    <2>1. \A o \in Objects : Doomed(o)' <=> Doomed(o)
      BY <1>3 DEF Destruct, At, Idle, IInv, TypeOK, Shape, Op, Doomed
    <2>2. QED
      BY <1>3, <2>1, Quiet DEF Destruct
  <1>4. QED
    BY <1>1, <1>2, <1>3 DEF Begin

LEMMA ContinueRefines ==
    ASSUME IInv, IInv', NEW t \in Threads, Continue(t)
    PROVE  [Lifetime!Next]_Lifetime!vars
  <1>1. CASE Swap(t)
    <2>1. \A o \in Objects : Doomed(o)' <=> Doomed(o)
      BY <1>1 DEF Swap, At, Idle, IInv, TypeOK, Shape, Op, Doomed
    <2>2. QED
      BY <1>1, <2>1, Quiet DEF Swap
  <1>2. CASE Lock(t) \/ Load(t)
    <2>1. \A o \in Objects : Doomed(o)' <=> Doomed(o)
      BY <1>2 DEF Lock, Load, IInv, TypeOK, Op, Doomed
    <2>2. QED
      BY <1>2, <2>1, Quiet DEF Lock, Load
  <1>3. CASE Unlock(t)
    <2>1. \A u \in Threads : op'[u].mode = "destroy" <=> op[u].mode = "destroy"
      BY <1>3 DEF Unlock, Idle, At, IInv, TypeOK, Op
    <2>2. \A u \in Threads : op[u].mode = "destroy" => op'[u].tmp = op[u].tmp
      BY <1>3 DEF Unlock, Idle, At, IInv, TypeOK, Op
    <2>3. \A o \in Objects : Doomed(o)' <=> Doomed(o)
      BY <2>1, <2>2 DEF Doomed
    <2>4. QED
      BY <1>3, <2>3, Quiet DEF Unlock
  <1>4. CASE Store(t)
    <2>1. op[t].tmp \in Objects
      BY <1>4 DEF Store, IInv, TypeOK, Op, Pointee
    <2>2. QED
      BY <1>4, <2>1, StoreRefines DEF Lifetime!Next
  <1>5. CASE Delete(t)
    <2>1. op[t].tmp \in Objects
      BY <1>5 DEF Delete, IInv, TypeOK, Op, Pointee
    <2>2. QED
      BY <1>5, <2>1, DeleteRefines DEF Lifetime!Next
  <1>6. QED
    BY <1>1, <1>2, <1>3, <1>4, <1>5 DEF Continue

\* Every step of the smart pointers is a step of shared ownership: nobody takes
\* a reference to an object after its last reference was released, and each
\* object is destroyed at most once and by the thread that released it last.
THEOREM SmartPointersShare == Spec => Lifetime!Safety
  <1>1. ASSUME IInv, IInv', [Next]_vars PROVE [Lifetime!Next]_Lifetime!vars
    <2>1. CASE UNCHANGED vars
      BY <1>1, <2>1, Quiet DEF vars, Doomed
    <2>2. CASE Next
      BY <1>1, <2>2, BeginRefines, ContinueRefines DEF Next
    <2>3. QED
      BY <1>1, <2>1, <2>2
  <1>2. Spec => []IInv /\ [][Next]_vars /\ Lifetime!Init
    BY Invariance, InitRefines DEF Spec
  <1>3. QED
    BY <1>1, <1>2, PTL DEF Lifetime!Safety

=============================================================================
