---------------------------- MODULE SharedObject ----------------------------
(***************************************************************************)
(* log4cplus::helpers::SharedObject and SharedObjectPtr: objects with a    *)
(* reference count guarded by a mutex of their own, and the smart pointers *)
(* that keep the count.  ++count and --count are a load and a store, so    *)
(* that the mutex matters; "delete this" happens after the unlock, as in   *)
(* the code.                                                               *)
(*                                                                         *)
(* The smart pointers are used as a C++ variable must be: while a thread   *)
(* assigns one, no other thread uses that variable.  Nothing else is       *)
(* synchronised by the users.                                              *)
(***************************************************************************)
EXTENDS Integers, FiniteSets

CONSTANTS Objects,   \* the SharedObjects that may be allocated
          Ptrs,      \* the SharedObjectPtr variables
          Threads,   \* the threads that use them
          Null       \* a null pointer, and "no thread" as a mutex owner

ASSUME SharedObjectAssumption ==
    /\ IsFiniteSet(Ptrs) /\ IsFiniteSet(Threads)
    /\ Ptrs \cap Threads = {}
    /\ Null \notin Objects \cup Ptrs \cup Threads

VARIABLES ptr,     \* ptr[p]: the pointee of smart pointer p
          count,   \* count[o]: SharedObject::count
          mutex,   \* mutex[o]: the owner of access_mutex
          life,    \* life[o]: "unborn", "alive" or "freed"
          op       \* op[t]: where t is in the smart-pointer operation it executes

vars == <<ptr, count, mutex, life, op>>

Pointee == Objects \cup {Null}

(***************************************************************************)
(* tmp is the unnamed SharedObjectPtr of operator=: the new pointee up to  *)
(* the swap, the old one after it.  mode tells addReference ("add") from   *)
(* removeReference, whose local destroy is false ("remove") or true        *)
(* ("destroy").  reg is the loaded count, dst and src are the smart        *)
(* pointers in use.                                                        *)
(***************************************************************************)
Op == [pc : {"idle", "lock", "load", "store", "unlock", "swap", "delete"},
       mode : {"add", "remove", "destroy"}, tmp : Pointee,
       dst : Ptrs \cup {Null}, src : Ptrs \cup {Null}, reg : Int]

At(pc, mode, tmp, dst, src) ==
    [pc |-> pc, mode |-> mode, tmp |-> tmp, dst |-> dst, src |-> src, reg |-> 0]

Idle == At("idle", "remove", Null, Null, Null)

TypeOK == /\ ptr \in [Ptrs -> Pointee]
          /\ count \in [Objects -> Int]
          /\ mutex \in [Objects -> Threads \cup {Null}]
          /\ life \in [Objects -> {"unborn", "alive", "freed"}]
          /\ op \in [Threads -> Op]
          /\ \A t \in Threads : op[t].pc \notin {"idle", "swap"} => op[t].tmp # Null

Init == /\ ptr = [p \in Ptrs |-> Null]
        /\ count = [o \in Objects |-> 0]
        /\ mutex = [o \in Objects |-> Null]
        /\ life = [o \in Objects |-> "unborn"]
        /\ op = [t \in Threads |-> Idle]

-----------------------------------------------------------------------------
(* The operations of SharedObjectPtr. *)

Writable(p) == \A u \in Threads : op[u].dst # p /\ op[u].src # p
Readable(p) == \A u \in Threads : op[u].dst # p

\* operator= and the copy constructor: a temporary is made of the pointee (and
\* refers to it, if it is not null), then swapped with the left-hand side.
Assign(t, p, o, q) ==
    op' = [op EXCEPT ![t] = At(IF o = Null THEN "swap" ELSE "lock", "add", o, p, q)]

CopyNoAddref(t, p, q) ==   \* a slip: the copy does not call addref()
    /\ op[t].pc = "idle" /\ Writable(p) /\ Readable(q)
    /\ op' = [op EXCEPT ![t] = At("swap", "add", ptr[q], p, q)]
    /\ UNCHANGED <<ptr, count, mutex, life>>

\* p = q, or p copy-constructed from q.
Copy(t, p, q) ==
    /\ op[t].pc = "idle" /\ Writable(p) /\ Readable(q)
    /\ Assign(t, p, ptr[q], q)
    /\ UNCHANGED <<ptr, count, mutex, life>>

\* p = new T, or p constructed from new T: the object starts with count 0.
Construct(t, p, o) ==
    /\ op[t].pc = "idle" /\ Writable(p)
    /\ life[o] = "unborn"
    /\ life' = [life EXCEPT ![o] = "alive"]
    /\ Assign(t, p, o, Null)
    /\ UNCHANGED <<ptr, count, mutex>>

\* ~SharedObjectPtr (p leaves scope; Null stands for a variable out of scope).
Destruct(t, p) ==
    /\ op[t].pc = "idle" /\ Writable(p)
    /\ ptr[p] # Null
    /\ ptr' = [ptr EXCEPT ![p] = Null]
    /\ op' = [op EXCEPT ![t] = At("lock", "remove", ptr[p], Null, Null)]
    /\ UNCHANGED <<count, mutex, life>>

\* swap (*this), after which the temporary is destroyed.
Swap(t) ==
    LET old == ptr[op[t].dst] IN
    /\ op[t].pc = "swap"
    /\ ptr' = [ptr EXCEPT ![op[t].dst] = op[t].tmp]
    /\ op' = [op EXCEPT ![t] = IF old = Null THEN Idle
                               ELSE At("lock", "remove", old, Null, Null)]
    /\ UNCHANGED <<count, mutex, life>>

-----------------------------------------------------------------------------
(* addReference and removeReference on op[t].tmp. *)

LockNoWait(t) ==   \* a slip: the mutex is not waited for
    /\ op[t].pc = "lock"
    /\ mutex' = [mutex EXCEPT ![op[t].tmp] = t]
    /\ op' = [op EXCEPT ![t].pc = "load"]
    /\ UNCHANGED <<ptr, count, life>>

Lock(t) ==
    /\ op[t].pc = "lock"
    /\ mutex[op[t].tmp] = Null
    /\ mutex' = [mutex EXCEPT ![op[t].tmp] = t]
    /\ op' = [op EXCEPT ![t].pc = "load"]
    /\ UNCHANGED <<ptr, count, life>>

Load(t) ==
    /\ op[t].pc = "load"
    /\ op' = [op EXCEPT ![t].pc = "store", ![t].reg = count[op[t].tmp]]
    /\ UNCHANGED <<ptr, count, mutex, life>>

Counted(t) == IF op[t].mode = "add" THEN op[t].reg + 1 ELSE op[t].reg - 1

StoreEarly(t) ==   \* a slip: the object is destroyed one reference too early
    /\ op[t].pc = "store"
    /\ count' = [count EXCEPT ![op[t].tmp] = Counted(t)]
    /\ op' = [op EXCEPT ![t].pc = "unlock",
                        ![t].mode = IF @ = "remove" /\ Counted(t) <= 1 THEN "destroy" ELSE @]
    /\ UNCHANGED <<ptr, mutex, life>>

Store(t) ==
    /\ op[t].pc = "store"
    /\ count' = [count EXCEPT ![op[t].tmp] = Counted(t)]
    /\ op' = [op EXCEPT ![t].pc = "unlock",
                        ![t].mode = IF @ = "remove" /\ Counted(t) = 0 THEN "destroy" ELSE @]
    /\ UNCHANGED <<ptr, mutex, life>>

Unlock(t) ==
    /\ op[t].pc = "unlock"
    /\ mutex' = [mutex EXCEPT ![op[t].tmp] = Null]
    /\ op' = [op EXCEPT ![t] = CASE op[t].mode = "add" -> [op[t] EXCEPT !.pc = "swap"]
                                 [] op[t].mode = "destroy" -> [op[t] EXCEPT !.pc = "delete"]
                                 [] op[t].mode = "remove" -> Idle]
    /\ UNCHANGED <<ptr, count, life>>

\* delete this
Delete(t) ==
    /\ op[t].pc = "delete"
    /\ life' = [life EXCEPT ![op[t].tmp] = "freed"]
    /\ op' = [op EXCEPT ![t] = Idle]
    /\ UNCHANGED <<ptr, count, mutex>>

Begin(t) == \E p \in Ptrs : \/ \E q \in Ptrs : Copy(t, p, q)
                            \/ \E o \in Objects : Construct(t, p, o)
                            \/ Destruct(t, p)

Continue(t) == Swap(t) \/ Lock(t) \/ Load(t) \/ Store(t) \/ Unlock(t) \/ Delete(t)

Next == \E t \in Threads : Begin(t) \/ Continue(t)

Spec == Init /\ [][Next]_vars

\* A thread that has begun an operation keeps being scheduled.  The access
\* mutex is not assumed fair, so a single Lock step is only strongly fair.
FairSpec == Spec /\ \A t \in Threads : WF_vars(Continue(t)) /\ SF_vars(Lock(t))

-----------------------------------------------------------------------------
(* Correctness. *)

\* The variables and temporaries that own a reference to o.
Owning(t) == op[t].tmp # Null /\ IF op[t].mode = "add" THEN op[t].pc \in {"unlock", "swap"}
                                 ELSE op[t].pc \in {"lock", "load", "store"}

Holders(o) == {p \in Ptrs : ptr[p] = o} \cup {t \in Threads : Owning(t) /\ op[t].tmp = o}

\* The count of a live object is the number of smart pointers, named and
\* temporary, that own a reference: no interleaving of addReference and
\* removeReference loses an update.
CountIsExact == \A o \in Objects : count[o] = Cardinality(Holders(o))

\* No thread locks, reads, writes, unlocks or deletes an object that is freed,
\* and no smart pointer is left dangling.
NoUseAfterFree ==
    /\ \A t \in Threads : op[t].pc \notin {"idle", "swap"} => life[op[t].tmp] = "alive"
    /\ \A p \in Ptrs : ptr[p] # Null => life[ptr[p]] = "alive"

\* The three asserts of pointer.cxx: count >= 0 on addReference, count > 0 on
\* removeReference, count == 0 in the destructor.
Asserts == \A t \in Threads :
    /\ op[t].pc = "load" => count[op[t].tmp] >= IF op[t].mode = "add" THEN 0 ELSE 1
    /\ op[t].pc = "delete" => count[op[t].tmp] = 0

Doomed(o) == \E t \in Threads : op[t].mode = "destroy" /\ op[t].tmp = o

Stage == [o \in Objects |-> IF life[o] = "unborn" THEN "unborn"
                            ELSE IF life[o] = "freed" THEN "dead"
                            ELSE IF Doomed(o) THEN "doomed" ELSE "born"]

Refs == [o \in Objects |-> Cardinality(Holders(o))]

Lifetime == INSTANCE ObjectLifetime WITH stage <- Stage, refs <- Refs

\* The smart pointers implement shared ownership: whoever releases the last
\* reference dooms the object, nobody can acquire it after that even though
\* "delete this" runs outside the mutex, and a doomed object is deleted, once.
ImplementsLifetime == Lifetime!Spec

=============================================================================
