-------------------------- MODULE ThreadLifecycle ---------------------------
(***************************************************************************)
(* log4cplus::thread::AbstractThread on pthreads: one thread object, the   *)
(* clients that share it through AbstractThreadPtr and call start() and    *)
(* join(), and the kernel threads that execute threadStartFuncWorker.      *)
(* addReference and removeReference are single steps here (SharedObject    *)
(* models their inside); "delete this" is a step of its own.  The flags    *)
(* word has no lock: |= and &= are a load and a store.                     *)
(*                                                                         *)
(* Clients call join() only on a created thread that nobody has joined, as *)
(* POSIX demands; they may start the object again.                         *)
(***************************************************************************)
EXTENDS Integers, FiniteSets

CONSTANTS Clients,    \* user threads, each with one AbstractThreadPtr variable
          Workers,    \* the kernel threads pthread_create may create
          Null,       \* a pthread_t that names no thread
          MaxStarts   \* bound on the calls of start()

ASSUME ThreadLifecycleAssumption ==
    /\ IsFiniteSet(Clients) /\ IsFiniteSet(Workers)
    /\ Clients \cap Workers = {} /\ Null \notin Workers
    /\ MaxStarts \in Nat

VARIABLES holds,      \* the clients whose AbstractThreadPtr points to the object
          count,      \* SharedObject::count
          life,       \* "unborn", "alive" or "freed"
          flags,      \* subset of {"RUNNING", "JOINED"}
          handle,     \* the pthread_t member
          pc,         \* pc[a]: where client or worker a is
          reg,        \* reg[a]: the flags a has loaded for |= or &=
          joining,    \* joining[c]: the thread c passed to pthread_join
          reclaimed,  \* reclaimed[w]: how often w was joined or detached
          garbage,    \* the destructor detached an uninitialised handle
          starts      \* calls of start() so far

vars == <<holds, count, life, flags, handle, pc, reg, joining, reclaimed, garbage, starts>>

ClientPC == {"idle", "adopt", "setRun", "setRunStore", "addRef", "create", "undoRef",
             "clearRun", "clearRunStore", "join", "setJoin", "setJoinStore", "delete"}
WorkerPC == {"none", "enter", "dropStart", "run", "clearRun", "clearRunStore",
             "leave", "delete", "exited"}

TypeOK == /\ holds \subseteq Clients
          /\ count \in Nat
          /\ life \in {"unborn", "alive", "freed"}
          /\ flags \subseteq {"RUNNING", "JOINED"}
          /\ handle \in Workers \cup {Null}
          /\ pc \in [Clients \cup Workers -> ClientPC \cup WorkerPC]
          /\ \A c \in Clients : pc[c] \in ClientPC
          /\ \A w \in Workers : pc[w] \in WorkerPC
          /\ reg \in [Clients \cup Workers -> SUBSET {"RUNNING", "JOINED"}]
          /\ joining \in [Clients -> Workers \cup {Null}]
          /\ reclaimed \in [Workers -> Nat]
          /\ garbage \in BOOLEAN
          /\ starts \in 0..MaxStarts

Init == /\ holds = {} /\ count = 0 /\ life = "unborn" /\ flags = {} /\ handle = Null
        /\ pc = [a \in Clients \cup Workers |-> IF a \in Clients THEN "idle" ELSE "none"]
        /\ reg = [a \in Clients \cup Workers |-> {}]
        /\ joining = [c \in Clients |-> Null]
        /\ reclaimed = [w \in Workers |-> 0]
        /\ garbage = FALSE /\ starts = 0

Created == {w \in Workers : pc[w] # "none"}

Goto(a, from, to) == pc[a] = from /\ pc' = [pc EXCEPT ![a] = to]

\* flags |= or &= : load the word, then store the changed word.
LoadFlags(a, from, to) == /\ Goto(a, from, to)
                          /\ reg' = [reg EXCEPT ![a] = flags]
                          /\ UNCHANGED <<holds, count, life, flags, handle, joining,
                                         reclaimed, garbage, starts>>

StoreFlags(a, from, to, word) == /\ Goto(a, from, to)
                                 /\ flags' = word
                                 /\ UNCHANGED <<holds, count, life, handle, reg, joining,
                                                reclaimed, garbage, starts>>

\* addReference and removeReference: the caller that takes the count to 0 deletes.
AddReference == count' = count + 1
RemoveReference(a, from, to) ==
    /\ count' = count - 1
    /\ Goto(a, from, IF count = 1 THEN "delete" ELSE to)

-----------------------------------------------------------------------------
(* The clients. *)

\* AbstractThreadPtr p (new T): the constructors leave flags and count 0 and the
\* handle uninitialised; the pointer then takes the first reference.
New(c) == /\ life = "unborn"
          /\ life' = "alive"
          /\ Goto(c, "idle", "adopt")
          /\ UNCHANGED <<holds, count, flags, handle, reg, joining, reclaimed, garbage, starts>>

Adopt(c) == /\ Goto(c, "adopt", "idle")
            /\ holds' = holds \cup {c}
            /\ AddReference
            /\ UNCHANGED <<life, flags, handle, reg, joining, reclaimed, garbage, starts>>

\* c copies its pointer into the pointer variable of d.
Clone(c, d) == /\ c \in holds /\ pc[c] = "idle" /\ d \notin holds /\ pc[d] = "idle"
               /\ holds' = holds \cup {d}
               /\ AddReference
               /\ UNCHANGED <<life, flags, handle, pc, reg, joining, reclaimed, garbage, starts>>

\* c's AbstractThreadPtr leaves scope.
Drop(c) == /\ c \in holds
           /\ RemoveReference(c, "idle", "idle")
           /\ holds' = holds \ {c}
           /\ UNCHANGED <<life, flags, handle, reg, joining, reclaimed, garbage, starts>>

Start(c) == /\ c \in holds /\ starts < MaxStarts
            /\ Goto(c, "idle", "setRun")
            /\ starts' = starts + 1
            /\ UNCHANGED <<holds, count, life, flags, handle, reg, joining, reclaimed, garbage>>

StartNoRef(c) ==   \* a slip: the running thread is given no reference
    /\ Goto(c, "addRef", "create")
    /\ UNCHANGED <<holds, count, life, flags, handle, reg, joining, reclaimed, garbage, starts>>

StartRef(c) == /\ Goto(c, "addRef", "create")
               /\ AddReference
               /\ UNCHANGED <<holds, life, flags, handle, reg, joining, reclaimed, garbage, starts>>

\* pthread_create succeeds with some new kernel thread w.
CreateOk(c, w) == /\ pc[c] = "create" /\ pc[w] = "none"
                  /\ pc' = [pc EXCEPT ![c] = "idle", ![w] = "enter"]
                  /\ handle' = w
                  /\ UNCHANGED <<holds, count, life, flags, reg, joining, reclaimed, garbage, starts>>

CreateFailSilent(c) ==   \* a slip: the reference taken for the thread is kept
    /\ Goto(c, "create", "clearRun")
    /\ UNCHANGED <<holds, count, life, flags, handle, reg, joining, reclaimed, garbage, starts>>

\* pthread_create fails; POSIX leaves the handle undefined: as it was, or garbage.
CreateFail(c) == /\ Goto(c, "create", "undoRef")
                 /\ handle' \in {handle, Null}
                 /\ UNCHANGED <<holds, count, life, flags, reg, joining, reclaimed,
                                garbage, starts>>

UndoRef(c) == /\ RemoveReference(c, "undoRef", "clearRun")
              /\ UNCHANGED <<holds, life, flags, handle, reg, joining, reclaimed, garbage, starts>>

\* pthread_join(handle): blocks until that kernel thread has exited.
JoinCall(c) == /\ c \in holds /\ handle # Null
               /\ reclaimed[handle] = 0 /\ \A d \in Clients : joining[d] # handle
               /\ Goto(c, "idle", "join")
               /\ joining' = [joining EXCEPT ![c] = handle]
               /\ UNCHANGED <<holds, count, life, flags, handle, reg, reclaimed, garbage, starts>>

JoinReturnEarly(c) ==   \* a slip: the thread's exit is not waited for
    /\ Goto(c, "join", "setJoin")
    /\ joining' = [joining EXCEPT ![c] = Null]
    /\ reclaimed' = [reclaimed EXCEPT ![joining[c]] = @ + 1]
    /\ UNCHANGED <<holds, count, life, flags, handle, reg, garbage, starts>>

JoinReturn(c) == /\ Goto(c, "join", "setJoin")
                 /\ pc[joining[c]] = "exited"
                 /\ joining' = [joining EXCEPT ![c] = Null]
                 /\ reclaimed' = [reclaimed EXCEPT ![joining[c]] = @ + 1]
                 /\ UNCHANGED <<holds, count, life, flags, handle, reg, garbage, starts>>

ClientFlags(c) == \/ LoadFlags(c, "setRun", "setRunStore")
                  \/ StoreFlags(c, "setRunStore", "addRef", reg[c] \cup {"RUNNING"})
                  \/ LoadFlags(c, "clearRun", "clearRunStore")
                  \/ StoreFlags(c, "clearRunStore", "idle", reg[c] \ {"RUNNING"})
                  \/ LoadFlags(c, "setJoin", "setJoinStore")
                  \/ StoreFlags(c, "setJoinStore", "idle", reg[c] \cup {"JOINED"})

-----------------------------------------------------------------------------
(* The kernel threads: threadStartFuncWorker. *)

Enter(w) == /\ Goto(w, "enter", "dropStart")
            /\ AddReference
            /\ UNCHANGED <<holds, life, flags, handle, reg, joining, reclaimed, garbage, starts>>

DropStart(w) == /\ RemoveReference(w, "dropStart", "run")
                /\ UNCHANGED <<holds, life, flags, handle, reg, joining, reclaimed, garbage, starts>>

\* run() returns or throws: the worker goes on in the same way.
Run(w) == /\ Goto(w, "run", "clearRun")
          /\ UNCHANGED <<holds, count, life, flags, handle, reg, joining, reclaimed,
                         garbage, starts>>

WorkerFlags(w) == \/ LoadFlags(w, "clearRun", "clearRunStore")
                  \/ StoreFlags(w, "clearRunStore", "leave", reg[w] \ {"RUNNING"})

\* The NDC of the exiting thread is removed (module NDC), and the local
\* AbstractThreadPtr is destroyed as the function returns.
Leave(w) == /\ RemoveReference(w, "leave", "exited")
            /\ UNCHANGED <<holds, life, flags, handle, reg, joining, reclaimed, garbage, starts>>

-----------------------------------------------------------------------------
\* ~AbstractThread, then ~SharedObject, executed by the last owner.
DeleteDetachAll(a) ==   \* a slip: the destructor does not look at fJOINED
    /\ Goto(a, "delete", IF a \in Clients THEN "idle" ELSE "exited")
    /\ life' = "freed"
    /\ IF handle = Null
       THEN garbage' = TRUE /\ UNCHANGED reclaimed
       ELSE reclaimed' = [reclaimed EXCEPT ![handle] = @ + 1] /\ UNCHANGED garbage
    /\ UNCHANGED <<holds, count, flags, handle, reg, joining, starts>>

Delete(a) ==
    /\ Goto(a, "delete", IF a \in Clients THEN "idle" ELSE "exited")
    /\ life' = "freed"
    /\ IF "JOINED" \in flags THEN UNCHANGED <<reclaimed, garbage>>
       ELSE IF handle = Null THEN garbage' = TRUE /\ UNCHANGED reclaimed
       ELSE reclaimed' = [reclaimed EXCEPT ![handle] = @ + 1] /\ UNCHANGED garbage
    /\ UNCHANGED <<holds, count, flags, handle, reg, joining, starts>>

Call(c) == New(c) \/ (\E d \in Clients : Clone(c, d)) \/ Drop(c) \/ Start(c) \/ JoinCall(c)

ClientStep(c) == \/ Adopt(c) \/ ClientFlags(c) \/ StartRef(c) \/ (\E w \in Workers : CreateOk(c, w))
                 \/ CreateFail(c) \/ UndoRef(c) \/ JoinReturn(c) \/ Delete(c)

WorkerStep(w) == Enter(w) \/ DropStart(w) \/ Run(w) \/ WorkerFlags(w)
                 \/ Leave(w) \/ Delete(w)

Next == \/ \E c \in Clients : Call(c) \/ ClientStep(c)
        \/ \E w \in Workers : WorkerStep(w)

Spec == Init /\ [][Next]_vars

\* The scheduler runs every kernel thread and run() terminates; a client goes
\* on with a call it has made, and nothing forces it to make one.
FairSpec == /\ Spec
            /\ \A c \in Clients : WF_vars(ClientStep(c))
            /\ \A w \in Workers : WF_vars(WorkerStep(w))

-----------------------------------------------------------------------------
(* Correctness. *)

\* Every reference that must be released by somebody: the clients' pointers,
\* the one start() takes for the thread until the thread drops it, and the
\* local pointer of threadStartFuncWorker.
StartRefs == {a \in Clients \cup Workers : pc[a] \in {"create", "undoRef", "enter", "dropStart"}}
WorkerRefs == {w \in Workers : pc[w] \in {"dropStart", "run", "clearRun", "clearRunStore", "leave"}}

\* With one call of start(), fRUNNING is set as long as run() is executed and
\* clear from then on: no |= or &= overwrites another.  (Two starts that
\* overlap do lose updates.)
RunningFlagTruthful == starts <= 1 => \A w \in Workers :
    /\ pc[w] \in {"enter", "dropStart", "run", "clearRun", "clearRunStore"} => "RUNNING" \in flags
    /\ pc[w] \in {"leave", "delete", "exited"} => "RUNNING" \notin flags

\* With one call of start(), a destroyed thread object has had its kernel thread
\* joined or detached exactly once, never both; and the handle the destructor
\* detaches is uninitialised only if no kernel thread was created.
ReclaimedOnce == starts <= 1 =>
    /\ \A w \in Workers : reclaimed[w] <= 1
    /\ life = "freed" => \A w \in Created : reclaimed[w] = 1
    /\ garbage => Created = {}

\* When the last client pointer is gone the object is destroyed, by a client or
\* by the kernel thread once run() has ended.
EventuallyFreed == (life = "alive" /\ holds = {} /\ \A c \in Clients : pc[c] # "adopt")
                   ~> life = "freed"

Lifetime == INSTANCE ObjectLifetime WITH
    Objects <- {"thread"},
    stage <- [o \in {"thread"} |->
                IF life = "unborn" THEN "unborn" ELSE IF life = "freed" THEN "dead"
                ELSE IF \E a \in Clients \cup Workers : pc[a] = "delete" THEN "doomed" ELSE "born"],
    refs <- [o \in {"thread"} |->
                Cardinality(holds) + Cardinality(StartRefs) + Cardinality(WorkerRefs)]

\* The thread object is shared as ObjectLifetime promises: the hand-over of
\* start()'s reference to the new kernel thread leaves no moment at which the
\* object can be destroyed under it or revived after its last release.
ImplementsLifetime == Lifetime!Spec

=============================================================================
