--------------------------------- MODULE NDC ---------------------------------
(***************************************************************************)
(* log4cplus::NDC, nested diagnostic contexts: each thread has a pointer,  *)
(* in thread-local storage, to a stack of contexts on the heap.  The stack *)
(* is allocated by the first push, freed by the pop that empties it, by    *)
(* clear() and by remove(), and nobody else frees it: the thread-local     *)
(* variable has no cleanup function.  Every method swallows exceptions, so *)
(* a bad_alloc leaves whatever its point of failure has left.              *)
(*                                                                         *)
(* A thread of class AbstractThread calls remove() as it ends (the worker  *)
(* function of module ThreadLifecycle does); any other thread may not.     *)
(***************************************************************************)
EXTENDS Naturals, SequencesExt

CONSTANTS NDCThreads,
          AbstractThreads,   \* the threads run by an AbstractThread
          Scoped,            \* the threads that use the NDC through NDCContextCreator alone
          Blocks,            \* the addresses of DiagnosticContextStacks
          Messages,
          NULL,
          MaxDepth,          \* bound on the depth of a context
          MaxFailures        \* bound on the allocations that fail

ASSUME NDCAssumption == /\ AbstractThreads \subseteq NDCThreads /\ Scoped \subseteq NDCThreads
                        /\ NULL \notin Blocks
                        /\ MaxDepth \in Nat /\ MaxFailures \in Nat

VARIABLES threadLocal,   \* threadLocal[t]: t's pointer to its stack
          allocated,     \* the blocks that are allocated
          stack,         \* stack[b]: the contexts in block b, the innermost last
          clone,         \* a DiagnosticContextStack got by cloneStack()
          scopes,        \* scopes[t]: the messages of t's NDCContextCreators
          status,        \* status[t]: "running", "ended", or "undefined" after an
                         \* inherit() that has left a dangling pointer
          inherited,     \* history: the threads that have called inherit()
          failed         \* history: failed[t] allocations of t have failed

ndcVars == <<threadLocal, allocated, stack, clone, scopes, status, inherited, failed>>
history == <<scopes, status, inherited, failed>>

\* A DiagnosticContext: fullMessage is the sequence of messages it is made of.
Context == [message : Messages, fullMessage : BoundedSeq(Messages, MaxDepth)]
Stack == BoundedSeq(Context, MaxDepth)

\* Every context prints as the messages up to it.
FullMessages(s) == \A i \in DOMAIN s : s[i].fullMessage = [j \in 1 .. i |-> s[j].message]

NDCTypeOK == /\ threadLocal \in [NDCThreads -> Blocks \cup {NULL}]
             /\ allocated \subseteq Blocks
             /\ stack \in [Blocks -> Stack]
             /\ clone \in Stack
             /\ scopes \in [NDCThreads -> BoundedSeq(Messages, MaxDepth)]
             /\ status \in [NDCThreads -> {"running", "ended", "undefined"}]
             /\ inherited \subseteq NDCThreads
             /\ failed \in [NDCThreads -> 0 .. MaxFailures]

NDCInit == /\ threadLocal = [t \in NDCThreads |-> NULL]
           /\ allocated = {}
           /\ stack = [b \in Blocks |-> <<>>]
           /\ clone = <<>>
           /\ scopes = [t \in NDCThreads |-> <<>>]
           /\ status = [t \in NDCThreads |-> "running"]
           /\ inherited = {}
           /\ failed = [t \in NDCThreads |-> 0]

\* The thread's context, for any thread whose pointer is good.
Of(t) == IF threadLocal[t] = NULL THEN <<>> ELSE stack[threadLocal[t]]

Running(t) == status[t] = "running"

\* new DiagnosticContextStack (s), kept in the thread-local pointer.
Allocate(t, s) == \E b \in Blocks \ allocated :
    /\ threadLocal' = [threadLocal EXCEPT ![t] = b]
    /\ allocated' = allocated \cup {b}
    /\ stack' = [stack EXCEPT ![b] = s]

\* delete ptr, and NULL for the thread-local pointer.
Free(t) == /\ threadLocal' = [threadLocal EXCEPT ![t] = NULL]
           /\ allocated' = allocated \ {threadLocal[t]}
           /\ stack' = [b \in Blocks |-> IF b = threadLocal[t] THEN <<>> ELSE stack[b]]

\* The stack behind the thread-local pointer becomes s.
Update(t, s) == /\ stack' = [stack EXCEPT ![threadLocal[t]] = s]
                /\ UNCHANGED <<threadLocal, allocated>>

Unchanged == UNCHANGED <<threadLocal, allocated, stack>>

\* One more allocation has failed.
BadAlloc(t) == /\ failed[t] < MaxFailures
               /\ failed' = [failed EXCEPT ![t] = @ + 1]

-----------------------------------------------------------------------------
(* push() and pop(). *)

\* DiagnosticContext (message, parent).
Nested(s, m) == [message |-> m, fullMessage |->
                   IF s = <<>> THEN <<m>> ELSE Append(Last(s).fullMessage, m)]

DoPushFlat(t, m) ==   \* a slip: an inherited context is not taken for the parent
    IF threadLocal[t] = NULL THEN Allocate(t, <<Nested(<<>>, m)>>)
    ELSE Update(t, Append(Of(t), Nested(IF t \in inherited THEN <<>> ELSE Of(t), m)))

DoPush(t, m) == IF threadLocal[t] = NULL THEN Allocate(t, <<Nested(<<>>, m)>>)
                ELSE Update(t, Append(Of(t), Nested(Of(t), m)))

\* A push that fails may have allocated the stack, which is then empty.
DoPushFails(t) == /\ BadAlloc(t)
                  /\ \/ threadLocal[t] = NULL /\ Allocate(t, <<>>)
                     \/ Unchanged

DoPopKeeps(t) ==   \* a slip: the stack is freed only when pop() finds it empty
    IF Of(t) = <<>> THEN (IF threadLocal[t] = NULL THEN Unchanged ELSE Free(t))
    ELSE Update(t, Front(Of(t)))

\* pop() frees the stack it has emptied, and leaves alone one it finds empty.
DoPop(t) == IF Of(t) = <<>> THEN Unchanged
            ELSE IF Len(Of(t)) = 1 THEN Free(t)
            ELSE Update(t, Front(Of(t)))

\* The copy of the top that pop() returns fails before anything is popped.
DoPopFails(t) == Of(t) # <<>> /\ BadAlloc(t) /\ Unchanged

TryPush(t, m) == (DoPush(t, m) /\ UNCHANGED failed) \/ DoPushFails(t)
TryPop(t) == (DoPop(t) /\ UNCHANGED failed) \/ DoPopFails(t)

Push(t) == /\ Running(t) /\ t \notin Scoped /\ Len(Of(t)) < MaxDepth
           /\ \E m \in Messages : TryPush(t, m)
           /\ UNCHANGED <<clone, scopes, status, inherited>>

Pop(t) == /\ Running(t) /\ t \notin Scoped
          /\ TryPop(t)
          /\ UNCHANGED <<clone, scopes, status, inherited>>

\* NDCContextCreator: whatever becomes of the push, the destructor pops.
EnterScope(t) == /\ Running(t) /\ t \in Scoped
                 /\ Len(Of(t)) < MaxDepth /\ Len(scopes[t]) < MaxDepth
                 /\ \E m \in Messages : /\ TryPush(t, m)
                                        /\ scopes' = [scopes EXCEPT ![t] = Append(@, m)]
                 /\ UNCHANGED <<clone, status, inherited>>

LeaveScope(t) == /\ Running(t) /\ scopes[t] # <<>>
                 /\ TryPop(t)
                 /\ scopes' = [scopes EXCEPT ![t] = Front(@)]
                 /\ UNCHANGED <<clone, status, inherited>>

-----------------------------------------------------------------------------
(* The other methods.  peek(), get() and getDepth() change nothing. *)

SetMaxDepth(t, n) == /\ Running(t) /\ t \notin Scoped
                     /\ threadLocal[t] # NULL /\ n < Len(Of(t))
                     /\ Update(t, SubSeq(Of(t), 1, n))
                     /\ UNCHANGED <<clone, history>>

\* clear(), and remove() called by the program.
Clear(t) == /\ Running(t) /\ t \notin Scoped
            /\ threadLocal[t] # NULL
            /\ Free(t)
            /\ UNCHANGED <<clone, history>>

\* The copy, or an empty stack if the copy fails.
CloneStack(t) == /\ Running(t)
                 /\ \/ clone' = Of(t) /\ UNCHANGED failed
                    \/ clone' = <<>> /\ BadAlloc(t)
                 /\ Unchanged /\ UNCHANGED <<scopes, status, inherited>>

\* inherit (clone): the old stack is deleted first.
Inherit(t) ==
    /\ Running(t) /\ scopes[t] = <<>>
    /\ \E b \in (Blocks \ allocated) \cup {threadLocal[t]} :
          /\ b # NULL
          /\ threadLocal' = [threadLocal EXCEPT ![t] = b]
          /\ allocated' = (allocated \ {threadLocal[t]}) \cup {b}
          /\ stack' = [c \in Blocks |-> IF c = b THEN clone
                                        ELSE IF c = threadLocal[t] THEN <<>> ELSE stack[c]]
    /\ inherited' = inherited \cup {t}
    /\ UNCHANGED <<clone, scopes, status, failed>>

\* The new stack cannot be allocated: the pointer to the deleted one stays, and
\* what the thread does with its NDC from then on is undefined.
InheritFails(t) ==
    /\ Running(t) /\ scopes[t] = <<>>
    /\ BadAlloc(t)
    /\ allocated' = allocated \ {threadLocal[t]}
    /\ stack' = [b \in Blocks |-> IF b = threadLocal[t] THEN <<>> ELSE stack[b]]
    /\ status' = [status EXCEPT ![t] = IF threadLocal[t] = NULL THEN @ ELSE "undefined"]
    /\ UNCHANGED <<threadLocal, clone, scopes, inherited>>

EndKeeps(t) ==   \* a slip: threadStartFuncWorker does not call remove()
    /\ Running(t) /\ scopes[t] = <<>>
    /\ status' = [status EXCEPT ![t] = "ended"]
    /\ Unchanged /\ UNCHANGED <<clone, scopes, inherited, failed>>

\* The thread ends, an AbstractThread with remove().
End(t) == /\ Running(t) /\ scopes[t] = <<>>
          /\ status' = [status EXCEPT ![t] = "ended"]
          /\ IF t \in AbstractThreads THEN Free(t) ELSE Unchanged
          /\ UNCHANGED <<clone, scopes, inherited, failed>>

NDCNext == \E t \in NDCThreads :
            \/ Push(t) \/ Pop(t) \/ EnterScope(t) \/ LeaveScope(t)
            \/ (\E n \in 0 .. MaxDepth : SetMaxDepth(t, n))
            \/ Clear(t) \/ CloneStack(t) \/ Inherit(t) \/ InheritFails(t) \/ End(t)

NDCSpec == NDCInit /\ [][NDCNext]_ndcVars

-----------------------------------------------------------------------------
(* Correctness. *)

Sound == {t \in NDCThreads : status[t] # "undefined"}

\* Every allocated stack belongs to exactly one thread and no pointer dangles,
\* however push, inherit and failures follow each other: a stack can be lost only
\* with its thread, and only if that is not an AbstractThread.
StacksOwned ==
    /\ \A t \in Sound : threadLocal[t] # NULL =>
          threadLocal[t] \in allocated /\ \A u \in Sound \ {t} : threadLocal[u] # threadLocal[t]
    /\ allocated \subseteq {threadLocal[t] : t \in Sound}
    /\ \A t \in AbstractThreads : status[t] = "ended" => threadLocal[t] = NULL

\* What is printed for a context is the whole chain of messages around it, also
\* for contexts pushed upon an inherited or a truncated stack.
ContextsChained == \A b \in allocated : FullMessages(stack[b])

\* With NDCContextCreators alone, a thread's context is the messages of the scopes
\* it is in, and the stack is freed with the outermost one, as long as it has not
\* inherited a context and no allocation of it has failed.
ScopesNest == \A t \in Scoped \ inherited : failed[t] = 0 =>
    /\ [i \in DOMAIN Of(t) |-> Of(t)[i].message] = scopes[t]
    /\ scopes[t] = <<>> => threadLocal[t] = NULL

=============================================================================
