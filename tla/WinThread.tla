------------------------------ MODULE WinThread ------------------------------
(***************************************************************************)
(* thread_base and test_thread_t (src/win_thread_class.h): an object whose *)
(* base class starts the thread that will call the derived thread_proc.    *)
(*                                                                         *)
(* An object's virtual functions are those of the part that is alive: in   *)
(* the constructor and destructor of thread_base, thread_proc is the pure  *)
(* one, and a call of it ends the program.  The implicit copy constructor  *)
(* copies the handle, and a launcher that names the object copied.  A      *)
(* handle is a number: the system gives one that was closed to the next    *)
(* thread, so that a copy may close, wait for or suspend a stranger's.     *)
(* One owner makes and destroys the objects; each starts one thread at     *)
(* most, named after it.                                                   *)
(***************************************************************************)
EXTENDS Integers, FiniteSets

CONSTANTS
    Objects,    \* the test_thread_t objects
    Numbers,    \* the handle numbers the system gives out
    Nobody,     \* the handle of no object, the thread of no handle
    MaxSuspends \* bound: how often a thread is suspended at a time

ASSUME WinThreadAssumption == MaxSuspends \in Nat \ {0} /\ Nobody \notin Objects \cup Numbers

VARIABLES
    object,     \* its life, and the number in _handle_thread
    opened,     \* opened[h]: the thread that the number h names, Nobody when it is closed
    thread,     \* the threads; flag is history: how they were created
    ended,      \* history: which thread brought the program down, and why
    waited,     \* history: the objects whose owner waited,
    copies,     \* the objects made by the copy constructor,
    alone,      \* those destroyed without a wait while their thread was not held,
    shared      \* and the threads whose number a second object had at some time

winThreadVars == <<object, opened, thread, ended, waited, copies, alone, shared>>

Running == [thread |-> Nobody, why |-> "no"]
Unmade == [life |-> "none", handle |-> Nobody]

WinThreadInit ==
    /\ object = [o \in Objects |-> Unmade]
    /\ opened = [h \in Numbers |-> Nobody]
    /\ thread = [o \in Objects |-> [pc |-> "none", suspends |-> 0, flag |-> "0"]]
    /\ ended = Running
    /\ waited = {} /\ copies = {} /\ alone = {} /\ shared = {}

Busy == \E o \in Objects : object[o].life \in {"base", "dying"}
Owner == ended = Running /\ ~Busy
HoldersOf(h) == {o \in Objects : object[o].handle = h}
Named(o) == opened[object[o].handle]
HandleOpen(o) == Named(o) # Nobody

(* The base class's constructor, with the flag for CreateThread, takes a   *)
(* number that is free, whoever may still remember it.                     *)
_do_constorBare(o, h, flag) ==
    /\ object' = [object EXCEPT ![o] = [life |-> "base", handle |-> h]]
    /\ opened' = [opened EXCEPT ![h] = o]
    /\ thread' = [thread EXCEPT ![o] = [pc |-> "start", suspends |-> 0, flag |-> flag]]
_do_constor(o, h, flag) ==
    /\ object' = [object EXCEPT ![o] = [life |-> "base", handle |-> h]]
    /\ opened' = [opened EXCEPT ![h] = o]
    /\ thread' = [thread EXCEPT ![o] = [pc |-> "start", flag |-> flag,
                                        suspends |-> IF flag = "CREATE_SUSPENDED" THEN 1 ELSE 0]]
New(o, h, flag) ==
    /\ Owner /\ object[o].life = "none" /\ opened[h] = Nobody
    /\ _do_constor(o, h, flag)
    /\ shared' = IF HoldersOf(h) = {} THEN shared ELSE shared \cup {o}
    /\ UNCHANGED <<ended, waited, copies, alone>>
Constructed(o) ==
    /\ ended = Running /\ object[o].life = "base"
    /\ object' = [object EXCEPT ![o].life = "derived"]
    /\ UNCHANGED <<opened, thread, ended, waited, copies, alone, shared>>
Copied(o, from) ==
    /\ Owner /\ object[o].life = "none" /\ object[from].life = "derived"
    /\ object' = [object EXCEPT ![o] = object[from]]
    /\ copies' = copies \cup {o}
    /\ shared' = shared \cup ({Named(from)} \ {Nobody})
    /\ UNCHANGED <<opened, thread, ended, waited, alone>>

(* Through a closed number the two calls fail, and change nothing.         *)
Suspends(o, n) ==
    /\ thread' = [thread EXCEPT ![Named(o)].suspends = n]
    /\ UNCHANGED <<object, opened, ended, waited, copies, alone, shared>>
Count(o) == thread[Named(o)].suspends
resume(o) ==
    /\ Owner /\ object[o].life = "derived" /\ HandleOpen(o)
    /\ Suspends(o, IF Count(o) = 0 THEN 0 ELSE Count(o) - 1)
suspend(o) ==
    /\ Owner /\ object[o].life = "derived" /\ HandleOpen(o) /\ Count(o) < MaxSuspends
    /\ Suspends(o, Count(o) + 1)

(* WaitForSingleObject(handle(), INFINITE): returns when the thread that   *)
(* the number names is over, and at once if the number is closed.          *)
Wait(o) ==
    /\ Owner /\ object[o].life = "derived"
    /\ HandleOpen(o) => thread[Named(o)].pc = "over"
    /\ waited' = waited \cup {o}
    /\ UNCHANGED <<object, opened, thread, ended, copies, alone, shared>>

(* The destructors: ~test_thread_t, then ~thread_base, which closes the    *)
(* number, whatever thread it names by now, and waits for nobody.          *)
Delete(o) ==
    /\ Owner /\ object[o].life = "derived"
    /\ object' = [object EXCEPT ![o].life = "dying"]
    /\ alone' = IF o \in waited \/ thread[o].suspends > 0 THEN alone ELSE alone \cup {o}
    /\ UNCHANGED <<opened, thread, ended, waited, copies, shared>>
Deleted(o) ==
    /\ ended = Running /\ object[o].life = "dying"
    /\ object' = [object EXCEPT ![o] = [life |-> "gone", handle |-> Nobody]]
    /\ opened' = [opened EXCEPT ![object[o].handle] = Nobody]
    /\ UNCHANGED <<thread, ended, waited, copies, alone, shared>>

(* The thread: _lanuch_thread_proc and launch() go through the launcher in *)
(* the object; every tick of thread_proc reads _thread_id there.           *)
Runs(t, pc) == ended = Running /\ thread[t].suspends = 0 /\ thread[t].pc = pc
Proceeds(t, pc) ==
    /\ thread' = [thread EXCEPT ![t].pc = pc]
    /\ UNCHANGED <<object, opened, ended, waited, copies, alone, shared>>
BringsDown(t, why) ==
    /\ ended' = [thread |-> t, why |-> why]
    /\ UNCHANGED <<object, opened, thread, waited, copies, alone, shared>>
launch(t) ==
    /\ Runs(t, "start")
    /\ \/ object[t].life = "derived" /\ Proceeds(t, "ticks")
       \/ object[t].life \in {"base", "dying"} /\ BringsDown(t, "pure call")
       \/ object[t].life = "gone" /\ BringsDown(t, "read")
thread_proc(t) ==
    /\ Runs(t, "ticks")
    /\ \/ Proceeds(t, "over")
       \/ object[t].life = "gone" /\ BringsDown(t, "read")

WinThreadNext ==
    \/ \E o \in Objects :
         \/ \E flag \in {"0", "CREATE_SUSPENDED"}, h \in Numbers : New(o, h, flag)
         \/ Constructed(o) \/ resume(o) \/ suspend(o) \/ Wait(o) \/ Delete(o) \/ Deleted(o)
         \/ \E from \in Objects : Copied(o, from)
    \/ \E t \in Objects : launch(t) \/ thread_proc(t)

WinThreadSpec == WinThreadInit /\ [][WinThreadNext]_winThreadVars

-----------------------------------------------------------------------------
(* A thread whose object was created suspended, whose handle number no     *)
(* second object ever had, and whose object was destroyed only after its   *)
(* owner waited, or while the thread was held, finds the object whole at   *)
(* every step.  What goes wrong otherwise: a thread created running may    *)
(* call the pure function of the base while the constructor is under way;  *)
(* one nobody waited for may outlive its object; and the number of a copy  *)
(* is closed twice, the second time when it may be a thread's whose object *)
(* was never copied: a wait for that thread returns while it runs.  As     *)
(* long as no object is copied, no two have one number, and of an object   *)
(* that shares its number with none the number names its own thread.       *)
ThreadsSeeTheirObject ==
    /\ ended # Running =>
         \/ ended.why = "pure call" /\ object[ended.thread].life = "base" /\ thread[ended.thread].flag = "0"
         \/ ended.thread \in alone \cup shared
    /\ \A o \in Objects \ (copies \cup shared) : object[o].handle # Nobody => Named(o) = o
    /\ copies = {} => shared = {}

=============================================================================
