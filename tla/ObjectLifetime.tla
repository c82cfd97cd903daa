--------------------------- MODULE ObjectLifetime ---------------------------
(***************************************************************************)
(* What intrusive reference counting promises to its users, without        *)
(* counters, mutexes or smart pointers: an object is created, is acquired  *)
(* and released any number of times, is doomed by the release of its last  *)
(* reference, cannot be acquired from then on, and is destroyed once.      *)
(* SharedObject and ThreadLifecycle are shown to implement it.             *)
(***************************************************************************)
EXTENDS Naturals

CONSTANT Objects

VARIABLES stage,   \* stage[o]: how far the life of o has come
          refs     \* refs[o]: how many references to o exist

vars == <<stage, refs>>

Stages == {"unborn", "born", "doomed", "dead"}

TypeOK == /\ stage \in [Objects -> Stages]
          /\ refs \in [Objects -> Nat]

Init == /\ stage = [o \in Objects |-> "unborn"]
        /\ refs = [o \in Objects |-> 0]

Create(o) == /\ stage[o] = "unborn"
             /\ stage' = [stage EXCEPT ![o] = "born"]
             /\ UNCHANGED refs

Acquire(o) == /\ stage[o] = "born"
              /\ refs' = [refs EXCEPT ![o] = @ + 1]
              /\ UNCHANGED stage

Release(o) == /\ stage[o] = "born"
              /\ refs[o] > 0
              /\ refs' = [refs EXCEPT ![o] = @ - 1]
              /\ stage' = [stage EXCEPT ![o] = IF refs[o] = 1 THEN "doomed" ELSE @]

Destroy(o) == /\ stage[o] = "doomed"
              /\ stage' = [stage EXCEPT ![o] = "dead"]
              /\ UNCHANGED refs

Next == \E o \in Objects : Create(o) \/ Acquire(o) \/ Release(o) \/ Destroy(o)

Safety == Init /\ [][Next]_vars

\* A doomed object does not leak: its destruction is carried out.
Spec == Safety /\ \A o \in Objects : WF_vars(Destroy(o))

=============================================================================
