----------------------------- MODULE ResetEvent -----------------------------
(***************************************************************************)
(* What a manual-reset event promises: signal() releases every thread that *)
(* waits at that moment and keeps the event open until reset(); a released *)
(* thread stays released, whatever follows, and does return.  Only a wait  *)
(* with a deadline may give up.                                            *)
(***************************************************************************)
CONSTANT Threads

VARIABLES signaled,   \* the event is open
          waiter      \* waiter[t]: "out", "waiting" (for ever), "deadline"
                      \* (waiting, but not for ever) or "released"

vars == <<signaled, waiter>>

Init == /\ signaled \in BOOLEAN
        /\ waiter = [t \in Threads |-> "out"]

Signal == /\ signaled' = TRUE
          /\ waiter' = [t \in Threads |-> IF waiter[t] = "out" THEN "out" ELSE "released"]

Reset == signaled' = FALSE /\ UNCHANGED waiter

Enter(t) == /\ waiter[t] = "out"
            /\ \E w \in IF signaled THEN {"released"} ELSE {"waiting", "deadline"} :
                  waiter' = [waiter EXCEPT ![t] = w]
            /\ UNCHANGED signaled

\* wait() returns, and timed_wait() returns true, to a released thread alone;
\* timed_wait() may return false to any.
Leave(t) == /\ waiter[t] \in {"released", "deadline"}
            /\ waiter' = [waiter EXCEPT ![t] = "out"]
            /\ UNCHANGED signaled

Next == Signal \/ Reset \/ \E t \in Threads : Enter(t) \/ Leave(t)

Safety == Init /\ [][Next]_vars

\* Nobody who is released is kept waiting.
Spec == Safety /\ \A t \in Threads : WF_vars(Leave(t))

=============================================================================
