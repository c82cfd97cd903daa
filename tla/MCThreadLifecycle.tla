------------------------- MODULE MCThreadLifecycle --------------------------
(* ThreadLifecycle on a small instance: two clients, two kernel threads.    *)
EXTENDS ThreadLifecycle
=============================================================================
