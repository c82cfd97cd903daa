--------------------------- MODULE MCSharedObject ---------------------------
(* SharedObject on a small instance.  Objects are not reused once freed,    *)
(* so their number bounds the allocations of a behaviour.                   *)
EXTENDS SharedObject
=============================================================================
