-------------------------- MODULE MCAutoTransaction --------------------------
(* AutoTransaction on a small instance: two connections to one file.        *)
EXTENDS AutoTransaction
=============================================================================
