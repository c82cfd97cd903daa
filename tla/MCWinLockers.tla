---------------------------- MODULE MCWinLockers ----------------------------
(* WinLockers on a small instance: two threads and two lockers, of every     *)
(* pair of classes, with and without a time limit.                           *)
EXTENDS WinLockers
=============================================================================
