------------------------------ MODULE MCWinSock ------------------------------
(* WinSock alone, for what its comment says of a failed start.              *)
EXTENDS WinSock
=============================================================================
