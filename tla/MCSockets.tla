------------------------------ MODULE MCSockets ------------------------------
(* Sockets on a small instance; two handles, so that numbers are reused.    *)
EXTENDS Sockets
=============================================================================
