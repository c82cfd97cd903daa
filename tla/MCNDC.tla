-------------------------------- MODULE MCNDC --------------------------------
(* NDC on a small instance: one thread that uses every method, one that     *)
(* uses scopes.                                                             *)
EXTENDS NDC
=============================================================================
