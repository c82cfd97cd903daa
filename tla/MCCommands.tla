----------------------------- MODULE MCCommands -----------------------------
(* Commands with bytes of base 4, so that eight of them fit TLC's integers. *)
EXTENDS Commands
=============================================================================
