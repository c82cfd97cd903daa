------------------------ MODULE MCManualResetEvent --------------------------
(* ManualResetEvent on a small instance; the counter wraps early.           *)
EXTENDS ManualResetEvent
=============================================================================
