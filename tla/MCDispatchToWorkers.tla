------------------------- MODULE MCDispatchToWorkers -------------------------
(* DispatchToWorkers for TLC.  Wrap leaves the remainder 2 by WorkersCount, so that   *)
(* the counter skips a worker when it wraps.                                          *)
EXTENDS DispatchToWorkers
=============================================================================
