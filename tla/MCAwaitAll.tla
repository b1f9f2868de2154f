----------------------------- MODULE MCAwaitAll -----------------------------
(* AwaitAll for TLC: the configurations give the constants their values.     *)
EXTENDS AwaitAll
=============================================================================
