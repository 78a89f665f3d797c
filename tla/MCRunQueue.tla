----------------------------- MODULE MCRunQueue -----------------------------
(* RunQueue for TLC.                                                       *)
EXTENDS RunQueue
=============================================================================
