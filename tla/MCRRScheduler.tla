--------------------------- MODULE MCRRScheduler ---------------------------
(* RRScheduler for TLC: main, the idle thread and the worker threads.      *)
EXTENDS RRScheduler

CONSTANTS c1

MCChan == {c1}
\* A deadline to come, and one that has passed when the wait begins.
MCNTurns == {-1, 2}
============================================================================
