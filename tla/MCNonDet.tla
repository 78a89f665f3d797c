------------------------------ MODULE MCNonDet ------------------------------
(* NonDet for TLC: the main thread, the idle thread and one or two workers.     *)
EXTENDS NonDet

\* Small integers hash to themselves: ascending.
MCWakeOrder == [i \in 1 .. NThread |-> i - 1]

\* The clocks of the threads that are away multiply the states: one worker with them.
MCMaxThreads == [b \in ClockBounds |-> IF b THEN 3 ELSE NThread]
==============================================================================
