------------------------------ MODULE ThreadIds ------------------------------
(* The thread ids: a thread gets the number of the threads created before it,  *)
(* main and the idle thread first.                                             *)
EXTENDS Integers

CONSTANTS
  MaxThread,    \* threads a behaviour may create, main and idle included
  NULL          \* the null pointer: no channel, no element

ASSUME ThreadAssumption == MaxThread \in Nat /\ MaxThread >= 2

Tid == 0..(MaxThread - 1)
==============================================================================
