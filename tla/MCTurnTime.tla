----------------------------- MODULE MCTurnTime -----------------------------
(* TurnTime for TLC: a second has ten nanoseconds.  Times of day cross the *)
(* second and the longest wait; usleep stays below the word.               *)
EXTENDS TurnTime

MCClock == {0, 9, 11, 25, 48, 60}
MCUsecs == {0, 3, 11}

\* The instance meets the hypothesis of the theorems of TurnTime_proofs.
ASSUME WordsSuffice
=============================================================================
