---------------------------- MODULE MCThreadLife ----------------------------
(* ThreadLife for TLC: the ids of main and of two or three more threads.   *)
EXTENDS ThreadLife

CONSTANTS p1, p2, p3

TwoIds == {main, p1, p2}
ThreeIds == {main, p1, p2, p3}
=============================================================================
