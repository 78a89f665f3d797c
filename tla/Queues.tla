------------------------------- MODULE Queues -------------------------------
(* Taking some of the elements out of a queue, in their order.             *)
EXTENDS Integers, Sequences, SequencesExt

\* The elements of S in the queue q, in their order.
Only(q, S) ==
  LET F[i \in 0..Len(q)] ==
        IF i = 0 THEN << >> ELSE IF q[i] \in S THEN Append(F[i - 1], q[i]) ELSE F[i - 1]
  IN  F[Len(q)]

\* The elements that are not in S.
Except(q, S) == Only(q, ToSet(q) \ S)
=============================================================================
