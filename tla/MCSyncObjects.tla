--------------------------- MODULE MCSyncObjects ---------------------------
(* SyncObjects for TLC: four threads, one object of each kind.             *)
EXTENDS SyncObjects

CONSTANTS t1, t2, t3, t4, m, cv, s, rw, b

MCThread == {t1, t2, t3, t4}
MCQueue == <<t1, t2, t3, t4>>

\* One program per kind of object: a mutex with a condition variable, a semaphore, a
\* read-write lock, and a barrier next to a lineup.
Uses(S) == [o \in Object |-> IF o \in S THEN MCThread ELSE {}]
MCPrograms == {Uses({m, cv}), Uses({s}), Uses({rw}), Uses({b} \cup Lineup)}
============================================================================
