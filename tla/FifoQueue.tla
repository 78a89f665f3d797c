------------------------------ MODULE FifoQueue ------------------------------
(***************************************************************************)
(* What the scheduler expects of its run queue: a first-in first-out queue *)
(* of distinct threads that can be asked for its first element, its size,  *)
(* its members and the successor of a member.  out is the answer of the    *)
(* last operation.                                                         *)
(***************************************************************************)
EXTENDS Integers, Sequences, SequencesExt

CONSTANTS Tid, NULL

VARIABLES q, known, out

vars == <<q, known, out>>

None == <<"void">>

Init == q = <<>> /\ known = {} /\ out = None

CreateThdElem(t) ==
  /\ t \notin known
  /\ known' = known \cup {t}
  /\ out' = None
  /\ UNCHANGED q

PushBack(t) ==
  /\ t \in known \ ToSet(q)
  /\ q' = Append(q, t)
  /\ out' = None
  /\ UNCHANGED known

PopFront == q # <<>> /\ q' = Tail(q) /\ out' = None /\ UNCHANGED known

DeepClear == q' = <<>> /\ known' = {} /\ out' = None

In(t) == t \in known /\ out' = <<"in", t \in ToSet(q)>> /\ UNCHANGED <<q, known>>

FrontElem == q # <<>> /\ out' = <<"front", Head(q)>> /\ UNCHANGED <<q, known>>

Size == out' = <<"size", Len(q)>> /\ UNCHANGED <<q, known>>

\* The element after the i-th one; NULL is the end of the queue.
Succ(i) ==
  /\ i \in 1..Len(q)
  /\ out' = <<"succ", IF i = Len(q) THEN NULL ELSE q[i + 1]>>
  /\ UNCHANGED <<q, known>>

Next ==
  \/ \E t \in Tid : CreateThdElem(t) \/ PushBack(t) \/ In(t)
  \/ PopFront \/ DeepClear \/ FrontElem \/ Size
  \/ \E i \in 1..Len(q) : Succ(i)

Spec == Init /\ [][Next]_vars
=============================================================================
