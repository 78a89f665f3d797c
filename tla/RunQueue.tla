------------------------------ MODULE RunQueue ------------------------------
(***************************************************************************)
(* The run queue of the scheduler (run_queue,                              *)
(* include/tern/runtime/run-queue.h): a doubly linked list of per-thread   *)
(* elements, with the operations the scheduler calls.                      *)
(*                                                                         *)
(* pop_front() does not reset the prev pointer of the new head, and in()   *)
(* looks at the prev and next pointers of an element to decide whether it  *)
(* is queued: the pointer left over has to be harmless.                    *)
(*                                                                         *)
(* fifo is an auxiliary variable, the queue as it should be.  It stands    *)
(* for the set "elements" of the code's debug build: the callers' promises *)
(* (nobody is pushed twice) refer to it, the operations do not.            *)
(***************************************************************************)
EXTENDS ThreadIds, Sequences, SequencesExt

ASSUME NullAssumption == NULL \notin Tid

VARIABLES
  tid_map,          \* the threads that have an element
  head, tail, num_elements,
  prev, next,       \* the pointers of each element
  out,              \* the answer of the last operation
  fifo

ptrVars == <<head, tail, num_elements, prev, next>>
listVars == <<tid_map, ptrVars, out, fifo>>

None == <<"void">>

ListInit ==
  /\ tid_map = {}
  /\ head = NULL /\ tail = NULL /\ num_elements = 0
  /\ prev = [t \in Tid |-> NULL]
  /\ next = [t \in Tid |-> NULL]
  /\ out = None
  /\ fifo = <<>>

\* create_thd_elem(t)
CreateThdElem(t) ==
  /\ t \notin tid_map
  /\ tid_map' = tid_map \cup {t}
  /\ prev' = [prev EXCEPT ![t] = NULL]
  /\ next' = [next EXCEPT ![t] = NULL]
  /\ out' = None
  /\ UNCHANGED <<head, tail, num_elements, fifo>>

\* push_back(t), of a thread that is not queued
PushBack(t) ==
  /\ t \in tid_map \ ToSet(fifo)
  /\ tail' = t
  /\ \/ head = NULL /\ head' = t /\ UNCHANGED <<prev, next>>
     \/ /\ head # NULL
        /\ prev' = [prev EXCEPT ![t] = tail]
        /\ next' = [next EXCEPT ![tail] = t]
        /\ UNCHANGED head
  /\ num_elements' = num_elements + 1
  /\ out' = None
  /\ fifo' = Append(fifo, t)
  /\ UNCHANGED tid_map

\* Mutant: the popped element keeps its pointers.
PopFrontKeepsNext ==
  /\ head # NULL
  /\ head' = next[head]
  /\ tail' = IF next[head] = NULL THEN NULL ELSE tail
  /\ num_elements' = num_elements - 1
  /\ out' = None
  /\ fifo' = Tail(fifo)
  /\ UNCHANGED <<tid_map, prev, next>>

\* Mutant: the tail is not reset.
PopFrontKeepsTail ==
  /\ head # NULL
  /\ head' = next[head]
  /\ prev' = [prev EXCEPT ![head] = NULL]
  /\ next' = [next EXCEPT ![head] = NULL]
  /\ num_elements' = num_elements - 1
  /\ out' = None
  /\ fifo' = Tail(fifo)
  /\ UNCHANGED <<tid_map, tail>>

\* pop_front()
PopFront ==
  /\ head # NULL
  /\ head' = next[head]
  /\ prev' = [prev EXCEPT ![head] = NULL]
  /\ next' = [next EXCEPT ![head] = NULL]
  /\ tail' = IF next[head] = NULL THEN NULL ELSE tail
  /\ num_elements' = num_elements - 1
  /\ out' = None
  /\ fifo' = Tail(fifo)
  /\ UNCHANGED tid_map

\* deep_clear(), in the child of a fork: every element is deleted.
DeepClear ==
  /\ head' = NULL /\ tail' = NULL /\ num_elements' = 0
  /\ prev' = [t \in Tid |-> NULL]
  /\ next' = [t \in Tid |-> NULL]
  /\ tid_map' = {}
  /\ out' = None
  /\ fifo' = <<>>

\* in(t): what the pointers say
IsIn(t) == prev[t] # NULL \/ next[t] # NULL \/ (head = t /\ tail = t)

In(t) ==
  /\ t \in tid_map
  /\ out' = <<"in", IsIn(t)>>
  /\ UNCHANGED <<tid_map, ptrVars, fifo>>

\* front(), front_elem()
FrontElem ==
  /\ head # NULL
  /\ out' = <<"front", head>>
  /\ UNCHANGED <<tid_map, ptrVars, fifo>>

\* size(), empty()
Size == out' = <<"size", num_elements>> /\ UNCHANGED <<tid_map, ptrVars, fifo>>

\* iterator::operator++, on an element of the queue
Succ(t) ==
  /\ t \in ToSet(fifo)
  /\ out' = <<"succ", next[t]>>
  /\ UNCHANGED <<tid_map, ptrVars, fifo>>

ListNext ==
  \/ \E t \in Tid : CreateThdElem(t) \/ PushBack(t) \/ In(t) \/ Succ(t)
  \/ PopFront \/ DeepClear \/ FrontElem \/ Size

ListSpec == ListInit /\ [][ListNext]_listVars

-----------------------------------------------------------------------------
(* Properties. *)

\* The list is the queue: head, tail and the next pointers run through it, an element
\* that is not queued has no pointers (so that in() is right about it), and a queued
\* one other than the head has a prev pointer.
Represents ==
  /\ num_elements = Len(fifo)
  /\ IsInjective(fifo) /\ ToSet(fifo) \subseteq tid_map
  /\ fifo = <<>> => head = NULL /\ tail = NULL
  /\ fifo # <<>> => head = fifo[1] /\ tail = fifo[Len(fifo)] /\ next[tail] = NULL
  /\ \A i \in 1..(Len(fifo) - 1) : next[fifo[i]] = fifo[i + 1]
  /\ \A i \in 2..Len(fifo) : prev[fifo[i]] # NULL
  /\ \A t \in Tid \ ToSet(fifo) : prev[t] = NULL /\ next[t] = NULL

\* Every answer the list gives (in(), front(), size(), the iterator) is the answer of
\* the first-in first-out queue, after any sequence of pushes, pops and clears.
Fifo == INSTANCE FifoQueue WITH q <- fifo, known <- tid_map
IsFifo == Fifo!Spec
=============================================================================
