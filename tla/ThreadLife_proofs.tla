-------------------------- MODULE ThreadLife_proofs --------------------------
(***************************************************************************)
(* Proofs about the life of a thread (ThreadLife), for any number of       *)
(* pthread ids and any bound on the threads created.                       *)
(*                                                                         *)
(* MapsAgree holds whatever threads create others and whether or not ids   *)
(* come back: only the thread with the turn changes the maps and the       *)
(* queues, and a thread in create() or in the real join still has it.      *)
(* JoinsEndedThread needs that the kernel gives no id of a detached thread *)
(* out again, SelfMapped that one thread creates the others: the two       *)
(* semaphores are shared, and the runs with two creators and with reused   *)
(* ids show what happens otherwise.                                        *)
(***************************************************************************)
EXTENDS ThreadLife, SeqLemmas

\* The steps at which a thread has begun and not ended, and those with the turn.
AlivePc == {"threadBegin", "run", "join", "realJoin", "done"} \cup CreatePc
TurnPc == {"create", "realJoin"}
BeforeSelf == {"begin", "self", "assert"}

\* The two maps are inverse to each other and know no tid that is not yet given out.
MapOK ==
  /\ \A p \in Pthread : p_t_map[p] # InvalidTid =>
       p_t_map[p] < nthread /\ t_p_map[p_t_map[p]] = p
  /\ \A i \in Tid : t_p_map[i] # NoThread => p_t_map[t_p_map[i]] = i

\* A living thread knows its tid; an id that is free or whose thread ended has none.
SelfOK ==
  \A p \in Pthread :
    /\ pc[p] \in AlivePc => self_tid[p] = p_t_map[p] /\ p_t_map[p] # InvalidTid
    /\ pc[p] \in EndPc \cup {"none"} => p_t_map[p] = InvalidTid

\* No tid is queued twice, and every queued tid is in the maps.
QueueOK ==
  /\ IsInjective(runq) /\ IsInjective(waitq)
  /\ ToSet(runq) \cap ToSet(waitq) = {}
  /\ \A i \in ToSet(runq) \cup ToSet(waitq) : t_p_map[i] # NoThread

\* create() and the real join are reached and left with the turn, and the thread that
\* create() is about to map is not mapped and has not got past self().
TurnOK ==
  \A t \in Pthread :
    /\ pc[t] \in TurnPc => HasTurn(t) /\ arg[t] \in Pthread
    /\ pc[t] = "create" =>
         nthread < MaxTid /\ pc[arg[t]] \in BeforeSelf /\ p_t_map[arg[t]] = InvalidTid

\* The inductive invariant of the maps and the queues.
MapInv == TypeOK /\ MapOK /\ SelfOK /\ QueueOK /\ TurnOK

-----------------------------------------------------------------------------
(* The maps and the queues. *)

\* Two threads that both have the turn are one thread.
LEMMA TurnUnique ==
  ASSUME MapInv, NEW t \in Pthread, NEW u \in Pthread,
         pc[t] \in AlivePc, pc[u] \in AlivePc, HasTurn(t), HasTurn(u)
  PROVE  t = u
  BY DEF MapInv, MapOK, SelfOK, HasTurn

\* Initially the main thread alone is mapped and queued.
LEMMA InitMapInv == Init => MapInv
<1> SUFFICES ASSUME Init PROVE MapInv
  OBVIOUS
<1>1. MaxTid \in Nat \ {0} /\ main \in Pthread /\ NoThread \notin Pthread
  BY ThreadLifeAssumption
<1>2. 0 \in Tid
  BY <1>1 DEF Tid
<1>3. /\ <<0>> \in Seq(Tid) /\ ToSet(<<0>>) = {0} /\ IsInjective(<<0>>)
      /\ << >> \in Seq(Tid) /\ ToSet(<< >>) = {} /\ IsInjective(<< >>)
  BY <1>2 DEF ToSet, IsInjective
<1>4. TypeOK
  BY <1>1, <1>2, <1>3 DEF Init, TypeOK, Tid, InvalidTid, Pc, CreatePc, BeginPc, EndPc
<1>5. MapOK
  BY <1>1, <1>2 DEF Init, MapOK, InvalidTid
<1>6. SelfOK
  BY <1>1 DEF Init, SelfOK, InvalidTid, AlivePc, CreatePc, EndPc
<1>7. QueueOK
  BY <1>1, <1>2, <1>3 DEF Init, QueueOK
<1>8. TurnOK
  BY <1>1 DEF Init, TurnOK, TurnPc
<1>9. QED
  BY <1>4, <1>5, <1>6, <1>7, <1>8 DEF MapInv

\* A step that leaves the maps and the queues alone.
MapsKept ==
  /\ UNCHANGED <<p_t_map, t_p_map, zombies, self_tid, nthread, runq, waitq>>
  /\ stale' \subseteq Pthread

\* A step that leaves the maps and the queues alone and only moves one thread between
\* steps that are alike for the invariant preserves it.
LEMMA MoveStep ==
  ASSUME MapInv, NEW t \in Pthread, NEW l \in Pc,
         pc' = [pc EXCEPT ![t] = l], MapsKept,
         detached' \subseteq Pthread,
         thread_begin_sem' \in Nat, thread_begin_done_sem' \in Nat,
         arg' \in [Pthread -> Pthread \cup {NoThread}],
         \A u \in Pthread : u # t => arg'[u] = arg[u],
         pc[t] # "create", 
         l \in TurnPc => l = "realJoin" /\ HasTurn(t) /\ arg'[t] \in Pthread,
         l \in AlivePc => pc[t] \in AlivePc,
         l \in EndPc \cup {"none"} => pc[t] \in EndPc \cup {"none"},
         pc[t] \in BeforeSelf => l \in BeforeSelf
  PROVE  MapInv'
<1>1. TypeOK'
  BY DEF MapInv, TypeOK, MapsKept
<1>2. MapOK' /\ QueueOK'
  BY DEF MapInv, MapOK, QueueOK, MapsKept
<1>3. SelfOK'
  BY DEF MapInv, SelfOK, MapsKept, TypeOK
<1>4. TurnOK'
  BY DEF MapInv, TurnOK, MapsKept, TypeOK, HasTurn, TurnPc, BeforeSelf
<1>5. QED
  BY <1>1, <1>2, <1>3, <1>4 DEF MapInv

\* putTurn() keeps the queued tids.
LEMMA PutTurnProps ==
  ASSUME NEW S, NEW q \in Seq(S), q # << >>
  PROVE  /\ putTurn(q) \in Seq(S) /\ ToSet(putTurn(q)) = ToSet(q)
         /\ IsInjective(q) => IsInjective(putTurn(q))
<1> DEFINE r == Tail(q)
           h == Head(q)
<1>1. h \in S
  BY HeadProps
<1>2. /\ r \in Seq(S) /\ ToSet(q) = ToSet(r) \cup {h}
      /\ IsInjective(q) => IsInjective(r) /\ h \notin ToSet(r)
  BY TailProps
<1>3. putTurn(q) = Append(r, h)
  BY DEF putTurn
<1> HIDE DEF r, h
<1>4. /\ Append(r, h) \in Seq(S) /\ ToSet(Append(r, h)) = ToSet(r) \cup {h}
      /\ IsInjective(r) /\ h \notin ToSet(r) => IsInjective(Append(r, h))
  BY <1>1, <1>2, AppendProps
<1>5. QED
  BY <1>2, <1>3, <1>4

\* The steps that only move a thread: the semaphores, the exit and the join of a thread
\* that has ended.
LEMMA MoveSteps ==
  ASSUME MapInv, NEW t \in Pthread,
         \/ PostBegin(t) \/ WaitDone(t) \/ WaitBegin(t) \/ PostDone(t) \/ RealExit(t)
         \/ \E u \in Pthread : Detach(t, u)
         \/ \E u \in Pthread : JoinLoop(t, u) /\ u \in zombies
  PROVE  MapInv'
<1> USE DEF AlivePc, TurnPc, BeforeSelf, CreatePc, BeginPc, EndPc, Pc
<1>1. TypeOK
  BY DEF MapInv
<1>2. CASE PostBegin(t)
  <2>1. /\ pc' = [pc EXCEPT ![t] = "waitDone"] /\ pc[t] = "post" /\ arg' = arg
        /\ MapsKept /\ detached' = detached
        /\ thread_begin_sem' \in Nat /\ thread_begin_done_sem' \in Nat
    BY <1>1, <1>2 DEF PostBegin, Goto, TypeOK, MapsKept, mapVars
  <2>2. QED
    BY <1>1, <2>1, MoveStep DEF TypeOK
<1>3. CASE WaitDone(t)
  <2>1. /\ pc' = [pc EXCEPT ![t] = "run"] /\ pc[t] = "waitDone"
        /\ arg' = [arg EXCEPT ![t] = NoThread]
        /\ MapsKept /\ detached' = detached
        /\ thread_begin_sem' \in Nat /\ thread_begin_done_sem' \in Nat
    BY <1>1, <1>3 DEF WaitDone, Goto, TypeOK, MapsKept, mapVars
  <2>2. QED
    BY <1>1, <2>1, MoveStep DEF TypeOK
<1>4. CASE WaitBegin(t)
  <2>1. /\ pc' = [pc EXCEPT ![t] = "self"] /\ pc[t] = "begin" /\ arg' = arg
        /\ MapsKept /\ detached' = detached
        /\ thread_begin_sem' \in Nat /\ thread_begin_done_sem' \in Nat
    BY <1>1, <1>4 DEF WaitBegin, Goto, TypeOK, MapsKept, mapVars
  <2>2. QED
    BY <1>1, <2>1, MoveStep DEF TypeOK
<1>5. CASE PostDone(t)
  <2>1. /\ pc' = [pc EXCEPT ![t] = "threadBegin"] /\ pc[t] = "done" /\ arg' = arg
        /\ MapsKept /\ detached' = detached
        /\ thread_begin_sem' \in Nat /\ thread_begin_done_sem' \in Nat
    BY <1>1, <1>5 DEF PostDone, Goto, TypeOK, MapsKept, mapVars
  <2>2. QED
    BY <1>1, <2>1, MoveStep DEF TypeOK
<1>6. CASE RealExit(t)
  <2>1. PICK l \in {"none", "gone"} : pc' = [pc EXCEPT ![t] = l]
    BY <1>6 DEF RealExit, Goto
  <2>2. /\ pc[t] = "exiting" /\ arg' = arg
        /\ MapsKept /\ detached' = detached
        /\ thread_begin_sem' \in Nat /\ thread_begin_done_sem' \in Nat
    BY <1>1, <1>6 DEF RealExit, semVars, TypeOK, MapsKept, mapVars
  <2>3. QED
    BY <1>1, <2>1, <2>2, MoveStep DEF TypeOK
<1>7. ASSUME NEW u \in Pthread, Detach(t, u) PROVE MapInv'
  <2>1. /\ arg' = arg /\ MapsKept /\ detached' \subseteq Pthread
        /\ UNCHANGED semVars
    BY <1>1, <1>7 DEF Detach, TypeOK, MapsKept, mapVars
  <2>2. CASE pc[u] = "gone" /\ pc' = [pc EXCEPT ![u] = "none"]
    BY <1>1, <2>1, <2>2, MoveStep DEF TypeOK, semVars
  <2>3. CASE pc' = pc
    BY <1>1, <2>1, <2>3 DEF MapInv, TypeOK, MapOK, SelfOK, QueueOK, TurnOK, HasTurn,
       MapsKept, semVars
  <2>4. QED
    BY <1>1, <1>7, <2>2, <2>3 DEF Detach, Goto
<1>8. ASSUME NEW u \in Pthread, JoinLoop(t, u), u \in zombies PROVE MapInv'
  <2>1. /\ pc' = [pc EXCEPT ![t] = "realJoin"] /\ pc[t] \in {"run", "join"} /\ HasTurn(t)
        /\ arg' = [arg EXCEPT ![t] = u]
        /\ MapsKept /\ detached' = detached
        /\ UNCHANGED semVars
    BY <1>1, <1>8 DEF JoinLoop, Goto, TypeOK, MapsKept, mapVars
  <2>2. QED
    BY <1>1, <2>1, MoveStep DEF TypeOK, semVars
<1>9. QED
  BY <1>2, <1>3, <1>4, <1>5, <1>6, <1>7, <1>8

\* The thread that has the turn is mapped to the head of the run queue.
LEMMA HolderProps ==
  ASSUME MapInv, NEW t \in Pthread, pc[t] \in AlivePc, HasTurn(t)
  PROVE  /\ runq # << >> /\ runq \in Seq(Tid)
         /\ Head(runq) = p_t_map[t] /\ self_tid[t] = p_t_map[t]
         /\ p_t_map[t] \in Tid /\ p_t_map[t] \in ToSet(runq) /\ t_p_map[p_t_map[t]] = t
  BY HeadProps DEF MapInv, TypeOK, MapOK, SelfOK, HasTurn

\* Only the thread with the turn is in create() or in the real join.
LEMMA OthersOutside ==
  ASSUME MapInv, NEW t \in Pthread, NEW u \in Pthread, pc[t] \in AlivePc, HasTurn(t),
         pc[u] \in TurnPc
  PROVE  u = t
<1>1. HasTurn(u) /\ pc[u] \in AlivePc
  BY DEF MapInv, TurnOK, TurnPc, AlivePc, CreatePc
<1>2. QED
  BY <1>1, TurnUnique

\* The real pthread_create.
LEMMA PthreadCreateStep ==
  ASSUME MapInv, NEW t \in Pthread, NEW p \in Pthread, PthreadCreate(t, p)
  PROVE  MapInv'
<1> USE DEF AlivePc, TurnPc, BeforeSelf, CreatePc, BeginPc, EndPc
<1>1. /\ pc[t] = "run" /\ HasTurn(t) /\ nthread < MaxTid /\ pc[p] = "none" /\ t # p
      /\ pc' = [pc EXCEPT ![t] = "create", ![p] = "begin"]
      /\ arg' = [arg EXCEPT ![t] = p]
      /\ detached' = detached \ {p}
      /\ self_tid' = [self_tid EXCEPT ![p] = InvalidTid]
      /\ UNCHANGED <<p_t_map, t_p_map, zombies, stale, nthread, semVars, runq, waitq>>
  BY DEF PthreadCreate
<1>2. \A u \in Pthread : pc[u] \in TurnPc => u = t
  BY <1>1, OthersOutside
<1>3. TypeOK'
  BY <1>1 DEF MapInv, TypeOK, semVars, Pc
<1>4. MapOK' /\ QueueOK'
  BY <1>1 DEF MapInv, MapOK, QueueOK
<1>5. SelfOK'
  BY <1>1 DEF MapInv, SelfOK, TypeOK
<1>6. TurnOK'
  BY <1>1, <1>2 DEF MapInv, SelfOK, TurnOK, TypeOK, HasTurn
<1>7. QED
  BY <1>3, <1>4, <1>5, <1>6 DEF MapInv

\* create() gives the child a tid that no thread has and no queue holds.
LEMMA CreateStepOK ==
  ASSUME MapInv, NEW t \in Pthread, Create(t)
  PROVE  MapInv'
<1> USE DEF AlivePc, TurnPc, BeforeSelf, CreatePc, BeginPc, EndPc
<1> DEFINE c == arg[t]
           n == nthread
<1>1. /\ pc[t] = "create"
      /\ p_t_map' = [p_t_map EXCEPT ![c] = n]
      /\ t_p_map' = [t_p_map EXCEPT ![n] = c]
      /\ nthread' = n + 1
      /\ runq' = putTurn(Append(runq, n))
      /\ pc' = [pc EXCEPT ![t] = "post"]
      /\ UNCHANGED <<zombies, stale, self_tid, semVars, waitq, arg, detached>>
  BY DEF Create, Goto
<1>2. /\ HasTurn(t) /\ c \in Pthread /\ n < MaxTid /\ pc[c] \in BeforeSelf
      /\ p_t_map[c] = InvalidTid
  BY <1>1 DEF MapInv, TurnOK
<1>3. /\ n \in Tid /\ n \in Nat /\ n + 1 \in 1..MaxTid /\ n # InvalidTid
      /\ MaxTid \in Nat /\ NoThread \notin Pthread
  BY <1>2, ThreadLifeAssumption DEF MapInv, TypeOK, Tid, InvalidTid
<1>4. t_p_map[n] = NoThread /\ \A i \in Tid : t_p_map[i] # c
  <2>1. \A i \in Tid : t_p_map[i] # c /\ i # InvalidTid
    BY <1>2, <1>3 DEF MapInv, MapOK, InvalidTid, Tid
  <2>2. ASSUME t_p_map[n] # NoThread PROVE FALSE
    <3>1. t_p_map[n] \in Pthread /\ p_t_map[t_p_map[n]] = n
      BY <1>3, <2>2 DEF MapInv, MapOK, TypeOK
    <3>2. n < n
      BY <1>3, <3>1 DEF MapInv, MapOK
    <3>3. QED
      BY <1>3, <3>2
  <2>3. QED
    BY <2>1, <2>2
<1>5. runq # << >> /\ runq \in Seq(Tid)
  BY <1>1, <1>2, HolderProps
<1>6. n \notin ToSet(runq) /\ n \notin ToSet(waitq)
  BY <1>4 DEF MapInv, QueueOK
<1>7. /\ Append(runq, n) \in Seq(Tid) /\ Append(runq, n) # << >>
      /\ ToSet(Append(runq, n)) = ToSet(runq) \cup {n}
      /\ IsInjective(Append(runq, n))
  BY <1>3, <1>5, <1>6, AppendProps DEF MapInv, QueueOK
<1>8. /\ runq' \in Seq(Tid) /\ ToSet(runq') = ToSet(runq) \cup {n}
      /\ IsInjective(runq')
  BY <1>1, <1>7, PutTurnProps, Zenon
<1>9. \A u \in Pthread : pc[u] \in TurnPc => u = t
  BY <1>1, <1>2, OthersOutside
<1> HIDE DEF c, n
<1>10. TypeOK'
  BY <1>1, <1>2, <1>3, <1>8 DEF MapInv, TypeOK, semVars, Pc, c, n
<1>11. MapOK'
  <2>1. /\ p_t_map \in [Pthread -> Tid \cup {InvalidTid}] /\ t_p_map \in [Tid -> Pthread \cup {NoThread}]
        /\ \A p \in Pthread : p_t_map'[p] = IF p = c THEN n ELSE p_t_map[p]
        /\ \A i \in Tid : t_p_map'[i] = IF i = n THEN c ELSE t_p_map[i]
    BY <1>1 DEF MapInv, TypeOK
  <2>2. ASSUME NEW p \in Pthread, p_t_map'[p] # InvalidTid
        PROVE  p_t_map'[p] < n + 1 /\ t_p_map'[p_t_map'[p]] = p
    <3>1. CASE p = c
      BY <1>2, <1>3, <2>1, <3>1
    <3>2. CASE p # c
      <4>1. p_t_map'[p] = p_t_map[p] /\ p_t_map[p] < n /\ t_p_map[p_t_map[p]] = p /\ p_t_map[p] \in Tid
        BY <2>1, <2>2, <3>2 DEF MapInv, MapOK, n
      <4>2. QED
        BY <1>3, <2>1, <4>1 DEF Tid
    <3>3. QED
      BY <3>1, <3>2
  <2>3. ASSUME NEW i \in Tid, t_p_map'[i] # NoThread
        PROVE  p_t_map'[t_p_map'[i]] = i
    BY <1>2, <1>3, <1>4, <2>1, <2>3 DEF MapInv, MapOK
  <2>4. nthread' = n + 1
    BY <1>1
  <2>5. QED
    BY <2>2, <2>3, <2>4 DEF MapOK
<1>12. SelfOK'
  BY <1>1, <1>2, <1>3 DEF MapInv, SelfOK, TypeOK
<1>13. QueueOK'
  <2>1. UNCHANGED waitq
    BY <1>1
  <2>2. IsInjective(waitq') /\ ToSet(runq') \cap ToSet(waitq') = {}
    BY <2>1, <1>6, <1>8 DEF MapInv, QueueOK
  <2>3. \A i \in ToSet(runq') \cup ToSet(waitq') : t_p_map'[i] # NoThread
    <3>1. ToSet(runq) \subseteq Tid /\ ToSet(waitq) \subseteq Tid
      BY <1>5, InToSet DEF MapInv, TypeOK
    <3>2. QED
      BY <3>1, <2>1, <1>1, <1>2, <1>3, <1>8 DEF MapInv, QueueOK, TypeOK
  <2>4. QED
    BY <1>8, <2>2, <2>3 DEF QueueOK
<1>14. TurnOK'
  BY <1>1, <1>9 DEF MapInv, TurnOK, TypeOK
<1>15. QED
  BY <1>10, <1>11, <1>12, <1>13, <1>14 DEF MapInv

\* self() of a thread that create() has mapped.
LEMMA SelfStep ==
  ASSUME MapInv, NEW p \in Pthread, Self(p)
  PROVE  MapInv'
<1> USE DEF AlivePc, TurnPc, BeforeSelf, CreatePc, BeginPc, EndPc, Pc
<1>1. /\ pc[p] = "self"
      /\ UNCHANGED <<p_t_map, t_p_map, zombies, stale, nthread, semVars, runq, waitq, arg, detached>>
  BY DEF Self
<1>2. CASE p_t_map[p] = InvalidTid
  <2>1. pc' = [pc EXCEPT ![p] = "assert"] /\ self_tid' = self_tid
    BY <1>2 DEF Self, Goto
  <2>2. QED
    BY <1>1, <2>1, MoveStep DEF MapInv, TypeOK, MapsKept, semVars
<1>3. CASE p_t_map[p] # InvalidTid
  <2>1. /\ pc' = [pc EXCEPT ![p] = "done"]
        /\ self_tid' = [self_tid EXCEPT ![p] = p_t_map[p]]
    BY <1>3 DEF Self, Goto
  <2>2. TypeOK'
    BY <1>1, <1>3, <2>1 DEF MapInv, TypeOK, semVars
  <2>3. MapOK' /\ QueueOK'
    BY <1>1 DEF MapInv, MapOK, QueueOK
  <2>4. SelfOK'
    BY <1>1, <1>3, <2>1 DEF MapInv, SelfOK, TypeOK
  <2>5. TurnOK'
    BY <1>1, <1>3, <2>1 DEF MapInv, TurnOK, TypeOK, HasTurn
  <2>6. QED
    BY <2>2, <2>3, <2>4, <2>5 DEF MapInv
<1>4. QED
  BY <1>2, <1>3

\* An operation with the turn, and the real join, which ends with putTurn().
LEMMA TurnSteps ==
  ASSUME MapInv, NEW t \in Pthread, TakeTurn(t) \/ RealJoin(t)
  PROVE  MapInv'
<1> USE DEF AlivePc, TurnPc, BeforeSelf, CreatePc, BeginPc, EndPc, Pc
<1>1. /\ pc[t] \in {"threadBegin", "run", "realJoin"} /\ HasTurn(t)
      /\ RealJoin(t) => arg[t] \in Pthread
  BY DEF TakeTurn, RealJoin, MapInv, TurnOK
<1>2. \A u \in Pthread : pc[u] \in TurnPc => u = t
  BY <1>1, OthersOutside
<1>3. /\ runq' = putTurn(runq)
      /\ p_t_map' = p_t_map /\ t_p_map' = t_p_map /\ self_tid' = self_tid /\ nthread' = nthread
      /\ UNCHANGED <<semVars, waitq, detached>>
      /\ zombies' \subseteq zombies /\ stale' \subseteq stale
  BY DEF TakeTurn, RealJoin, mapVars
<1>4. runq # << >> /\ runq \in Seq(Tid)
  BY <1>1, HolderProps
<1>5. runq' \in Seq(Tid) /\ ToSet(runq') = ToSet(runq) /\ IsInjective(runq')
  BY <1>3, <1>4, PutTurnProps DEF MapInv, QueueOK
<1>6. \A u \in Pthread : pc'[u] = IF u = t THEN "run"
                                  ELSE IF RealJoin(t) /\ u = arg[t] THEN "none" ELSE pc[u]
  BY <1>1 DEF TakeTurn, RealJoin, Goto, MapInv, TypeOK
<1>7. RealJoin(t) => pc[arg[t]] = "gone"
  BY DEF RealJoin
<1>8. pc' \in [Pthread -> Pc] /\ arg' \in [Pthread -> Pthread \cup {NoThread}]
  BY SMTT(60) DEF TakeTurn, RealJoin, Goto, MapInv, TypeOK
<1>9. TypeOK'
  BY <1>3, <1>5, <1>8 DEF MapInv, TypeOK, semVars
<1>10. MapOK' /\ QueueOK'
  BY <1>3, <1>5 DEF MapInv, MapOK, QueueOK
<1>11. SelfOK'
  BY <1>1, <1>3, <1>6, <1>7 DEF MapInv, SelfOK
<1>12. TurnOK'
  BY <1>2, <1>6 DEF TurnOK
<1>13. QED
  BY <1>9, <1>10, <1>11, <1>12 DEF MapInv

\* A joiner whose thread has not ended leaves the run queue for the wait queue.
LEMMA JoinWaitStep ==
  ASSUME MapInv, NEW t \in Pthread, NEW u \in Pthread, JoinLoop(t, u), u \notin zombies
  PROVE  MapInv'
<1> USE DEF AlivePc, TurnPc, BeforeSelf, CreatePc, BeginPc, EndPc, Pc
<1> DEFINE h == p_t_map[t]
           r == Tail(runq)
<1>1. /\ pc[t] \in {"run", "join"} /\ HasTurn(t)
      /\ pc' = [pc EXCEPT ![t] = "join"] /\ arg' = [arg EXCEPT ![t] = u]
      /\ runq' = r /\ waitq' = Append(waitq, self_tid[t])
      /\ UNCHANGED <<mapVars, semVars, detached>>
  BY DEF JoinLoop, Goto
<1>2. \A v \in Pthread : pc[v] \in TurnPc => v = t
  BY <1>1, OthersOutside
<1>3. /\ runq # << >> /\ runq \in Seq(Tid) /\ Head(runq) = h /\ self_tid[t] = h
      /\ h \in Tid /\ h \in ToSet(runq) /\ h \notin ToSet(waitq)
  BY <1>1, HolderProps DEF MapInv, QueueOK
<1>4. /\ r \in Seq(Tid) /\ ToSet(runq) = ToSet(r) \cup {h}
      /\ IsInjective(r) /\ h \notin ToSet(r)
  BY <1>3, TailProps DEF MapInv, QueueOK
<1> HIDE DEF h, r
<1>5. /\ waitq' \in Seq(Tid) /\ ToSet(waitq') = ToSet(waitq) \cup {h}
      /\ IsInjective(waitq')
  BY <1>1, <1>3, AppendProps DEF MapInv, QueueOK, TypeOK
<1>6. TypeOK'
  BY <1>1, <1>4, <1>5 DEF MapInv, TypeOK, mapVars, semVars
<1>7. MapOK' /\ SelfOK'
  BY <1>1 DEF MapInv, MapOK, SelfOK, mapVars, TypeOK
<1>8. QueueOK'
  BY <1>1, <1>4, <1>5 DEF MapInv, QueueOK, mapVars
<1>9. TurnOK'
  BY <1>1, <1>2 DEF MapInv, TurnOK, TypeOK
<1>10. QED
  BY <1>6, <1>7, <1>8, <1>9 DEF MapInv

\* A thread ends: it leaves the maps and the queues, and its joiner is queued once.
LEMMA ThreadEndStep ==
  ASSUME MapInv, NEW t \in Pthread, ThreadEnd(t)
  PROVE  MapInv'
<1> USE DEF AlivePc, TurnPc, BeforeSelf, CreatePc, BeginPc, EndPc, Pc
<1> DEFINE h == p_t_map[t]
           r == Tail(runq)
           w == waitq
<1>1. /\ pc[t] = "run" /\ HasTurn(t) /\ SignalAndLeave(t)
      /\ zombies' = zombies \cup {t} /\ stale' = stale \ {t}
      /\ p_t_map' = [p_t_map EXCEPT ![t] = InvalidTid]
      /\ t_p_map' = [t_p_map EXCEPT ![self_tid[t]] = NoThread]
      /\ pc' = [pc EXCEPT ![t] = "exiting"]
      /\ UNCHANGED <<self_tid, nthread, semVars, arg, detached>>
  BY DEF ThreadEnd, Goto
<1>2. \A v \in Pthread : pc[v] \in TurnPc => v = t
  BY <1>1, OthersOutside
<1>3. /\ runq # << >> /\ runq \in Seq(Tid) /\ Head(runq) = h /\ self_tid[t] = h
      /\ h \in Tid /\ h \in ToSet(runq) /\ h \notin ToSet(w) /\ t_p_map[h] = t
  BY <1>1, HolderProps DEF MapInv, QueueOK
<1>4. /\ r \in Seq(Tid) /\ ToSet(runq) = ToSet(r) \cup {h}
      /\ IsInjective(r) /\ h \notin ToSet(r)
  BY <1>3, TailProps DEF MapInv, QueueOK
<1>5. w \in Seq(Tid) /\ IsInjective(w) /\ ToSet(runq) \cap ToSet(w) = {}
  BY DEF MapInv, TypeOK, QueueOK
<1>6. \/ runq' = r /\ waitq' = w
      \/ \E i \in 1..Len(w) : runq' = Append(r, w[i]) /\ waitq' = RemoveAt(w, i)
  BY <1>1 DEF SignalAndLeave
<1> HIDE DEF h, r, w
<1>7. /\ runq' \in Seq(Tid) /\ waitq' \in Seq(Tid)
      /\ IsInjective(runq') /\ IsInjective(waitq') /\ ToSet(runq') \cap ToSet(waitq') = {}
      /\ ToSet(runq') \cup ToSet(waitq') = (ToSet(runq) \cup ToSet(w)) \ {h}
  <2>1. CASE runq' = r /\ waitq' = w
    BY <1>3, <1>4, <1>5, <2>1
  <2>2. ASSUME NEW i \in 1..Len(w), runq' = Append(r, w[i]), waitq' = RemoveAt(w, i)
        PROVE  <1>7!:
    <3>1. w[i] \in Tid /\ w[i] \in ToSet(w)
      BY <1>5, InToSet
    <3>2. /\ RemoveAt(w, i) \in Seq(Tid) /\ ToSet(w) = ToSet(RemoveAt(w, i)) \cup {w[i]}
          /\ IsInjective(RemoveAt(w, i)) /\ w[i] \notin ToSet(RemoveAt(w, i))
      BY <1>5, RemoveAtProps
    <3>3. w[i] \notin ToSet(r)
      BY <1>4, <1>5, <3>1
    <3>4. /\ Append(r, w[i]) \in Seq(Tid) /\ ToSet(Append(r, w[i])) = ToSet(r) \cup {w[i]}
          /\ IsInjective(Append(r, w[i]))
      BY <1>4, <3>1, <3>3, AppendProps
    <3>5. QED
      BY <1>3, <1>4, <1>5, <2>2, <3>1, <3>2, <3>3, <3>4
  <2>3. QED
    BY <1>6, <2>1, <2>2
<1>8. TypeOK'
  BY <1>1, <1>3, <1>7 DEF MapInv, TypeOK, semVars
<1>9. MapOK'
  BY <1>1, <1>3 DEF MapInv, MapOK, TypeOK, h
<1>10. SelfOK'
  BY <1>1 DEF MapInv, SelfOK, TypeOK
<1>11. QueueOK'
  <2>1. ToSet(runq) \subseteq Tid /\ ToSet(w) \subseteq Tid
    BY <1>3, <1>5, InToSet
  <2>2. ASSUME NEW i \in ToSet(runq') \cup ToSet(waitq') PROVE t_p_map'[i] # NoThread
    BY <1>1, <1>3, <1>7, <2>1, <2>2 DEF MapInv, QueueOK, TypeOK, w
  <2>3. QED
    BY <1>7, <2>2 DEF QueueOK
<1>12. TurnOK'
  BY <1>1, <1>2 DEF MapInv, TurnOK, TypeOK
<1>13. QED
  BY <1>8, <1>9, <1>10, <1>11, <1>12 DEF MapInv

\* Every step of the specification preserves the invariant of the maps.
LEMMA MapInvStep == MapInv /\ [Next]_vars => MapInv'
<1> SUFFICES ASSUME MapInv, [Next]_vars PROVE MapInv'
  OBVIOUS
<1>1. ASSUME NEW t \in Pthread,
             \/ CreateStep(t) \/ BeginStep(t) \/ TakeTurn(t) \/ ThreadEnd(t)
             \/ RealExit(t) \/ RealJoin(t)
      PROVE  MapInv'
  BY <1>1, MoveSteps, CreateStepOK, SelfStep, TurnSteps, ThreadEndStep
     DEF CreateStep, BeginStep
<1>2. ASSUME NEW t \in Pthread, NEW u \in Pthread,
             PthreadCreate(t, u) \/ JoinLoop(t, u) \/ Detach(t, u)
      PROVE  MapInv'
  BY <1>2, MoveSteps, PthreadCreateStep, JoinWaitStep
<1>3. CASE UNCHANGED vars
  BY <1>3 DEF vars, mapVars, semVars, MapInv, TypeOK, MapOK, SelfOK, QueueOK, TurnOK, HasTurn
<1>4. QED
  BY <1>1, <1>2, <1>3 DEF Next

\* The inductive invariant of the maps and the queues holds in every reachable state.
LEMMA MapInductive == Spec => []MapInv
  BY InitMapInv, MapInvStep, PTL DEF Spec

\* The maps of TidMap agree with each other, with the threads' own tids and with the
\* queues, and create() and zombify() never meet the id their asserts exclude, whichever
\* threads create others and although ids are handed out again.
THEOREM MapsAlwaysAgree == Spec => []MapsAgree
<1>1. MapInv => MapsAgree
  <2> SUFFICES ASSUME MapInv PROVE MapsAgree
    OBVIOUS
  <2>1. \A i \in Tid : i # InvalidTid
    BY ThreadLifeAssumption DEF Tid, InvalidTid
  <2>2. ToSet(runq) \subseteq Tid /\ ToSet(waitq) \subseteq Tid
    BY InToSet DEF MapInv, TypeOK
  <2>3. \A p \in Pthread : pc[p] \in {"threadBegin", "run", "join", "realJoin"} =>
          self_tid[p] = p_t_map[p] /\ self_tid[p] # InvalidTid
    BY DEF MapInv, SelfOK, AlivePc
  <2>4. ASSUME NEW t \in Pthread, pc[t] = "create"
        PROVE  p_t_map[arg[t]] = InvalidTid /\ \A i \in Tid : t_p_map[i] # arg[t]
    <3>1. p_t_map[arg[t]] = InvalidTid /\ arg[t] \in Pthread /\ NoThread \notin Pthread
      BY <2>4, ThreadLifeAssumption DEF MapInv, TurnOK, TurnPc
    <3>2. QED
      BY <2>1, <3>1 DEF MapInv, MapOK
  <2>5. QED
    BY <2>2, <2>3, <2>4 DEF MapInv, MapsAgree, MapOK, QueueOK
<1>2. QED
  BY <1>1, MapInductive, PTL

-----------------------------------------------------------------------------
(* The real join. *)

\* A zombie has ended or was left behind by a detached thread, and the real join is
\* called on a zombie.
ZombieOK ==
  /\ \A u \in zombies : pc[u] \in EndPc \/ u \in stale
  /\ \A t \in Pthread : pc[t] = "realJoin" => arg[t] \in zombies

\* Every step preserves it: the id of a zombie is freed by its joiner alone, unless its
\* thread is detached, and only one thread is in the real join.
LEMMA ZombieStep ==
  ASSUME MapInv, ZombieOK, [Next]_vars
  PROVE  ZombieOK'
<1> USE DEF EndPc
<1>1. /\ pc \in [Pthread -> Pc] /\ arg \in [Pthread -> Pthread \cup {NoThread}]
      /\ zombies \subseteq Pthread
  BY DEF MapInv, TypeOK
<1>2. ASSUME NEW t \in Pthread, Create(t) \/ PostBegin(t) \/ WaitDone(t) PROVE ZombieOK'
  BY <1>1, <1>2 DEF Create, PostBegin, WaitDone, Goto, ZombieOK, mapVars
<1>3. ASSUME NEW t \in Pthread, WaitBegin(t) \/ Self(t) \/ PostDone(t) PROVE ZombieOK'
  BY <1>1, <1>3 DEF WaitBegin, Self, PostDone, Goto, ZombieOK, mapVars
<1>4. ASSUME NEW t \in Pthread, TakeTurn(t) PROVE ZombieOK'
  BY <1>1, <1>4 DEF TakeTurn, Goto, ZombieOK, mapVars
<1>5. ASSUME NEW t \in Pthread, ThreadEnd(t) PROVE ZombieOK'
  BY <1>1, <1>5 DEF ThreadEnd, Goto, ZombieOK
<1>6. ASSUME NEW t \in Pthread, RealExit(t) PROVE ZombieOK'
  BY <1>1, <1>6 DEF RealExit, Goto, ZombieOK
<1>7. ASSUME NEW t \in Pthread, RealJoin(t) PROVE ZombieOK'
  <2>1. pc[t] = "realJoin" /\ HasTurn(t) /\ arg[t] \in Pthread
    BY <1>7 DEF RealJoin, MapInv, TurnOK, TurnPc
  <2>2. \A u \in Pthread : pc[u] = "realJoin" => u = t
    BY <2>1, OthersOutside DEF AlivePc, TurnPc
  <2>3. QED
    BY <1>1, <1>7, <2>1, <2>2 DEF RealJoin, ZombieOK
<1>8. ASSUME NEW t \in Pthread, NEW p \in Pthread, PthreadCreate(t, p) PROVE ZombieOK'
  BY <1>1, <1>8 DEF PthreadCreate, ZombieOK
<1>9. ASSUME NEW t \in Pthread, NEW u \in Pthread, JoinLoop(t, u) PROVE ZombieOK'
  BY <1>1, <1>9 DEF JoinLoop, Goto, ZombieOK, mapVars
<1>10. ASSUME NEW t \in Pthread, NEW u \in Pthread, Detach(t, u) PROVE ZombieOK'
  BY <1>1, <1>10 DEF Detach, Goto, ZombieOK
<1>11. CASE UNCHANGED vars
  BY <1>11 DEF vars, mapVars, ZombieOK
<1>12. QED
  BY <1>2, <1>3, <1>4, <1>5, <1>6, <1>7, <1>8, <1>9, <1>10, <1>11
     DEF Next, CreateStep, BeginStep

\* The turn holder is in the real pthread_join of a thread that has not ended only when
\* the id is that of an earlier thread which was detached: for any number of threads, with
\* ids handed out again as soon as they are free.
THEOREM JoinsAreSafe == Spec => []JoinsEndedOrReused
<1>1. Init => ZombieOK
  BY DEF Init, ZombieOK
<1>2. MapInv /\ ZombieOK /\ [Next]_vars => ZombieOK'
  BY ZombieStep
<1>3. ZombieOK => JoinsEndedOrReused
  BY DEF ZombieOK, JoinsEndedOrReused
<1>4. QED
  BY <1>1, <1>2, <1>3, MapInductive, PTL DEF Spec

-----------------------------------------------------------------------------
(* The semaphores of pthread_create. *)

\* One thread of the application creates the others.
OneCreator == \A t, u \in Creators : t = u

NotBegun == BeginPc \cup {"assert"}

\* Where the two semaphores are when t is in pthread_create: posted once each, in order,
\* to the child of t and back, and the child is the only thread that is beginning.
Handshake(t) ==
  /\ t \in Creators /\ arg[t] \in Pthread \ {t}
  /\ \A p \in Pthread :
       (pc[p] \in NotBegun => p = arg[t]) /\ (pc[p] \in CreatePc => p = t)
  /\ \/ /\ pc[t] \in {"create", "post"} /\ pc[arg[t]] = "begin"
        /\ thread_begin_sem = 0 /\ thread_begin_done_sem = 0
     \/ /\ pc[t] = "waitDone" /\ pc[arg[t]] = "begin"
        /\ thread_begin_sem = 1 /\ thread_begin_done_sem = 0
     \/ /\ pc[t] = "waitDone" /\ pc[arg[t]] \in {"self", "done"}
        /\ thread_begin_sem = 0 /\ thread_begin_done_sem = 0
     \/ /\ pc[t] = "waitDone" /\ pc[arg[t]] \notin NotBegun
        /\ thread_begin_sem = 0 /\ thread_begin_done_sem = 1
  /\ pc[t] # "create" /\ pc[arg[t]] \in NotBegun => p_t_map[arg[t]] # InvalidTid

\* Nobody is in pthread_create, and nothing is left of an earlier creation.
Quiet ==
  /\ \A p \in Pthread : pc[p] \notin CreatePc \cup NotBegun
  /\ thread_begin_sem = 0 /\ thread_begin_done_sem = 0

CreateOK == Quiet \/ \E t \in Pthread : pc[t] \in CreatePc /\ Handshake(t)

\* A step that concerns no thread of a creation leaves the creation as it is.
LEMMA BystanderStep ==
  ASSUME MapInv, CreateOK, UNCHANGED semVars,
         \A p \in Pthread :
           pc[p] \in CreatePc \cup NotBegun \/ pc'[p] \in CreatePc \cup NotBegun =>
             pc'[p] = pc[p] /\ arg'[p] = arg[p] /\ p_t_map'[p] = p_t_map[p]
  PROVE  CreateOK'
<1> USE DEF CreatePc, BeginPc, NotBegun, semVars
<1>1. CASE Quiet
  BY <1>1 DEF CreateOK, Quiet
<1>2. ASSUME NEW t \in Pthread, pc[t] \in CreatePc, Handshake(t) PROVE CreateOK'
  <2>1. pc'[t] = pc[t] /\ arg'[t] = arg[t] /\ arg[t] \in Pthread \ {t} /\ t \in Creators
    BY <1>2 DEF Handshake
  <2>2. \A p \in Pthread :
          (pc'[p] \in NotBegun => p = arg[t]) /\ (pc'[p] \in CreatePc => p = t)
    BY <1>2 DEF Handshake
  <2>3. \/ pc'[arg[t]] = pc[arg[t]] /\ p_t_map'[arg[t]] = p_t_map[arg[t]]
        \/ pc[arg[t]] \notin NotBegun /\ pc'[arg[t]] \notin NotBegun
    BY <2>1
  <2>4. Handshake(t)'
    BY <1>2, <2>1, <2>2, <2>3 DEF Handshake
  <2>5. QED
    BY <1>2, <2>1, <2>4 DEF CreateOK
<1>3. QED
  BY <1>1, <1>2 DEF CreateOK

\* The steps of pthread_create and threadBegin: the two semaphores go round once.
LEMMA HandshakeStep ==
  ASSUME MapInv, CreateOK, NEW t \in Pthread,
         \/ Create(t) \/ PostBegin(t) \/ WaitDone(t)
         \/ WaitBegin(t) \/ Self(t) \/ PostDone(t)
  PROVE  CreateOK'
<1> USE DEF CreatePc, BeginPc, NotBegun
<1>1. /\ pc \in [Pthread -> Pc] /\ arg \in [Pthread -> Pthread \cup {NoThread}]
      /\ p_t_map \in [Pthread -> Tid \cup {InvalidTid}]
  BY DEF MapInv, TypeOK
<1>2. pc[t] \in CreatePc \cup NotBegun
  BY DEF Create, PostBegin, WaitDone, WaitBegin, Self, PostDone
<1>3. PICK c \in Pthread : pc[c] \in CreatePc /\ Handshake(c)
  BY <1>2 DEF CreateOK, Quiet
<1> DEFINE a == arg[c]
<1>4. /\ c \in Creators /\ a \in Pthread /\ a # c /\ pc[c] \in CreatePc
      /\ t = c \/ t = a
      /\ \A p \in Pthread :
           (pc[p] \in NotBegun => p = a) /\ (pc[p] \in CreatePc => p = c)
  BY <1>2, <1>3 DEF Handshake
<1>5. CASE Create(t)
  <2>1. t = c /\ pc[c] = "create" /\ nthread # InvalidTid
    BY <1>4, <1>5 DEF Create, MapInv, TypeOK, InvalidTid
  <2>2. /\ t = c /\ pc[c] = "create" /\ pc' = [pc EXCEPT ![c] = "post"] /\ arg' = arg
        /\ p_t_map' = [p_t_map EXCEPT ![a] = nthread]
        /\ thread_begin_sem' = thread_begin_sem
        /\ thread_begin_done_sem' = thread_begin_done_sem
    BY <1>5, <2>1 DEF Create, Goto, semVars
  <2>3. pc[a] = "begin" /\ thread_begin_sem = 0 /\ thread_begin_done_sem = 0
    BY <1>3, <2>2 DEF Handshake
  <2>4. /\ \A p \in Pthread : pc'[p] = IF p = c THEN "post" ELSE pc[p]
        /\ p_t_map'[a] = nthread
    BY <1>1, <1>4, <2>2
  <2>5. Handshake(c)'
    BY <1>4, <2>1, <2>2, <2>3, <2>4 DEF Handshake
  <2>6. QED
    BY <2>4, <2>5 DEF CreateOK
<1>6. CASE PostBegin(t)
  <2>1. /\ t = c /\ pc[c] = "post" /\ pc' = [pc EXCEPT ![c] = "waitDone"] /\ arg' = arg
        /\ p_t_map' = p_t_map
        /\ thread_begin_sem' = thread_begin_sem + 1
        /\ thread_begin_done_sem' = thread_begin_done_sem
    BY <1>4, <1>6 DEF PostBegin, Goto, mapVars
  <2>2. /\ pc[a] = "begin" /\ thread_begin_sem = 0 /\ thread_begin_done_sem = 0
        /\ p_t_map[a] # InvalidTid
    BY <1>3, <2>1 DEF Handshake
  <2>3. \A p \in Pthread : pc'[p] = IF p = c THEN "waitDone" ELSE pc[p]
    BY <1>1, <1>4, <2>1
  <2>4. Handshake(c)'
    BY <1>4, <2>1, <2>2, <2>3 DEF Handshake
  <2>5. QED
    BY <2>3, <2>4 DEF CreateOK
<1>7. CASE WaitDone(t)
  <2>1. /\ t = c /\ pc[c] = "waitDone" /\ pc' = [pc EXCEPT ![c] = "run"]
        /\ thread_begin_sem' = thread_begin_sem
        /\ thread_begin_done_sem > 0
        /\ thread_begin_done_sem' = thread_begin_done_sem - 1
    BY <1>4, <1>7 DEF WaitDone, Goto
  <2>2. /\ pc[a] \notin NotBegun
        /\ thread_begin_sem = 0 /\ thread_begin_done_sem = 1
    BY <1>3, <2>1 DEF Handshake
  <2>3. \A p \in Pthread : pc'[p] = IF p = c THEN "run" ELSE pc[p]
    BY <1>1, <1>4, <2>1
  <2>4. Quiet'
    BY <1>4, <2>1, <2>2, <2>3 DEF Quiet
  <2>5. QED
    BY <2>4 DEF CreateOK
<1>8. CASE WaitBegin(t)
  <2>1. /\ t = a /\ pc[a] = "begin" /\ pc' = [pc EXCEPT ![a] = "self"] /\ arg' = arg
        /\ p_t_map' = p_t_map
        /\ thread_begin_sem > 0 /\ thread_begin_sem' = thread_begin_sem - 1
        /\ thread_begin_done_sem' = thread_begin_done_sem
    BY <1>4, <1>8 DEF WaitBegin, Goto, mapVars
  <2>2. /\ pc[c] = "waitDone" /\ thread_begin_sem = 1 /\ thread_begin_done_sem = 0
        /\ p_t_map[a] # InvalidTid
    BY <1>3, <2>1 DEF Handshake
  <2>3. \A p \in Pthread : pc'[p] = IF p = a THEN "self" ELSE pc[p]
    BY <1>1, <1>4, <2>1
  <2>4. Handshake(c)'
    BY <1>4, <2>1, <2>2, <2>3 DEF Handshake
  <2>5. QED
    BY <1>4, <2>3, <2>4 DEF CreateOK
<1>9. CASE Self(t)
  <2>1. /\ t = a /\ pc[a] = "self" /\ arg' = arg /\ p_t_map' = p_t_map
        /\ thread_begin_sem' = thread_begin_sem
        /\ thread_begin_done_sem' = thread_begin_done_sem
    BY <1>4, <1>9 DEF Self, semVars
  <2>2. /\ pc[c] = "waitDone" /\ thread_begin_sem = 0 /\ thread_begin_done_sem = 0
        /\ p_t_map[a] # InvalidTid
    BY <1>3, <2>1 DEF Handshake
  <2>3. \A p \in Pthread : pc'[p] = IF p = a THEN "done" ELSE pc[p]
    BY <1>1, <1>4, <1>9, <2>1, <2>2 DEF Self, Goto
  <2>4. Handshake(c)'
    BY <1>4, <2>1, <2>2, <2>3 DEF Handshake
  <2>5. QED
    BY <1>4, <2>3, <2>4 DEF CreateOK
<1>10. CASE PostDone(t)
  <2>1. /\ t = a /\ pc[a] = "done" /\ pc' = [pc EXCEPT ![a] = "threadBegin"] /\ arg' = arg
        /\ thread_begin_sem' = thread_begin_sem
        /\ thread_begin_done_sem' = thread_begin_done_sem + 1
    BY <1>4, <1>10 DEF PostDone, Goto
  <2>2. pc[c] = "waitDone" /\ thread_begin_sem = 0 /\ thread_begin_done_sem = 0
    BY <1>3, <2>1 DEF Handshake
  <2>3. \A p \in Pthread : pc'[p] = IF p = a THEN "threadBegin" ELSE pc[p]
    BY <1>1, <1>4, <2>1
  <2>4. Handshake(c)'
    BY <1>4, <2>1, <2>2, <2>3 DEF Handshake
  <2>5. QED
    BY <1>4, <2>3, <2>4 DEF CreateOK
<1>11. QED
  BY <1>5, <1>6, <1>7, <1>8, <1>9, <1>10

\* With one creator every step preserves the invariant of the semaphores: a creation
\* starts only when nothing is left of the one before.
LEMMA CreateOKStep ==
  ASSUME OneCreator, MapInv, CreateOK, [Next]_vars
  PROVE  CreateOK'
<1> USE DEF CreatePc, BeginPc, NotBegun
<1>1. /\ pc \in [Pthread -> Pc] /\ arg \in [Pthread -> Pthread \cup {NoThread}]
      /\ p_t_map \in [Pthread -> Tid \cup {InvalidTid}]
  BY DEF MapInv, TypeOK
<1>2. ASSUME NEW t \in Pthread, CreateStep(t) \/ BeginStep(t) PROVE CreateOK'
  BY <1>2, HandshakeStep DEF CreateStep, BeginStep
<1>3. ASSUME NEW t \in Pthread, TakeTurn(t) \/ RealExit(t) PROVE CreateOK'
  BY <1>1, <1>3, BystanderStep DEF TakeTurn, RealExit, Goto, mapVars
<1>4. ASSUME NEW t \in Pthread, ThreadEnd(t) PROVE CreateOK'
  BY <1>1, <1>4, BystanderStep DEF ThreadEnd, Goto
<1>5. ASSUME NEW t \in Pthread, RealJoin(t) PROVE CreateOK'
  <2>1. arg[t] \in Pthread
    BY <1>5 DEF RealJoin, MapInv, TurnOK, TurnPc
  <2>2. QED
    BY <1>1, <1>5, <2>1, BystanderStep DEF RealJoin
<1>6. ASSUME NEW t \in Pthread, NEW u \in Pthread, JoinLoop(t, u) \/ Detach(t, u)
      PROVE  CreateOK'
  <2>1. CASE JoinLoop(t, u)
    BY <1>1, <2>1, BystanderStep DEF JoinLoop, Goto, mapVars
  <2>2. CASE Detach(t, u)
    BY <1>1, <2>2, BystanderStep DEF Detach, Goto
  <2>3. QED
    BY <1>6, <2>1, <2>2
<1>7. ASSUME NEW t \in Pthread, NEW u \in Pthread, PthreadCreate(t, u) PROVE CreateOK'
  <2>1. /\ pc[t] = "run" /\ t \in Creators /\ pc[u] = "none" /\ t # u
        /\ pc' = [pc EXCEPT ![t] = "create", ![u] = "begin"]
        /\ arg' = [arg EXCEPT ![t] = u] /\ UNCHANGED semVars
    BY <1>7 DEF PthreadCreate
  <2>2. Quiet
    BY <2>1 DEF CreateOK, Handshake, OneCreator
  <2>3. /\ \A p \in Pthread : pc'[p] = IF p = t THEN "create"
                                        ELSE IF p = u THEN "begin" ELSE pc[p]
        /\ arg'[t] = u
        /\ thread_begin_sem' = 0 /\ thread_begin_done_sem' = 0
    BY <1>1, <2>1, <2>2 DEF Quiet, semVars
  <2>4. Handshake(t)'
    <3>1. \A p \in Pthread : (pc'[p] \in NotBegun => p = u) /\ (pc'[p] \in CreatePc => p = t)
      BY <2>2, <2>3 DEF Quiet
    <3>2. pc'[t] = "create" /\ pc'[u] = "begin"
      BY <2>1, <2>3
    <3>3. QED
      BY <2>1, <2>3, <3>1, <3>2 DEF Handshake
  <2>5. QED
    BY <2>3, <2>4 DEF CreateOK
<1>8. CASE UNCHANGED vars
  BY <1>8, BystanderStep DEF vars, mapVars, semVars
<1>9. QED
  BY <1>2, <1>3, <1>4, <1>5, <1>6, <1>7, <1>8 DEF Next

\* With one creator a child past thread_begin_sem is in the maps: the assert of self()
\* never fails.
THEOREM ChildrenAreMapped == ASSUME OneCreator PROVE Spec => []SelfMapped
<1>1. Init => CreateOK
  BY DEF Init, CreateOK, Quiet, CreatePc, BeginPc, NotBegun
<1>2. MapInv /\ CreateOK /\ [Next]_vars => CreateOK'
  BY CreateOKStep
<1>3. CreateOK => SelfMapped
  BY DEF CreateOK, Quiet, Handshake, SelfMapped, CreatePc, BeginPc, NotBegun
<1>4. QED
  BY <1>1, <1>2, <1>3, MapInductive, PTL DEF Spec
=============================================================================
