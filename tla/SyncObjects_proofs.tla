-------------------------- MODULE SyncObjects_proofs --------------------------
(***************************************************************************)
(* Proofs about the synchronisation operations (SyncObjects), for any      *)
(* number of threads and objects, any counts and any program.              *)
(*                                                                         *)
(* The first part shows what the queues of the scheduler do, seen as sets  *)
(* (Moved); after that an operation is a change of chan, of the objects    *)
(* and of where its own thread is, and the queues are not looked at again. *)
(***************************************************************************)
EXTENDS SyncObjects, SeqLemmas

-----------------------------------------------------------------------------
(* The inductive invariant. *)

Pc == {"run", "lock", "timedlock", "cond", "sem", "semTimed", "rdlock", "wrlock",
       "barrier", "lineup"}

\* Every variable has its type.
ObjectType ==
  /\ owner \in [Mutex -> Thread \cup {None}]
  /\ readers \in [RWLock -> SUBSET Thread] /\ writer \in [RWLock -> Thread \cup {None}]
  /\ value \in [Sem -> Nat] /\ narrived \in [Barrier -> Nat] /\ nactive \in [Lineup -> Nat]
  /\ phase \in [Lineup -> {"ARRIVING", "LEAVING"}] /\ inside \in [Lineup -> SUBSET Thread]
SyncType ==
  /\ users \in [Object -> SUBSET Thread]
  /\ runq \in Seq(Thread) /\ waitq \in Seq(Thread)
  /\ chan \in [Thread -> Object \cup {None}]
  /\ timed \in [Thread -> BOOLEAN] /\ ret \in [Thread -> {"0", "ETIMEDOUT"}]
  /\ pc \in [Thread -> Pc] /\ arg \in [Thread -> Object \cup {None}]
  /\ ObjectType

\* A thread is in one queue, once: the wait queue while it waits on something.
QueueOK ==
  /\ IsInjective(runq) /\ IsInjective(waitq)
  /\ ToSet(runq) = {t \in Thread : chan[t] = None}
  /\ ToSet(waitq) = {t \in Thread : chan[t] # None}

\* The object of the operation a thread is in the middle of.
Place(p) ==
  CASE p \in {"lock", "timedlock", "cond"} -> Mutex
    [] p \in {"sem", "semTimed"} -> Sem
    [] p \in {"rdlock", "wrlock"} -> RWLock
    [] p = "barrier" -> Barrier
    [] p = "lineup" -> Lineup
    [] p = "run" -> {None}

\* A waiting thread is in the middle of an operation and waits on its object, or on a
\* condition variable; some operations have no timeout.
OpOK ==
  \A t \in Thread :
    /\ arg[t] \in Place(pc[t])
    /\ chan[t] # None =>
         /\ pc[t] # "run" /\ ret[t] = "0"
         /\ IF pc[t] = "cond" THEN chan[t] \in Cond ELSE chan[t] = arg[t]
    /\ timed[t] => chan[t] # None /\ pc[t] \in {"timedlock", "cond", "semTimed", "lineup"}

\* The threads asleep on c, and those that will try it again.
Sleepers(c) == {t \in Thread : chan[t] = c}
Retriers(c) ==
  {t \in Thread : /\ chan[t] = None /\ pc[t] # "run" /\ arg[t] = c
                  /\ ret[t] = "0" \/ pc[t] = "cond"}

\* No wakeup is lost on a mutex, a read-write lock or a semaphore.
MutexOK == \A m \in Mutex : owner[m] = None /\ Sleepers(m) # {} => Retriers(m) # {}
RWLockOK == \A w \in RWLock : Free(w) /\ Sleepers(w) # {} => Retriers(w) # {}
SemOK == \A s \in Sem : Sleepers(s) # {} => value[s] <= Cardinality(Retriers(s))

\* The barriers, and the lineups with the threads in them.
BarrierOK ==
  \A b \in Barrier : narrived[b] = Cardinality(Sleepers(b)) /\ narrived[b] < BarrierCount
LineupOK ==
  /\ \A l \in Lineup :
       /\ nactive[l] = Cardinality(inside[l])
       /\ phase[l] = "ARRIVING" => nactive[l] < LineupCount
       /\ phase[l] = "LEAVING" => nactive[l] > 0 /\ Sleepers(l) = {}
  /\ \A t \in Thread : pc[t] = "lineup" =>
       /\ t \in inside[arg[t]]
       /\ chan[t] = None /\ ret[t] = "0" => phase[arg[t]] = "LEAVING"

\* The part about where the threads are, and the whole.
ThreadInv == SyncType /\ QueueOK /\ OpOK
SyncInv == ThreadInv /\ MutexOK /\ RWLockOK /\ SemOK /\ BarrierOK /\ LineupOK

-----------------------------------------------------------------------------
(* What an operation does to the queues. *)

\* A list of waiting threads that an operation wakes.
Wakes(woken) ==
  woken \in Seq(Thread) /\ IsInjective(woken) /\ ToSet(woken) \subseteq ToSet(waitq)

\* The waiters of W are signalled, the time of those of E is up, and t goes to sleep on c,
\* unless c is None.
Moved(t, W, E, c, tm) ==
  /\ W \subseteq {u \in Thread : chan[u] # None}
  /\ E \subseteq {u \in Thread : timed[u] /\ u \notin W}
  /\ chan' = [u \in Thread |-> IF u = t THEN c ELSE IF u \in W \cup E THEN None ELSE chan[u]]
  /\ timed' = [u \in Thread |-> IF u = t THEN tm ELSE timed[u] /\ u \notin W \cup E]
  /\ ret' = [u \in Thread |-> IF u \in E THEN "ETIMEDOUT"
                              ELSE IF u = t /\ c # None THEN "0" ELSE ret[u]]
  /\ runq' \in Seq(Thread) /\ waitq' \in Seq(Thread) /\ QueueOK'

\* The waiters of an object are the threads asleep on it.
LEMMA WaitersProps ==
  ASSUME SyncType, QueueOK, NEW c \in Object
  PROVE  /\ Waiters(c) \in Seq(Thread) /\ IsInjective(Waiters(c))
         /\ ToSet(Waiters(c)) = Sleepers(c)
         /\ IsFiniteSet(Sleepers(c)) /\ Len(Waiters(c)) = Cardinality(Sleepers(c))
         /\ Waiters(c) = << >> <=> Sleepers(c) = {}
<1>1. waitq \in Seq(Thread) /\ IsInjective(waitq) /\ c # None
  BY SyncAssumption DEF SyncType, QueueOK
<1>2. /\ Waiters(c) \in Seq(Thread) /\ IsInjective(Waiters(c))
      /\ ToSet(Waiters(c)) = ToSet(waitq) \cap {t \in Thread : chan[t] = c}
  BY <1>1, OnlyProps DEF Waiters
<1>3. ToSet(Waiters(c)) = Sleepers(c)
  BY <1>1, <1>2 DEF QueueOK, Sleepers
<1>4. QED
  BY <1>2, <1>3, LenIsCardinality

\* What the operations wake: nobody, everybody or the oldest.
LEMMA WakesProps ==
  ASSUME SyncType, QueueOK
  PROVE  /\ Wakes(<< >>) /\ ToSet(<< >>) = {}
         /\ \A c \in Object :
              /\ Wakes(Waiters(c)) /\ ToSet(Waiters(c)) = Sleepers(c)
              /\ Wakes(Oldest(c)) /\ ToSet(Oldest(c)) \subseteq Sleepers(c)
              /\ Sleepers(c) # {} => \E w \in Sleepers(c) : ToSet(Oldest(c)) = {w}
<1>1. Wakes(<< >>) /\ ToSet(<< >>) = {} /\ << >> \in Seq(Thread) /\ IsInjective(<< >>)
  BY DEF Wakes, ToSet, IsInjective
<1>2. ASSUME NEW c \in Object
      PROVE  /\ Wakes(Waiters(c)) /\ ToSet(Waiters(c)) = Sleepers(c)
             /\ Wakes(Oldest(c)) /\ ToSet(Oldest(c)) \subseteq Sleepers(c)
             /\ Sleepers(c) # {} => \E w \in Sleepers(c) : ToSet(Oldest(c)) = {w}
  <2>1. /\ Waiters(c) \in Seq(Thread) /\ IsInjective(Waiters(c))
        /\ ToSet(Waiters(c)) = Sleepers(c)
        /\ Waiters(c) = << >> <=> Sleepers(c) = {}
    BY WaitersProps
  <2>2. Sleepers(c) \subseteq ToSet(waitq)
    BY SyncAssumption DEF QueueOK, Sleepers
  <2>3. CASE Sleepers(c) = {}
    BY <1>1, <2>1, <2>2, <2>3 DEF Wakes, Oldest
  <2>4. CASE Sleepers(c) # {}
    <3> DEFINE w == Head(Waiters(c))
    <3>1. w \in Sleepers(c) /\ w \in Thread /\ Oldest(c) = <<w>>
      BY <2>1, <2>4, HeadProps DEF Oldest, Sleepers
    <3> HIDE DEF w
    <3>2. <<w>> \in Seq(Thread) /\ ToSet(<<w>>) = {w} /\ IsInjective(<<w>>)
      BY <3>1 DEF ToSet, IsInjective
    <3>3. QED
      BY <2>1, <2>2, <3>1, <3>2 DEF Wakes
  <2>5. QED
    BY <2>3, <2>4
<1>3. QED
  BY <1>1, <1>2

\* The queues after signal() has moved woken and the waiters of E have timed out.
LEMMA QueuesMove ==
  ASSUME SyncType, QueueOK, NEW woken, Wakes(woken), NEW E \in SUBSET ToSet(waitq),
         E \cap ToSet(woken) = {}, NEW q \in Seq(Thread), IsInjective(q),
         ToSet(q) \cap ToSet(waitq) = {}
  PROVE  /\ q \o woken \o Only(waitq, E) \in Seq(Thread)
         /\ ToSet(q \o woken \o Only(waitq, E)) = ToSet(q) \cup ToSet(woken) \cup E
         /\ IsInjective(q \o woken \o Only(waitq, E))
         /\ Except(waitq, ToSet(woken) \cup E) \in Seq(Thread)
         /\ ToSet(Except(waitq, ToSet(woken) \cup E)) = ToSet(waitq) \ (ToSet(woken) \cup E)
         /\ IsInjective(Except(waitq, ToSet(woken) \cup E))
<1> DEFINE e == Only(waitq, E)
           p == q \o woken
<1>1. waitq \in Seq(Thread) /\ IsInjective(waitq)
  BY DEF SyncType, QueueOK
<1>2. e \in Seq(Thread) /\ ToSet(e) = E /\ IsInjective(e)
  <2>1. ToSet(waitq) \cap E = E
    OBVIOUS
  <2>2. QED
    BY <1>1, <2>1, OnlyProps, ZenonT(60)
<1>3. /\ Except(waitq, ToSet(woken) \cup E) \in Seq(Thread)
      /\ ToSet(Except(waitq, ToSet(woken) \cup E)) = ToSet(waitq) \ (ToSet(woken) \cup E)
      /\ IsInjective(Except(waitq, ToSet(woken) \cup E))
  BY <1>1, OnlyProps DEF Except
<1>4. p \in Seq(Thread) /\ ToSet(p) = ToSet(q) \cup ToSet(woken) /\ IsInjective(p)
  BY ConcatProps DEF Wakes
<1> HIDE DEF e, p
<1>5. p \o e \in Seq(Thread) /\ ToSet(p \o e) = ToSet(p) \cup ToSet(e) /\ IsInjective(p \o e)
  BY <1>2, <1>4, ConcatProps
<1>6. QED
  BY <1>2, <1>3, <1>4, <1>5 DEF e, p

\* The thread with the turn is runnable, and the others stay behind it.
LEMMA HolderProps ==
  ASSUME ThreadInv, NEW t \in Thread, HasTurn(t)
  PROVE  /\ chan[t] = None /\ timed[t] = FALSE
         /\ Tail(runq) \in Seq(Thread) /\ IsInjective(Tail(runq))
         /\ ToSet(Tail(runq)) = {u \in Thread : chan[u] = None} \ {t}
         /\ ToSet(Tail(runq)) \cap ToSet(waitq) = {} /\ t \notin ToSet(waitq)
<1>1. /\ runq \in Seq(Thread) /\ runq # << >> /\ Head(runq) = t /\ IsInjective(runq)
      /\ ToSet(runq) = {u \in Thread : chan[u] = None}
      /\ ToSet(waitq) = {u \in Thread : chan[u] # None}
  BY DEF ThreadInv, SyncType, QueueOK, HasTurn
<1>2. t \in ToSet(runq)
  BY <1>1, HeadProps
<1>3. /\ Tail(runq) \in Seq(Thread) /\ IsInjective(Tail(runq)) /\ t \notin ToSet(Tail(runq))
      /\ ToSet(runq) = ToSet(Tail(runq)) \cup {t}
  BY <1>1, TailProps
<1>4. chan[t] = None /\ timed[t] = FALSE
  BY <1>1, <1>2 DEF ThreadInv, OpOK, SyncType
<1> DEFINE r == Tail(runq)
<1>5. r \in Seq(Thread) /\ IsInjective(r) /\ t \notin ToSet(r) /\ ToSet(runq) = ToSet(r) \cup {t}
  BY <1>3
<1> HIDE DEF r
<1>6. ToSet(r) = {u \in Thread : chan[u] = None} \ {t}
  BY <1>1, <1>5
<1>7. ToSet(r) \cap ToSet(waitq) = {} /\ t \notin ToSet(waitq)
  BY <1>1, <1>4, <1>6
<1>8. QED
  BY <1>4, <1>5, <1>6, <1>7 DEF r

\* putTurn() with the signals before it.
LEMMA PutTurnMoves ==
  ASSUME ThreadInv, NEW t \in Thread, HasTurn(t), NEW woken, Wakes(woken), putTurn(t, woken)
  PROVE  \E E \in SUBSET Thread : Moved(t, ToSet(woken), E, None, FALSE)
<1> DEFINE W == ToSet(woken)
           r == Tail(runq)
           q == r \o woken
<1>1. /\ chan[t] = None /\ timed[t] = FALSE /\ r \in Seq(Thread) /\ IsInjective(r)
      /\ ToSet(r) = {u \in Thread : chan[u] = None} \ {t}
      /\ ToSet(r) \cap ToSet(waitq) = {} /\ t \notin ToSet(waitq)
  BY HolderProps
<1>2. /\ chan \in [Thread -> Object \cup {None}] /\ timed \in [Thread -> BOOLEAN]
      /\ ToSet(waitq) = {u \in Thread : chan[u] # None} /\ W \subseteq ToSet(waitq)
  BY DEF ThreadInv, SyncType, QueueOK, Wakes
<1>3. PICK E \in SUBSET MayExpire(woken) :
        /\ runq' = Append(r \o woken \o Only(waitq, E), t)
        /\ waitq' = Except(waitq, W \cup E)
        /\ ret' = [u \in Thread |-> IF u \in E THEN "ETIMEDOUT" ELSE ret[u]]
        /\ chan' = [u \in Thread |-> IF u \in W \cup E THEN None ELSE chan[u]]
        /\ timed' = [u \in Thread |-> timed[u] /\ u \notin W \cup E]
  BY DEF putTurn
<1>4. E \subseteq ToSet(waitq) /\ E \cap W = {} /\ \A u \in E : timed[u]
  BY <1>3 DEF MayExpire
<1> DEFINE p == r \o woken \o Only(waitq, E)
<1>5. /\ p \in Seq(Thread) /\ ToSet(p) = ToSet(r) \cup W \cup E /\ IsInjective(p)
      /\ waitq' \in Seq(Thread) /\ ToSet(waitq') = ToSet(waitq) \ (W \cup E)
      /\ IsInjective(waitq')
  BY <1>1, <1>3, <1>4, QueuesMove, ZenonT(60) DEF ThreadInv
<1>6. runq' = Append(p, t)
  BY <1>3
<1> HIDE DEF p, W, r
<1>7. t \notin ToSet(p)
  BY <1>1, <1>2, <1>4, <1>5
<1>8. runq' \in Seq(Thread) /\ ToSet(runq') = ToSet(p) \cup {t} /\ IsInjective(runq')
  BY <1>5, <1>6, <1>7, AppendProps
<1>9. /\ ToSet(runq') = {u \in Thread : chan'[u] = None}
      /\ ToSet(waitq') = {u \in Thread : chan'[u] # None}
  <2>1. \A u \in Thread : chan'[u] = IF u \in W \cup E THEN None ELSE chan[u]
    BY <1>3
  <2>2. /\ ToSet(runq') = ({u \in Thread : chan[u] = None} \ {t}) \cup W \cup E \cup {t}
        /\ ToSet(waitq') = {u \in Thread : chan[u] # None} \ (W \cup E)
        /\ W \cup E \subseteq {u \in Thread : chan[u] # None}
    BY <1>1, <1>2, <1>4, <1>5, <1>8
  <2>3. QED
    BY <1>1, <2>1, <2>2
<1>10. QueueOK'
  BY <1>5, <1>8, <1>9 DEF QueueOK
<1>11. /\ chan' = [u \in Thread |-> IF u = t THEN None
                                   ELSE IF u \in W \cup E THEN None ELSE chan[u]]
       /\ ret' = [u \in Thread |-> IF u \in E THEN "ETIMEDOUT"
                                   ELSE IF u = t /\ None # None THEN "0" ELSE ret[u]]
  BY <1>1, <1>3
<1>12. timed' = [u \in Thread |-> IF u = t THEN FALSE ELSE timed[u] /\ u \notin W \cup E]
  BY <1>1, <1>3, Zenon
<1>13. /\ W \subseteq {u \in Thread : chan[u] # None}
       /\ E \subseteq {u \in Thread : timed[u] /\ u \notin W}
  BY <1>2, <1>4
<1>14. Moved(t, W, E, None, FALSE)
  BY <1>5, <1>8, <1>10, <1>11, <1>12, <1>13 DEF Moved
<1>15. QED
  BY <1>2, <1>4, <1>14 DEF W

\* syncWait() with the signals before it.
LEMMA SyncWaitMoves ==
  ASSUME ThreadInv, NEW t \in Thread, HasTurn(t), NEW woken, Wakes(woken),
         NEW c \in Object, NEW tm \in BOOLEAN, syncWait(t, woken, c, tm)
  PROVE  \E E \in SUBSET Thread : Moved(t, ToSet(woken), E, c, tm)
<1> DEFINE W == ToSet(woken)
           r == Tail(runq)
<1>1. /\ chan[t] = None /\ timed[t] = FALSE /\ r \in Seq(Thread) /\ IsInjective(r)
      /\ ToSet(r) = {u \in Thread : chan[u] = None} \ {t}
      /\ ToSet(r) \cap ToSet(waitq) = {} /\ t \notin ToSet(waitq) /\ c # None
  BY HolderProps, SyncAssumption
<1>2. /\ chan \in [Thread -> Object \cup {None}] /\ timed \in [Thread -> BOOLEAN]
      /\ ToSet(waitq) = {u \in Thread : chan[u] # None} /\ W \subseteq ToSet(waitq)
  BY DEF ThreadInv, SyncType, QueueOK, Wakes
<1>3. PICK E \in SUBSET MayExpire(woken) :
        /\ runq' = r \o woken \o Only(waitq, E)
        /\ waitq' = Append(Except(waitq, W \cup E), t)
        /\ ret' = [u \in Thread |-> IF u \in E THEN "ETIMEDOUT"
                                    ELSE IF u = t THEN "0" ELSE ret[u]]
        /\ chan' = [u \in Thread |-> IF u = t THEN c
                                     ELSE IF u \in W \cup E THEN None ELSE chan[u]]
        /\ timed' = [u \in Thread |-> IF u = t THEN tm ELSE timed[u] /\ u \notin W \cup E]
  BY DEF syncWait
<1>4. E \subseteq ToSet(waitq) /\ E \cap W = {} /\ \A u \in E : timed[u]
  BY <1>3 DEF MayExpire
<1> DEFINE x == Except(waitq, W \cup E)
<1>5. /\ runq' \in Seq(Thread) /\ ToSet(runq') = ToSet(r) \cup W \cup E /\ IsInjective(runq')
      /\ x \in Seq(Thread) /\ ToSet(x) = ToSet(waitq) \ (W \cup E) /\ IsInjective(x)
  BY <1>1, <1>3, <1>4, QueuesMove DEF ThreadInv
<1>6. waitq' = Append(x, t)
  BY <1>3
<1> HIDE DEF x, W, r
<1>7. t \notin ToSet(x)
  BY <1>1, <1>5
<1>8. waitq' \in Seq(Thread) /\ ToSet(waitq') = ToSet(x) \cup {t} /\ IsInjective(waitq')
  BY <1>5, <1>6, <1>7, AppendProps
<1>9. /\ ToSet(runq') = {u \in Thread : chan'[u] = None}
      /\ ToSet(waitq') = {u \in Thread : chan'[u] # None}
  <2>1. \A u \in Thread : chan'[u] = IF u = t THEN c
                                       ELSE IF u \in W \cup E THEN None ELSE chan[u]
    BY <1>3
  <2>2. /\ ToSet(runq') = ({u \in Thread : chan[u] = None} \ {t}) \cup W \cup E
        /\ ToSet(waitq') = ({u \in Thread : chan[u] # None} \ (W \cup E)) \cup {t}
        /\ W \cup E \subseteq {u \in Thread : chan[u] # None}
    BY <1>1, <1>2, <1>4, <1>5, <1>8
  <2>3. QED
    BY <1>1, <2>1, <2>2
<1>10. QueueOK'
  BY <1>5, <1>8, <1>9 DEF QueueOK
<1>11. ret' = [u \in Thread |-> IF u \in E THEN "ETIMEDOUT"
                                ELSE IF u = t /\ c # None THEN "0" ELSE ret[u]]
  BY <1>1, <1>3
<1>12. /\ W \subseteq {u \in Thread : chan[u] # None}
       /\ E \subseteq {u \in Thread : timed[u] /\ u \notin W}
  BY <1>2, <1>4
<1>13. Moved(t, W, E, c, tm)
  BY <1>3, <1>5, <1>8, <1>10, <1>11, <1>12, Zenon DEF Moved
<1>14. QED
  BY <1>2, <1>4, <1>13 DEF W

\* The idle thread's turn: nobody goes to sleep.
LEMMA TickMoves ==
  ASSUME ThreadInv, NEW E \in SUBSET MayExpire(<< >>), Tick(E)
  PROVE  E \in SUBSET Thread /\ Moved(None, {}, E, None, FALSE)
<1>1. /\ chan \in [Thread -> Object \cup {None}] /\ timed \in [Thread -> BOOLEAN]
      /\ runq \in Seq(Thread) /\ IsInjective(runq)
      /\ ToSet(runq) = {u \in Thread : chan[u] = None}
      /\ ToSet(waitq) = {u \in Thread : chan[u] # None}
      /\ ret \in [Thread -> {"0", "ETIMEDOUT"}]
  BY DEF ThreadInv, SyncType, QueueOK
<1>2. Wakes(<< >>) /\ ToSet(<< >>) = {}
  BY WakesProps DEF ThreadInv
<1>3. E \subseteq ToSet(waitq) /\ E \subseteq Thread /\ \A u \in E : timed[u]
  BY <1>1 DEF MayExpire
<1>4. /\ runq' = runq \o Only(waitq, E) /\ waitq' = Except(waitq, E)
      /\ ret' = [u \in Thread |-> IF u \in E THEN "ETIMEDOUT" ELSE ret[u]]
      /\ chan' = [u \in Thread |-> IF u \in E THEN None ELSE chan[u]]
      /\ timed' = [u \in Thread |-> timed[u] /\ u \notin E]
  BY DEF Tick
<1>5. /\ runq \o << >> = runq /\ ToSet(<< >>) \cup E = E /\ E \cap ToSet(<< >>) = {}
      /\ ToSet(runq) \cap ToSet(waitq) = {}
  BY <1>1, <1>2
<1>6. /\ runq \o << >> \o Only(waitq, E) \in Seq(Thread)
      /\ ToSet(runq \o << >> \o Only(waitq, E)) = ToSet(runq) \cup ToSet(<< >>) \cup E
      /\ IsInjective(runq \o << >> \o Only(waitq, E))
      /\ Except(waitq, ToSet(<< >>) \cup E) \in Seq(Thread)
      /\ ToSet(Except(waitq, ToSet(<< >>) \cup E)) = ToSet(waitq) \ (ToSet(<< >>) \cup E)
      /\ IsInjective(Except(waitq, ToSet(<< >>) \cup E))
  BY <1>1, <1>2, <1>3, <1>5, QueuesMove, Zenon DEF ThreadInv
<1>7. /\ runq' \in Seq(Thread) /\ ToSet(runq') = ToSet(runq) \cup E /\ IsInjective(runq')
      /\ waitq' \in Seq(Thread) /\ ToSet(waitq') = ToSet(waitq) \ E /\ IsInjective(waitq')
  <2>1. ToSet(runq) \cup ToSet(<< >>) \cup E = ToSet(runq) \cup E
    BY <1>2
  <2>2. QED
    BY <1>4, <1>5, <1>6, <2>1, Zenon
<1>8. /\ ToSet(runq') = {u \in Thread : chan'[u] = None}
      /\ ToSet(waitq') = {u \in Thread : chan'[u] # None}
  BY <1>1, <1>3, <1>4, <1>7
<1>9. QueueOK'
  BY <1>7, <1>8 DEF QueueOK
<1>10. /\ chan' = [u \in Thread |-> IF u = None THEN None
                                    ELSE IF u \in {} \cup E THEN None ELSE chan[u]]
       /\ ret' = [u \in Thread |-> IF u \in E THEN "ETIMEDOUT"
                                   ELSE IF u = None /\ None # None THEN "0" ELSE ret[u]]
  BY <1>4, SyncAssumption
<1>11. timed' = [u \in Thread |-> IF u = None THEN FALSE ELSE timed[u] /\ u \notin {} \cup E]
  <2>1. \A u \in Thread : u # None
    BY SyncAssumption
  <2>2. QED
    BY <1>4, <2>1, Zenon
<1>12. QED
  BY <1>3, <1>7, <1>9, <1>10, <1>11 DEF Moved

-----------------------------------------------------------------------------
(* What an operation leaves alone. *)

\* A step of t: the queues move as above, and no other thread gets anywhere.
StepOf(t, W, E, c, tm) ==
  /\ Moved(t, W, E, c, tm)
  /\ t \in Thread \cup {None} /\ W \subseteq Thread /\ E \subseteq Thread
  /\ c \in Object \cup {None} /\ tm \in BOOLEAN /\ (t \in Thread => chan[t] = None)
  /\ pc' \in [Thread -> Pc] /\ arg' \in [Thread -> Object \cup {None}]
  /\ \A u \in Thread : u # t => pc'[u] = pc[u] /\ arg'[u] = arg[u]

\* t is left at a place that fits the object it waits on.
Fits(t, c, tm) ==
  t \in Thread =>
    /\ arg'[t] \in Place(pc'[t])
    /\ c # None => pc'[t] # "run" /\ IF pc'[t] = "cond" THEN c \in Cond ELSE c = arg'[t]
    /\ tm => c # None /\ pc'[t] \in {"timedlock", "cond", "semTimed", "lineup"}

\* The objects and None are all different.
LEMMA Apart ==
  /\ None \notin Object /\ None \notin Thread
  /\ \A o \in Mutex : o \in Object /\ o \notin Cond \cup Sem \cup RWLock \cup Barrier \cup Lineup
  /\ \A o \in Cond : o \in Object /\ o \notin Mutex \cup Sem \cup RWLock \cup Barrier \cup Lineup
  /\ \A o \in Sem : o \in Object /\ o \notin Mutex \cup Cond \cup RWLock \cup Barrier \cup Lineup
  /\ \A o \in RWLock : o \in Object /\ o \notin Mutex \cup Cond \cup Sem \cup Barrier \cup Lineup
  /\ \A o \in Barrier : o \in Object /\ o \notin Mutex \cup Cond \cup Sem \cup RWLock \cup Lineup
  /\ \A o \in Lineup : o \in Object /\ o \notin Mutex \cup Cond \cup Sem \cup RWLock \cup Barrier
  BY SyncAssumption, AddressAssumption DEF Object

\* Which place has an object of which kind.
LEMMA Places ==
  ASSUME NEW p \in Pc, NEW o, o \in Place(p)
  PROVE  /\ o \in Mutex => p \in {"lock", "timedlock", "cond"}
         /\ o \in Sem => p \in {"sem", "semTimed"}
         /\ o \in RWLock => p \in {"rdlock", "wrlock"}
         /\ o \in Barrier => p = "barrier"
         /\ o \in Lineup => p = "lineup"
         /\ p \in {"lock", "timedlock", "cond"} => o \in Mutex
         /\ p \in {"sem", "semTimed"} => o \in Sem
         /\ p \in {"rdlock", "wrlock"} => o \in RWLock
         /\ p = "barrier" => o \in Barrier
         /\ p = "lineup" => o \in Lineup
         /\ p = "run" <=> o = None
  BY Apart DEF Place, Pc

\* There are finitely many threads.
LEMMA ThreadsFinite == IsFiniteSet(Thread)
  BY SyncAssumption, LenIsCardinality

\* The new state of the queues has its type, and a woken thread is where it was.
LEMMA MovedProps ==
  ASSUME ThreadInv, NEW t, NEW W, NEW E, NEW c, NEW tm, StepOf(t, W, E, c, tm)
  PROVE  /\ \A u \in Thread :
              /\ chan'[u] = IF u = t THEN c ELSE IF u \in W \cup E THEN None ELSE chan[u]
              /\ u \in W \cup E => chan[u] # None /\ u # t
              /\ u \in E => timed[u] /\ u \notin W
              /\ ret'[u] = IF u \in E THEN "ETIMEDOUT"
                           ELSE IF u = t /\ c # None THEN "0" ELSE ret[u]
         /\ chan' \in [Thread -> Object \cup {None}]
         /\ ret' \in [Thread -> {"0", "ETIMEDOUT"}]
         /\ timed' \in [Thread -> BOOLEAN]
         /\ \A u \in Thread : timed'[u] => IF u = t THEN tm ELSE timed[u] /\ u \notin W \cup E
<1>1. /\ chan \in [Thread -> Object \cup {None}] /\ ret \in [Thread -> {"0", "ETIMEDOUT"}]
      /\ timed \in [Thread -> BOOLEAN] /\ \A u \in Thread : timed[u] => chan[u] # None
  BY DEF ThreadInv, SyncType, OpOK
<1>2. /\ \A u \in Thread :
           /\ chan'[u] = IF u = t THEN c ELSE IF u \in W \cup E THEN None ELSE chan[u]
           /\ ret'[u] = IF u \in E THEN "ETIMEDOUT"
                        ELSE IF u = t /\ c # None THEN "0" ELSE ret[u]
      /\ chan' \in [Thread -> Object \cup {None}]
      /\ ret' \in [Thread -> {"0", "ETIMEDOUT"}]
  BY <1>1 DEF StepOf, Moved
<1>3. \A u \in Thread :
        /\ u \in W \cup E => chan[u] # None /\ u # t
        /\ u \in E => timed[u] /\ u \notin W
  BY <1>1 DEF StepOf, Moved
<1>4. timed' = [u \in Thread |-> IF u = t THEN tm ELSE timed[u] /\ u \notin W \cup E]
  BY DEF StepOf, Moved
<1>5. timed' \in [Thread -> BOOLEAN]
  <2>1. \A u \in Thread : (IF u = t THEN tm ELSE timed[u] /\ u \notin W \cup E) \in BOOLEAN
    BY DEF StepOf
  <2>2. QED
    BY <1>4, <2>1, Zenon
<1>6. \A u \in Thread : timed'[u] => IF u = t THEN tm ELSE timed[u] /\ u \notin W \cup E
  BY <1>4, Zenon
<1>7. QED
  BY <1>2, <1>3, <1>5, <1>6

\* A step keeps the threads and the queues in order.
LEMMA ThreadKeeps ==
  ASSUME ThreadInv, NEW t, NEW W, NEW E, NEW c, NEW tm, StepOf(t, W, E, c, tm),
         Fits(t, c, tm), ObjectType', users' = users
  PROVE  ThreadInv'
<1>1. /\ \A u \in Thread :
           /\ chan'[u] = IF u = t THEN c ELSE IF u \in W \cup E THEN None ELSE chan[u]
           /\ u \in W \cup E => chan[u] # None /\ u # t
           /\ ret'[u] = IF u \in E THEN "ETIMEDOUT"
                        ELSE IF u = t /\ c # None THEN "0" ELSE ret[u]
           /\ timed'[u] => IF u = t THEN tm ELSE timed[u] /\ u \notin W \cup E
      /\ chan' \in [Thread -> Object \cup {None}]
      /\ ret' \in [Thread -> {"0", "ETIMEDOUT"}] /\ timed' \in [Thread -> BOOLEAN]
  BY MovedProps
<1>2. /\ pc' \in [Thread -> Pc] /\ arg' \in [Thread -> Object \cup {None}]
      /\ \A u \in Thread : u # t => pc'[u] = pc[u] /\ arg'[u] = arg[u]
      /\ runq' \in Seq(Thread) /\ waitq' \in Seq(Thread) /\ QueueOK'
  BY DEF StepOf, Moved
<1>3. SyncType'
  BY <1>1, <1>2 DEF ThreadInv, SyncType
<1>4. ASSUME NEW u \in Thread
      PROVE  /\ arg'[u] \in Place(pc'[u])
             /\ chan'[u] # None =>
                  /\ pc'[u] # "run" /\ ret'[u] = "0"
                  /\ IF pc'[u] = "cond" THEN chan'[u] \in Cond ELSE chan'[u] = arg'[u]
             /\ timed'[u] => chan'[u] # None /\ pc'[u] \in {"timedlock", "cond", "semTimed", "lineup"}
  <2>1. CASE u = t
    <3>1. u \notin E
      BY <1>1, <2>1
    <3>2. QED
      BY <1>1, <2>1, <3>1 DEF Fits
  <2>2. CASE u # t
    <3>1. /\ pc'[u] = pc[u] /\ arg'[u] = arg[u]
          /\ chan'[u] # None => u \notin W \cup E /\ chan'[u] = chan[u] /\ ret'[u] = ret[u]
          /\ timed'[u] => timed[u] /\ u \notin W \cup E /\ chan'[u] = chan[u]
      BY <1>1, <1>2, <2>2
    <3>2. QED
      BY <3>1 DEF ThreadInv, OpOK
  <2>3. QED
    BY <2>1, <2>2
<1>5. OpOK'
  BY <1>4 DEF OpOK
<1>6. QED
  BY <1>2, <1>3, <1>5 DEF ThreadInv

\* Who was about to try o again still is, but for t, and so is a woken sleeper of o; the
\* sleepers of o are among the ones before, but for t and the woken.
LEMMA RetriersGrow ==
  ASSUME ThreadInv, NEW t, NEW W, NEW E, NEW c, NEW tm, StepOf(t, W, E, c, tm),
         NEW o \in Object
  PROVE  /\ Retriers(o) \ {t} \subseteq Retriers(o)'
         /\ \A w \in W : chan[w] = o /\ o \notin Cond => w \in Retriers(o)' /\ w \notin Retriers(o)
         /\ c # o => Sleepers(o)' \subseteq Sleepers(o) \ W
<1>1. /\ \A u \in Thread :
           /\ chan'[u] = IF u = t THEN c ELSE IF u \in W \cup E THEN None ELSE chan[u]
           /\ u \in W \cup E => chan[u] # None /\ u # t
           /\ u \in E => u \notin W
           /\ ret'[u] = IF u \in E THEN "ETIMEDOUT"
                        ELSE IF u = t /\ c # None THEN "0" ELSE ret[u]
      /\ \A u \in Thread : u # t => pc'[u] = pc[u] /\ arg'[u] = arg[u]
      /\ W \subseteq Thread /\ o # None
  BY MovedProps, Apart DEF StepOf
<1>2. ASSUME NEW u \in Retriers(o), u # t PROVE u \in Retriers(o)'
  BY <1>1, <1>2 DEF Retriers
<1>3. ASSUME NEW w \in W, chan[w] = o, o \notin Cond
      PROVE  w \in Retriers(o)' /\ w \notin Retriers(o)
  <2>1. pc[w] # "run" /\ ret[w] = "0" /\ arg[w] = o
    BY <1>1, <1>3 DEF ThreadInv, OpOK
  <2>2. QED
    BY <1>1, <1>3, <2>1 DEF Retriers
<1>4. c # o => Sleepers(o)' \subseteq Sleepers(o) \ W
  BY <1>1 DEF Sleepers
<1>5. QED
  BY <1>2, <1>3, <1>4

\* The mutexes: one that is free stays free, or is released with a signal to a sleeper.
LEMMA MutexKeeps ==
  ASSUME ThreadInv, MutexOK, NEW t, NEW W, NEW E, NEW c, NEW tm, StepOf(t, W, E, c, tm),
         \A m \in Mutex : owner'[m] = None =>
           /\ c # m
           /\ \/ owner[m] = None /\ t \notin Retriers(m)
              \/ Sleepers(m) # {} => \E w \in W : chan[w] = m
  PROVE  MutexOK'
<1> SUFFICES ASSUME NEW m \in Mutex, owner'[m] = None, Sleepers(m)' # {}
             PROVE  Retriers(m)' # {}
  BY DEF MutexOK
<1>1. m \in Object /\ m \notin Cond
  BY Apart
<1>2. /\ Retriers(m) \ {t} \subseteq Retriers(m)'
      /\ \A w \in W : chan[w] = m => w \in Retriers(m)'
      /\ Sleepers(m)' \subseteq Sleepers(m)
  BY <1>1, RetriersGrow
<1>3. Sleepers(m) # {}
  BY <1>2
<1>4. QED
  BY <1>2, <1>3 DEF MutexOK

\* The read-write locks, likewise.
LEMMA RWLockKeeps ==
  ASSUME ThreadInv, RWLockOK, NEW t, NEW W, NEW E, NEW c, NEW tm, StepOf(t, W, E, c, tm),
         \A x \in RWLock : Free(x)' =>
           /\ c # x
           /\ \/ Free(x) /\ t \notin Retriers(x)
              \/ Sleepers(x) # {} => \E w \in W : chan[w] = x
  PROVE  RWLockOK'
<1> SUFFICES ASSUME NEW x \in RWLock, Free(x)', Sleepers(x)' # {}
             PROVE  Retriers(x)' # {}
  BY DEF RWLockOK
<1>1. x \in Object /\ x \notin Cond
  BY Apart
<1>2. /\ Retriers(x) \ {t} \subseteq Retriers(x)'
      /\ \A w \in W : chan[w] = x => w \in Retriers(x)'
      /\ Sleepers(x)' \subseteq Sleepers(x)
  BY <1>1, RetriersGrow
<1>3. Sleepers(x) # {}
  BY <1>2
<1>4. QED
  BY <1>2, <1>3 DEF RWLockOK

\* The semaphores: a unit is taken by t, who may have been woken for it, or is added
\* together with a signal to a sleeper.
LEMMA SemKeeps ==
  ASSUME ThreadInv, SemOK, NEW t, NEW W, NEW E, NEW c, NEW tm, StepOf(t, W, E, c, tm),
         ObjectType', ObjectType,
         \A s \in Sem :
           \/ value'[s] = 0
           \/ c # s /\ value'[s] <= value[s] /\ t \notin Retriers(s)
           \/ c # s /\ value'[s] <= value[s] - 1
           \/ /\ c # s /\ value'[s] <= value[s] + 1 /\ t \notin Retriers(s)
              /\ Sleepers(s) # {} => \E w \in W : chan[w] = s
  PROVE  SemOK'
<1> SUFFICES ASSUME NEW s \in Sem, Sleepers(s)' # {}
             PROVE  value'[s] <= Cardinality(Retriers(s)')
  BY DEF SemOK
<1> DEFINE R == Retriers(s)
           S == Retriers(s)'
<1>1. s \in Object /\ s \notin Cond
  BY Apart
<1>2. /\ R \ {t} \subseteq S
      /\ \A w \in W : chan[w] = s => w \in S /\ w \notin R
      /\ c # s => Sleepers(s)' \subseteq Sleepers(s)
  BY <1>1, RetriersGrow
<1>3. R \subseteq Thread /\ S \subseteq Thread
  BY DEF Retriers
<1>4. IsFiniteSet(R) /\ IsFiniteSet(S)
  BY <1>3, ThreadsFinite, FS_Subset
<1>5. value[s] \in Nat /\ value'[s] \in Nat
  BY DEF ObjectType
<1>6. c # s => value[s] <= Cardinality(R)
  BY <1>2 DEF SemOK
<1> HIDE DEF R, S
<1>7. Cardinality(S) \in Nat /\ Cardinality(R) \in Nat
  BY <1>4, FS_CardinalityType
<1>8. R \subseteq S => Cardinality(R) <= Cardinality(S)
  BY <1>4, FS_Subset
<1>9. Cardinality(R) - 1 <= Cardinality(S)
  <2>1. Cardinality(R \ {t}) = IF t \in R THEN Cardinality(R) - 1 ELSE Cardinality(R)
    BY <1>4, FS_RemoveElement
  <2>2. Cardinality(R \ {t}) <= Cardinality(S)
    BY <1>2, <1>4, FS_Subset
  <2>3. QED
    BY <1>7, <2>1, <2>2
<1>10. CASE value'[s] = 0
  BY <1>5, <1>7, <1>10 DEF S
<1>11. CASE c # s /\ value'[s] <= value[s] /\ t \notin R
  BY <1>2, <1>5, <1>6, <1>7, <1>8, <1>11 DEF S
<1>12. CASE c # s /\ value'[s] <= value[s] - 1
  BY <1>5, <1>6, <1>7, <1>9, <1>12 DEF S
<1>13. ASSUME c # s, value'[s] <= value[s] + 1, t \notin R,
              Sleepers(s) # {} => \E w \in W : chan[w] = s
       PROVE  value'[s] <= Cardinality(S)
  <2>1. PICK w \in W : chan[w] = s
    BY <1>2, <1>13
  <2>2. R \cup {w} \subseteq S /\ w \notin R
    BY <1>2, <1>13, <2>1
  <2>3. IsFiniteSet(R \cup {w}) /\ Cardinality(R \cup {w}) = Cardinality(R) + 1
    BY <1>4, <2>2, FS_AddElement
  <2>4. Cardinality(R \cup {w}) <= Cardinality(S)
    BY <1>4, <2>2, FS_Subset
  <2>5. QED
    BY <1>5, <1>6, <1>7, <1>13, <2>3, <2>4
<1>14. QED
  BY <1>10, <1>11, <1>12, <1>13 DEF R, S

\* Nobody waits on a barrier with a timeout: only a signal takes a sleeper away.
LEMMA BarrierSleepers ==
  ASSUME ThreadInv, NEW t, NEW W, NEW E, NEW c, NEW tm, StepOf(t, W, E, c, tm),
         NEW b \in Barrier
  PROVE  Sleepers(b)' = (Sleepers(b) \ W) \cup {u \in Thread : u = t /\ c = b}
<1>1. \A u \in Thread :
        /\ chan'[u] = IF u = t THEN c ELSE IF u \in W \cup E THEN None ELSE chan[u]
        /\ u \in E => timed[u]
  BY MovedProps
<1>2. b # None /\ b \in Object /\ b \notin Cond /\ (t \in Thread => chan[t] = None)
  BY Apart DEF StepOf
<1>3. \A u \in E : u \in Thread => chan[u] # b
  <2> SUFFICES ASSUME NEW u \in E, u \in Thread, chan[u] = b PROVE FALSE
    OBVIOUS
  <2>1. timed[u] /\ pc[u] \in {"timedlock", "cond", "semTimed", "lineup"} /\ pc[u] \in Pc
    BY <1>1 DEF ThreadInv, OpOK, SyncType
  <2>2. arg[u] = b /\ arg[u] \in Place(pc[u])
    BY <1>2 DEF ThreadInv, OpOK
  <2>3. QED
    BY <2>1, <2>2, Places
<1>4. QED
  BY <1>1, <1>2, <1>3 DEF Sleepers

\* The barriers: nobody falls asleep on one and nobody is woken from one.
LEMMA BarrierKeeps ==
  ASSUME ThreadInv, BarrierOK, NEW t, NEW W, NEW E, NEW c, NEW tm, StepOf(t, W, E, c, tm),
         c \notin Barrier, \A w \in W : chan[w] \notin Barrier, narrived' = narrived
  PROVE  BarrierOK' /\ \A b \in Barrier : Sleepers(b)' = Sleepers(b)
<1>1. ASSUME NEW b \in Barrier PROVE Sleepers(b)' = Sleepers(b)
  BY <1>1, BarrierSleepers DEF Sleepers
<1>2. QED
  BY <1>1 DEF BarrierOK

\* The lineups: t has nothing to do with them.
LEMMA LineupKeeps ==
  ASSUME ThreadInv, LineupOK, NEW t, NEW W, NEW E, NEW c, NEW tm, StepOf(t, W, E, c, tm),
         c \notin Lineup, \A w \in W : chan[w] \notin Lineup,
         t \in Thread => pc'[t] # "lineup",
         nactive' = nactive, phase' = phase, inside' = inside
  PROVE  LineupOK'
<1>1. /\ \A u \in Thread :
           /\ chan'[u] = IF u = t THEN c ELSE IF u \in W \cup E THEN None ELSE chan[u]
           /\ ret'[u] = IF u \in E THEN "ETIMEDOUT"
                        ELSE IF u = t /\ c # None THEN "0" ELSE ret[u]
      /\ \A u \in Thread : u # t => pc'[u] = pc[u] /\ arg'[u] = arg[u]
  BY MovedProps DEF StepOf
<1>2. ASSUME NEW l \in Lineup PROVE Sleepers(l)' \subseteq Sleepers(l)
  BY <1>2, RetriersGrow, Apart
<1>3. ASSUME NEW u \in Thread, pc'[u] = "lineup"
      PROVE  /\ u \in inside'[arg'[u]]
             /\ chan'[u] = None /\ ret'[u] = "0" => phase'[arg'[u]] = "LEAVING"
  <2>1. u # t /\ pc[u] = "lineup" /\ arg'[u] = arg[u] /\ u \in inside[arg[u]]
    BY <1>1, <1>3 DEF LineupOK
  <2>2. arg[u] \in Lineup
    BY <2>1, Places DEF ThreadInv, OpOK, SyncType
  <2>3. u \notin W
    BY <2>1, <2>2 DEF ThreadInv, OpOK, StepOf, Moved
  <2>4. chan'[u] = None /\ ret'[u] = "0" => chan[u] = None /\ ret[u] = "0"
    BY <1>1, <2>1, <2>3
  <2>5. QED
    BY <2>1, <2>4 DEF LineupOK
<1>4. ASSUME NEW l \in Lineup
      PROVE  /\ nactive'[l] = Cardinality(inside'[l])
             /\ phase'[l] = "ARRIVING" => nactive'[l] < LineupCount
             /\ phase'[l] = "LEAVING" => nactive'[l] > 0 /\ Sleepers(l)' = {}
  BY <1>2 DEF LineupOK
<1>5. QED
  BY <1>3, <1>4 DEF LineupOK

-----------------------------------------------------------------------------
(* The operations. *)

\* Barriers open for all of their threads, and lineups for a reason.
BarriersOpen ==
  \A b \in Barrier :
    \/ Sleepers(b) \subseteq Sleepers(b)'
    \/ Cardinality(Sleepers(b)) = BarrierCount - 1 /\ Sleepers(b)' = {}
LineupsOpen ==
  \A l \in Lineup : phase[l] = "ARRIVING" /\ phase'[l] = "LEAVING" =>
    nactive'[l] = LineupCount \/ ret[Head(runq)] = "ETIMEDOUT"

\* What every step is shown to be.
GoodStep == SyncInv' /\ BarriersOpen /\ LineupsOpen

MutexPc == {"run", "lock", "timedlock", "cond"}
SemPc == {"run", "sem", "semTimed"}
RWLockPc == {"run", "rdlock", "wrlock"}

\* t retries only the object of its operation.
LEMMA RetriesOwn ==
  ASSUME ThreadInv, NEW t \in Thread \cup {None}
  PROVE  /\ (t \in Thread => pc[t] \notin {"lock", "timedlock", "cond"}) =>
              \A m \in Mutex : t \notin Retriers(m)
         /\ (t \in Thread => pc[t] \notin {"sem", "semTimed"}) =>
              \A s \in Sem : t \notin Retriers(s)
         /\ (t \in Thread => pc[t] \notin {"rdlock", "wrlock"}) =>
              \A w \in RWLock : t \notin Retriers(w)
<1>1. CASE t \notin Thread
  BY <1>1 DEF Retriers
<1>2. CASE t \in Thread
  <2>1. pc[t] \in Pc /\ arg[t] \in Place(pc[t])
    BY <1>2 DEF ThreadInv, SyncType, OpOK
  <2>2. QED
    BY <1>2, <2>1, Places DEF Retriers
<1>3. QED
  BY <1>1, <1>2

\* An operation of one kind leaves the objects of the other kinds as they are.
LEMMA OtherKinds ==
  ASSUME SyncInv, NEW t, NEW W, NEW E, NEW c, NEW tm, StepOf(t, W, E, c, tm), ObjectType'
  PROVE  /\ owner' = owner /\ c \notin Mutex
              /\ (t \in Thread => pc[t] \notin {"lock", "timedlock", "cond"}) => MutexOK'
         /\ readers' = readers /\ writer' = writer /\ c \notin RWLock
              /\ (t \in Thread => pc[t] \notin {"rdlock", "wrlock"}) => RWLockOK'
         /\ value' = value /\ c \notin Sem
              /\ (t \in Thread => pc[t] \notin {"sem", "semTimed"}) => SemOK'
<1>1. /\ ThreadInv /\ MutexOK /\ RWLockOK /\ SemOK /\ ObjectType
      /\ t \in Thread \cup {None} /\ value \in [Sem -> Nat]
  BY DEF SyncInv, ThreadInv, SyncType, StepOf, ObjectType
<1>2. ASSUME owner' = owner, c \notin Mutex, t \in Thread => pc[t] \notin {"lock", "timedlock", "cond"}
      PROVE  MutexOK'
  <2>1. \A m \in Mutex : t \notin Retriers(m)
    BY <1>1, <1>2, RetriesOwn
  <2>2. QED
    BY <1>1, <1>2, <2>1, MutexKeeps
<1>3. ASSUME readers' = readers, writer' = writer, c \notin RWLock,
             t \in Thread => pc[t] \notin {"rdlock", "wrlock"}
      PROVE  RWLockOK'
  <2>1. \A x \in RWLock : t \notin Retriers(x)
    BY <1>1, <1>3, RetriesOwn
  <2>2. \A x \in RWLock : Free(x)' => Free(x)
    BY <1>3 DEF Free
  <2>3. QED
    BY <1>1, <1>3, <2>1, <2>2, RWLockKeeps
<1>4. ASSUME value' = value, c \notin Sem, t \in Thread => pc[t] \notin {"sem", "semTimed"}
      PROVE  SemOK'
  <2>1. \A s \in Sem : t \notin Retriers(s)
    BY <1>1, <1>4, RetriesOwn
  <2>2. \A s \in Sem : c # s /\ value'[s] <= value[s]
    BY <1>1, <1>4
  <2>3. QED
    BY <1>1, <2>1, <2>2, SemKeeps
<1>5. QED
  BY <1>2, <1>3, <1>4

\* The same for the barriers and the lineups.
LEMMA NoBarrier ==
  ASSUME SyncInv, NEW t, NEW W, NEW E, NEW c, NEW tm, StepOf(t, W, E, c, tm),
         c \notin Barrier, \A w \in W : chan[w] \notin Barrier, narrived' = narrived
  PROVE  BarrierOK' /\ BarriersOpen
<1>1. BarrierOK' /\ \A b \in Barrier : Sleepers(b)' = Sleepers(b)
  BY BarrierKeeps DEF SyncInv
<1>2. QED
  BY <1>1 DEF BarriersOpen

LEMMA NoLineup ==
  ASSUME SyncInv, NEW t, NEW W, NEW E, NEW c, NEW tm, StepOf(t, W, E, c, tm),
         c \notin Lineup, \A w \in W : chan[w] \notin Lineup,
         t \in Thread => pc'[t] # "lineup",
         nactive' = nactive, phase' = phase, inside' = inside
  PROVE  LineupOK' /\ LineupsOpen
<1>1. LineupOK'
  BY LineupKeeps DEF SyncInv
<1>2. QED
  BY <1>1 DEF LineupsOpen

\* A step of an operation on mutexes and condition variables.
LEMMA MutexStep ==
  ASSUME SyncInv, NEW t, NEW W, NEW E, NEW c, NEW tm, StepOf(t, W, E, c, tm),
         Fits(t, c, tm), users' = users, owner' \in [Mutex -> Thread \cup {None}],
         readers' = readers, writer' = writer, value' = value, UNCHANGED barVars,
         t \in Thread => pc[t] \in MutexPc /\ pc'[t] \in MutexPc,
         c \in Mutex \cup Cond \cup {None}, \A w \in W : chan[w] \in Mutex \cup Cond,
         \A m \in Mutex : owner'[m] = None =>
           /\ c # m
           /\ \/ owner[m] = None /\ t \notin Retriers(m)
              \/ Sleepers(m) # {} => \E w \in W : chan[w] = m
  PROVE  GoodStep
<1>1. ThreadInv /\ ObjectType'
  BY DEF SyncInv, ThreadInv, SyncType, ObjectType, barVars
<1>2. ThreadInv'
  BY <1>1, ThreadKeeps
<1>3. /\ c \notin Sem \cup RWLock \cup Barrier \cup Lineup
      /\ \A w \in W : chan[w] \notin Barrier \cup Lineup
  BY Apart
<1>4. RWLockOK' /\ SemOK'
  BY <1>1, <1>3, OtherKinds DEF MutexPc
<1>5. MutexOK'
  BY <1>1, MutexKeeps DEF SyncInv
<1>6. BarrierOK' /\ BarriersOpen
  BY <1>3, NoBarrier DEF barVars
<1>7. LineupOK' /\ LineupsOpen
  BY <1>3, NoLineup DEF barVars, MutexPc
<1>8. QED
  BY <1>2, <1>4, <1>5, <1>6, <1>7 DEF GoodStep, SyncInv

\* A step of an operation on semaphores.
LEMMA SemStep ==
  ASSUME SyncInv, NEW t \in Thread, NEW W, NEW E, NEW c, NEW tm, StepOf(t, W, E, c, tm),
         Fits(t, c, tm), users' = users, value' \in [Sem -> Nat],
         owner' = owner, readers' = readers, writer' = writer, UNCHANGED barVars,
         pc[t] \in SemPc /\ pc'[t] \in SemPc,
         c \in Sem \cup {None}, \A w \in W : chan[w] \in Sem,
         \A s \in Sem :
           \/ value'[s] = 0
           \/ c # s /\ value'[s] <= value[s] /\ t \notin Retriers(s)
           \/ c # s /\ value'[s] <= value[s] - 1
           \/ /\ c # s /\ value'[s] <= value[s] + 1 /\ t \notin Retriers(s)
              /\ Sleepers(s) # {} => \E w \in W : chan[w] = s
  PROVE  GoodStep
<1>1. ThreadInv /\ ObjectType' /\ ObjectType
  BY DEF SyncInv, ThreadInv, SyncType, ObjectType, barVars
<1>2. ThreadInv'
  BY <1>1, ThreadKeeps
<1>3. /\ c \notin Mutex \cup RWLock \cup Barrier \cup Lineup
      /\ \A w \in W : chan[w] \notin Barrier \cup Lineup
  BY Apart
<1>4. MutexOK' /\ RWLockOK'
  BY <1>1, <1>3, OtherKinds DEF SemPc
<1>5. SemOK'
  BY <1>1, SemKeeps DEF SyncInv
<1>6. BarrierOK' /\ BarriersOpen
  BY <1>3, NoBarrier DEF barVars
<1>7. LineupOK' /\ LineupsOpen
  BY <1>3, NoLineup DEF barVars, SemPc
<1>8. QED
  BY <1>2, <1>4, <1>5, <1>6, <1>7 DEF GoodStep, SyncInv

\* A step of an operation on read-write locks.
LEMMA RWLockStep ==
  ASSUME SyncInv, NEW t \in Thread, NEW W, NEW E, NEW c, NEW tm, StepOf(t, W, E, c, tm),
         Fits(t, c, tm), users' = users,
         readers' \in [RWLock -> SUBSET Thread], writer' \in [RWLock -> Thread \cup {None}],
         owner' = owner, value' = value, UNCHANGED barVars,
         pc[t] \in RWLockPc /\ pc'[t] \in RWLockPc,
         c \in RWLock \cup {None}, \A w \in W : chan[w] \in RWLock,
         \A x \in RWLock : Free(x)' =>
           /\ c # x
           /\ \/ Free(x) /\ t \notin Retriers(x)
              \/ Sleepers(x) # {} => \E w \in W : chan[w] = x
  PROVE  GoodStep
<1>1. ThreadInv /\ ObjectType'
  BY DEF SyncInv, ThreadInv, SyncType, ObjectType, barVars
<1>2. ThreadInv'
  BY <1>1, ThreadKeeps
<1>3. /\ c \notin Mutex \cup Sem \cup Barrier \cup Lineup
      /\ \A w \in W : chan[w] \notin Barrier \cup Lineup
  BY Apart
<1>4. MutexOK' /\ SemOK'
  BY <1>1, <1>3, OtherKinds DEF RWLockPc
<1>5. RWLockOK'
  BY <1>1, RWLockKeeps DEF SyncInv
<1>6. BarrierOK' /\ BarriersOpen
  BY <1>3, NoBarrier DEF barVars
<1>7. LineupOK' /\ LineupsOpen
  BY <1>3, NoLineup DEF barVars, RWLockPc
<1>8. QED
  BY <1>2, <1>4, <1>5, <1>6, <1>7 DEF GoodStep, SyncInv

\* An operation that ends its turn with putTurn() and leaves t at p.
LEMMA PutStep ==
  ASSUME ThreadInv, NEW t \in Thread, HasTurn(t), NEW woken, Wakes(woken), putTurn(t, woken),
         NEW p \in Pc, NEW o \in Object \cup {None}, o \in Place(p), Resume(t, p, o)
  PROVE  \E E, tm : StepOf(t, ToSet(woken), E, None, tm) /\ Fits(t, None, tm) /\ pc'[t] = p
<1>1. PICK E \in SUBSET Thread : Moved(t, ToSet(woken), E, None, FALSE)
  BY PutTurnMoves
<1>2. chan[t] = None
  BY HolderProps
<1>3. /\ pc' = [pc EXCEPT ![t] = p] /\ arg' = [arg EXCEPT ![t] = o]
      /\ pc \in [Thread -> Pc] /\ arg \in [Thread -> Object \cup {None}]
  BY DEF Resume, ThreadInv, SyncType
<1>4. ToSet(woken) \subseteq Thread
  BY InToSet DEF Wakes
<1>5. StepOf(t, ToSet(woken), E, None, FALSE)
  BY <1>1, <1>2, <1>3, <1>4 DEF StepOf
<1>6. Fits(t, None, FALSE) /\ pc'[t] = p
  BY <1>3 DEF Fits
<1>7. QED
  BY <1>5, <1>6, Zenon

\* The same where the operation leaves t at the place where it was.
LEMMA PutStepHere ==
  ASSUME ThreadInv, NEW t \in Thread, HasTurn(t), NEW woken, Wakes(woken), putTurn(t, woken),
         pc' = pc, arg' = arg
  PROVE  \E E, tm : StepOf(t, ToSet(woken), E, None, tm) /\ Fits(t, None, tm) /\ pc'[t] = pc[t]
<1>1. /\ pc \in [Thread -> Pc] /\ arg \in [Thread -> Object \cup {None}]
      /\ pc[t] \in Pc /\ arg[t] \in Object \cup {None} /\ arg[t] \in Place(pc[t])
  BY DEF ThreadInv, SyncType, OpOK
<1>2. Resume(t, pc[t], arg[t])
  BY <1>1 DEF Resume
<1>3. QED
  BY <1>1, <1>2, PutStep

\* Return() leaves a thread in the application.
LEMMA ReturnPlace == None \in Place("run") /\ "run" \in Pc
  BY DEF Place, Pc

\* An operation that goes to sleep on c at p.
LEMMA WaitStep ==
  ASSUME ThreadInv, NEW t \in Thread, HasTurn(t), NEW woken, Wakes(woken),
         NEW c \in Object, NEW tm \in BOOLEAN, syncWait(t, woken, c, tm),
         NEW p \in Pc, NEW o \in Object, o \in Place(p), Resume(t, p, o),
         p # "run", IF p = "cond" THEN c \in Cond ELSE c = o,
         tm => p \in {"timedlock", "cond", "semTimed", "lineup"}
  PROVE  \E E : StepOf(t, ToSet(woken), E, c, tm) /\ Fits(t, c, tm) /\ pc'[t] = p
<1>1. PICK E \in SUBSET Thread : Moved(t, ToSet(woken), E, c, tm)
  BY SyncWaitMoves
<1>2. chan[t] = None /\ c # None
  BY HolderProps, Apart
<1>3. /\ pc' = [pc EXCEPT ![t] = p] /\ arg' = [arg EXCEPT ![t] = o]
      /\ pc \in [Thread -> Pc] /\ arg \in [Thread -> Object \cup {None}]
  BY DEF Resume, ThreadInv, SyncType
<1>4. ToSet(woken) \subseteq Thread
  BY InToSet DEF Wakes
<1>5. StepOf(t, ToSet(woken), E, c, tm)
  BY <1>1, <1>2, <1>3, <1>4 DEF StepOf
<1>6. Fits(t, c, tm) /\ pc'[t] = p
  BY <1>2, <1>3 DEF Fits
<1>7. QED
  BY <1>5, <1>6

\* The same two for an operation that wakes nobody.
LEMMA PutNobody ==
  ASSUME ThreadInv, NEW t \in Thread, HasTurn(t), putTurn(t, << >>),
         NEW p \in Pc, NEW o \in Object \cup {None}, o \in Place(p), Resume(t, p, o)
  PROVE  \E E, tm : StepOf(t, {}, E, None, tm) /\ Fits(t, None, tm) /\ pc'[t] = p
<1>1. Wakes(<< >>) /\ ToSet(<< >>) = {}
  BY WakesProps DEF ThreadInv
<1>2. \E E, tm : StepOf(t, ToSet(<< >>), E, None, tm) /\ Fits(t, None, tm) /\ pc'[t] = p
  BY <1>1, PutStep, Zenon
<1>3. QED
  BY <1>1, <1>2, Zenon

LEMMA WaitNobody ==
  ASSUME ThreadInv, NEW t \in Thread, HasTurn(t),
         NEW c \in Object, NEW tm \in BOOLEAN, syncWait(t, << >>, c, tm),
         NEW p \in Pc, c \in Place(p), Resume(t, p, c), p \notin {"run", "cond"},
         tm => p \in {"timedlock", "cond", "semTimed", "lineup"}
  PROVE  \E E : StepOf(t, {}, E, c, tm) /\ Fits(t, c, tm) /\ pc'[t] = p
<1>1. Wakes(<< >>) /\ ToSet(<< >>) = {}
  BY WakesProps DEF ThreadInv
<1>2. p # "run" /\ IF p = "cond" THEN c \in Cond ELSE c = c
  OBVIOUS
<1>3. \E E : StepOf(t, ToSet(<< >>), E, c, tm) /\ Fits(t, c, tm) /\ pc'[t] = p
  BY <1>1, <1>2, WaitStep, Zenon
<1>4. QED
  BY <1>1, <1>3, Zenon

\* ... and leaves t where it was, or in the application.
LEMMA PutNobodyHere ==
  ASSUME ThreadInv, NEW t \in Thread, HasTurn(t), putTurn(t, << >>), pc' = pc, arg' = arg
  PROVE  \E E, tm : StepOf(t, {}, E, None, tm) /\ Fits(t, None, tm) /\ pc'[t] = pc[t]
<1>1. Wakes(<< >>) /\ ToSet(<< >>) = {}
  BY WakesProps DEF ThreadInv
<1>2. \E E, tm : StepOf(t, ToSet(<< >>), E, None, tm) /\ Fits(t, None, tm) /\ pc'[t] = pc[t]
  BY <1>1, PutStepHere, Zenon
<1>3. QED
  BY <1>1, <1>2, Zenon

LEMMA ReturnNobody ==
  ASSUME ThreadInv, NEW t \in Thread, HasTurn(t), putTurn(t, << >>), Return(t)
  PROVE  \E E, tm : StepOf(t, {}, E, None, tm) /\ Fits(t, None, tm) /\ pc'[t] = "run"
<1>1. None \in Place("run") /\ "run" \in Pc /\ None \in Object \cup {None} /\ Resume(t, "run", None)
  BY ReturnPlace DEF Return
<1>2. QED
  BY <1>1, PutNobody, Zenon

\* Nobody is woken, or somebody who sleeps on o.
LEMMA WokenFrom ==
  ASSUME SyncInv
  PROVE  /\ ThreadInv /\ ObjectType
         /\ Wakes(<< >>) /\ ToSet(<< >>) = {}
         /\ \A o \in Object :
              /\ Wakes(Oldest(o)) /\ \A w \in ToSet(Oldest(o)) : chan[w] = o
              /\ Sleepers(o) # {} => \E w \in ToSet(Oldest(o)) : chan[w] = o
              /\ Wakes(Waiters(o)) /\ \A w \in ToSet(Waiters(o)) : chan[w] = o
              /\ ToSet(Waiters(o)) = Sleepers(o)
<1>1. ThreadInv /\ SyncType /\ QueueOK /\ ObjectType
  BY DEF SyncInv, ThreadInv, SyncType
<1>2. QED
  BY <1>1, WakesProps DEF Sleepers

\* One round of the loop of a mutex lock, by a thread that calls it or retries.
LEMMA LockHelperStep ==
  ASSUME SyncInv, NEW t \in Thread, HasTurn(t), NEW m \in Mutex, NEW tm \in BOOLEAN,
         pc[t] = "run" \/ (pc[t] \in {"lock", "timedlock", "cond"} /\ arg[t] = m),
         pthreadMutexLockHelper(t, m, tm), readers' = readers, writer' = writer,
         value' = value, UNCHANGED barVars, users' = users
  PROVE  GoodStep
<1>1. /\ ThreadInv /\ Wakes(<< >>) /\ ToSet(<< >>) = {}
      /\ owner \in [Mutex -> Thread \cup {None}] /\ pc[t] \in MutexPc
  BY WokenFrom DEF ObjectType, MutexPc
<1>2. m \in Object /\ None \notin Thread
  BY Apart
<1>3. ASSUME NEW k \in Mutex, k # m PROVE t \notin Retriers(k)
  BY <1>3 DEF Retriers
<1>4. CASE owner[m] = None /\ owner' = [owner EXCEPT ![m] = t] /\ Return(t) /\ putTurn(t, << >>)
  <2>1. PICK E, f : StepOf(t, {}, E, None, f) /\ Fits(t, None, f) /\ pc'[t] = "run"
    BY <1>1, <1>4, ReturnNobody
  <2>2. /\ owner' \in [Mutex -> Thread \cup {None}] /\ owner'[m] # None
        /\ \A k \in Mutex : k # m => owner'[k] = owner[k]
    BY <1>1, <1>2, <1>4
  <2>3. \A k \in Mutex : owner'[k] = None => None # k /\ owner[k] = None /\ t \notin Retriers(k)
    BY <1>3, <2>2, Apart
  <2>4. QED
    BY <1>1, <2>1, <2>2, <2>3, MutexStep DEF MutexPc
<1>5. CASE /\ owner[m] # None /\ syncWait(t, << >>, m, tm)
           /\ Resume(t, IF tm THEN "timedlock" ELSE "lock", m) /\ UNCHANGED owner
  <2> DEFINE p == IF tm THEN "timedlock" ELSE "lock"
  <2>1. p \in Pc /\ p \in MutexPc /\ m \in Place(p) /\ p # "run" /\ p # "cond" /\ (tm => p = "timedlock")
    BY DEF Pc, MutexPc, Place
  <2>2. Resume(t, p, m)
    BY <1>5
  <2> HIDE DEF p
  <2>3. PICK E : StepOf(t, {}, E, m, tm) /\ Fits(t, m, tm) /\ pc'[t] = p
    BY <1>1, <1>2, <1>5, <2>1, <2>2, WaitNobody
  <2>4. \A k \in Mutex : owner'[k] = None => m # k /\ owner[k] = None /\ t \notin Retriers(k)
    BY <1>3, <1>5
  <2>5. QED
    BY <1>1, <1>5, <2>1, <2>3, <2>4, MutexStep
<1>6. QED
  BY <1>4, <1>5 DEF pthreadMutexLockHelper

\* The operations on mutexes and condition variables.
LEMMA MutexSteps ==
  ASSUME SyncInv, NEW t \in Thread, users' = users,
         \/ Yield(t) \/ MutexRetry(t) \/ CondRelock(t)
         \/ \E m \in Mutex : MutexTryLock(t, m) \/ MutexUnlock(t, m)
         \/ \E m \in Mutex, tm \in BOOLEAN : MutexLock(t, m, tm)
         \/ \E m \in Mutex, cv \in Cond, tm \in BOOLEAN : CondWait(t, cv, m, tm)
         \/ \E cv \in Cond : CondSignal(t, cv) \/ CondBroadcast(t, cv)
  PROVE  GoodStep
<1>1. /\ ThreadInv /\ Wakes(<< >>) /\ ToSet(<< >>) = {} /\ None \notin Thread
      /\ owner \in [Mutex -> Thread \cup {None}]
      /\ \A k \in Mutex : None # k /\ k \in Object
      /\ \A k \in Cond : None # k /\ k \in Object /\ k \notin Mutex
  BY WokenFrom, Apart DEF ObjectType
<1>2. pc[t] = "run" => \A k \in Mutex : t \notin Retriers(k)
  BY DEF Retriers
<1>3. pc[t] \in {"lock", "timedlock", "cond"} => arg[t] \in Mutex
  BY <1>1, Places DEF ThreadInv, SyncType, OpOK
<1>4. CASE Yield(t)
  <2>1. /\ HasTurn(t) /\ pc[t] = "run" /\ putTurn(t, << >>) /\ pc' = pc /\ arg' = arg
        /\ UNCHANGED lockVars /\ UNCHANGED barVars
    BY <1>4 DEF Yield
  <2>2. PICK E, f : StepOf(t, {}, E, None, f) /\ Fits(t, None, f) /\ pc'[t] = pc[t]
    BY <1>1, <2>1, PutNobodyHere
  <2>3. QED
    BY <1>1, <1>2, <2>1, <2>2, MutexStep DEF MutexPc, lockVars
<1>5. CASE MutexRetry(t)
  <2>1. /\ HasTurn(t) /\ pc[t] \in {"lock", "timedlock"}
        /\ readers' = readers /\ writer' = writer /\ value' = value /\ UNCHANGED barVars
    BY <1>5 DEF MutexRetry
  <2>2. CASE ret[t] = "ETIMEDOUT" /\ Return(t) /\ putTurn(t, << >>) /\ UNCHANGED owner
    <3>1. PICK E, f : StepOf(t, {}, E, None, f) /\ Fits(t, None, f) /\ pc'[t] = "run"
      BY <1>1, <2>1, <2>2, ReturnNobody
    <3>2. \A k \in Mutex : t \notin Retriers(k)
      BY <2>1, <2>2 DEF Retriers
    <3>3. QED
      BY <1>1, <2>1, <2>2, <3>1, <3>2, MutexStep DEF MutexPc
  <2>3. CASE pthreadMutexLockHelper(t, arg[t], pc[t] = "timedlock")
    <3>1. arg[t] \in Mutex /\ (pc[t] = "timedlock") \in BOOLEAN
      BY <1>3, <2>1
    <3>2. QED
      BY <2>1, <2>3, <3>1, LockHelperStep
  <2>4. QED
    BY <1>5, <2>2, <2>3 DEF MutexRetry
<1>6. CASE CondRelock(t)
  <2>1. /\ HasTurn(t) /\ pc[t] = "cond" /\ pthreadMutexLockHelper(t, arg[t], FALSE)
        /\ readers' = readers /\ writer' = writer /\ value' = value /\ UNCHANGED barVars
    BY <1>6 DEF CondRelock
  <2>2. arg[t] \in Mutex
    BY <1>3, <2>1
  <2>3. QED
    BY <2>1, <2>2, LockHelperStep
<1>7. ASSUME NEW m \in Mutex, MutexTryLock(t, m) PROVE GoodStep
  <2>1. /\ HasTurn(t) /\ pc[t] = "run" /\ putTurn(t, << >>) /\ pc' = pc /\ arg' = arg
        /\ owner' = [owner EXCEPT ![m] = IF @ = None THEN t ELSE @]
        /\ readers' = readers /\ writer' = writer /\ value' = value /\ UNCHANGED barVars
    BY <1>7 DEF MutexTryLock, Ready
  <2>2. PICK E, f : StepOf(t, {}, E, None, f) /\ Fits(t, None, f) /\ pc'[t] = pc[t]
    BY <1>1, <2>1, PutNobodyHere
  <2>3. /\ owner' \in [Mutex -> Thread \cup {None}]
        /\ \A k \in Mutex : owner'[k] = None => owner[k] = None
    BY <1>1, <2>1
  <2>4. QED
    BY <1>1, <1>2, <2>1, <2>2, <2>3, MutexStep DEF MutexPc
<1>8. ASSUME NEW m \in Mutex, MutexUnlock(t, m) PROVE GoodStep
  <2>1. /\ HasTurn(t) /\ pc[t] = "run" /\ putTurn(t, Oldest(m)) /\ pc' = pc /\ arg' = arg
        /\ owner' = [owner EXCEPT ![m] = None]
        /\ readers' = readers /\ writer' = writer /\ value' = value /\ UNCHANGED barVars
    BY <1>8 DEF MutexUnlock, Ready
  <2> DEFINE W == ToSet(Oldest(m))
  <2>2. /\ Wakes(Oldest(m)) /\ \A w \in W : chan[w] = m
        /\ Sleepers(m) # {} => \E w \in W : chan[w] = m
    BY <1>1, WokenFrom
  <2>3. PICK E, f : StepOf(t, W, E, None, f) /\ Fits(t, None, f) /\ pc'[t] = pc[t]
    BY <1>1, <2>1, <2>2, PutStepHere
  <2> HIDE DEF W
  <2>4. /\ owner' \in [Mutex -> Thread \cup {None}]
        /\ \A k \in Mutex : k # m => owner'[k] = owner[k]
    BY <1>1, <2>1
  <2>5. QED
    BY <1>1, <1>2, <2>1, <2>2, <2>3, <2>4, MutexStep DEF MutexPc
<1>9. ASSUME NEW m \in Mutex, NEW tm \in BOOLEAN, MutexLock(t, m, tm) PROVE GoodStep
  <2>1. /\ HasTurn(t) /\ pc[t] = "run" /\ pthreadMutexLockHelper(t, m, tm)
        /\ readers' = readers /\ writer' = writer /\ value' = value /\ UNCHANGED barVars
    BY <1>9 DEF MutexLock, Ready
  <2>2. pc[t] = "run" \/ (pc[t] \in {"lock", "timedlock", "cond"} /\ arg[t] = m)
    BY <2>1
  <2>3. QED
    BY <2>1, <2>2, LockHelperStep
<1>10. ASSUME NEW m \in Mutex, NEW cv \in Cond, NEW tm \in BOOLEAN, CondWait(t, cv, m, tm)
       PROVE  GoodStep
  <2>1. /\ HasTurn(t) /\ pc[t] = "run" /\ syncWait(t, Oldest(m), cv, tm) /\ Resume(t, "cond", m)
        /\ owner' = [owner EXCEPT ![m] = None]
        /\ readers' = readers /\ writer' = writer /\ value' = value /\ UNCHANGED barVars
    BY <1>10 DEF CondWait, Ready
  <2> DEFINE W == ToSet(Oldest(m))
  <2>2. /\ Wakes(Oldest(m)) /\ \A w \in W : chan[w] = m
        /\ Sleepers(m) # {} => \E w \in W : chan[w] = m
    BY <1>1, WokenFrom
  <2>3. "cond" \in Pc /\ m \in Place("cond")
    BY DEF Pc, Place
  <2>4. PICK E : StepOf(t, W, E, cv, tm) /\ Fits(t, cv, tm) /\ pc'[t] = "cond"
    BY <1>1, <2>1, <2>2, <2>3, WaitStep
  <2> HIDE DEF W
  <2>5. /\ owner' \in [Mutex -> Thread \cup {None}]
        /\ \A k \in Mutex : k # m => owner'[k] = owner[k]
    BY <1>1, <2>1
  <2>6. QED
    BY <1>1, <1>2, <2>1, <2>2, <2>4, <2>5, MutexStep DEF MutexPc
<1>11. ASSUME NEW cv \in Cond, CondSignal(t, cv) \/ CondBroadcast(t, cv) PROVE GoodStep
  <2>1. PICK woken \in {Oldest(cv), Waiters(cv)} : putTurn(t, woken)
    BY <1>11 DEF CondSignal, CondBroadcast
  <2>2. /\ HasTurn(t) /\ pc[t] = "run" /\ pc' = pc /\ arg' = arg
        /\ UNCHANGED lockVars /\ UNCHANGED barVars
    BY <1>11 DEF CondSignal, CondBroadcast, Ready
  <2>3. Wakes(woken) /\ \A w \in ToSet(woken) : chan[w] = cv
    BY <1>1, <2>1, WokenFrom
  <2>4. PICK E, f : /\ StepOf(t, ToSet(woken), E, None, f) /\ Fits(t, None, f)
                    /\ pc'[t] = pc[t]
    BY <1>1, <2>1, <2>2, <2>3, PutStepHere
  <2>5. QED
    BY <1>1, <1>2, <2>2, <2>3, <2>4, MutexStep DEF MutexPc, lockVars
<1>12. QED
  BY <1>4, <1>5, <1>6, <1>7, <1>8, <1>9, <1>10, <1>11

\* The idle thread's turn.
LEMMA TickStep ==
  ASSUME SyncInv, NEW E \in SUBSET MayExpire(<< >>), Tick(E), users' = users
  PROVE  GoodStep
<1>1. /\ ThreadInv /\ owner \in [Mutex -> Thread \cup {None}] /\ None \notin Thread
      /\ pc \in [Thread -> Pc] /\ arg \in [Thread -> Object \cup {None}]
      /\ \A k \in Mutex : None # k
  BY Apart DEF SyncInv, ThreadInv, SyncType, ObjectType
<1>2. E \in SUBSET Thread /\ Moved(None, {}, E, None, FALSE)
  BY <1>1, TickMoves
<1>3. /\ pc' = pc /\ arg' = arg /\ UNCHANGED lockVars /\ UNCHANGED barVars
  BY DEF Tick
<1>4. PICK f : StepOf(None, {}, E, None, f) /\ Fits(None, None, f)
  <2>1. StepOf(None, {}, E, None, FALSE) /\ Fits(None, None, FALSE)
    BY <1>1, <1>2, <1>3 DEF StepOf, Fits
  <2>2. QED
    BY <2>1, Zenon
<1>5. \A m \in Mutex : None \notin Retriers(m)
  BY <1>1 DEF Retriers
<1>6. QED
  BY <1>1, <1>3, <1>4, <1>5, MutexStep DEF lockVars

\* The operations on semaphores.
LEMMA SemSteps ==
  ASSUME SyncInv, NEW t \in Thread, users' = users,
         \/ SemRetry(t)
         \/ \E s \in Sem : SemTryWait(t, s) \/ SemPost(t, s)
         \/ \E s \in Sem, tm \in BOOLEAN : SemWait(t, s, tm)
  PROVE  GoodStep
<1>1. /\ ThreadInv /\ value \in [Sem -> Nat] /\ \A s \in Sem : None # s /\ s \in Object
  BY WokenFrom, Apart DEF ObjectType
<1>2. pc[t] = "run" => \A s \in Sem : t \notin Retriers(s)
  BY DEF Retriers
<1>3. pc[t] \in {"sem", "semTimed"} => arg[t] \in Sem
  BY <1>1, Places DEF ThreadInv, SyncType, OpOK
<1>4. ASSUME NEW s \in Sem, NEW tm \in BOOLEAN, SemTry(t, s, tm), HasTurn(t),
             pc[t] = "run" \/ (pc[t] \in {"sem", "semTimed"} /\ arg[t] = s),
             owner' = owner, readers' = readers, writer' = writer, UNCHANGED barVars
      PROVE  GoodStep
  <2>1. \A k \in Sem : k # s => t \notin Retriers(k)
    BY <1>4 DEF Retriers
  <2>2. CASE value[s] > 0 /\ value' = [value EXCEPT ![s] = @ - 1] /\ Return(t) /\ putTurn(t, << >>)
    <3>1. PICK E, f : StepOf(t, {}, E, None, f) /\ Fits(t, None, f) /\ pc'[t] = "run"
      BY <1>1, <1>4, <2>2, ReturnNobody
    <3>2. /\ value' \in [Sem -> Nat] /\ value'[s] <= value[s] - 1
          /\ \A k \in Sem : k # s => value'[k] <= value[k]
      BY <1>1, <2>2
    <3>3. \A k \in Sem : None # k /\ \/ value'[k] <= value[k] /\ t \notin Retriers(k)
                                     \/ value'[k] <= value[k] - 1
      BY <1>1, <2>1, <3>2
    <3>4. pc[t] \in SemPc /\ "run" \in SemPc
      BY <1>4 DEF SemPc
    <3>5. QED
      BY <1>4, <3>1, <3>2, <3>3, <3>4, SemStep
  <2>3. CASE /\ value[s] = 0 /\ syncWait(t, << >>, s, tm)
             /\ Resume(t, IF tm THEN "semTimed" ELSE "sem", s) /\ UNCHANGED value
    <3> DEFINE p == IF tm THEN "semTimed" ELSE "sem"
    <3>1. /\ p \in Pc /\ p \in SemPc /\ s \in Place(p) /\ p \notin {"run", "cond"}
          /\ (tm => p = "semTimed")
      BY DEF Pc, SemPc, Place
    <3>2. Resume(t, p, s)
      BY <2>3
    <3> HIDE DEF p
    <3>3. PICK E : StepOf(t, {}, E, s, tm) /\ Fits(t, s, tm) /\ pc'[t] = p
      BY <1>1, <1>4, <2>3, <3>1, <3>2, WaitNobody
    <3>4. \A k \in Sem : \/ value'[k] = 0
                         \/ s # k /\ value'[k] <= value[k] /\ t \notin Retriers(k)
      BY <1>1, <2>1, <2>3
    <3>5. pc[t] \in SemPc
      BY <1>4 DEF SemPc
    <3>6. QED
      BY <1>1, <1>4, <2>3, <3>1, <3>3, <3>4, <3>5, SemStep
  <2>4. QED
    BY <1>4, <2>2, <2>3 DEF SemTry
<1>5. CASE SemRetry(t)
  <2>1. /\ HasTurn(t) /\ pc[t] \in {"sem", "semTimed"}
        /\ owner' = owner /\ readers' = readers /\ writer' = writer /\ UNCHANGED barVars
    BY <1>5 DEF SemRetry
  <2>2. CASE ret[t] = "ETIMEDOUT" /\ Return(t) /\ putTurn(t, << >>) /\ UNCHANGED value
    <3>1. PICK E, f : StepOf(t, {}, E, None, f) /\ Fits(t, None, f) /\ pc'[t] = "run"
      BY <1>1, <2>1, <2>2, ReturnNobody
    <3>2. \A k \in Sem : None # k /\ value'[k] <= value[k] /\ t \notin Retriers(k)
      BY <1>1, <2>1, <2>2 DEF Retriers
    <3>3. QED
      BY <1>1, <2>1, <2>2, <3>1, <3>2, SemStep DEF SemPc
  <2>3. CASE SemTry(t, arg[t], pc[t] = "semTimed")
    <3>1. arg[t] \in Sem /\ (pc[t] = "semTimed") \in BOOLEAN
      BY <1>3, <2>1
    <3>2. QED
      BY <1>4, <2>1, <2>3, <3>1
  <2>4. QED
    BY <1>5, <2>2, <2>3 DEF SemRetry
<1>6. ASSUME NEW s \in Sem, SemTryWait(t, s) PROVE GoodStep
  <2>1. /\ HasTurn(t) /\ pc[t] = "run" /\ putTurn(t, << >>) /\ pc' = pc /\ arg' = arg
        /\ value' = [value EXCEPT ![s] = IF @ > 0 THEN @ - 1 ELSE 0]
        /\ owner' = owner /\ readers' = readers /\ writer' = writer /\ UNCHANGED barVars
    BY <1>6 DEF SemTryWait, Ready
  <2>2. PICK E, f : StepOf(t, {}, E, None, f) /\ Fits(t, None, f) /\ pc'[t] = pc[t]
    BY <1>1, <2>1, PutNobodyHere
  <2>3. value' \in [Sem -> Nat] /\ \A k \in Sem : value'[k] <= value[k]
    BY <1>1, <2>1
  <2>4. QED
    BY <1>1, <1>2, <2>1, <2>2, <2>3, SemStep DEF SemPc
<1>7. ASSUME NEW s \in Sem, SemPost(t, s) PROVE GoodStep
  <2>1. /\ HasTurn(t) /\ pc[t] = "run" /\ putTurn(t, Oldest(s)) /\ pc' = pc /\ arg' = arg
        /\ value' = [value EXCEPT ![s] = @ + 1]
        /\ owner' = owner /\ readers' = readers /\ writer' = writer /\ UNCHANGED barVars
    BY <1>7 DEF SemPost, Ready
  <2> DEFINE W == ToSet(Oldest(s))
  <2>2. /\ Wakes(Oldest(s)) /\ \A w \in W : chan[w] = s
        /\ Sleepers(s) # {} => \E w \in W : chan[w] = s
    BY <1>1, WokenFrom
  <2>3. PICK E, f : StepOf(t, W, E, None, f) /\ Fits(t, None, f) /\ pc'[t] = pc[t]
    BY <1>1, <2>1, <2>2, PutStepHere
  <2> HIDE DEF W
  <2>4. /\ value' \in [Sem -> Nat] /\ value'[s] <= value[s] + 1
        /\ \A k \in Sem : k # s => value'[k] <= value[k]
    BY <1>1, <2>1
  <2>5. \A k \in Sem : None # k /\ t \notin Retriers(k)
    BY <1>1, <1>2, <2>1
  <2>6. pc[t] \in SemPc /\ \A w \in W : chan[w] \in Sem
    BY <2>1, <2>2 DEF SemPc
  <2>7. \A k \in Sem :
          \/ None # k /\ value'[k] <= value[k] /\ t \notin Retriers(k)
          \/ /\ None # k /\ value'[k] <= value[k] + 1 /\ t \notin Retriers(k)
             /\ Sleepers(k) # {} => \E w \in W : chan[w] = k
    BY <2>2, <2>4, <2>5
  <2>8. QED
    BY <2>1, <2>3, <2>4, <2>6, <2>7, SemStep
<1>8. ASSUME NEW s \in Sem, NEW tm \in BOOLEAN, SemWait(t, s, tm) PROVE GoodStep
  <2>1. /\ HasTurn(t) /\ pc[t] = "run" /\ SemTry(t, s, tm)
        /\ owner' = owner /\ readers' = readers /\ writer' = writer /\ UNCHANGED barVars
    BY <1>8 DEF SemWait, Ready
  <2>2. pc[t] = "run" \/ (pc[t] \in {"sem", "semTimed"} /\ arg[t] = s)
    BY <2>1
  <2>3. QED
    BY <1>4, <2>1, <2>2
<1>9. QED
  BY <1>5, <1>6, <1>7, <1>8

\* The operations on read-write locks.
LEMMA RWLockSteps ==
  ASSUME SyncInv, NEW t \in Thread, users' = users,
         \/ RWRetry(t)
         \/ \E x \in RWLock : RdLock(t, x) \/ WrLock(t, x) \/ RWTryLock(t, x) \/ RWUnlock(t, x)
  PROVE  GoodStep
<1>1. /\ ThreadInv /\ None \notin Thread
      /\ readers \in [RWLock -> SUBSET Thread] /\ writer \in [RWLock -> Thread \cup {None}]
      /\ \A x \in RWLock : None # x /\ x \in Object
  BY WokenFrom, Apart DEF ObjectType
<1>2. pc[t] = "run" => \A x \in RWLock : t \notin Retriers(x)
  BY DEF Retriers
<1>3. pc[t] \in {"rdlock", "wrlock"} => arg[t] \in RWLock
  BY <1>1, Places DEF ThreadInv, SyncType, OpOK
<1>4. ASSUME NEW x \in RWLock, RdTry(t, x) \/ WrTry(t, x), HasTurn(t),
             pc[t] = "run" \/ (pc[t] \in {"rdlock", "wrlock"} /\ arg[t] = x),
             owner' = owner, value' = value, UNCHANGED barVars
      PROVE  GoodStep
  <2>1. \A y \in RWLock : y # x => t \notin Retriers(y)
    BY <1>4 DEF Retriers
  <2>2. pc[t] \in RWLockPc
    BY <1>4 DEF RWLockPc
  <2>3. CASE /\ Return(t) /\ putTurn(t, << >>)
             /\ \/ readers' = [readers EXCEPT ![x] = @ \cup {t}] /\ writer' = writer
                \/ writer' = [writer EXCEPT ![x] = t] /\ readers' = readers
    <3>1. PICK E, f : StepOf(t, {}, E, None, f) /\ Fits(t, None, f) /\ pc'[t] = "run"
      BY <1>1, <1>4, <2>3, ReturnNobody
    <3>2. /\ readers' \in [RWLock -> SUBSET Thread] /\ writer' \in [RWLock -> Thread \cup {None}]
          /\ ~ Free(x)'
          /\ \A y \in RWLock : y # x => writer'[y] = writer[y] /\ readers'[y] = readers[y]
      BY <1>1, <2>3 DEF Free
    <3>3. \A y \in RWLock : Free(y)' => None # y /\ Free(y) /\ t \notin Retriers(y)
      BY <1>1, <2>1, <3>2 DEF Free
    <3>4. "run" \in RWLockPc
      BY DEF RWLockPc
    <3>5. QED
      BY <1>4, <2>2, <3>1, <3>2, <3>3, <3>4, RWLockStep
  <2>4. ASSUME NEW p \in {"rdlock", "wrlock"}, Resume(t, p, x), syncWait(t, << >>, x, FALSE),
               ~ Free(x), readers' = readers, writer' = writer
        PROVE  GoodStep
    <3>1. p \in Pc /\ p \in RWLockPc /\ x \in Place(p) /\ p \notin {"run", "cond"}
      BY <2>4 DEF Pc, RWLockPc, Place
    <3>2. PICK E, f : StepOf(t, {}, E, x, f) /\ Fits(t, x, f) /\ pc'[t] = p
      <4>1. \E E : StepOf(t, {}, E, x, FALSE) /\ Fits(t, x, FALSE) /\ pc'[t] = p
        BY <1>1, <1>4, <2>4, <3>1, WaitNobody
      <4>2. QED
        BY <4>1, Zenon
    <3>3. \A y \in RWLock : Free(y)' => x # y /\ Free(y) /\ t \notin Retriers(y)
      BY <2>1, <2>4 DEF Free
    <3>4. QED
      BY <1>1, <1>4, <2>2, <2>4, <3>1, <3>2, <3>3, RWLockStep
  <2>5. QED
    BY <1>4, <2>3, <2>4 DEF RdTry, WrTry, Free
<1>5. CASE RWRetry(t)
  <2>1. /\ HasTurn(t) /\ pc[t] \in {"rdlock", "wrlock"} /\ (RdTry(t, arg[t]) \/ WrTry(t, arg[t]))
        /\ owner' = owner /\ value' = value /\ UNCHANGED barVars
    BY <1>5 DEF RWRetry
  <2>2. QED
    BY <1>3, <1>4, <2>1
<1>6. ASSUME NEW x \in RWLock, RdLock(t, x) \/ WrLock(t, x) PROVE GoodStep
  <2>1. /\ HasTurn(t) /\ pc[t] = "run" /\ (RdTry(t, x) \/ WrTry(t, x))
        /\ owner' = owner /\ value' = value /\ UNCHANGED barVars
    BY <1>6 DEF RdLock, WrLock, Ready
  <2>2. QED
    BY <1>4, <2>1
<1>7. ASSUME NEW x \in RWLock, RWTryLock(t, x) PROVE GoodStep
  <2>1. /\ HasTurn(t) /\ pc[t] = "run" /\ putTurn(t, << >>) /\ pc' = pc /\ arg' = arg
        /\ writer' = [writer EXCEPT ![x] = IF Free(x) THEN t ELSE @]
        /\ owner' = owner /\ readers' = readers /\ value' = value /\ UNCHANGED barVars
    BY <1>7 DEF RWTryLock, Ready
  <2>2. PICK E, f : StepOf(t, {}, E, None, f) /\ Fits(t, None, f) /\ pc'[t] = pc[t]
    BY <1>1, <2>1, PutNobodyHere
  <2>3. /\ writer' \in [RWLock -> Thread \cup {None}]
        /\ \A y \in RWLock : Free(y)' => Free(y)
    BY <1>1, <2>1 DEF Free
  <2>4. QED
    BY <1>1, <1>2, <2>1, <2>2, <2>3, RWLockStep DEF RWLockPc
<1>8. ASSUME NEW x \in RWLock, RWUnlock(t, x) PROVE GoodStep
  <2>1. /\ HasTurn(t) /\ pc[t] = "run" /\ putTurn(t, Oldest(x)) /\ pc' = pc /\ arg' = arg
        /\ readers' = [readers EXCEPT ![x] = @ \ {t}] /\ writer' = [writer EXCEPT ![x] = None]
        /\ owner' = owner /\ value' = value /\ UNCHANGED barVars
    BY <1>8 DEF RWUnlock, Ready
  <2> DEFINE W == ToSet(Oldest(x))
  <2>2. /\ Wakes(Oldest(x)) /\ \A w \in W : chan[w] = x
        /\ Sleepers(x) # {} => \E w \in W : chan[w] = x
    BY <1>1, WokenFrom
  <2>3. PICK E, f : StepOf(t, W, E, None, f) /\ Fits(t, None, f) /\ pc'[t] = pc[t]
    BY <1>1, <2>1, <2>2, PutStepHere
  <2> HIDE DEF W
  <2>4. /\ readers' \in [RWLock -> SUBSET Thread] /\ writer' \in [RWLock -> Thread \cup {None}]
        /\ \A y \in RWLock : y # x => writer'[y] = writer[y] /\ readers'[y] = readers[y]
    BY <1>1, <2>1
  <2>5. \A y \in RWLock : Free(y)' =>
          /\ None # y
          /\ \/ Free(y) /\ t \notin Retriers(y)
             \/ Sleepers(y) # {} => \E w \in W : chan[w] = y
    BY <1>1, <1>2, <2>1, <2>2, <2>4 DEF Free
  <2>6. pc[t] \in RWLockPc /\ \A w \in W : chan[w] \in RWLock
    BY <2>1, <2>2 DEF RWLockPc
  <2>7. QED
    BY <2>1, <2>3, <2>4, <2>5, <2>6, RWLockStep
<1>9. QED
  BY <1>5, <1>6, <1>7, <1>8

\* A step of an operation on barriers.
LEMMA BarrierStep ==
  ASSUME SyncInv, NEW t \in Thread, NEW W, NEW E, NEW c, NEW tm, StepOf(t, W, E, c, tm),
         Fits(t, c, tm), users' = users, UNCHANGED lockVars,
         nactive' = nactive, phase' = phase, inside' = inside,
         pc[t] \in {"run", "barrier"}, pc'[t] \in {"run", "barrier"},
         c \in Barrier \cup {None}, \A w \in W : chan[w] \in Barrier,
         narrived' \in [Barrier -> Nat], BarrierOK', BarriersOpen
  PROVE  GoodStep
<1>1. ThreadInv /\ ObjectType'
  BY DEF SyncInv, ThreadInv, SyncType, ObjectType, lockVars
<1>2. ThreadInv'
  BY <1>1, ThreadKeeps
<1>3. /\ c \notin Mutex \cup Sem \cup RWLock \cup Lineup
      /\ \A w \in W : chan[w] \notin Lineup
  BY Apart
<1>4. MutexOK' /\ RWLockOK' /\ SemOK'
  BY <1>1, <1>3, OtherKinds DEF lockVars
<1>5. LineupOK' /\ LineupsOpen
  BY <1>3, NoLineup
<1>6. QED
  BY <1>2, <1>4, <1>5 DEF GoodStep, SyncInv

\* The operations on barriers.
LEMMA BarrierSteps ==
  ASSUME SyncInv, NEW t \in Thread, users' = users,
         BarrierReturn(t) \/ \E b \in Barrier : BarrierWait(t, b)
  PROVE  GoodStep
<1>1. /\ ThreadInv /\ BarrierOK /\ narrived \in [Barrier -> Nat] /\ BarrierCount \in Nat
      /\ \A b \in Barrier : None # b /\ b \in Object
  BY WokenFrom, Apart, SyncAssumption DEF ObjectType, SyncInv
<1>2. CASE BarrierReturn(t)
  <2>1. /\ HasTurn(t) /\ pc[t] = "barrier" /\ Return(t) /\ putTurn(t, << >>)
        /\ UNCHANGED lockVars /\ narrived' = narrived
        /\ nactive' = nactive /\ phase' = phase /\ inside' = inside
    BY <1>2 DEF BarrierReturn, barVars
  <2>2. PICK E, f : StepOf(t, {}, E, None, f) /\ Fits(t, None, f) /\ pc'[t] = "run"
    BY <1>1, <2>1, ReturnNobody
  <2>3. BarrierOK' /\ BarriersOpen
    BY <1>1, <2>1, <2>2, NoBarrier
  <2>4. QED
    BY <1>1, <2>1, <2>2, <2>3, BarrierStep
<1>3. ASSUME NEW b \in Barrier, BarrierWait(t, b) PROVE GoodStep
  <2>1. /\ HasTurn(t) /\ pc[t] = "run" /\ Resume(t, "barrier", b) /\ UNCHANGED lockVars
        /\ nactive' = nactive /\ phase' = phase /\ inside' = inside
    BY <1>3 DEF BarrierWait, Ready
  <2>2. /\ "barrier" \in Pc /\ b \in Place("barrier") /\ b \in Object
    BY <1>1 DEF Pc, Place
  <2>3. /\ narrived[b] = Cardinality(Sleepers(b)) /\ narrived[b] < BarrierCount
        /\ narrived[b] \in Nat
    BY <1>1 DEF BarrierOK
  <2>4. CASE /\ narrived[b] + 1 = BarrierCount /\ narrived' = [narrived EXCEPT ![b] = 0]
             /\ putTurn(t, Waiters(b))
    <3> DEFINE W == ToSet(Waiters(b))
    <3>1. Wakes(Waiters(b)) /\ W = Sleepers(b) /\ \A w \in W : chan[w] = b
      BY <2>2, WokenFrom
    <3>2. PICK E, f : StepOf(t, W, E, None, f) /\ Fits(t, None, f) /\ pc'[t] = "barrier"
      BY <1>1, <2>1, <2>2, <2>4, <3>1, PutStep
    <3> HIDE DEF W
    <3>3. \A d \in Barrier : Sleepers(d)' = IF d = b THEN {} ELSE Sleepers(d)
      BY <1>1, <3>1, <3>2, BarrierSleepers DEF Sleepers
    <3>4. narrived' \in [Barrier -> Nat] /\ BarrierOK'
      <4>1. narrived' \in [Barrier -> Nat] /\ narrived'[b] = 0 /\ 0 < BarrierCount
        BY <1>1, <2>3, <2>4
      <4>2. \A d \in Barrier : d # b => narrived'[d] = narrived[d]
        BY <1>1, <2>4
      <4>3. Cardinality(Sleepers(b)') = 0
        BY <3>3, FS_EmptySet
      <4>4. QED
        BY <1>1, <3>3, <4>1, <4>2, <4>3 DEF BarrierOK
    <3>5. BarriersOpen
      BY <2>3, <2>4, <3>3 DEF BarriersOpen
    <3>6. QED
      BY <2>1, <3>1, <3>2, <3>4, <3>5, BarrierStep
  <2>5. CASE /\ narrived[b] + 1 # BarrierCount /\ narrived' = [narrived EXCEPT ![b] = @ + 1]
             /\ syncWait(t, << >>, b, FALSE)
    <3>1. PICK E, f : StepOf(t, {}, E, b, f) /\ Fits(t, b, f) /\ pc'[t] = "barrier"
      <4>1. \E E : StepOf(t, {}, E, b, FALSE) /\ Fits(t, b, FALSE) /\ pc'[t] = "barrier"
        BY <1>1, <2>1, <2>2, <2>5, WaitNobody
      <4>2. QED
        BY <4>1, Zenon
    <3>2. \A d \in Barrier : Sleepers(d)' = IF d = b THEN Sleepers(d) \cup {t} ELSE Sleepers(d)
      BY <1>1, <3>1, BarrierSleepers
    <3>3. IsFiniteSet(Sleepers(b)) /\ t \notin Sleepers(b)
      <4>1. Sleepers(b) \subseteq Thread /\ t \notin Sleepers(b)
        BY <1>1, <2>1, HolderProps DEF Sleepers
      <4>2. QED
        BY <4>1, ThreadsFinite, FS_Subset
    <3>4. Cardinality(Sleepers(b)') = narrived[b] + 1
      BY <2>3, <3>2, <3>3, FS_AddElement
    <3>5. narrived' \in [Barrier -> Nat] /\ BarrierOK'
      <4>1. narrived' \in [Barrier -> Nat] /\ narrived'[b] = narrived[b] + 1
        BY <1>1, <2>3, <2>5
      <4>2. \A d \in Barrier : d # b => narrived'[d] = narrived[d]
        BY <1>1, <2>5
      <4>3. narrived[b] + 1 < BarrierCount
        BY <1>1, <2>3, <2>5
      <4>4. QED
        BY <1>1, <3>2, <3>4, <4>1, <4>2, <4>3 DEF BarrierOK
    <3>6. BarriersOpen
      BY <3>2 DEF BarriersOpen
    <3>7. QED
      BY <2>1, <3>1, <3>5, <3>6, BarrierStep
  <2>6. QED
    BY <1>3, <2>4, <2>5 DEF BarrierWait
<1>4. QED
  BY <1>2, <1>3

\* What an operation of t may do to the lineup l, waking W and going to sleep on c.
LineupChange(t, l, W, c) ==
  /\ nactive' \in [Lineup -> Nat] /\ phase' \in [Lineup -> {"ARRIVING", "LEAVING"}]
  /\ inside' \in [Lineup -> SUBSET Thread]
  /\ \A k \in Lineup : k # l =>
       nactive'[k] = nactive[k] /\ phase'[k] = phase[k] /\ inside'[k] = inside[k]
  /\ nactive'[l] = Cardinality(inside'[l])
  /\ inside[l] \ {t} \subseteq inside'[l]
  /\ phase'[l] = "ARRIVING" =>
       /\ nactive'[l] < LineupCount /\ W = {}
       /\ phase[l] = "ARRIVING" \/ inside'[l] = {}
  /\ phase'[l] = "LEAVING" =>
       nactive'[l] > 0 /\ c = None /\ (W = Sleepers(l) \/ phase[l] = "LEAVING")
  /\ phase[l] = "ARRIVING" /\ phase'[l] = "LEAVING" =>
       nactive'[l] = LineupCount \/ ret[Head(runq)] = "ETIMEDOUT"

\* A step of an operation on the lineup l.
LEMMA LineupStep ==
  ASSUME SyncInv, NEW t \in Thread, NEW W, NEW E, NEW c, NEW tm, StepOf(t, W, E, c, tm),
         Fits(t, c, tm), users' = users, UNCHANGED lockVars, narrived' = narrived,
         NEW l \in Lineup, LineupChange(t, l, W, c), c \in {l, None}, \A w \in W : chan[w] = l,
         pc[t] \in {"run", "lineup"}, pc'[t] \in {"run", "lineup"},
         pc'[t] = "lineup" => arg'[t] = l /\ c = l /\ t \in inside'[l]
  PROVE  GoodStep
<1>1. ThreadInv /\ ObjectType' /\ LineupOK
  BY DEF SyncInv, ThreadInv, SyncType, ObjectType, lockVars, LineupChange
<1>2. ThreadInv'
  BY <1>1, ThreadKeeps
<1>3. /\ c \notin Mutex \cup Sem \cup RWLock \cup Barrier /\ None # l
      /\ \A w \in W : chan[w] \notin Barrier
  BY Apart
<1>4. MutexOK' /\ RWLockOK' /\ SemOK'
  BY <1>1, <1>3, OtherKinds DEF lockVars
<1>5. BarrierOK' /\ BarriersOpen
  BY <1>3, NoBarrier
<1>6. /\ \A u \in Thread :
           /\ chan'[u] = IF u = t THEN c ELSE IF u \in W \cup E THEN None ELSE chan[u]
           /\ ret'[u] = IF u \in E THEN "ETIMEDOUT"
                        ELSE IF u = t /\ c # None THEN "0" ELSE ret[u]
      /\ \A u \in Thread : u # t => pc'[u] = pc[u] /\ arg'[u] = arg[u]
  BY <1>1, MovedProps DEF StepOf
<1>7. ASSUME NEW k \in Lineup, c # k PROVE Sleepers(k)' \subseteq Sleepers(k) \ W
  BY <1>1, <1>7, RetriersGrow, Apart
<1>8. ASSUME NEW u \in Thread, pc'[u] = "lineup"
      PROVE  /\ u \in inside'[arg'[u]]
             /\ chan'[u] = None /\ ret'[u] = "0" => phase'[arg'[u]] = "LEAVING"
  <2>1. CASE u = t
    BY <1>3, <1>6, <1>8, <2>1
  <2>2. CASE u # t
    <3>1. pc[u] = "lineup" /\ arg'[u] = arg[u] /\ u \in inside[arg[u]]
      BY <1>1, <1>6, <1>8, <2>2 DEF LineupOK
    <3>2. arg[u] \in Lineup
      BY <1>1, <3>1, Places DEF ThreadInv, OpOK, SyncType
    <3>3. u \in W => arg[u] = l
      BY <1>1, <1>3, <3>1 DEF ThreadInv, OpOK
    <3>4. chan'[u] = None /\ ret'[u] = "0" => u \in W \/ phase[arg[u]] = "LEAVING"
      BY <1>1, <1>6, <2>2, <3>1 DEF LineupOK
    <3>5. CASE arg[u] = l
      <4>1. u \in inside'[l]
        BY <2>2, <3>1, <3>5 DEF LineupChange
      <4>2. phase'[l] \in {"ARRIVING", "LEAVING"}
        BY DEF LineupChange
      <4>3. u \in W \/ phase[l] = "LEAVING" => phase'[l] = "LEAVING"
        BY <4>1, <4>2 DEF LineupChange
      <4>4. QED
        BY <3>1, <3>4, <3>5, <4>1, <4>3
    <3>6. CASE arg[u] # l
      BY <3>1, <3>2, <3>3, <3>4, <3>6 DEF LineupChange
    <3>7. QED
      BY <3>5, <3>6
  <2>3. QED
    BY <2>1, <2>2
<1>9. ASSUME NEW k \in Lineup
      PROVE  /\ nactive'[k] = Cardinality(inside'[k])
             /\ phase'[k] = "ARRIVING" => nactive'[k] < LineupCount
             /\ phase'[k] = "LEAVING" => nactive'[k] > 0 /\ Sleepers(k)' = {}
  <2>1. CASE k # l
    <3>1. Sleepers(k)' \subseteq Sleepers(k)
      BY <1>7, <2>1, Apart
    <3>2. QED
      BY <1>1, <2>1, <3>1 DEF LineupOK, LineupChange
  <2>2. CASE k = l
    <3>1. phase'[l] = "LEAVING" => Sleepers(l)' = {}
      BY <1>1, <1>3, <1>7 DEF LineupOK, LineupChange
    <3>2. QED
      BY <2>2, <3>1 DEF LineupChange
  <2>3. QED
    BY <2>1, <2>2
<1>10. LineupOK'
  BY <1>8, <1>9 DEF LineupOK
<1>11. LineupsOpen
  BY DEF LineupsOpen, LineupChange
<1>12. QED
  BY <1>2, <1>4, <1>5, <1>10, <1>11 DEF GoodStep, SyncInv

\* The operations on lineups.
LEMMA LineupSteps ==
  ASSUME SyncInv, NEW t \in Thread, users' = users,
         LineupWoken(t) \/ \E l \in Lineup : LineupStart(t, l) \/ LineupEnd(t, l)
  PROVE  GoodStep
<1>1. /\ ThreadInv /\ LineupOK /\ LineupCount \in Nat \ {0}
      /\ nactive \in [Lineup -> Nat] /\ inside \in [Lineup -> SUBSET Thread]
      /\ phase \in [Lineup -> {"ARRIVING", "LEAVING"}]
      /\ \A l \in Lineup : None # l /\ l \in Object
  BY WokenFrom, Apart, SyncAssumption DEF ObjectType, SyncInv
<1>2. ASSUME NEW l \in Lineup
      PROVE  /\ nactive[l] = Cardinality(inside[l]) /\ IsFiniteSet(inside[l]) /\ nactive[l] \in Nat
             /\ phase[l] = "ARRIVING" => nactive[l] < LineupCount
             /\ phase[l] = "LEAVING" => nactive[l] > 0
             /\ phase[l] \in {"ARRIVING", "LEAVING"}
  <2>1. IsFiniteSet(inside[l])
    BY <1>1, <1>2, ThreadsFinite, FS_Subset
  <2>2. QED
    BY <1>1, <1>2, <2>1 DEF LineupOK
<1>3. ASSUME NEW l \in Lineup, LineupStart(t, l) PROVE GoodStep
  <2>1. /\ HasTurn(t) /\ pc[t] = "run" /\ t \notin inside[l] /\ UNCHANGED lockVars
        /\ narrived' = narrived
    BY <1>3 DEF LineupStart, Ready
  <2>2. /\ nactive' \in [Lineup -> Nat] /\ inside' \in [Lineup -> SUBSET Thread]
        /\ \A k \in Lineup : k # l => nactive'[k] = nactive[k] /\ inside'[k] = inside[k]
    BY <1>1, <1>3 DEF LineupStart
  <2>3. nactive'[l] = nactive[l] + 1 /\ inside'[l] = inside[l] \cup {t}
    BY <1>1, <1>3 DEF LineupStart
  <2>4. nactive'[l] = Cardinality(inside'[l]) /\ nactive'[l] > 0 /\ inside[l] \ {t} \subseteq inside'[l]
    <3>1. Cardinality(inside[l] \cup {t}) = Cardinality(inside[l]) + 1
      BY <1>2, <2>1, FS_AddElement
    <3>2. QED
      BY <1>2, <2>3, <3>1
  <2>5. CASE /\ nactive[l] + 1 = LineupCount /\ phase[l] = "ARRIVING" /\ SetPhase(l, "LEAVING")
             /\ putTurn(t, Waiters(l)) /\ pc' = pc /\ arg' = arg
    <3> DEFINE W == ToSet(Waiters(l))
    <3>1. Wakes(Waiters(l)) /\ W = Sleepers(l) /\ \A w \in W : chan[w] = l
      BY <1>1, WokenFrom
    <3>2. PICK E, f : StepOf(t, W, E, None, f) /\ Fits(t, None, f) /\ pc'[t] = "run"
      BY <1>1, <2>1, <2>5, <3>1, PutStepHere
    <3> HIDE DEF W
    <3>3. /\ phase' \in [Lineup -> {"ARRIVING", "LEAVING"}] /\ phase'[l] = "LEAVING"
          /\ \A k \in Lineup : k # l => phase'[k] = phase[k]
      BY <1>1, <2>5 DEF SetPhase
    <3>4. nactive'[l] = LineupCount
      BY <2>5, <2>3
    <3>5. LineupChange(t, l, W, None)
      BY <2>2, <2>4, <3>1, <3>3, <3>4 DEF LineupChange
    <3>6. QED
      BY <2>1, <3>1, <3>2, <3>5, LineupStep
  <2>6. CASE /\ phase[l] # "ARRIVING" /\ putTurn(t, << >>) /\ phase' = phase
             /\ pc' = pc /\ arg' = arg
    <3>1. PICK E, f : StepOf(t, {}, E, None, f) /\ Fits(t, None, f) /\ pc'[t] = "run"
      BY <1>1, <2>1, <2>6, PutNobodyHere
    <3>2. phase[l] = "LEAVING" /\ phase'[l] = "LEAVING"
      BY <1>2, <2>6
    <3>3. LineupChange(t, l, {}, None)
      BY <1>1, <2>2, <2>4, <2>6, <3>2 DEF LineupChange
    <3>4. QED
      BY <2>1, <3>1, <3>3, LineupStep
  <2>7. CASE /\ nactive[l] + 1 # LineupCount /\ phase[l] = "ARRIVING" /\ phase' = phase
             /\ syncWait(t, << >>, l, TRUE) /\ Resume(t, "lineup", l)
    <3>1. "lineup" \in Pc /\ l \in Place("lineup") /\ l \in Object
      BY <1>1 DEF Pc, Place
    <3>2. PICK E, f : StepOf(t, {}, E, l, f) /\ Fits(t, l, f) /\ pc'[t] = "lineup"
      <4>1. \E E : StepOf(t, {}, E, l, TRUE) /\ Fits(t, l, TRUE) /\ pc'[t] = "lineup"
        BY <1>1, <2>1, <2>7, <3>1, WaitNobody
      <4>2. QED
        BY <4>1, Zenon
    <3>3. arg'[t] = l /\ t \in inside'[l]
      BY <1>1, <2>7, <2>3 DEF Resume, ThreadInv, SyncType
    <3>4. nactive'[l] < LineupCount /\ phase'[l] = "ARRIVING"
      BY <1>1, <1>2, <2>7, <2>3
    <3>5. LineupChange(t, l, {}, l)
      BY <1>1, <2>2, <2>4, <2>7, <3>4 DEF LineupChange
    <3>6. QED
      BY <2>1, <3>2, <3>3, <3>5, LineupStep
  <2>8. QED
    BY <1>3, <2>5, <2>6, <2>7 DEF LineupStart
<1>4. ASSUME NEW l \in Lineup, LineupEnd(t, l) PROVE GoodStep
  <2>1. /\ HasTurn(t) /\ pc[t] = "run" /\ t \in inside[l] /\ UNCHANGED lockVars
        /\ putTurn(t, << >>) /\ narrived' = narrived /\ pc' = pc /\ arg' = arg
    BY <1>4 DEF LineupEnd, Ready
  <2>2. Cardinality(inside[l] \ {t}) = nactive[l] - 1 /\ IsFiniteSet(inside[l] \ {t})
    <3>1. /\ t \in inside[l] /\ nactive[l] = Cardinality(inside[l]) /\ IsFiniteSet(inside[l])
      BY <1>2, <2>1
    <3>2. IsFiniteSet(inside[l] \ {t}) /\ Cardinality(inside[l] \ {t}) = Cardinality(inside[l]) - 1
      BY ONLY <3>1, FS_RemoveElement
    <3>3. QED
      BY <3>1, <3>2
  <2>3. nactive[l] - 1 \in Nat
    BY <2>2, FS_CardinalityType
  <2>4. nactive[l] = 1 => inside[l] \ {t} = {}
    BY <2>2, FS_EmptySet
  <2>5. /\ nactive' \in [Lineup -> Nat] /\ inside' \in [Lineup -> SUBSET Thread]
        /\ \A k \in Lineup : k # l => nactive'[k] = nactive[k] /\ inside'[k] = inside[k]
    BY <1>1, <1>4, <2>3 DEF LineupEnd
  <2>6. nactive'[l] = nactive[l] - 1 /\ inside'[l] = inside[l] \ {t}
    BY <1>1, <1>4 DEF LineupEnd
  <2>7. /\ phase' \in [Lineup -> {"ARRIVING", "LEAVING"}]
        /\ \A k \in Lineup : k # l => phase'[k] = phase[k]
    BY <1>1, <1>2, <1>4 DEF LineupEnd, SetPhase
  <2>8. phase'[l] = IF nactive[l] = 1 THEN "ARRIVING" ELSE phase[l]
    BY <1>1, <1>4 DEF LineupEnd, SetPhase
  <2>9. PICK E, f : StepOf(t, {}, E, None, f) /\ Fits(t, None, f) /\ pc'[t] = "run"
    BY <1>1, <2>1, PutNobodyHere
  <2>10. /\ phase'[l] = "ARRIVING" => /\ nactive'[l] < LineupCount
                                      /\ phase[l] = "ARRIVING" \/ inside'[l] = {}
         /\ phase'[l] = "LEAVING" => nactive'[l] > 0 /\ phase[l] = "LEAVING"
         /\ nactive'[l] = Cardinality(inside'[l]) /\ inside[l] \ {t} \subseteq inside'[l]
    BY <1>1, <1>2, <2>2, <2>3, <2>4, <2>6, <2>8
  <2>11. LineupChange(t, l, {}, None)
    BY <2>5, <2>7, <2>10 DEF LineupChange
  <2>12. QED
    BY <2>1, <2>9, <2>11, LineupStep
<1>5. CASE LineupWoken(t)
  <2> DEFINE l == arg[t]
  <2>1. /\ HasTurn(t) /\ pc[t] = "lineup" /\ Return(t) /\ UNCHANGED lockVars
        /\ nactive' = nactive /\ inside' = inside /\ narrived' = narrived
    BY <1>5 DEF LineupWoken
  <2>2. l \in Lineup /\ t \in inside[l] /\ chan[t] = None /\ Head(runq) = t
    BY <1>1, <2>1, Places, HolderProps DEF ThreadInv, OpOK, SyncType, LineupOK, HasTurn
  <2>3. ret[t] = "0" => phase[l] = "LEAVING"
    BY <1>1, <2>1, <2>2 DEF LineupOK
  <2>4. ret[t] \in {"0", "ETIMEDOUT"}
    BY <1>1 DEF ThreadInv, SyncType
  <2>5. CASE /\ nactive[l] < LineupCount /\ phase[l] = "ARRIVING"
             /\ SetPhase(l, "LEAVING") /\ putTurn(t, Waiters(l))
    <3> DEFINE W == ToSet(Waiters(l))
    <3> HIDE DEF l
    <3>1. Wakes(Waiters(l)) /\ W = Sleepers(l) /\ \A w \in W : chan[w] = l
      BY <1>1, <2>2, WokenFrom
    <3>2. PICK E, f : StepOf(t, W, E, None, f) /\ Fits(t, None, f) /\ pc'[t] = "run"
      BY <1>1, <2>1, <2>5, <3>1, PutStep, ReturnPlace DEF Return
    <3> HIDE DEF W
    <3>3. /\ phase' \in [Lineup -> {"ARRIVING", "LEAVING"}] /\ phase'[l] = "LEAVING"
          /\ \A k \in Lineup : k # l => phase'[k] = phase[k]
      BY <1>1, <2>2, <2>5 DEF SetPhase
    <3>4. nactive[l] > 0
      <4>1. inside[l] # {}
        BY <2>2
      <4>2. QED
        BY <1>2, <2>2, <4>1, FS_EmptySet
    <3>5. ret[Head(runq)] = "ETIMEDOUT"
      BY <2>2, <2>3, <2>4, <2>5
    <3>6. nactive'[l] = Cardinality(inside'[l]) /\ inside[l] \ {t} \subseteq inside'[l]
      BY <1>2, <2>1, <2>2
    <3>7. LineupChange(t, l, W, None)
      BY <1>1, <2>1, <2>2, <3>1, <3>3, <3>4, <3>5, <3>6 DEF LineupChange
    <3>8. QED
      BY <2>1, <2>2, <3>1, <3>2, <3>7, LineupStep
  <2>6. CASE /\ ~ (nactive[l] < LineupCount /\ phase[l] = "ARRIVING")
             /\ phase' = phase /\ putTurn(t, << >>)
    <3> HIDE DEF l
    <3>1. PICK E, f : StepOf(t, {}, E, None, f) /\ Fits(t, None, f) /\ pc'[t] = "run"
      BY <1>1, <2>1, <2>6, ReturnNobody
    <3>2. phase[l] = "LEAVING" /\ nactive[l] > 0 /\ phase'[l] = "LEAVING"
      BY <1>2, <2>2, <2>6
    <3>3. nactive'[l] = Cardinality(inside'[l]) /\ inside[l] \ {t} \subseteq inside'[l]
      BY <1>2, <2>1, <2>2
    <3>4. LineupChange(t, l, {}, None)
      BY <1>1, <2>1, <2>2, <2>6, <3>2, <3>3 DEF LineupChange
    <3>5. QED
      BY <2>1, <2>2, <3>1, <3>4, LineupStep
  <2>7. QED
    BY <1>5, <2>5, <2>6 DEF LineupWoken
<1>6. QED
  BY <1>3, <1>4, <1>5

-----------------------------------------------------------------------------
(* The theorems. *)

\* The program starts with every thread runnable and every object free.
LEMMA InitInv == Init => SyncInv
<1> SUFFICES ASSUME Init PROVE SyncInv
  OBVIOUS
<1>1. /\ users \in Programs /\ runq = Queue /\ waitq = << >>
      /\ chan = [t \in Thread |-> None] /\ timed = [t \in Thread |-> FALSE]
      /\ ret = [t \in Thread |-> "0"] /\ pc = [t \in Thread |-> "run"]
      /\ arg = [t \in Thread |-> None] /\ owner = [m \in Mutex |-> None]
      /\ readers = [w \in RWLock |-> {}] /\ writer = [w \in RWLock |-> None]
      /\ value = [s \in Sem |-> 0] /\ narrived = [b \in Barrier |-> 0]
      /\ nactive = [l \in Lineup |-> 0] /\ phase = [l \in Lineup |-> "ARRIVING"]
      /\ inside = [l \in Lineup |-> {}]
  BY DEF Init
<1>2. \A c \in Object : Sleepers(c) = {}
  BY <1>1, Apart DEF Sleepers
<1>3. timed \in [Thread -> BOOLEAN] /\ \A t \in Thread : ~ timed[t]
  BY <1>1
<1>4. ObjectType
  BY <1>1 DEF ObjectType
<1>5. SyncType
  BY <1>1, <1>3, <1>4, SyncAssumption DEF SyncType, Pc
<1>6. QueueOK
  <2>1. IsInjective(runq) /\ ToSet(runq) = {t \in Thread : chan[t] = None}
    BY <1>1, SyncAssumption
  <2>2. IsInjective(waitq) /\ ToSet(waitq) = {}
    BY <1>1 DEF IsInjective, ToSet
  <2>3. {t \in Thread : chan[t] # None} = {}
    BY <1>1
  <2>4. QED
    BY <2>1, <2>2, <2>3 DEF QueueOK
<1>7. OpOK
  <2>1. \A t \in Thread : arg[t] \in Place(pc[t]) /\ chan[t] = None
    BY <1>1, ReturnPlace
  <2>2. QED
    BY <1>3, <2>1 DEF OpOK
<1>8. MutexOK /\ RWLockOK /\ SemOK
  BY <1>2, Apart DEF MutexOK, RWLockOK, SemOK
<1>9. BarrierOK
  <2>1. \A b \in Barrier : narrived[b] = 0 /\ Sleepers(b) = {}
    BY <1>1, <1>2, Apart
  <2>2. Cardinality({}) = 0 /\ 0 < BarrierCount
    BY FS_EmptySet, SyncAssumption
  <2>3. QED
    BY <2>1, <2>2 DEF BarrierOK
<1>10. LineupOK
  BY <1>1, FS_EmptySet, SyncAssumption DEF LineupOK
<1>11. QED
  BY <1>5, <1>6, <1>7, <1>8, <1>9, <1>10 DEF SyncInv, ThreadInv

\* Every step of the program is a good one, or changes nothing.
LEMMA NextGood == SyncInv /\ [Next]_vars => GoodStep
<1> SUFFICES ASSUME SyncInv, [Next]_vars PROVE GoodStep
  OBVIOUS
<1>1. CASE UNCHANGED vars
  <2>1. /\ users' = users /\ runq' = runq /\ waitq' = waitq /\ chan' = chan /\ timed' = timed
        /\ ret' = ret /\ pc' = pc /\ arg' = arg /\ owner' = owner /\ readers' = readers
        /\ writer' = writer /\ value' = value /\ narrived' = narrived /\ nactive' = nactive
        /\ phase' = phase /\ inside' = inside
    BY <1>1 DEF vars, schedVars, lockVars, barVars
  <2>2. /\ \A c : Sleepers(c)' = Sleepers(c) /\ Retriers(c)' = Retriers(c)
        /\ \A w : Free(w)' = Free(w)
    BY <2>1 DEF Sleepers, Retriers, Free
  <2>3. ThreadInv'
    BY <2>1 DEF SyncInv, ThreadInv, SyncType, ObjectType, QueueOK, OpOK
  <2>4. MutexOK' /\ RWLockOK' /\ SemOK' /\ BarrierOK' /\ LineupOK'
    BY <2>1, <2>2 DEF SyncInv, MutexOK, RWLockOK, SemOK, BarrierOK, LineupOK
  <2>5. BarriersOpen /\ LineupsOpen
    BY <2>1, <2>2 DEF BarriersOpen, LineupsOpen
  <2>6. QED
    BY <2>3, <2>4, <2>5 DEF GoodStep, SyncInv
<1>2. CASE Next
  <2>1. users' = users
    BY <1>2 DEF Next
  <2>2. ASSUME NEW E \in SUBSET MayExpire(<< >>), Tick(E) PROVE GoodStep
    BY <2>1, <2>2, TickStep
  <2>3. ASSUME NEW t \in Thread, Call(t) PROVE GoodStep
    <3>1. \A o \in OpaqueType : Key(o) \in Lineup
      BY DEF Lineup
    <3>2. CASE \E o \in OpaqueType : LineupStart(t, Key(o)) \/ LineupEnd(t, Key(o))
      BY <2>1, <3>1, <3>2, LineupSteps
    <3>3. QED
      BY <2>1, <2>3, <3>2, MutexSteps, SemSteps, RWLockSteps, BarrierSteps DEF Call
  <2>4. ASSUME NEW t \in Thread, Continue(t) PROVE GoodStep
    BY <2>1, <2>4, MutexSteps, SemSteps, RWLockSteps, BarrierSteps, LineupSteps DEF Continue
  <2>5. QED
    BY <1>2, <2>2, <2>3, <2>4 DEF Next
<1>3. QED
  BY <1>1, <1>2

\* The invariant holds in every state of the program, whatever the objects and threads.
THEOREM SyncInductive == Spec => []SyncInv
<1>1. SyncInv /\ [Next]_vars => SyncInv'
  BY NextGood DEF GoodStep
<1>2. QED
  BY InitInv, <1>1, PTL DEF Spec

\* The waiters and the retrying threads of the properties are the sets of the invariant.
LEMMA SleepersWait ==
  ASSUME SyncInv
  PROVE  /\ \A c \in Object : /\ Len(Waiters(c)) = Cardinality(Sleepers(c))
                              /\ Waiters(c) = << >> <=> Sleepers(c) = {}
         /\ \A c : Retrying(c) = Retriers(c)
<1>1. SyncType /\ QueueOK
  BY DEF SyncInv, ThreadInv
<1>2. \A c : Retrying(c) = Retriers(c)
  BY <1>1 DEF QueueOK, Retrying, Retriers
<1>3. QED
  BY <1>1, <1>2, WaitersProps

\* ... in the state after a step too.
LEMMA NobodyWaits == SyncInv => \A c \in Object : Waiters(c) = << >> <=> Sleepers(c) = {}
  BY SleepersWait

LEMMA NobodyWaitsNext ==
  (SyncInv => \A c \in Object : Waiters(c) = << >> <=> Sleepers(c) = {})'
  BY NobodyWaits, PTL

\* No wakeup is lost: while threads sleep on a mutex, semaphore or read-write lock that is
\* available, enough of the threads that pthread_mutex_unlock, sem_post and
\* pthread_rwlock_unlock have signalled are still on their way to take it.
THEOREM WakeupsArrive == Spec => []NoLostWakeup
<1>1. SyncInv => NoLostWakeup
  <2> SUFFICES ASSUME SyncInv PROVE NoLostWakeup
    OBVIOUS
  <2>1. MutexOK /\ RWLockOK /\ SemOK
    BY DEF SyncInv
  <2>2. QED
    BY <2>1, SleepersWait, Apart DEF NoLostWakeup, MutexOK, RWLockOK, SemOK
<1>2. QED
  BY <1>1, SyncInductive, PTL

\* narrived of a barrier_t is the number of threads that sleep on the barrier, and the
\* thread that would make it reach count resets it instead.
THEOREM BarrierCountsSleepers == Spec => []ArrivedAreAsleep
<1>1. SyncInv => ArrivedAreAsleep
  BY SleepersWait, Apart DEF ArrivedAreAsleep, SyncInv, BarrierOK
<1>2. QED
  BY <1>1, SyncInductive, PTL

\* nactive of a ref_cnt_barrier_t is the number of threads between lineup_start and
\* lineup_end; nobody sleeps in an open lineup, and an open lineup is not empty.
THEOREM LineupsAreConsistent == Spec => []LineupConsistent
<1>1. SyncInv => LineupConsistent
  <2> SUFFICES ASSUME SyncInv, NEW l \in Lineup
               PROVE  /\ nactive[l] = Cardinality(inside[l])
                      /\ IF phase[l] = "ARRIVING" THEN nactive[l] < LineupCount
                         ELSE nactive[l] > 0 /\ Waiters(l) = << >>
    BY DEF LineupConsistent
  <2>1. phase[l] \in {"ARRIVING", "LEAVING"} /\ LineupOK
    BY WokenFrom DEF ObjectType, SyncInv
  <2>2. QED
    BY <2>1, SleepersWait, Apart DEF LineupOK
<1>2. QED
  BY <1>1, SyncInductive, PTL

\* A thread leaves pthread_barrier_wait's wait only with the arrival of the last of count
\* threads, and then all of the sleepers leave together.
THEOREM BarriersOpenForAll == Spec => BarrierOpensForAll
<1> DEFINE Opens ==
      \A b \in Barrier :
        (\E t \in Thread : chan[t] = b /\ chan'[t] # b) =>
          Len(Waiters(b)) = BarrierCount - 1 /\ Waiters(b)' = << >>
<1>1. SyncInv /\ [Next]_vars => Opens
  <2> SUFFICES ASSUME SyncInv, [Next]_vars, NEW b \in Barrier, NEW t \in Thread,
                      chan[t] = b, chan'[t] # b
               PROVE  Len(Waiters(b)) = BarrierCount - 1 /\ Waiters(b)' = << >>
    OBVIOUS
  <2>1. SyncInv' /\ BarriersOpen /\ b \in Object
    BY NextGood, Apart DEF GoodStep
  <2>2. Cardinality(Sleepers(b)) = BarrierCount - 1 /\ Sleepers(b)' = {}
    <3>1. ~ (Sleepers(b) \subseteq Sleepers(b)')
      BY DEF Sleepers
    <3>2. QED
      BY <2>1, <3>1 DEF BarriersOpen
  <2>3. Len(Waiters(b)) = Cardinality(Sleepers(b))
    BY <2>1, SleepersWait
  <2>4. Waiters(b)' = << >> <=> Sleepers(b)' = {}
    BY <2>1, NobodyWaitsNext
  <2>5. QED
    BY <2>2, <2>3, <2>4
<1>2. QED
  BY <1>1, SyncInductive, PTL DEF Spec, BarrierOpensForAll

\* lineup_start opens a lineup only with the arrival of the last of count threads, or by a
\* thread whose wait() timed out: who was woken by others never finds it closed again.
THEOREM LineupsOpenForAReason == Spec => LineupOpensForAReason
<1> DEFINE Opens ==
      \A l \in Lineup : phase[l] = "ARRIVING" /\ phase'[l] = "LEAVING" =>
        nactive'[l] = LineupCount \/ ret[Head(runq)] = "ETIMEDOUT"
<1>1. SyncInv /\ [Next]_vars => Opens
  BY NextGood DEF GoodStep, LineupsOpen
<1>2. QED
  BY <1>1, SyncInductive, PTL DEF Spec, LineupOpensForAReason
=============================================================================
