----------------------------- MODULE SyncObjects -----------------------------
(***************************************************************************)
(* The synchronisation operations of the recorder runtime                  *)
(* (lib/runtime/record-runtime.cpp): mutexes, read-write locks, condition  *)
(* variables, semaphores, barriers and lineups (the "soft barriers" of     *)
(* lineup_start and lineup_end).                                           *)
(*                                                                         *)
(* Every operation runs between getTurn() and putTurn() or wait(), and     *)
(* RRScheduler shows that one thread at a time has the turn, so the part   *)
(* of an operation up to the point where it gives the turn up is one step. *)
(* An operation that has to block never blocks in the C library: it tries, *)
(* waits on the address of the object and tries again when it is signalled *)
(* and has the turn.  Between the signal and the retry other threads run.  *)
(*                                                                         *)
(* A timed wait may expire whenever somebody counts a turn.                *)
(***************************************************************************)
EXTENDS Integers, Sequences, FiniteSets, FiniteSetsExt, Queues

CONSTANTS
  Thread,
  Queue,                                      \* the initial run queue
  Mutex, Cond, Sem, RWLock, Barrier,          \* the objects of the application
  OpaqueType,                                 \* the names of its lineups
  UintSize,                                   \* 2^32
  Programs,                                   \* programs: object -> threads that use it
  BarrierCount, LineupCount,                  \* the counts they are initialised with
  MaxSem,                                     \* bound on a semaphore's value
  None

\* A lineup is named by a long, and refcnt_bars is looked up by an unsigned: the entry
\* that all operations on the lineup find.
Key(o) == o % UintSize
Lineup == {Key(o) : o \in OpaqueType}

Object == Mutex \cup Cond \cup Sem \cup RWLock \cup Barrier \cup Lineup

ASSUME SyncAssumption ==
  /\ BarrierCount \in Nat \ {0} /\ LineupCount \in Nat \ {0} /\ MaxSem \in Nat
  /\ Queue \in Seq(Thread) /\ ToSet(Queue) = Thread /\ IsInjective(Queue)
  /\ Programs \subseteq [Object -> SUBSET Thread]
  /\ None \notin Thread \cup Object

\* lineupInit() asserts that there is no entry yet: two names with the same entry end the
\* program there.
ASSUME LineupAssumption ==
  /\ OpaqueType \subseteq Int /\ UintSize \in Nat \ {0}
  /\ \A o, p \in OpaqueType : o # p => Key(o) # Key(p)

\* Every object has an address of its own, a lineup that of its entry.
ASSUME AddressAssumption ==
  /\ Mutex \cap (Cond \cup Sem \cup RWLock \cup Barrier \cup Lineup) = {}
  /\ Cond \cap (Sem \cup RWLock \cup Barrier \cup Lineup) = {}
  /\ Sem \cap (RWLock \cup Barrier \cup Lineup) = {}
  /\ RWLock \cap (Barrier \cup Lineup) = {} /\ Barrier \cap Lineup = {}

VARIABLES
  users,        \* the program that runs
  runq, waitq,
  chan,         \* what a waiting thread waits on
  timed,        \* ... and whether with a timeout
  ret,          \* what its last wait() returned
  pc,           \* the operation in progress, to be resumed with the turn
  arg,          \* its object
  owner,        \* mutex -> thread
  readers, writer,
  value,        \* of each semaphore
  narrived,     \* barrier_t
  nactive, phase,   \* ref_cnt_barrier_t
  inside        \* threads between lineup_start and lineup_end

schedVars == <<runq, waitq, chan, timed, ret>>
lockVars == <<owner, readers, writer, value>>
barVars == <<narrived, nactive, phase, inside>>
vars == <<users, schedVars, pc, arg, lockVars, barVars>>

Init ==
  /\ users \in Programs
  /\ runq = Queue /\ waitq = <<>>
  /\ chan = [t \in Thread |-> None]
  /\ timed = [t \in Thread |-> FALSE]
  /\ ret = [t \in Thread |-> "0"]
  /\ pc = [t \in Thread |-> "run"]
  /\ arg = [t \in Thread |-> None]
  /\ owner = [m \in Mutex |-> None]
  /\ readers = [w \in RWLock |-> {}]
  /\ writer = [w \in RWLock |-> None]
  /\ value = [s \in Sem |-> 0]
  /\ narrived = [b \in Barrier |-> 0]
  /\ nactive = [l \in Lineup |-> 0]
  /\ phase = [l \in Lineup |-> "ARRIVING"]
  /\ inside = [l \in Lineup |-> {}]

-----------------------------------------------------------------------------
(* The scheduler, as the operations see it. *)

HasTurn(t) == runq # <<>> /\ Head(runq) = t
Ready(t, c) == HasTurn(t) /\ pc[t] = "run" /\ t \in users[c]

\* The threads waiting on c, oldest first: all of them, or the one signal() wakes.
Waiters(c) == Only(waitq, {t \in Thread : chan[t] = c})
Oldest(c) == IF Waiters(c) = <<>> THEN <<>> ELSE <<Head(Waiters(c))>>

MayExpire(woken) == {t \in ToSet(waitq) \ ToSet(woken) : timed[t]}

\* signal() moves woken to the run queue, and the incTurnCount() that follows moves the
\* waiters of E, whose time is up.
\* End of an operation: putTurn().
putTurn(t, woken) ==
  \E E \in SUBSET MayExpire(woken) :
    LET gone == ToSet(woken) \cup E IN
    /\ runq' = Append(Tail(runq) \o woken \o Only(waitq, E), t)
    /\ waitq' = Except(waitq, gone)
    /\ ret' = [u \in Thread |-> IF u \in E THEN "ETIMEDOUT" ELSE ret[u]]
    /\ chan' = [u \in Thread |-> IF u \in gone THEN None ELSE chan[u]]
    /\ timed' = [u \in Thread |-> timed[u] /\ u \notin gone]

\* syncWait(c), with or without a timeout.
syncWait(t, woken, c, tm) ==
  \E E \in SUBSET MayExpire(woken) :
    LET gone == ToSet(woken) \cup E IN
    /\ runq' = Tail(runq) \o woken \o Only(waitq, E)
    /\ waitq' = Append(Except(waitq, gone), t)
    /\ ret' = [u \in Thread |-> IF u \in E THEN "ETIMEDOUT" ELSE IF u = t THEN "0" ELSE ret[u]]
    /\ chan' = [u \in Thread |-> IF u = t THEN c ELSE IF u \in gone THEN None ELSE chan[u]]
    /\ timed' = [u \in Thread |-> IF u = t THEN tm ELSE timed[u] /\ u \notin gone]

\* A turn of the idle thread: the time of the waiters in E is up.
Tick(E) ==
  /\ E # {}
  /\ runq' = runq \o Only(waitq, E)
  /\ waitq' = Except(waitq, E)
  /\ ret' = [u \in Thread |-> IF u \in E THEN "ETIMEDOUT" ELSE ret[u]]
  /\ chan' = [u \in Thread |-> IF u \in E THEN None ELSE chan[u]]
  /\ timed' = [u \in Thread |-> timed[u] /\ u \notin E]
  /\ UNCHANGED <<pc, arg, lockVars, barVars>>

Yield(t) ==
  /\ HasTurn(t) /\ pc[t] = "run"
  /\ putTurn(t, <<>>)
  /\ UNCHANGED <<pc, arg, lockVars, barVars>>

Resume(t, p, c) == pc' = [pc EXCEPT ![t] = p] /\ arg' = [arg EXCEPT ![t] = c]
Return(t) == Resume(t, "run", None)

-----------------------------------------------------------------------------
(* Mutexes and condition variables *)

\* pthreadMutexLockHelper: one round of the loop.
pthreadMutexLockHelper(t, m, tm) ==
  \/ /\ owner[m] = None
     /\ owner' = [owner EXCEPT ![m] = t]
     /\ Return(t)
     /\ putTurn(t, <<>>)
  \/ /\ owner[m] # None
     /\ syncWait(t, <<>>, m, tm)
     /\ Resume(t, IF tm THEN "timedlock" ELSE "lock", m)
     /\ UNCHANGED owner

\* pthreadMutexLock and pthreadMutexTimedLock
MutexLock(t, m, tm) ==
  /\ Ready(t, m) /\ owner[m] # t
  /\ pthreadMutexLockHelper(t, m, tm)
  /\ UNCHANGED <<readers, writer, value, barVars>>

\* The waiter has the turn again: retry, or give up if its wait() timed out.
MutexRetry(t) ==
  /\ HasTurn(t) /\ pc[t] \in {"lock", "timedlock"}
  /\ IF ret[t] = "ETIMEDOUT"
     THEN Return(t) /\ putTurn(t, <<>>) /\ UNCHANGED owner
     ELSE pthreadMutexLockHelper(t, arg[t], pc[t] = "timedlock")
  /\ UNCHANGED <<readers, writer, value, barVars>>

MutexTryLock(t, m) ==
  /\ Ready(t, m) /\ owner[m] # t
  /\ owner' = [owner EXCEPT ![m] = IF @ = None THEN t ELSE @]
  /\ putTurn(t, <<>>)
  /\ UNCHANGED <<pc, arg, readers, writer, value, barVars>>

MutexUnlock(t, m) ==
  /\ Ready(t, m) /\ owner[m] = t
  /\ owner' = [owner EXCEPT ![m] = None]
  /\ putTurn(t, Oldest(m))
  /\ UNCHANGED <<pc, arg, readers, writer, value, barVars>>

\* pthreadCondWait and pthreadCondTimedWait: release the mutex and wait, in one turn.
CondWait(t, cv, m, tm) ==
  /\ Ready(t, m) /\ owner[m] = t
  /\ owner' = [owner EXCEPT ![m] = None]
  /\ syncWait(t, Oldest(m), cv, tm)
  /\ Resume(t, "cond", m)
  /\ UNCHANGED <<readers, writer, value, barVars>>

\* Signalled or timed out, it takes the mutex again, without a timeout.
CondRelock(t) ==
  /\ HasTurn(t) /\ pc[t] = "cond"
  /\ pthreadMutexLockHelper(t, arg[t], FALSE)
  /\ UNCHANGED <<readers, writer, value, barVars>>

CondSignal(t, cv) ==
  /\ Ready(t, cv)
  /\ putTurn(t, Oldest(cv))
  /\ UNCHANGED <<pc, arg, lockVars, barVars>>

CondBroadcast(t, cv) ==
  /\ Ready(t, cv)
  /\ putTurn(t, Waiters(cv))
  /\ UNCHANGED <<pc, arg, lockVars, barVars>>

-----------------------------------------------------------------------------
(* Semaphores *)

\* semWait and semTimedWait: one round of the loop.
SemTry(t, s, tm) ==
  \/ /\ value[s] > 0
     /\ value' = [value EXCEPT ![s] = @ - 1]
     /\ Return(t)
     /\ putTurn(t, <<>>)
  \/ /\ value[s] = 0
     /\ syncWait(t, <<>>, s, tm)
     /\ Resume(t, IF tm THEN "semTimed" ELSE "sem", s)
     /\ UNCHANGED value

SemWait(t, s, tm) ==
  /\ Ready(t, s)
  /\ SemTry(t, s, tm)
  /\ UNCHANGED <<owner, readers, writer, barVars>>

SemRetry(t) ==
  /\ HasTurn(t) /\ pc[t] \in {"sem", "semTimed"}
  /\ IF ret[t] = "ETIMEDOUT"
     THEN Return(t) /\ putTurn(t, <<>>) /\ UNCHANGED value
     ELSE SemTry(t, arg[t], pc[t] = "semTimed")
  /\ UNCHANGED <<owner, readers, writer, barVars>>

SemTryWait(t, s) ==
  /\ Ready(t, s)
  /\ value' = [value EXCEPT ![s] = IF @ > 0 THEN @ - 1 ELSE 0]
  /\ putTurn(t, <<>>)
  /\ UNCHANGED <<pc, arg, owner, readers, writer, barVars>>

SemPost(t, s) ==
  /\ Ready(t, s) /\ value[s] < MaxSem
  /\ value' = [value EXCEPT ![s] = @ + 1]
  /\ putTurn(t, Oldest(s))
  /\ UNCHANGED <<pc, arg, owner, readers, writer, barVars>>

-----------------------------------------------------------------------------
(* Read-write locks *)

Free(w) == writer[w] = None /\ readers[w] = {}

RdTry(t, w) ==
  \/ /\ writer[w] = None
     /\ readers' = [readers EXCEPT ![w] = @ \cup {t}]
     /\ Return(t)
     /\ putTurn(t, <<>>)
     /\ UNCHANGED writer
  \/ /\ writer[w] # None
     /\ syncWait(t, <<>>, w, FALSE)
     /\ Resume(t, "rdlock", w)
     /\ UNCHANGED <<readers, writer>>

WrTry(t, w) ==
  \/ /\ Free(w)
     /\ writer' = [writer EXCEPT ![w] = t]
     /\ Return(t)
     /\ putTurn(t, <<>>)
     /\ UNCHANGED readers
  \/ /\ ~Free(w)
     /\ syncWait(t, <<>>, w, FALSE)
     /\ Resume(t, "wrlock", w)
     /\ UNCHANGED <<readers, writer>>

NotHolder(t, w) == t # writer[w] /\ t \notin readers[w]

RdLock(t, w) ==
  /\ Ready(t, w) /\ NotHolder(t, w)
  /\ RdTry(t, w)
  /\ UNCHANGED <<owner, value, barVars>>

WrLock(t, w) ==
  /\ Ready(t, w) /\ NotHolder(t, w)
  /\ WrTry(t, w)
  /\ UNCHANGED <<owner, value, barVars>>

RWRetry(t) ==
  /\ HasTurn(t)
  /\ \/ pc[t] = "rdlock" /\ RdTry(t, arg[t])
     \/ pc[t] = "wrlock" /\ WrTry(t, arg[t])
  /\ UNCHANGED <<owner, value, barVars>>

\* tryrdlock and trywrlock: both try the write lock.
RWTryLock(t, w) ==
  /\ Ready(t, w) /\ NotHolder(t, w)
  /\ writer' = [writer EXCEPT ![w] = IF Free(w) THEN t ELSE @]
  /\ putTurn(t, <<>>)
  /\ UNCHANGED <<pc, arg, owner, readers, value, barVars>>

\* Mutant: only a writer's unlock signals.
RWUnlockWriterOnly(t, w) ==
  /\ Ready(t, w) /\ ~NotHolder(t, w)
  /\ readers' = [readers EXCEPT ![w] = @ \ {t}]
  /\ writer' = [writer EXCEPT ![w] = None]
  /\ putTurn(t, IF writer[w] = t THEN Oldest(w) ELSE <<>>)
  /\ UNCHANGED <<pc, arg, owner, value, barVars>>

RWUnlock(t, w) ==
  /\ Ready(t, w) /\ ~NotHolder(t, w)
  /\ readers' = [readers EXCEPT ![w] = @ \ {t}]
  /\ writer' = [writer EXCEPT ![w] = None]
  /\ putTurn(t, Oldest(w))
  /\ UNCHANGED <<pc, arg, owner, value, barVars>>

-----------------------------------------------------------------------------
(* Barriers and lineups *)

\* Mutant: the barrier is not reset for its next use.
BarrierWaitNoReset(t, b) ==
  /\ Ready(t, b)
  /\ narrived' = [narrived EXCEPT ![b] = @ + 1]
  /\ IF narrived[b] + 1 = BarrierCount THEN putTurn(t, Waiters(b)) ELSE syncWait(t, <<>>, b, FALSE)
  /\ Resume(t, "barrier", b)
  /\ UNCHANGED <<lockVars, nactive, phase, inside>>

\* Mutant: signal() instead of broadcast.
BarrierWaitOne(t, b) ==
  /\ Ready(t, b)
  /\ narrived' = [narrived EXCEPT ![b] = (@ + 1) % BarrierCount]
  /\ IF narrived[b] + 1 = BarrierCount THEN putTurn(t, Oldest(b)) ELSE syncWait(t, <<>>, b, FALSE)
  /\ Resume(t, "barrier", b)
  /\ UNCHANGED <<lockVars, nactive, phase, inside>>

\* pthreadBarrierWait: the last thread resets the barrier and wakes the others.
BarrierWait(t, b) ==
  /\ Ready(t, b)
  /\ \/ /\ narrived[b] + 1 = BarrierCount
        /\ narrived' = [narrived EXCEPT ![b] = 0]
        /\ putTurn(t, Waiters(b))
     \/ /\ narrived[b] + 1 # BarrierCount
        /\ narrived' = [narrived EXCEPT ![b] = @ + 1]
        /\ syncWait(t, <<>>, b, FALSE)
  /\ Resume(t, "barrier", b)
  /\ UNCHANGED <<lockVars, nactive, phase, inside>>

BarrierReturn(t) ==
  /\ HasTurn(t) /\ pc[t] = "barrier"
  /\ Return(t)
  /\ putTurn(t, <<>>)
  /\ UNCHANGED <<lockVars, barVars>>

SetPhase(l, p) == phase' = [phase EXCEPT ![l] = p]

\* Mutant: the timeout is not passed to syncWait.
LineupStartForever(t, l) ==
  /\ Ready(t, l) /\ t \notin inside[l]
  /\ nactive' = [nactive EXCEPT ![l] = @ + 1]
  /\ inside' = [inside EXCEPT ![l] = @ \cup {t}]
  /\ LET full == nactive[l] + 1 = LineupCount
         arriving == phase[l] = "ARRIVING"
     IN
     \/ full /\ arriving /\ SetPhase(l, "LEAVING") /\ putTurn(t, Waiters(l)) /\ UNCHANGED <<pc, arg>>
     \/ ~arriving /\ putTurn(t, <<>>) /\ UNCHANGED <<phase, pc, arg>>
     \/ ~full /\ arriving /\ syncWait(t, <<>>, l, FALSE) /\ Resume(t, "lineup", l) /\ UNCHANGED phase
  /\ UNCHANGED <<lockVars, narrived>>

\* lineupStart, up to its syncWait.
LineupStart(t, l) ==
  /\ Ready(t, l) /\ t \notin inside[l]
  /\ nactive' = [nactive EXCEPT ![l] = @ + 1]
  /\ inside' = [inside EXCEPT ![l] = @ \cup {t}]
  /\ LET full == nactive[l] + 1 = LineupCount
         arriving == phase[l] = "ARRIVING"
     IN
     \/ full /\ arriving /\ SetPhase(l, "LEAVING") /\ putTurn(t, Waiters(l)) /\ UNCHANGED <<pc, arg>>
     \/ ~arriving /\ putTurn(t, <<>>) /\ UNCHANGED <<phase, pc, arg>>
     \/ ~full /\ arriving /\ syncWait(t, <<>>, l, TRUE) /\ Resume(t, "lineup", l) /\ UNCHANGED phase
  /\ UNCHANGED <<lockVars, narrived>>

\* Mutant: the timeout opens the lineup for this thread only.
LineupWokenAlone(t) ==
  /\ HasTurn(t) /\ pc[t] = "lineup"
  /\ LET l == arg[t] IN
     IF nactive[l] < LineupCount /\ phase[l] = "ARRIVING"
     THEN SetPhase(l, "LEAVING") /\ putTurn(t, <<>>)
     ELSE UNCHANGED phase /\ putTurn(t, <<>>)
  /\ Return(t)
  /\ UNCHANGED <<lockVars, narrived, nactive, inside>>

\* ... and after it: a timeout opens the lineup for everybody.
LineupWoken(t) ==
  /\ HasTurn(t) /\ pc[t] = "lineup"
  /\ LET l == arg[t] IN
     IF nactive[l] < LineupCount /\ phase[l] = "ARRIVING"
     THEN SetPhase(l, "LEAVING") /\ putTurn(t, Waiters(l))
     ELSE UNCHANGED phase /\ putTurn(t, <<>>)
  /\ Return(t)
  /\ UNCHANGED <<lockVars, narrived, nactive, inside>>

\* Mutant: the lineup closes as soon as somebody leaves.
LineupEndEarly(t, l) ==
  /\ Ready(t, l) /\ t \in inside[l]
  /\ nactive' = [nactive EXCEPT ![l] = @ - 1]
  /\ inside' = [inside EXCEPT ![l] = @ \ {t}]
  /\ SetPhase(l, "ARRIVING")
  /\ putTurn(t, <<>>)
  /\ UNCHANGED <<pc, arg, lockVars, narrived>>

LineupEnd(t, l) ==
  /\ Ready(t, l) /\ t \in inside[l]
  /\ nactive' = [nactive EXCEPT ![l] = @ - 1]
  /\ inside' = [inside EXCEPT ![l] = @ \ {t}]
  /\ SetPhase(l, IF nactive[l] = 1 THEN "ARRIVING" ELSE phase[l])
  /\ putTurn(t, <<>>)
  /\ UNCHANGED <<pc, arg, lockVars, narrived>>

-----------------------------------------------------------------------------
Call(t) ==
  \/ Yield(t)
  \/ \E m \in Mutex : MutexTryLock(t, m) \/ MutexUnlock(t, m)
  \/ \E m \in Mutex, tm \in BOOLEAN : MutexLock(t, m, tm)
  \/ \E m \in Mutex, cv \in Cond, tm \in BOOLEAN : CondWait(t, cv, m, tm)
  \/ \E cv \in Cond : CondSignal(t, cv) \/ CondBroadcast(t, cv)
  \/ \E s \in Sem : SemTryWait(t, s) \/ SemPost(t, s)
  \/ \E s \in Sem, tm \in BOOLEAN : SemWait(t, s, tm)
  \/ \E w \in RWLock : RdLock(t, w) \/ WrLock(t, w) \/ RWTryLock(t, w) \/ RWUnlock(t, w)
  \/ \E b \in Barrier : BarrierWait(t, b)
  \/ \E o \in OpaqueType : LineupStart(t, Key(o)) \/ LineupEnd(t, Key(o))

Continue(t) ==
  \/ MutexRetry(t) \/ CondRelock(t) \/ SemRetry(t) \/ RWRetry(t)
  \/ BarrierReturn(t) \/ LineupWoken(t)

Next ==
  /\ \/ \E E \in SUBSET MayExpire(<<>>) : Tick(E)
     \/ \E t \in Thread : Call(t) \/ Continue(t)
  /\ UNCHANGED users

\* Every thread with the turn goes on, and the idle thread keeps the clock running, so
\* that no timed wait lasts for ever (TurnIsGranted and TimedWaitEnds of RRScheduler).
Fairness ==
  \A t \in Thread :
    /\ WF_vars((Call(t) \/ Continue(t)) /\ UNCHANGED users)
    /\ WF_vars(\E E \in SUBSET MayExpire(<<>>) : t \in E /\ Tick(E) /\ UNCHANGED users)

Spec == Init /\ [][Next]_vars
FairSpec == Spec /\ Fairness

-----------------------------------------------------------------------------
(* Properties. *)

\* A runnable thread that will try c again as soon as it has the turn.
Retrying(c) ==
  {t \in ToSet(runq) : pc[t] # "run" /\ arg[t] = c /\ (ret[t] = "0" \/ pc[t] = "cond")}

\* No wakeup is lost: as long as threads sleep on a mutex, semaphore or rwlock that is
\* available, enough runnable threads are on their way to take it; a thread that barges
\* in between the signal and the retry, or a waiter that times out, strands nobody.
NoLostWakeup ==
  /\ \A m \in Mutex : owner[m] = None /\ Waiters(m) # <<>> => Retrying(m) # {}
  /\ \A w \in RWLock : Free(w) /\ Waiters(w) # <<>> => Retrying(w) # {}
  /\ \A s \in Sem : Waiters(s) # <<>> => value[s] <= Cardinality(Retrying(s))

\* The barrier's count is the number of threads asleep on it, and never reaches count.
ArrivedAreAsleep ==
  \A b \in Barrier : narrived[b] = Len(Waiters(b)) /\ narrived[b] < BarrierCount

\* A barrier opens only for all of its threads together.
BarrierOpensForAll ==
  [][\A b \in Barrier :
       (\E t \in Thread : chan[t] = b /\ chan'[t] # b) =>
         Len(Waiters(b)) = BarrierCount - 1 /\ Waiters(b)' = <<>>]_vars

\* A lineup counts the threads inside it; it is closed while fewer than count have
\* arrived, nobody sleeps in an open one, and an empty one is closed.
LineupConsistent ==
  \A l \in Lineup :
    /\ nactive[l] = Cardinality(inside[l])
    /\ IF phase[l] = "ARRIVING" THEN nactive[l] < LineupCount ELSE nactive[l] > 0 /\ Waiters(l) = <<>>

\* A lineup opens only when count threads have arrived or one has really timed out: a
\* thread woken by the others never finds it closed again.
LineupOpensForAReason ==
  [][\A l \in Lineup : phase[l] = "ARRIVING" /\ phase'[l] = "LEAVING" =>
       nactive'[l] = LineupCount \/ ret[Head(runq)] = "ETIMEDOUT"]_vars

\* lineup_start returns, whoever comes.
LineupStartReturns == \A t \in Thread : pc[t] = "lineup" ~> pc[t] = "run"
=============================================================================
