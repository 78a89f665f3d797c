------------------------ MODULE RRScheduler_proofs ------------------------
(***************************************************************************)
(* There is one turn, its holder is at the front of the run queue and the  *)
(* two queues satisfy selfcheck(), for any number of threads.  The first    *)
(* part shows that IInv is inductive: one lemma for each of its conjuncts,  *)
(* one step for each action.  The second part adds the conjuncts of FullInv *)
(* in the same way.  The third part is about the run queue itself: the      *)
(* linked list implements the sequence that the scheduler takes it for.     *)
(***************************************************************************)
EXTENDS RRScheduler, RunQueue, SeqLemmas

\* The two special threads exist, and a thread that can be created has a tid.
LEMMA TidFacts ==
  /\ MainThreadTid \in Tid /\ IdleThreadTid \in Tid /\ InvalidTid \notin Tid
  /\ MainThreadTid # IdleThreadTid
  /\ \A n \in 1..MaxThread : n < MaxThread => n \in Tid
  /\ Tid \subseteq Int
  BY ThreadAssumption DEF MainThreadTid, IdleThreadTid, InvalidTid, Tid

\* What moving a waiter w to the run queue does, in terms of sets.
Moved(w, st) ==
  /\ w \in Tid /\ w \in ToSet(waitq)
  /\ runq' \in Seq(Tid) /\ waitq' \in Seq(Tid)
  /\ IsInjective(runq') /\ IsInjective(waitq')
  /\ ToSet(waitq') = ToSet(waitq) \ {w}
  /\ ToSet(runq') = ToSet(runq) \cup {w}
  /\ runq # <<>> => runq' # <<>> /\ Head(runq') = Head(runq)
  /\ chan' = [chan EXCEPT ![w] = NULL]
  /\ timeout' = [timeout EXCEPT ![w] = Forever]
  /\ ret' = [ret EXCEPT ![w] = st]
  /\ wakenUp' = [wakenUp EXCEPT ![w] = FALSE]

\* Release(i, st) moves the i-th waiter from a duplicate-free wait queue to the run queue.
LEMMA ReleaseMoves ==
  ASSUME TypeOK, QueueInv, NEW i \in 1..Len(waitq), NEW st, Release(i, st)
  PROVE  Moved(waitq[i], st)
<1>1. waitq \in Seq(Tid) /\ runq \in Seq(Tid) BY DEF TypeOK
<1>2. waitq[i] \in Tid /\ waitq[i] \in ToSet(waitq) BY <1>1, InToSet
<1>3. waitq[i] \notin ToSet(runq) /\ IsInjective(runq) /\ IsInjective(waitq)
  BY <1>2 DEF QueueInv
<1>4. /\ runq' = Append(runq, waitq[i]) /\ waitq' = RemoveAt(waitq, i)
      /\ chan' = [chan EXCEPT ![waitq[i]] = NULL]
      /\ timeout' = [timeout EXCEPT ![waitq[i]] = Forever]
      /\ ret' = [ret EXCEPT ![waitq[i]] = st]
      /\ wakenUp' = [wakenUp EXCEPT ![waitq[i]] = FALSE]
  BY DEF Release
<1>5. /\ runq' \in Seq(Tid) /\ runq' # <<>> /\ ToSet(runq') = ToSet(runq) \cup {waitq[i]}
      /\ runq # <<>> => Head(runq') = Head(runq)
      /\ IsInjective(runq')
  BY <1>1, <1>2, <1>3, <1>4, AppendProps
<1>6. /\ waitq' \in Seq(Tid)
      /\ ToSet(waitq) = ToSet(waitq') \cup {waitq[i]}
      /\ IsInjective(waitq') /\ waitq[i] \notin ToSet(waitq')
  BY <1>1, <1>3, <1>4, RemoveAtProps
<1>7. ToSet(waitq') = ToSet(waitq) \ {waitq[i]} BY <1>6
<1> QED BY <1>2, <1>4, <1>5, <1>6, <1>7 DEF Moved

\* The wait-queue variables stay well typed.
WaitTypes ==
  /\ runq \in Seq(Tid) /\ waitq \in Seq(Tid)
  /\ chan \in [Tid -> Chan \cup Tid \cup {NULL, IdleCond, IdleMutex}]
  /\ timeout \in [Tid -> Int]
  /\ ret \in [Tid -> {"0", "ETIMEDOUT"}]
  /\ wakenUp \in [Tid -> BOOLEAN]

\* Moving a waiter keeps those types.
LEMMA MovedTypes ==
  ASSUME WaitTypes, NEW w, NEW st \in {"0", "ETIMEDOUT"}, Moved(w, st)
  PROVE  WaitTypes'
<1>1. chan' \in [Tid -> Chan \cup Tid \cup {NULL, IdleCond, IdleMutex}] BY DEF Moved, WaitTypes
<1>2. timeout' \in [Tid -> Int] BY TimeAssumption DEF Moved, WaitTypes
<1>3. ret' \in [Tid -> {"0", "ETIMEDOUT"}] BY DEF Moved, WaitTypes
<1>4. wakenUp' \in [Tid -> BOOLEAN] BY DEF Moved, WaitTypes
<1> QED BY <1>1, <1>2, <1>3, <1>4 DEF Moved, WaitTypes

\* signal(c) moves one waiter or changes nothing.
LEMMA SignalMoves ==
  ASSUME TypeOK, QueueInv, NEW c, signal(c)
  PROVE  (UNCHANGED queueVars) \/ (UNCHANGED status /\ \E w \in Tid : Moved(w, "0"))
<1>1. CASE UNCHANGED queueVars BY <1>1
<1>2. CASE UNCHANGED status /\ \E i \in 1..Len(waitq) : FirstIn(i, WaitersOn(c)) /\ Release(i, "0")
  <2>1. PICK i \in 1..Len(waitq) : Release(i, "0") BY <1>2
  <2>2. Moved(waitq[i], "0") BY <2>1, ReleaseMoves
  <2> QED BY <1>2, <2>2 DEF Moved
<1> QED BY <1>1, <1>2 DEF signal

\* Popping the head t leaves a duplicate-free run queue without t.
LEMMA PopHead ==
  ASSUME TypeOK, QueueInv, runq # <<>>
  PROVE  /\ Tail(runq) \in Seq(Tid) /\ IsInjective(Tail(runq))
         /\ ToSet(Tail(runq)) = ToSet(runq) \ {Head(runq)}
         /\ Head(runq) \in Tid /\ Head(runq) \in ToSet(runq)
<1>1. runq \in Seq(Tid) /\ IsInjective(runq) BY DEF TypeOK, QueueInv
<1>2. /\ Tail(runq) \in Seq(Tid) /\ IsInjective(Tail(runq))
      /\ ToSet(runq) = ToSet(Tail(runq)) \cup {Head(runq)}
      /\ Head(runq) \notin ToSet(Tail(runq))
  BY <1>1, TailProps
<1>3. Head(runq) \in Tid /\ Head(runq) \in ToSet(runq) BY <1>1, HeadProps
<1> QED BY <1>2, <1>3

\* Everything in a queue is a thread.
LEMMA QueuedTid == ASSUME TypeOK PROVE ToSet(runq) \subseteq Tid /\ ToSet(waitq) \subseteq Tid
  BY InToSet DEF TypeOK

\* wait() is never called with a NULL channel and no deadline.
LEMMA WaitArgsProps ==
  ASSUME TypeOK, NEW t \in Tid, NEW a \in WaitArgs(t)
  PROVE  /\ a[1] \in Chan \cup Tid \cup {NULL, IdleCond, IdleMutex}
         /\ a[2] \in Int /\ a[2] <= Forever
         /\ a[1] # NULL \/ a[2] # Forever
<1> DEFINE joinable == {u \in 0..(nthread - 1) : u \notin {t, IdleThreadTid} /\ ~Zombie(u)}
<1>1. Forever \in Int /\ \A n \in NTurns : n \in Int /\ n < Forever BY TimeAssumption
<1>2. NULL \notin Chan \cup Tid /\ NULL # IdleCond /\ NULL # IdleMutex BY ChanAssumption
<1>3. CASE a \in {<<IdleCond, Forever>>, <<IdleMutex, Forever>>, <<IdleThreadTid, Forever>>}
  BY <1>1, <1>2, <1>3, TidFacts
<1>4. CASE a \in Chan \X (NTurns \cup {Forever})
  <2>1. a[1] \in Chan /\ a[2] \in NTurns \cup {Forever} BY <1>4
  <2> QED BY <1>1, <1>2, <2>1
<1>5. CASE a \in {NULL} \X NTurns
  <2>1. a[1] = NULL /\ a[2] \in NTurns BY <1>5
  <2> QED BY <1>1, <2>1
<1>6. CASE a \in joinable \X {Forever}
  <2>1. a[1] \in joinable /\ a[2] = Forever BY <1>6
  <2>2. a[1] \in Tid BY <2>1, ThreadAssumption DEF TypeOK, Tid
  <2> QED BY <1>1, <1>2, <2>1, <2>2
<1>7. \/ a \in {<<IdleCond, Forever>>, <<IdleMutex, Forever>>, <<IdleThreadTid, Forever>>}
      \/ a \in Chan \X (NTurns \cup {Forever}) \/ a \in {NULL} \X NTurns
      \/ a \in joinable \X {Forever}
  BY DEF WaitArgs
<1> QED BY <1>3, <1>4, <1>5, <1>6, <1>7

\* Control flow: every step keeps program points, operations and phases consistent.
LEMMA ControlStep == ASSUME IInv, [Next]_vars PROVE ControlInv'
<1> USE TidFacts DEF IInv, Goto, RealPhase, Begin, NextPhase, queueVars, wakeVars, idleVars
<1>1. ASSUME NEW t \in Tid, GetTurn(t) PROVE ControlInv'
  BY <1>1 DEF GetTurn, ControlInv, TypeOK, NextOp, Op, MainPhase, IdlePhase, Pc, HoldPc, FrontPc, NextPc, IdlePc
<1>2. ASSUME NEW t \in Tid, IncTurnCount(t) PROVE ControlInv'
  BY <1>2 DEF IncTurnCount, ControlInv, TypeOK, NextOp, Op, MainPhase, IdlePhase, Pc, HoldPc, FrontPc, NextPc, IdlePc
<1>3. ASSUME NEW t \in Tid, FireTimeout(t) PROVE ControlInv'
  BY <1>3 DEF FireTimeout, ControlInv, TypeOK, NextOp, Op, MainPhase, IdlePhase, Pc, HoldPc, FrontPc, NextPc, IdlePc
<1>4. ASSUME NEW t \in Tid, FireDone(t) PROVE ControlInv'
  BY <1>4 DEF FireDone, ControlInv, TypeOK, NextOp, Op, MainPhase, IdlePhase, Pc, HoldPc, FrontPc, NextPc, IdlePc
<1>5. ASSUME NEW t \in Tid, CheckWakeupFlag(t) PROVE ControlInv'
  BY <1>5 DEF CheckWakeupFlag, ControlInv, TypeOK, NextOp, Op, MainPhase, IdlePhase, Pc, HoldPc, FrontPc, NextPc, IdlePc, AfterInc
<1>6. ASSUME NEW t \in Tid, NEW u \in wakeTids, CheckWakeupOne(t, u) PROVE ControlInv'
  BY <1>6 DEF CheckWakeupOne, ControlInv, TypeOK, NextOp, Op, MainPhase, IdlePhase, Pc, HoldPc, FrontPc, NextPc, IdlePc
<1>7. ASSUME NEW t \in Tid, CheckWakeupDone(t) PROVE ControlInv'
  BY <1>7 DEF CheckWakeupDone, ControlInv, TypeOK, NextOp, Op, MainPhase, IdlePhase, Pc, HoldPc, FrontPc, NextPc, IdlePc, AfterInc
<1>8. ASSUME NEW t \in Tid, Leave(t) PROVE ControlInv'
  BY <1>8 DEF Leave, LeaveFront, ControlInv, TypeOK, NextOp, Op, MainPhase, IdlePhase, Pc, HoldPc, FrontPc, NextPc, IdlePc
<1>9. ASSUME NEW t \in Tid, PutTurn(t) PROVE ControlInv'
  BY <1>9 DEF PutTurn, ControlInv, TypeOK, NextOp, Op, MainPhase, IdlePhase, Pc, HoldPc, FrontPc, NextPc, IdlePc
<1>10. ASSUME NEW t \in Tid, ThreadEnd(t) PROVE ControlInv'
  BY <1>10 DEF ThreadEnd, ControlInv, TypeOK, NextOp, Op, MainPhase, IdlePhase, Pc, HoldPc, FrontPc, NextPc, IdlePc
<1>11. ASSUME NEW t \in Tid, Wait(t) PROVE ControlInv'
  BY <1>11, SMTT(60) DEF Wait, LeaveFront, ControlInv, TypeOK, NextOp, Op, MainPhase, IdlePhase, Pc, HoldPc, FrontPc, NextPc, IdlePc
<1>12. ASSUME NEW t \in Tid, NextInvalid(t) PROVE ControlInv'
  BY <1>12 DEF NextInvalid, ControlInv, TypeOK, NextOp, Op, MainPhase, IdlePhase, Pc, HoldPc, FrontPc, NextPc, IdlePc
<1>13. ASSUME NEW t \in Tid, WakeUpIdleThreadExit(t) PROVE ControlInv'
  BY <1>13 DEF WakeUpIdleThreadExit, EmptyScan, ControlInv, TypeOK, NextOp, Op, MainPhase, IdlePhase, Pc, HoldPc, FrontPc, NextPc, IdlePc
<1>14. ASSUME NEW t \in Tid, WakeUpIdleThread(t) PROVE ControlInv'
  BY <1>14 DEF WakeUpIdleThread, EmptyScan, ControlInv, TypeOK, NextOp, Op, MainPhase, IdlePhase, Pc, HoldPc, FrontPc, NextPc, IdlePc
<1>15. ASSUME NEW t \in Tid, SignalIdle(t) PROVE ControlInv'
  BY <1>15 DEF SignalIdle, ControlInv, TypeOK, NextOp, Op, MainPhase, IdlePhase, Pc, HoldPc, FrontPc, NextPc, IdlePc
<1>16. ASSUME NEW t \in Tid, SkipHead(t) PROVE ControlInv'
  BY <1>16 DEF SkipHead, ControlInv, TypeOK, NextOp, Op, MainPhase, IdlePhase, Pc, HoldPc, FrontPc, NextPc, IdlePc
<1>17. ASSUME NEW t \in Tid, PassTurn(t) PROVE ControlInv'
  BY <1>17, SMTT(60) DEF PassTurn, ControlInv, TypeOK, NextOp, Op, MainPhase, IdlePhase, Pc, HoldPc, FrontPc, NextPc, IdlePc, AfterNext
<1>18. ASSUME NEW t \in Tid, Block(t) PROVE ControlInv'
  BY <1>18 DEF Block, ControlInv, TypeOK, NextOp, Op, MainPhase, IdlePhase, Pc, HoldPc, FrontPc, NextPc, IdlePc
<1>19. ASSUME NEW t \in Tid, Wakeup(t) PROVE ControlInv'
  BY <1>19 DEF Wakeup, ControlInv, TypeOK, NextOp, Op, MainPhase, IdlePhase, Pc, HoldPc, FrontPc, NextPc, IdlePc
<1>20. ASSUME NEW t \in Tid, LockIdleMutex(t) PROVE ControlInv'
  BY <1>20 DEF LockIdleMutex, ControlInv, TypeOK, NextOp, Op, MainPhase, IdlePhase, Pc, HoldPc, FrontPc, NextPc, IdlePc
<1>21. ASSUME NEW t \in Tid, UnlockIdleMutex(t) PROVE ControlInv'
  BY <1>21 DEF UnlockIdleMutex, ControlInv, TypeOK, NextOp, Op, MainPhase, IdlePhase, Pc, HoldPc, FrontPc, NextPc, IdlePc
<1>22. ASSUME NEW t \in Tid, IdleSleep(t) PROVE ControlInv'
  BY <1>22 DEF IdleSleep, ControlInv, TypeOK, NextOp, Op, MainPhase, IdlePhase, Pc, HoldPc, FrontPc, NextPc, IdlePc
<1>23. ASSUME NEW t \in Tid, IdleCondWait(t) PROVE ControlInv'
  BY <1>23 DEF IdleCondWait, ControlInv, TypeOK, NextOp, Op, MainPhase, IdlePhase, Pc, HoldPc, FrontPc, NextPc, IdlePc
<1>24. ASSUME NEW t \in Tid, IdleCheckRunq(t) PROVE ControlInv'
  BY <1>24 DEF IdleCheckRunq, ControlInv, TypeOK, NextOp, Op, MainPhase, IdlePhase, Pc, HoldPc, FrontPc, NextPc, IdlePc
<1>25. ASSUME NEW t \in Tid, TryPutTurn(t) PROVE ControlInv'
  BY <1>25 DEF TryPutTurn, ControlInv, TypeOK, NextOp, Op, MainPhase, IdlePhase, Pc, HoldPc, FrontPc, NextPc, IdlePc
<1>26. ASSUME NEW t \in Tid, TryPutTurnFail(t) PROVE ControlInv'
  BY <1>26 DEF TryPutTurnFail, ControlInv, TypeOK, NextOp, Op, MainPhase, IdlePhase, Pc, HoldPc, FrontPc, NextPc, IdlePc
<1>27. ASSUME NEW t \in Tid, CondSleep(t) PROVE ControlInv'
  BY <1>27 DEF CondSleep, ControlInv, TypeOK, NextOp, Op, MainPhase, IdlePhase, Pc, HoldPc, FrontPc, NextPc, IdlePc
<1>28. ASSUME NEW t \in Tid, CondReturn(t) PROVE ControlInv'
  BY <1>28 DEF CondReturn, ControlInv, TypeOK, NextOp, Op, MainPhase, IdlePhase, Pc, HoldPc, FrontPc, NextPc, IdlePc
<1>29. ASSUME NEW t \in Tid, Exit(t) PROVE ControlInv'
  BY <1>29 DEF Exit, ControlInv, TypeOK, NextOp, Op, MainPhase, IdlePhase, Pc, HoldPc, FrontPc, NextPc, IdlePc
<1>30. ASSUME SetIdleDone PROVE ControlInv'
  BY <1>30 DEF SetIdleDone, ControlInv, TypeOK, NextOp, Op, MainPhase, IdlePhase, Pc, HoldPc, FrontPc, NextPc, IdlePc
<1>31. ASSUME ProgEndSignal PROVE ControlInv'
  BY <1>31 DEF ProgEndSignal, ControlInv, TypeOK, NextOp, Op, MainPhase, IdlePhase, Pc, HoldPc, FrontPc, NextPc, IdlePc
<1>32. ASSUME ProgEndRealSignal PROVE ControlInv'
  BY <1>32 DEF ProgEndRealSignal, ControlInv, TypeOK, NextOp, Op, MainPhase, IdlePhase, Pc, HoldPc, FrontPc, NextPc, IdlePc
<1>45. ASSUME ProgEndRealLock PROVE ControlInv'
  BY <1>45 DEF ProgEndRealLock, ControlInv, TypeOK, NextOp, Op, MainPhase, IdlePhase, Pc, HoldPc, FrontPc, NextPc, IdlePc
<1>46. ASSUME ProgEndRealUnlock PROVE ControlInv'
  BY <1>46 DEF ProgEndRealUnlock, ControlInv, TypeOK, NextOp, Op, MainPhase, IdlePhase, Pc, HoldPc, FrontPc, NextPc, IdlePc
<1>33. ASSUME ProgEndJoin PROVE ControlInv'
  BY <1>33 DEF ProgEndJoin, ControlInv, TypeOK, NextOp, Op, MainPhase, IdlePhase, Pc, HoldPc, FrontPc, NextPc, IdlePc
<1>34. ASSUME NEW t \in Tid, CallGetTurn(t) PROVE ControlInv'
  BY <1>34 DEF CallGetTurn, ControlInv, TypeOK, NextOp, Op, MainPhase, IdlePhase, Pc, HoldPc, FrontPc, NextPc, IdlePc
<1>35. ASSUME NEW t \in Tid, InterProStartStop(t) PROVE ControlInv'
  BY <1>35 DEF InterProStartStop, CanBlock, ControlInv, TypeOK, NextOp, Op, MainPhase, IdlePhase, Pc, HoldPc, FrontPc, NextPc, IdlePc
<1>36. ASSUME NEW t \in Tid, InterProStartHead(t) PROVE ControlInv'
  BY <1>36 DEF InterProStartHead, CanBlock, ControlInv, TypeOK, NextOp, Op, MainPhase, IdlePhase, Pc, HoldPc, FrontPc, NextPc, IdlePc
<1>37. ASSUME NEW t \in Tid, NEW c \in Chan, SyncSignal(t, c) PROVE ControlInv'
  BY <1>37 DEF SyncSignal, InApp, ControlInv, TypeOK, NextOp, Op, MainPhase, IdlePhase, Pc, HoldPc, FrontPc, NextPc, IdlePc
<1>38. ASSUME NEW t \in Tid, Create(t) PROVE ControlInv'
  BY <1>38, SMTT(60) DEF Create, InApp, ControlInv, TypeOK, NextOp, Op, MainPhase, IdlePhase, Pc, HoldPc, FrontPc, NextPc, IdlePc
<1>39. ASSUME NEW t \in Tid, FakeEnd(t) PROVE ControlInv'
  BY <1>39 DEF FakeEnd, InApp, ControlInv, TypeOK, NextOp, Op, MainPhase, IdlePhase, Pc, HoldPc, FrontPc, NextPc, IdlePc
<1>40. ASSUME NEW t \in Tid, EndOp(t) PROVE ControlInv'
  BY <1>40 DEF EndOp, InApp, ControlInv, TypeOK, NextOp, Op, MainPhase, IdlePhase, Pc, HoldPc, FrontPc, NextPc, IdlePc
<1>41. ASSUME NEW t \in Tid, InterProEnd(t) PROVE ControlInv'
  BY <1>41 DEF InterProEnd, ControlInv, TypeOK, NextOp, Op, MainPhase, IdlePhase, Pc, HoldPc, FrontPc, NextPc, IdlePc
<1>42. ASSUME NEW t \in Tid, CondSpurious(t) PROVE ControlInv'
  BY <1>42 DEF CondSpurious, ControlInv, TypeOK, NextOp, Op, MainPhase, IdlePhase, Pc, HoldPc, FrontPc, NextPc, IdlePc
<1>43. ASSUME ProgEnd PROVE ControlInv'
  BY <1>43 DEF ProgEnd, ControlInv, TypeOK, NextOp, Op, MainPhase, IdlePhase, Pc, HoldPc, FrontPc, NextPc, IdlePc
<1>44. CASE UNCHANGED vars
  BY <1>44 DEF vars, ControlInv, TypeOK, NextOp, Op, MainPhase, IdlePhase, Pc, HoldPc, FrontPc, NextPc, IdlePc
<1> QED
  BY <1>1, <1>2, <1>3, <1>4, <1>5, <1>6, <1>7, <1>8, <1>9, <1>10, <1>11, <1>12,
     <1>13, <1>14, <1>15, <1>16, <1>17, <1>18, <1>19, <1>20, <1>21, <1>22, <1>23,
     <1>24, <1>25, <1>26, <1>27, <1>28, <1>29, <1>30, <1>31, <1>32, <1>33, <1>34,
     <1>35, <1>36, <1>37, <1>38, <1>39, <1>40, <1>41, <1>42, <1>43, <1>44, <1>45, <1>46
  DEF Next, SchedulerStep, IdleStep, MainStep, AppStep, EnvStep

\* Every step keeps the type invariant; a pop is never of an empty queue.
LEMMA TypeStep == ASSUME IInv, [Next]_vars PROVE TypeOK'
<1> USE TidFacts, TimeAssumption DEF IInv, Goto, RealPhase, Begin, NextPhase, queueVars, wakeVars, idleVars
<1>1. ASSUME NEW t \in Tid, GetTurn(t) PROVE TypeOK'
  BY <1>1 DEF GetTurn, TypeOK, Status, Op, NextOp, MainPhase, IdlePhase, Pc, HoldPc, FrontPc, NextPc, IdlePc
<1>2. ASSUME NEW t \in Tid, IncTurnCount(t) PROVE TypeOK'
  <2>1. timeout' \in [Tid -> Int] BY <1>2 DEF IncTurnCount, TypeOK
  <2>2. pc' \in [Tid -> Pc] BY <1>2 DEF IncTurnCount, TypeOK, Pc, HoldPc, FrontPc
  <2> QED BY <1>2, <2>1, <2>2 DEF IncTurnCount, TypeOK
<1>3. ASSUME NEW t \in Tid, FireTimeout(t) PROVE TypeOK'
  <2>1. PICK i \in 1..Len(waitq) : Release(i, "ETIMEDOUT") BY <1>3 DEF FireTimeout
  <2>2. Moved(waitq[i], "ETIMEDOUT") BY <2>1, ReleaseMoves
  <2>3. WaitTypes' BY <2>2, MovedTypes DEF TypeOK, WaitTypes
  <2> QED BY <1>3, <2>3 DEF FireTimeout, TypeOK, WaitTypes
<1>4. ASSUME NEW t \in Tid, FireDone(t) PROVE TypeOK'
  BY <1>4 DEF FireDone, TypeOK, Status, Op, NextOp, MainPhase, IdlePhase, Pc, HoldPc, FrontPc, NextPc, IdlePc
<1>5. ASSUME NEW t \in Tid, CheckWakeupFlag(t) PROVE TypeOK'
  <2>1. AfterInc(op[t]) \in Pc BY <1>5 DEF CheckWakeupFlag, ControlInv, TypeOK, AfterInc, Op, NextOp, Pc, HoldPc, FrontPc, NextPc, IdlePc
  <2> QED BY <1>5, <2>1 DEF CheckWakeupFlag, TypeOK, Status, Op, NextOp, MainPhase, IdlePhase, Pc, HoldPc, FrontPc, NextPc, IdlePc
<1>6. ASSUME NEW t \in Tid, NEW u \in wakeTids, CheckWakeupOne(t, u) PROVE TypeOK'
  <2>1. u \in Tid BY <1>6 DEF TypeOK
  <2>2. runq' \in Seq(Tid) BY <1>6, <2>1 DEF CheckWakeupOne, TypeOK
  <2>3. wakeTids' \in SUBSET Tid BY <1>6 DEF CheckWakeupOne, TypeOK
  <2> QED BY <1>6, <2>2, <2>3 DEF CheckWakeupOne, TypeOK
<1>7. ASSUME NEW t \in Tid, CheckWakeupDone(t) PROVE TypeOK'
  <2>1. pc[t] = "inc_wake" => AfterInc(op[t]) \in Pc
    BY <1>7 DEF CheckWakeupDone, ControlInv, TypeOK, AfterInc, Op, NextOp, Pc, HoldPc, FrontPc, NextPc, IdlePc
  <2> QED BY <1>7, <2>1 DEF CheckWakeupDone, TypeOK, Status, Op, NextOp, MainPhase, IdlePhase, Pc, HoldPc, FrontPc, NextPc, IdlePc
<1>8. ASSUME NEW t \in Tid, Leave(t) PROVE TypeOK'
  <2>1. runq # <<>> /\ Head(runq) = t BY <1>8 DEF HolderAtFront, Leave, FrontPc
  <2>2. Tail(runq) \in Seq(Tid) /\ Append(Tail(runq), t) \in Seq(Tid) BY <2>1, PopHead
  <2> QED BY <1>8, <2>2 DEF Leave, LeaveFront, TypeOK, Status, Op, NextOp, MainPhase, IdlePhase, Pc, HoldPc, FrontPc, NextPc, IdlePc, StatusOnLeave
<1>9. ASSUME NEW t \in Tid, PutTurn(t) PROVE TypeOK'
  <2>1. runq # <<>> /\ Head(runq) = t BY <1>9 DEF HolderAtFront, PutTurn, FrontPc
  <2>2. Tail(runq) \in Seq(Tid) /\ Append(Tail(runq), t) \in Seq(Tid) BY <2>1, PopHead
  <2> QED BY <1>9, <2>2 DEF PutTurn, TypeOK, Status, Op, NextOp, MainPhase, IdlePhase, Pc, HoldPc, FrontPc, NextPc, IdlePc
<1>10. ASSUME NEW t \in Tid, ThreadEnd(t) PROVE TypeOK'
  <2>1. (UNCHANGED queueVars) \/ (UNCHANGED status /\ \E w \in Tid : Moved(w, "0"))
    BY <1>10, SignalMoves DEF ThreadEnd
  <2>2. WaitTypes' /\ UNCHANGED status
    <3>1. CASE UNCHANGED queueVars BY <3>1 DEF TypeOK, WaitTypes
    <3>2. CASE UNCHANGED status /\ \E w \in Tid : Moved(w, "0")
      BY <3>2, MovedTypes DEF TypeOK, WaitTypes
    <3> QED BY <2>1, <3>1, <3>2
  <2>3. pc' \in [Tid -> Pc] /\ op' \in [Tid -> Op] BY <1>10 DEF ThreadEnd, TypeOK, Op, NextOp, Pc, HoldPc, FrontPc
  <2>4. phase' \in [Tid -> MainPhase \cup IdlePhase] BY <1>10 DEF ThreadEnd, TypeOK, MainPhase, IdlePhase
  <2> QED BY <1>10, <2>2, <2>3, <2>4 DEF ThreadEnd, TypeOK, WaitTypes
<1>11. ASSUME NEW t \in Tid, Wait(t) PROVE TypeOK'
  <2>1. runq # <<>> /\ Head(runq) = t BY <1>11 DEF HolderAtFront, Wait, FrontPc
  <2>2. Tail(runq) \in Seq(Tid) /\ Append(Tail(runq), t) \in Seq(Tid) BY <2>1, PopHead
  <2>3. PICK a \in WaitArgs(t) : chan' = [chan EXCEPT ![t] = a[1]] /\ timeout' = [timeout EXCEPT ![t] = a[2]]
    BY <1>11 DEF Wait
  <2>4. a[1] \in Chan \cup Tid \cup {NULL, IdleCond, IdleMutex} /\ a[2] \in Int BY WaitArgsProps
  <2>5. chan' \in [Tid -> Chan \cup Tid \cup {NULL, IdleCond, IdleMutex}] BY <2>3, <2>4 DEF TypeOK
  <2>6. timeout' \in [Tid -> Int] BY <2>3, <2>4 DEF TypeOK
  <2>7. waitq' \in Seq(Tid) BY <1>11 DEF Wait, TypeOK
  <2>8. status' \in [Tid -> Status] /\ pc' \in [Tid -> Pc]
    BY <1>11 DEF Wait, LeaveFront, StatusOnLeave, TypeOK, Status, Pc, HoldPc, NextPc
  <2> QED BY <1>11, <2>2, <2>5, <2>6, <2>7, <2>8 DEF Wait, LeaveFront, TypeOK
<1>12. ASSUME NEW t \in Tid, NextInvalid(t) PROVE TypeOK'
  BY <1>12 DEF NextInvalid, TypeOK, Status, Op, NextOp, MainPhase, IdlePhase, Pc, HoldPc, FrontPc, NextPc, IdlePc
<1>13. ASSUME NEW t \in Tid, WakeUpIdleThreadExit(t) PROVE TypeOK'
  BY <1>13 DEF WakeUpIdleThreadExit, EmptyScan, TypeOK, Status, Op, NextOp, MainPhase, IdlePhase, Pc, HoldPc, FrontPc, NextPc, IdlePc
<1>14. ASSUME NEW t \in Tid, WakeUpIdleThread(t) PROVE TypeOK'
  <2>1. PICK i \in 1..Len(waitq) : Release(i, "0") BY <1>14 DEF WakeUpIdleThread
  <2>2. Moved(waitq[i], "0") BY <2>1, ReleaseMoves
  <2>3. WaitTypes' BY <2>2, MovedTypes DEF TypeOK, WaitTypes
  <2> QED BY <1>14, <2>3 DEF WakeUpIdleThread, EmptyScan, TypeOK, Status, Op, NextOp, MainPhase, IdlePhase, Pc, HoldPc, FrontPc, NextPc, IdlePc, WaitTypes
<1>15. ASSUME NEW t \in Tid, SignalIdle(t) PROVE TypeOK'
  BY <1>15 DEF SignalIdle, TypeOK, Status, Op, NextOp, MainPhase, IdlePhase, Pc, HoldPc, FrontPc, NextPc, IdlePc
<1>16. ASSUME NEW t \in Tid, SkipHead(t) PROVE TypeOK'
  <2>1. Tail(runq) \in Seq(Tid) BY <1>16, PopHead DEF SkipHead
  <2> QED BY <1>16, <2>1 DEF SkipHead, TypeOK, Status, Op, NextOp, MainPhase, IdlePhase, Pc, HoldPc, FrontPc, NextPc, IdlePc
<1>17. ASSUME NEW t \in Tid, PassTurn(t) PROVE TypeOK'
  <2>1. AfterNext(op[t]) \in Pc BY <1>17 DEF PassTurn, ControlInv, AfterNext, NextOp, Pc, HoldPc, FrontPc, NextPc, IdlePc
  <2>2. Head(runq) \in Tid BY <1>17, PopHead DEF PassTurn
  <2> QED BY <1>17, <2>1, <2>2 DEF TypeOK, PassTurn, Status, Op
<1>18. ASSUME NEW t \in Tid, Block(t) PROVE TypeOK'
  BY <1>18 DEF Block, TypeOK, Status, Op, NextOp, MainPhase, IdlePhase, Pc, HoldPc, FrontPc, NextPc, IdlePc
<1>19. ASSUME NEW t \in Tid, Wakeup(t) PROVE TypeOK'
  BY <1>19 DEF Wakeup, TypeOK, Status, Op, NextOp, MainPhase, IdlePhase, Pc, HoldPc, FrontPc, NextPc, IdlePc
<1>20. ASSUME NEW t \in Tid, LockIdleMutex(t) PROVE TypeOK'
  <2>1. pc' \in [Tid -> Pc] BY <1>20 DEF LockIdleMutex, TypeOK, Pc, HoldPc, FrontPc
  <2>2. op' \in [Tid -> Op] BY <1>20 DEF LockIdleMutex, TypeOK, Op, NextOp
  <2>3. phase' \in [Tid -> MainPhase \cup IdlePhase] /\ idle_mutex' \in Tid \cup {InvalidTid}
    BY <1>20 DEF LockIdleMutex, TypeOK, MainPhase, IdlePhase
  <2> QED BY <1>20, <2>1, <2>2, <2>3 DEF LockIdleMutex, TypeOK
<1>21. ASSUME NEW t \in Tid, UnlockIdleMutex(t) PROVE TypeOK'
  <2>1. (UNCHANGED queueVars) \/ (UNCHANGED status /\ \E w \in Tid : Moved(w, "0"))
    BY <1>21, SignalMoves DEF UnlockIdleMutex
  <2>2. WaitTypes' /\ UNCHANGED status
    <3>1. CASE UNCHANGED queueVars BY <3>1 DEF TypeOK, WaitTypes
    <3>2. CASE UNCHANGED status /\ \E w \in Tid : Moved(w, "0")
      BY <3>2, MovedTypes DEF TypeOK, WaitTypes
    <3> QED BY <2>1, <3>1, <3>2
  <2>3. pc' \in [Tid -> Pc] /\ op' \in [Tid -> Op] BY <1>21 DEF UnlockIdleMutex, TypeOK, Op, NextOp, Pc, HoldPc, FrontPc
  <2>4. phase' \in [Tid -> MainPhase \cup IdlePhase] BY <1>21 DEF UnlockIdleMutex, TypeOK, MainPhase, IdlePhase
  <2> QED BY <1>21, <2>2, <2>3, <2>4 DEF UnlockIdleMutex, TypeOK, WaitTypes
<1>22. ASSUME NEW t \in Tid, IdleSleep(t) PROVE TypeOK'
  BY <1>22 DEF IdleSleep, TypeOK, Status, Op, NextOp, MainPhase, IdlePhase, Pc, HoldPc, FrontPc, NextPc, IdlePc
<1>23. ASSUME NEW t \in Tid, IdleCondWait(t) PROVE TypeOK'
  BY <1>23 DEF IdleCondWait, TypeOK, Status, Op, NextOp, MainPhase, IdlePhase, Pc, HoldPc, FrontPc, NextPc, IdlePc
<1>24. ASSUME NEW t \in Tid, IdleCheckRunq(t) PROVE TypeOK'
  <2>1. pc' \in [Tid -> Pc] BY <1>24 DEF IdleCheckRunq, TypeOK, Pc, HoldPc, FrontPc
  <2>2. op' \in [Tid -> Op] BY <1>24 DEF IdleCheckRunq, TypeOK, Op, NextOp
  <2>3. itr' \in Nat BY <1>24 DEF IdleCheckRunq, TypeOK
  <2> QED BY <1>24, <2>1, <2>2, <2>3 DEF IdleCheckRunq, TypeOK
<1>25. ASSUME NEW t \in Tid, TryPutTurn(t) PROVE TypeOK'
  <2>1. status' \in [Tid -> Status]
    <3>1. PICK x : status' = status \/ status' = [status EXCEPT ![x] = "RUNNING_REG"]
      BY <1>25 DEF TryPutTurn
    <3> QED BY <3>1 DEF TypeOK, Status
  <2>2. pc' \in [Tid -> Pc] BY <1>25 DEF TryPutTurn, TypeOK, Pc, HoldPc, FrontPc
  <2>3. itr' \in Nat BY <1>25 DEF TryPutTurn, TypeOK
  <2> QED BY <1>25, <2>1, <2>2, <2>3 DEF TryPutTurn, TypeOK
<1>26. ASSUME NEW t \in Tid, TryPutTurnFail(t) PROVE TypeOK'
  BY <1>26 DEF TryPutTurnFail, TypeOK, Status, Op, NextOp, MainPhase, IdlePhase, Pc, HoldPc, FrontPc, NextPc, IdlePc
<1>27. ASSUME NEW t \in Tid, CondSleep(t) PROVE TypeOK'
  BY <1>27 DEF CondSleep, TypeOK, Status, Op, NextOp, MainPhase, IdlePhase, Pc, HoldPc, FrontPc, NextPc, IdlePc
<1>28. ASSUME NEW t \in Tid, CondReturn(t) PROVE TypeOK'
  BY <1>28 DEF CondReturn, TypeOK, Status, Op, NextOp, MainPhase, IdlePhase, Pc, HoldPc, FrontPc, NextPc, IdlePc
<1>29. ASSUME NEW t \in Tid, Exit(t) PROVE TypeOK'
  BY <1>29 DEF Exit, TypeOK, Status, Op, NextOp, MainPhase, IdlePhase, Pc, HoldPc, FrontPc, NextPc, IdlePc
<1>30. ASSUME SetIdleDone PROVE TypeOK'
  BY <1>30 DEF SetIdleDone, TypeOK, Status, Op, NextOp, MainPhase, IdlePhase, Pc, HoldPc, FrontPc, NextPc, IdlePc
<1>31. ASSUME ProgEndSignal PROVE TypeOK'
  <2>1. (UNCHANGED queueVars) \/ (UNCHANGED status /\ \E w \in Tid : Moved(w, "0"))
    BY <1>31, SignalMoves DEF ProgEndSignal
  <2>2. WaitTypes' /\ UNCHANGED status
    <3>1. CASE UNCHANGED queueVars BY <3>1 DEF TypeOK, WaitTypes
    <3>2. CASE UNCHANGED status /\ \E w \in Tid : Moved(w, "0")
      BY <3>2, MovedTypes DEF TypeOK, WaitTypes
    <3> QED BY <2>1, <3>1, <3>2
  <2>3. pc' \in [Tid -> Pc] /\ op' \in [Tid -> Op] BY <1>31 DEF ProgEndSignal, TypeOK, Op, NextOp, Pc, HoldPc, FrontPc
  <2>4. phase' \in [Tid -> MainPhase \cup IdlePhase] BY <1>31 DEF ProgEndSignal, TypeOK, MainPhase, IdlePhase
  <2> QED BY <1>31, <2>2, <2>3, <2>4 DEF ProgEndSignal, TypeOK, WaitTypes
<1>32. ASSUME ProgEndRealSignal PROVE TypeOK'
  BY <1>32 DEF ProgEndRealSignal, TypeOK, Status, Op, NextOp, MainPhase, IdlePhase, Pc, HoldPc, FrontPc, NextPc, IdlePc
<1>45. ASSUME ProgEndRealLock PROVE TypeOK'
  BY <1>45 DEF ProgEndRealLock, TypeOK, Status, Op, NextOp, MainPhase, IdlePhase, Pc, HoldPc, FrontPc, NextPc, IdlePc
<1>46. ASSUME ProgEndRealUnlock PROVE TypeOK'
  BY <1>46 DEF ProgEndRealUnlock, TypeOK, Status, Op, NextOp, MainPhase, IdlePhase, Pc, HoldPc, FrontPc, NextPc, IdlePc
<1>33. ASSUME ProgEndJoin PROVE TypeOK'
  <2>1. pc' \in [Tid -> Pc] BY <1>33 DEF ProgEndJoin, TypeOK, Pc, HoldPc, FrontPc
  <2>2. op' \in [Tid -> Op] BY <1>33 DEF ProgEndJoin, TypeOK, Op, NextOp
  <2>3. phase' \in [Tid -> MainPhase \cup IdlePhase] BY <1>33 DEF ProgEndJoin, TypeOK, MainPhase
  <2> QED BY <1>33, <2>1, <2>2, <2>3 DEF ProgEndJoin, TypeOK
<1>34. ASSUME NEW t \in Tid, CallGetTurn(t) PROVE TypeOK'
  BY <1>34 DEF CallGetTurn, TypeOK, Status, Op, NextOp, MainPhase, IdlePhase, Pc, HoldPc, FrontPc, NextPc, IdlePc
<1>35. ASSUME NEW t \in Tid, InterProStartStop(t) PROVE TypeOK'
  BY <1>35 DEF InterProStartStop, CanBlock, TypeOK, Status, Op, NextOp, MainPhase, IdlePhase, Pc, HoldPc, FrontPc, NextPc, IdlePc
<1>36. ASSUME NEW t \in Tid, InterProStartHead(t) PROVE TypeOK'
  BY <1>36 DEF InterProStartHead, CanBlock, TypeOK, Status, Op, NextOp, MainPhase, IdlePhase, Pc, HoldPc, FrontPc, NextPc, IdlePc
<1>37. ASSUME NEW t \in Tid, NEW c \in Chan, SyncSignal(t, c) PROVE TypeOK'
  <2>1. (UNCHANGED queueVars) \/ (UNCHANGED status /\ \E w \in Tid : Moved(w, "0"))
    BY <1>37, SignalMoves DEF SyncSignal
  <2>2. WaitTypes' /\ UNCHANGED status
    <3>1. CASE UNCHANGED queueVars BY <3>1 DEF TypeOK, WaitTypes
    <3>2. CASE UNCHANGED status /\ \E w \in Tid : Moved(w, "0")
      BY <3>2, MovedTypes DEF TypeOK, WaitTypes
    <3> QED BY <2>1, <3>1, <3>2
  <2>3. pc' \in [Tid -> Pc] /\ op' \in [Tid -> Op] BY <1>37 DEF SyncSignal, TypeOK, Op, NextOp, Pc, HoldPc, FrontPc
  <2>4. phase' \in [Tid -> MainPhase \cup IdlePhase] BY <1>37 DEF SyncSignal, TypeOK, MainPhase, IdlePhase
  <2> QED BY <1>37, <2>2, <2>3, <2>4 DEF SyncSignal, TypeOK, WaitTypes
<1>38. ASSUME NEW t \in Tid, Create(t) PROVE TypeOK'
  <2>1. nthread \in Tid /\ Append(runq, nthread) \in Seq(Tid) /\ nthread + 1 \in 1..MaxThread
    BY <1>38, ThreadAssumption DEF Create, TypeOK
  <2>2. pc' \in [Tid -> Pc] BY <1>38, <2>1 DEF Create, TypeOK, Pc, HoldPc, FrontPc
  <2>3. op' \in [Tid -> Op] /\ status' \in [Tid -> Status]
    BY <1>38, <2>1 DEF Create, TypeOK, Op, NextOp, Status
  <2> QED BY <1>38, <2>1, <2>2, <2>3 DEF Create, TypeOK
<1>39. ASSUME NEW t \in Tid, FakeEnd(t) PROVE TypeOK'
  BY <1>39 DEF FakeEnd, InApp, TypeOK, Status, Op, NextOp, MainPhase, IdlePhase, Pc, HoldPc, FrontPc, NextPc, IdlePc
<1>40. ASSUME NEW t \in Tid, EndOp(t) PROVE TypeOK'
  <2>1. pc' \in [Tid -> Pc] BY <1>40 DEF EndOp, TypeOK, Pc, HoldPc, FrontPc
  <2>2. op' \in [Tid -> Op] BY <1>40 DEF EndOp, TypeOK, Op, NextOp
  <2> QED BY <1>40, <2>1, <2>2 DEF EndOp, TypeOK
<1>41. ASSUME NEW t \in Tid, InterProEnd(t) PROVE TypeOK'
  BY <1>41 DEF InterProEnd, TypeOK, Status, Op, NextOp, MainPhase, IdlePhase, Pc, HoldPc, FrontPc, NextPc, IdlePc
<1>42. ASSUME NEW t \in Tid, CondSpurious(t) PROVE TypeOK'
  BY <1>42 DEF CondSpurious, TypeOK, Status, Op, NextOp, MainPhase, IdlePhase, Pc, HoldPc, FrontPc, NextPc, IdlePc
<1>43. ASSUME ProgEnd PROVE TypeOK'
  BY <1>43 DEF ProgEnd, TypeOK, Status, Op, NextOp, MainPhase, IdlePhase, Pc, HoldPc, FrontPc, NextPc, IdlePc
<1>44. CASE UNCHANGED vars
  BY <1>44 DEF vars, TypeOK, Status, Op, NextOp, MainPhase, IdlePhase, Pc, HoldPc, FrontPc, NextPc, IdlePc
<1> QED
  BY <1>1, <1>2, <1>3, <1>4, <1>5, <1>6, <1>7, <1>8, <1>9, <1>10, <1>11, <1>12,
     <1>13, <1>14, <1>15, <1>16, <1>17, <1>18, <1>19, <1>20, <1>21, <1>22, <1>23,
     <1>24, <1>25, <1>26, <1>27, <1>28, <1>29, <1>30, <1>31, <1>32, <1>33, <1>34,
     <1>35, <1>36, <1>37, <1>38, <1>39, <1>40, <1>41, <1>42, <1>43, <1>44, <1>45, <1>46
  DEF Next, SchedulerStep, IdleStep, MainStep, AppStep, EnvStep

\* A step that posts no turn, that nobody enters scheduler code by, and that keeps the
\* head of the run queue keeps the turn where it is.
LEMMA TurnKept ==
  ASSUME OneTurn, HolderAtFront,
         \A v \in Tid : wakenUp'[v] => wakenUp[v],
         \A v \in Tid : pc'[v] \in HoldPc => pc[v] \in HoldPc,
         \A v \in Tid : pc'[v] \in FrontPc => pc[v] \in FrontPc,
         runq # <<>> => runq' # <<>> /\ Head(runq') = Head(runq)
  PROVE  (OneTurn /\ HolderAtFront)'
<1>1. \A v \in Tid : HasTurn(v)' => HasTurn(v) BY DEF HasTurn
<1>2. \A v \in Tid : (wakenUp[v] \/ pc[v] \in FrontPc)' => wakenUp[v] \/ pc[v] \in FrontPc
  OBVIOUS
<1>3. OneTurn' BY <1>1 DEF OneTurn
<1>4. HolderAtFront' BY <1>2 DEF HolderAtFront
<1> QED BY <1>3, <1>4

\* wait_t::wait() turns the posted token into a held one.
LEMMA TurnTaken ==
  ASSUME TypeOK, OneTurn, HolderAtFront, NEW t \in Tid, NEW l \in FrontPc,
         wakenUp[t], wakenUp' = [wakenUp EXCEPT ![t] = FALSE],
         pc' = [pc EXCEPT ![t] = l], runq' = runq
  PROVE  (OneTurn /\ HolderAtFront)'
<1>1. HasTurn(t) BY DEF HasTurn
<1>2. \A v \in Tid \ {t} : ~HasTurn(v) BY <1>1 DEF OneTurn
<1>3. \A v \in Tid \ {t} : ~wakenUp[v] /\ pc[v] \notin HoldPc BY <1>2 DEF HasTurn
<1>4. \A v \in Tid \ {t} : wakenUp'[v] = wakenUp[v] /\ pc'[v] = pc[v] BY DEF TypeOK
<1>5. wakenUp'[t] = FALSE /\ pc'[t] = l BY DEF TypeOK
<1>6. \A v \in Tid \ {t} : ~wakenUp'[v] /\ pc'[v] \notin HoldPc BY <1>3, <1>4
<1>7. OneTurn' BY <1>5, <1>6 DEF OneTurn, HasTurn
<1>8. runq' # <<>> /\ Head(runq') = t BY DEF HolderAtFront
<1>9. HolderAtFront' BY <1>6, <1>8 DEF HolderAtFront, HoldPc
<1> QED BY <1>7, <1>9

\* The holder may rearrange the run queue once it has left the head.
LEMMA TurnLeaves ==
  ASSUME TypeOK, OneTurn, HolderAtFront, NEW t \in Tid, NEW l \in NextPc,
         pc[t] \in HoldPc, pc' = [pc EXCEPT ![t] = l], wakenUp' = wakenUp
  PROVE  (OneTurn /\ HolderAtFront)'
<1>1. HasTurn(t) BY DEF HasTurn
<1>2. \A v \in Tid \ {t} : ~HasTurn(v) BY <1>1 DEF OneTurn
<1>3. \A v \in Tid \ {t} : ~wakenUp[v] /\ pc[v] \notin HoldPc BY <1>2 DEF HasTurn
<1>4. ~wakenUp[t] BY DEF OneTurn
<1>5. \A v \in Tid \ {t} : pc'[v] = pc[v] BY DEF TypeOK
<1>6. pc'[t] = l /\ l \notin FrontPc BY DEF TypeOK, NextPc, FrontPc
<1>7. \A v \in Tid : ~wakenUp'[v] BY <1>3, <1>4
<1>8. \A v \in Tid \ {t} : pc'[v] \notin HoldPc BY <1>3, <1>5
<1>9. OneTurn' BY <1>7, <1>8 DEF OneTurn, HasTurn
<1>10. HolderAtFront' BY <1>6, <1>7, <1>8 DEF HolderAtFront, HoldPc
<1> QED BY <1>9, <1>10

\* The token moves: it is posted once, to the head, by the thread that gives it up.
LEMMA TurnStep == ASSUME IInv, [Next]_vars PROVE (OneTurn /\ HolderAtFront)'
<1> USE TidFacts DEF IInv, Goto, Begin, NextPhase, queueVars, wakeVars, idleVars
<1>1. ASSUME NEW t \in Tid, GetTurn(t) PROVE (OneTurn /\ HolderAtFront)'
  <2>1. "turn" \in FrontPc BY DEF FrontPc
  <2> QED BY <1>1, <2>1, TurnTaken DEF GetTurn
<1>2. ASSUME NEW t \in Tid, IncTurnCount(t) PROVE (OneTurn /\ HolderAtFront)'
  <2>1. \A v \in Tid : wakenUp'[v] => wakenUp[v] BY <1>2 DEF IncTurnCount
  <2>2. \A v \in Tid : pc'[v] \in HoldPc => pc[v] \in HoldPc BY <1>2 DEF IncTurnCount, TypeOK, HoldPc, FrontPc, NextPc
  <2>3. \A v \in Tid : pc'[v] \in FrontPc => pc[v] \in FrontPc BY <1>2 DEF IncTurnCount, TypeOK, HoldPc, FrontPc, NextPc
  <2>4. runq' = runq BY <1>2 DEF IncTurnCount
  <2> QED BY <2>1, <2>2, <2>3, <2>4, TurnKept
<1>3. ASSUME NEW t \in Tid, FireTimeout(t) PROVE (OneTurn /\ HolderAtFront)'
  <2>1. PICK i \in 1..Len(waitq) : Release(i, "ETIMEDOUT") BY <1>3 DEF FireTimeout
  <2>2. Moved(waitq[i], "ETIMEDOUT") BY <2>1, ReleaseMoves
  <2>3. \A v \in Tid : wakenUp'[v] => wakenUp[v] BY <1>3, <2>2 DEF FireTimeout, TypeOK, Moved
  <2>4. \A v \in Tid : pc'[v] \in HoldPc => pc[v] \in HoldPc BY <1>3 DEF FireTimeout, TypeOK, HoldPc, FrontPc, NextPc
  <2>5. \A v \in Tid : pc'[v] \in FrontPc => pc[v] \in FrontPc BY <1>3 DEF FireTimeout, TypeOK, HoldPc, FrontPc, NextPc
  <2>6. runq # <<>> => runq' # <<>> /\ Head(runq') = Head(runq) BY <1>3, <2>2 DEF FireTimeout, Moved
  <2> QED BY <2>3, <2>4, <2>5, <2>6, TurnKept
<1>4. ASSUME NEW t \in Tid, FireDone(t) PROVE (OneTurn /\ HolderAtFront)'
  <2>1. \A v \in Tid : wakenUp'[v] => wakenUp[v] BY <1>4 DEF FireDone
  <2>2. \A v \in Tid : pc'[v] \in HoldPc => pc[v] \in HoldPc BY <1>4 DEF FireDone, TypeOK, HoldPc, FrontPc, NextPc
  <2>3. \A v \in Tid : pc'[v] \in FrontPc => pc[v] \in FrontPc BY <1>4 DEF FireDone, TypeOK, HoldPc, FrontPc, NextPc
  <2>4. runq' = runq BY <1>4 DEF FireDone
  <2> QED BY <2>1, <2>2, <2>3, <2>4, TurnKept
<1>5. ASSUME NEW t \in Tid, CheckWakeupFlag(t) PROVE (OneTurn /\ HolderAtFront)'
  <2>1. \A v \in Tid : wakenUp'[v] => wakenUp[v] BY <1>5 DEF CheckWakeupFlag
  <2>2. \A v \in Tid : pc'[v] \in HoldPc => pc[v] \in HoldPc BY <1>5 DEF CheckWakeupFlag, TypeOK, HoldPc, FrontPc, NextPc, ControlInv, AfterInc, NextOp, Op
  <2>3. \A v \in Tid : pc'[v] \in FrontPc => pc[v] \in FrontPc BY <1>5 DEF CheckWakeupFlag, TypeOK, HoldPc, FrontPc, NextPc, ControlInv, AfterInc, NextOp, Op
  <2>4. runq' = runq BY <1>5 DEF CheckWakeupFlag
  <2> QED BY <2>1, <2>2, <2>3, <2>4, TurnKept
<1>6. ASSUME NEW t \in Tid, NEW u \in wakeTids, CheckWakeupOne(t, u) PROVE (OneTurn /\ HolderAtFront)'
  <2>1. u \in Tid /\ runq \in Seq(Tid) BY DEF TypeOK
  <2>2. runq # <<>> => runq' # <<>> /\ Head(runq') = Head(runq) BY <1>6, <2>1, AppendProps DEF CheckWakeupOne
  <2> QED BY <1>6, <2>2, TurnKept DEF CheckWakeupOne
<1>7. ASSUME NEW t \in Tid, CheckWakeupDone(t) PROVE (OneTurn /\ HolderAtFront)'
  <2>1. \A v \in Tid : wakenUp'[v] => wakenUp[v] BY <1>7 DEF CheckWakeupDone
  <2>2. \A v \in Tid : pc'[v] \in HoldPc => pc[v] \in HoldPc BY <1>7 DEF CheckWakeupDone, TypeOK, HoldPc, FrontPc, NextPc, ControlInv, AfterInc, NextOp, Op
  <2>3. \A v \in Tid : pc'[v] \in FrontPc => pc[v] \in FrontPc BY <1>7 DEF CheckWakeupDone, TypeOK, HoldPc, FrontPc, NextPc, ControlInv, AfterInc, NextOp, Op
  <2>4. runq' = runq BY <1>7 DEF CheckWakeupDone
  <2> QED BY <2>1, <2>2, <2>3, <2>4, TurnKept
<1>8. ASSUME NEW t \in Tid, Leave(t) PROVE (OneTurn /\ HolderAtFront)'
  <2>1. pc' = [pc EXCEPT ![t] = "next_check"] /\ pc[t] \in HoldPc /\ wakenUp' = wakenUp /\ "next_check" \in NextPc
    BY <1>8 DEF Leave, LeaveFront, HoldPc, FrontPc, NextPc
  <2> QED BY <2>1, TurnLeaves
<1>9. ASSUME NEW t \in Tid, PutTurn(t) PROVE (OneTurn /\ HolderAtFront)'
  <2>1. pc' = [pc EXCEPT ![t] = "next_check"] /\ pc[t] \in HoldPc /\ wakenUp' = wakenUp /\ "next_check" \in NextPc
    BY <1>9 DEF PutTurn, HoldPc, FrontPc, NextPc
  <2> QED BY <2>1, TurnLeaves
<1>10. ASSUME NEW t \in Tid, ThreadEnd(t) PROVE (OneTurn /\ HolderAtFront)'
  <2>2. (UNCHANGED queueVars) \/ (UNCHANGED status /\ \E w \in Tid : Moved(w, "0"))
    BY <1>10, SignalMoves DEF ThreadEnd
  <2>3. \A v \in Tid : wakenUp'[v] => wakenUp[v] BY <1>10, <2>2 DEF ThreadEnd, TypeOK, Moved
  <2>4. \A v \in Tid : pc'[v] \in HoldPc => pc[v] \in HoldPc BY <1>10 DEF ThreadEnd, TypeOK, HoldPc, FrontPc, NextPc
  <2>5. \A v \in Tid : pc'[v] \in FrontPc => pc[v] \in FrontPc BY <1>10 DEF ThreadEnd, TypeOK, HoldPc, FrontPc, NextPc
  <2>6. runq # <<>> => runq' # <<>> /\ Head(runq') = Head(runq) BY <1>10, <2>2 DEF ThreadEnd, Moved
  <2> QED BY <2>3, <2>4, <2>5, <2>6, TurnKept
<1>11. ASSUME NEW t \in Tid, Wait(t) PROVE (OneTurn /\ HolderAtFront)'
  <2>1. pc' = [pc EXCEPT ![t] = "next_check"] /\ pc[t] \in HoldPc /\ wakenUp' = wakenUp /\ "next_check" \in NextPc
    BY <1>11 DEF Wait, LeaveFront, HoldPc, FrontPc, NextPc
  <2> QED BY <2>1, TurnLeaves
<1>12. ASSUME NEW t \in Tid, NextInvalid(t) PROVE (OneTurn /\ HolderAtFront)'
  <2>1. \A v \in Tid : wakenUp'[v] => wakenUp[v] BY <1>12 DEF NextInvalid
  <2>2. \A v \in Tid : pc'[v] \in HoldPc => pc[v] \in HoldPc BY <1>12 DEF NextInvalid, TypeOK, HoldPc, FrontPc, NextPc
  <2>3. \A v \in Tid : pc'[v] \in FrontPc => pc[v] \in FrontPc BY <1>12 DEF NextInvalid, TypeOK, HoldPc, FrontPc, NextPc
  <2>4. runq' = runq BY <1>12 DEF NextInvalid
  <2> QED BY <2>1, <2>2, <2>3, <2>4, TurnKept
<1>13. ASSUME NEW t \in Tid, WakeUpIdleThreadExit(t) PROVE (OneTurn /\ HolderAtFront)'
  <2>1. \A v \in Tid : wakenUp'[v] => wakenUp[v] BY <1>13 DEF WakeUpIdleThreadExit, EmptyScan
  <2>2. \A v \in Tid : pc'[v] \in HoldPc => pc[v] \in HoldPc BY <1>13 DEF WakeUpIdleThreadExit, EmptyScan, TypeOK, HoldPc, FrontPc, NextPc
  <2>3. \A v \in Tid : pc'[v] \in FrontPc => pc[v] \in FrontPc BY <1>13 DEF WakeUpIdleThreadExit, EmptyScan, TypeOK, HoldPc, FrontPc, NextPc
  <2>4. runq' = runq BY <1>13 DEF WakeUpIdleThreadExit, EmptyScan
  <2> QED BY <2>1, <2>2, <2>3, <2>4, TurnKept
<1>14. ASSUME NEW t \in Tid, WakeUpIdleThread(t) PROVE (OneTurn /\ HolderAtFront)'
  <2>1. PICK i \in 1..Len(waitq) : Release(i, "0") BY <1>14 DEF WakeUpIdleThread
  <2>2. Moved(waitq[i], "0") BY <2>1, ReleaseMoves
  <2>3. \A v \in Tid : wakenUp'[v] => wakenUp[v] BY <1>14, <2>2 DEF WakeUpIdleThread, EmptyScan, TypeOK, Moved
  <2>4. \A v \in Tid : pc'[v] \in HoldPc => pc[v] \in HoldPc BY <1>14 DEF WakeUpIdleThread, EmptyScan, TypeOK, HoldPc, FrontPc, NextPc
  <2>5. \A v \in Tid : pc'[v] \in FrontPc => pc[v] \in FrontPc BY <1>14 DEF WakeUpIdleThread, EmptyScan, TypeOK, HoldPc, FrontPc, NextPc
  <2>6. runq # <<>> => runq' # <<>> /\ Head(runq') = Head(runq) BY <1>14, <2>2 DEF WakeUpIdleThread, EmptyScan, Moved
  <2> QED BY <2>3, <2>4, <2>5, <2>6, TurnKept
<1>15. ASSUME NEW t \in Tid, SignalIdle(t) PROVE (OneTurn /\ HolderAtFront)'
  <2>1. \A v \in Tid : wakenUp'[v] => wakenUp[v] BY <1>15 DEF SignalIdle
  <2>2. \A v \in Tid : pc'[v] \in HoldPc => pc[v] \in HoldPc BY <1>15 DEF SignalIdle, TypeOK, HoldPc, FrontPc, NextPc
  <2>3. \A v \in Tid : pc'[v] \in FrontPc => pc[v] \in FrontPc BY <1>15 DEF SignalIdle, TypeOK, HoldPc, FrontPc, NextPc
  <2>4. runq' = runq BY <1>15 DEF SignalIdle
  <2> QED BY <2>1, <2>2, <2>3, <2>4, TurnKept
<1>16. ASSUME NEW t \in Tid, SkipHead(t) PROVE (OneTurn /\ HolderAtFront)'
  <2>1. pc' = [pc EXCEPT ![t] = "scan"] /\ pc[t] \in HoldPc /\ wakenUp' = wakenUp /\ "scan" \in NextPc
    BY <1>16 DEF SkipHead, TypeOK, HoldPc, FrontPc, NextPc
  <2> QED BY <2>1, TurnLeaves
<1>17. ASSUME NEW t \in Tid, PassTurn(t) PROVE (OneTurn /\ HolderAtFront)'
  <2>1. \A v \in Tid \ {t} : ~HasTurn(v) BY <1>17 DEF PassTurn, OneTurn, HasTurn, HoldPc, NextPc, FrontPc
  <2>2. \A v \in Tid : ~wakenUp[v] BY <1>17, <2>1 DEF PassTurn, OneTurn, HasTurn, HoldPc, NextPc, FrontPc
  <2>3. Head(runq) \in Tid BY <1>17, PopHead DEF PassTurn
  <2>4. AfterNext(op[t]) \in {"run", "dead", "getTurn", "sys", "condWait"}
    BY <1>17 DEF PassTurn, ControlInv, AfterNext, NextOp, NextPc
  <2>5. \A v \in Tid : pc'[v] \notin HoldPc
    BY <1>17, <2>1, <2>4 DEF PassTurn, TypeOK, HasTurn, HoldPc, FrontPc, NextPc
  <2>6. \A v \in Tid : wakenUp'[v] <=> v = Head(runq) BY <1>17, <2>2, <2>3 DEF PassTurn, TypeOK
  <2> QED BY <1>17, <2>5, <2>6 DEF PassTurn, OneTurn, HolderAtFront, HasTurn, HoldPc
<1>18. ASSUME NEW t \in Tid, Block(t) PROVE (OneTurn /\ HolderAtFront)'
  <2>1. "inc" \in FrontPc BY DEF FrontPc
  <2> QED BY <1>18, <2>1, TurnTaken DEF Block
<1>19. ASSUME NEW t \in Tid, Wakeup(t) PROVE (OneTurn /\ HolderAtFront)'
  <2>1. \A v \in Tid : wakenUp'[v] => wakenUp[v] BY <1>19 DEF Wakeup
  <2>2. \A v \in Tid : pc'[v] \in HoldPc => pc[v] \in HoldPc BY <1>19 DEF Wakeup, TypeOK, HoldPc, FrontPc, NextPc
  <2>3. \A v \in Tid : pc'[v] \in FrontPc => pc[v] \in FrontPc BY <1>19 DEF Wakeup, TypeOK, HoldPc, FrontPc, NextPc
  <2>4. runq' = runq BY <1>19 DEF Wakeup
  <2> QED BY <2>1, <2>2, <2>3, <2>4, TurnKept
<1>20. ASSUME NEW t \in Tid, LockIdleMutex(t) PROVE (OneTurn /\ HolderAtFront)'
  <2>1. \A v \in Tid : wakenUp'[v] => wakenUp[v] BY <1>20 DEF LockIdleMutex
  <2>2. \A v \in Tid : pc'[v] \in HoldPc => pc[v] \in HoldPc BY <1>20 DEF LockIdleMutex, TypeOK, HoldPc, FrontPc, NextPc
  <2>3. \A v \in Tid : pc'[v] \in FrontPc => pc[v] \in FrontPc BY <1>20 DEF LockIdleMutex, TypeOK, HoldPc, FrontPc, NextPc
  <2>4. runq' = runq BY <1>20 DEF LockIdleMutex
  <2> QED BY <2>1, <2>2, <2>3, <2>4, TurnKept
<1>21. ASSUME NEW t \in Tid, UnlockIdleMutex(t) PROVE (OneTurn /\ HolderAtFront)'
  <2>2. (UNCHANGED queueVars) \/ (UNCHANGED status /\ \E w \in Tid : Moved(w, "0"))
    BY <1>21, SignalMoves DEF UnlockIdleMutex
  <2>3. \A v \in Tid : wakenUp'[v] => wakenUp[v] BY <1>21, <2>2 DEF UnlockIdleMutex, TypeOK, Moved
  <2>4. \A v \in Tid : pc'[v] \in HoldPc => pc[v] \in HoldPc BY <1>21 DEF UnlockIdleMutex, TypeOK, HoldPc, FrontPc, NextPc
  <2>5. \A v \in Tid : pc'[v] \in FrontPc => pc[v] \in FrontPc BY <1>21 DEF UnlockIdleMutex, TypeOK, HoldPc, FrontPc, NextPc
  <2>6. runq # <<>> => runq' # <<>> /\ Head(runq') = Head(runq) BY <1>21, <2>2 DEF UnlockIdleMutex, Moved
  <2> QED BY <2>3, <2>4, <2>5, <2>6, TurnKept
<1>22. ASSUME NEW t \in Tid, IdleSleep(t) PROVE (OneTurn /\ HolderAtFront)'
  <2>1. \A v \in Tid : wakenUp'[v] => wakenUp[v] BY <1>22 DEF IdleSleep
  <2>2. \A v \in Tid : pc'[v] \in HoldPc => pc[v] \in HoldPc BY <1>22 DEF IdleSleep, TypeOK, HoldPc, FrontPc, NextPc
  <2>3. \A v \in Tid : pc'[v] \in FrontPc => pc[v] \in FrontPc BY <1>22 DEF IdleSleep, TypeOK, HoldPc, FrontPc, NextPc
  <2>4. runq' = runq BY <1>22 DEF IdleSleep
  <2> QED BY <2>1, <2>2, <2>3, <2>4, TurnKept
<1>23. ASSUME NEW t \in Tid, IdleCondWait(t) PROVE (OneTurn /\ HolderAtFront)'
  <2>1. \A v \in Tid : wakenUp'[v] => wakenUp[v] BY <1>23 DEF IdleCondWait
  <2>2. \A v \in Tid : pc'[v] \in HoldPc => pc[v] \in HoldPc BY <1>23 DEF IdleCondWait, TypeOK, HoldPc, FrontPc, NextPc
  <2>3. \A v \in Tid : pc'[v] \in FrontPc => pc[v] \in FrontPc BY <1>23 DEF IdleCondWait, TypeOK, HoldPc, FrontPc, NextPc
  <2>4. runq' = runq BY <1>23 DEF IdleCondWait
  <2> QED BY <2>1, <2>2, <2>3, <2>4, TurnKept
<1>24. ASSUME NEW t \in Tid, IdleCheckRunq(t) PROVE (OneTurn /\ HolderAtFront)'
  <2>1. \A v \in Tid : wakenUp'[v] => wakenUp[v] BY <1>24 DEF IdleCheckRunq
  <2>2. \A v \in Tid : pc'[v] \in HoldPc => pc[v] \in HoldPc BY <1>24 DEF IdleCheckRunq, TypeOK, HoldPc, FrontPc, NextPc
  <2>3. \A v \in Tid : pc'[v] \in FrontPc => pc[v] \in FrontPc BY <1>24 DEF IdleCheckRunq, TypeOK, HoldPc, FrontPc, NextPc
  <2>4. runq' = runq BY <1>24 DEF IdleCheckRunq
  <2> QED BY <2>1, <2>2, <2>3, <2>4, TurnKept
<1>25. ASSUME NEW t \in Tid, TryPutTurn(t) PROVE (OneTurn /\ HolderAtFront)'
  <2>1. \A v \in Tid : wakenUp'[v] => wakenUp[v] BY <1>25 DEF TryPutTurn
  <2>2. \A v \in Tid : pc'[v] \in HoldPc => pc[v] \in HoldPc BY <1>25 DEF TryPutTurn, TypeOK, HoldPc, FrontPc, NextPc
  <2>3. \A v \in Tid : pc'[v] \in FrontPc => pc[v] \in FrontPc BY <1>25 DEF TryPutTurn, TypeOK, HoldPc, FrontPc, NextPc
  <2>4. runq' = runq BY <1>25 DEF TryPutTurn
  <2> QED BY <2>1, <2>2, <2>3, <2>4, TurnKept
<1>26. ASSUME NEW t \in Tid, TryPutTurnFail(t) PROVE (OneTurn /\ HolderAtFront)'
  <2>1. \A v \in Tid : wakenUp'[v] => wakenUp[v] BY <1>26 DEF TryPutTurnFail
  <2>2. \A v \in Tid : pc'[v] \in HoldPc => pc[v] \in HoldPc BY <1>26 DEF TryPutTurnFail, TypeOK, HoldPc, FrontPc, NextPc
  <2>3. \A v \in Tid : pc'[v] \in FrontPc => pc[v] \in FrontPc BY <1>26 DEF TryPutTurnFail, TypeOK, HoldPc, FrontPc, NextPc
  <2>4. runq' = runq BY <1>26 DEF TryPutTurnFail
  <2> QED BY <2>1, <2>2, <2>3, <2>4, TurnKept
<1>27. ASSUME NEW t \in Tid, CondSleep(t) PROVE (OneTurn /\ HolderAtFront)'
  <2>1. \A v \in Tid : wakenUp'[v] => wakenUp[v] BY <1>27 DEF CondSleep
  <2>2. \A v \in Tid : pc'[v] \in HoldPc => pc[v] \in HoldPc BY <1>27 DEF CondSleep, TypeOK, HoldPc, FrontPc, NextPc
  <2>3. \A v \in Tid : pc'[v] \in FrontPc => pc[v] \in FrontPc BY <1>27 DEF CondSleep, TypeOK, HoldPc, FrontPc, NextPc
  <2>4. runq' = runq BY <1>27 DEF CondSleep
  <2> QED BY <2>1, <2>2, <2>3, <2>4, TurnKept
<1>28. ASSUME NEW t \in Tid, CondReturn(t) PROVE (OneTurn /\ HolderAtFront)'
  <2>1. \A v \in Tid : wakenUp'[v] => wakenUp[v] BY <1>28 DEF CondReturn
  <2>2. \A v \in Tid : pc'[v] \in HoldPc => pc[v] \in HoldPc BY <1>28 DEF CondReturn, TypeOK, HoldPc, FrontPc, NextPc
  <2>3. \A v \in Tid : pc'[v] \in FrontPc => pc[v] \in FrontPc BY <1>28 DEF CondReturn, TypeOK, HoldPc, FrontPc, NextPc
  <2>4. runq' = runq BY <1>28 DEF CondReturn
  <2> QED BY <2>1, <2>2, <2>3, <2>4, TurnKept
<1>29. ASSUME NEW t \in Tid, Exit(t) PROVE (OneTurn /\ HolderAtFront)'
  <2>1. \A v \in Tid : wakenUp'[v] => wakenUp[v] BY <1>29 DEF Exit
  <2>2. \A v \in Tid : pc'[v] \in HoldPc => pc[v] \in HoldPc BY <1>29 DEF Exit, TypeOK, HoldPc, FrontPc, NextPc
  <2>3. \A v \in Tid : pc'[v] \in FrontPc => pc[v] \in FrontPc BY <1>29 DEF Exit, TypeOK, HoldPc, FrontPc, NextPc
  <2>4. runq' = runq BY <1>29 DEF Exit
  <2> QED BY <2>1, <2>2, <2>3, <2>4, TurnKept
<1>30. ASSUME SetIdleDone PROVE (OneTurn /\ HolderAtFront)'
  <2>1. \A v \in Tid : wakenUp'[v] => wakenUp[v] BY <1>30 DEF SetIdleDone
  <2>2. \A v \in Tid : pc'[v] \in HoldPc => pc[v] \in HoldPc BY <1>30 DEF SetIdleDone, TypeOK, HoldPc, FrontPc, NextPc
  <2>3. \A v \in Tid : pc'[v] \in FrontPc => pc[v] \in FrontPc BY <1>30 DEF SetIdleDone, TypeOK, HoldPc, FrontPc, NextPc
  <2>4. runq' = runq BY <1>30 DEF SetIdleDone
  <2> QED BY <2>1, <2>2, <2>3, <2>4, TurnKept
<1>31. ASSUME ProgEndSignal PROVE (OneTurn /\ HolderAtFront)'
  <2>2. (UNCHANGED queueVars) \/ (UNCHANGED status /\ \E w \in Tid : Moved(w, "0"))
    BY <1>31, SignalMoves DEF ProgEndSignal
  <2>3. \A v \in Tid : wakenUp'[v] => wakenUp[v] BY <1>31, <2>2 DEF ProgEndSignal, TypeOK, Moved
  <2>4. \A v \in Tid : pc'[v] \in HoldPc => pc[v] \in HoldPc BY <1>31 DEF ProgEndSignal, TypeOK, HoldPc, FrontPc, NextPc
  <2>5. \A v \in Tid : pc'[v] \in FrontPc => pc[v] \in FrontPc BY <1>31 DEF ProgEndSignal, TypeOK, HoldPc, FrontPc, NextPc
  <2>6. runq # <<>> => runq' # <<>> /\ Head(runq') = Head(runq) BY <1>31, <2>2 DEF ProgEndSignal, Moved
  <2> QED BY <2>3, <2>4, <2>5, <2>6, TurnKept
<1>32. ASSUME ProgEndRealSignal PROVE (OneTurn /\ HolderAtFront)'
  <2>1. \A v \in Tid : wakenUp'[v] => wakenUp[v] BY <1>32 DEF ProgEndRealSignal
  <2>2. \A v \in Tid : pc'[v] \in HoldPc => pc[v] \in HoldPc BY <1>32 DEF ProgEndRealSignal, TypeOK, HoldPc, FrontPc, NextPc
  <2>3. \A v \in Tid : pc'[v] \in FrontPc => pc[v] \in FrontPc BY <1>32 DEF ProgEndRealSignal, TypeOK, HoldPc, FrontPc, NextPc
  <2>4. runq' = runq BY <1>32 DEF ProgEndRealSignal
  <2> QED BY <2>1, <2>2, <2>3, <2>4, TurnKept
<1>45. ASSUME ProgEndRealLock PROVE (OneTurn /\ HolderAtFront)'
  <2>1. \A v \in Tid : wakenUp'[v] => wakenUp[v] BY <1>45 DEF ProgEndRealLock
  <2>2. \A v \in Tid : pc'[v] \in HoldPc => pc[v] \in HoldPc BY <1>45 DEF ProgEndRealLock, TypeOK, HoldPc, FrontPc, NextPc
  <2>3. \A v \in Tid : pc'[v] \in FrontPc => pc[v] \in FrontPc BY <1>45 DEF ProgEndRealLock, TypeOK, HoldPc, FrontPc, NextPc
  <2>4. runq' = runq BY <1>45 DEF ProgEndRealLock
  <2> QED BY <2>1, <2>2, <2>3, <2>4, TurnKept
<1>46. ASSUME ProgEndRealUnlock PROVE (OneTurn /\ HolderAtFront)'
  <2>1. \A v \in Tid : wakenUp'[v] => wakenUp[v] BY <1>46 DEF ProgEndRealUnlock
  <2>2. \A v \in Tid : pc'[v] \in HoldPc => pc[v] \in HoldPc BY <1>46 DEF ProgEndRealUnlock, TypeOK, HoldPc, FrontPc, NextPc
  <2>3. \A v \in Tid : pc'[v] \in FrontPc => pc[v] \in FrontPc BY <1>46 DEF ProgEndRealUnlock, TypeOK, HoldPc, FrontPc, NextPc
  <2>4. runq' = runq BY <1>46 DEF ProgEndRealUnlock
  <2> QED BY <2>1, <2>2, <2>3, <2>4, TurnKept
<1>33. ASSUME ProgEndJoin PROVE (OneTurn /\ HolderAtFront)'
  <2>1. \A v \in Tid : wakenUp'[v] => wakenUp[v] BY <1>33 DEF ProgEndJoin
  <2>2. \A v \in Tid : pc'[v] \in HoldPc => pc[v] \in HoldPc BY <1>33 DEF ProgEndJoin, TypeOK, HoldPc, FrontPc, NextPc
  <2>3. \A v \in Tid : pc'[v] \in FrontPc => pc[v] \in FrontPc BY <1>33 DEF ProgEndJoin, TypeOK, HoldPc, FrontPc, NextPc
  <2>4. runq' = runq BY <1>33 DEF ProgEndJoin
  <2> QED BY <2>1, <2>2, <2>3, <2>4, TurnKept
<1>34. ASSUME NEW t \in Tid, CallGetTurn(t) PROVE (OneTurn /\ HolderAtFront)'
  <2>1. \A v \in Tid : wakenUp'[v] => wakenUp[v] BY <1>34 DEF CallGetTurn
  <2>2. \A v \in Tid : pc'[v] \in HoldPc => pc[v] \in HoldPc BY <1>34 DEF CallGetTurn, TypeOK, HoldPc, FrontPc, NextPc
  <2>3. \A v \in Tid : pc'[v] \in FrontPc => pc[v] \in FrontPc BY <1>34 DEF CallGetTurn, TypeOK, HoldPc, FrontPc, NextPc
  <2>4. runq' = runq BY <1>34 DEF CallGetTurn
  <2> QED BY <2>1, <2>2, <2>3, <2>4, TurnKept
<1>35. ASSUME NEW t \in Tid, InterProStartStop(t) PROVE (OneTurn /\ HolderAtFront)'
  <2>1. \A v \in Tid : wakenUp'[v] => wakenUp[v] BY <1>35 DEF InterProStartStop, CanBlock
  <2>2. \A v \in Tid : pc'[v] \in HoldPc => pc[v] \in HoldPc BY <1>35 DEF InterProStartStop, CanBlock, TypeOK, HoldPc, FrontPc, NextPc
  <2>3. \A v \in Tid : pc'[v] \in FrontPc => pc[v] \in FrontPc BY <1>35 DEF InterProStartStop, CanBlock, TypeOK, HoldPc, FrontPc, NextPc
  <2>4. runq' = runq BY <1>35 DEF InterProStartStop, CanBlock
  <2> QED BY <2>1, <2>2, <2>3, <2>4, TurnKept
<1>36. ASSUME NEW t \in Tid, InterProStartHead(t) PROVE (OneTurn /\ HolderAtFront)'
  <2>1. \A v \in Tid : wakenUp'[v] => wakenUp[v] BY <1>36 DEF InterProStartHead, CanBlock
  <2>2. \A v \in Tid : pc'[v] \in HoldPc => pc[v] \in HoldPc BY <1>36 DEF InterProStartHead, CanBlock, TypeOK, HoldPc, FrontPc, NextPc
  <2>3. \A v \in Tid : pc'[v] \in FrontPc => pc[v] \in FrontPc BY <1>36 DEF InterProStartHead, CanBlock, TypeOK, HoldPc, FrontPc, NextPc
  <2>4. runq' = runq BY <1>36 DEF InterProStartHead, CanBlock
  <2> QED BY <2>1, <2>2, <2>3, <2>4, TurnKept
<1>37. ASSUME NEW t \in Tid, NEW c \in Chan, SyncSignal(t, c) PROVE (OneTurn /\ HolderAtFront)'
  <2>2. (UNCHANGED queueVars) \/ (UNCHANGED status /\ \E w \in Tid : Moved(w, "0"))
    BY <1>37, SignalMoves DEF SyncSignal
  <2>3. \A v \in Tid : wakenUp'[v] => wakenUp[v] BY <1>37, <2>2 DEF SyncSignal, TypeOK, Moved
  <2>4. \A v \in Tid : pc'[v] \in HoldPc => pc[v] \in HoldPc BY <1>37 DEF SyncSignal, TypeOK, HoldPc, FrontPc, NextPc
  <2>5. \A v \in Tid : pc'[v] \in FrontPc => pc[v] \in FrontPc BY <1>37 DEF SyncSignal, TypeOK, HoldPc, FrontPc, NextPc
  <2>6. runq # <<>> => runq' # <<>> /\ Head(runq') = Head(runq) BY <1>37, <2>2 DEF SyncSignal, Moved
  <2> QED BY <2>3, <2>4, <2>5, <2>6, TurnKept
<1>38. ASSUME NEW t \in Tid, Create(t) PROVE (OneTurn /\ HolderAtFront)'
  <2>1. nthread \in Tid /\ runq \in Seq(Tid) BY <1>38 DEF Create, TypeOK
  <2>2. runq # <<>> => runq' # <<>> /\ Head(runq') = Head(runq) BY <1>38, <2>1, AppendProps DEF Create
  <2>3. \A v \in Tid : pc'[v] \in HoldPc => pc[v] \in HoldPc
    BY <1>38, <2>1 DEF Create, InApp, TypeOK, HoldPc, FrontPc, NextPc
  <2>4. \A v \in Tid : pc'[v] \in FrontPc => pc[v] \in FrontPc
    BY <1>38, <2>1 DEF Create, InApp, TypeOK, FrontPc
  <2> QED BY <1>38, <2>2, <2>3, <2>4, TurnKept DEF Create
<1>39. ASSUME NEW t \in Tid, FakeEnd(t) PROVE (OneTurn /\ HolderAtFront)'
  <2>1. \A v \in Tid : wakenUp'[v] => wakenUp[v] BY <1>39 DEF FakeEnd, InApp
  <2>2. \A v \in Tid : pc'[v] \in HoldPc => pc[v] \in HoldPc BY <1>39 DEF FakeEnd, InApp, TypeOK, HoldPc, FrontPc, NextPc
  <2>3. \A v \in Tid : pc'[v] \in FrontPc => pc[v] \in FrontPc BY <1>39 DEF FakeEnd, InApp, TypeOK, HoldPc, FrontPc, NextPc
  <2>4. runq' = runq BY <1>39 DEF FakeEnd, InApp
  <2> QED BY <2>1, <2>2, <2>3, <2>4, TurnKept
<1>40. ASSUME NEW t \in Tid, EndOp(t) PROVE (OneTurn /\ HolderAtFront)'
  <2>1. \A v \in Tid : wakenUp'[v] => wakenUp[v] BY <1>40 DEF EndOp, InApp
  <2>2. \A v \in Tid : pc'[v] \in HoldPc => pc[v] \in HoldPc BY <1>40 DEF EndOp, InApp, TypeOK, HoldPc, FrontPc, NextPc
  <2>3. \A v \in Tid : pc'[v] \in FrontPc => pc[v] \in FrontPc BY <1>40 DEF EndOp, InApp, TypeOK, HoldPc, FrontPc, NextPc
  <2>4. runq' = runq BY <1>40 DEF EndOp, InApp
  <2> QED BY <2>1, <2>2, <2>3, <2>4, TurnKept
<1>41. ASSUME NEW t \in Tid, InterProEnd(t) PROVE (OneTurn /\ HolderAtFront)'
  <2>1. \A v \in Tid : wakenUp'[v] => wakenUp[v] BY <1>41 DEF InterProEnd
  <2>2. \A v \in Tid : pc'[v] \in HoldPc => pc[v] \in HoldPc BY <1>41 DEF InterProEnd, TypeOK, HoldPc, FrontPc, NextPc
  <2>3. \A v \in Tid : pc'[v] \in FrontPc => pc[v] \in FrontPc BY <1>41 DEF InterProEnd, TypeOK, HoldPc, FrontPc, NextPc
  <2>4. runq' = runq BY <1>41 DEF InterProEnd
  <2> QED BY <2>1, <2>2, <2>3, <2>4, TurnKept
<1>42. ASSUME NEW t \in Tid, CondSpurious(t) PROVE (OneTurn /\ HolderAtFront)'
  <2>1. \A v \in Tid : wakenUp'[v] => wakenUp[v] BY <1>42 DEF CondSpurious
  <2>2. \A v \in Tid : pc'[v] \in HoldPc => pc[v] \in HoldPc BY <1>42 DEF CondSpurious, TypeOK, HoldPc, FrontPc, NextPc
  <2>3. \A v \in Tid : pc'[v] \in FrontPc => pc[v] \in FrontPc BY <1>42 DEF CondSpurious, TypeOK, HoldPc, FrontPc, NextPc
  <2>4. runq' = runq BY <1>42 DEF CondSpurious
  <2> QED BY <2>1, <2>2, <2>3, <2>4, TurnKept
<1>43. ASSUME ProgEnd PROVE (OneTurn /\ HolderAtFront)'
  <2>1. \A v \in Tid : wakenUp'[v] => wakenUp[v] BY <1>43 DEF ProgEnd
  <2>2. \A v \in Tid : pc'[v] \in HoldPc => pc[v] \in HoldPc BY <1>43 DEF ProgEnd, TypeOK, HoldPc, FrontPc, NextPc
  <2>3. \A v \in Tid : pc'[v] \in FrontPc => pc[v] \in FrontPc BY <1>43 DEF ProgEnd, TypeOK, HoldPc, FrontPc, NextPc
  <2>4. runq' = runq BY <1>43 DEF ProgEnd
  <2> QED BY <2>1, <2>2, <2>3, <2>4, TurnKept
<1>44. CASE UNCHANGED vars
  BY <1>44, TurnKept DEF vars
<1> QED
  BY <1>1, <1>2, <1>3, <1>4, <1>5, <1>6, <1>7, <1>8, <1>9, <1>10, <1>11, <1>12,
     <1>13, <1>14, <1>15, <1>16, <1>17, <1>18, <1>19, <1>20, <1>21, <1>22, <1>23,
     <1>24, <1>25, <1>26, <1>27, <1>28, <1>29, <1>30, <1>31, <1>32, <1>33, <1>34,
     <1>35, <1>36, <1>37, <1>38, <1>39, <1>40, <1>41, <1>42, <1>43, <1>44, <1>45, <1>46
  DEF Next, SchedulerStep, IdleStep, MainStep, AppStep, EnvStep

\* A thread that is past check_wakeup() of its own incTurnCount() is not to be woken up.
LEMMA WakeStep == ASSUME IInv, [Next]_vars PROVE WakeInv'
<1> USE TidFacts DEF IInv, Goto, Begin, NextPhase, queueVars, wakeVars, idleVars
<1>1. ASSUME NEW t \in Tid, GetTurn(t) PROVE WakeInv'
  BY <1>1 DEF GetTurn, WakeInv, TypeOK
<1>2. ASSUME NEW t \in Tid, IncTurnCount(t) PROVE WakeInv'
  BY <1>2 DEF IncTurnCount, WakeInv, TypeOK
<1>3. ASSUME NEW t \in Tid, FireTimeout(t) PROVE WakeInv'
  BY <1>3 DEF FireTimeout, WakeInv, TypeOK
<1>4. ASSUME NEW t \in Tid, FireDone(t) PROVE WakeInv'
  BY <1>4 DEF FireDone, WakeInv, TypeOK
<1>5. ASSUME NEW t \in Tid, CheckWakeupFlag(t) PROVE WakeInv'
  BY <1>5 DEF CheckWakeupFlag, WakeInv, TypeOK, AfterInc
<1>6. ASSUME NEW t \in Tid, NEW u \in wakeTids, CheckWakeupOne(t, u) PROVE WakeInv'
  BY <1>6 DEF CheckWakeupOne, WakeInv, TypeOK
<1>7. ASSUME NEW t \in Tid, CheckWakeupDone(t) PROVE WakeInv'
  BY <1>7 DEF CheckWakeupDone, WakeInv, TypeOK, AfterInc
<1>8. ASSUME NEW t \in Tid, Leave(t) PROVE WakeInv'
  BY <1>8 DEF Leave, LeaveFront, WakeInv, TypeOK
<1>9. ASSUME NEW t \in Tid, PutTurn(t) PROVE WakeInv'
  BY <1>9 DEF PutTurn, WakeInv, TypeOK
<1>10. ASSUME NEW t \in Tid, ThreadEnd(t) PROVE WakeInv'
  BY <1>10 DEF ThreadEnd, WakeInv, TypeOK
<1>11. ASSUME NEW t \in Tid, Wait(t) PROVE WakeInv'
  BY <1>11 DEF Wait, LeaveFront, WakeInv, TypeOK
<1>12. ASSUME NEW t \in Tid, NextInvalid(t) PROVE WakeInv'
  BY <1>12 DEF NextInvalid, WakeInv, TypeOK
<1>13. ASSUME NEW t \in Tid, WakeUpIdleThreadExit(t) PROVE WakeInv'
  BY <1>13 DEF WakeUpIdleThreadExit, EmptyScan, WakeInv, TypeOK
<1>14. ASSUME NEW t \in Tid, WakeUpIdleThread(t) PROVE WakeInv'
  BY <1>14 DEF WakeUpIdleThread, EmptyScan, WakeInv, TypeOK
<1>15. ASSUME NEW t \in Tid, SignalIdle(t) PROVE WakeInv'
  BY <1>15 DEF SignalIdle, WakeInv, TypeOK
<1>16. ASSUME NEW t \in Tid, SkipHead(t) PROVE WakeInv'
  BY <1>16 DEF SkipHead, WakeInv, TypeOK
<1>17. ASSUME NEW t \in Tid, PassTurn(t) PROVE WakeInv'
  BY <1>17 DEF PassTurn, WakeInv, TypeOK, ControlInv, AfterNext, NextOp, NextPc
<1>18. ASSUME NEW t \in Tid, Block(t) PROVE WakeInv'
  BY <1>18 DEF Block, WakeInv, TypeOK
<1>19. ASSUME NEW t \in Tid, Wakeup(t) PROVE WakeInv'
  BY <1>19 DEF Wakeup, WakeInv, TypeOK
<1>20. ASSUME NEW t \in Tid, LockIdleMutex(t) PROVE WakeInv'
  BY <1>20 DEF LockIdleMutex, WakeInv, TypeOK
<1>21. ASSUME NEW t \in Tid, UnlockIdleMutex(t) PROVE WakeInv'
  BY <1>21 DEF UnlockIdleMutex, WakeInv, TypeOK
<1>22. ASSUME NEW t \in Tid, IdleSleep(t) PROVE WakeInv'
  BY <1>22 DEF IdleSleep, WakeInv, TypeOK
<1>23. ASSUME NEW t \in Tid, IdleCondWait(t) PROVE WakeInv'
  BY <1>23 DEF IdleCondWait, WakeInv, TypeOK
<1>24. ASSUME NEW t \in Tid, IdleCheckRunq(t) PROVE WakeInv'
  BY <1>24 DEF IdleCheckRunq, WakeInv, TypeOK
<1>25. ASSUME NEW t \in Tid, TryPutTurn(t) PROVE WakeInv'
  BY <1>25 DEF TryPutTurn, WakeInv, TypeOK
<1>26. ASSUME NEW t \in Tid, TryPutTurnFail(t) PROVE WakeInv'
  BY <1>26 DEF TryPutTurnFail, WakeInv, TypeOK
<1>27. ASSUME NEW t \in Tid, CondSleep(t) PROVE WakeInv'
  BY <1>27 DEF CondSleep, WakeInv, TypeOK
<1>28. ASSUME NEW t \in Tid, CondReturn(t) PROVE WakeInv'
  BY <1>28 DEF CondReturn, WakeInv, TypeOK
<1>29. ASSUME NEW t \in Tid, Exit(t) PROVE WakeInv'
  BY <1>29 DEF Exit, WakeInv, TypeOK
<1>30. ASSUME SetIdleDone PROVE WakeInv'
  BY <1>30 DEF SetIdleDone, WakeInv, TypeOK
<1>31. ASSUME ProgEndSignal PROVE WakeInv'
  BY <1>31 DEF ProgEndSignal, WakeInv, TypeOK
<1>32. ASSUME ProgEndRealSignal PROVE WakeInv'
  BY <1>32 DEF ProgEndRealSignal, WakeInv, TypeOK
<1>45. ASSUME ProgEndRealLock PROVE WakeInv'
  BY <1>45 DEF ProgEndRealLock, WakeInv, TypeOK
<1>46. ASSUME ProgEndRealUnlock PROVE WakeInv'
  BY <1>46 DEF ProgEndRealUnlock, WakeInv, TypeOK
<1>33. ASSUME ProgEndJoin PROVE WakeInv'
  BY <1>33 DEF ProgEndJoin, WakeInv, TypeOK
<1>34. ASSUME NEW t \in Tid, CallGetTurn(t) PROVE WakeInv'
  BY <1>34 DEF CallGetTurn, WakeInv, TypeOK
<1>35. ASSUME NEW t \in Tid, InterProStartStop(t) PROVE WakeInv'
  BY <1>35 DEF InterProStartStop, CanBlock, WakeInv, TypeOK
<1>36. ASSUME NEW t \in Tid, InterProStartHead(t) PROVE WakeInv'
  BY <1>36 DEF InterProStartHead, CanBlock, WakeInv, TypeOK
<1>37. ASSUME NEW t \in Tid, NEW c \in Chan, SyncSignal(t, c) PROVE WakeInv'
  BY <1>37 DEF SyncSignal, InApp, WakeInv, TypeOK
<1>38. ASSUME NEW t \in Tid, Create(t) PROVE WakeInv'
  <2>1. nthread \in Tid BY <1>38 DEF Create, TypeOK
  <2> QED BY <1>38, <2>1 DEF Create, InApp, WakeInv, TypeOK
<1>39. ASSUME NEW t \in Tid, FakeEnd(t) PROVE WakeInv'
  BY <1>39 DEF FakeEnd, InApp, WakeInv, TypeOK
<1>40. ASSUME NEW t \in Tid, EndOp(t) PROVE WakeInv'
  BY <1>40 DEF EndOp, InApp, WakeInv, TypeOK
<1>41. ASSUME NEW t \in Tid, InterProEnd(t) PROVE WakeInv'
  BY <1>41 DEF InterProEnd, WakeInv, TypeOK
<1>42. ASSUME NEW t \in Tid, CondSpurious(t) PROVE WakeInv'
  BY <1>42 DEF CondSpurious, WakeInv, TypeOK
<1>43. ASSUME ProgEnd PROVE WakeInv'
  BY <1>43 DEF ProgEnd, WakeInv, TypeOK
<1>44. CASE UNCHANGED vars
  BY <1>44 DEF vars, WakeInv, TypeOK
<1> QED
  BY <1>1, <1>2, <1>3, <1>4, <1>5, <1>6, <1>7, <1>8, <1>9, <1>10, <1>11, <1>12,
     <1>13, <1>14, <1>15, <1>16, <1>17, <1>18, <1>19, <1>20, <1>21, <1>22, <1>23,
     <1>24, <1>25, <1>26, <1>27, <1>28, <1>29, <1>30, <1>31, <1>32, <1>33, <1>34,
     <1>35, <1>36, <1>37, <1>38, <1>39, <1>40, <1>41, <1>42, <1>43, <1>44, <1>45, <1>46
  DEF Next, SchedulerStep, IdleStep, MainStep, AppStep, EnvStep

\* A step of a thread that is not waiting keeps QueueInv, when it leaves the queues alone
\* or only moves a waiter to the run queue.
LEMMA QueueKept ==
  ASSUME TypeOK, QueueInv, NEW t \in Tid, t \notin ToSet(waitq), wakeTids' = wakeTids,
         (UNCHANGED <<runq, waitq>>) \/ (\E w \in Tid, r \in {"0", "ETIMEDOUT"} : Moved(w, r)),
         \A v \in Tid \ {t} : pc'[v] = pc[v] /\ op'[v] = op[v],
         pc'[t] # "none"
  PROVE  QueueInv'
<1>1. \A v \in ToSet(waitq) : v \in Tid /\ v # t BY QueuedTid
<1>2. CASE UNCHANGED <<runq, waitq>> BY <1>1, <1>2 DEF QueueInv
<1>3. ASSUME NEW w \in Tid, NEW r \in {"0", "ETIMEDOUT"}, Moved(w, r) PROVE QueueInv'
  <2>1. pc[w] # "none" BY <1>3 DEF Moved, QueueInv, NextPc, IdlePc
  <2>2. IsInjective(runq') /\ IsInjective(waitq') /\ ToSet(waitq') \subseteq ToSet(waitq)
    BY <1>3 DEF Moved
  <2>3. ToSet(runq') \cap ToSet(waitq') = {} BY <1>3 DEF Moved, QueueInv
  <2>4. \A v \in Tid : pc'[v] = "none" => v \notin ToSet(runq') BY <1>3, <2>1, <1>1 DEF Moved, QueueInv
  <2> QED BY <1>1, <2>2, <2>3, <2>4 DEF QueueInv
<1> QED BY <1>2, <1>3

\* The queues stay disjoint and duplicate-free.
LEMMA QueueStep == ASSUME IInv, [Next]_vars PROVE QueueInv'
<1> USE TidFacts DEF IInv, Goto, Begin, NextPhase, queueVars, wakeVars, idleVars
<1>1. ASSUME NEW t \in Tid, GetTurn(t) PROVE QueueInv'
  <2>1. t \notin ToSet(waitq)
    BY <1>1, HeadProps DEF GetTurn, HolderAtFront, QueueInv, TypeOK, FrontPc
  <2> QED BY <1>1, <2>1, QueuedTid DEF GetTurn, QueueInv, TypeOK, Pc, HoldPc, FrontPc, NextPc, IdlePc
<1>2. ASSUME NEW t \in Tid, IncTurnCount(t) PROVE QueueInv'
  BY <1>2, QueuedTid DEF IncTurnCount, QueueInv, TypeOK, Pc, HoldPc, FrontPc, NextPc, IdlePc
<1>3. ASSUME NEW t \in Tid, FireTimeout(t) PROVE QueueInv'
  <2>1. PICK i \in 1..Len(waitq) : Release(i, "ETIMEDOUT") BY <1>3 DEF FireTimeout
  <2>2. Moved(waitq[i], "ETIMEDOUT") BY <2>1, ReleaseMoves
  <2> QED BY <1>3, <2>2, QueuedTid DEF FireTimeout, QueueInv, TypeOK, Pc, HoldPc, FrontPc, NextPc, IdlePc, Moved
<1>4. ASSUME NEW t \in Tid, FireDone(t) PROVE QueueInv'
  BY <1>4, QueuedTid DEF FireDone, QueueInv, TypeOK, Pc, HoldPc, FrontPc, NextPc, IdlePc
<1>5. ASSUME NEW t \in Tid, CheckWakeupFlag(t) PROVE QueueInv'
  <2>1. CASE pc[t] = "inc_check"
    <3>1. t \notin ToSet(waitq) BY <2>1 DEF QueueInv, NextPc, IdlePc
    <3>2. pc'[t] # "none" BY <1>5, <2>1 DEF CheckWakeupFlag, TypeOK, ControlInv, AfterInc
    <3> QED BY <1>5, <3>1, <3>2, QueuedTid DEF CheckWakeupFlag, QueueInv, TypeOK
  <2>2. CASE pc[t] # "inc_check"
    <3>1. pc[t] \in NextPc /\ pc'[t] \in NextPc BY <1>5, <2>2 DEF CheckWakeupFlag, TypeOK, NextPc
    <3>2. pc[t] \notin {"getTurn", "exited", "run"} \cup IdlePc /\ pc'[t] # "none"
      BY <3>1 DEF NextPc, IdlePc
    <3> QED BY <1>5, <3>1, <3>2, QueuedTid DEF CheckWakeupFlag, QueueInv, TypeOK
  <2> QED BY <2>1, <2>2
<1>6. ASSUME NEW t \in Tid, NEW u \in wakeTids, CheckWakeupOne(t, u) PROVE QueueInv'
  <2>1. u \in Tid /\ u \notin ToSet(waitq) /\ pc[u] # "none" BY <1>6, QueuedTid DEF QueueInv, WakeInv, TypeOK
  <2>2. IsInjective(runq') /\ ToSet(runq') = ToSet(runq) \cup {u}
    BY <1>6, <2>1, AppendProps DEF CheckWakeupOne, QueueInv, TypeOK
  <2>3. \A v \in ToSet(waitq) : v \notin wakeTids' BY <1>6 DEF CheckWakeupOne, QueueInv
  <2> QED BY <1>6, <2>1, <2>2, <2>3 DEF CheckWakeupOne, QueueInv
<1>7. ASSUME NEW t \in Tid, CheckWakeupDone(t) PROVE QueueInv'
  <2>1. CASE pc[t] = "inc_wake"
    <3>1. t \notin ToSet(waitq) BY <2>1 DEF QueueInv, NextPc, IdlePc
    <3>2. pc'[t] # "none" BY <1>7, <2>1 DEF CheckWakeupDone, TypeOK, ControlInv, AfterInc
    <3> QED BY <1>7, <3>1, <3>2, QueuedTid DEF CheckWakeupDone, QueueInv, TypeOK
  <2>2. CASE pc[t] # "inc_wake"
    <3>1. pc[t] \in NextPc /\ pc'[t] \in NextPc BY <1>7, <2>2 DEF CheckWakeupDone, TypeOK, NextPc
    <3>2. pc[t] \notin {"getTurn", "exited", "run"} \cup IdlePc /\ pc'[t] # "none"
      BY <3>1 DEF NextPc, IdlePc
    <3> QED BY <1>7, <3>1, <3>2, QueuedTid DEF CheckWakeupDone, QueueInv, TypeOK
  <2> QED BY <2>1, <2>2
<1>8. ASSUME NEW t \in Tid, Leave(t) PROVE QueueInv'
  <2>1. runq # <<>> /\ Head(runq) = t BY <1>8 DEF HolderAtFront, Leave, FrontPc
  <2>2. /\ Tail(runq) \in Seq(Tid) /\ IsInjective(Tail(runq))
        /\ ToSet(Tail(runq)) = ToSet(runq) \ {t} /\ t \in ToSet(runq)
    BY <2>1, PopHead
  <2> QED BY <1>8, <2>2, QueuedTid DEF Leave, LeaveFront, QueueInv, TypeOK, Pc, HoldPc, FrontPc, NextPc, IdlePc
<1>9. ASSUME NEW t \in Tid, PutTurn(t) PROVE QueueInv'
  <2>1. runq # <<>> /\ Head(runq) = t BY <1>9 DEF HolderAtFront, PutTurn, FrontPc
  <2>2. /\ Tail(runq) \in Seq(Tid) /\ IsInjective(Tail(runq))
        /\ ToSet(Tail(runq)) = ToSet(runq) \ {t} /\ t \in ToSet(runq)
    BY <2>1, PopHead
  <2>3. t \notin ToSet(Tail(runq)) /\ runq' = Append(Tail(runq), t) BY <1>9, <2>2 DEF PutTurn
  <2>4. IsInjective(runq') /\ ToSet(runq') = ToSet(Tail(runq)) \cup {t}
    <3> DEFINE q == Tail(runq)
    <3>1. q \in Seq(Tid) /\ IsInjective(q) /\ t \notin ToSet(q) /\ runq' = Append(q, t) BY <2>2, <2>3
    <3> HIDE DEF q
    <3>2. IsInjective(runq') /\ ToSet(runq') = ToSet(q) \cup {t} BY <3>1, AppendProps
    <3> QED BY <3>2 DEF q
  <2>5. ToSet(runq') = ToSet(runq) BY <2>2, <2>4
  <2> QED BY <1>9, <2>4, <2>5, QueuedTid DEF PutTurn, QueueInv, TypeOK, Pc, HoldPc, FrontPc, NextPc, IdlePc
<1>10. ASSUME NEW t \in Tid, ThreadEnd(t) PROVE QueueInv'
  <2>1. t \notin ToSet(waitq) BY <1>10 DEF ThreadEnd, QueueInv, NextPc, IdlePc
  <2>2. /\ \A v \in Tid \ {t} : pc'[v] = pc[v] /\ op'[v] = op[v]
        /\ pc'[t] # "none" /\ wakeTids' = wakeTids
    BY <1>10 DEF ThreadEnd, TypeOK
  <2>3. (UNCHANGED <<runq, waitq>>) \/ (\E w \in Tid : Moved(w, "0"))
    BY <1>10, SignalMoves DEF ThreadEnd
  <2> QED BY <2>1, <2>2, <2>3, QueueKept
<1>11. ASSUME NEW t \in Tid, Wait(t) PROVE QueueInv'
  <2>1. runq # <<>> /\ Head(runq) = t BY <1>11 DEF HolderAtFront, Wait, FrontPc
  <2>2. /\ Tail(runq) \in Seq(Tid) /\ IsInjective(Tail(runq))
        /\ ToSet(Tail(runq)) = ToSet(runq) \ {t} /\ t \in ToSet(runq)
    BY <2>1, PopHead
  <2>3. t \notin ToSet(waitq) /\ t \notin wakeTids BY <1>11, <2>2 DEF Wait, QueueInv, WakeInv
  <2>4. IsInjective(waitq') /\ ToSet(waitq') = ToSet(waitq) \cup {t}
    BY <1>11, <2>3, AppendProps DEF Wait, QueueInv, TypeOK
  <2>5. op[t] \in {"wait", "idleCondWait"} BY <1>11 DEF Wait, ControlInv
  <2> QED BY <1>11, <2>2, <2>3, <2>4, <2>5, QueuedTid, SMTT(60) DEF Wait, LeaveFront, QueueInv, TypeOK, Pc, HoldPc, FrontPc, NextPc, IdlePc
<1>12. ASSUME NEW t \in Tid, NextInvalid(t) PROVE QueueInv'
  BY <1>12, QueuedTid DEF NextInvalid, QueueInv, TypeOK, Pc, HoldPc, FrontPc, NextPc, IdlePc
<1>13. ASSUME NEW t \in Tid, WakeUpIdleThreadExit(t) PROVE QueueInv'
  BY <1>13, QueuedTid DEF WakeUpIdleThreadExit, EmptyScan, QueueInv, TypeOK, Pc, HoldPc, FrontPc, NextPc, IdlePc
<1>14. ASSUME NEW t \in Tid, WakeUpIdleThread(t) PROVE QueueInv'
  <2>1. PICK i \in 1..Len(waitq) : Release(i, "0") BY <1>14 DEF WakeUpIdleThread
  <2>2. Moved(waitq[i], "0") BY <2>1, ReleaseMoves
  <2>3. Moved(waitq[i], "0") /\ waitq[i] \in Tid BY <2>2 DEF TypeOK
  <2>4. /\ \A v \in Tid \ {t} : pc'[v] = pc[v] /\ op'[v] = op[v]
        /\ pc[t] \in NextPc /\ pc'[t] \in NextPc /\ op'[t] = op[t] /\ wakeTids' = wakeTids
    BY <1>14 DEF WakeUpIdleThread, EmptyScan, TypeOK, NextPc
  <2>5. \A v \in Tid : pc'[v] = "none" => v \notin ToSet(runq')
    BY <2>3, <2>4 DEF Moved, QueueInv, NextPc, IdlePc
  <2> QED BY <2>3, <2>4, <2>5, QueuedTid DEF Moved, QueueInv, NextPc, IdlePc
<1>15. ASSUME NEW t \in Tid, SignalIdle(t) PROVE QueueInv'
  BY <1>15, QueuedTid DEF SignalIdle, QueueInv, TypeOK, Pc, HoldPc, FrontPc, NextPc, IdlePc
<1>16. ASSUME NEW t \in Tid, SkipHead(t) PROVE QueueInv'
  <2>1. /\ Tail(runq) \in Seq(Tid) /\ IsInjective(Tail(runq))
        /\ ToSet(Tail(runq)) = ToSet(runq) \ {Head(runq)}
    BY <1>16, PopHead DEF SkipHead
  <2> QED BY <1>16, <2>1, QueuedTid DEF SkipHead, QueueInv, TypeOK, Pc, HoldPc, FrontPc, NextPc, IdlePc
<1>17. ASSUME NEW t \in Tid, PassTurn(t) PROVE QueueInv'
  <2>1. t \in ToSet(waitq) => AfterNext(op[t]) \in {"getTurn", "condWait"}
    BY <1>17 DEF PassTurn, QueueInv, AfterNext, IdlePc, NextPc
  <2>2. AfterNext(op[t]) # "none" BY <1>17 DEF PassTurn, ControlInv, AfterNext, NextOp, NextPc
  <2> QED BY <1>17, <2>1, <2>2, QueuedTid DEF PassTurn, QueueInv, TypeOK, Pc, HoldPc, FrontPc, NextPc, IdlePc
<1>18. ASSUME NEW t \in Tid, Block(t) PROVE QueueInv'
  <2>1. t \notin ToSet(waitq)
    BY <1>18, HeadProps DEF Block, HolderAtFront, QueueInv, TypeOK, FrontPc
  <2> QED BY <1>18, <2>1, QueuedTid DEF Block, QueueInv, TypeOK, Pc, HoldPc, FrontPc, NextPc, IdlePc
<1>19. ASSUME NEW t \in Tid, Wakeup(t) PROVE QueueInv'
  BY <1>19, QueuedTid DEF Wakeup, QueueInv, TypeOK, Pc, HoldPc, FrontPc, NextPc, IdlePc
<1>20. ASSUME NEW t \in Tid, LockIdleMutex(t) PROVE QueueInv'
  <2>1. t \notin ToSet(waitq) BY <1>20 DEF LockIdleMutex, QueueInv, NextPc, IdlePc
  <2>2. /\ \A v \in Tid \ {t} : pc'[v] = pc[v] /\ op'[v] = op[v]
        /\ pc'[t] # "none" /\ wakeTids' = wakeTids
    BY <1>20 DEF LockIdleMutex, TypeOK
  <2>3. UNCHANGED <<runq, waitq>> BY <1>20 DEF LockIdleMutex
  <2> QED BY <2>1, <2>2, <2>3, QueueKept
<1>21. ASSUME NEW t \in Tid, UnlockIdleMutex(t) PROVE QueueInv'
  <2>1. t \notin ToSet(waitq) BY <1>21 DEF UnlockIdleMutex, QueueInv, NextPc, IdlePc
  <2>2. /\ \A v \in Tid \ {t} : pc'[v] = pc[v] /\ op'[v] = op[v]
        /\ pc'[t] # "none" /\ wakeTids' = wakeTids
    BY <1>21 DEF UnlockIdleMutex, TypeOK
  <2>3. (UNCHANGED <<runq, waitq>>) \/ (\E w \in Tid : Moved(w, "0"))
    BY <1>21, SignalMoves DEF UnlockIdleMutex
  <2> QED BY <2>1, <2>2, <2>3, QueueKept
<1>22. ASSUME NEW t \in Tid, IdleSleep(t) PROVE QueueInv'
  BY <1>22, QueuedTid DEF IdleSleep, QueueInv, TypeOK, Pc, HoldPc, FrontPc, NextPc, IdlePc
<1>23. ASSUME NEW t \in Tid, IdleCondWait(t) PROVE QueueInv'
  BY <1>23, QueuedTid DEF IdleCondWait, QueueInv, TypeOK, Pc, HoldPc, FrontPc, NextPc, IdlePc
<1>24. ASSUME NEW t \in Tid, IdleCheckRunq(t) PROVE QueueInv'
  <2>1. t \notin ToSet(waitq) BY <1>24 DEF IdleCheckRunq, QueueInv, NextPc, IdlePc
  <2>2. /\ \A v \in Tid \ {t} : pc'[v] = pc[v] /\ op'[v] = op[v]
        /\ pc'[t] # "none" /\ wakeTids' = wakeTids
    BY <1>24 DEF IdleCheckRunq, TypeOK
  <2>3. UNCHANGED <<runq, waitq>> BY <1>24 DEF IdleCheckRunq
  <2> QED BY <2>1, <2>2, <2>3, QueueKept
<1>25. ASSUME NEW t \in Tid, TryPutTurn(t) PROVE QueueInv'
  <2>1. t \notin ToSet(waitq) BY <1>25 DEF TryPutTurn, QueueInv, NextPc, IdlePc
  <2>2. \A v \in Tid : pc'[v] = pc[v] \/ (v = t /\ pc'[v] = "wait") BY <1>25 DEF TryPutTurn, TypeOK
  <2> QED BY <1>25, <2>1, <2>2, QueuedTid DEF TryPutTurn, QueueInv
<1>26. ASSUME NEW t \in Tid, TryPutTurnFail(t) PROVE QueueInv'
  BY <1>26, QueuedTid DEF TryPutTurnFail, QueueInv, TypeOK, Pc, HoldPc, FrontPc, NextPc, IdlePc
<1>27. ASSUME NEW t \in Tid, CondSleep(t) PROVE QueueInv'
  BY <1>27, QueuedTid DEF CondSleep, QueueInv, TypeOK, Pc, HoldPc, FrontPc, NextPc, IdlePc
<1>28. ASSUME NEW t \in Tid, CondReturn(t) PROVE QueueInv'
  <2>1. t = IdleThreadTid BY <1>28 DEF CondReturn, ControlInv, IdlePc
  <2> QED BY <1>28, <2>1, QueuedTid DEF CondReturn, QueueInv, TypeOK
<1>29. ASSUME NEW t \in Tid, Exit(t) PROVE QueueInv'
  BY <1>29, QueuedTid DEF Exit, QueueInv, TypeOK, Pc, HoldPc, FrontPc, NextPc, IdlePc
<1>30. ASSUME SetIdleDone PROVE QueueInv'
  BY <1>30, QueuedTid DEF SetIdleDone, QueueInv, TypeOK, Pc, HoldPc, FrontPc, NextPc, IdlePc
<1>31. ASSUME ProgEndSignal PROVE QueueInv'
  <2>1. MainThreadTid \notin ToSet(waitq) BY <1>31 DEF ProgEndSignal, QueueInv, NextPc, IdlePc
  <2>2. /\ \A v \in Tid \ {MainThreadTid} : pc'[v] = pc[v] /\ op'[v] = op[v]
        /\ pc'[MainThreadTid] # "none" /\ wakeTids' = wakeTids
    BY <1>31 DEF ProgEndSignal, TypeOK
  <2>3. (UNCHANGED <<runq, waitq>>) \/ (\E w \in Tid : Moved(w, "0"))
    BY <1>31, SignalMoves DEF ProgEndSignal
  <2> QED BY <2>1, <2>2, <2>3, QueueKept
<1>32. ASSUME ProgEndRealSignal PROVE QueueInv'
  BY <1>32, QueuedTid DEF ProgEndRealSignal, QueueInv, TypeOK, Pc, HoldPc, FrontPc, NextPc, IdlePc
<1>45. ASSUME ProgEndRealLock PROVE QueueInv'
  BY <1>45, QueuedTid DEF ProgEndRealLock, QueueInv, TypeOK, Pc, HoldPc, FrontPc, NextPc, IdlePc
<1>46. ASSUME ProgEndRealUnlock PROVE QueueInv'
  BY <1>46, QueuedTid DEF ProgEndRealUnlock, QueueInv, TypeOK, Pc, HoldPc, FrontPc, NextPc, IdlePc
<1>33. ASSUME ProgEndJoin PROVE QueueInv'
  <2>1. MainThreadTid \notin ToSet(waitq) BY <1>33 DEF ProgEndJoin, QueueInv, NextPc, IdlePc
  <2>2. /\ \A v \in Tid \ {MainThreadTid} : pc'[v] = pc[v] /\ op'[v] = op[v]
        /\ pc'[MainThreadTid] # "none" /\ wakeTids' = wakeTids
    BY <1>33 DEF ProgEndJoin, TypeOK
  <2>3. UNCHANGED <<runq, waitq>> BY <1>33 DEF ProgEndJoin
  <2> QED BY <2>1, <2>2, <2>3, QueueKept
<1>34. ASSUME NEW t \in Tid, CallGetTurn(t) PROVE QueueInv'
  BY <1>34, QueuedTid DEF CallGetTurn, QueueInv, TypeOK, Pc, HoldPc, FrontPc, NextPc, IdlePc
<1>35. ASSUME NEW t \in Tid, InterProStartStop(t) PROVE QueueInv'
  BY <1>35, QueuedTid DEF InterProStartStop, CanBlock, QueueInv, TypeOK, Pc, HoldPc, FrontPc, NextPc, IdlePc
<1>36. ASSUME NEW t \in Tid, InterProStartHead(t) PROVE QueueInv'
  BY <1>36, QueuedTid DEF InterProStartHead, CanBlock, QueueInv, TypeOK, Pc, HoldPc, FrontPc, NextPc, IdlePc
<1>37. ASSUME NEW t \in Tid, NEW c \in Chan, SyncSignal(t, c) PROVE QueueInv'
  <2>1. (UNCHANGED queueVars) \/ (UNCHANGED status /\ \E w \in Tid : Moved(w, "0"))
    BY <1>37, SignalMoves DEF SyncSignal
  <2> QED BY <1>37, <2>1, QueuedTid DEF SyncSignal, InApp, QueueInv, TypeOK, Pc, HoldPc, FrontPc, NextPc, IdlePc, Moved
<1>38. ASSUME NEW t \in Tid, Create(t) PROVE QueueInv'
  <2>1. nthread \in Tid /\ pc[nthread] = "none" BY <1>38 DEF Create, TypeOK, ControlInv
  <2>2. nthread \notin ToSet(runq) /\ nthread \notin ToSet(waitq) BY <2>1 DEF QueueInv, IdlePc, NextPc
  <2>3. IsInjective(runq') /\ ToSet(runq') = ToSet(runq) \cup {nthread}
    BY <1>38, <2>1, <2>2, AppendProps DEF Create, QueueInv, TypeOK
  <2> QED BY <1>38, <2>1, <2>2, <2>3, QueuedTid, ZenonT(60) DEF Create, InApp, QueueInv, TypeOK, Pc, HoldPc, FrontPc, NextPc, IdlePc
<1>39. ASSUME NEW t \in Tid, FakeEnd(t) PROVE QueueInv'
  <2>1. t \notin ToSet(waitq) BY <1>39 DEF FakeEnd, QueueInv, NextPc, IdlePc, InApp
  <2>2. /\ \A v \in Tid \ {t} : pc'[v] = pc[v] /\ op'[v] = op[v]
        /\ pc'[t] # "none" /\ wakeTids' = wakeTids
    BY <1>39 DEF FakeEnd, TypeOK, InApp
  <2>3. UNCHANGED <<runq, waitq>> BY <1>39 DEF FakeEnd
  <2> QED BY <2>1, <2>2, <2>3, QueueKept
<1>40. ASSUME NEW t \in Tid, EndOp(t) PROVE QueueInv'
  <2>1. t \notin ToSet(waitq) BY <1>40 DEF EndOp, QueueInv, NextPc, IdlePc, InApp
  <2>2. /\ \A v \in Tid \ {t} : pc'[v] = pc[v] /\ op'[v] = op[v]
        /\ pc'[t] # "none" /\ wakeTids' = wakeTids
    BY <1>40 DEF EndOp, TypeOK, InApp
  <2>3. UNCHANGED <<runq, waitq>> BY <1>40 DEF EndOp
  <2> QED BY <2>1, <2>2, <2>3, QueueKept
<1>41. ASSUME NEW t \in Tid, InterProEnd(t) PROVE QueueInv'
  BY <1>41, QueuedTid DEF InterProEnd, QueueInv, TypeOK, Pc, HoldPc, FrontPc, NextPc, IdlePc
<1>42. ASSUME NEW t \in Tid, CondSpurious(t) PROVE QueueInv'
  BY <1>42, QueuedTid DEF CondSpurious, QueueInv, TypeOK, Pc, HoldPc, FrontPc, NextPc, IdlePc
<1>43. ASSUME ProgEnd PROVE QueueInv'
  BY <1>43, QueuedTid DEF ProgEnd, QueueInv, TypeOK, Pc, HoldPc, FrontPc, NextPc, IdlePc
<1>44. CASE UNCHANGED vars
  BY <1>44 DEF vars, QueueInv
<1> QED
  BY <1>1, <1>2, <1>3, <1>4, <1>5, <1>6, <1>7, <1>8, <1>9, <1>10, <1>11, <1>12,
     <1>13, <1>14, <1>15, <1>16, <1>17, <1>18, <1>19, <1>20, <1>21, <1>22, <1>23,
     <1>24, <1>25, <1>26, <1>27, <1>28, <1>29, <1>30, <1>31, <1>32, <1>33, <1>34,
     <1>35, <1>36, <1>37, <1>38, <1>39, <1>40, <1>41, <1>42, <1>43, <1>44, <1>45, <1>46
  DEF Next, SchedulerStep, IdleStep, MainStep, AppStep, EnvStep

\* waits[t] is reset exactly when t is off the wait queue.
LEMMA WaitStep == ASSUME IInv, [Next]_vars PROVE WaitInv'
<1> USE TidFacts, TimeAssumption DEF IInv, Goto, Begin, NextPhase, queueVars, wakeVars, idleVars
<1>1. ASSUME NEW t \in Tid, GetTurn(t) PROVE WaitInv'
  BY <1>1 DEF GetTurn, WaitInv, TypeOK
<1>2. ASSUME NEW t \in Tid, IncTurnCount(t) PROVE WaitInv'
  BY <1>2 DEF IncTurnCount, WaitInv, TypeOK
<1>3. ASSUME NEW t \in Tid, FireTimeout(t) PROVE WaitInv'
  <2>1. PICK i \in 1..Len(waitq) : Release(i, "ETIMEDOUT") BY <1>3 DEF FireTimeout
  <2>2. Moved(waitq[i], "ETIMEDOUT") BY <2>1, ReleaseMoves
  <2> QED BY <1>3, <2>2, SMTT(60) DEF FireTimeout, WaitInv, TypeOK, Moved
<1>4. ASSUME NEW t \in Tid, FireDone(t) PROVE WaitInv'
  BY <1>4 DEF FireDone, WaitInv, TypeOK
<1>5. ASSUME NEW t \in Tid, CheckWakeupFlag(t) PROVE WaitInv'
  BY <1>5 DEF CheckWakeupFlag, WaitInv, TypeOK
<1>6. ASSUME NEW t \in Tid, NEW u \in wakeTids, CheckWakeupOne(t, u) PROVE WaitInv'
  BY <1>6 DEF CheckWakeupOne, WaitInv, TypeOK
<1>7. ASSUME NEW t \in Tid, CheckWakeupDone(t) PROVE WaitInv'
  BY <1>7 DEF CheckWakeupDone, WaitInv, TypeOK
<1>8. ASSUME NEW t \in Tid, Leave(t) PROVE WaitInv'
  BY <1>8 DEF Leave, LeaveFront, WaitInv, TypeOK
<1>9. ASSUME NEW t \in Tid, PutTurn(t) PROVE WaitInv'
  BY <1>9 DEF PutTurn, WaitInv, TypeOK
<1>10. ASSUME NEW t \in Tid, ThreadEnd(t) PROVE WaitInv'
  <2>1. (UNCHANGED queueVars) \/ (UNCHANGED status /\ \E w \in Tid : Moved(w, "0"))
    BY <1>10, SignalMoves DEF ThreadEnd
  <2> QED BY <1>10, <2>1, SMTT(60) DEF ThreadEnd, WaitInv, TypeOK, Moved
<1>11. ASSUME NEW t \in Tid, Wait(t) PROVE WaitInv'
  <2>1. ToSet(waitq') = ToSet(waitq) \cup {t} BY <1>11, AppendProps DEF Wait, TypeOK
  <2>2. PICK a \in WaitArgs(t) : chan' = [chan EXCEPT ![t] = a[1]] /\ timeout' = [timeout EXCEPT ![t] = a[2]]
    BY <1>11 DEF Wait
  <2>3. a[2] \in Int /\ a[2] <= Forever /\ (a[1] # NULL \/ a[2] # Forever) BY WaitArgsProps
  <2> QED BY <2>1, <2>2, <2>3 DEF WaitInv, TypeOK
<1>12. ASSUME NEW t \in Tid, NextInvalid(t) PROVE WaitInv'
  BY <1>12 DEF NextInvalid, WaitInv, TypeOK
<1>13. ASSUME NEW t \in Tid, WakeUpIdleThreadExit(t) PROVE WaitInv'
  BY <1>13 DEF WakeUpIdleThreadExit, EmptyScan, WaitInv, TypeOK
<1>14. ASSUME NEW t \in Tid, WakeUpIdleThread(t) PROVE WaitInv'
  <2>1. PICK i \in 1..Len(waitq) : Release(i, "0") BY <1>14 DEF WakeUpIdleThread
  <2>2. Moved(waitq[i], "0") BY <2>1, ReleaseMoves
  <2> QED BY <1>14, <2>2, SMTT(60) DEF WakeUpIdleThread, EmptyScan, WaitInv, TypeOK, Moved
<1>15. ASSUME NEW t \in Tid, SignalIdle(t) PROVE WaitInv'
  BY <1>15 DEF SignalIdle, WaitInv, TypeOK
<1>16. ASSUME NEW t \in Tid, SkipHead(t) PROVE WaitInv'
  BY <1>16 DEF SkipHead, WaitInv, TypeOK
<1>17. ASSUME NEW t \in Tid, PassTurn(t) PROVE WaitInv'
  BY <1>17 DEF PassTurn, WaitInv, TypeOK
<1>18. ASSUME NEW t \in Tid, Block(t) PROVE WaitInv'
  BY <1>18 DEF Block, WaitInv, TypeOK
<1>19. ASSUME NEW t \in Tid, Wakeup(t) PROVE WaitInv'
  BY <1>19 DEF Wakeup, WaitInv, TypeOK
<1>20. ASSUME NEW t \in Tid, LockIdleMutex(t) PROVE WaitInv'
  BY <1>20 DEF LockIdleMutex, WaitInv, TypeOK
<1>21. ASSUME NEW t \in Tid, UnlockIdleMutex(t) PROVE WaitInv'
  <2>1. (UNCHANGED queueVars) \/ (UNCHANGED status /\ \E w \in Tid : Moved(w, "0"))
    BY <1>21, SignalMoves DEF UnlockIdleMutex
  <2>2. CASE UNCHANGED queueVars BY <2>2 DEF WaitInv
  <2>3. CASE \E w \in Tid : Moved(w, "0") BY <2>3 DEF WaitInv, TypeOK, Moved
  <2> QED BY <2>1, <2>2, <2>3
<1>22. ASSUME NEW t \in Tid, IdleSleep(t) PROVE WaitInv'
  BY <1>22 DEF IdleSleep, WaitInv, TypeOK
<1>23. ASSUME NEW t \in Tid, IdleCondWait(t) PROVE WaitInv'
  BY <1>23 DEF IdleCondWait, WaitInv, TypeOK
<1>24. ASSUME NEW t \in Tid, IdleCheckRunq(t) PROVE WaitInv'
  BY <1>24 DEF IdleCheckRunq, WaitInv, TypeOK
<1>25. ASSUME NEW t \in Tid, TryPutTurn(t) PROVE WaitInv'
  BY <1>25 DEF TryPutTurn, WaitInv, TypeOK
<1>26. ASSUME NEW t \in Tid, TryPutTurnFail(t) PROVE WaitInv'
  BY <1>26 DEF TryPutTurnFail, WaitInv, TypeOK
<1>27. ASSUME NEW t \in Tid, CondSleep(t) PROVE WaitInv'
  BY <1>27 DEF CondSleep, WaitInv, TypeOK
<1>28. ASSUME NEW t \in Tid, CondReturn(t) PROVE WaitInv'
  BY <1>28 DEF CondReturn, WaitInv, TypeOK
<1>29. ASSUME NEW t \in Tid, Exit(t) PROVE WaitInv'
  BY <1>29 DEF Exit, WaitInv, TypeOK
<1>30. ASSUME SetIdleDone PROVE WaitInv'
  BY <1>30 DEF SetIdleDone, WaitInv, TypeOK
<1>31. ASSUME ProgEndSignal PROVE WaitInv'
  <2>1. (UNCHANGED queueVars) \/ (UNCHANGED status /\ \E w \in Tid : Moved(w, "0"))
    BY <1>31, SignalMoves DEF ProgEndSignal
  <2> QED BY <1>31, <2>1 DEF ProgEndSignal, WaitInv, TypeOK, Moved
<1>32. ASSUME ProgEndRealSignal PROVE WaitInv'
  BY <1>32 DEF ProgEndRealSignal, WaitInv, TypeOK
<1>45. ASSUME ProgEndRealLock PROVE WaitInv'
  BY <1>45 DEF ProgEndRealLock, WaitInv, TypeOK
<1>46. ASSUME ProgEndRealUnlock PROVE WaitInv'
  BY <1>46 DEF ProgEndRealUnlock, WaitInv, TypeOK
<1>33. ASSUME ProgEndJoin PROVE WaitInv'
  BY <1>33 DEF ProgEndJoin, WaitInv, TypeOK
<1>34. ASSUME NEW t \in Tid, CallGetTurn(t) PROVE WaitInv'
  BY <1>34 DEF CallGetTurn, WaitInv, TypeOK
<1>35. ASSUME NEW t \in Tid, InterProStartStop(t) PROVE WaitInv'
  BY <1>35 DEF InterProStartStop, CanBlock, WaitInv, TypeOK
<1>36. ASSUME NEW t \in Tid, InterProStartHead(t) PROVE WaitInv'
  BY <1>36 DEF InterProStartHead, CanBlock, WaitInv, TypeOK
<1>37. ASSUME NEW t \in Tid, NEW c \in Chan, SyncSignal(t, c) PROVE WaitInv'
  <2>1. (UNCHANGED queueVars) \/ (UNCHANGED status /\ \E w \in Tid : Moved(w, "0"))
    BY <1>37, SignalMoves DEF SyncSignal
  <2> QED BY <1>37, <2>1, SMTT(60) DEF SyncSignal, InApp, WaitInv, TypeOK, Moved
<1>38. ASSUME NEW t \in Tid, Create(t) PROVE WaitInv'
  BY <1>38 DEF Create, InApp, WaitInv, TypeOK
<1>39. ASSUME NEW t \in Tid, FakeEnd(t) PROVE WaitInv'
  BY <1>39 DEF FakeEnd, InApp, WaitInv, TypeOK
<1>40. ASSUME NEW t \in Tid, EndOp(t) PROVE WaitInv'
  BY <1>40 DEF EndOp, InApp, WaitInv, TypeOK
<1>41. ASSUME NEW t \in Tid, InterProEnd(t) PROVE WaitInv'
  BY <1>41 DEF InterProEnd, WaitInv, TypeOK
<1>42. ASSUME NEW t \in Tid, CondSpurious(t) PROVE WaitInv'
  BY <1>42 DEF CondSpurious, WaitInv, TypeOK
<1>43. ASSUME ProgEnd PROVE WaitInv'
  BY <1>43 DEF ProgEnd, WaitInv, TypeOK
<1>44. CASE UNCHANGED vars
  BY <1>44 DEF vars, WaitInv
<1> QED
  BY <1>1, <1>2, <1>3, <1>4, <1>5, <1>6, <1>7, <1>8, <1>9, <1>10, <1>11, <1>12,
     <1>13, <1>14, <1>15, <1>16, <1>17, <1>18, <1>19, <1>20, <1>21, <1>22, <1>23,
     <1>24, <1>25, <1>26, <1>27, <1>28, <1>29, <1>30, <1>31, <1>32, <1>33, <1>34,
     <1>35, <1>36, <1>37, <1>38, <1>39, <1>40, <1>41, <1>42, <1>43, <1>44, <1>45, <1>46
  DEF Next, SchedulerStep, IdleStep, MainStep, AppStep, EnvStep

\* The first state: main runs and has the turn, nobody waits.
LEMMA InitIInv == Init => IInv
<1> SUFFICES ASSUME Init PROVE IInv OBVIOUS
<1> USE TidFacts, TimeAssumption, ThreadAssumption DEF Init
<1>1. runq \in Seq(Tid) /\ Len(runq) = 1 /\ runq[1] = MainThreadTid /\ Head(runq) = MainThreadTid
  OBVIOUS
<1>2. ToSet(runq) = {MainThreadTid} /\ IsInjective(runq) BY <1>1 DEF ToSet, IsInjective
<1>3. waitq \in Seq(Tid) /\ ToSet(waitq) = {} /\ IsInjective(waitq) BY DEF ToSet, IsInjective
<1>4. TypeOK
  <2>1. status \in [Tid -> Status] /\ pc \in [Tid -> Pc] BY DEF Status, Pc
  <2>2. chan \in [Tid -> Chan \cup Tid \cup {NULL, IdleCond, IdleMutex}] OBVIOUS
  <2>3. wakenUp \in [Tid -> BOOLEAN] /\ timeout \in [Tid -> Int] OBVIOUS
  <2>4. op \in [Tid -> Op] /\ phase \in [Tid -> MainPhase \cup IdlePhase]
    BY DEF Op, MainPhase, IdlePhase
  <2>5. ret \in [Tid -> {"0", "ETIMEDOUT"}] OBVIOUS
  <2>6. wakeTids \in SUBSET Tid /\ wakeFlag \in BOOLEAN /\ idle_done \in BOOLEAN OBVIOUS
  <2>7. nthread \in 1..MaxThread /\ itr \in Nat OBVIOUS
  <2>8. idle_mutex \in Tid \cup {InvalidTid} OBVIOUS
  <2> HIDE DEF Init
  <2> QED BY <1>1, <1>3, <2>1, <2>2, <2>3, <2>4, <2>5, <2>6, <2>7, <2>8 DEF TypeOK
<1>5. ControlInv
  BY DEF ControlInv, MainPhase, IdlePhase, NextPc, IdlePc, Tid, MainThreadTid, IdleThreadTid
<1>6. \A t \in Tid : pc[t] \notin HoldPc BY DEF HoldPc, FrontPc, NextPc
<1>7. \A t \in Tid : wakenUp[t] <=> t = MainThreadTid OBVIOUS
<1>8. OneTurn BY <1>6, <1>7 DEF OneTurn, HasTurn
<1>9. HolderAtFront BY <1>1, <1>6, <1>7 DEF HolderAtFront, HoldPc
<1>10. WakeInv BY DEF WakeInv
<1>11. QueueInv BY <1>2, <1>3 DEF QueueInv
<1>12. WaitInv BY <1>3 DEF WaitInv
<1> QED BY <1>4, <1>5, <1>8, <1>9, <1>10, <1>11, <1>12 DEF IInv

\* Every step keeps IInv.
LEMMA IInvStep == ASSUME IInv, [Next]_vars PROVE IInv'
  BY ControlStep, TypeStep, TurnStep, WakeStep, QueueStep, WaitStep DEF IInv

\* IInv is inductive.
THEOREM Inductive == Spec => []IInv
<1>1. IInv /\ [Next]_vars => IInv' BY IInvStep
<1> QED BY InitIInv, <1>1, PTL DEF Spec

\* The type invariant of the scheduler, for any number of threads.
THEOREM TypeCorrect == Spec => []TypeOK
<1>1. IInv => TypeOK BY DEF IInv
<1> QED BY <1>1, Inductive, PTL

\* There is one turn: post() never reaches a thread while another one, or the same one,
\* still has it.
THEOREM TurnIsUnique == Spec => []OneTurn
<1>1. IInv => OneTurn BY DEF IInv
<1> QED BY <1>1, Inductive, PTL

\* Whoever was given the turn is at the front of the run queue until it gives it up:
\* the asserts on runq.front() cannot fail.
THEOREM HolderIsAtFront == Spec => []HolderAtFront
<1>1. IInv => HolderAtFront BY DEF IInv
<1> QED BY <1>1, Inductive, PTL

\* selfcheck() never fails, at any step and not only where the debug build calls it.
THEOREM SelfCheckHolds == Spec => []SelfCheck
<1>1. IInv => SelfCheck
  <2> SUFFICES ASSUME IInv PROVE SelfCheck OBVIOUS
  <2>1. ToSet(runq) \subseteq Tid /\ ToSet(waitq) \subseteq Tid BY QueuedTid DEF IInv
  <2> QED BY <2>1 DEF IInv, QueueInv, WaitInv, SelfCheck
<1> QED BY <1>1, Inductive, PTL

-----------------------------------------------------------------------------
(* No thread is lost, the run-time assertions hold, nobody sleeps past a         *)
(* deadline unnoticed, every wait ends for a reason and nobody overtakes, for any *)
(* number of threads: FullInv is inductive.                                       *)

\* A thread's status changes with its program point, or when it is posted or reserved.
LEMMA StatusStep == ASSUME IInv, StatusInv, [Next]_vars PROVE StatusInv'
<1> USE TidFacts DEF IInv, Goto, Begin, NextPhase, queueVars, wakeVars, idleVars
<1>1. ASSUME NEW t \in Tid, GetTurn(t) PROVE StatusInv'
  BY <1>1 DEF GetTurn, StatusInv, StatusAt, TypeOK, Running, Pc, HoldPc, FrontPc, NextPc,
     IdlePc
<1>2. ASSUME NEW t \in Tid, IncTurnCount(t) PROVE StatusInv'
  BY <1>2 DEF IncTurnCount, StatusInv, StatusAt, TypeOK, Running, Pc, HoldPc, FrontPc, NextPc,
     IdlePc
<1>3. ASSUME NEW t \in Tid, FireTimeout(t) PROVE StatusInv'
  <2>1. PICK i \in 1..Len(waitq) : Release(i, "ETIMEDOUT") BY <1>3 DEF FireTimeout
  <2>2. Moved(waitq[i], "ETIMEDOUT") BY <2>1, ReleaseMoves
  <2>3. UNCHANGED status /\ \A v \in Tid : wakenUp'[v] => wakenUp[v] BY <1>3, <2>2 DEF FireTimeout, Moved, TypeOK
  <2> QED
    BY <1>3, <2>3 DEF FireTimeout, StatusInv, StatusAt, TypeOK, Running, Pc, HoldPc, FrontPc,
       NextPc, IdlePc
<1>4. ASSUME NEW t \in Tid, FireDone(t) PROVE StatusInv'
  BY <1>4 DEF FireDone, StatusInv, StatusAt, TypeOK, Running, Pc, HoldPc, FrontPc, NextPc,
     IdlePc
<1>5. ASSUME NEW t \in Tid, CheckWakeupFlag(t) PROVE StatusInv'
  BY <1>5 DEF CheckWakeupFlag, StatusInv, StatusAt, TypeOK, Running, Pc, HoldPc, FrontPc,
     NextPc, IdlePc, AfterInc, ControlInv, NextOp, Op
<1>6. ASSUME NEW t \in Tid, NEW u \in wakeTids, CheckWakeupOne(t, u) PROVE StatusInv'
  BY <1>6 DEF CheckWakeupOne, StatusInv, StatusAt, TypeOK, Running, Pc, HoldPc, FrontPc,
     NextPc, IdlePc
<1>7. ASSUME NEW t \in Tid, CheckWakeupDone(t) PROVE StatusInv'
  BY <1>7, SMTT(60) DEF CheckWakeupDone, StatusInv, StatusAt, TypeOK, Running, Pc, HoldPc, FrontPc,
     NextPc, IdlePc, AfterInc, ControlInv, NextOp, Op
<1>8. ASSUME NEW t \in Tid, Leave(t) PROVE StatusInv'
  <2>1. ~wakenUp[t] BY <1>8 DEF Leave, OneTurn, HoldPc, FrontPc
  <2> QED
    BY <1>8, <2>1 DEF Leave, LeaveFront, StatusInv, StatusAt, TypeOK, Running, Pc, HoldPc,
       FrontPc, NextPc, IdlePc, ControlInv, StatusOnLeave
<1>9. ASSUME NEW t \in Tid, PutTurn(t) PROVE StatusInv'
  <2>1. ~wakenUp[t] BY <1>9 DEF PutTurn, OneTurn, HoldPc, FrontPc
  <2> QED
    BY <1>9, <2>1 DEF PutTurn, StatusInv, StatusAt, TypeOK, Running, Pc, HoldPc, FrontPc,
       NextPc, IdlePc, ControlInv
<1>10. ASSUME NEW t \in Tid, ThreadEnd(t) PROVE StatusInv'
  <2>1. (UNCHANGED queueVars) \/ (UNCHANGED status /\ \E w \in Tid : Moved(w, "0"))
    BY <1>10, SignalMoves DEF ThreadEnd
  <2>2. UNCHANGED status /\ \A v \in Tid : wakenUp'[v] => wakenUp[v] BY <2>1 DEF Moved, TypeOK
  <2> QED
    BY <1>10, <2>2 DEF ThreadEnd, StatusInv, StatusAt, TypeOK, Running, Pc, HoldPc, FrontPc,
       NextPc, IdlePc
<1>11. ASSUME NEW t \in Tid, Wait(t) PROVE StatusInv'
  <2>1. ~wakenUp[t] BY <1>11 DEF Wait, OneTurn, HoldPc, FrontPc
  <2> QED
    BY <1>11, <2>1 DEF Wait, LeaveFront, StatusInv, StatusAt, TypeOK, Running, Pc, HoldPc,
       FrontPc, NextPc, IdlePc, ControlInv, StatusOnLeave
<1>12. ASSUME NEW t \in Tid, NextInvalid(t) PROVE StatusInv'
  BY <1>12 DEF NextInvalid, StatusInv, StatusAt, TypeOK, Running, Pc, HoldPc, FrontPc, NextPc,
     IdlePc
<1>13. ASSUME NEW t \in Tid, WakeUpIdleThreadExit(t) PROVE StatusInv'
  BY <1>13 DEF WakeUpIdleThreadExit, EmptyScan, StatusInv, StatusAt, TypeOK, Running, Pc,
     HoldPc, FrontPc, NextPc, IdlePc
<1>14. ASSUME NEW t \in Tid, WakeUpIdleThread(t) PROVE StatusInv'
  <2>1. PICK i \in 1..Len(waitq) : Release(i, "0") BY <1>14 DEF WakeUpIdleThread
  <2>2. Moved(waitq[i], "0") BY <2>1, ReleaseMoves
  <2>3. UNCHANGED status /\ \A v \in Tid : wakenUp'[v] => wakenUp[v] BY <1>14, <2>2 DEF WakeUpIdleThread, Moved, TypeOK
  <2> QED
    BY <1>14, <2>3 DEF WakeUpIdleThread, EmptyScan, StatusInv, StatusAt, TypeOK, Running, Pc,
       HoldPc, FrontPc, NextPc, IdlePc
<1>15. ASSUME NEW t \in Tid, SignalIdle(t) PROVE StatusInv'
  BY <1>15 DEF SignalIdle, StatusInv, StatusAt, TypeOK, Running, Pc, HoldPc, FrontPc, NextPc,
     IdlePc
<1>16. ASSUME NEW t \in Tid, SkipHead(t) PROVE StatusInv'
  BY <1>16 DEF SkipHead, StatusInv, StatusAt, TypeOK, Running, Pc, HoldPc, FrontPc, NextPc,
     IdlePc
<1>17. ASSUME NEW t \in Tid, PassTurn(t) PROVE StatusInv'
  <2>1. Head(runq) \in Tid /\ Head(runq) \in ToSet(runq) BY <1>17, PopHead DEF PassTurn
  <2>2. \A v \in Tid \ {t} : pc[v] \notin HoldPc BY <1>17 DEF PassTurn, OneTurn, HasTurn, HoldPc, NextPc
  <2>3. \A v \in Tid : ~wakenUp[v] BY <1>17 DEF PassTurn, OneTurn, HasTurn, HoldPc, NextPc
  <2>4. op[t] \in NextOp BY <1>17, <2>1 DEF PassTurn, ControlInv, NextPc
  <2>5. /\ \A v \in Tid : v # Head(runq) => status'[v] = status[v] /\ ~wakenUp'[v]
        /\ status'[Head(runq)] = IF status[Head(runq)] = "RUNNABLE" THEN "RUNNING_REG" ELSE status[Head(runq)]
        /\ status[Head(runq)] # "INTER_PRO_STOP"
    BY <1>17, <2>1, <2>3 DEF PassTurn, TypeOK
  <2>6. /\ \A v \in Tid \ {t} : pc'[v] = pc[v] /\ op'[v] = op[v]
        /\ op'[t] = "none" /\ pc'[t] = AfterNext(op[t])
    BY <1>17 DEF PassTurn, TypeOK
  <2>7. pc'[t] \in {"run", "dead", "getTurn", "sys", "condWait"} /\ (pc'[t] = "sys" <=> op[t] = "block")
    BY <2>4, <2>6 DEF AfterNext, NextOp
  <2>8. pc[t] \in NextPc /\ StatusAt(t) BY <1>17 DEF PassTurn, NextPc, StatusInv
  <2>9. StatusAt(t)'
    <3>1. status'[t] \in Status /\ status[t] \in Status BY <2>1, <2>5 DEF TypeOK, Status
    <3> QED BY <2>5, <2>6, <2>7, <2>8, <3>1 DEF StatusAt, HoldPc, FrontPc, NextPc, IdlePc, Running, Status
  <2>10. ASSUME NEW v \in Tid, v # t PROVE StatusAt(v)'
    <3>1. StatusAt(v) /\ status[v] \in Status BY DEF StatusInv, TypeOK
    <3> QED BY <2>2, <2>5, <2>6, <2>10, <3>1 DEF StatusAt, HoldPc, IdlePc, Running, Status
  <2> QED BY <2>9, <2>10 DEF StatusInv
<1>18. ASSUME NEW t \in Tid, Block(t) PROVE StatusInv'
  BY <1>18 DEF Block, StatusInv, StatusAt, TypeOK, Running, Pc, HoldPc, FrontPc, NextPc, IdlePc
<1>19. ASSUME NEW t \in Tid, Wakeup(t) PROVE StatusInv'
  BY <1>19 DEF Wakeup, StatusInv, StatusAt, TypeOK, Running, Pc, HoldPc, FrontPc, NextPc, IdlePc
<1>20. ASSUME NEW t \in Tid, LockIdleMutex(t) PROVE StatusInv'
  BY <1>20 DEF LockIdleMutex, StatusInv, StatusAt, TypeOK, Running, Pc, HoldPc, FrontPc, NextPc,
     IdlePc
<1>21. ASSUME NEW t \in Tid, UnlockIdleMutex(t) PROVE StatusInv'
  <2>1. (UNCHANGED queueVars) \/ (UNCHANGED status /\ \E w \in Tid : Moved(w, "0"))
    BY <1>21, SignalMoves DEF UnlockIdleMutex
  <2>2. UNCHANGED status /\ \A v \in Tid : wakenUp'[v] => wakenUp[v] BY <2>1 DEF Moved, TypeOK
  <2> QED
    BY <1>21, <2>2 DEF UnlockIdleMutex, StatusInv, StatusAt, TypeOK, Running, Pc, HoldPc,
       FrontPc, NextPc, IdlePc
<1>22. ASSUME NEW t \in Tid, IdleSleep(t) PROVE StatusInv'
  BY <1>22 DEF IdleSleep, StatusInv, StatusAt, TypeOK, Running, Pc, HoldPc, FrontPc, NextPc,
     IdlePc
<1>23. ASSUME NEW t \in Tid, IdleCondWait(t) PROVE StatusInv'
  BY <1>23 DEF IdleCondWait, StatusInv, StatusAt, TypeOK, Running, Pc, HoldPc, FrontPc, NextPc,
     IdlePc
<1>24. ASSUME NEW t \in Tid, IdleCheckRunq(t) PROVE StatusInv'
  BY <1>24 DEF IdleCheckRunq, StatusInv, StatusAt, TypeOK, Running, Pc, HoldPc, FrontPc, NextPc,
     IdlePc, ControlInv
<1>25. ASSUME NEW t \in Tid, TryPutTurn(t) PROVE StatusInv'
  <2>1. \A v \in Tid \ {t} : pc[v] \notin HoldPc BY <1>25 DEF TryPutTurn, OneTurn, HasTurn, HoldPc, FrontPc
  <2>2. /\ status[t] = "RUNNING_REG" /\ ~wakenUp[t] /\ op[t] = "idleCondWait"
        /\ pc[t] = "tryPutTurn"
    BY <1>25 DEF TryPutTurn, OneTurn, ControlInv, StatusInv, StatusAt, HoldPc, FrontPc
  <2>3. /\ \A v \in Tid : status'[v] = status[v] \/ (status[v] = "RUNNABLE" /\ status'[v] = "RUNNING_REG")
        /\ \A v \in Tid \ {t} : pc'[v] = pc[v]
        /\ pc'[t] \in {"wait", "tryPutTurn"} /\ op' = op /\ wakenUp' = wakenUp
    BY <1>25 DEF TryPutTurn, TypeOK
  <2>4. StatusAt(t)' BY <2>2, <2>3 DEF StatusAt, HoldPc, FrontPc, NextPc, IdlePc
  <2>5. ASSUME NEW v \in Tid, v # t PROVE StatusAt(v)'
    <3>1. StatusAt(v) BY DEF StatusInv
    <3> QED BY <2>1, <2>3, <2>5, <3>1 DEF StatusAt, HoldPc, IdlePc, Running
  <2> QED BY <2>4, <2>5 DEF StatusInv
<1>26. ASSUME NEW t \in Tid, TryPutTurnFail(t) PROVE StatusInv'
  BY <1>26 DEF TryPutTurnFail, StatusInv, StatusAt, TypeOK, Running, Pc, HoldPc, FrontPc,
     NextPc, IdlePc, ControlInv
<1>27. ASSUME NEW t \in Tid, CondSleep(t) PROVE StatusInv'
  BY <1>27 DEF CondSleep, StatusInv, StatusAt, TypeOK, Running, Pc, HoldPc, FrontPc, NextPc,
     IdlePc
<1>28. ASSUME NEW t \in Tid, CondReturn(t) PROVE StatusInv'
  BY <1>28 DEF CondReturn, StatusInv, StatusAt, TypeOK, Running, Pc, HoldPc, FrontPc, NextPc,
     IdlePc
<1>29. ASSUME NEW t \in Tid, Exit(t) PROVE StatusInv'
  BY <1>29 DEF Exit, StatusInv, StatusAt, TypeOK, Running, Pc, HoldPc, FrontPc, NextPc, IdlePc
<1>30. ASSUME SetIdleDone PROVE StatusInv'
  BY <1>30 DEF SetIdleDone, StatusInv, StatusAt, TypeOK, Running, Pc, HoldPc, FrontPc, NextPc,
     IdlePc
<1>31. ASSUME ProgEndSignal PROVE StatusInv'
  <2>1. (UNCHANGED queueVars) \/ (UNCHANGED status /\ \E w \in Tid : Moved(w, "0"))
    BY <1>31, SignalMoves DEF ProgEndSignal
  <2>2. UNCHANGED status /\ \A v \in Tid : wakenUp'[v] => wakenUp[v] BY <2>1 DEF Moved, TypeOK
  <2> QED
    BY <1>31, <2>2 DEF ProgEndSignal, StatusInv, StatusAt, TypeOK, Running, Pc, HoldPc, FrontPc,
       NextPc, IdlePc
<1>32. ASSUME ProgEndRealSignal PROVE StatusInv'
  BY <1>32 DEF ProgEndRealSignal, StatusInv, StatusAt, TypeOK, Running, Pc, HoldPc, FrontPc,
     NextPc, IdlePc
<1>45. ASSUME ProgEndRealLock PROVE StatusInv'
  BY <1>45 DEF ProgEndRealLock, StatusInv, StatusAt, TypeOK, Running, Pc, HoldPc, FrontPc,
     NextPc, IdlePc
<1>46. ASSUME ProgEndRealUnlock PROVE StatusInv'
  BY <1>46 DEF ProgEndRealUnlock, StatusInv, StatusAt, TypeOK, Running, Pc, HoldPc, FrontPc,
     NextPc, IdlePc
<1>33. ASSUME ProgEndJoin PROVE StatusInv'
  BY <1>33 DEF ProgEndJoin, StatusInv, StatusAt, TypeOK, Running, Pc, HoldPc, FrontPc, NextPc,
     IdlePc
<1>34. ASSUME NEW t \in Tid, CallGetTurn(t) PROVE StatusInv'
  BY <1>34 DEF CallGetTurn, StatusInv, StatusAt, TypeOK, Running, Pc, HoldPc, FrontPc, NextPc,
     IdlePc
<1>35. ASSUME NEW t \in Tid, InterProStartStop(t) PROVE StatusInv'
  BY <1>35 DEF InterProStartStop, CanBlock, StatusInv, StatusAt, TypeOK, Running, Pc, HoldPc,
     FrontPc, NextPc, IdlePc
<1>36. ASSUME NEW t \in Tid, InterProStartHead(t) PROVE StatusInv'
  BY <1>36 DEF InterProStartHead, CanBlock, StatusInv, StatusAt, TypeOK, Running, Pc, HoldPc,
     FrontPc, NextPc, IdlePc
<1>37. ASSUME NEW t \in Tid, NEW c \in Chan, SyncSignal(t, c) PROVE StatusInv'
  <2>1. (UNCHANGED queueVars) \/ (UNCHANGED status /\ \E w \in Tid : Moved(w, "0"))
    BY <1>37, SignalMoves DEF SyncSignal
  <2>2. UNCHANGED status /\ \A v \in Tid : wakenUp'[v] => wakenUp[v] BY <2>1 DEF Moved, TypeOK
  <2> QED
    BY <1>37, <2>2 DEF SyncSignal, InApp, StatusInv, StatusAt, TypeOK, Running, Pc, HoldPc,
       FrontPc, NextPc, IdlePc
<1>38. ASSUME NEW t \in Tid, Create(t) PROVE StatusInv'
  <2>1. nthread \in Tid /\ pc[nthread] = "none" BY <1>38 DEF Create, ControlInv, TypeOK
  <2>2. ~wakenUp[nthread] BY <2>1, HeadProps DEF HolderAtFront, QueueInv, TypeOK
  <2> QED
    BY <1>38, <2>1, <2>2 DEF Create, InApp, StatusInv, StatusAt, TypeOK, Running, Pc, HoldPc,
       FrontPc, NextPc, IdlePc
<1>39. ASSUME NEW t \in Tid, FakeEnd(t) PROVE StatusInv'
  BY <1>39 DEF FakeEnd, InApp, StatusInv, StatusAt, TypeOK, Running, Pc, HoldPc, FrontPc,
     NextPc, IdlePc
<1>40. ASSUME NEW t \in Tid, EndOp(t) PROVE StatusInv'
  BY <1>40, SMTT(60) DEF EndOp, InApp, StatusInv, StatusAt, TypeOK, Running, Pc, HoldPc, FrontPc, NextPc,
     IdlePc
<1>41. ASSUME NEW t \in Tid, InterProEnd(t) PROVE StatusInv'
  BY <1>41 DEF InterProEnd, StatusInv, StatusAt, TypeOK, Running, Pc, HoldPc, FrontPc, NextPc,
     IdlePc
<1>42. ASSUME NEW t \in Tid, CondSpurious(t) PROVE StatusInv'
  BY <1>42 DEF CondSpurious, StatusInv, StatusAt, TypeOK, Running, Pc, HoldPc, FrontPc, NextPc,
     IdlePc
<1>43. ASSUME ProgEnd PROVE StatusInv'
  BY <1>43 DEF ProgEnd, StatusInv, StatusAt, TypeOK, Running, Pc, HoldPc, FrontPc, NextPc,
     IdlePc
<1>44. CASE UNCHANGED vars
  BY <1>44 DEF vars, StatusInv, StatusAt, Running
<1> QED
  BY <1>1, <1>2, <1>3, <1>4, <1>5, <1>6, <1>7, <1>8, <1>9, <1>10, <1>11, <1>12,
     <1>13, <1>14, <1>15, <1>16, <1>17, <1>18, <1>19, <1>20, <1>21, <1>22, <1>23,
     <1>24, <1>25, <1>26, <1>27, <1>28, <1>29, <1>30, <1>31, <1>32, <1>33, <1>34,
     <1>35, <1>36, <1>37, <1>38, <1>39, <1>40, <1>41, <1>42, <1>43, <1>44, <1>45, <1>46
  DEF Next, SchedulerStep, IdleStep, MainStep, AppStep, EnvStep

\* Who has been given the turn and has not left the head is on the run queue.
LEMMA FrontQueued ==
  ASSUME IInv PROVE \A t \in Tid : wakenUp[t] \/ pc[t] \in FrontPc => t \in ToSet(runq)
  BY HeadProps DEF IInv, HolderAtFront, TypeOK

\* The elements nextRunnable() drops belong to threads that NoThreadLost does not count.
LEMMA StoppedPc ==
  ASSUME StatusInv, TypeOK, NEW t \in Tid, status[t] = "INTER_PRO_STOP"
  PROVE  pc[t] \in {"sys", "dead", "exited"} \/ (pc[t] \in NextPc /\ op[t] = "block")
  BY DEF StatusInv, StatusAt, TypeOK, Pc, HoldPc, Running

\* A step that takes nobody off a queue but to put it on the run queue keeps the place of
\* every thread that stays on its side of next().
LEMMA PlaceKept ==
  ASSUME PlaceInv,
         ToSet(runq) \subseteq ToSet(runq'),
         ToSet(runq) \cup ToSet(waitq) \cup wakeTids
           \subseteq ToSet(runq') \cup ToSet(waitq') \cup wakeTids',
         \A v \in Tid : \/ pc'[v] = pc[v] /\ op'[v] = op[v]
                        \/ pc[v] \in NextPc /\ pc'[v] \in NextPc /\ op'[v] = op[v]
                        \/ pc[v] \in Pc \ ({"none", "sys", "wakeup", "dead", "exited"} \cup NextPc) /\ pc'[v] \notin NextPc
                        \/ pc'[v] \in {"none", "sys", "wakeup", "dead", "exited"}
                        \/ v \in ToSet(runq')
  PROVE  PlaceInv'
<1> SUFFICES ASSUME NEW v \in Tid PROVE
    (/\ \/ pc[v] \in {"none", "sys", "wakeup", "dead", "exited"}
        \/ pc[v] \in NextPc /\ op[v] \in {"block", "threadEnd"}
        \/ v \in ToSet(runq) \cup ToSet(waitq) \cup wakeTids
     /\ pc[v] \in NextPc /\ op[v] = "putTurn" => v \in ToSet(runq))'
  BY DEF PlaceInv
<1> QED BY DEF PlaceInv, NextPc

\* Nobody but a thread in a blocking call is off the queues without a pending wakeup().
LEMMA PlaceStep == ASSUME IInv, StatusInv, PlaceInv, [Next]_vars PROVE PlaceInv'
<1> USE TidFacts DEF IInv, Goto, Begin, NextPhase, queueVars, wakeVars, idleVars
<1>1. ASSUME NEW t \in Tid, GetTurn(t) PROVE PlaceInv'
  <2>1. t \in ToSet(runq) BY <1>1, FrontQueued DEF GetTurn
  <2> QED BY <1>1, <2>1, PlaceKept DEF GetTurn, TypeOK
<1>2. ASSUME NEW t \in Tid, IncTurnCount(t) PROVE PlaceInv'
  BY <1>2, PlaceKept DEF IncTurnCount, TypeOK, Pc, HoldPc, FrontPc, NextPc, IdlePc
<1>3. ASSUME NEW t \in Tid, FireTimeout(t) PROVE PlaceInv'
  <2>1. PICK i \in 1..Len(waitq) : Release(i, "ETIMEDOUT") BY <1>3 DEF FireTimeout
  <2>2. Moved(waitq[i], "ETIMEDOUT") BY <2>1, ReleaseMoves
  <2>3. ToSet(runq) \subseteq ToSet(runq') /\ ToSet(runq) \cup ToSet(waitq) \subseteq ToSet(runq') \cup ToSet(waitq')
    BY <2>2 DEF Moved
  <2> QED
    BY <1>3, <2>3, PlaceKept DEF FireTimeout, TypeOK, HoldPc, FrontPc, NextPc, IdlePc
<1>4. ASSUME NEW t \in Tid, FireDone(t) PROVE PlaceInv'
  BY <1>4, PlaceKept DEF FireDone, TypeOK, Pc, HoldPc, FrontPc, NextPc, IdlePc
<1>5. ASSUME NEW t \in Tid, CheckWakeupFlag(t) PROVE PlaceInv'
  <2>1. CASE pc[t] \in FrontPc
    <3>1. t \in ToSet(runq) BY <2>1, FrontQueued
    <3> QED BY <1>5, <3>1, PlaceKept DEF CheckWakeupFlag, TypeOK
  <2>2. CASE pc[t] \notin FrontPc
    <3>1. pc[t] \in NextPc /\ pc'[t] \in NextPc BY <1>5, <2>2 DEF CheckWakeupFlag, TypeOK, FrontPc, NextPc
    <3> QED BY <1>5, <3>1, PlaceKept DEF CheckWakeupFlag, TypeOK
  <2> QED BY <2>1, <2>2
<1>6. ASSUME NEW t \in Tid, NEW u \in wakeTids, CheckWakeupOne(t, u) PROVE PlaceInv'
  <2>1. u \in Tid /\ ToSet(runq') = ToSet(runq) \cup {u} BY <1>6, AppendProps DEF CheckWakeupOne, TypeOK
  <2> QED BY <1>6, <2>1, PlaceKept DEF CheckWakeupOne
<1>7. ASSUME NEW t \in Tid, CheckWakeupDone(t) PROVE PlaceInv'
  <2>1. CASE pc[t] \in FrontPc
    <3>1. t \in ToSet(runq) BY <2>1, FrontQueued
    <3> QED BY <1>7, <3>1, PlaceKept DEF CheckWakeupDone, TypeOK
  <2>2. CASE pc[t] \notin FrontPc
    <3>1. pc[t] \in NextPc /\ pc'[t] \in NextPc BY <1>7, <2>2 DEF CheckWakeupDone, TypeOK, FrontPc, NextPc
    <3> QED BY <1>7, <3>1, PlaceKept DEF CheckWakeupDone, TypeOK
  <2> QED BY <2>1, <2>2
<1>8. ASSUME NEW t \in Tid, Leave(t) PROVE PlaceInv'
  <2>1. runq # <<>> /\ Head(runq) = t BY <1>8 DEF HolderAtFront, Leave, FrontPc
  <2>2. /\ Tail(runq) \in Seq(Tid) /\ IsInjective(Tail(runq))
        /\ ToSet(Tail(runq)) = ToSet(runq) \ {t} /\ t \in ToSet(runq)
    BY <2>1, PopHead
  <2>3. op[t] \in {"block", "threadEnd"} /\ pc'[t] = "next_check" BY <1>8 DEF Leave, LeaveFront, ControlInv, TypeOK
  <2>4. \A v \in Tid \ {t} : pc'[v] = pc[v] BY <1>8 DEF Leave, LeaveFront, TypeOK
  <2> QED BY <1>8, <2>2, <2>3, <2>4 DEF Leave, LeaveFront, PlaceInv, NextPc
<1>9. ASSUME NEW t \in Tid, PutTurn(t) PROVE PlaceInv'
  <2>1. runq # <<>> /\ Head(runq) = t BY <1>9 DEF HolderAtFront, PutTurn, FrontPc
  <2>2. /\ Tail(runq) \in Seq(Tid) /\ IsInjective(Tail(runq))
        /\ ToSet(Tail(runq)) = ToSet(runq) \ {t} /\ t \in ToSet(runq)
    BY <2>1, PopHead
  <2>3. ToSet(runq') = ToSet(runq)
    <3> DEFINE q == Tail(runq)
    <3>1. q \in Seq(Tid) /\ ToSet(q) = ToSet(runq) \ {t} /\ runq' = Append(q, t) BY <1>9, <2>2 DEF PutTurn
    <3> HIDE DEF q
    <3>2. ToSet(runq') = ToSet(q) \cup {t} BY <3>1, AppendProps
    <3> QED BY <2>2, <3>1, <3>2
  <2> QED BY <1>9, <2>2, <2>3, PlaceKept DEF PutTurn, TypeOK
<1>10. ASSUME NEW t \in Tid, ThreadEnd(t) PROVE PlaceInv'
  <2>1. (UNCHANGED queueVars) \/ (UNCHANGED status /\ \E w \in Tid : Moved(w, "0"))
    BY <1>10, SignalMoves DEF ThreadEnd
  <2>2. ToSet(runq) \subseteq ToSet(runq') /\ ToSet(runq) \cup ToSet(waitq) \subseteq ToSet(runq') \cup ToSet(waitq')
    BY <2>1 DEF Moved
  <2> QED
    BY <1>10, <2>2, PlaceKept DEF ThreadEnd, TypeOK, Pc, HoldPc, FrontPc, NextPc, IdlePc
<1>11. ASSUME NEW t \in Tid, Wait(t) PROVE PlaceInv'
  <2>1. runq # <<>> /\ Head(runq) = t BY <1>11 DEF HolderAtFront, Wait, FrontPc
  <2>2. /\ Tail(runq) \in Seq(Tid) /\ IsInjective(Tail(runq))
        /\ ToSet(Tail(runq)) = ToSet(runq) \ {t} /\ t \in ToSet(runq)
    BY <2>1, PopHead
  <2>3. op[t] \in {"wait", "idleCondWait"} /\ pc'[t] = "next_check" BY <1>11 DEF Wait, LeaveFront, ControlInv, TypeOK
  <2>4. \A v \in Tid \ {t} : pc'[v] = pc[v] BY <1>11 DEF Wait, LeaveFront, TypeOK
  <2>5. ToSet(waitq') = ToSet(waitq) \cup {t} BY <1>11, AppendProps DEF Wait, TypeOK
  <2> QED BY <1>11, <2>2, <2>3, <2>4, <2>5 DEF Wait, LeaveFront, PlaceInv, NextPc
<1>12. ASSUME NEW t \in Tid, NextInvalid(t) PROVE PlaceInv'
  BY <1>12, PlaceKept DEF NextInvalid, TypeOK, Pc, HoldPc, FrontPc, NextPc, IdlePc
<1>13. ASSUME NEW t \in Tid, WakeUpIdleThreadExit(t) PROVE PlaceInv'
  BY <1>13, PlaceKept DEF WakeUpIdleThreadExit, EmptyScan, TypeOK, Pc, HoldPc, FrontPc, NextPc,
     IdlePc
<1>14. ASSUME NEW t \in Tid, WakeUpIdleThread(t) PROVE PlaceInv'
  <2>1. PICK i \in 1..Len(waitq) : Release(i, "0") BY <1>14 DEF WakeUpIdleThread
  <2>2. Moved(waitq[i], "0") BY <2>1, ReleaseMoves
  <2>3. ToSet(runq) \subseteq ToSet(runq') /\ ToSet(runq) \cup ToSet(waitq) \subseteq ToSet(runq') \cup ToSet(waitq')
    BY <2>2 DEF Moved
  <2> QED
    BY <1>14, <2>3, PlaceKept DEF WakeUpIdleThread, EmptyScan, TypeOK, HoldPc, FrontPc, NextPc,
       IdlePc
<1>15. ASSUME NEW t \in Tid, SignalIdle(t) PROVE PlaceInv'
  BY <1>15, PlaceKept DEF SignalIdle, TypeOK, Pc, HoldPc, FrontPc, NextPc, IdlePc
<1>16. ASSUME NEW t \in Tid, SkipHead(t) PROVE PlaceInv'
  <2>1. PICK h \in Tid : ToSet(runq') = ToSet(runq) \ {h} /\ status[h] = "INTER_PRO_STOP"
    BY <1>16, PopHead DEF SkipHead
  <2>2. pc[h] \in {"sys", "dead", "exited"} \/ (pc[h] \in NextPc /\ op[h] = "block")
    BY <2>1, StoppedPc
  <2>3. UNCHANGED <<pc, op, waitq, wakeTids>> BY <1>16 DEF SkipHead
  <2> QED BY <2>1, <2>2, <2>3 DEF PlaceInv, NextPc
<1>17. ASSUME NEW t \in Tid, PassTurn(t) PROVE PlaceInv'
  <2>1. pc[t] \in NextPc /\ op[t] \in NextOp BY <1>17 DEF PassTurn, ControlInv, NextPc
  <2>2. /\ \A v \in Tid \ {t} : pc'[v] = pc[v] /\ op'[v] = op[v]
        /\ pc'[t] = AfterNext(op[t])
    BY <1>17 DEF PassTurn, TypeOK
  <2>3. /\ pc'[t] \notin NextPc
        /\ op[t] \in {"block", "threadEnd"} => pc'[t] \in {"sys", "dead"}
    BY <2>1, <2>2 DEF AfterNext, NextOp, NextPc
  <2> QED BY <1>17, <2>1, <2>2, <2>3 DEF PassTurn, PlaceInv, NextPc
<1>18. ASSUME NEW t \in Tid, Block(t) PROVE PlaceInv'
  <2>1. t \in ToSet(runq) BY <1>18, FrontQueued DEF Block
  <2> QED BY <1>18, <2>1, PlaceKept DEF Block, TypeOK
<1>19. ASSUME NEW t \in Tid, Wakeup(t) PROVE PlaceInv'
  BY <1>19 DEF Wakeup, PlaceInv, TypeOK, NextPc
<1>20. ASSUME NEW t \in Tid, LockIdleMutex(t) PROVE PlaceInv'
  BY <1>20, PlaceKept DEF LockIdleMutex, TypeOK, Pc, HoldPc, FrontPc, NextPc, IdlePc
<1>21. ASSUME NEW t \in Tid, UnlockIdleMutex(t) PROVE PlaceInv'
  <2>1. (UNCHANGED queueVars) \/ (UNCHANGED status /\ \E w \in Tid : Moved(w, "0"))
    BY <1>21, SignalMoves DEF UnlockIdleMutex
  <2>2. ToSet(runq) \subseteq ToSet(runq') /\ ToSet(runq) \cup ToSet(waitq) \subseteq ToSet(runq') \cup ToSet(waitq')
    BY <2>1 DEF Moved
  <2> QED
    BY <1>21, <2>2, PlaceKept DEF UnlockIdleMutex, TypeOK, Pc, HoldPc, FrontPc, NextPc, IdlePc
<1>22. ASSUME NEW t \in Tid, IdleSleep(t) PROVE PlaceInv'
  BY <1>22, PlaceKept DEF IdleSleep, TypeOK, Pc, HoldPc, FrontPc, NextPc, IdlePc
<1>23. ASSUME NEW t \in Tid, IdleCondWait(t) PROVE PlaceInv'
  BY <1>23, PlaceKept DEF IdleCondWait, TypeOK, Pc, HoldPc, FrontPc, NextPc, IdlePc
<1>24. ASSUME NEW t \in Tid, IdleCheckRunq(t) PROVE PlaceInv'
  BY <1>24, PlaceKept, SMTT(60) DEF IdleCheckRunq, TypeOK, Pc, HoldPc, FrontPc, NextPc, IdlePc
<1>25. ASSUME NEW t \in Tid, TryPutTurn(t) PROVE PlaceInv'
  BY <1>25, PlaceKept DEF TryPutTurn, TypeOK, Pc, HoldPc, FrontPc, NextPc, IdlePc
<1>26. ASSUME NEW t \in Tid, TryPutTurnFail(t) PROVE PlaceInv'
  BY <1>26, PlaceKept DEF TryPutTurnFail, TypeOK, Pc, HoldPc, FrontPc, NextPc, IdlePc
<1>27. ASSUME NEW t \in Tid, CondSleep(t) PROVE PlaceInv'
  BY <1>27, PlaceKept DEF CondSleep, TypeOK, Pc, HoldPc, FrontPc, NextPc, IdlePc
<1>28. ASSUME NEW t \in Tid, CondReturn(t) PROVE PlaceInv'
  BY <1>28, PlaceKept DEF CondReturn, TypeOK, Pc, HoldPc, FrontPc, NextPc, IdlePc
<1>29. ASSUME NEW t \in Tid, Exit(t) PROVE PlaceInv'
  BY <1>29, PlaceKept DEF Exit, TypeOK, Pc, HoldPc, FrontPc, NextPc, IdlePc
<1>30. ASSUME SetIdleDone PROVE PlaceInv'
  BY <1>30, PlaceKept DEF SetIdleDone, TypeOK, Pc, HoldPc, FrontPc, NextPc, IdlePc
<1>31. ASSUME ProgEndSignal PROVE PlaceInv'
  <2>1. (UNCHANGED queueVars) \/ (UNCHANGED status /\ \E w \in Tid : Moved(w, "0"))
    BY <1>31, SignalMoves DEF ProgEndSignal
  <2>2. ToSet(runq) \subseteq ToSet(runq') /\ ToSet(runq) \cup ToSet(waitq) \subseteq ToSet(runq') \cup ToSet(waitq')
    BY <2>1 DEF Moved
  <2> QED
    BY <1>31, <2>2, PlaceKept DEF ProgEndSignal, TypeOK, Pc, HoldPc, FrontPc, NextPc, IdlePc
<1>32. ASSUME ProgEndRealSignal PROVE PlaceInv'
  BY <1>32, PlaceKept DEF ProgEndRealSignal, TypeOK, Pc, HoldPc, FrontPc, NextPc, IdlePc
<1>45. ASSUME ProgEndRealLock PROVE PlaceInv'
  BY <1>45, PlaceKept DEF ProgEndRealLock, TypeOK, Pc, HoldPc, FrontPc, NextPc, IdlePc
<1>46. ASSUME ProgEndRealUnlock PROVE PlaceInv'
  BY <1>46, PlaceKept DEF ProgEndRealUnlock, TypeOK, Pc, HoldPc, FrontPc, NextPc, IdlePc
<1>33. ASSUME ProgEndJoin PROVE PlaceInv'
  BY <1>33, PlaceKept DEF ProgEndJoin, TypeOK, Pc, HoldPc, FrontPc, NextPc, IdlePc
<1>34. ASSUME NEW t \in Tid, CallGetTurn(t) PROVE PlaceInv'
  BY <1>34, PlaceKept DEF CallGetTurn, TypeOK, Pc, HoldPc, FrontPc, NextPc, IdlePc
<1>35. ASSUME NEW t \in Tid, InterProStartStop(t) PROVE PlaceInv'
  BY <1>35, PlaceKept DEF InterProStartStop, CanBlock, TypeOK, Pc, HoldPc, FrontPc, NextPc,
     IdlePc
<1>36. ASSUME NEW t \in Tid, InterProStartHead(t) PROVE PlaceInv'
  BY <1>36, PlaceKept DEF InterProStartHead, CanBlock, TypeOK, Pc, HoldPc, FrontPc, NextPc,
     IdlePc
<1>37. ASSUME NEW t \in Tid, NEW c \in Chan, SyncSignal(t, c) PROVE PlaceInv'
  <2>1. (UNCHANGED queueVars) \/ (UNCHANGED status /\ \E w \in Tid : Moved(w, "0"))
    BY <1>37, SignalMoves DEF SyncSignal
  <2>2. ToSet(runq) \subseteq ToSet(runq') /\ ToSet(runq) \cup ToSet(waitq) \subseteq ToSet(runq') \cup ToSet(waitq')
    BY <2>1 DEF Moved
  <2> QED
    BY <1>37, <2>2, PlaceKept DEF SyncSignal, InApp, TypeOK, Pc, HoldPc, FrontPc, NextPc, IdlePc
<1>38. ASSUME NEW t \in Tid, Create(t) PROVE PlaceInv'
  <2>1. nthread \in Tid /\ runq \in Seq(Tid) BY <1>38 DEF Create, TypeOK
  <2>2. ToSet(runq') = ToSet(runq) \cup {nthread} BY <1>38, <2>1, AppendProps DEF Create
  <2>3. pc[t] = "turn" /\ t \in ToSet(runq) BY <1>38, FrontQueued DEF Create, InApp, FrontPc
  <2>4. \A v \in Tid \ {t, nthread} : pc'[v] = pc[v] /\ op'[v] = op[v] BY <1>38, <2>1 DEF Create, TypeOK
  <2> QED BY <1>38, <2>2, <2>3, <2>4, PlaceKept DEF Create
<1>39. ASSUME NEW t \in Tid, FakeEnd(t) PROVE PlaceInv'
  BY <1>39, PlaceKept DEF FakeEnd, InApp, TypeOK, Pc, HoldPc, FrontPc, NextPc, IdlePc
<1>40. ASSUME NEW t \in Tid, EndOp(t) PROVE PlaceInv'
  BY <1>40, PlaceKept DEF EndOp, InApp, TypeOK, Pc, HoldPc, FrontPc, NextPc, IdlePc
<1>41. ASSUME NEW t \in Tid, InterProEnd(t) PROVE PlaceInv'
  BY <1>41, PlaceKept DEF InterProEnd, TypeOK, Pc, HoldPc, FrontPc, NextPc, IdlePc
<1>42. ASSUME NEW t \in Tid, CondSpurious(t) PROVE PlaceInv'
  BY <1>42, PlaceKept DEF CondSpurious, TypeOK, Pc, HoldPc, FrontPc, NextPc, IdlePc
<1>43. ASSUME ProgEnd PROVE PlaceInv'
  BY <1>43, PlaceKept DEF ProgEnd, TypeOK, Pc, HoldPc, FrontPc, NextPc, IdlePc
<1>44. CASE UNCHANGED vars
  BY <1>44 DEF vars, PlaceInv
<1> QED
  BY <1>1, <1>2, <1>3, <1>4, <1>5, <1>6, <1>7, <1>8, <1>9, <1>10, <1>11, <1>12,
     <1>13, <1>14, <1>15, <1>16, <1>17, <1>18, <1>19, <1>20, <1>21, <1>22, <1>23,
     <1>24, <1>25, <1>26, <1>27, <1>28, <1>29, <1>30, <1>31, <1>32, <1>33, <1>34,
     <1>35, <1>36, <1>37, <1>38, <1>39, <1>40, <1>41, <1>42, <1>43, <1>44, <1>45, <1>46
  DEF Next, SchedulerStep, IdleStep, MainStep, AppStep, EnvStep

\* After a release every waiter left was one before, and the last one alone may have
\* been the last one.
LEMMA ReleaseShifts ==
  ASSUME TypeOK, NEW k \in 1..Len(waitq), NEW st, Release(k, st),
         NEW j \in 1..Len(waitq')
  PROVE  \E i \in 1..Len(waitq) :
           /\ waitq'[j] = waitq[i] /\ waitq[i] \in Tid
           /\ j < Len(waitq') => i < Len(waitq)
           /\ timeout'[waitq[i]] = timeout[waitq[i]] \/ timeout'[waitq[i]] = Forever
<1>1. waitq \in Seq(Tid) /\ waitq' = RemoveAt(waitq, k) BY DEF TypeOK, Release
<1>2. /\ Len(waitq') = Len(waitq) - 1 /\ Len(waitq) \in Nat
      /\ \A n \in 1..(Len(waitq) - 1) : waitq'[n] = IF n < k THEN waitq[n] ELSE waitq[n + 1]
  BY <1>1, RemoveAtIndex
<1>3. \A i \in 1..Len(waitq) : waitq[i] \in Tid BY <1>1, InToSet
<1>4. timeout' = [timeout EXCEPT ![waitq[k]] = Forever] BY DEF Release
<1>5. \A x \in Tid : timeout'[x] = timeout[x] \/ timeout'[x] = Forever BY <1>3, <1>4 DEF TypeOK
<1>6. CASE j < k
  <2>1. j \in 1..Len(waitq) /\ waitq'[j] = waitq[j] /\ (j < Len(waitq') => j < Len(waitq)) BY <1>2, <1>6
  <2> QED BY <2>1, <1>3, <1>5
<1>7. CASE ~(j < k)
  <2>1. j + 1 \in 1..Len(waitq) /\ waitq'[j] = waitq[j + 1] /\ (j < Len(waitq') => j + 1 < Len(waitq))
    BY <1>2, <1>7
  <2> QED BY <2>1, <1>3, <1>5
<1> QED BY <1>6, <1>7

\* A release makes no waiter late.
LEMMA DeadlineKept ==
  ASSUME TypeOK, DeadlineInv,
         \/ UNCHANGED <<waitq, timeout>>
         \/ \E k \in 1..Len(waitq) : \E st \in {"0", "ETIMEDOUT"} : Release(k, st),
         (\A v \in Tid : pc'[v] # "fire") => \A v \in Tid : pc[v] # "fire",
         \A v \in Tid : pc'[v] \in FiredPc => pc[v] \in FiredPc
  PROVE  DeadlineInv'
<1>1. CASE UNCHANGED <<waitq, timeout>> BY <1>1 DEF DeadlineInv, NoOverdueWaiter
<1>2. ASSUME NEW k \in 1..Len(waitq), NEW st, Release(k, st) PROVE DeadlineInv'
  <2>1. NoOverdueWaiter'
    <3> SUFFICES ASSUME \A v \in Tid : pc'[v] # "fire", NEW j \in 1..Len(waitq'), j < Len(waitq')
                 PROVE  timeout'[waitq'[j]] >= 0
      BY DEF NoOverdueWaiter
    <3>1. PICK i \in 1..Len(waitq) :
            /\ waitq'[j] = waitq[i] /\ waitq[i] \in Tid
            /\ i < Len(waitq)
            /\ timeout'[waitq[i]] = timeout[waitq[i]] \/ timeout'[waitq[i]] = Forever
      BY <1>2, ReleaseShifts
    <3>2. timeout[waitq[i]] >= 0 BY <3>1 DEF DeadlineInv, NoOverdueWaiter
    <3> QED BY <3>1, <3>2, TimeAssumption
  <2>2. ASSUME NEW t \in Tid, pc'[t] \in FiredPc, NEW j \in 1..Len(waitq')
        PROVE  timeout'[waitq'[j]] >= 0
    <3>1. PICK i \in 1..Len(waitq) :
            /\ waitq'[j] = waitq[i] /\ waitq[i] \in Tid
            /\ timeout'[waitq[i]] = timeout[waitq[i]] \/ timeout'[waitq[i]] = Forever
      BY <1>2, ReleaseShifts
    <3>2. timeout[waitq[i]] >= 0 BY <2>2, <3>1 DEF DeadlineInv
    <3> QED BY <3>1, <3>2, TimeAssumption
  <2> QED BY <2>1, <2>2 DEF DeadlineInv
<1> QED BY <1>1, <1>2

\* While one thread has the turn, no other one is in the scheduler.
LEMMA OnlyHolder ==
  ASSUME OneTurn, NEW t \in Tid, pc[t] \in HoldPc
  PROVE  (\A v \in Tid \ {t} : pc[v] \notin HoldPc) /\ \A v \in Tid : ~wakenUp[v]
  BY DEF OneTurn, HasTurn

\* Only wait() itself can make a waiter late, and only the thread that calls it.
LEMMA DeadlineStep == ASSUME IInv, DeadlineInv, [Next]_vars PROVE DeadlineInv'
<1> USE TidFacts DEF IInv, Goto, Begin, NextPhase, queueVars, wakeVars, idleVars
<1>1. ASSUME NEW t \in Tid, GetTurn(t) PROVE DeadlineInv'
  BY <1>1, DeadlineKept DEF GetTurn, TypeOK, FiredPc
<1>2. ASSUME NEW t \in Tid, IncTurnCount(t) PROVE DeadlineInv'
  <2>1. \A v \in Tid \ {t} : pc[v] \notin HoldPc BY <1>2, OnlyHolder DEF IncTurnCount, HoldPc, FrontPc
  <2>2. pc'[t] = "fire" /\ \A v \in Tid \ {t} : pc'[v] = pc[v] BY <1>2 DEF IncTurnCount, TypeOK
  <2>3. \A v \in Tid : pc'[v] \notin FiredPc BY <2>1, <2>2 DEF FiredPc, HoldPc, FrontPc
  <2> QED BY <2>2, <2>3 DEF DeadlineInv, NoOverdueWaiter
<1>3. ASSUME NEW t \in Tid, FireTimeout(t) PROVE DeadlineInv'
  <2>1. \/ UNCHANGED <<waitq, timeout>>
        \/ \E k \in 1..Len(waitq) : \E st \in {"0", "ETIMEDOUT"} : Release(k, st)
    BY <1>3 DEF FireTimeout
  <2> QED BY <1>3, <2>1, DeadlineKept DEF FireTimeout
<1>4. ASSUME NEW t \in Tid, FireDone(t) PROVE DeadlineInv'
  <2>1. \A i \in 1..Len(waitq) : timeout[waitq[i]] >= 0
    <3>1. \A i \in 1..Len(waitq) : waitq[i] \in Tid /\ waitq[i] \notin Expired BY <1>4, InToSet DEF FireDone, NoneIn, TypeOK
    <3>2. \A x \in Tid : timeout[x] \in Int BY DEF TypeOK
    <3>3. \A x \in Tid : x \notin Expired => timeout[x] >= 0 BY <3>2 DEF Expired
    <3> QED BY <3>1, <3>3
  <2> QED BY <1>4, <2>1 DEF FireDone, DeadlineInv, NoOverdueWaiter
<1>5. ASSUME NEW t \in Tid, CheckWakeupFlag(t) PROVE DeadlineInv'
  <2>1. pc[t] \in {"inc_check", "inc_wake"} \/ pc'[t] \in NextPc BY <1>5 DEF CheckWakeupFlag, TypeOK, NextPc
  <2>2. pc'[t] \in FiredPc => pc[t] \in FiredPc BY <2>1 DEF FiredPc, NextPc
  <2>3. \A v \in Tid \ {t} : pc'[v] = pc[v] BY <1>5 DEF CheckWakeupFlag, TypeOK
  <2>4. pc[t] # "fire" BY <1>5 DEF CheckWakeupFlag
  <2> QED BY <1>5, <2>2, <2>3, <2>4, DeadlineKept DEF CheckWakeupFlag
<1>6. ASSUME NEW t \in Tid, NEW u \in wakeTids, CheckWakeupOne(t, u) PROVE DeadlineInv'
  BY <1>6, DeadlineKept DEF CheckWakeupOne, TypeOK, FiredPc
<1>7. ASSUME NEW t \in Tid, CheckWakeupDone(t) PROVE DeadlineInv'
  <2>1. pc[t] \in {"inc_check", "inc_wake"} \/ pc'[t] \in NextPc BY <1>7 DEF CheckWakeupDone, TypeOK, NextPc
  <2>2. pc'[t] \in FiredPc => pc[t] \in FiredPc BY <2>1 DEF FiredPc, NextPc
  <2>3. \A v \in Tid \ {t} : pc'[v] = pc[v] BY <1>7 DEF CheckWakeupDone, TypeOK
  <2>4. pc[t] # "fire" BY <1>7 DEF CheckWakeupDone
  <2> QED BY <1>7, <2>2, <2>3, <2>4, DeadlineKept DEF CheckWakeupDone
<1>8. ASSUME NEW t \in Tid, Leave(t) PROVE DeadlineInv'
  BY <1>8, DeadlineKept DEF Leave, LeaveFront, TypeOK, FiredPc
<1>9. ASSUME NEW t \in Tid, PutTurn(t) PROVE DeadlineInv'
  BY <1>9, DeadlineKept DEF PutTurn, TypeOK, FiredPc
<1>10. ASSUME NEW t \in Tid, ThreadEnd(t) PROVE DeadlineInv'
  <2>1. \/ UNCHANGED <<waitq, timeout>>
        \/ \E k \in 1..Len(waitq) : \E st \in {"0", "ETIMEDOUT"} : Release(k, st)
    BY <1>10 DEF ThreadEnd, signal
  <2> QED
    BY <1>10, <2>1, DeadlineKept DEF ThreadEnd, TypeOK, FiredPc
<1>11. ASSUME NEW t \in Tid, Wait(t) PROVE DeadlineInv'
  <2>1. pc[t] \in HoldPc /\ pc[t] \in FiredPc BY <1>11 DEF Wait, HoldPc, FrontPc, FiredPc
  <2>2. \A v \in Tid \ {t} : pc[v] \notin HoldPc BY <2>1, OnlyHolder
  <2>3. pc'[t] = "next_check" /\ \A v \in Tid \ {t} : pc'[v] = pc[v] BY <1>11 DEF Wait, LeaveFront, TypeOK
  <2>4. \A v \in Tid : pc'[v] \notin FiredPc BY <2>2, <2>3 DEF FiredPc, HoldPc, FrontPc
  <2>5. waitq \in Seq(Tid) /\ waitq' = Append(waitq, t) BY <1>11 DEF Wait, TypeOK
  <2>6. \A x \in Tid \ {t} : timeout'[x] = timeout[x] BY <1>11 DEF Wait, TypeOK
  <2>7. t \notin ToSet(waitq) BY <1>11, FrontQueued DEF Wait, QueueInv, FrontPc
  <2>8. ASSUME NEW i \in 1..Len(waitq'), i < Len(waitq') PROVE timeout'[waitq'[i]] >= 0
    <3>1. i \in 1..Len(waitq) /\ waitq'[i] = waitq[i] BY <2>5, <2>8
    <3>2. waitq[i] \in Tid \ {t} BY <2>5, <2>7, <3>1, InToSet
    <3>3. timeout[waitq[i]] >= 0 BY <2>1, <3>1 DEF DeadlineInv
    <3> QED BY <2>6, <3>1, <3>2, <3>3
  <2> QED BY <2>4, <2>8 DEF DeadlineInv, NoOverdueWaiter
<1>12. ASSUME NEW t \in Tid, NextInvalid(t) PROVE DeadlineInv'
  BY <1>12, DeadlineKept DEF NextInvalid, TypeOK, FiredPc
<1>13. ASSUME NEW t \in Tid, WakeUpIdleThreadExit(t) PROVE DeadlineInv'
  BY <1>13, DeadlineKept DEF WakeUpIdleThreadExit, EmptyScan, TypeOK, FiredPc
<1>14. ASSUME NEW t \in Tid, WakeUpIdleThread(t) PROVE DeadlineInv'
  <2>1. \/ UNCHANGED <<waitq, timeout>>
        \/ \E k \in 1..Len(waitq) : \E st \in {"0", "ETIMEDOUT"} : Release(k, st)
    BY <1>14 DEF WakeUpIdleThread
  <2> QED BY <1>14, <2>1, DeadlineKept DEF WakeUpIdleThread, EmptyScan, TypeOK, FiredPc
<1>15. ASSUME NEW t \in Tid, SignalIdle(t) PROVE DeadlineInv'
  BY <1>15, DeadlineKept DEF SignalIdle, TypeOK, FiredPc
<1>16. ASSUME NEW t \in Tid, SkipHead(t) PROVE DeadlineInv'
  BY <1>16, DeadlineKept DEF SkipHead, TypeOK, FiredPc
<1>17. ASSUME NEW t \in Tid, PassTurn(t) PROVE DeadlineInv'
  <2>1. pc[t] = "scan" /\ op[t] \in NextOp BY <1>17 DEF PassTurn, ControlInv, NextPc
  <2>2. pc'[t] \notin FiredPc /\ pc'[t] # "fire" BY <1>17, <2>1 DEF PassTurn, TypeOK, AfterNext, NextOp, FiredPc
  <2>3. \A v \in Tid \ {t} : pc'[v] = pc[v] BY <1>17 DEF PassTurn, TypeOK
  <2> QED BY <1>17, <2>1, <2>2, <2>3, DeadlineKept DEF PassTurn
<1>18. ASSUME NEW t \in Tid, Block(t) PROVE DeadlineInv'
  BY <1>18, DeadlineKept DEF Block, TypeOK, FiredPc
<1>19. ASSUME NEW t \in Tid, Wakeup(t) PROVE DeadlineInv'
  BY <1>19, DeadlineKept DEF Wakeup, TypeOK, FiredPc
<1>20. ASSUME NEW t \in Tid, LockIdleMutex(t) PROVE DeadlineInv'
  BY <1>20, DeadlineKept, ZenonT(60) DEF LockIdleMutex, TypeOK, FiredPc
<1>21. ASSUME NEW t \in Tid, UnlockIdleMutex(t) PROVE DeadlineInv'
  <2>1. \/ UNCHANGED <<waitq, timeout>>
        \/ \E k \in 1..Len(waitq) : \E st \in {"0", "ETIMEDOUT"} : Release(k, st)
    BY <1>21 DEF UnlockIdleMutex, signal
  <2> QED
    BY <1>21, <2>1, DeadlineKept DEF UnlockIdleMutex, TypeOK, FiredPc
<1>22. ASSUME NEW t \in Tid, IdleSleep(t) PROVE DeadlineInv'
  BY <1>22, DeadlineKept DEF IdleSleep, TypeOK, FiredPc
<1>23. ASSUME NEW t \in Tid, IdleCondWait(t) PROVE DeadlineInv'
  BY <1>23, DeadlineKept DEF IdleCondWait, TypeOK, FiredPc
<1>24. ASSUME NEW t \in Tid, IdleCheckRunq(t) PROVE DeadlineInv'
  BY <1>24, DeadlineKept DEF IdleCheckRunq, TypeOK, FiredPc
<1>25. ASSUME NEW t \in Tid, TryPutTurn(t) PROVE DeadlineInv'
  BY <1>25, DeadlineKept DEF TryPutTurn, TypeOK, FiredPc
<1>26. ASSUME NEW t \in Tid, TryPutTurnFail(t) PROVE DeadlineInv'
  BY <1>26, DeadlineKept DEF TryPutTurnFail, TypeOK, FiredPc
<1>27. ASSUME NEW t \in Tid, CondSleep(t) PROVE DeadlineInv'
  BY <1>27, DeadlineKept DEF CondSleep, TypeOK, FiredPc
<1>28. ASSUME NEW t \in Tid, CondReturn(t) PROVE DeadlineInv'
  BY <1>28, DeadlineKept DEF CondReturn, TypeOK, FiredPc
<1>29. ASSUME NEW t \in Tid, Exit(t) PROVE DeadlineInv'
  BY <1>29, DeadlineKept DEF Exit, TypeOK, FiredPc
<1>30. ASSUME SetIdleDone PROVE DeadlineInv'
  BY <1>30, DeadlineKept DEF SetIdleDone, TypeOK, FiredPc
<1>31. ASSUME ProgEndSignal PROVE DeadlineInv'
  <2>1. \/ UNCHANGED <<waitq, timeout>>
        \/ \E k \in 1..Len(waitq) : \E st \in {"0", "ETIMEDOUT"} : Release(k, st)
    BY <1>31 DEF ProgEndSignal, signal
  <2> QED
    BY <1>31, <2>1, DeadlineKept DEF ProgEndSignal, TypeOK, FiredPc
<1>32. ASSUME ProgEndRealSignal PROVE DeadlineInv'
  BY <1>32, DeadlineKept DEF ProgEndRealSignal, TypeOK, FiredPc
<1>45. ASSUME ProgEndRealLock PROVE DeadlineInv'
  BY <1>45, DeadlineKept DEF ProgEndRealLock, TypeOK, FiredPc
<1>46. ASSUME ProgEndRealUnlock PROVE DeadlineInv'
  BY <1>46, DeadlineKept DEF ProgEndRealUnlock, TypeOK, FiredPc
<1>33. ASSUME ProgEndJoin PROVE DeadlineInv'
  BY <1>33, DeadlineKept, ZenonT(60) DEF ProgEndJoin, TypeOK, FiredPc
<1>34. ASSUME NEW t \in Tid, CallGetTurn(t) PROVE DeadlineInv'
  BY <1>34, DeadlineKept DEF CallGetTurn, TypeOK, FiredPc
<1>35. ASSUME NEW t \in Tid, InterProStartStop(t) PROVE DeadlineInv'
  BY <1>35, DeadlineKept DEF InterProStartStop, CanBlock, TypeOK, FiredPc
<1>36. ASSUME NEW t \in Tid, InterProStartHead(t) PROVE DeadlineInv'
  BY <1>36, DeadlineKept DEF InterProStartHead, CanBlock, TypeOK, FiredPc
<1>37. ASSUME NEW t \in Tid, NEW c \in Chan, SyncSignal(t, c) PROVE DeadlineInv'
  <2>1. \/ UNCHANGED <<waitq, timeout>>
        \/ \E k \in 1..Len(waitq) : \E st \in {"0", "ETIMEDOUT"} : Release(k, st)
    BY <1>37 DEF SyncSignal, signal
  <2> QED
    BY <1>37, <2>1, DeadlineKept DEF SyncSignal, InApp, TypeOK, FiredPc
<1>38. ASSUME NEW t \in Tid, Create(t) PROVE DeadlineInv'
  <2>1. nthread \in Tid /\ pc[t] = "turn" /\ pc[nthread] = "none" BY <1>38 DEF Create, InApp, TypeOK, ControlInv
  <2> QED BY <1>38, <2>1, DeadlineKept DEF Create, TypeOK, FiredPc
<1>39. ASSUME NEW t \in Tid, FakeEnd(t) PROVE DeadlineInv'
  BY <1>39, DeadlineKept DEF FakeEnd, InApp, TypeOK, FiredPc
<1>40. ASSUME NEW t \in Tid, EndOp(t) PROVE DeadlineInv'
  BY <1>40, DeadlineKept DEF EndOp, InApp, TypeOK, FiredPc
<1>41. ASSUME NEW t \in Tid, InterProEnd(t) PROVE DeadlineInv'
  BY <1>41, DeadlineKept DEF InterProEnd, TypeOK, FiredPc
<1>42. ASSUME NEW t \in Tid, CondSpurious(t) PROVE DeadlineInv'
  BY <1>42, DeadlineKept DEF CondSpurious, TypeOK, FiredPc
<1>43. ASSUME ProgEnd PROVE DeadlineInv'
  BY <1>43, DeadlineKept DEF ProgEnd, TypeOK, FiredPc
<1>44. CASE UNCHANGED vars
  BY <1>44 DEF vars, DeadlineInv, NoOverdueWaiter
<1> QED
  BY <1>1, <1>2, <1>3, <1>4, <1>5, <1>6, <1>7, <1>8, <1>9, <1>10, <1>11, <1>12,
     <1>13, <1>14, <1>15, <1>16, <1>17, <1>18, <1>19, <1>20, <1>21, <1>22, <1>23,
     <1>24, <1>25, <1>26, <1>27, <1>28, <1>29, <1>30, <1>31, <1>32, <1>33, <1>34,
     <1>35, <1>36, <1>37, <1>38, <1>39, <1>40, <1>41, <1>42, <1>43, <1>44, <1>45, <1>46
  DEF Next, SchedulerStep, IdleStep, MainStep, AppStep, EnvStep

\* A thread other than main exists only after __tern_prog_begin created the idle thread.
LEMMA LaunchedBy ==
  ASSUME TypeOK, ControlInv, NEW t \in Tid, t # MainThreadTid, pc[t] # "none"
  PROVE  Launched
<1>1. t < nthread /\ t >= 1 /\ nthread \in Int /\ t \in Int
  BY ThreadAssumption DEF ControlInv, TypeOK, Tid, MainThreadTid
<1> QED BY <1>1 DEF Launched, IdleThreadTid

\* __tern_prog_end() makes no blocking call and goes through its phases in order.
LEMMA MainControlStep == ASSUME FullInv, [Next]_vars PROVE MainControl'
<1> USE TidFacts DEF IInv, FullInv, Goto, RealPhase, Begin, NextPhase, queueVars, wakeVars, idleVars
<1>1. ASSUME NEW t \in Tid, GetTurn(t) PROVE MainControl'
  BY <1>1 DEF GetTurn, MainControl, Launched, TypeOK
<1>2. ASSUME NEW t \in Tid, IncTurnCount(t) PROVE MainControl'
  BY <1>2 DEF IncTurnCount, MainControl, Launched, TypeOK
<1>3. ASSUME NEW t \in Tid, FireTimeout(t) PROVE MainControl'
  BY <1>3 DEF FireTimeout, MainControl, Launched, TypeOK
<1>4. ASSUME NEW t \in Tid, FireDone(t) PROVE MainControl'
  BY <1>4 DEF FireDone, MainControl, Launched, TypeOK
<1>5. ASSUME NEW t \in Tid, CheckWakeupFlag(t) PROVE MainControl'
  <2>1. /\ pc[t] # "dead" /\ pc'[t] \notin {"blockTurn", "sys", "wakeup"}
        /\ \A v \in Tid \ {t} : pc'[v] = pc[v]
    BY <1>5 DEF CheckWakeupFlag, TypeOK, AfterInc, ControlInv, Op, NextOp
  <2> QED BY <1>5, <2>1 DEF CheckWakeupFlag, MainControl, Launched
<1>6. ASSUME NEW t \in Tid, NEW u \in wakeTids, CheckWakeupOne(t, u) PROVE MainControl'
  BY <1>6 DEF CheckWakeupOne, MainControl, Launched, TypeOK
<1>7. ASSUME NEW t \in Tid, CheckWakeupDone(t) PROVE MainControl'
  <2>1. /\ pc[t] # "dead" /\ pc'[t] \notin {"blockTurn", "sys", "wakeup"}
        /\ \A v \in Tid \ {t} : pc'[v] = pc[v]
    BY <1>7 DEF CheckWakeupDone, TypeOK, AfterInc, ControlInv, Op, NextOp
  <2> QED BY <1>7, <2>1 DEF CheckWakeupDone, MainControl, Launched
<1>8. ASSUME NEW t \in Tid, Leave(t) PROVE MainControl'
  BY <1>8 DEF Leave, LeaveFront, MainControl, Launched, TypeOK, StatusOnLeave, StatusInv,
     StatusAt, FrontPc
<1>9. ASSUME NEW t \in Tid, PutTurn(t) PROVE MainControl'
  BY <1>9 DEF PutTurn, MainControl, Launched, TypeOK
<1>10. ASSUME NEW t \in Tid, ThreadEnd(t) PROVE MainControl'
  <2>1. (UNCHANGED queueVars) \/ (UNCHANGED status /\ \E w \in Tid : Moved(w, "0"))
    BY <1>10, SignalMoves DEF ThreadEnd
  <2>2. UNCHANGED status BY <2>1
  <2> QED
    BY <1>10, <2>2 DEF ThreadEnd, MainControl, Launched, TypeOK
<1>11. ASSUME NEW t \in Tid, Wait(t) PROVE MainControl'
  BY <1>11 DEF Wait, LeaveFront, MainControl, Launched, TypeOK, StatusOnLeave, StatusInv,
     StatusAt, FrontPc
<1>12. ASSUME NEW t \in Tid, NextInvalid(t) PROVE MainControl'
  BY <1>12 DEF NextInvalid, MainControl, Launched, TypeOK
<1>13. ASSUME NEW t \in Tid, WakeUpIdleThreadExit(t) PROVE MainControl'
  BY <1>13 DEF WakeUpIdleThreadExit, EmptyScan, MainControl, Launched, TypeOK
<1>14. ASSUME NEW t \in Tid, WakeUpIdleThread(t) PROVE MainControl'
  BY <1>14 DEF WakeUpIdleThread, EmptyScan, MainControl, Launched, TypeOK
<1>15. ASSUME NEW t \in Tid, SignalIdle(t) PROVE MainControl'
  BY <1>15 DEF SignalIdle, MainControl, Launched, TypeOK
<1>16. ASSUME NEW t \in Tid, SkipHead(t) PROVE MainControl'
  BY <1>16 DEF SkipHead, MainControl, Launched, TypeOK
<1>17. ASSUME NEW t \in Tid, PassTurn(t) PROVE MainControl'
  <2>1. pc[t] = "scan" /\ op[t] \in NextOp BY <1>17 DEF PassTurn, ControlInv, NextPc
  <2>2. /\ \A v \in Tid \ {t} : pc'[v] = pc[v] /\ op'[v] = op[v]
        /\ op'[t] = "none" /\ pc'[t] = AfterNext(op[t])
    BY <1>17 DEF PassTurn, TypeOK
  <2>3. pc'[t] \notin {"wakeup", "blockTurn"} /\ (pc'[t] = "sys" => op[t] = "block")
    BY <2>1, <2>2 DEF AfterNext, NextOp
  <2>4. \A v \in Tid : status[v] # "INTER_PRO_STOP" => status'[v] # "INTER_PRO_STOP"
    <3>1. Head(runq) \in Tid BY <1>17, PopHead DEF PassTurn
    <3> QED BY <1>17, <3>1 DEF PassTurn, TypeOK
  <2>5. UNCHANGED <<nthread, phase>> BY <1>17 DEF PassTurn
  <2> QED BY <2>1, <2>2, <2>3, <2>4, <2>5 DEF MainControl, Launched
<1>18. ASSUME NEW t \in Tid, Block(t) PROVE MainControl'
  BY <1>18 DEF Block, MainControl, Launched, TypeOK
<1>19. ASSUME NEW t \in Tid, Wakeup(t) PROVE MainControl'
  BY <1>19 DEF Wakeup, MainControl, Launched, TypeOK
<1>20. ASSUME NEW t \in Tid, LockIdleMutex(t) PROVE MainControl'
  <2>1. pc[t] = "turn" /\ phase[t] = "lock" BY <1>20 DEF LockIdleMutex
  <2>2. Launched BY <2>1, LaunchedBy DEF MainControl
  <2>3. /\ \A v \in Tid \ {t} : pc'[v] = pc[v] /\ op'[v] = op[v] /\ phase'[v] = phase[v]
        /\ pc'[t] = "inc" /\ op'[t] \in {"putTurn", "wait"} /\ phase'[t] \in {"set", "break", "condWait", "lock"}
        /\ op'[t] = "wait" => phase'[t] = "lock"
    BY <1>20 DEF LockIdleMutex, TypeOK
  <2>4. UNCHANGED <<status, nthread>> BY <1>20 DEF LockIdleMutex
  <2> QED BY <2>1, <2>2, <2>3, <2>4 DEF MainControl, Launched
<1>21. ASSUME NEW t \in Tid, UnlockIdleMutex(t) PROVE MainControl'
  <2>1. UNCHANGED status BY <1>21, SignalMoves DEF UnlockIdleMutex
  <2>2. pc[t] = "turn" /\ phase[t] \in {"unlock", "break"} BY <1>21 DEF UnlockIdleMutex
  <2>3. /\ \A v \in Tid \ {t} : pc'[v] = pc[v] /\ op'[v] = op[v] /\ phase'[v] = phase[v]
        /\ pc'[t] = "inc" /\ op'[t] = "putTurn"
        /\ t = MainThreadTid => phase'[t] = "signal"
    BY <1>21 DEF UnlockIdleMutex, TypeOK, ControlInv, MainPhase
  <2>4. UNCHANGED nthread BY <1>21 DEF UnlockIdleMutex
  <2> QED BY <2>1, <2>2, <2>3, <2>4 DEF MainControl, Launched
<1>22. ASSUME NEW t \in Tid, IdleSleep(t) PROVE MainControl'
  BY <1>22 DEF IdleSleep, MainControl, Launched, TypeOK
<1>23. ASSUME NEW t \in Tid, IdleCondWait(t) PROVE MainControl'
  BY <1>23 DEF IdleCondWait, MainControl, Launched, TypeOK
<1>24. ASSUME NEW t \in Tid, IdleCheckRunq(t) PROVE MainControl'
  BY <1>24 DEF IdleCheckRunq, MainControl, Launched, TypeOK
<1>25. ASSUME NEW t \in Tid, TryPutTurn(t) PROVE MainControl'
  BY <1>25 DEF TryPutTurn, MainControl, Launched, TypeOK
<1>26. ASSUME NEW t \in Tid, TryPutTurnFail(t) PROVE MainControl'
  BY <1>26 DEF TryPutTurnFail, MainControl, Launched, TypeOK
<1>27. ASSUME NEW t \in Tid, CondSleep(t) PROVE MainControl'
  BY <1>27 DEF CondSleep, MainControl, Launched, TypeOK
<1>28. ASSUME NEW t \in Tid, CondReturn(t) PROVE MainControl'
  BY <1>28 DEF CondReturn, MainControl, Launched, TypeOK
<1>29. ASSUME NEW t \in Tid, Exit(t) PROVE MainControl'
  <2>1. pc[t] = "turn" /\ phase[t] = "exit" BY <1>29 DEF Exit
  <2>2. Launched BY <2>1, LaunchedBy DEF MainControl
  <2> QED BY <1>29, <2>1, <2>2 DEF Exit, MainControl, Launched, TypeOK
<1>30. ASSUME SetIdleDone PROVE MainControl'
  BY <1>30 DEF SetIdleDone, MainControl, Launched, TypeOK
<1>31. ASSUME ProgEndSignal PROVE MainControl'
  <2>1. (UNCHANGED queueVars) \/ (UNCHANGED status /\ \E w \in Tid : Moved(w, "0"))
    BY <1>31, SignalMoves DEF ProgEndSignal
  <2>2. UNCHANGED status BY <2>1
  <2> QED
    BY <1>31, <2>2 DEF ProgEndSignal, MainControl, Launched, TypeOK
<1>32. ASSUME ProgEndRealSignal PROVE MainControl'
  BY <1>32 DEF ProgEndRealSignal, MainControl, Launched, TypeOK
<1>45. ASSUME ProgEndRealLock PROVE MainControl'
  BY <1>45 DEF ProgEndRealLock, MainControl, Launched, TypeOK
<1>46. ASSUME ProgEndRealUnlock PROVE MainControl'
  BY <1>46 DEF ProgEndRealUnlock, MainControl, Launched, TypeOK
<1>33. ASSUME ProgEndJoin PROVE MainControl'
  <2>1. /\ \A v \in Tid \ {MainThreadTid} : pc'[v] = pc[v] /\ op'[v] = op[v]
        /\ pc'[MainThreadTid] = "inc"
        /\ \/ op'[MainThreadTid] = "wait" /\ phase' = phase
           \/ op'[MainThreadTid] = "putTurn" /\ phase'[MainThreadTid] = "exit" /\ pc[IdleThreadTid] = "dead"
        /\ phase[MainThreadTid] = "join" /\ UNCHANGED <<status, nthread>>
    BY <1>33 DEF ProgEndJoin, TypeOK, Zombie
  <2> QED BY <2>1 DEF MainControl, Launched
<1>34. ASSUME NEW t \in Tid, CallGetTurn(t) PROVE MainControl'
  BY <1>34 DEF CallGetTurn, MainControl, Launched, TypeOK
<1>35. ASSUME NEW t \in Tid, InterProStartStop(t) PROVE MainControl'
  BY <1>35 DEF InterProStartStop, CanBlock, MainControl, Launched, TypeOK
<1>36. ASSUME NEW t \in Tid, InterProStartHead(t) PROVE MainControl'
  BY <1>36 DEF InterProStartHead, CanBlock, MainControl, Launched, TypeOK
<1>37. ASSUME NEW t \in Tid, NEW c \in Chan, SyncSignal(t, c) PROVE MainControl'
  <2>1. (UNCHANGED queueVars) \/ (UNCHANGED status /\ \E w \in Tid : Moved(w, "0"))
    BY <1>37, SignalMoves DEF SyncSignal
  <2>2. UNCHANGED status BY <2>1
  <2> QED
    BY <1>37, <2>2 DEF SyncSignal, InApp, MainControl, Launched, TypeOK
<1>38. ASSUME NEW t \in Tid, Create(t) PROVE MainControl'
  BY <1>38 DEF Create, InApp, MainControl, Launched, TypeOK
<1>39. ASSUME NEW t \in Tid, FakeEnd(t) PROVE MainControl'
  BY <1>39 DEF FakeEnd, InApp, MainControl, Launched, TypeOK
<1>40. ASSUME NEW t \in Tid, EndOp(t) PROVE MainControl'
  <2>1. pc[t] = "turn" /\ phase[t] = "app" BY <1>40 DEF EndOp, InApp
  <2>2. /\ \A v \in Tid \ {t} : pc'[v] = pc[v] /\ op'[v] = op[v]
        /\ pc'[t] = "inc" /\ UNCHANGED <<status, nthread, phase>>
        /\ \/ op'[t] = "putTurn"
           \/ op'[t] = "wait" /\ Launched
           \/ op'[t] = "threadEnd" /\ t # MainThreadTid
    BY <1>40 DEF EndOp, TypeOK
  <2>3. t # MainThreadTid => Launched BY <2>1, LaunchedBy
  <2> QED BY <2>1, <2>2, <2>3 DEF MainControl, Launched
<1>41. ASSUME NEW t \in Tid, InterProEnd(t) PROVE MainControl'
  BY <1>41 DEF InterProEnd, MainControl, Launched, TypeOK
<1>42. ASSUME NEW t \in Tid, CondSpurious(t) PROVE MainControl'
  BY <1>42 DEF CondSpurious, MainControl, Launched, TypeOK
<1>43. ASSUME ProgEnd PROVE MainControl'
  <2>1. op[MainThreadTid] = "none" /\ status[MainThreadTid] # "INTER_PRO_STOP" /\ pc[MainThreadTid] = "run"
    BY <1>43 DEF ProgEnd, StatusInv, StatusAt, HoldPc, FrontPc, NextPc
  <2> QED BY <1>43, <2>1 DEF ProgEnd, MainControl, Launched, TypeOK
<1>44. CASE UNCHANGED vars
  BY <1>44 DEF vars, MainControl, Launched, TypeOK
<1> QED
  BY <1>1, <1>2, <1>3, <1>4, <1>5, <1>6, <1>7, <1>8, <1>9, <1>10, <1>11, <1>12,
     <1>13, <1>14, <1>15, <1>16, <1>17, <1>18, <1>19, <1>20, <1>21, <1>22, <1>23,
     <1>24, <1>25, <1>26, <1>27, <1>28, <1>29, <1>30, <1>31, <1>32, <1>33, <1>34,
     <1>35, <1>36, <1>37, <1>38, <1>39, <1>40, <1>41, <1>42, <1>43, <1>44, <1>45, <1>46
  DEF Next, SchedulerStep, IdleStep, MainStep, AppStep, EnvStep

\* Main keeps its place when nobody leaves the run queue and every wait that ends is
\* ended by a release.
LEMMA MainPlaceKept ==
  ASSUME MainPlace, ToSet(runq) \subseteq ToSet(runq'),
         ToSet(waitq) \subseteq ToSet(runq') \cup ToSet(waitq'),
         \A v \in Tid : \/ chan'[v] = chan[v]
                        \/ chan'[v] = NULL /\ v \in ToSet(runq'),
         phase'[MainThreadTid] = phase[MainThreadTid] \/ MainThreadTid \in ToSet(runq'),
         op'[IdleThreadTid] = "wait" => op[IdleThreadTid] = "wait" \/ MainThreadTid \in ToSet(runq')
  PROVE  MainPlace'
<1>1. NULL # IdleThreadTid BY ChanAssumption, TidFacts
<1> QED BY <1>1, TidFacts DEF MainPlace

\* Only main, in __tern_prog_end(), joins the idle thread.
LEMMA WaitsOnIdle ==
  ASSUME IInv, NEW t \in Tid, NEW a \in WaitArgs(t), a[1] = IdleThreadTid
  PROVE  t = MainThreadTid
<1> DEFINE joinable == {u \in 0..(nthread - 1) : u \notin {t, IdleThreadTid} /\ ~Zombie(u)}
<1>1. IdleThreadTid \notin Chan \cup {NULL, IdleCond, IdleMutex} BY ChanAssumption, TidFacts
<1>2. a \notin {<<IdleCond, Forever>>, <<IdleMutex, Forever>>} BY <1>1
<1>3. a \notin (Chan \X (NTurns \cup {Forever})) \cup ({NULL} \X NTurns) \cup (joinable \X {Forever}) BY <1>1
<1>4. phase[t] # "join" =>
        \/ WaitArgs(t) = {<<IdleCond, Forever>>} \/ WaitArgs(t) = {<<IdleMutex, Forever>>}
        \/ WaitArgs(t) = (Chan \X (NTurns \cup {Forever})) \cup ({NULL} \X NTurns) \cup (joinable \X {Forever})
  BY DEF WaitArgs
<1>5. phase[t] = "join" BY <1>2, <1>3, <1>4
<1> QED BY <1>5, TidFacts DEF IInv, ControlInv, IdlePhase

\* The idle thread carries out an operation only with the turn.
LEMMA IdleWaitsAlone ==
  ASSUME FullInv, pc[MainThreadTid] \in HoldPc PROVE op[IdleThreadTid] # "wait"
<1> USE TidFacts DEF IInv, FullInv
<1>1. pc[IdleThreadTid] \notin HoldPc BY DEF OneTurn, HasTurn
<1> QED BY <1>1 DEF StatusInv, StatusAt, IdleControl

\* Main stays on the run queue through __tern_prog_end(), or waits for the idle thread.
LEMMA MainPlaceStep == ASSUME FullInv, [Next]_vars PROVE MainPlace'
<1> USE TidFacts DEF IInv, FullInv, Goto, RealPhase, Begin, NextPhase, queueVars, wakeVars, idleVars
<1>1. ASSUME NEW t \in Tid, GetTurn(t) PROVE MainPlace'
  BY <1>1, MainPlaceKept DEF GetTurn, TypeOK
<1>2. ASSUME NEW t \in Tid, IncTurnCount(t) PROVE MainPlace'
  BY <1>2, MainPlaceKept DEF IncTurnCount, TypeOK
<1>3. ASSUME NEW t \in Tid, FireTimeout(t) PROVE MainPlace'
  <2>1. PICK i \in 1..Len(waitq) : Release(i, "ETIMEDOUT") BY <1>3 DEF FireTimeout
  <2>2. Moved(waitq[i], "ETIMEDOUT") BY <2>1, ReleaseMoves
  <2> QED BY <1>3, <2>2, MainPlaceKept DEF FireTimeout, Moved, TypeOK
<1>4. ASSUME NEW t \in Tid, FireDone(t) PROVE MainPlace'
  BY <1>4, MainPlaceKept DEF FireDone, TypeOK
<1>5. ASSUME NEW t \in Tid, CheckWakeupFlag(t) PROVE MainPlace'
  BY <1>5, MainPlaceKept DEF CheckWakeupFlag, TypeOK
<1>6. ASSUME NEW t \in Tid, NEW u \in wakeTids, CheckWakeupOne(t, u) PROVE MainPlace'
  <2>1. u \in Tid /\ ToSet(runq') = ToSet(runq) \cup {u} BY <1>6, AppendProps DEF CheckWakeupOne, TypeOK
  <2> QED BY <1>6, <2>1, MainPlaceKept DEF CheckWakeupOne
<1>7. ASSUME NEW t \in Tid, CheckWakeupDone(t) PROVE MainPlace'
  BY <1>7, MainPlaceKept DEF CheckWakeupDone, TypeOK
<1>8. ASSUME NEW t \in Tid, Leave(t) PROVE MainPlace'
  <2>1. runq # <<>> /\ Head(runq) = t BY <1>8 DEF HolderAtFront, Leave, FrontPc
  <2>2. /\ Tail(runq) \in Seq(Tid) /\ IsInjective(Tail(runq))
        /\ ToSet(Tail(runq)) = ToSet(runq) \ {t} /\ t \in ToSet(runq)
    BY <2>1, PopHead
  <2>3. t = MainThreadTid => phase[MainThreadTid] \in {"app", "exit"} BY <1>8 DEF Leave, ControlInv, MainControl
  <2>4. t = MainThreadTid => op[IdleThreadTid] # "wait" BY <1>8, IdleWaitsAlone DEF Leave, FrontPc, HoldPc
  <2> QED BY <1>8, <2>2, <2>3, <2>4 DEF Leave, LeaveFront, MainPlace
<1>9. ASSUME NEW t \in Tid, PutTurn(t) PROVE MainPlace'
  <2>1. runq # <<>> /\ Head(runq) = t BY <1>9 DEF HolderAtFront, PutTurn, FrontPc
  <2>2. /\ Tail(runq) \in Seq(Tid) /\ IsInjective(Tail(runq))
        /\ ToSet(Tail(runq)) = ToSet(runq) \ {t} /\ t \in ToSet(runq)
    BY <2>1, PopHead
  <2>3. ToSet(runq') = ToSet(runq)
    <3> DEFINE q == Tail(runq)
    <3>1. q \in Seq(Tid) /\ ToSet(q) = ToSet(runq) \ {t} /\ runq' = Append(q, t) BY <1>9, <2>2 DEF PutTurn
    <3> HIDE DEF q
    <3>2. ToSet(runq') = ToSet(q) \cup {t} BY <3>1, AppendProps
    <3> QED BY <2>2, <3>1, <3>2
  <2> QED BY <1>9, <2>3, MainPlaceKept DEF PutTurn
<1>10. ASSUME NEW t \in Tid, ThreadEnd(t) PROVE MainPlace'
  <2>1. (UNCHANGED queueVars) \/ (UNCHANGED status /\ \E w \in Tid : Moved(w, "0"))
    BY <1>10, SignalMoves DEF ThreadEnd
  <2>3. CASE UNCHANGED queueVars BY <1>10, <2>3, MainPlaceKept DEF ThreadEnd
  <2>4. ASSUME NEW w \in Tid, Moved(w, "0") PROVE MainPlace'
    BY <1>10, <2>4, MainPlaceKept DEF ThreadEnd, Moved, TypeOK
  <2> QED BY <2>1, <2>3, <2>4
<1>11. ASSUME NEW t \in Tid, Wait(t) PROVE MainPlace'
  <2>1. runq # <<>> /\ Head(runq) = t BY <1>11 DEF HolderAtFront, Wait, FrontPc
  <2>2. /\ Tail(runq) \in Seq(Tid) /\ IsInjective(Tail(runq))
        /\ ToSet(Tail(runq)) = ToSet(runq) \ {t} /\ t \in ToSet(runq)
    BY <2>1, PopHead
  <2>3. op[t] \in {"wait", "idleCondWait"} BY <1>11 DEF Wait, ControlInv
  <2>4. t = MainThreadTid => op[t] = "wait" /\ phase[t] \in {"app", "lock", "join"} BY <2>3 DEF ControlInv, MainControl
  <2>5. ToSet(waitq') = ToSet(waitq) \cup {t} BY <1>11, AppendProps DEF Wait, TypeOK
  <2>6. PICK a \in WaitArgs(t) : chan' = [chan EXCEPT ![t] = a[1]] BY <1>11 DEF Wait
  <2>7. t = MainThreadTid /\ phase[t] = "join" => a[1] = IdleThreadTid BY <2>4, <2>6 DEF WaitArgs
  <2>8. a[1] = IdleThreadTid => t = MainThreadTid BY <2>6, WaitsOnIdle
  <2>9. t = MainThreadTid => op[IdleThreadTid] # "wait" BY <1>11, IdleWaitsAlone DEF Wait, FrontPc, HoldPc
  <2> QED BY <1>11, <2>2, <2>4, <2>5, <2>6, <2>7, <2>8, <2>9 DEF Wait, LeaveFront, MainPlace, TypeOK
<1>12. ASSUME NEW t \in Tid, NextInvalid(t) PROVE MainPlace'
  BY <1>12, MainPlaceKept DEF NextInvalid, TypeOK
<1>13. ASSUME NEW t \in Tid, WakeUpIdleThreadExit(t) PROVE MainPlace'
  BY <1>13, MainPlaceKept DEF WakeUpIdleThreadExit, EmptyScan, TypeOK
<1>14. ASSUME NEW t \in Tid, WakeUpIdleThread(t) PROVE MainPlace'
  <2>1. PICK i \in 1..Len(waitq) : Release(i, "0") BY <1>14 DEF WakeUpIdleThread
  <2>2. Moved(waitq[i], "0") BY <2>1, ReleaseMoves
  <2> QED BY <1>14, <2>2, MainPlaceKept DEF WakeUpIdleThread, Moved, TypeOK
<1>15. ASSUME NEW t \in Tid, SignalIdle(t) PROVE MainPlace'
  BY <1>15, MainPlaceKept DEF SignalIdle, TypeOK
<1>16. ASSUME NEW t \in Tid, SkipHead(t) PROVE MainPlace'
  <2>1. PICK h \in Tid : ToSet(runq') = ToSet(runq) \ {h} /\ status[h] = "INTER_PRO_STOP"
    BY <1>16, PopHead DEF SkipHead
  <2>2. h = MainThreadTid => phase[MainThreadTid] = "app" /\ op[IdleThreadTid] # "wait"
    BY <2>1 DEF MainControl, IdleControl
  <2> QED BY <1>16, <2>1, <2>2 DEF SkipHead, MainPlace
<1>17. ASSUME NEW t \in Tid, PassTurn(t) PROVE MainPlace'
  BY <1>17, MainPlaceKept DEF PassTurn, TypeOK
<1>18. ASSUME NEW t \in Tid, Block(t) PROVE MainPlace'
  BY <1>18, MainPlaceKept DEF Block, TypeOK
<1>19. ASSUME NEW t \in Tid, Wakeup(t) PROVE MainPlace'
  BY <1>19, MainPlaceKept DEF Wakeup, TypeOK
<1>20. ASSUME NEW t \in Tid, LockIdleMutex(t) PROVE MainPlace'
  <2>1. t \in ToSet(runq) BY <1>20, FrontQueued DEF LockIdleMutex, FrontPc
  <2>2. t = IdleThreadTid /\ idle_mutex # InvalidTid => MainThreadTid \in ToSet(runq)
    BY <1>20 DEF LockIdleMutex, IdleControl, MainPlace
  <2> QED BY <1>20, <2>1, <2>2, MainPlaceKept DEF LockIdleMutex, TypeOK
<1>21. ASSUME NEW t \in Tid, UnlockIdleMutex(t) PROVE MainPlace'
  <2>1. (UNCHANGED queueVars) \/ (UNCHANGED status /\ \E w \in Tid : Moved(w, "0"))
    BY <1>21, SignalMoves DEF UnlockIdleMutex
  <2>2. MainThreadTid \in ToSet(runq) \/ UNCHANGED phase[MainThreadTid] BY <1>21, FrontQueued DEF UnlockIdleMutex, FrontPc, TypeOK
  <2>3. CASE UNCHANGED queueVars BY <1>21, <2>3, <2>2, MainPlaceKept DEF UnlockIdleMutex
  <2>4. ASSUME NEW w \in Tid, Moved(w, "0") PROVE MainPlace'
    BY <1>21, <2>4, <2>2, MainPlaceKept DEF UnlockIdleMutex, Moved, TypeOK
  <2> QED BY <2>1, <2>3, <2>4
<1>22. ASSUME NEW t \in Tid, IdleSleep(t) PROVE MainPlace'
  <2>1. t \in ToSet(runq) BY <1>22, FrontQueued DEF IdleSleep, FrontPc
  <2> QED BY <1>22, <2>1, MainPlaceKept DEF IdleSleep, TypeOK
<1>23. ASSUME NEW t \in Tid, IdleCondWait(t) PROVE MainPlace'
  <2>1. t \in ToSet(runq) BY <1>23, FrontQueued DEF IdleCondWait, FrontPc
  <2> QED BY <1>23, <2>1, MainPlaceKept DEF IdleCondWait, TypeOK
<1>24. ASSUME NEW t \in Tid, IdleCheckRunq(t) PROVE MainPlace'
  BY <1>24, MainPlaceKept DEF IdleCheckRunq, TypeOK
<1>25. ASSUME NEW t \in Tid, TryPutTurn(t) PROVE MainPlace'
  BY <1>25, MainPlaceKept DEF TryPutTurn, TypeOK
<1>26. ASSUME NEW t \in Tid, TryPutTurnFail(t) PROVE MainPlace'
  BY <1>26, MainPlaceKept DEF TryPutTurnFail, TypeOK
<1>27. ASSUME NEW t \in Tid, CondSleep(t) PROVE MainPlace'
  BY <1>27, MainPlaceKept DEF CondSleep, TypeOK
<1>28. ASSUME NEW t \in Tid, CondReturn(t) PROVE MainPlace'
  BY <1>28, MainPlaceKept DEF CondReturn, TypeOK
<1>29. ASSUME NEW t \in Tid, Exit(t) PROVE MainPlace'
  BY <1>29, MainPlaceKept DEF Exit, TypeOK
<1>30. ASSUME SetIdleDone PROVE MainPlace'
  BY <1>30 DEF SetIdleDone, MainPlace, TypeOK
<1>31. ASSUME ProgEndSignal PROVE MainPlace'
  <2>1. (UNCHANGED queueVars) \/ (UNCHANGED status /\ \E w \in Tid : Moved(w, "0"))
    BY <1>31, SignalMoves DEF ProgEndSignal
  <2>2. MainThreadTid \in ToSet(runq) \/ UNCHANGED phase[MainThreadTid] BY <1>31, FrontQueued DEF ProgEndSignal, FrontPc, TypeOK
  <2>3. CASE UNCHANGED queueVars BY <1>31, <2>3, <2>2, MainPlaceKept DEF ProgEndSignal
  <2>4. ASSUME NEW w \in Tid, Moved(w, "0") PROVE MainPlace'
    BY <1>31, <2>4, <2>2, MainPlaceKept DEF ProgEndSignal, Moved, TypeOK
  <2> QED BY <2>1, <2>3, <2>4
<1>32. ASSUME ProgEndRealSignal PROVE MainPlace'
  BY <1>32 DEF ProgEndRealSignal, MainPlace, TypeOK
<1>45. ASSUME ProgEndRealLock PROVE MainPlace'
  BY <1>45 DEF ProgEndRealLock, MainPlace, TypeOK
<1>46. ASSUME ProgEndRealUnlock PROVE MainPlace'
  BY <1>46 DEF ProgEndRealUnlock, MainPlace, TypeOK
<1>33. ASSUME ProgEndJoin PROVE MainPlace'
  <2>1. MainThreadTid \in ToSet(runq) BY <1>33, FrontQueued DEF ProgEndJoin, FrontPc
  <2> QED BY <1>33, <2>1, MainPlaceKept DEF ProgEndJoin
<1>34. ASSUME NEW t \in Tid, CallGetTurn(t) PROVE MainPlace'
  BY <1>34, MainPlaceKept DEF CallGetTurn, TypeOK
<1>35. ASSUME NEW t \in Tid, InterProStartStop(t) PROVE MainPlace'
  BY <1>35, MainPlaceKept DEF InterProStartStop, CanBlock, TypeOK
<1>36. ASSUME NEW t \in Tid, InterProStartHead(t) PROVE MainPlace'
  BY <1>36, MainPlaceKept DEF InterProStartHead, CanBlock, TypeOK
<1>37. ASSUME NEW t \in Tid, NEW c \in Chan, SyncSignal(t, c) PROVE MainPlace'
  <2>1. (UNCHANGED queueVars) \/ (UNCHANGED status /\ \E w \in Tid : Moved(w, "0"))
    BY <1>37, SignalMoves DEF SyncSignal
  <2>3. CASE UNCHANGED queueVars BY <1>37, <2>3, MainPlaceKept DEF SyncSignal, InApp
  <2>4. ASSUME NEW w \in Tid, Moved(w, "0") PROVE MainPlace'
    BY <1>37, <2>4, MainPlaceKept DEF SyncSignal, InApp, Moved, TypeOK
  <2> QED BY <2>1, <2>3, <2>4
<1>38. ASSUME NEW t \in Tid, Create(t) PROVE MainPlace'
  <2>1. nthread \in Tid /\ runq \in Seq(Tid) BY <1>38 DEF Create, TypeOK
  <2>2. ToSet(runq') = ToSet(runq) \cup {nthread} BY <1>38, <2>1, AppendProps DEF Create
  <2> QED BY <1>38, <2>2, MainPlaceKept DEF Create
<1>39. ASSUME NEW t \in Tid, FakeEnd(t) PROVE MainPlace'
  BY <1>39, MainPlaceKept DEF FakeEnd, InApp, TypeOK
<1>40. ASSUME NEW t \in Tid, EndOp(t) PROVE MainPlace'
  <2>1. t # IdleThreadTid BY <1>40 DEF EndOp, InApp, ControlInv, IdlePhase
  <2> QED BY <1>40, <2>1, MainPlaceKept DEF EndOp, InApp, TypeOK
<1>41. ASSUME NEW t \in Tid, InterProEnd(t) PROVE MainPlace'
  BY <1>41, MainPlaceKept DEF InterProEnd, TypeOK
<1>42. ASSUME NEW t \in Tid, CondSpurious(t) PROVE MainPlace'
  BY <1>42, MainPlaceKept DEF CondSpurious, TypeOK
<1>43. ASSUME ProgEnd PROVE MainPlace'
  BY <1>43 DEF ProgEnd, MainPlace, TypeOK
<1>44. CASE UNCHANGED vars
  BY <1>44 DEF vars, MainPlace
<1> QED
  BY <1>1, <1>2, <1>3, <1>4, <1>5, <1>6, <1>7, <1>8, <1>9, <1>10, <1>11, <1>12,
     <1>13, <1>14, <1>15, <1>16, <1>17, <1>18, <1>19, <1>20, <1>21, <1>22, <1>23,
     <1>24, <1>25, <1>26, <1>27, <1>28, <1>29, <1>30, <1>31, <1>32, <1>33, <1>34,
     <1>35, <1>36, <1>37, <1>38, <1>39, <1>40, <1>41, <1>42, <1>43, <1>44, <1>45, <1>46
  DEF Next, SchedulerStep, IdleStep, MainStep, AppStep, EnvStep

\* The idle thread never finds the run queue empty in nextRunnable().
LEMMA IdleFindsSomebody ==
  ASSUME FullInv, pc[IdleThreadTid] = "scan" PROVE runq # <<>>
<1> USE TidFacts DEF FullInv, IInv
<1>1. op[IdleThreadTid] \in NextOp \ {"block"} BY DEF ControlInv, IdleControl, NextPc
<1>2. \A x : x \in ToSet(runq) => runq # <<>> BY DEF ToSet
<1>3. CASE op[IdleThreadTid] = "putTurn" BY <1>2, <1>3 DEF PlaceInv, NextPc
<1>4. CASE op[IdleThreadTid] = "wait" BY <1>2, <1>4 DEF IdleControl, MainPlace
<1>5. CASE op[IdleThreadTid] \in {"threadEnd", "idleCondWait"} BY <1>2, <1>5 DEF IdlePlace, NextPc
<1> QED BY <1>1, <1>3, <1>4, <1>5 DEF NextOp

\* What the control of the idle thread depends on is its own and main's: a step of another
\* thread that leaves it alone keeps it.
LEMMA IdleControlKept ==
  ASSUME TypeOK, IdleControl,
         pc'[IdleThreadTid] = pc[IdleThreadTid],
         op'[IdleThreadTid] = op[IdleThreadTid],
         timeout'[IdleThreadTid] = timeout[IdleThreadTid] \/ timeout'[IdleThreadTid] = Forever,
         IdleThreadTid \notin wakeTids',
         UNCHANGED <<phase, idle_mutex, idle_done, itr>>
  PROVE  IdleControl'
  BY DEF IdleControl

\* The idle thread goes through its phases in order and ends only after idle_done.
LEMMA IdleControlStep == ASSUME FullInv, [Next]_vars PROVE IdleControl'
<1> USE TidFacts DEF IInv, FullInv, Goto, RealPhase, Begin, NextPhase, queueVars, wakeVars, idleVars
<1>1. ASSUME NEW t \in Tid, GetTurn(t) PROVE IdleControl'
  BY <1>1 DEF GetTurn, IdleControl, TypeOK, ControlInv, IdlePc
<1>2. ASSUME NEW t \in Tid, IncTurnCount(t) PROVE IdleControl'
  <2>1. timeout'[IdleThreadTid] = timeout[IdleThreadTid] BY <1>2 DEF IncTurnCount, IdleControl
  <2> QED BY <1>2, <2>1 DEF IncTurnCount, IdleControl, TypeOK, IdlePc
<1>3. ASSUME NEW t \in Tid, FireTimeout(t) PROVE IdleControl'
  <2>2. PICK i \in 1..Len(waitq) : Release(i, "ETIMEDOUT") BY <1>3 DEF FireTimeout
  <2>3. timeout'[IdleThreadTid] = timeout[IdleThreadTid] \/ timeout'[IdleThreadTid] = Forever
    BY <2>2, ReleaseMoves DEF Moved, TypeOK
  <2> QED BY <1>3, <2>3, IdleControlKept DEF FireTimeout, IdleControl, TypeOK
<1>4. ASSUME NEW t \in Tid, FireDone(t) PROVE IdleControl'
  BY <1>4 DEF FireDone, IdleControl, TypeOK, ControlInv, IdlePc
<1>5. ASSUME NEW t \in Tid, CheckWakeupFlag(t) PROVE IdleControl'
  <2>1. /\ pc'[t] \notin {"sys", "wakeup", "blockTurn", "exited", "dead", "tryPutTurn"} \cup IdlePc
        /\ \A v \in Tid \ {t} : pc'[v] = pc[v]
    BY <1>5, ZenonT(60) DEF CheckWakeupFlag, TypeOK, AfterInc, ControlInv, Op, NextOp, IdlePc
  <2> QED BY <1>5, <2>1 DEF CheckWakeupFlag, IdleControl
<1>6. ASSUME NEW t \in Tid, NEW u \in wakeTids, CheckWakeupOne(t, u) PROVE IdleControl'
  BY <1>6 DEF CheckWakeupOne, IdleControl, TypeOK, IdlePc
<1>7. ASSUME NEW t \in Tid, CheckWakeupDone(t) PROVE IdleControl'
  <2>1. /\ pc'[t] \notin {"sys", "wakeup", "blockTurn", "exited", "dead", "tryPutTurn"} \cup IdlePc
        /\ \A v \in Tid \ {t} : pc'[v] = pc[v]
    BY <1>7, ZenonT(60) DEF CheckWakeupDone, TypeOK, AfterInc, ControlInv, Op, NextOp, IdlePc
  <2> QED BY <1>7, <2>1 DEF CheckWakeupDone, IdleControl
<1>8. ASSUME NEW t \in Tid, Leave(t) PROVE IdleControl'
  BY <1>8 DEF Leave, LeaveFront, IdleControl, TypeOK, ControlInv, IdlePc
<1>9. ASSUME NEW t \in Tid, PutTurn(t) PROVE IdleControl'
  BY <1>9 DEF PutTurn, IdleControl, TypeOK, ControlInv, IdlePc
<1>10. ASSUME NEW t \in Tid, ThreadEnd(t) PROVE IdleControl'
  <2>1. timeout'[IdleThreadTid] = timeout[IdleThreadTid] \/ timeout'[IdleThreadTid] = Forever
    BY <1>10, SignalMoves DEF ThreadEnd, Moved, TypeOK
  <2> QED BY <1>10, <2>1 DEF ThreadEnd, IdleControl, TypeOK, IdlePc
<1>11. ASSUME NEW t \in Tid, Wait(t) PROVE IdleControl'
  <2>1. PICK a \in WaitArgs(t) : timeout' = [timeout EXCEPT ![t] = a[2]] BY <1>11 DEF Wait
  <2>2. timeout'[IdleThreadTid] = Forever
    <3>1. CASE t # IdleThreadTid BY <2>1, <3>1 DEF TypeOK, IdleControl
    <3>2. CASE t = IdleThreadTid
      <4>1. op[t] = "idleCondWait" \/ phase[t] = "lock" BY <1>11, <3>2 DEF Wait, ControlInv, IdleControl
      <4>2. phase[t] # "join" /\ (op[t] = "idleCondWait" => phase[t] # "lock") BY <3>2 DEF ControlInv, IdlePhase, IdleControl
      <4>3. a \in {<<IdleCond, Forever>>, <<IdleMutex, Forever>>} BY <2>1, <4>1, <4>2 DEF WaitArgs
      <4> QED BY <2>1, <3>2, <4>3 DEF TypeOK
    <3> QED BY <3>1, <3>2
  <2> QED BY <1>11, <2>2 DEF Wait, LeaveFront, IdleControl, TypeOK, IdlePc
<1>12. ASSUME NEW t \in Tid, NextInvalid(t) PROVE IdleControl'
  <2>1. t # IdleThreadTid BY <1>12, IdleFindsSomebody DEF NextInvalid
  <2>2. pc'[IdleThreadTid] = pc[IdleThreadTid] /\ op'[IdleThreadTid] = op[IdleThreadTid]
    BY <1>12, <2>1 DEF NextInvalid, TypeOK
  <2> QED BY <1>12, <2>2, IdleControlKept DEF NextInvalid, IdleControl
<1>13. ASSUME NEW t \in Tid, WakeUpIdleThreadExit(t) PROVE IdleControl'
  <2>1. t # IdleThreadTid BY <1>13, IdleFindsSomebody DEF WakeUpIdleThreadExit, EmptyScan
  <2>2. pc'[IdleThreadTid] = pc[IdleThreadTid] /\ op'[IdleThreadTid] = op[IdleThreadTid]
    BY <1>13, <2>1 DEF WakeUpIdleThreadExit, EmptyScan, TypeOK
  <2> QED BY <1>13, <2>2, IdleControlKept DEF WakeUpIdleThreadExit, EmptyScan, IdleControl
<1>14. ASSUME NEW t \in Tid, WakeUpIdleThread(t) PROVE IdleControl'
  <2>1. t # IdleThreadTid BY <1>14, IdleFindsSomebody DEF WakeUpIdleThread, EmptyScan
  <2>2. PICK i \in 1..Len(waitq) : Release(i, "0") BY <1>14 DEF WakeUpIdleThread
  <2>3. timeout'[IdleThreadTid] = timeout[IdleThreadTid] \/ timeout'[IdleThreadTid] = Forever
    BY <2>2, ReleaseMoves DEF Moved, TypeOK
  <2> QED BY <1>14, <2>1, <2>3, IdleControlKept DEF WakeUpIdleThread, IdleControl, TypeOK
<1>15. ASSUME NEW t \in Tid, SignalIdle(t) PROVE IdleControl'
  BY <1>15 DEF SignalIdle, IdleControl, TypeOK, ControlInv, IdlePc
<1>16. ASSUME NEW t \in Tid, SkipHead(t) PROVE IdleControl'
  BY <1>16 DEF SkipHead, IdleControl, TypeOK, ControlInv, IdlePc
<1>17. ASSUME NEW t \in Tid, PassTurn(t) PROVE IdleControl'
  <2>1. pc[t] = "scan" /\ op[t] \in NextOp BY <1>17 DEF PassTurn, ControlInv, NextPc
  <2>2. /\ \A v \in Tid \ {t} : pc'[v] = pc[v] /\ op'[v] = op[v]
        /\ op'[t] = "none" /\ pc'[t] = AfterNext(op[t])
    BY <1>17 DEF PassTurn, TypeOK
  <2>3. /\ pc'[t] \notin {"wakeup", "blockTurn", "exited", "tryPutTurn"}
        /\ pc'[t] = "sys" => op[t] = "block"
        /\ pc'[t] = "dead" => op[t] = "threadEnd"
        /\ pc'[t] \in IdlePc => op[t] = "idleCondWait"
    BY <2>1, <2>2 DEF AfterNext, NextOp, IdlePc
  <2>4. UNCHANGED <<phase, idle_mutex, idle_done, itr, timeout, wakeTids>> BY <1>17 DEF PassTurn
  <2> QED BY <2>1, <2>2, <2>3, <2>4 DEF IdleControl
<1>18. ASSUME NEW t \in Tid, Block(t) PROVE IdleControl'
  <2>1. t # IdleThreadTid BY <1>18 DEF Block, IdleControl
  <2>2. pc'[IdleThreadTid] = pc[IdleThreadTid] /\ op'[IdleThreadTid] = op[IdleThreadTid]
    BY <1>18, <2>1 DEF Block, TypeOK
  <2> QED BY <1>18, <2>2, IdleControlKept DEF Block, IdleControl
<1>19. ASSUME NEW t \in Tid, Wakeup(t) PROVE IdleControl'
  <2>1. t # IdleThreadTid BY <1>19 DEF Wakeup, IdleControl
  <2>2. pc'[IdleThreadTid] = pc[IdleThreadTid] /\ op'[IdleThreadTid] = op[IdleThreadTid]
    BY <1>19, <2>1 DEF Wakeup, TypeOK
  <2> QED BY <1>19, <2>2, IdleControlKept DEF Wakeup, IdleControl
<1>20. ASSUME NEW t \in Tid, LockIdleMutex(t) PROVE IdleControl'
  <2>1. t \in {MainThreadTid, IdleThreadTid} /\ phase[t] = "lock" /\ pc[t] = "turn"
    BY <1>20 DEF LockIdleMutex, ControlInv
  <2>2. CASE idle_mutex = InvalidTid /\ t = MainThreadTid
    <3>1. /\ idle_mutex' = t /\ pc'[IdleThreadTid] = pc[IdleThreadTid] /\ op'[IdleThreadTid] = op[IdleThreadTid]
          /\ phase'[t] = "set" /\ phase'[IdleThreadTid] = phase[IdleThreadTid]
          /\ UNCHANGED <<timeout, wakeTids, idle_done, itr>>
      BY <1>20, <2>2 DEF LockIdleMutex, TypeOK
    <3> QED BY <2>1, <2>2, <3>1 DEF IdleControl
  <2>3. CASE idle_mutex = InvalidTid /\ t = IdleThreadTid
    <3>1. /\ idle_mutex' = t /\ pc'[t] = "inc" /\ op'[t] = "putTurn"
          /\ phase'[t] = IF idle_done THEN "break" ELSE "condWait"
          /\ phase'[MainThreadTid] = phase[MainThreadTid]
          /\ UNCHANGED <<timeout, wakeTids, idle_done, itr>>
      BY <1>20, <2>3 DEF LockIdleMutex, TypeOK
    <3> QED BY <2>1, <2>3, <3>1 DEF IdleControl, IdlePc
  <2>4. CASE idle_mutex # InvalidTid
    <3>1. /\ UNCHANGED <<idle_mutex, phase, timeout, wakeTids, idle_done, itr>>
          /\ pc'[t] = "inc" /\ op'[t] = "wait" /\ \A v \in Tid \ {t} : pc'[v] = pc[v] /\ op'[v] = op[v]
      BY <1>20, <2>4 DEF LockIdleMutex, TypeOK
    <3> QED BY <2>1, <2>4, <3>1 DEF IdleControl, IdlePc
  <2> QED BY <2>1, <2>2, <2>3, <2>4
<1>21. ASSUME NEW t \in Tid, UnlockIdleMutex(t) PROVE IdleControl'
  <2>1. t \in {MainThreadTid, IdleThreadTid} /\ phase[t] \in {"unlock", "break"} /\ pc[t] = "turn"
    BY <1>21 DEF UnlockIdleMutex, ControlInv
  <2>2. timeout'[IdleThreadTid] = timeout[IdleThreadTid] \/ timeout'[IdleThreadTid] = Forever
    BY <1>21, SignalMoves DEF UnlockIdleMutex, Moved, TypeOK
  <2>3. /\ idle_mutex' = InvalidTid /\ UNCHANGED <<wakeTids, idle_done, itr>>
        /\ pc'[t] = "inc" /\ op'[t] = "putTurn"
        /\ \A v \in Tid \ {t} : pc'[v] = pc[v] /\ op'[v] = op[v] /\ phase'[v] = phase[v]
        /\ phase'[t] = IF phase[t] = "break" THEN "exit" ELSE IF t = MainThreadTid THEN "signal" ELSE "sleep"
    BY <1>21 DEF UnlockIdleMutex, TypeOK
  <2>4. CASE t = MainThreadTid
    <3>1. pc[IdleThreadTid] \notin HoldPc BY <2>1, <2>4 DEF OneTurn, HasTurn, HoldPc, FrontPc
    <3>2. op[IdleThreadTid] # "wait" BY <3>1 DEF StatusInv, StatusAt, IdleControl
    <3>3. phase[t] = "unlock" BY <2>1, <2>4 DEF ControlInv, MainPhase
    <3> QED BY <2>1, <2>2, <2>3, <2>4, <3>2, <3>3 DEF IdleControl
  <2>5. CASE t = IdleThreadTid BY <2>1, <2>2, <2>3, <2>5 DEF IdleControl, IdlePc
  <2> QED BY <2>1, <2>4, <2>5
<1>22. ASSUME NEW t \in Tid, IdleSleep(t) PROVE IdleControl'
  BY <1>22 DEF IdleSleep, IdleControl, TypeOK, ControlInv, IdlePc
<1>23. ASSUME NEW t \in Tid, IdleCondWait(t) PROVE IdleControl'
  BY <1>23 DEF IdleCondWait, IdleControl, TypeOK, ControlInv, IdlePc
<1>24. ASSUME NEW t \in Tid, IdleCheckRunq(t) PROVE IdleControl'
  BY <1>24 DEF IdleCheckRunq, IdleControl, TypeOK, ControlInv, IdlePc
<1>25. ASSUME NEW t \in Tid, TryPutTurn(t) PROVE IdleControl'
  <2>1. itr' = itr + 1 \/ pc'[t] = "wait" BY <1>25 DEF TryPutTurn, TypeOK
  <2>2. t = IdleThreadTid /\ itr >= 2 /\ itr \in Nat BY <1>25 DEF TryPutTurn, ControlInv, IdleControl, TypeOK
  <2>3. itr + 1 >= 2 BY <2>2
  <2> QED BY <1>25, <2>1, <2>2, <2>3 DEF TryPutTurn, IdleControl, TypeOK, IdlePc
<1>26. ASSUME NEW t \in Tid, TryPutTurnFail(t) PROVE IdleControl'
  BY <1>26 DEF TryPutTurnFail, IdleControl, TypeOK, ControlInv, IdlePc
<1>27. ASSUME NEW t \in Tid, CondSleep(t) PROVE IdleControl'
  <2>1. t = IdleThreadTid /\ op[t] # "wait" BY <1>27 DEF CondSleep, ControlInv, IdlePc, IdleControl
  <2> QED BY <1>27, <2>1 DEF CondSleep, IdleControl, TypeOK, IdlePc
<1>28. ASSUME NEW t \in Tid, CondReturn(t) PROVE IdleControl'
  BY <1>28 DEF CondReturn, IdleControl, TypeOK, ControlInv, IdlePc
<1>29. ASSUME NEW t \in Tid, Exit(t) PROVE IdleControl'
  <2>1. pc'[t] = "inc" /\ op'[t] = "threadEnd" /\ phase[t] = "exit"
        /\ \A v \in Tid \ {t} : pc'[v] = pc[v] /\ op'[v] = op[v]
    BY <1>29 DEF Exit, TypeOK
  <2> QED BY <1>29, <2>1 DEF Exit, IdleControl, IdlePc
<1>30. ASSUME SetIdleDone PROVE IdleControl'
  BY <1>30 DEF SetIdleDone, IdleControl, TypeOK, IdlePc
<1>31. ASSUME ProgEndSignal PROVE IdleControl'
  <2>1. timeout'[IdleThreadTid] = timeout[IdleThreadTid] \/ timeout'[IdleThreadTid] = Forever
    BY <1>31, SignalMoves DEF ProgEndSignal, Moved, TypeOK
  <2> QED BY <1>31, <2>1 DEF ProgEndSignal, IdleControl, TypeOK
<1>32. ASSUME ProgEndRealSignal PROVE IdleControl'
  BY <1>32 DEF ProgEndRealSignal, IdleControl, TypeOK, IdlePc
<1>45. ASSUME ProgEndRealLock PROVE IdleControl'
  BY <1>45 DEF ProgEndRealLock, IdleControl, TypeOK, IdlePc
<1>46. ASSUME ProgEndRealUnlock PROVE IdleControl'
  BY <1>46 DEF ProgEndRealUnlock, IdleControl, TypeOK, IdlePc
<1>33. ASSUME ProgEndJoin PROVE IdleControl'
  BY <1>33 DEF ProgEndJoin, IdleControl, TypeOK, IdlePc
<1>34. ASSUME NEW t \in Tid, CallGetTurn(t) PROVE IdleControl'
  BY <1>34 DEF CallGetTurn, IdleControl, TypeOK, ControlInv, IdlePc
<1>35. ASSUME NEW t \in Tid, InterProStartStop(t) PROVE IdleControl'
  <2>1. t # IdleThreadTid BY <1>35 DEF InterProStartStop, CanBlock
  <2>2. pc'[IdleThreadTid] = pc[IdleThreadTid] /\ op'[IdleThreadTid] = op[IdleThreadTid]
    BY <1>35, <2>1 DEF InterProStartStop, CanBlock, TypeOK
  <2> QED BY <1>35, <2>2, IdleControlKept DEF InterProStartStop, CanBlock, IdleControl
<1>36. ASSUME NEW t \in Tid, InterProStartHead(t) PROVE IdleControl'
  <2>1. t # IdleThreadTid BY <1>36 DEF InterProStartHead, CanBlock
  <2>2. pc'[IdleThreadTid] = pc[IdleThreadTid] /\ op'[IdleThreadTid] = op[IdleThreadTid]
    BY <1>36, <2>1 DEF InterProStartHead, CanBlock, TypeOK
  <2> QED BY <1>36, <2>2, IdleControlKept DEF InterProStartHead, CanBlock, IdleControl
<1>37. ASSUME NEW t \in Tid, NEW c \in Chan, SyncSignal(t, c) PROVE IdleControl'
  <2>1. timeout'[IdleThreadTid] = timeout[IdleThreadTid] \/ timeout'[IdleThreadTid] = Forever
    BY <1>37, SignalMoves DEF SyncSignal, Moved, TypeOK
  <2> QED BY <1>37, <2>1, IdleControlKept DEF SyncSignal, IdleControl
<1>38. ASSUME NEW t \in Tid, Create(t) PROVE IdleControl'
  <2>1. t # IdleThreadTid BY <1>38 DEF Create, InApp, ControlInv, IdlePhase
  <2>2. CASE nthread # IdleThreadTid
    <3>1. pc'[IdleThreadTid] = pc[IdleThreadTid] /\ op'[IdleThreadTid] = op[IdleThreadTid]
      BY <1>38, <2>1, <2>2 DEF Create, TypeOK
    <3> QED BY <1>38, <3>1, IdleControlKept DEF Create, IdleControl
  <2>3. CASE nthread = IdleThreadTid
    <3>1. pc'[IdleThreadTid] = "run" /\ op'[IdleThreadTid] = op[IdleThreadTid] /\ op[IdleThreadTid] = "none"
      <4>1. pc[IdleThreadTid] = "none" BY <2>3 DEF ControlInv, TypeOK
      <4> QED BY <1>38, <2>1, <2>3, <4>1 DEF Create, TypeOK, StatusInv, StatusAt, HoldPc, FrontPc, NextPc
    <3> QED BY <1>38, <3>1 DEF Create, IdleControl, IdlePc
  <2> QED BY <2>2, <2>3
<1>39. ASSUME NEW t \in Tid, FakeEnd(t) PROVE IdleControl'
  <2>1. t # IdleThreadTid BY <1>39 DEF FakeEnd, InApp, ControlInv, IdlePhase
  <2>2. pc'[IdleThreadTid] = pc[IdleThreadTid] /\ op'[IdleThreadTid] = op[IdleThreadTid]
    BY <1>39, <2>1 DEF FakeEnd, InApp, TypeOK
  <2> QED BY <1>39, <2>2, IdleControlKept DEF FakeEnd, InApp, IdleControl
<1>40. ASSUME NEW t \in Tid, EndOp(t) PROVE IdleControl'
  <2>1. t # IdleThreadTid BY <1>40 DEF EndOp, InApp, ControlInv, IdlePhase
  <2>2. pc'[IdleThreadTid] = pc[IdleThreadTid] /\ op'[IdleThreadTid] = op[IdleThreadTid]
    BY <1>40, <2>1 DEF EndOp, InApp, TypeOK
  <2> QED BY <1>40, <2>2, IdleControlKept DEF EndOp, InApp, IdleControl
<1>41. ASSUME NEW t \in Tid, InterProEnd(t) PROVE IdleControl'
  <2>1. t # IdleThreadTid BY <1>41 DEF InterProEnd, IdleControl
  <2>2. pc'[IdleThreadTid] = pc[IdleThreadTid] /\ op'[IdleThreadTid] = op[IdleThreadTid]
    BY <1>41, <2>1 DEF InterProEnd, TypeOK
  <2> QED BY <1>41, <2>2, IdleControlKept DEF InterProEnd, IdleControl
<1>42. ASSUME NEW t \in Tid, CondSpurious(t) PROVE IdleControl'
  BY <1>42 DEF CondSpurious, IdleControl, TypeOK, ControlInv, IdlePc
<1>43. ASSUME ProgEnd PROVE IdleControl'
  BY <1>43 DEF ProgEnd, IdleControl, TypeOK, IdlePc
<1>44. CASE UNCHANGED vars
  BY <1>44 DEF vars, IdleControl
<1> QED
  BY <1>1, <1>2, <1>3, <1>4, <1>5, <1>6, <1>7, <1>8, <1>9, <1>10, <1>11, <1>12,
     <1>13, <1>14, <1>15, <1>16, <1>17, <1>18, <1>19, <1>20, <1>21, <1>22, <1>23,
     <1>24, <1>25, <1>26, <1>27, <1>28, <1>29, <1>30, <1>31, <1>32, <1>33, <1>34,
     <1>35, <1>36, <1>37, <1>38, <1>39, <1>40, <1>41, <1>42, <1>43, <1>44, <1>45, <1>46
  DEF Next, SchedulerStep, IdleStep, MainStep, AppStep, EnvStep

\* IdlePlace says nothing while the idle thread is not leaving the run queue.
LEMMA IdleElsewhere ==
  ASSUME pc'[IdleThreadTid] \notin {"leave", "wait"} \cup NextPc PROVE IdlePlace'
  BY DEF IdlePlace

\* A step that takes neither the turn from the idle thread nor anybody off the run queue,
\* and stops no running thread, keeps somebody there.
LEMMA IdlePlaceKept ==
  ASSUME IdlePlace, TypeOK, ToSet(runq) \subseteq ToSet(runq'),
         \A v \in Tid : status[v] \in Running => status'[v] \in Running,
         op'[IdleThreadTid] = op[IdleThreadTid],
         \/ pc'[IdleThreadTid] = pc[IdleThreadTid]
         \/ pc[IdleThreadTid] \in NextPc /\ pc'[IdleThreadTid] \in NextPc
  PROVE  IdlePlace'
<1>1. ToSet(runq) \subseteq Tid BY QueuedTid
<1> QED BY <1>1 DEF IdlePlace, NextPc

\* While another thread has the turn, the idle thread is not leaving the run queue.
LEMMA IdleHasNoTurn ==
  ASSUME IInv, NEW t \in Tid, t # IdleThreadTid, HasTurn(t)
  PROVE  pc[IdleThreadTid] \notin {"leave", "wait"} \cup NextPc
  BY TidFacts DEF IInv, OneTurn, HasTurn, HoldPc, FrontPc

\* The idle thread leaves the run queue only with somebody else on it.
LEMMA IdlePlaceStep == ASSUME FullInv, [Next]_vars PROVE IdlePlace'
<1> USE TidFacts DEF IInv, FullInv, Goto, RealPhase, Begin, NextPhase, queueVars, wakeVars, idleVars
<1>1. ASSUME NEW t \in Tid, GetTurn(t) PROVE IdlePlace'
  <2>1. t # IdleThreadTid => pc[IdleThreadTid] \notin {"leave", "wait"} \cup NextPc
    BY <1>1, IdleHasNoTurn DEF GetTurn, HasTurn, HoldPc, FrontPc, NextPc
  <2> QED
    BY <1>1, <2>1, IdleElsewhere DEF GetTurn, TypeOK, NextPc
<1>2. ASSUME NEW t \in Tid, IncTurnCount(t) PROVE IdlePlace'
  <2>1. t # IdleThreadTid => pc[IdleThreadTid] \notin {"leave", "wait"} \cup NextPc
    BY <1>2, IdleHasNoTurn DEF IncTurnCount, HasTurn, HoldPc, FrontPc, NextPc
  <2> QED
    BY <1>2, <2>1, IdleElsewhere DEF IncTurnCount, TypeOK, NextPc
<1>3. ASSUME NEW t \in Tid, FireTimeout(t) PROVE IdlePlace'
  <2>1. t # IdleThreadTid => pc[IdleThreadTid] \notin {"leave", "wait"} \cup NextPc
    BY <1>3, IdleHasNoTurn DEF FireTimeout, HasTurn, HoldPc, FrontPc, NextPc
  <2> QED
    BY <1>3, <2>1, IdleElsewhere DEF FireTimeout, TypeOK, NextPc
<1>4. ASSUME NEW t \in Tid, FireDone(t) PROVE IdlePlace'
  <2>1. t # IdleThreadTid => pc[IdleThreadTid] \notin {"leave", "wait"} \cup NextPc
    BY <1>4, IdleHasNoTurn DEF FireDone, HasTurn, HoldPc, FrontPc, NextPc
  <2> QED
    BY <1>4, <2>1, IdleElsewhere DEF FireDone, TypeOK, NextPc
<1>5. ASSUME NEW t \in Tid, CheckWakeupFlag(t) PROVE IdlePlace'
  <2>1. t # IdleThreadTid => pc[IdleThreadTid] \notin {"leave", "wait"} \cup NextPc
    BY <1>5, IdleHasNoTurn DEF CheckWakeupFlag, HasTurn, HoldPc, FrontPc, NextPc
  <2>2. CASE t # IdleThreadTid
    BY <1>5, <2>1, <2>2, IdleElsewhere DEF CheckWakeupFlag, TypeOK
  <2>3. CASE t = IdleThreadTid
    <3>1. CASE pc[t] \in NextPc BY <1>5, <2>3, <3>1, IdlePlaceKept DEF CheckWakeupFlag, TypeOK, NextPc
    <3>2. CASE pc[t] \notin NextPc
      <4>1. op[t] # "block" /\ op[t] # "none" /\ op[t] \in Op BY <1>5, <2>3, <3>2 DEF CheckWakeupFlag, ControlInv, IdleControl, TypeOK, NextPc
      <4>2. /\ pc'[t] \notin NextPc \cup {"leave"} /\ (pc'[t] = "wait" => op[t] = "wait")
        BY <1>5, <2>3, <3>2, <4>1 DEF CheckWakeupFlag, AfterInc, TypeOK, NextPc, Op, NextOp
      <4>3. op' = op BY <1>5 DEF CheckWakeupFlag
      <4> QED BY <2>3, <4>2, <4>3 DEF IdlePlace
    <3> QED BY <3>1, <3>2
  <2> QED BY <2>2, <2>3
<1>6. ASSUME NEW t \in Tid, NEW u \in wakeTids, CheckWakeupOne(t, u) PROVE IdlePlace'
  <2>1. u \in Tid /\ ToSet(runq') = ToSet(runq) \cup {u} BY <1>6, AppendProps DEF CheckWakeupOne, TypeOK
  <2> QED BY <1>6, <2>1, IdlePlaceKept DEF CheckWakeupOne
<1>7. ASSUME NEW t \in Tid, CheckWakeupDone(t) PROVE IdlePlace'
  <2>1. t # IdleThreadTid => pc[IdleThreadTid] \notin {"leave", "wait"} \cup NextPc
    BY <1>7, IdleHasNoTurn DEF CheckWakeupDone, HasTurn, HoldPc, FrontPc, NextPc
  <2>2. CASE t # IdleThreadTid
    BY <1>7, <2>1, <2>2, IdleElsewhere DEF CheckWakeupDone, TypeOK
  <2>3. CASE t = IdleThreadTid
    <3>1. CASE pc[t] \in NextPc BY <1>7, <2>3, <3>1, IdlePlaceKept DEF CheckWakeupDone, TypeOK, NextPc
    <3>2. CASE pc[t] \notin NextPc
      <4>1. op[t] # "block" /\ op[t] # "none" /\ op[t] \in Op BY <1>7, <2>3, <3>2 DEF CheckWakeupDone, ControlInv, IdleControl, TypeOK, NextPc
      <4>2. /\ pc'[t] \notin NextPc \cup {"leave"} /\ (pc'[t] = "wait" => op[t] = "wait")
        BY <1>7, <2>3, <3>2, <4>1 DEF CheckWakeupDone, AfterInc, TypeOK, NextPc, Op, NextOp
      <4>3. op' = op BY <1>7 DEF CheckWakeupDone
      <4> QED BY <2>3, <4>2, <4>3 DEF IdlePlace
    <3> QED BY <3>1, <3>2
  <2> QED BY <2>2, <2>3
<1>8. ASSUME NEW t \in Tid, Leave(t) PROVE IdlePlace'
  <2>1. t # IdleThreadTid => pc[IdleThreadTid] \notin {"leave", "wait"} \cup NextPc
    BY <1>8, IdleHasNoTurn DEF Leave, LeaveFront, HasTurn, HoldPc, FrontPc, NextPc
  <2>2. CASE t # IdleThreadTid
    BY <1>8, <2>1, <2>2, IdleElsewhere DEF Leave, LeaveFront, TypeOK
  <2>3. CASE t = IdleThreadTid
    <3>1. runq # <<>> /\ Head(runq) = t BY <1>8 DEF HolderAtFront, Leave, FrontPc
    <3>2. ToSet(Tail(runq)) = ToSet(runq) \ {t} BY <3>1, PopHead
    <3>3. ToSet(runq') = ToSet(runq) \ {t} BY <1>8, <3>2 DEF Leave, LeaveFront
    <3>4. \A v \in Tid \ {t} : status'[v] = status[v] BY <1>8 DEF Leave, LeaveFront, TypeOK
    <3>5. ToSet(runq) \subseteq Tid BY QueuedTid
    <3>6. op'[t] = "threadEnd" /\ op[t] = "threadEnd" BY <1>8, <2>3 DEF Leave, ControlInv, IdleControl
    <3> QED BY <1>8, <2>3, <3>3, <3>6 DEF Leave, IdlePlace
  <2> QED BY <2>2, <2>3
<1>9. ASSUME NEW t \in Tid, PutTurn(t) PROVE IdlePlace'
  <2>1. t # IdleThreadTid => pc[IdleThreadTid] \notin {"leave", "wait"} \cup NextPc
    BY <1>9, IdleHasNoTurn DEF PutTurn, HasTurn, HoldPc, FrontPc, NextPc
  <2>2. CASE t # IdleThreadTid
    BY <1>9, <2>1, <2>2, IdleElsewhere DEF PutTurn, TypeOK
  <2>3. CASE t = IdleThreadTid
    <3>1. op' = op /\ op[t] = "putTurn" BY <1>9 DEF PutTurn, ControlInv
    <3> QED BY <2>3, <3>1 DEF IdlePlace
  <2> QED BY <2>2, <2>3
<1>10. ASSUME NEW t \in Tid, ThreadEnd(t) PROVE IdlePlace'
  <2>1. t # IdleThreadTid => pc[IdleThreadTid] \notin {"leave", "wait"} \cup NextPc
    BY <1>10, IdleHasNoTurn DEF ThreadEnd, HasTurn, HoldPc, FrontPc, NextPc
  <2>2. CASE t # IdleThreadTid
    BY <1>10, <2>1, <2>2, IdleElsewhere DEF ThreadEnd, TypeOK
  <2>3. CASE t = IdleThreadTid
    <3>1. op[t] = "threadEnd" /\ op' = op /\ pc'[t] = "leave" BY <1>10 DEF ThreadEnd, ControlInv, TypeOK
    <3>2. MainThreadTid \in ToSet(runq) \/ (MainThreadTid \in ToSet(waitq) /\ chan[MainThreadTid] = IdleThreadTid)
      <4>1. idle_done /\ pc[IdleThreadTid] # "dead" BY <1>10, <2>3, <3>1 DEF ThreadEnd, IdleControl
      <4>2. phase[MainThreadTid] \in {"unlock", "signal", "join"} \cup RealPhase BY <4>1 DEF IdleControl, MainControl
      <4> QED BY <4>2 DEF MainPlace
    <3>3. MainThreadTid \in ToSet(runq')
      <4>1. CASE UNCHANGED queueVars /\ NoneIn(WaitersOn(t))
        <5>1. MainThreadTid \in ToSet(waitq) => chan[MainThreadTid] # IdleThreadTid
          BY <2>3, <4>1, InToSet DEF NoneIn, WaitersOn, TypeOK
        <5> QED BY <3>2, <4>1, <5>1
      <4>2. ASSUME NEW i \in 1..Len(waitq), FirstIn(i, WaitersOn(t)), Release(i, "0")
            PROVE  MainThreadTid \in ToSet(runq')
        <5>1. Moved(waitq[i], "0") BY <4>2, ReleaseMoves
        <5>2. waitq[i] = MainThreadTid BY <2>3, <4>2 DEF FirstIn, WaitersOn, MainPlace
        <5> QED BY <5>1, <5>2 DEF Moved
      <4> QED BY <1>10, <4>1, <4>2 DEF ThreadEnd, signal
    <3> QED BY <2>3, <3>1, <3>3 DEF IdlePlace
  <2> QED BY <2>2, <2>3
<1>11. ASSUME NEW t \in Tid, Wait(t) PROVE IdlePlace'
  <2>1. t # IdleThreadTid => pc[IdleThreadTid] \notin {"leave", "wait"} \cup NextPc
    BY <1>11, IdleHasNoTurn DEF Wait, LeaveFront, HasTurn, HoldPc, FrontPc, NextPc
  <2>2. CASE t # IdleThreadTid
    BY <1>11, <2>1, <2>2, IdleElsewhere DEF Wait, LeaveFront, TypeOK
  <2>3. CASE t = IdleThreadTid
    <3>1. runq # <<>> /\ Head(runq) = t BY <1>11 DEF HolderAtFront, Wait, FrontPc
    <3>2. ToSet(Tail(runq)) = ToSet(runq) \ {t} BY <3>1, PopHead
    <3>3. ToSet(runq') = ToSet(runq) \ {t} BY <1>11, <3>2 DEF Wait, LeaveFront
    <3>4. \A v \in Tid \ {t} : status'[v] = status[v] BY <1>11 DEF Wait, LeaveFront, TypeOK
    <3>5. ToSet(runq) \subseteq Tid BY QueuedTid
    <3>6. op' = op /\ op[t] \in {"wait", "idleCondWait"} BY <1>11 DEF Wait, ControlInv
    <3> QED BY <1>11, <2>3, <3>3, <3>4, <3>5, <3>6 DEF Wait, IdlePlace
  <2> QED BY <2>2, <2>3
<1>12. ASSUME NEW t \in Tid, NextInvalid(t) PROVE IdlePlace'
  <2>1. t # IdleThreadTid => pc[IdleThreadTid] \notin {"leave", "wait"} \cup NextPc
    BY <1>12, IdleHasNoTurn DEF NextInvalid, HasTurn, HoldPc, FrontPc, NextPc
  <2> QED
    BY <1>12, <2>1, IdleElsewhere DEF NextInvalid, TypeOK, NextPc
<1>13. ASSUME NEW t \in Tid, WakeUpIdleThreadExit(t) PROVE IdlePlace'
  <2>1. t # IdleThreadTid => pc[IdleThreadTid] \notin {"leave", "wait"} \cup NextPc
    BY <1>13, IdleHasNoTurn DEF WakeUpIdleThreadExit, EmptyScan, HasTurn, HoldPc, FrontPc, NextPc
  <2> QED
    BY <1>13, <2>1, IdleElsewhere DEF WakeUpIdleThreadExit, EmptyScan, TypeOK, NextPc
<1>14. ASSUME NEW t \in Tid, WakeUpIdleThread(t) PROVE IdlePlace'
  <2>1. t # IdleThreadTid BY <1>14, IdleFindsSomebody DEF WakeUpIdleThread, EmptyScan
  <2>2. pc[IdleThreadTid] \notin {"leave", "wait"} \cup NextPc
    BY <1>14, <2>1, IdleHasNoTurn DEF WakeUpIdleThread, EmptyScan, HasTurn, HoldPc, NextPc
  <2> QED BY <1>14, <2>1, <2>2, IdleElsewhere DEF WakeUpIdleThread, TypeOK
<1>15. ASSUME NEW t \in Tid, SignalIdle(t) PROVE IdlePlace'
  <2>1. t # IdleThreadTid => pc[IdleThreadTid] \notin {"leave", "wait"} \cup NextPc
    BY <1>15, IdleHasNoTurn DEF SignalIdle, HasTurn, HoldPc, NextPc
  <2>2. CASE t # IdleThreadTid
    <3>1. pc'[IdleThreadTid] = pc[IdleThreadTid] \/ pc'[IdleThreadTid] = "waking" BY <1>15, <2>2 DEF SignalIdle, TypeOK
    <3> QED BY <2>1, <2>2, <3>1, IdleElsewhere DEF NextPc
  <2>3. CASE t = IdleThreadTid BY <1>15, <2>3, IdlePlaceKept DEF SignalIdle, TypeOK, NextPc
  <2> QED BY <2>2, <2>3
<1>16. ASSUME NEW t \in Tid, SkipHead(t) PROVE IdlePlace'
  <2>1. PICK h \in Tid : ToSet(runq') = ToSet(runq) \ {h} /\ status[h] = "INTER_PRO_STOP"
    BY <1>16, PopHead DEF SkipHead
  <2>2. op[IdleThreadTid] = "threadEnd" => h # MainThreadTid BY <2>1 DEF IdleControl, MainControl
  <2>3. status[h] \notin Running BY <2>1 DEF Running
  <2> QED BY <1>16, <2>1, <2>2, <2>3 DEF SkipHead, IdlePlace
<1>17. ASSUME NEW t \in Tid, PassTurn(t) PROVE IdlePlace'
  <2>1. t # IdleThreadTid => pc[IdleThreadTid] \notin {"leave", "wait"} \cup NextPc
    BY <1>17, IdleHasNoTurn DEF PassTurn, HasTurn, HoldPc, FrontPc, NextPc
  <2>2. CASE t # IdleThreadTid
    BY <1>17, <2>1, <2>2, IdleElsewhere DEF PassTurn, TypeOK
  <2>3. CASE t = IdleThreadTid
    <3>1. op[t] \in NextOp /\ pc'[t] = AfterNext(op[t]) BY <1>17 DEF PassTurn, ControlInv, NextPc, TypeOK
    <3>2. pc'[t] \notin {"leave", "wait"} \cup NextPc BY <3>1 DEF AfterNext, NextOp, NextPc
    <3> QED BY <2>3, <3>2, IdleElsewhere
  <2> QED BY <2>2, <2>3
<1>18. ASSUME NEW t \in Tid, Block(t) PROVE IdlePlace'
  <2>1. t # IdleThreadTid => pc[IdleThreadTid] \notin {"leave", "wait"} \cup NextPc
    BY <1>18, IdleHasNoTurn DEF Block, HasTurn, HoldPc, FrontPc, NextPc
  <2> QED
    BY <1>18, <2>1, IdleElsewhere DEF Block, TypeOK, NextPc
<1>19. ASSUME NEW t \in Tid, Wakeup(t) PROVE IdlePlace'
  <2>1. \A v \in Tid : status[v] \in Running => status'[v] \in Running
    BY <1>19 DEF Wakeup, TypeOK, Running, Status
  <2>2. \/ pc'[IdleThreadTid] = pc[IdleThreadTid]
        \/ pc'[IdleThreadTid] \notin {"leave", "wait"} \cup NextPc
    BY <1>19 DEF Wakeup, TypeOK, NextPc
  <2> QED BY <1>19, <2>1, <2>2, IdlePlaceKept, IdleElsewhere DEF Wakeup
<1>20. ASSUME NEW t \in Tid, LockIdleMutex(t) PROVE IdlePlace'
  <2>1. t # IdleThreadTid => pc[IdleThreadTid] \notin {"leave", "wait"} \cup NextPc
    BY <1>20, IdleHasNoTurn DEF LockIdleMutex, HasTurn, HoldPc, FrontPc, NextPc
  <2> QED
    BY <1>20, <2>1, IdleElsewhere DEF LockIdleMutex, TypeOK, NextPc
<1>21. ASSUME NEW t \in Tid, UnlockIdleMutex(t) PROVE IdlePlace'
  <2>1. t # IdleThreadTid => pc[IdleThreadTid] \notin {"leave", "wait"} \cup NextPc
    BY <1>21, IdleHasNoTurn DEF UnlockIdleMutex, HasTurn, HoldPc, FrontPc, NextPc
  <2> QED
    BY <1>21, <2>1, IdleElsewhere DEF UnlockIdleMutex, TypeOK, NextPc
<1>22. ASSUME NEW t \in Tid, IdleSleep(t) PROVE IdlePlace'
  <2>1. t # IdleThreadTid => pc[IdleThreadTid] \notin {"leave", "wait"} \cup NextPc
    BY <1>22, IdleHasNoTurn DEF IdleSleep, HasTurn, HoldPc, FrontPc, NextPc
  <2> QED
    BY <1>22, <2>1, IdleElsewhere DEF IdleSleep, TypeOK, NextPc
<1>23. ASSUME NEW t \in Tid, IdleCondWait(t) PROVE IdlePlace'
  <2>1. t # IdleThreadTid => pc[IdleThreadTid] \notin {"leave", "wait"} \cup NextPc
    BY <1>23, IdleHasNoTurn DEF IdleCondWait, HasTurn, HoldPc, FrontPc, NextPc
  <2> QED
    BY <1>23, <2>1, IdleElsewhere DEF IdleCondWait, TypeOK, NextPc
<1>24. ASSUME NEW t \in Tid, IdleCheckRunq(t) PROVE IdlePlace'
  <2>1. t # IdleThreadTid => pc[IdleThreadTid] \notin {"leave", "wait"} \cup NextPc
    BY <1>24, IdleHasNoTurn DEF IdleCheckRunq, HasTurn, HoldPc, FrontPc, NextPc
  <2> QED
    BY <1>24, <2>1, IdleElsewhere DEF IdleCheckRunq, TypeOK, NextPc
<1>25. ASSUME NEW t \in Tid, TryPutTurn(t) PROVE IdlePlace'
  <2>1. t = IdleThreadTid /\ itr >= 2 /\ itr \in Nat /\ itr <= Len(runq) /\ op[t] = "idleCondWait" /\ pc[t] = "tryPutTurn"
    BY <1>25 DEF TryPutTurn, ControlInv, IdleControl, TypeOK
  <2>2. CASE status[runq[itr]] # "RUNNABLE" BY <1>25, <2>1, <2>2, IdlePlaceKept DEF TryPutTurn
  <2>3. CASE status[runq[itr]] = "RUNNABLE"
    <3>1. runq # <<>> /\ Head(runq) = t BY <2>1 DEF HolderAtFront, FrontPc
    <3>2. runq \in Seq(Tid) /\ IsInjective(runq) BY DEF TypeOK, QueueInv
    <3>3. /\ 1 \in 1..Len(runq) /\ itr \in 1..Len(runq) /\ itr # 1
          /\ Head(runq) = runq[1] /\ DOMAIN runq = 1..Len(runq)
      BY <2>1, <3>1, <3>2
    <3>4. runq[itr] # t BY <3>1, <3>2, <3>3 DEF IsInjective
    <3>5. PICK u \in Tid : u = runq[itr] /\ u \in ToSet(runq) BY <3>2, <3>3, InToSet
    <3>6. status'[u] = "RUNNING_REG" /\ op' = op /\ runq' = runq BY <1>25, <2>3, <3>5 DEF TryPutTurn, TypeOK
    <3> QED BY <2>1, <3>4, <3>5, <3>6 DEF IdlePlace, Running
  <2> QED BY <2>2, <2>3
<1>26. ASSUME NEW t \in Tid, TryPutTurnFail(t) PROVE IdlePlace'
  <2>1. t # IdleThreadTid => pc[IdleThreadTid] \notin {"leave", "wait"} \cup NextPc
    BY <1>26, IdleHasNoTurn DEF TryPutTurnFail, HasTurn, HoldPc, FrontPc, NextPc
  <2> QED
    BY <1>26, <2>1, IdleElsewhere DEF TryPutTurnFail, TypeOK, NextPc
<1>27. ASSUME NEW t \in Tid, CondSleep(t) PROVE IdlePlace'
  <2>1. t = IdleThreadTid BY <1>27 DEF CondSleep, ControlInv, IdlePc
  <2> QED BY <1>27, <2>1, IdleElsewhere DEF CondSleep, TypeOK, NextPc
<1>28. ASSUME NEW t \in Tid, CondReturn(t) PROVE IdlePlace'
  <2>1. t = IdleThreadTid BY <1>28 DEF CondReturn, ControlInv, IdlePc
  <2> QED BY <1>28, <2>1, IdleElsewhere DEF CondReturn, TypeOK, NextPc
<1>29. ASSUME NEW t \in Tid, Exit(t) PROVE IdlePlace'
  <2>1. t # IdleThreadTid => pc[IdleThreadTid] \notin {"leave", "wait"} \cup NextPc
    BY <1>29, IdleHasNoTurn DEF Exit, HasTurn, HoldPc, FrontPc, NextPc
  <2> QED
    BY <1>29, <2>1, IdleElsewhere DEF Exit, TypeOK, NextPc
<1>30. ASSUME SetIdleDone PROVE IdlePlace'
  BY <1>30, IdlePlaceKept DEF SetIdleDone
<1>31. ASSUME ProgEndSignal PROVE IdlePlace'
  <2>1. pc[IdleThreadTid] \notin {"leave", "wait"} \cup NextPc
    BY <1>31, IdleHasNoTurn DEF ProgEndSignal, HasTurn, HoldPc, FrontPc
  <2> QED BY <1>31, <2>1, IdleElsewhere DEF ProgEndSignal, TypeOK
<1>32. ASSUME ProgEndRealSignal PROVE IdlePlace'
  <2>1. pc'[IdleThreadTid] = pc[IdleThreadTid] \/ pc'[IdleThreadTid] = "waking" BY <1>32 DEF ProgEndRealSignal, TypeOK
  <2> QED BY <1>32, <2>1, IdlePlaceKept, IdleElsewhere DEF ProgEndRealSignal, NextPc
<1>45. ASSUME ProgEndRealLock PROVE IdlePlace'
  <2>1. pc'[IdleThreadTid] = pc[IdleThreadTid] \/ pc'[IdleThreadTid] = "waking" BY <1>45 DEF ProgEndRealLock, TypeOK
  <2> QED BY <1>45, <2>1, IdlePlaceKept, IdleElsewhere DEF ProgEndRealLock, NextPc
<1>46. ASSUME ProgEndRealUnlock PROVE IdlePlace'
  <2>1. pc'[IdleThreadTid] = pc[IdleThreadTid] \/ pc'[IdleThreadTid] = "waking" BY <1>46 DEF ProgEndRealUnlock, TypeOK
  <2> QED BY <1>46, <2>1, IdlePlaceKept, IdleElsewhere DEF ProgEndRealUnlock, NextPc
<1>33. ASSUME ProgEndJoin PROVE IdlePlace'
  <2>1. pc[IdleThreadTid] \notin {"leave", "wait"} \cup NextPc
    BY <1>33, IdleHasNoTurn DEF ProgEndJoin, HasTurn, HoldPc, FrontPc
  <2> QED BY <1>33, <2>1, IdleElsewhere DEF ProgEndJoin, TypeOK
<1>34. ASSUME NEW t \in Tid, CallGetTurn(t) PROVE IdlePlace'
  <2>1. \A v \in Tid : status[v] \in Running => status'[v] \in Running
    BY <1>34 DEF CallGetTurn, TypeOK, Running, Status
  <2>2. \/ pc'[IdleThreadTid] = pc[IdleThreadTid]
        \/ pc'[IdleThreadTid] \notin {"leave", "wait"} \cup NextPc
    BY <1>34 DEF CallGetTurn, TypeOK, NextPc
  <2> QED BY <1>34, <2>1, <2>2, IdlePlaceKept, IdleElsewhere DEF CallGetTurn
<1>35. ASSUME NEW t \in Tid, InterProStartStop(t) PROVE IdlePlace'
  <2>1. \A v \in Tid : status[v] \in Running => status'[v] \in Running
    BY <1>35 DEF InterProStartStop, CanBlock, TypeOK, Running, Status
  <2>2. \/ pc'[IdleThreadTid] = pc[IdleThreadTid]
        \/ pc'[IdleThreadTid] \notin {"leave", "wait"} \cup NextPc
    BY <1>35 DEF InterProStartStop, CanBlock, TypeOK, NextPc
  <2> QED BY <1>35, <2>1, <2>2, IdlePlaceKept, IdleElsewhere DEF InterProStartStop
<1>36. ASSUME NEW t \in Tid, InterProStartHead(t) PROVE IdlePlace'
  <2>1. \A v \in Tid : status[v] \in Running => status'[v] \in Running
    BY <1>36 DEF InterProStartHead, CanBlock, TypeOK, Running, Status
  <2>2. \/ pc'[IdleThreadTid] = pc[IdleThreadTid]
        \/ pc'[IdleThreadTid] \notin {"leave", "wait"} \cup NextPc
    BY <1>36 DEF InterProStartHead, CanBlock, TypeOK, NextPc
  <2> QED BY <1>36, <2>1, <2>2, IdlePlaceKept, IdleElsewhere DEF InterProStartHead
<1>37. ASSUME NEW t \in Tid, NEW c \in Chan, SyncSignal(t, c) PROVE IdlePlace'
  <2>1. t # IdleThreadTid => pc[IdleThreadTid] \notin {"leave", "wait"} \cup NextPc
    BY <1>37, IdleHasNoTurn DEF SyncSignal, InApp, HasTurn, HoldPc, FrontPc, NextPc
  <2> QED
    BY <1>37, <2>1, IdleElsewhere DEF SyncSignal, InApp, TypeOK, NextPc
<1>38. ASSUME NEW t \in Tid, Create(t) PROVE IdlePlace'
  <2>1. t # IdleThreadTid /\ pc[t] = "turn" BY <1>38 DEF Create, InApp, ControlInv, IdlePhase
  <2>2. pc[IdleThreadTid] \notin {"leave", "wait"} \cup NextPc
    BY <2>1, IdleHasNoTurn DEF HasTurn, HoldPc, FrontPc
  <2>3. pc'[IdleThreadTid] = pc[IdleThreadTid] \/ pc'[IdleThreadTid] = "run"
    BY <1>38, <2>1 DEF Create, TypeOK
  <2> QED BY <2>2, <2>3, IdleElsewhere DEF NextPc
<1>39. ASSUME NEW t \in Tid, FakeEnd(t) PROVE IdlePlace'
  <2>1. t # IdleThreadTid => pc[IdleThreadTid] \notin {"leave", "wait"} \cup NextPc
    BY <1>39, IdleHasNoTurn DEF FakeEnd, InApp, HasTurn, HoldPc, FrontPc, NextPc
  <2> QED
    BY <1>39, <2>1, IdleElsewhere DEF FakeEnd, InApp, TypeOK, NextPc
<1>40. ASSUME NEW t \in Tid, EndOp(t) PROVE IdlePlace'
  <2>1. t # IdleThreadTid => pc[IdleThreadTid] \notin {"leave", "wait"} \cup NextPc
    BY <1>40, IdleHasNoTurn DEF EndOp, InApp, HasTurn, HoldPc, FrontPc, NextPc
  <2> QED
    BY <1>40, <2>1, IdleElsewhere DEF EndOp, InApp, TypeOK, NextPc
<1>41. ASSUME NEW t \in Tid, InterProEnd(t) PROVE IdlePlace'
  <2>1. \A v \in Tid : status[v] \in Running => status'[v] \in Running
    BY <1>41 DEF InterProEnd, TypeOK, Running, Status, StatusInv, StatusAt
  <2>2. \/ pc'[IdleThreadTid] = pc[IdleThreadTid]
        \/ pc'[IdleThreadTid] \notin {"leave", "wait"} \cup NextPc
    BY <1>41 DEF InterProEnd, TypeOK, NextPc
  <2> QED BY <1>41, <2>1, <2>2, IdlePlaceKept, IdleElsewhere DEF InterProEnd
<1>42. ASSUME NEW t \in Tid, CondSpurious(t) PROVE IdlePlace'
  <2>1. t = IdleThreadTid BY <1>42 DEF CondSpurious, ControlInv, IdlePc
  <2> QED BY <1>42, <2>1, IdleElsewhere DEF CondSpurious, TypeOK, NextPc
<1>43. ASSUME ProgEnd PROVE IdlePlace'
  BY <1>43, IdlePlaceKept DEF ProgEnd
<1>44. CASE UNCHANGED vars
  BY <1>44 DEF vars, IdlePlace
<1> QED
  BY <1>1, <1>2, <1>3, <1>4, <1>5, <1>6, <1>7, <1>8, <1>9, <1>10, <1>11, <1>12,
     <1>13, <1>14, <1>15, <1>16, <1>17, <1>18, <1>19, <1>20, <1>21, <1>22, <1>23,
     <1>24, <1>25, <1>26, <1>27, <1>28, <1>29, <1>30, <1>31, <1>32, <1>33, <1>34,
     <1>35, <1>36, <1>37, <1>38, <1>39, <1>40, <1>41, <1>42, <1>43, <1>44, <1>45, <1>46
  DEF Next, SchedulerStep, IdleStep, MainStep, AppStep, EnvStep

\* What a step can do to the two queues: nothing; release a waiter that signal() or
\* wakeUpIdleThread() chose, or one that timed out; add a thread to the run queue; pop the
\* head, which may begin to wait; move the head to the tail.
Woken ==
  \E i \in 1..Len(waitq) :
    /\ Release(i, "0")
    /\ \A v \in Tid : pc[v] # "fire"
    /\ \/ waitq[i] = IdleThreadTid
       \/ \E c \in Chan \cup Tid \cup {IdleCond, IdleMutex} : FirstIn(i, WaitersOn(c))
TimedOut == \E i \in 1..Len(waitq) : FirstIn(i, Expired) /\ Release(i, "ETIMEDOUT")
Added == waitq' = waitq /\ \E x \in Tid \ ToSet(runq) : runq' = Append(runq, x)
Popped ==
  /\ runq # <<>> /\ runq' = Tail(runq)
  /\ waitq' = waitq \/ \E x \in Tid : waitq' = Append(waitq, x)
Rotated == runq # <<>> /\ runq' = Append(Tail(runq), Head(runq)) /\ waitq' = waitq
Reshaped == UNCHANGED <<runq, waitq>> \/ Woken \/ TimedOut \/ Added \/ Popped \/ Rotated

\* signal(c), by the thread that has the turn and is not in fireTimeouts().
LEMMA SignalWakes ==
  ASSUME IInv, NEW t \in Tid, HasTurn(t), pc[t] # "fire",
         NEW c \in Chan \cup Tid \cup {IdleCond, IdleMutex}, signal(c)
  PROVE  Reshaped
<1>1. \A v \in Tid : pc[v] # "fire" BY DEF IInv, OneTurn, HasTurn, HoldPc, FrontPc
<1>2. CASE UNCHANGED queueVars BY <1>2 DEF queueVars, Reshaped
<1>3. CASE \E i \in 1..Len(waitq) : FirstIn(i, WaitersOn(c)) /\ Release(i, "0") BY <1>1, <1>3 DEF Woken, Reshaped
<1> QED BY <1>2, <1>3 DEF signal

\* Every step changes the queues in one of these ways.
LEMMA StepReshapes == ASSUME IInv, [Next]_vars PROVE Reshaped
<1> USE TidFacts DEF IInv, Goto, Begin, NextPhase, queueVars, wakeVars, idleVars
<1>1. ASSUME NEW t \in Tid, GetTurn(t) PROVE Reshaped
  BY <1>1 DEF GetTurn, Reshaped
<1>2. ASSUME NEW t \in Tid, IncTurnCount(t) PROVE Reshaped
  BY <1>2 DEF IncTurnCount, Reshaped
<1>3. ASSUME NEW t \in Tid, FireTimeout(t) PROVE Reshaped
  BY <1>3 DEF FireTimeout, Reshaped, TimedOut
<1>4. ASSUME NEW t \in Tid, FireDone(t) PROVE Reshaped
  BY <1>4 DEF FireDone, Reshaped
<1>5. ASSUME NEW t \in Tid, CheckWakeupFlag(t) PROVE Reshaped
  BY <1>5 DEF CheckWakeupFlag, Reshaped
<1>6. ASSUME NEW t \in Tid, NEW u \in wakeTids, CheckWakeupOne(t, u) PROVE Reshaped
  BY <1>6 DEF CheckWakeupOne, TypeOK, Added, Reshaped
<1>7. ASSUME NEW t \in Tid, CheckWakeupDone(t) PROVE Reshaped
  BY <1>7 DEF CheckWakeupDone, Reshaped
<1>8. ASSUME NEW t \in Tid, Leave(t) PROVE Reshaped
  <2>1. runq # <<>> /\ Head(runq) = t BY <1>8 DEF HolderAtFront, Leave, FrontPc
  <2> QED BY <1>8, <2>1 DEF Leave, LeaveFront, Popped, Reshaped
<1>9. ASSUME NEW t \in Tid, PutTurn(t) PROVE Reshaped
  <2>1. runq # <<>> /\ Head(runq) = t BY <1>9 DEF HolderAtFront, PutTurn, FrontPc
  <2> QED BY <1>9, <2>1 DEF PutTurn, Rotated, Reshaped
<1>10. ASSUME NEW t \in Tid, ThreadEnd(t) PROVE Reshaped
  BY <1>10, SignalWakes DEF ThreadEnd, HasTurn, HoldPc, FrontPc
<1>11. ASSUME NEW t \in Tid, Wait(t) PROVE Reshaped
  <2>1. runq # <<>> /\ Head(runq) = t BY <1>11 DEF HolderAtFront, Wait, FrontPc
  <2> QED BY <1>11, <2>1 DEF Wait, LeaveFront, Popped, Reshaped
<1>12. ASSUME NEW t \in Tid, NextInvalid(t) PROVE Reshaped
  BY <1>12 DEF NextInvalid, Reshaped
<1>13. ASSUME NEW t \in Tid, WakeUpIdleThreadExit(t) PROVE Reshaped
  BY <1>13 DEF WakeUpIdleThreadExit, EmptyScan, Reshaped
<1>14. ASSUME NEW t \in Tid, WakeUpIdleThread(t) PROVE Reshaped
  <2>1. \A v \in Tid : pc[v] # "fire"
    BY <1>14 DEF WakeUpIdleThread, EmptyScan, OneTurn, HasTurn, HoldPc, FrontPc, NextPc
  <2> QED BY <1>14, <2>1 DEF WakeUpIdleThread, FirstIn, Woken, Reshaped
<1>15. ASSUME NEW t \in Tid, SignalIdle(t) PROVE Reshaped
  BY <1>15 DEF SignalIdle, Reshaped
<1>16. ASSUME NEW t \in Tid, SkipHead(t) PROVE Reshaped
  BY <1>16 DEF SkipHead, Popped, Reshaped
<1>17. ASSUME NEW t \in Tid, PassTurn(t) PROVE Reshaped
  BY <1>17 DEF PassTurn, Reshaped
<1>18. ASSUME NEW t \in Tid, Block(t) PROVE Reshaped
  BY <1>18 DEF Block, Reshaped
<1>19. ASSUME NEW t \in Tid, Wakeup(t) PROVE Reshaped
  BY <1>19 DEF Wakeup, Reshaped
<1>20. ASSUME NEW t \in Tid, LockIdleMutex(t) PROVE Reshaped
  BY <1>20 DEF LockIdleMutex, Reshaped
<1>21. ASSUME NEW t \in Tid, UnlockIdleMutex(t) PROVE Reshaped
  BY <1>21, SignalWakes DEF UnlockIdleMutex, HasTurn, HoldPc, FrontPc
<1>22. ASSUME NEW t \in Tid, IdleSleep(t) PROVE Reshaped
  BY <1>22 DEF IdleSleep, Reshaped
<1>23. ASSUME NEW t \in Tid, IdleCondWait(t) PROVE Reshaped
  BY <1>23 DEF IdleCondWait, Reshaped
<1>24. ASSUME NEW t \in Tid, IdleCheckRunq(t) PROVE Reshaped
  BY <1>24 DEF IdleCheckRunq, Reshaped
<1>25. ASSUME NEW t \in Tid, TryPutTurn(t) PROVE Reshaped
  BY <1>25 DEF TryPutTurn, Reshaped
<1>26. ASSUME NEW t \in Tid, TryPutTurnFail(t) PROVE Reshaped
  BY <1>26 DEF TryPutTurnFail, Reshaped
<1>27. ASSUME NEW t \in Tid, CondSleep(t) PROVE Reshaped
  BY <1>27 DEF CondSleep, Reshaped
<1>28. ASSUME NEW t \in Tid, CondReturn(t) PROVE Reshaped
  BY <1>28 DEF CondReturn, Reshaped
<1>29. ASSUME NEW t \in Tid, Exit(t) PROVE Reshaped
  BY <1>29 DEF Exit, Reshaped
<1>30. ASSUME SetIdleDone PROVE Reshaped
  BY <1>30 DEF SetIdleDone, Reshaped
<1>31. ASSUME ProgEndSignal PROVE Reshaped
  BY <1>31, SignalWakes DEF ProgEndSignal, HasTurn, HoldPc, FrontPc
<1>32. ASSUME ProgEndRealSignal PROVE Reshaped
  BY <1>32 DEF ProgEndRealSignal, Reshaped
<1>45. ASSUME ProgEndRealLock PROVE Reshaped
  BY <1>45 DEF ProgEndRealLock, Reshaped
<1>46. ASSUME ProgEndRealUnlock PROVE Reshaped
  BY <1>46 DEF ProgEndRealUnlock, Reshaped
<1>33. ASSUME ProgEndJoin PROVE Reshaped
  BY <1>33 DEF ProgEndJoin, Reshaped
<1>34. ASSUME NEW t \in Tid, CallGetTurn(t) PROVE Reshaped
  BY <1>34 DEF CallGetTurn, Reshaped
<1>35. ASSUME NEW t \in Tid, InterProStartStop(t) PROVE Reshaped
  BY <1>35 DEF InterProStartStop, CanBlock, Reshaped
<1>36. ASSUME NEW t \in Tid, InterProStartHead(t) PROVE Reshaped
  BY <1>36 DEF InterProStartHead, CanBlock, Reshaped
<1>37. ASSUME NEW t \in Tid, NEW c \in Chan, SyncSignal(t, c) PROVE Reshaped
  BY <1>37, SignalWakes DEF SyncSignal, InApp, HasTurn, HoldPc, FrontPc
<1>38. ASSUME NEW t \in Tid, Create(t) PROVE Reshaped
  <2>1. nthread \in Tid BY <1>38 DEF Create, TypeOK
  <2>2. pc[nthread] = "none" BY <2>1 DEF ControlInv
  <2>3. nthread \notin ToSet(runq) BY <2>1, <2>2 DEF QueueInv
  <2> QED BY <1>38, <2>1, <2>3 DEF Create, Added, Reshaped
<1>39. ASSUME NEW t \in Tid, FakeEnd(t) PROVE Reshaped
  BY <1>39 DEF FakeEnd, InApp, Reshaped
<1>40. ASSUME NEW t \in Tid, EndOp(t) PROVE Reshaped
  BY <1>40 DEF EndOp, InApp, Reshaped
<1>41. ASSUME NEW t \in Tid, InterProEnd(t) PROVE Reshaped
  BY <1>41 DEF InterProEnd, Reshaped
<1>42. ASSUME NEW t \in Tid, CondSpurious(t) PROVE Reshaped
  BY <1>42 DEF CondSpurious, Reshaped
<1>43. ASSUME ProgEnd PROVE Reshaped
  BY <1>43 DEF ProgEnd, Reshaped
<1>44. CASE UNCHANGED vars
  BY <1>44 DEF vars, Reshaped
<1> QED
  BY <1>1, <1>2, <1>3, <1>4, <1>5, <1>6, <1>7, <1>8, <1>9, <1>10, <1>11, <1>12,
     <1>13, <1>14, <1>15, <1>16, <1>17, <1>18, <1>19, <1>20, <1>21, <1>22, <1>23,
     <1>24, <1>25, <1>26, <1>27, <1>28, <1>29, <1>30, <1>31, <1>32, <1>33, <1>34,
     <1>35, <1>36, <1>37, <1>38, <1>39, <1>40, <1>41, <1>42, <1>43, <1>44, <1>45, <1>46
  DEF Next, SchedulerStep, IdleStep, MainStep, AppStep, EnvStep

\* FullInv is inductive: IInv is, and each of its other parts is kept by every step that
\* starts in a state of FullInv.
THEOREM FullInductive == Spec => []FullInv
<1>1. Init => FullInv
  <2> SUFFICES ASSUME Init PROVE FullInv OBVIOUS
  <2> USE TidFacts, ThreadAssumption DEF Init
  <2>1. StatusInv BY DEF StatusInv, StatusAt, HoldPc, FrontPc, NextPc, IdlePc, Running
  <2>2. MainThreadTid \in ToSet(runq) BY DEF ToSet
  <2>3. PlaceInv BY <2>2 DEF PlaceInv, NextPc
  <2>4. DeadlineInv BY DEF DeadlineInv, NoOverdueWaiter, FiredPc
  <2>5. MainControl BY DEF MainControl
  <2>6. MainPlace
    <3>1. NULL # IdleThreadTid BY ChanAssumption
    <3> QED BY <3>1 DEF MainPlace, RealPhase
  <2>7. IdleControl BY DEF IdleControl, IdlePc
  <2>8. IdlePlace BY DEF IdlePlace, NextPc
  <2> QED BY InitIInv, <2>1, <2>3, <2>4, <2>5, <2>6, <2>7, <2>8 DEF FullInv
<1>2. FullInv /\ [Next]_vars => FullInv'
  <2> SUFFICES ASSUME FullInv, [Next]_vars PROVE FullInv' OBVIOUS
  <2>1. IInv' BY IInvStep DEF FullInv
  <2>2. StatusInv' BY StatusStep DEF FullInv
  <2>3. PlaceInv' BY PlaceStep DEF FullInv
  <2>4. DeadlineInv' BY DeadlineStep DEF FullInv
  <2> QED BY <2>1, <2>2, <2>3, <2>4, MainControlStep, MainPlaceStep, IdleControlStep, IdlePlaceStep DEF FullInv
<1> QED BY <1>1, <1>2, PTL DEF Spec

\* A thread that is not in a blocking call is on a queue, or its wakeup() is pending and the
\* flag that check_wakeup() tests is set: no interleaving of interProStart(), interProEnd()
\* and wakeup() with the holder's walk of the run queue loses a thread.
THEOREM NobodyIsLost == Spec => []NoThreadLost
<1>1. FullInv => NoThreadLost BY DEF FullInv, IInv, PlaceInv, WakeInv, NoThreadLost
<1> QED BY <1>1, FullInductive, PTL

\* The run-time assertions on the status of a run-queue element hold, and an empty run queue
\* is found only by a thread other than the idle one, when the idle thread is asleep in the
\* wait queue or gone.
THEOREM AssertionsHold == Spec => []AssertsHold
<1>1. FullInv => AssertsHold
  <2> SUFFICES ASSUME FullInv, NEW t \in Tid
               PROVE  /\ pc[t] = "leave" => status[t] \in Running
                      /\ pc[t] \in {"wait", "putTurn"} => status[t] = "RUNNING_REG"
                      /\ pc[t] = "run" => status[t] \in {"RUNNABLE", "RUNNING_REG"}
                      /\ pc[t] = "sys" => status[t] = "INTER_PRO_STOP"
                      /\ EmptyScan(t) =>
                           t # IdleThreadTid /\ (idle_done \/ IdleThreadTid \in ToSet(waitq))
                      /\ pc[t] = "tryPutTurn" => t = IdleThreadTid
    BY DEF AssertsHold
  <2> USE TidFacts DEF FullInv, IInv
  <2>1. pc[t] \in {"wait", "putTurn"} => op[t] # "block" BY DEF ControlInv
  <2>2. /\ pc[t] = "leave" => status[t] \in Running
        /\ pc[t] \in {"wait", "putTurn"} => status[t] = "RUNNING_REG"
        /\ pc[t] = "run" => status[t] \in {"RUNNABLE", "RUNNING_REG"}
        /\ pc[t] = "sys" => status[t] = "INTER_PRO_STOP"
    BY <2>1 DEF StatusInv, StatusAt, FrontPc, Running
  <2>3. ASSUME EmptyScan(t)
        PROVE  t # IdleThreadTid /\ (idle_done \/ IdleThreadTid \in ToSet(waitq))
    <3>1. t # IdleThreadTid BY <2>3, IdleFindsSomebody DEF EmptyScan
    <3> SUFFICES ASSUME ~idle_done PROVE IdleThreadTid \in ToSet(waitq) BY <3>1
    <3>2. op[t] \in {"threadEnd", "wait", "block"}
      <4>1. op[t] \in NextOp /\ (op[t] = "putTurn" => t \in ToSet(runq)) BY <2>3 DEF EmptyScan, ControlInv, PlaceInv, NextPc
      <4>2. ToSet(runq) = {} BY <2>3 DEF EmptyScan, ToSet
      <4> QED BY <3>1, <4>1, <4>2 DEF NextOp, ControlInv
    <3>3. pc[IdleThreadTid] # "none"
      <4>1. nthread > IdleThreadTid BY <3>2 DEF MainControl, Launched
      <4>2. ~(IdleThreadTid >= nthread) BY <4>1 DEF TypeOK
      <4> QED BY <4>2 DEF ControlInv
    <3>4. pc[IdleThreadTid] \notin NextPc
      BY <2>3, <3>1 DEF EmptyScan, OneTurn, HasTurn, HoldPc, NextPc
    <3>5. pc[IdleThreadTid] \notin {"sys", "wakeup", "dead", "exited"} /\ IdleThreadTid \notin wakeTids
      BY DEF IdleControl
    <3>6. ToSet(runq) = {} BY <2>3 DEF EmptyScan, ToSet
    <3> QED BY <3>3, <3>4, <3>5, <3>6 DEF PlaceInv
  <2>4. pc[t] = "tryPutTurn" => t = IdleThreadTid BY DEF ControlInv
  <2> QED BY <2>2, <2>3, <2>4
<1> QED BY <1>1, FullInductive, PTL

\* fireTimeouts() misses nobody: whoever sleeps past a deadline called wait() too late and
\* is the last of the wait queue.
THEOREM NobodyIsOverdue == Spec => []NoOverdueWaiter
<1>1. FullInv => NoOverdueWaiter BY DEF FullInv, DeadlineInv
<1> QED BY <1>1, FullInductive, PTL

\* A released waiter was at one index, the one released.
LEMMA OnlyReleased ==
  ASSUME IInv, NEW i \in 1..Len(waitq), NEW k \in 1..Len(waitq), NEW st, Release(k, st),
         waitq[i] \notin ToSet(waitq')
  PROVE  i = k /\ waitq[i] \in Tid /\ waitq[i] \in ToSet(runq') /\ ret'[waitq[i]] = st
<1> USE DEF IInv
<1>1. Moved(waitq[k], st) BY ReleaseMoves
<1>2. waitq \in Seq(Tid) /\ IsInjective(waitq) BY DEF TypeOK, QueueInv
<1>3. waitq[i] \in ToSet(waitq) /\ waitq[i] \in Tid BY <1>2, InToSet
<1>4. waitq[i] = waitq[k] BY <1>1, <1>3 DEF Moved
<1>5. i = k BY <1>2, <1>4 DEF IsInjective
<1> QED BY <1>1, <1>3, <1>4, <1>5 DEF Moved, TypeOK

\* Every wait that ends, ends for one of the reasons of WaitEndsForAReason: a signal to the
\* oldest waiter of its channel, the wakeup of the idle thread or a deadline that has passed.
THEOREM WaitsEndForAReason == Spec => WaitEndsForAReason
<1>1. FullInv /\ [Next]_vars => WaitsEnd
  <2> SUFFICES ASSUME FullInv, [Next]_vars, NEW i \in 1..Len(waitq), waitq[i] \notin ToSet(waitq')
               PROVE  /\ waitq[i] \in ToSet(runq')
                      /\ ret'[waitq[i]] = "ETIMEDOUT" => timeout[waitq[i]] <= 0
                      /\ ret'[waitq[i]] = "0" =>
                           /\ chan[waitq[i]] # NULL
                           /\ waitq[i] # IdleThreadTid =>
                                \A j \in 1..(i - 1) : chan[waitq[j]] # chan[waitq[i]]
                           /\ i < Len(waitq) => timeout[waitq[i]] >= 0
    BY DEF WaitsEnd
  <2> USE DEF FullInv
  <2>1. waitq \in Seq(Tid) /\ waitq[i] \in ToSet(waitq) BY InToSet DEF IInv, TypeOK
  <2>2. CASE waitq' = waitq BY <2>1, <2>2
  <2>3. ASSUME NEW x \in Tid, waitq' = Append(waitq, x) PROVE FALSE BY <2>1, <2>3, AppendProps
  <2>4. ASSUME NEW k \in 1..Len(waitq), FirstIn(k, Expired), Release(k, "ETIMEDOUT")
        PROVE  /\ waitq[i] \in ToSet(runq') /\ ret'[waitq[i]] = "ETIMEDOUT" /\ timeout[waitq[i]] < 0
    BY <2>4, OnlyReleased DEF FirstIn, Expired
  <2>5. ASSUME NEW k \in 1..Len(waitq), Release(k, "0"),
               \A v \in Tid : pc[v] # "fire",
               \/ waitq[k] = IdleThreadTid
               \/ \E c \in Chan \cup Tid \cup {IdleCond, IdleMutex} : FirstIn(k, WaitersOn(c))
        PROVE  /\ waitq[i] \in ToSet(runq') /\ ret'[waitq[i]] = "0"
               /\ chan[waitq[i]] # NULL
               /\ waitq[i] # IdleThreadTid => \A j \in 1..(i - 1) : chan[waitq[j]] # chan[waitq[i]]
               /\ i < Len(waitq) => timeout[waitq[i]] >= 0
    <3>1. i = k /\ waitq[i] \in Tid /\ waitq[i] \in ToSet(runq') /\ ret'[waitq[i]] = "0"
      BY <2>5, OnlyReleased
    <3>2. i < Len(waitq) => timeout[waitq[i]] >= 0 BY <2>5 DEF DeadlineInv, NoOverdueWaiter
    <3>3. \A j \in 1..(i - 1) : waitq[j] \in Tid
      <4>1. \A j \in 1..(i - 1) : j \in 1..Len(waitq) BY <2>1
      <4> QED BY <2>1, <4>1, InToSet
    <3>4. CASE waitq[k] = IdleThreadTid BY <2>1, <3>1, <3>2, <3>4 DEF IInv, WaitInv, IdleControl
    <3>5. ASSUME NEW c \in Chan \cup Tid \cup {IdleCond, IdleMutex}, FirstIn(k, WaitersOn(c))
          PROVE  chan[waitq[i]] # NULL /\ \A j \in 1..(i - 1) : chan[waitq[j]] # chan[waitq[i]]
      <4>1. chan[waitq[i]] = c /\ \A j \in 1..(i - 1) : waitq[j] \notin WaitersOn(c)
        BY <3>1, <3>5 DEF FirstIn, WaitersOn
      <4>2. \A j \in 1..(i - 1) : chan[waitq[j]] # c BY <3>3, <4>1 DEF WaitersOn
      <4>3. c # NULL BY ChanAssumption
      <4> QED BY <4>1, <4>2, <4>3
    <3> QED BY <2>5, <3>1, <3>2, <3>4, <3>5
  <2>6. CASE Woken BY <2>5, <2>6 DEF Woken
  <2>7. CASE TimedOut
    <3>1. /\ waitq[i] \in ToSet(runq') /\ ret'[waitq[i]] = "ETIMEDOUT"
          /\ waitq[i] \in Tid /\ timeout[waitq[i]] < 0
      BY <2>1, <2>4, <2>7, InToSet DEF TimedOut
    <3>2. timeout[waitq[i]] <= 0 BY <3>1 DEF IInv, TypeOK
    <3> QED BY <3>1, <3>2
  <2>8. Reshaped BY StepReshapes
  <2> QED BY <2>2, <2>3, <2>6, <2>7, <2>8 DEF Reshaped, Added, Popped, Rotated
<1>2. FullInv /\ [Next]_vars => [WaitsEnd]_vars BY <1>1
<1> QED BY <1>2, FullInductive, PTL DEF Spec, WaitEndsForAReason

\* Adding an element at the tail keeps every index.
LEMMA AppendKeepsIndex ==
  ASSUME NEW S, NEW s \in Seq(S), IsInjective(s), NEW x \in S, x \notin ToSet(s),
         NEW i \in 1..Len(s), NEW k \in 1..Len(Append(s, x)), Append(s, x)[k] = s[i]
  PROVE  k = i
<1>1. /\ Len(Append(s, x)) = Len(s) + 1 /\ Len(s) \in Nat
      /\ \A n \in 1..Len(s) : Append(s, x)[n] = s[n]
      /\ Append(s, x)[Len(s) + 1] = x
  OBVIOUS
<1>2. s[i] # x BY InToSet
<1>3. k \in 1..Len(s) BY <1>1, <1>2
<1>4. s[k] = s[i] BY <1>1, <1>3
<1> QED BY <1>3, <1>4 DEF IsInjective

\* Popping the head moves every other element one place forward.
LEMMA TailShiftsIndex ==
  ASSUME NEW S, NEW s \in Seq(S), s # <<>>, IsInjective(s),
         NEW i \in 1..Len(s), NEW k \in 1..Len(Tail(s)), Tail(s)[k] = s[i]
  PROVE  k = i - 1
<1>1. /\ Len(Tail(s)) = Len(s) - 1 /\ Len(s) \in Nat
      /\ \A n \in 1..(Len(s) - 1) : Tail(s)[n] = s[n + 1]
  OBVIOUS
<1>2. k + 1 \in 1..Len(s) /\ s[k + 1] = s[i] BY <1>1
<1>3. k + 1 = i BY <1>2 DEF IsInjective
<1> QED BY <1>3

\* Round robin: no step lets a thread overtake one that was queued before it.
THEOREM NobodyOvertakes == Spec => NoOvertaking
<1>1. FullInv /\ [Next]_vars => KeepsOrder
  <2> SUFFICES ASSUME FullInv, [Next]_vars,
                      NEW i \in 1..Len(runq), NEW j \in 1..Len(runq), i < j, i > 1,
                      NEW k \in 1..Len(runq'), NEW l \in 1..Len(runq'),
                      runq'[k] = runq[i], runq'[l] = runq[j]
               PROVE  k < l
    BY DEF KeepsOrder
  <2> USE DEF FullInv, IInv
  <2>1. runq \in Seq(Tid) /\ IsInjective(runq) /\ Len(runq) \in Nat BY DEF TypeOK, QueueInv
  <2>2. CASE UNCHANGED runq
    <3>1. k = i /\ l = j BY <2>1, <2>2 DEF IsInjective
    <3> QED BY <3>1
  <2>3. ASSUME NEW x \in Tid \ ToSet(runq), runq' = Append(runq, x) PROVE k < l
    <3>1. k = i /\ l = j BY <2>1, <2>3, AppendKeepsIndex
    <3> QED BY <3>1
  <2>4. CASE runq # <<>> /\ runq' = Tail(runq)
    <3>1. k = i - 1 /\ l = j - 1 BY <2>1, <2>4, TailShiftsIndex
    <3> QED BY <3>1
  <2>5. CASE runq # <<>> /\ runq' = Append(Tail(runq), Head(runq))
    <3> DEFINE q == Tail(runq)
               h == Head(runq)
    <3>1. /\ q \in Seq(Tid) /\ Len(q) = Len(runq) - 1
          /\ \A n \in 1..(Len(runq) - 1) : q[n] = runq[n + 1]
          /\ h = runq[1] /\ h \in Tid /\ 1 \in 1..Len(runq)
      BY <2>1, <2>5
    <3>2. IsInjective(q) /\ h \notin ToSet(q) BY <2>1, <2>5, TailProps
    <3>3. runq' = Append(q, h) BY <2>5
    <3>4. /\ i - 1 \in 1..Len(q) /\ q[i - 1] = runq[i]
          /\ j - 1 \in 1..Len(q) /\ q[j - 1] = runq[j]
      BY <2>1, <3>1
    <3> HIDE DEF q, h
    <3>5. /\ k \in 1..Len(Append(q, h)) /\ Append(q, h)[k] = q[i - 1]
          /\ l \in 1..Len(Append(q, h)) /\ Append(q, h)[l] = q[j - 1]
      BY <3>3, <3>4
    <3>6. q \in Seq(Tid) /\ h \in Tid BY <3>1
    <3>7. k = i - 1 BY ONLY <3>2, <3>4, <3>5, <3>6, AppendKeepsIndex, SMTT(60)
    <3>8. l = j - 1 BY ONLY <3>2, <3>4, <3>5, <3>6, AppendKeepsIndex, SMTT(60)
    <3>9. i \in Int /\ j \in Int OBVIOUS
    <3> QED BY <3>7, <3>8, <3>9
  <2>6. ASSUME NEW n \in 1..Len(waitq), NEW st, Release(n, st) PROVE k < l
    <3>1. waitq[n] \in Tid \ ToSet(runq) BY InToSet, SMTT(60) DEF TypeOK, QueueInv
    <3>2. runq' = Append(runq, waitq[n]) BY <2>6 DEF Release
    <3> QED BY <2>3, <3>1, <3>2
  <2>7. Reshaped BY StepReshapes
  <2> QED BY <2>2, <2>3, <2>4, <2>5, <2>6, <2>7 DEF Reshaped, Woken, TimedOut, Added, Popped, Rotated
<1>2. FullInv /\ [Next]_vars => [KeepsOrder]_vars BY <1>1
<1> QED BY <1>2, FullInductive, PTL DEF Spec, NoOvertaking

-----------------------------------------------------------------------------
(* The run queue behind runq.  The linked list of run-queue.h implements a first-in *)
(* first-out queue: Represents is inductive together with the types, and under it   *)
(* every operation answers what FifoQueue answers.                                  *)

\* The types of the pointers.
PtrTypes ==
  /\ tid_map \subseteq Tid
  /\ head \in Tid \cup {NULL} /\ tail \in Tid \cup {NULL}
  /\ prev \in [Tid -> Tid \cup {NULL}] /\ next \in [Tid -> Tid \cup {NULL}]
  /\ fifo \in Seq(Tid)

\* Under the representation invariant an empty list has no head and a list that is not
\* empty has its first element at the head and its last one at the tail.
LEMMA Ends ==
  ASSUME PtrTypes, Represents
  PROVE  /\ head = NULL <=> fifo = <<>>
         /\ fifo # <<>> => /\ head = Head(fifo) /\ head \in ToSet(fifo)
                           /\ tail \in ToSet(fifo) /\ tail \in Tid /\ Len(fifo) >= 1
<1>1. fifo \in Seq(Tid) BY DEF PtrTypes
<1>2. ASSUME fifo # <<>>
      PROVE  /\ head = Head(fifo) /\ head \in ToSet(fifo) /\ head # NULL
             /\ tail \in ToSet(fifo) /\ tail \in Tid /\ Len(fifo) >= 1
  <2>1. Len(fifo) \in Nat /\ Len(fifo) >= 1 /\ Head(fifo) = fifo[1] BY <1>1, <1>2
  <2>2. /\ fifo[1] \in ToSet(fifo) /\ fifo[1] \in Tid
        /\ fifo[Len(fifo)] \in ToSet(fifo) /\ fifo[Len(fifo)] \in Tid
    BY <1>1, <2>1, InToSet
  <2>3. head = fifo[1] /\ tail = fifo[Len(fifo)] BY <1>2 DEF Represents
  <2> QED BY <2>1, <2>2, <2>3, NullAssumption
<1>3. fifo = <<>> => head = NULL BY DEF Represents
<1> QED BY <1>2, <1>3

\* in() is right about every element: the pointers that pop_front() leaves behind are
\* those of a queued element.
LEMMA InIsRight ==
  ASSUME PtrTypes, Represents, NEW t \in Tid
  PROVE  IsIn(t) <=> t \in ToSet(fifo)
<1>1. fifo \in Seq(Tid) /\ Len(fifo) \in Nat BY DEF PtrTypes
<1>2. ASSUME t \in ToSet(fifo) PROVE IsIn(t)
  <2>1. PICK i \in 1..Len(fifo) : fifo[i] = t BY <1>1, <1>2, InToSet
  <2>2. CASE i >= 2
    <3>1. i \in 2..Len(fifo) BY <1>1, <2>2
    <3> QED BY <2>1, <3>1 DEF IsIn, Represents
  <2>3. CASE i = 1 /\ Len(fifo) >= 2
    <3>1. 1 \in 1..(Len(fifo) - 1) /\ 2 \in 1..Len(fifo) BY <1>1, <2>3
    <3>2. next[t] = fifo[1 + 1] BY <2>1, <2>3, <3>1 DEF Represents
    <3>3. fifo[1 + 1] \in Tid BY <1>1, <3>1, InToSet
    <3> QED BY <3>2, <3>3, NullAssumption DEF IsIn
  <2>4. CASE i = 1 /\ Len(fifo) = 1
    <3>1. fifo # <<>> BY <1>1, <2>4
    <3> QED BY <2>1, <2>4, <3>1 DEF IsIn, Represents
  <2>5. i \in Int /\ Len(fifo) \in Int /\ i >= 1 /\ i <= Len(fifo) BY <1>1, <2>1
  <2>6. i >= 2 \/ i = 1 BY <2>5
  <2>7. \A n \in Int : n >= 1 => n >= 2 \/ n = 1 OBVIOUS
  <2> QED BY <2>2, <2>3, <2>4, <2>5, <2>6, <2>7
<1>3. ASSUME t \notin ToSet(fifo) PROVE ~IsIn(t)
  <2>1. prev[t] = NULL /\ next[t] = NULL BY <1>3 DEF Represents
  <2>2. head # t
    BY <1>3, Ends, NullAssumption
  <2> QED BY <2>1, <2>2 DEF IsIn
<1> QED BY <1>2, <1>3

\* The iterator finds the successor of each element, and the end after the last one.
LEMMA SuccIsRight ==
  ASSUME PtrTypes, Represents, NEW i \in 1..Len(fifo)
  PROVE  next[fifo[i]] = IF i = Len(fifo) THEN NULL ELSE fifo[i + 1]
<1>1. fifo \in Seq(Tid) /\ Len(fifo) \in Nat BY DEF PtrTypes
<1>2. CASE i = Len(fifo)
  <2>1. fifo # <<>> BY <1>1
  <2> QED BY <1>2, <2>1 DEF Represents
<1>3. CASE i # Len(fifo)
  <2>1. i \in 1..(Len(fifo) - 1) BY <1>1, <1>3
  <2> QED BY <1>3, <2>1 DEF Represents
<1> QED BY <1>2, <1>3

\* push_back() keeps the representation.
LEMMA PushBackRepresents ==
  ASSUME PtrTypes, Represents, NEW t \in Tid, PushBack(t)
  PROVE  (PtrTypes /\ Represents)'
<1>1. /\ fifo \in Seq(Tid) /\ Len(fifo) \in Nat /\ tid_map \subseteq Tid
      /\ prev \in [Tid -> Tid \cup {NULL}] /\ next \in [Tid -> Tid \cup {NULL}]
      /\ head \in Tid \cup {NULL}
  BY DEF PtrTypes
<1>2. /\ t \in tid_map /\ t \notin ToSet(fifo) /\ fifo' = Append(fifo, t) /\ tail' = t
      /\ tid_map' = tid_map /\ num_elements' = num_elements + 1
  BY DEF PushBack
<1>3. /\ fifo' \in Seq(Tid) /\ fifo' # <<>>
      /\ ToSet(fifo') = ToSet(fifo) \cup {t}
      /\ IsInjective(fifo')
  BY <1>1, <1>2, AppendProps DEF Represents
<1>4. /\ Len(fifo') = Len(fifo) + 1
      /\ \A i \in 1..Len(fifo) : fifo'[i] = fifo[i]
      /\ fifo'[Len(fifo) + 1] = t
  BY <1>1, <1>2
<1>5. num_elements' = Len(fifo') BY <1>2, <1>4 DEF Represents
<1>6. ToSet(fifo') \subseteq tid_map' BY <1>2, <1>3 DEF Represents
<1>7. CASE fifo = <<>>
  <2>1. head = NULL /\ Len(fifo) = 0 BY <1>7 DEF Represents
  <2>2. head' = t /\ prev' = prev /\ next' = next BY <2>1 DEF PushBack
  <2>3. Len(fifo') = 1 /\ fifo'[1] = t BY <1>4, <2>1
  <2>4. prev[t] = NULL /\ next[t] = NULL BY <1>2 DEF Represents
  <2>5. \A u \in Tid \ ToSet(fifo') : prev'[u] = NULL /\ next'[u] = NULL
    BY <1>3, <2>2 DEF Represents
  <2>6. (1..(Len(fifo') - 1)) = {} /\ (2..Len(fifo')) = {} BY <2>3
  <2> QED BY <1>1, <1>2, <1>3, <1>5, <1>6, <2>2, <2>3, <2>4, <2>5, <2>6 DEF PtrTypes, Represents
<1>8. CASE fifo # <<>>
  <2>1. /\ head # NULL /\ head = Head(fifo) /\ tail \in ToSet(fifo) /\ tail \in Tid
        /\ Len(fifo) >= 1 /\ tail # t
    BY <1>2, <1>8, Ends
  <2>2. /\ head' = head /\ prev' = [prev EXCEPT ![t] = tail]
        /\ next' = [next EXCEPT ![tail] = t]
    BY <2>1 DEF PushBack
  <2>3. tail = fifo[Len(fifo)] /\ head = fifo[1] BY <1>8 DEF Represents
  <2>4. head' = fifo'[1] /\ tail' = fifo'[Len(fifo')] BY <1>2, <1>4, <2>1, <2>2, <2>3
  <2>5. next'[tail'] = NULL
    <3>1. next[t] = NULL BY <1>2 DEF Represents
    <3> QED BY <1>1, <1>2, <2>1, <2>2, <3>1
  <2>6. ASSUME NEW i \in 1..(Len(fifo') - 1) PROVE next'[fifo'[i]] = fifo'[i + 1]
    <3>1. i \in 1..Len(fifo) /\ fifo'[i] = fifo[i] /\ fifo[i] \in Tid BY <1>1, <1>4, InToSet
    <3>2. CASE i = Len(fifo)
      BY <1>1, <1>4, <2>1, <2>2, <2>3, <3>1, <3>2
    <3>3. CASE i # Len(fifo)
      <4>1. /\ i \in 1..(Len(fifo) - 1) /\ i + 1 \in 1..Len(fifo)
            /\ Len(fifo) \in 1..Len(fifo)
        BY <1>1, <3>1, <3>3
      <4>2. fifo[i] # tail
        BY <1>1, <2>3, <3>1, <3>3, <4>1 DEF Represents, IsInjective
      <4>3. next[fifo[i]] = fifo[i + 1] BY <4>1 DEF Represents
      <4> QED BY <1>1, <1>4, <2>2, <3>1, <4>1, <4>2, <4>3
    <3> QED BY <3>2, <3>3
  <2>7. ASSUME NEW i \in 2..Len(fifo') PROVE prev'[fifo'[i]] # NULL
    <3>1. CASE i = Len(fifo) + 1
      BY <1>1, <1>4, <2>1, <2>2, <3>1, NullAssumption
    <3>2. CASE i # Len(fifo) + 1
      <4>1. i \in 2..Len(fifo) /\ i \in 1..Len(fifo) BY <1>1, <1>4, <3>2
      <4>2. fifo'[i] = fifo[i] /\ fifo[i] \in Tid /\ fifo[i] # t
        BY <1>1, <1>2, <1>4, <4>1, InToSet
      <4>3. prev[fifo[i]] # NULL BY <4>1 DEF Represents
      <4> QED BY <1>1, <2>2, <4>2, <4>3
    <3> QED BY <3>1, <3>2
  <2>8. ASSUME NEW u \in Tid \ ToSet(fifo') PROVE prev'[u] = NULL /\ next'[u] = NULL
    <3>1. u # t /\ u # tail /\ u \in Tid \ ToSet(fifo) BY <1>3, <2>1
    <3>2. prev[u] = NULL /\ next[u] = NULL BY <3>1 DEF Represents
    <3> QED BY <1>1, <2>2, <3>1, <3>2
  <2>9. PtrTypes' BY <1>1, <1>2, <1>3, <2>1, <2>2 DEF PtrTypes
  <2> QED BY <1>3, <1>5, <1>6, <2>4, <2>5, <2>6, <2>7, <2>8, <2>9 DEF Represents
<1> QED BY <1>7, <1>8

\* pop_front() keeps the representation, although the new head keeps its prev pointer.
LEMMA PopFrontRepresents ==
  ASSUME PtrTypes, Represents, PopFront
  PROVE  (PtrTypes /\ Represents)'
<1>1. /\ fifo \in Seq(Tid) /\ Len(fifo) \in Nat /\ tid_map \subseteq Tid
      /\ prev \in [Tid -> Tid \cup {NULL}] /\ next \in [Tid -> Tid \cup {NULL}]
      /\ tail \in Tid \cup {NULL}
  BY DEF PtrTypes
<1>2. /\ head # NULL /\ head' = next[head]
      /\ prev' = [prev EXCEPT ![head] = NULL] /\ next' = [next EXCEPT ![head] = NULL]
      /\ tail' = IF next[head] = NULL THEN NULL ELSE tail
      /\ fifo' = Tail(fifo) /\ tid_map' = tid_map /\ num_elements' = num_elements - 1
  BY DEF PopFront
<1>3. /\ fifo # <<>> /\ head = Head(fifo) /\ head \in Tid /\ Len(fifo) >= 1
      /\ head = fifo[1] /\ tail = fifo[Len(fifo)] /\ next[tail] = NULL
  BY <1>1, <1>2, Ends, InToSet DEF Represents
<1>4. /\ fifo' \in Seq(Tid) /\ ToSet(fifo) = ToSet(fifo') \cup {head}
      /\ IsInjective(fifo') /\ head \notin ToSet(fifo')
  BY <1>1, <1>2, <1>3, TailProps DEF Represents
<1>5. /\ Len(fifo') = Len(fifo) - 1
      /\ \A i \in 1..(Len(fifo) - 1) : fifo'[i] = fifo[i + 1]
  BY <1>1, <1>2, <1>3
<1>6. next[head] = IF Len(fifo) = 1 THEN NULL ELSE fifo[2]
  <2>1. 1 \in 1..Len(fifo) BY <1>1, <1>3
  <2>2. next[fifo[1]] = IF 1 = Len(fifo) THEN NULL ELSE fifo[1 + 1] BY <2>1, SuccIsRight
  <2> QED BY <1>3, <2>2
<1>7. \A u \in Tid \ ToSet(fifo') : prev'[u] = NULL /\ next'[u] = NULL
  BY <1>1, <1>2, <1>3, <1>4 DEF Represents
<1>8. num_elements' = Len(fifo') BY <1>2, <1>5 DEF Represents
<1>9. ToSet(fifo') \subseteq tid_map' BY <1>2, <1>4 DEF Represents
<1>10. PtrTypes'
  BY <1>1, <1>2, <1>3, <1>4 DEF PtrTypes
<1>11. ASSUME NEW i \in 1..Len(fifo')
       PROVE  /\ i + 1 \in 1..Len(fifo) /\ i + 1 \in 2..Len(fifo)
              /\ fifo'[i] = fifo[i + 1] /\ fifo'[i] \in Tid /\ fifo'[i] # head
  <2>1. i + 1 \in 1..Len(fifo) /\ i + 1 \in 2..Len(fifo) /\ i \in 1..(Len(fifo) - 1)
    BY <1>1, <1>5
  <2>2. fifo'[i] = fifo[i + 1] BY <1>5, <2>1
  <2>3. fifo'[i] \in ToSet(fifo') /\ fifo'[i] \in Tid BY <1>4, InToSet
  <2> QED BY <1>4, <2>1, <2>2, <2>3
<1>12. ASSUME NEW i \in 1..(Len(fifo') - 1) PROVE next'[fifo'[i]] = fifo'[i + 1]
  <2>1. i \in 1..Len(fifo') /\ i + 1 \in 1..Len(fifo') /\ i + 1 \in 1..(Len(fifo) - 1)
    BY <1>1, <1>5
  <2>2. next[fifo[i + 1]] = fifo[(i + 1) + 1] BY <2>1 DEF Represents
  <2> QED BY <1>1, <1>2, <1>11, <2>1, <2>2
<1>13. ASSUME NEW i \in 2..Len(fifo') PROVE prev'[fifo'[i]] # NULL
  <2>1. i \in 1..Len(fifo') BY <1>1, <1>5
  <2>2. prev[fifo[i + 1]] # NULL BY <1>11, <2>1 DEF Represents
  <2> QED BY <1>1, <1>2, <1>11, <2>1, <2>2
<1>14. CASE Len(fifo) = 1
  <2>1. fifo' = <<>> BY <1>4, <1>5, <1>14
  <2> QED BY <1>2, <1>4, <1>6, <1>7, <1>8, <1>9, <1>10, <1>12, <1>13, <1>14, <2>1 DEF Represents
<1>15. CASE Len(fifo) # 1
  <2>1. /\ 1 \in 1..Len(fifo') /\ Len(fifo') \in 1..Len(fifo') /\ fifo' # <<>>
        /\ Len(fifo') + 1 = Len(fifo)
    BY <1>1, <1>3, <1>4, <1>5, <1>15
  <2>2. head' = fifo[2] /\ fifo[2] = fifo'[1] /\ fifo[2] # NULL
    <3>1. fifo'[1] = fifo[1 + 1] /\ fifo'[1] \in Tid BY <1>11, <2>1
    <3>2. fifo[2] = fifo'[1] /\ fifo[2] # NULL BY <3>1, NullAssumption
    <3>3. head' = fifo[2] BY <1>2, <1>6, <1>15
    <3> QED BY <3>2, <3>3
  <2>3. tail' = tail /\ tail = fifo'[Len(fifo')]
    BY <1>2, <1>3, <1>6, <1>11, <1>15, <2>1, <2>2
  <2>4. next'[tail'] = NULL
    BY <1>1, <1>2, <1>3, <1>11, <2>1, <2>3
  <2> QED BY <1>4, <1>7, <1>8, <1>9, <1>10, <1>12, <1>13, <2>1, <2>2, <2>3, <2>4 DEF Represents
<1> QED BY <1>14, <1>15

\* The representation is kept by every step.
LEMMA StepRepresents ==
  ASSUME PtrTypes, Represents, [ListNext]_listVars
  PROVE  (PtrTypes /\ Represents)'
<1>1. ASSUME NEW t \in Tid, CreateThdElem(t) PROVE (PtrTypes /\ Represents)'
  <2>1. /\ t \notin tid_map /\ tid_map' = tid_map \cup {t}
        /\ prev' = [prev EXCEPT ![t] = NULL] /\ next' = [next EXCEPT ![t] = NULL]
        /\ head' = head /\ tail' = tail /\ num_elements' = num_elements /\ fifo' = fifo
    BY <1>1 DEF CreateThdElem
  <2>2. t \notin ToSet(fifo) /\ prev[t] = NULL /\ next[t] = NULL
    BY <2>1 DEF Represents
  <2>3. prev' = prev /\ next' = next BY <2>1, <2>2 DEF PtrTypes
  <2> QED BY <2>1, <2>3 DEF PtrTypes, Represents
<1>2. CASE DeepClear
  <2>1. /\ fifo' = <<>> /\ head' = NULL /\ tail' = NULL /\ num_elements' = 0 /\ tid_map' = {}
        /\ prev' = [t \in Tid |-> NULL] /\ next' = [t \in Tid |-> NULL]
    BY <1>2 DEF DeepClear
  <2>2. fifo' \in Seq(Tid) /\ Len(fifo') = 0 /\ ToSet(fifo') = {} /\ IsInjective(fifo')
    BY <2>1 DEF ToSet, IsInjective
  <2> QED BY <2>1, <2>2 DEF PtrTypes, Represents
<1>3. ASSUME NEW t \in Tid, In(t) \/ Succ(t) PROVE UNCHANGED <<tid_map, ptrVars, fifo>>
  BY <1>3 DEF In, Succ
<1>4. ASSUME FrontElem \/ Size \/ UNCHANGED listVars PROVE UNCHANGED <<tid_map, ptrVars, fifo>>
  BY <1>4 DEF FrontElem, Size, listVars
<1>5. ASSUME UNCHANGED <<tid_map, ptrVars, fifo>> PROVE (PtrTypes /\ Represents)'
  BY <1>5 DEF PtrTypes, Represents, ptrVars
<1> QED
  BY <1>1, <1>2, <1>3, <1>4, <1>5, PushBackRepresents, PopFrontRepresents DEF ListNext

\* The representation invariant holds of the initial list.
LEMMA InitRepresents == ASSUME ListInit PROVE PtrTypes /\ Represents
<1>1. fifo = <<>> /\ fifo \in Seq(Tid) /\ Len(fifo) = 0 /\ ToSet(fifo) = {} /\ IsInjective(fifo)
  BY DEF ListInit, ToSet, IsInjective
<1> QED BY <1>1 DEF ListInit, PtrTypes, Represents

\* After any sequence of operations the linked list is the queue: head, tail, the next
\* pointers and the element count agree with it, and in() can trust the pointers.
THEOREM ListIsQueue == ListSpec => []Represents
<1>1. ListInit => PtrTypes /\ Represents BY InitRepresents
<1>2. (PtrTypes /\ Represents) /\ [ListNext]_listVars => (PtrTypes /\ Represents)' BY StepRepresents
<1> QED BY <1>1, <1>2, PTL DEF ListSpec

\* Every step of the list is a step of the abstract queue.
LEMMA StepRefines ==
  ASSUME PtrTypes, Represents, [ListNext]_listVars
  PROVE  [Fifo!Next]_(Fifo!vars)
<1> USE DEF Fifo!None, None
<1>0. Fifo!ToSet(fifo) = ToSet(fifo) BY DEF Fifo!ToSet, ToSet
<1>1. ASSUME NEW t \in Tid, CreateThdElem(t) PROVE Fifo!Next
  BY <1>1 DEF CreateThdElem, Fifo!Next, Fifo!CreateThdElem
<1>2. ASSUME NEW t \in Tid, PushBack(t) PROVE Fifo!Next
  <2>1. Fifo!PushBack(t) BY <1>0, <1>2 DEF PushBack, Fifo!PushBack
  <2> QED BY <2>1 DEF Fifo!Next
<1>3. ASSUME NEW t \in Tid, In(t) PROVE Fifo!Next
  <2> DEFINE asked == t \in Fifo!ToSet(fifo)
             answered == IsIn(t)
  <2>1. asked <=> answered BY <1>0, InIsRight
  <2>2. asked \in BOOLEAN /\ answered \in BOOLEAN BY DEF IsIn
  <2>3. out' = <<"in", answered>> BY <1>3 DEF In
  <2> HIDE DEF asked, answered
  <2>4. asked = answered BY <2>1, <2>2, Zenon
  <2>5. out' = <<"in", asked>> BY <2>3, <2>4, Zenon
  <2>6. t \in tid_map /\ UNCHANGED <<fifo, tid_map>> BY <1>3 DEF In
  <2>7. Fifo!In(t) BY <2>5, <2>6, Zenon DEF Fifo!In, asked
  <2> QED BY <2>7 DEF Fifo!Next
<1>4. ASSUME NEW t \in Tid, Succ(t) PROVE Fifo!Next
  <2>1. PICK i \in 1..Len(fifo) : fifo[i] = t
    BY <1>4, InToSet DEF Succ, PtrTypes
  <2>2. Fifo!Succ(i) BY <1>4, <2>1, SuccIsRight DEF Succ, Fifo!Succ
  <2> QED BY <2>2 DEF Fifo!Next
<1>5. ASSUME PopFront PROVE Fifo!Next
  BY <1>5, Ends DEF PopFront, Fifo!Next, Fifo!PopFront
<1>6. ASSUME DeepClear PROVE Fifo!Next
  BY <1>6 DEF DeepClear, Fifo!Next, Fifo!DeepClear
<1>7. ASSUME FrontElem PROVE Fifo!Next
  BY <1>7, Ends DEF FrontElem, Fifo!Next, Fifo!FrontElem
<1>8. ASSUME Size PROVE Fifo!Next
  BY <1>8 DEF Size, Represents, Fifo!Next, Fifo!Size
<1>9. ASSUME UNCHANGED listVars PROVE UNCHANGED Fifo!vars
  BY <1>9 DEF listVars, Fifo!vars
<1> QED
  BY <1>1, <1>2, <1>3, <1>4, <1>5, <1>6, <1>7, <1>8, <1>9 DEF ListNext

\* The run queue implements a first-in first-out queue: whatever the scheduler asks of
\* it, the stale prev pointer of a popped element's successor is never visible.
THEOREM RunQueueIsFifo == ListSpec => IsFifo
<1>1. ListInit => PtrTypes /\ Represents BY InitRepresents
<1>2. (PtrTypes /\ Represents) /\ [ListNext]_listVars => (PtrTypes /\ Represents)' BY StepRepresents
<1>3. ListInit => Fifo!Init BY DEF ListInit, Fifo!Init, None, Fifo!None
<1>4. (PtrTypes /\ Represents) /\ [ListNext]_listVars => [Fifo!Next]_(Fifo!vars) BY StepRefines
<1> QED BY <1>1, <1>2, <1>3, <1>4, PTL DEF ListSpec, IsFifo, Fifo!Spec
==============================================================================
