----------------------------- MODULE RRScheduler -----------------------------
(***************************************************************************)
(* The round-robin turn scheduler of xtern (RRScheduler, in                *)
(* lib/runtime/record-scheduler.cpp), the idle thread that keeps its run   *)
(* queue non-empty and the shutdown sequence of the main thread            *)
(* (lib/runtime/helper.cpp).                                               *)
(*                                                                         *)
(* One turn (a token) circulates between the threads of the run queue.  A  *)
(* thread takes it with getTurn(), performs one synchronisation operation  *)
(* and passes it on with putTurn(), wait() or block().  Only the thread    *)
(* holding the turn touches the two queues.  What makes the scheduler hard *)
(* is what happens WITHOUT the turn: a thread that enters or leaves a      *)
(* blocking system call changes the status of its own run-queue element    *)
(* (interProStart, interProEnd) and announces itself (wakeup) while the    *)
(* holder walks the queue.                                                 *)
(*                                                                         *)
(* A step is the code between two accesses that another thread can see: a  *)
(* spin-locked status, the wakeup flag and its mutex, the token, the real  *)
(* idle_mutex.  The application is the most general client: with the turn  *)
(* it signals, waits, creates, ends in any order the runtime's operations  *)
(* (record-runtime.cpp) allow.                                             *)
(*                                                                         *)
(* timeout[t] is waits[t].timeout minus the turn count: the code compares  *)
(* the two and nothing else, so the difference is the whole state, and it  *)
(* keeps the state finite.                                                 *)
(***************************************************************************)
EXTENDS ThreadIds, Sequences, SequencesExt

CONSTANTS
  Chan,             \* addresses the application waits on
  IdleCond,         \* &idle_cond
  IdleMutex,        \* &idle_mutex
  NTurns,           \* turns a timed wait has left after the incTurnCount() of wait();
                    \* negative when sem_timedwait or mutex_timedlock retries too late
  Forever,          \* FOREVER: larger than any timeout
  SpuriousWakeups   \* may pthread_cond_wait(&idle_cond) return unsignalled?

MainThreadTid == 0
IdleThreadTid == 1
InvalidTid == -1

ASSUME TimeAssumption ==
  /\ Forever \in Nat
  /\ NTurns \subseteq Int
  /\ \A n \in NTurns : n < Forever
ASSUME ChanAssumption ==
  /\ {NULL, IdleCond, IdleMutex} \cap (Chan \cup Tid) = {}
  /\ Chan \cap Tid = {}
  /\ NULL # IdleCond /\ NULL # IdleMutex /\ IdleCond # IdleMutex
ASSUME SpuriousAssumption == SpuriousWakeups \in BOOLEAN

VARIABLES
  runq,             \* run queue, the holder of the turn at its head
  status,           \* runq_elem::status of each thread
  waitq,            \* threads in wait(), oldest first
  chan,             \* waits[t].chan
  timeout,          \* waits[t].timeout - turnCount, or Forever
  ret,              \* waits[t].status, the value wait() returns
  wakenUp,          \* waits[t].wakenUp: the turn has been posted to t
  wakeTids,         \* inter_pro_wakeup_tids
  wakeFlag,         \* inter_pro_wakeup_flag
  nthread,          \* threads created so far
  pc,               \* where each thread is
  op,               \* the scheduler operation it is carrying out
  itr,              \* tryPutTurn's iterator, an index of runq
  phase,            \* progress of idle_thread() and of __tern_prog_end()
  idle_mutex,       \* owner of the real mutex, or InvalidTid
  idle_done

queueVars == <<runq, status, waitq, chan, timeout, ret, wakenUp>>
wakeVars  == <<wakeTids, wakeFlag>>
idleVars  == <<phase, idle_mutex, idle_done>>
vars == <<queueVars, wakeVars, nthread, pc, op, itr, idleVars>>

Status == {"RUNNABLE", "RUNNING_REG", "RUNNING_INTER_PRO", "INTER_PRO_STOP"}
Running == {"RUNNING_REG", "RUNNING_INTER_PRO"}

\* The program points at which a thread holds the turn: at the head of the run
\* queue, and after it has left the head but has not yet passed the turn on.
FrontPc == {"turn", "inc", "fire", "inc_check", "inc_wake", "putTurn",
            "threadEnd", "leave", "wait", "idleCondWait", "tryPutTurn"}
NextPc  == {"next_check", "next_wake", "scan", "wakeIdle"}
HoldPc  == FrontPc \cup NextPc
IdlePc  == {"condWait", "sleeping", "waking"}   \* in pthread_cond_wait
Pc == HoldPc \cup IdlePc \cup
      {"none", "run", "getTurn", "blockTurn", "sys", "wakeup", "dead", "exited"}

\* Where incTurnCount() returns to, and where next() returns to, for each operation.
AfterInc(o) == CASE o = "fake" -> "turn" [] o = "block" -> "leave" [] OTHER -> o
AfterNext(o) == CASE o = "putTurn" -> "run" [] o = "threadEnd" -> "dead" [] o = "wait" -> "getTurn"
                  [] o = "block" -> "sys" [] o = "idleCondWait" -> "condWait"
NextOp == {"putTurn", "threadEnd", "wait", "block", "idleCondWait"}
Op == NextOp \cup {"fake", "none"}

RealPhase == {"real", "realSignal", "realUnlock"}   \* of main, without the turn
MainPhase == {"app", "lock", "set", "unlock", "signal", "join", "exit"} \cup RealPhase
IdlePhase == {"sleep", "lock", "condWait", "unlock", "break", "exit"}

\* The constructor, in main.  The first turn of the idle thread, that of its
\* threadBegin(), is taken with phase "sleep": it puts the turn like tern_idle_sleep().
Init ==
  /\ runq = <<MainThreadTid>>
  /\ status = [t \in Tid |-> IF t = MainThreadTid THEN "RUNNING_REG" ELSE "RUNNABLE"]
  /\ waitq = <<>>
  /\ chan = [t \in Tid |-> NULL]
  /\ timeout = [t \in Tid |-> Forever]
  /\ ret = [t \in Tid |-> "0"]
  /\ wakenUp = [t \in Tid |-> t = MainThreadTid]
  /\ wakeTids = {}
  /\ wakeFlag = FALSE
  /\ nthread = 1
  /\ pc = [t \in Tid |-> IF t = MainThreadTid THEN "run" ELSE "none"]
  /\ op = [t \in Tid |-> "none"]
  /\ itr = 0
  /\ phase = [t \in Tid |-> IF t = IdleThreadTid THEN "sleep" ELSE "app"]
  /\ idle_mutex = InvalidTid
  /\ idle_done = FALSE

Goto(t, l) == pc' = [pc EXCEPT ![t] = l]
\* Call incTurnCount() on behalf of operation o.
Begin(t, o) == op' = [op EXCEPT ![t] = o] /\ Goto(t, "inc")
NextPhase(t, p) == phase' = [phase EXCEPT ![t] = p]

\* __tern_prog_begin creates the idle thread before the application starts.
Launched == nthread > IdleThreadTid
Zombie(t) == pc[t] = "dead"

-----------------------------------------------------------------------------
(* The turn: getTurn(), the head of next(), nextRunnable() and post(). *)

\* The application calls an operation that needs the turn.
CallGetTurn(t) ==
  /\ pc[t] = "run"
  /\ phase[t] \notin {"set"} \cup RealPhase
  /\ Goto(t, "getTurn")
  /\ UNCHANGED <<queueVars, wakeVars, nthread, op, itr, idleVars>>

\* Mutant: the missing wakenUp = false of wait_t::wait().
GetTurnKeepsToken(t) ==
  /\ pc[t] = "getTurn"
  /\ wakenUp[t]
  /\ Goto(t, "turn")
  /\ UNCHANGED <<queueVars, wakeVars, nthread, op, itr, idleVars>>

\* wait_t::wait() returns: the token is consumed.
GetTurn(t) ==
  /\ pc[t] = "getTurn"
  /\ wakenUp[t]
  /\ wakenUp' = [wakenUp EXCEPT ![t] = FALSE]
  /\ Goto(t, "turn")
  /\ UNCHANGED <<runq, status, waitq, chan, timeout, ret, wakeVars, nthread, op,
                 itr, idleVars>>

\* Mutant: reset() forgets the channel.
ReleaseKeepsChan(i, st) ==
  LET t == waitq[i] IN
  /\ waitq' = RemoveAt(waitq, i)
  /\ runq' = Append(runq, t)
  /\ timeout' = [timeout EXCEPT ![t] = Forever]
  /\ ret' = [ret EXCEPT ![t] = st]
  /\ wakenUp' = [wakenUp EXCEPT ![t] = FALSE]
  /\ UNCHANGED chan

\* reset(st) of the i-th waiter, which moves from waitq to the tail of runq.
Release(i, st) ==
  LET t == waitq[i] IN
  /\ waitq' = RemoveAt(waitq, i)
  /\ runq' = Append(runq, t)
  /\ chan' = [chan EXCEPT ![t] = NULL]
  /\ timeout' = [timeout EXCEPT ![t] = Forever]
  /\ ret' = [ret EXCEPT ![t] = st]
  /\ wakenUp' = [wakenUp EXCEPT ![t] = FALSE]

\* i is the first waiter of waitq in the set S.
FirstIn(i, S) ==
  /\ i \in 1..Len(waitq)
  /\ waitq[i] \in S
  /\ \A j \in 1..(i - 1) : waitq[j] \notin S

WaitersOn(c) == {t \in Tid : chan[t] = c}
\* Mutant: fireTimeouts() ends a wait one turn before its deadline.
ExpiredEarly == {t \in Tid : timeout[t] <= 1}
Expired == {t \in Tid : timeout[t] < 0}
NoneIn(S) == \A i \in 1..Len(waitq) : waitq[i] \notin S

\* signal(c): the oldest waiter on c becomes runnable, if there is one.
signal(c) ==
  \/ /\ \E i \in 1..Len(waitq) : FirstIn(i, WaitersOn(c)) /\ Release(i, "0")
     /\ UNCHANGED status
  \/ NoneIn(WaitersOn(c)) /\ UNCHANGED queueVars

\* Mutant: the clock does not advance.
IncTurnCountStuck(t) ==
  /\ pc[t] = "inc"
  /\ Goto(t, "fire")
  /\ UNCHANGED <<queueVars, wakeVars, nthread, op, itr, idleVars>>

\* incTurnCount(): ++turnCount brings every deadline one turn closer.
IncTurnCount(t) ==
  /\ pc[t] = "inc"
  /\ timeout' = [u \in Tid |-> IF timeout[u] = Forever THEN Forever ELSE timeout[u] - 1]
  /\ Goto(t, "fire")
  /\ UNCHANGED <<runq, status, waitq, chan, ret, wakenUp, wakeVars, nthread, op,
                 itr, idleVars>>

\* fireTimeouts(): one waiter whose timeout is before the turn count.
FireTimeout(t) ==
  /\ pc[t] = "fire"
  /\ \E i \in 1..Len(waitq) : FirstIn(i, Expired) /\ Release(i, "ETIMEDOUT")
  /\ UNCHANGED <<status, wakeVars, nthread, pc, op, itr, idleVars>>

\* Mutant: fireTimeouts() stops before the end of the wait queue.
FireDoneEarly(t) ==
  /\ pc[t] = "fire"
  /\ Goto(t, "inc_check")
  /\ UNCHANGED <<queueVars, wakeVars, nthread, op, itr, idleVars>>

FireDone(t) ==
  /\ pc[t] = "fire"
  /\ NoneIn(Expired)
  /\ Goto(t, "inc_check")
  /\ UNCHANGED <<queueVars, wakeVars, nthread, op, itr, idleVars>>

\* check_wakeup() reads the flag without the mutex, then takes the mutex.
CheckWakeupFlag(t) ==
  /\ pc[t] \in {"inc_check", "next_check"}
  /\ LET done   == IF pc[t] = "inc_check" THEN AfterInc(op[t]) ELSE "scan"
         locked == IF pc[t] = "inc_check" THEN "inc_wake" ELSE "next_wake"
     IN  Goto(t, IF wakeFlag THEN locked ELSE done)
  /\ UNCHANGED <<queueVars, wakeVars, nthread, op, itr, idleVars>>

\* Mutants of the push in check_wakeup(): at the front, without the runq.in() test, and
\* moving a thread that is already queued.
CheckWakeupAs(t, u, q) ==
  /\ pc[t] \in {"inc_wake", "next_wake"}
  /\ u \in wakeTids
  /\ wakeTids' = wakeTids \ {u}
  /\ runq' = q
  /\ UNCHANGED <<status, waitq, chan, timeout, ret, wakenUp, wakeFlag, nthread, pc,
                 op, itr, idleVars>>
CheckWakeupPushFront(t, u) ==
  CheckWakeupAs(t, u, IF u \in ToSet(runq) THEN runq ELSE <<u>> \o runq)
CheckWakeupNoTest(t, u) == CheckWakeupAs(t, u, Append(runq, u))
CheckWakeupRequeue(t, u) == CheckWakeupAs(t, u, Append(RemoveFirst(runq, u), u))

\* One thread of inter_pro_wakeup_tids, in the order of the hash table.
CheckWakeupOne(t, u) ==
  /\ pc[t] \in {"inc_wake", "next_wake"}
  /\ u \in wakeTids
  /\ wakeTids' = wakeTids \ {u}
  /\ runq' = IF u \in ToSet(runq) THEN runq ELSE Append(runq, u)
  /\ UNCHANGED <<status, waitq, chan, timeout, ret, wakenUp, wakeFlag, nthread, pc,
                 op, itr, idleVars>>

CheckWakeupDone(t) ==
  /\ pc[t] \in {"inc_wake", "next_wake"}
  /\ wakeTids = {}
  /\ wakeFlag' = FALSE
  /\ Goto(t, IF pc[t] = "inc_wake" THEN AfterInc(op[t]) ELSE "scan")
  /\ UNCHANGED <<queueVars, wakeTids, nthread, op, itr, idleVars>>

\* The status a thread leaves the head of the run queue with, in next().
StatusOnLeave(s) == IF s = "RUNNING_REG" THEN "RUNNABLE" ELSE "INTER_PRO_STOP"

\* next(): update the status of the head and pop it.
LeaveFront(t) ==
  /\ status' = [status EXCEPT ![t] = StatusOnLeave(status[t])]
  /\ runq' = Tail(runq)
  /\ Goto(t, "next_check")

Leave(t) ==
  /\ pc[t] = "leave"
  /\ LeaveFront(t)
  /\ UNCHANGED <<waitq, chan, timeout, ret, wakenUp, wakeVars, nthread, op, itr,
                 idleVars>>

\* putTurn(false): the head goes to the tail.
PutTurn(t) ==
  /\ pc[t] = "putTurn"
  /\ status' = [status EXCEPT ![t] = "RUNNABLE"]
  /\ runq' = Append(Tail(runq), t)
  /\ Goto(t, "next_check")
  /\ UNCHANGED <<waitq, chan, timeout, ret, wakenUp, wakeVars, nthread, op, itr,
                 idleVars>>

\* putTurn(true): wake a joiner, then leave.
ThreadEnd(t) ==
  /\ pc[t] = "threadEnd"
  /\ signal(t)
  /\ Goto(t, "leave")
  /\ UNCHANGED <<wakeVars, nthread, op, itr, idleVars>>

\* The channels and timeouts of wait(): what the operation in progress passes.
WaitArgs(t) ==
  CASE op[t] = "idleCondWait" -> {<<IdleCond, Forever>>}
    [] phase[t] = "lock" -> {<<IdleMutex, Forever>>}
    [] phase[t] = "join" -> {<<IdleThreadTid, Forever>>}
    [] OTHER -> (Chan \X (NTurns \cup {Forever})) \cup ({NULL} \X NTurns)
                \cup ({u \in 0..(nthread - 1) : u \notin {t, IdleThreadTid} /\ ~Zombie(u)} \X {Forever})

\* wait(c, n) after its incTurnCount(), and idleThreadCondWait() after tryPutTurn().
Wait(t) ==
  /\ pc[t] = "wait"
  /\ \E a \in WaitArgs(t) :
       /\ chan' = [chan EXCEPT ![t] = a[1]]
       /\ timeout' = [timeout EXCEPT ![t] = a[2]]
  /\ waitq' = Append(waitq, t)
  /\ LeaveFront(t)
  /\ UNCHANGED <<ret, wakenUp, wakeVars, nthread, op, itr, idleVars>>

\* nextRunnable() on an empty queue at the end of the last thread or of main.
NextInvalid(t) ==
  /\ pc[t] = "scan"
  /\ runq = <<>>
  /\ op[t] = "threadEnd"
  /\ waitq = <<>> \/ t = MainThreadTid
  /\ Goto(t, "dead")
  /\ UNCHANGED <<queueVars, wakeVars, nthread, op, itr, idleVars>>

EmptyScan(t) ==
  /\ pc[t] = "scan"
  /\ runq = <<>>
  /\ ~(op[t] = "threadEnd" /\ (waitq = <<>> \/ t = MainThreadTid))

\* wakeUpIdleThread() when the idle thread is gone: pthread_exit().
WakeUpIdleThreadExit(t) ==
  /\ EmptyScan(t)
  /\ idle_done
  /\ Goto(t, "exited")
  /\ UNCHANGED <<queueVars, wakeVars, nthread, op, itr, idleVars>>

\* wakeUpIdleThread(): the idle thread moves from waitq to runq ...
WakeUpIdleThread(t) ==
  /\ EmptyScan(t)
  /\ ~idle_done
  /\ \E i \in 1..Len(waitq) : FirstIn(i, {IdleThreadTid}) /\ Release(i, "0")
  /\ Goto(t, "wakeIdle")
  /\ UNCHANGED <<status, wakeVars, nthread, op, itr, idleVars>>

\* Mutant: the real condition variable is not signalled.
SignalIdleNot(t) ==
  /\ pc[t] = "wakeIdle"
  /\ idle_mutex = InvalidTid
  /\ Goto(t, "scan")
  /\ UNCHANGED <<queueVars, wakeVars, nthread, op, itr, idleVars>>

\* ... and the real idle_cond is signalled under the real idle_mutex.
SignalIdle(t) ==
  /\ pc[t] = "wakeIdle"
  /\ idle_mutex = InvalidTid
  /\ pc' = [pc EXCEPT ![t] = "scan",
                      ![IdleThreadTid] = IF @ = "sleeping" THEN "waking" ELSE @]
  /\ UNCHANGED <<queueVars, wakeVars, nthread, op, itr, idleVars>>

\* nextRunnable(): a head in a blocking call leaves the run queue ...
SkipHead(t) ==
  /\ pc[t] = "scan"
  /\ runq # <<>>
  /\ status[Head(runq)] = "INTER_PRO_STOP"
  /\ runq' = Tail(runq)
  /\ UNCHANGED <<status, waitq, chan, timeout, ret, wakenUp, wakeVars, nthread, pc,
                 op, itr, idleVars>>

\* ... any other head becomes running and next() posts the turn to it.
PassTurn(t) ==
  /\ pc[t] = "scan"
  /\ runq # <<>>
  /\ LET u == Head(runq) IN
       /\ status[u] # "INTER_PRO_STOP"
       /\ status' = [status EXCEPT ![u] = IF @ = "RUNNABLE" THEN "RUNNING_REG" ELSE @]
       /\ wakenUp' = [wakenUp EXCEPT ![u] = TRUE]
  /\ Goto(t, AfterNext(op[t]))
  /\ op' = [op EXCEPT ![t] = "none"]
  /\ UNCHANGED <<runq, waitq, chan, timeout, ret, wakeVars, nthread, itr, idleVars>>

-----------------------------------------------------------------------------
(* Blocking system calls: BLOCK_TIMER_START, the call, BLOCK_TIMER_END. *)

\* The application calls one of the wrappers of accept(), recv(), select(), read() ...
CanBlock(t) == pc[t] = "run" /\ t # IdleThreadTid /\ phase[t] = "app" /\ Launched

\* interProStart() of a thread that is not at the head.
InterProStartStop(t) ==
  /\ CanBlock(t)
  /\ status[t] = "RUNNABLE"
  /\ status' = [status EXCEPT ![t] = "INTER_PRO_STOP"]
  /\ Goto(t, "sys")
  /\ UNCHANGED <<runq, waitq, chan, timeout, ret, wakenUp, wakeVars, nthread, op,
                 itr, idleVars>>

\* interProStart() of the head, which goes on to block().
InterProStartHead(t) ==
  /\ CanBlock(t)
  /\ status[t] # "RUNNABLE"
  /\ status' = [status EXCEPT ![t] = "RUNNING_INTER_PRO"]
  /\ Goto(t, "blockTurn")
  /\ UNCHANGED <<runq, waitq, chan, timeout, ret, wakenUp, wakeVars, nthread, op,
                 itr, idleVars>>

\* block(): getTurn(), then incTurnCount() and next().
Block(t) ==
  /\ pc[t] = "blockTurn"
  /\ wakenUp[t]
  /\ wakenUp' = [wakenUp EXCEPT ![t] = FALSE]
  /\ Begin(t, "block")
  /\ UNCHANGED <<runq, status, waitq, chan, timeout, ret, wakeVars, nthread, itr,
                 idleVars>>

\* The system call returns: interProEnd().
InterProEnd(t) ==
  /\ pc[t] = "sys"
  /\ status' = [status EXCEPT ![t] = "RUNNABLE"]
  /\ Goto(t, "wakeup")
  /\ UNCHANGED <<runq, waitq, chan, timeout, ret, wakenUp, wakeVars, nthread, op,
                 itr, idleVars>>

\* Mutant: wakeup() forgets the flag.
WakeupNoFlag(t) ==
  /\ pc[t] = "wakeup"
  /\ \A u \in Tid : pc[u] \notin {"inc_wake", "next_wake"}
  /\ wakeTids' = wakeTids \cup {t}
  /\ Goto(t, "run")
  /\ UNCHANGED <<queueVars, wakeFlag, nthread, op, itr, idleVars>>

\* wakeup(), which needs the mutex that check_wakeup() holds while it walks the set.
Wakeup(t) ==
  /\ pc[t] = "wakeup"
  /\ \A u \in Tid : pc[u] \notin {"inc_wake", "next_wake"}
  /\ wakeTids' = wakeTids \cup {t}
  /\ wakeFlag' = TRUE
  /\ Goto(t, "run")
  /\ UNCHANGED <<queueVars, nthread, op, itr, idleVars>>

-----------------------------------------------------------------------------
(* The application's operations with the turn. *)

InApp(t) == pc[t] = "turn" /\ phase[t] = "app"

\* syncSignal(c); a broadcast is a sequence of these, the queues being the holder's.
SyncSignal(t, c) ==
  /\ InApp(t)
  /\ signal(c)
  /\ UNCHANGED <<wakeVars, nthread, pc, op, itr, idleVars>>

\* pthreadCreate: Scheduler::create() appends the new thread to the run queue.  MaxThread
\* is a bound of the model: MAX_THREAD_NUM is checked in debug builds only.
Create(t) ==
  /\ InApp(t)
  /\ nthread < MaxThread
  /\ nthread' = nthread + 1
  /\ runq' = Append(runq, nthread)
  /\ status' = [status EXCEPT ![nthread] = "RUNNABLE"]
  /\ pc' = [pc EXCEPT ![nthread] = "run", ![t] = "inc"]
  /\ op' = [op EXCEPT ![t] = "putTurn"]
  /\ UNCHANGED <<waitq, chan, timeout, ret, wakenUp, wakeVars, itr, idleVars>>

\* SCHED_TIMER_FAKE_END: count a turn and keep it, once per operation.
FakeEnd(t) ==
  /\ InApp(t)
  /\ op[t] # "fake"
  /\ Begin(t, "fake")
  /\ UNCHANGED <<queueVars, wakeVars, nthread, itr, idleVars>>

\* SCHED_TIMER_END, or wait() on some channel, or SCHED_TIMER_THREAD_END.
EndOp(t) ==
  /\ InApp(t)
  /\ \/ Begin(t, "putTurn")
     \/ Launched /\ Begin(t, "wait")
     \/ t # MainThreadTid /\ Begin(t, "threadEnd")
  /\ UNCHANGED <<queueVars, wakeVars, nthread, itr, idleVars>>

-----------------------------------------------------------------------------
(* idle_thread() and __tern_prog_end().                                     *)
(*   idle: sleep -> lock -> condWait -> unlock -> sleep ...                 *)
(*         and, once idle_done is seen, lock -> break -> exit               *)
(*   main: app -> lock -> set -> unlock -> signal -> real -> realSignal     *)
(*             -> realUnlock -> join -> exit                                *)

\* tern_pthread_mutex_lock(&idle_mutex): trylock, or wait on the mutex and retry.
LockIdleMutex(t) ==
  /\ pc[t] = "turn" /\ phase[t] = "lock"
  /\ \/ /\ idle_mutex = InvalidTid
        /\ idle_mutex' = t
        /\ NextPhase(t, IF t = MainThreadTid THEN "set"
                        ELSE IF idle_done THEN "break" ELSE "condWait")
        /\ Begin(t, "putTurn")
     \/ /\ idle_mutex # InvalidTid
        /\ Begin(t, "wait")
        /\ UNCHANGED <<phase, idle_mutex>>
  /\ UNCHANGED <<queueVars, wakeVars, nthread, itr, idle_done>>

\* Mutant: main goes from the unlock to the real lock, without a turn for the
\* tern_pthread_cond_signal() between them.
UnlockNoSignalTurn(t) ==
  /\ pc[t] = "turn" /\ phase[t] \in {"unlock", "break"}
  /\ idle_mutex' = InvalidTid
  /\ signal(IdleMutex)
  /\ NextPhase(t, IF phase[t] = "break" THEN "exit"
                  ELSE IF t = MainThreadTid THEN "real" ELSE "sleep")
  /\ Begin(t, "putTurn")
  /\ UNCHANGED <<wakeVars, nthread, itr, idle_done>>

\* tern_pthread_mutex_unlock(&idle_mutex).
UnlockIdleMutex(t) ==
  /\ pc[t] = "turn" /\ phase[t] \in {"unlock", "break"}
  /\ idle_mutex' = InvalidTid
  /\ signal(IdleMutex)
  /\ NextPhase(t, IF phase[t] = "break" THEN "exit"
                  ELSE IF t = MainThreadTid THEN "signal" ELSE "sleep")
  /\ Begin(t, "putTurn")
  /\ UNCHANGED <<wakeVars, nthread, itr, idle_done>>

\* tern_idle_sleep(): advance the clock.
IdleSleep(t) ==
  /\ pc[t] = "turn" /\ phase[t] = "sleep"
  /\ NextPhase(t, "lock")
  /\ Begin(t, "putTurn")
  /\ UNCHANGED <<queueVars, wakeVars, nthread, itr, idle_mutex, idle_done>>

\* tern_idle_cond_wait() takes the turn and counts one ...
IdleCondWait(t) ==
  /\ pc[t] = "turn" /\ phase[t] = "condWait"
  /\ NextPhase(t, "unlock")
  /\ Begin(t, "idleCondWait")
  /\ UNCHANGED <<queueVars, wakeVars, nthread, itr, idle_mutex, idle_done>>

\* ... and looks for somebody else to run.
IdleCheckRunq(t) ==
  /\ pc[t] = "idleCondWait"
  /\ \/ Len(runq) >= 2 /\ itr' = 2 /\ Goto(t, "tryPutTurn") /\ UNCHANGED op
     \/ /\ Len(runq) < 2
        /\ op' = [op EXCEPT ![t] = "putTurn"]
        /\ Goto(t, "putTurn")
        /\ UNCHANGED itr
  /\ UNCHANGED <<queueVars, wakeVars, nthread, idleVars>>

\* Mutant: tryPutTurn() only looks, and does not reserve the thread it found.
TryPutTurnNoMark(t) ==
  /\ pc[t] = "tryPutTurn"
  /\ itr <= Len(runq)
  /\ IF status[runq[itr]] = "RUNNABLE"
     THEN Goto(t, "wait") /\ itr' = 0
     ELSE itr' = itr + 1 /\ UNCHANGED pc
  /\ UNCHANGED <<queueVars, wakeVars, nthread, op, idleVars>>

\* tryPutTurn(): one element, under its spin lock.
TryPutTurn(t) ==
  /\ pc[t] = "tryPutTurn"
  /\ itr <= Len(runq)
  /\ IF status[runq[itr]] = "RUNNABLE"
     THEN /\ status' = [status EXCEPT ![runq[itr]] = "RUNNING_REG"]
          /\ Goto(t, "wait")
          /\ itr' = 0
     ELSE itr' = itr + 1 /\ UNCHANGED <<status, pc>>
  /\ UNCHANGED <<runq, waitq, chan, timeout, ret, wakenUp, wakeVars, nthread, op, idleVars>>

\* tryPutTurn() found nobody: keep ticking.
TryPutTurnFail(t) ==
  /\ pc[t] = "tryPutTurn"
  /\ itr > Len(runq)
  /\ itr' = 0
  /\ op' = [op EXCEPT ![t] = "putTurn"]
  /\ Goto(t, "putTurn")
  /\ UNCHANGED <<queueVars, wakeVars, nthread, idleVars>>

\* pthread_cond_wait(&idle_cond, &idle_mutex): release and sleep; reacquire, return.
CondSleep(t) ==
  /\ pc[t] = "condWait"
  /\ idle_mutex' = InvalidTid
  /\ Goto(t, "sleeping")
  /\ UNCHANGED <<queueVars, wakeVars, nthread, op, itr, phase, idle_done>>

CondSpurious(t) ==
  /\ pc[t] = "sleeping"
  /\ SpuriousWakeups
  /\ Goto(t, "waking")
  /\ UNCHANGED <<queueVars, wakeVars, nthread, op, itr, idleVars>>

CondReturn(t) ==
  /\ pc[t] = "waking"
  /\ idle_mutex = InvalidTid
  /\ idle_mutex' = t
  /\ Goto(t, "run")
  /\ UNCHANGED <<queueVars, wakeVars, nthread, op, itr, phase, idle_done>>

\* main() returns: __tern_prog_end() begins.
ProgEnd ==
  /\ pc[MainThreadTid] = "run" /\ phase[MainThreadTid] = "app" /\ Launched
  /\ NextPhase(MainThreadTid, "lock")
  /\ UNCHANGED <<queueVars, wakeVars, nthread, pc, op, itr, idle_mutex, idle_done>>

SetIdleDone ==
  /\ pc[MainThreadTid] = "run" /\ phase[MainThreadTid] = "set"
  /\ idle_done' = TRUE
  /\ NextPhase(MainThreadTid, "unlock")
  /\ UNCHANGED <<queueVars, wakeVars, nthread, pc, op, itr, idle_mutex>>

\* Mutant: only the real condition variable is signalled, not the scheduler's channel.
ProgEndNoSignal ==
  /\ pc[MainThreadTid] = "turn" /\ phase[MainThreadTid] = "signal"
  /\ NextPhase(MainThreadTid, "real")
  /\ Begin(MainThreadTid, "putTurn")
  /\ UNCHANGED <<queueVars, wakeVars, nthread, itr, idle_mutex, idle_done>>

\* tern_pthread_cond_signal(&idle_cond): the scheduler's queues only.
ProgEndSignal ==
  /\ pc[MainThreadTid] = "turn" /\ phase[MainThreadTid] = "signal"
  /\ signal(IdleCond)
  /\ NextPhase(MainThreadTid, "real")
  /\ Begin(MainThreadTid, "putTurn")
  /\ UNCHANGED <<wakeVars, nthread, itr, idle_mutex, idle_done>>

\* The real lock, signal and unlock, without the turn: while main owns the real
\* idle_mutex the idle thread can return from its wait, or try to lock it.
ProgEndRealLock ==
  /\ pc[MainThreadTid] = "run" /\ phase[MainThreadTid] = "real"
  /\ idle_mutex = InvalidTid
  /\ idle_mutex' = MainThreadTid
  /\ NextPhase(MainThreadTid, "realSignal")
  /\ UNCHANGED <<queueVars, wakeVars, nthread, pc, op, itr, idle_done>>

ProgEndRealSignal ==
  /\ pc[MainThreadTid] = "run" /\ phase[MainThreadTid] = "realSignal"
  /\ pc' = [pc EXCEPT ![IdleThreadTid] = IF @ = "sleeping" THEN "waking" ELSE @]
  /\ NextPhase(MainThreadTid, "realUnlock")
  /\ UNCHANGED <<queueVars, wakeVars, nthread, op, itr, idle_mutex, idle_done>>

ProgEndRealUnlock ==
  /\ pc[MainThreadTid] = "run" /\ phase[MainThreadTid] = "realUnlock"
  /\ idle_mutex' = InvalidTid
  /\ NextPhase(MainThreadTid, "join")
  /\ UNCHANGED <<queueVars, wakeVars, nthread, pc, op, itr, idle_done>>

\* tern_pthread_join(idle_th).
ProgEndJoin ==
  /\ pc[MainThreadTid] = "turn" /\ phase[MainThreadTid] = "join"
  /\ \/ ~Zombie(IdleThreadTid) /\ Begin(MainThreadTid, "wait") /\ UNCHANGED phase
     \/ /\ Zombie(IdleThreadTid)
        /\ Begin(MainThreadTid, "putTurn")
        /\ NextPhase(MainThreadTid, "exit")
  /\ UNCHANGED <<queueVars, wakeVars, nthread, itr, idle_mutex, idle_done>>

\* tern_thread_end() of main and of the idle thread.
Exit(t) ==
  /\ pc[t] = "turn" /\ phase[t] = "exit"
  /\ Begin(t, "threadEnd")
  /\ UNCHANGED <<queueVars, wakeVars, nthread, itr, idleVars>>

-----------------------------------------------------------------------------
\* incTurnCount(), putTurn(), wait(), next(): the scheduler itself, with the turn.
SchedulerStep(t) ==
  \/ GetTurn(t) \/ IncTurnCount(t) \/ FireTimeout(t) \/ FireDone(t)
  \/ CheckWakeupFlag(t) \/ (\E u \in wakeTids : CheckWakeupOne(t, u)) \/ CheckWakeupDone(t)
  \/ Leave(t) \/ PutTurn(t) \/ ThreadEnd(t) \/ Wait(t)
  \/ NextInvalid(t) \/ WakeUpIdleThreadExit(t) \/ WakeUpIdleThread(t) \/ SignalIdle(t)
  \/ SkipHead(t) \/ PassTurn(t)
  \/ Block(t) \/ Wakeup(t)

IdleStep(t) ==
  \/ LockIdleMutex(t) \/ UnlockIdleMutex(t) \/ IdleSleep(t) \/ IdleCondWait(t)
  \/ IdleCheckRunq(t) \/ TryPutTurn(t) \/ TryPutTurnFail(t)
  \/ CondSleep(t) \/ CondReturn(t) \/ Exit(t)

MainStep ==
  \/ SetIdleDone \/ ProgEndSignal \/ ProgEndJoin
  \/ ProgEndRealLock \/ ProgEndRealSignal \/ ProgEndRealUnlock

\* What the application does; each thread keeps calling the runtime.
AppStep(t) ==
  \/ CallGetTurn(t) \/ InterProStartStop(t) \/ InterProStartHead(t)
  \/ (\E c \in Chan : SyncSignal(t, c)) \/ Create(t) \/ FakeEnd(t) \/ EndOp(t)

\* What the environment may do or never do.
EnvStep(t) == InterProEnd(t) \/ CondSpurious(t)

Next ==
  \/ \E t \in Tid : SchedulerStep(t) \/ IdleStep(t) \/ AppStep(t) \/ EnvStep(t)
  \/ MainStep \/ ProgEnd

(* Every thread the kernel can run is run: a thread that can take a step of    *)
(* the runtime takes it, and an application thread does not compute for ever   *)
(* between two calls of the runtime.  A system call may never return, main may *)
(* never return and no spurious wakeup is promised.                            *)
Fairness ==
  /\ \A t \in Tid : WF_vars(SchedulerStep(t) \/ IdleStep(t) \/ AppStep(t))
  /\ WF_vars(MainStep)

Spec == Init /\ [][Next]_vars
FairSpec == Spec /\ Fairness

-----------------------------------------------------------------------------
(* Properties. *)

\* Every variable has its type: in particular the queues hold thread ids of the run.
TypeOK ==
  /\ runq \in Seq(Tid) /\ waitq \in Seq(Tid)
  /\ status \in [Tid -> Status]
  /\ chan \in [Tid -> Chan \cup Tid \cup {NULL, IdleCond, IdleMutex}]
  /\ timeout \in [Tid -> Int]
  /\ ret \in [Tid -> {"0", "ETIMEDOUT"}]
  /\ wakenUp \in [Tid -> BOOLEAN]
  /\ wakeTids \in SUBSET Tid /\ wakeFlag \in BOOLEAN
  /\ nthread \in 1..MaxThread
  /\ pc \in [Tid -> Pc] /\ op \in [Tid -> Op]
  /\ itr \in Nat
  /\ phase \in [Tid -> MainPhase \cup IdlePhase]
  /\ idle_mutex \in Tid \cup {InvalidTid} /\ idle_done \in BOOLEAN

\* The turn is posted to t, or t has taken it and not passed it on.
HasTurn(t) == wakenUp[t] \/ pc[t] \in HoldPc

\* There is one turn: no two threads have it, and no post() reaches a thread that
\* still has one.
OneTurn ==
  /\ \A t, u \in Tid : HasTurn(t) /\ HasTurn(u) => t = u
  /\ \A t \in Tid : ~(wakenUp[t] /\ pc[t] \in HoldPc)

\* assert(tid == runq.front()) of putTurn(), wait(), block() and signal().
HolderAtFront ==
  \A t \in Tid :
    wakenUp[t] \/ pc[t] \in FrontPc => runq # <<>> /\ Head(runq) = t

\* selfcheck(): no thread is queued twice, and the waits[] entry of a thread agrees
\* with the queue it is on.
SelfCheck ==
  /\ IsInjective(runq) /\ IsInjective(waitq)
  /\ ToSet(runq) \cap ToSet(waitq) = {}
  /\ \A t \in ToSet(runq) : chan[t] = NULL /\ timeout[t] = Forever
  /\ \A t \in ToSet(waitq) : chan[t] # NULL \/ timeout[t] # Forever

\* A thread that is not in a blocking call is never forgotten: it is on a queue, or
\* its wakeup() is pending and flagged, or it holds the turn and is being moved.
NoThreadLost ==
  \A t \in Tid :
    \/ pc[t] \in {"none", "sys", "wakeup", "dead", "exited"} \cup NextPc
    \/ t \in ToSet(runq) \cup ToSet(waitq)
    \/ t \in wakeTids /\ wakeFlag

\* The assertions of the scheduler that depend on what other threads did meanwhile:
\* the status asserts of next(), putTurn(), interProStart() and interProEnd(), the
\* two asserts of nextRunnable() and wakeUpIdleThread() on an empty run queue, and
\* the assert of tryPutTurn().
AssertsHold ==
  \A t \in Tid :
    /\ pc[t] = "leave" => status[t] \in Running
    /\ pc[t] \in {"wait", "putTurn"} => status[t] = "RUNNING_REG"
    /\ pc[t] = "run" => status[t] \in {"RUNNABLE", "RUNNING_REG"}
    /\ pc[t] = "sys" => status[t] = "INTER_PRO_STOP"
    /\ EmptyScan(t) =>
         t # IdleThreadTid /\ (idle_done \/ IdleThreadTid \in ToSet(waitq))
    /\ pc[t] = "tryPutTurn" => t = IdleThreadTid

\* fireTimeouts() leaves nobody asleep past its deadline: from the end of one
\* incTurnCount() to the next, every waiter's timeout is at or after the turn count,
\* except that of a thread that has just called wait() with a deadline already past.
NoOverdueWaiter ==
  (\A t \in Tid : pc[t] # "fire") =>
    \A i \in 1..Len(waitq) : i < Len(waitq) => timeout[waitq[i]] >= 0

\* The real unlock at the end of __tern_prog_end() wakes nobody in the scheduler, so the
\* idle thread must never find idle_mutex taken by the real lock before it and wait on
\* its channel.  It never does: it waits only between the lock and the unlock that main
\* makes with the turn, and is past its last trylock when main takes the real lock.
RealLockUnseen ==
  op[IdleThreadTid] = "wait" \/ chan[IdleThreadTid] = IdleMutex
    => phase[MainThreadTid] \in {"set", "unlock"}

\* "wait on @chan until [...] turnCount is greater than or equal to @timeout"
\* (scheduler.h): when fireTimeouts() has run, no timeout of a waiter is at or before
\* turnCount, the newest waiter excepted (its deadline may be past when it calls wait()).
FiredAtDeadline ==
  (\A t \in Tid : pc[t] # "fire") =>
    \A i \in 1..Len(waitq) : i < Len(waitq) => timeout[waitq[i]] > 0

\* How the waits that this step ends are ended.
WaitsEnd ==
  \A i \in 1..Len(waitq) :
    LET t == waitq[i] IN
    t \notin ToSet(waitq') =>
      /\ t \in ToSet(runq')
      /\ ret'[t] = "ETIMEDOUT" => timeout[t] <= 0
      /\ ret'[t] = "0" =>
           /\ chan[t] # NULL
           /\ t # IdleThreadTid => \A j \in 1..(i - 1) : chan[waitq[j]] # chan[t]
           /\ i < Len(waitq) => timeout[t] >= 0

\* A thread leaves the wait queue only when its wait is over, and for the run queue:
\* wait() returns ETIMEDOUT only to a waiter whose deadline has come, and 0 only to
\* the oldest waiter on a channel (or to the idle thread), whose deadline was not over
\* unless it was when the wait began.  Nobody but the clock ends a sleep, on NULL.
WaitEndsForAReason == [][WaitsEnd]_vars

\* This step keeps the order of the run queue, its head excepted.
KeepsOrder ==
  \A i, j \in 1..Len(runq) :
    i < j /\ i > 1 =>
      \A k, l \in 1..Len(runq') : runq'[k] = runq[i] /\ runq'[l] = runq[j] => k < l

\* Round robin: between two elements of the run queue the order never changes, except
\* that the head may move to the tail; nobody overtakes.
NoOvertaking == [][KeepsOrder]_vars

\* Every thread that asks for the turn and is not waiting for anything gets it, while
\* the idle thread exists.
TurnIsGranted ==
  \A t \in Tid :
    (pc[t] \in {"getTurn", "blockTurn"} /\ t \notin ToSet(waitq))
      ~> (pc[t] \notin {"getTurn", "blockTurn"} \/ idle_done)

\* A timed wait ends, even when every other thread is blocked: the idle thread keeps
\* the clock running (and never waits with a timeout itself).
TimedWaitEnds ==
  \A t \in Tid \ {IdleThreadTid} :
    (t \in ToSet(waitq) /\ timeout[t] # Forever) ~> (t \notin ToSet(waitq) \/ idle_done)

\* "This loop is guaranteed to finish" (nextRunnable): a thread that gives up the turn
\* comes out of next().
NextFinishes == \A t \in Tid : pc[t] \in NextPc ~> pc[t] \notin NextPc

\* Once only main and the idle thread are left, __tern_prog_end() stops the idle thread
\* and main ends.
Others == Tid \ {MainThreadTid, IdleThreadTid}
ShutdownCompletes ==
  (phase[MainThreadTid] # "app" /\ \A t \in Others : pc[t] \in {"none", "dead"})
    ~> pc[MainThreadTid] = "dead"

\* __tern_prog_end() gets past the idle thread whatever the other threads do.
ProgEndReturns == phase[MainThreadTid] = "lock" ~> pc[MainThreadTid] = "dead"

-----------------------------------------------------------------------------
(* The inductive invariant: IInv, from which OneTurn, HolderAtFront and        *)
(* SelfCheck follow, and its strengthening FullInv, from which the rest does.  *)

\* What each program point says about the operation in progress, and which thread can
\* be at it: control only, no queue.
ControlInv ==
  /\ \A t \in Tid :
       /\ t >= nthread <=> pc[t] = "none"
       /\ pc[t] \in {"inc", "fire", "inc_check", "inc_wake"} => op[t] # "none"
       /\ pc[t] \in {"putTurn", "threadEnd"} => op[t] = pc[t]
       /\ pc[t] = "wait" => op[t] \in {"wait", "idleCondWait"}
       /\ pc[t] = "leave" => op[t] \in {"block", "threadEnd"}
       /\ pc[t] \in {"idleCondWait", "tryPutTurn"} => op[t] = "idleCondWait"
       /\ pc[t] \in NextPc => op[t] \in NextOp
       /\ op[t] = "idleCondWait" \/ pc[t] \in IdlePc => t = IdleThreadTid
       /\ t \notin {MainThreadTid, IdleThreadTid} => phase[t] = "app"
  /\ phase[MainThreadTid] \in MainPhase
  /\ phase[IdleThreadTid] \in IdlePhase

\* A waiter cannot be in the set of threads to wake up: its own incTurnCount() emptied
\* that set, and it has made no blocking call since.  Hence check_wakeup() never puts a
\* waiting thread on the run queue.
WakeInv ==
  /\ wakeTids # {} => wakeFlag
  /\ \A t \in Tid :
       pc[t] \in {"none", "putTurn", "threadEnd", "leave", "wait", "idleCondWait", "tryPutTurn"}
         => t \notin wakeTids

QueueInv ==
  /\ IsInjective(runq) /\ IsInjective(waitq)
  /\ ToSet(runq) \cap ToSet(waitq) = {}
  /\ \A t \in Tid : pc[t] = "none" => t \notin ToSet(runq)
  /\ \A t \in ToSet(waitq) :
       /\ t \notin wakeTids
       /\ \/ pc[t] \in {"getTurn", "exited"} \cup IdlePc
          \/ pc[t] = "run" /\ t = IdleThreadTid
          \/ pc[t] \in NextPc /\ op[t] \in {"wait", "idleCondWait"}

\* waits[t] is in its reset state exactly when t is not waiting.
WaitInv ==
  \A t \in Tid :
    /\ timeout[t] <= Forever
    /\ t \notin ToSet(waitq) => chan[t] = NULL /\ timeout[t] = Forever
    /\ t \in ToSet(waitq) => chan[t] # NULL \/ timeout[t] # Forever

IInv == TypeOK /\ ControlInv /\ OneTurn /\ HolderAtFront /\ WakeInv /\ QueueInv /\ WaitInv

\* The status of a thread's element, by where the thread is.
StatusAt(t) ==
  /\ pc[t] \notin HoldPc \cup {"dead", "exited"} => op[t] = "none"
  /\ pc[t] = "turn" => op[t] \in {"none", "fake"}
  /\ pc[t] \in {"none", "run", "getTurn", "wakeup"} \cup IdlePc
       => status[t] \in {"RUNNABLE", "RUNNING_REG"}
  /\ pc[t] = "blockTurn" => status[t] = "RUNNING_INTER_PRO"
  /\ pc[t] = "sys" => status[t] = "INTER_PRO_STOP"
  /\ pc[t] \in FrontPc
       => status[t] = IF op[t] = "block" THEN "RUNNING_INTER_PRO" ELSE "RUNNING_REG"
  /\ pc[t] \in NextPc
       => status[t] = IF op[t] = "block" THEN "INTER_PRO_STOP" ELSE "RUNNABLE"
  /\ wakenUp[t] => status[t] \in Running
StatusInv == \A t \in Tid : StatusAt(t)

\* Where a thread that is not in a blocking call is to be found.
PlaceInv ==
  \A t \in Tid :
    /\ \/ pc[t] \in {"none", "sys", "wakeup", "dead", "exited"}
       \/ pc[t] \in NextPc /\ op[t] \in {"block", "threadEnd"}
       \/ t \in ToSet(runq) \cup ToSet(waitq) \cup wakeTids
    /\ pc[t] \in NextPc /\ op[t] = "putTurn" => t \in ToSet(runq)

\* The program points from the end of fireTimeouts() to the end of the operation.
FiredPc == {"inc_check", "inc_wake", "putTurn", "threadEnd", "leave", "wait",
            "idleCondWait", "tryPutTurn"}

DeadlineInv ==
  /\ NoOverdueWaiter
  /\ \A t \in Tid : pc[t] \in FiredPc => \A i \in 1..Len(waitq) : timeout[waitq[i]] >= 0

\* The control of __tern_prog_end(): main makes no blocking call in it, and ends only
\* after the idle thread.  Nobody waits, ends or blocks before the idle thread exists.
MainControl ==
  /\ \A t \in Tid : op[t] \in {"wait", "threadEnd", "block"} \/ pc[t] = "blockTurn" => Launched
  /\ phase[MainThreadTid] # "app" =>
       /\ Launched
       /\ status[MainThreadTid] # "INTER_PRO_STOP" /\ op[MainThreadTid] # "block"
       /\ pc[MainThreadTid] \notin {"sys", "wakeup", "blockTurn"}
  /\ op[MainThreadTid] = "wait" => phase[MainThreadTid] \in {"app", "lock", "join"}
  /\ op[MainThreadTid] = "threadEnd" => phase[MainThreadTid] = "exit"
  /\ phase[MainThreadTid] = "exit" => pc[IdleThreadTid] = "dead"

\* Past its first lock main is on the run queue, or it joins the idle thread, which
\* nobody else does; it is there while the idle thread begins to wait for idle_mutex.
MainPlace ==
  /\ phase[MainThreadTid] \in {"set", "unlock", "signal"} \cup RealPhase \/ op[IdleThreadTid] = "wait"
       => MainThreadTid \in ToSet(runq)
  /\ phase[MainThreadTid] = "join" =>
       \/ MainThreadTid \in ToSet(runq)
       \/ MainThreadTid \in ToSet(waitq) /\ chan[MainThreadTid] = IdleThreadTid
  /\ \A t \in Tid : chan[t] = IdleThreadTid => t = MainThreadTid

\* The control of idle_thread(): it makes no blocking call and no timed wait, ends only once
\* idle_done is set, and waits on idle_mutex only when it found it taken.
IdleControl ==
  /\ pc[IdleThreadTid] \notin {"sys", "wakeup", "blockTurn", "exited"}
  /\ op[IdleThreadTid] # "block" /\ IdleThreadTid \notin wakeTids
  /\ op[IdleThreadTid] = "threadEnd" \/ pc[IdleThreadTid] = "dead" => phase[IdleThreadTid] = "exit"
  /\ phase[IdleThreadTid] \in {"break", "exit"} => idle_done
  /\ idle_done => phase[MainThreadTid] \in {"unlock", "signal", "join", "exit"} \cup RealPhase
  /\ idle_mutex \in {InvalidTid, MainThreadTid, IdleThreadTid}
  /\ idle_mutex = MainThreadTid
       => phase[MainThreadTid] \in {"set", "unlock", "realSignal", "realUnlock"}
  /\ idle_mutex = IdleThreadTid => phase[IdleThreadTid] \in {"condWait", "unlock", "break"}
  /\ pc[IdleThreadTid] \in IdlePc \/ op[IdleThreadTid] = "idleCondWait"
       => phase[IdleThreadTid] = "unlock"
  /\ op[IdleThreadTid] = "wait" => phase[IdleThreadTid] = "lock" /\ phase[MainThreadTid] # "app"
  /\ timeout[IdleThreadTid] = Forever
  /\ pc[IdleThreadTid] = "tryPutTurn" => itr >= 2

\* When the idle thread gives up its place in the run queue it leaves somebody there: the
\* thread that tryPutTurn() reserved, or main.
IdlePlace ==
  /\ op[IdleThreadTid] = "threadEnd" /\ pc[IdleThreadTid] \in {"leave"} \cup NextPc
       => MainThreadTid \in ToSet(runq)
  /\ pc[IdleThreadTid] \in {"wait"} \cup NextPc /\ op[IdleThreadTid] = "idleCondWait"
       => \E u \in ToSet(runq) \ {IdleThreadTid} : status[u] \in Running

FullInv ==
  /\ IInv /\ StatusInv /\ PlaceInv /\ DeadlineInv
  /\ MainControl /\ MainPlace /\ IdleControl /\ IdlePlace
=============================================================================
