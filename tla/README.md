# A TLA+ verification of xtern's deterministic scheduler

xtern is a deterministic multithreading runtime: it interposes on the pthread and
blocking system calls of a program and lets the threads perform their synchronisation
operations one at a time, in round-robin order. This directory holds TLA+ modules that
model it, from the interceptors (`dync_hook/`) through the wrappers, the runtime and the
scheduler (`lib/runtime/`, `include/tern/runtime/`) to the log it writes, the TLC
configurations that check them and TLAPS proofs of most of their safety properties. `PROJECT.json` lists the
components, the runs, the lines every definition models, the hazards and the theorems.

## 1. Inventory

### Turn scheduler (`record-scheduler.cpp/.h`, `scheduler.cpp/.h`)
* State: `runq` and `waitq`, one `run_queue` element per thread with a spin-locked
  `status`, `waits[tid]` (channel, timeout, result, wakenUp, semaphore), `turnCount`,
  `inter_pro_wakeup_tids` with its flag and mutex.
* Operations: `getTurn`, `putTurn`, `wait`, `signal`, `block`, `wakeup`,
  `interProStart/End`; inside them `next`, `nextRunnable`, `check_wakeup`,
  `fireTimeouts`, `incTurnCount`, `tryPutTurn`, `wakeUpIdleThread`, `idleThreadCondWait`.
* Hard: threads entering and leaving blocking calls change their own queue element while
  the turn holder walks the queue; a flag is read without its mutex; the holder takes a
  real mutex; the idle thread goes to sleep on a decision that may be stale.
* Correct when: one thread has the turn and it is the head of `runq`; no thread is on two
  queues or on none; a timeout fires neither early nor never; nobody overtakes; a
  request for the turn is granted.

### Run queue (`run-queue.h`)
A doubly linked list with a per-thread element array; `pop_front` leaves the `prev`
pointer of the new head behind and `in` reads it. Correct when it is a FIFO queue.

### Idle thread and shutdown (`helper.cpp`, `record-scheduler.cpp`)
`idle_thread` keeps the clock running when everybody else is blocked and sleeps on a
real condition variable when somebody runs; `__tern_prog_end` stops and joins it. They
share the real `idle_mutex`, `idle_cond` and `idle_done` with the turn holder.
Correct when the handshake completes from every interleaving.

### Thread life cycle (`record-runtime.cpp`, `TidMap` in `scheduler.h`)
`pthreadCreate`, `threadBegin`, `threadEnd`, `pthreadJoin`, `__pthread_detach`; two maps
between pthread ids and tids, the zombie set, and two semaphores used after the turn has
been passed on. Correct when a child finds itself in the map, the maps agree, and a join
with the turn never blocks on a live thread.

### Logical time (`record-runtime.cpp`)
`time_diff`, `time2turn`, `relTimeToTurn` turn a time of day into a number of turns;
`wait` adds `turnCount`; `fireTimeouts` compares. Signed, 64-bit and 32-bit arithmetic.

### Synchronisation operations (`record-runtime.cpp`)
Mutex, condition variable, semaphore, read-write lock, barrier, lineup. Each tries the
real operation with the turn, waits on the object's address and tries again; between
signal and retry other threads may barge in, and timed waits may expire. Correct when no
wakeup is lost, barriers open for all, lineups open for a reason and always.

### Non-deterministic regions and fork (`record-runtime.cpp`, `record-scheduler.cpp`, `non-det-thread-set.h`)
`nonDetStart` waits until every other thread is paused, then leaves the run queue;
`nonDetEnd` and `nonDetBarrierEnd` ask to be put back. With `enforce_non_det_clock_bound`
the threads that are away are kept in `non_det_thds` with the clock they left at, and
`checkNonDetBound` puts an overdue one back on the run queue before it asks.
`childForkReturn` resets the child's scheduler. Hard: three parties (the thread itself,
`checkNonDetBound`, `check_wakeup`) put a thread back. Correct when the set agrees with
the queues, an overdue region holds the others up, and regions start together, before anybody
else goes on, and do start once the others stay paused.

### Hooks, address spaces, base runtime (`dync_hook/`, `hooks.cpp`, `space.cpp`, `runtime.cpp`)
State: `current_space`, `errno`, `attachedToDbug`, `inNonDet` of each thread, and which
calls are in progress. An interceptor sends a call to the runtime from App space and to
libc from Sys space; the `tern_*` wrapper saves errno and crosses; `RecorderRT` gives the
function a class (with the turn, off the run queue, passed on, straight to libc); the base
runtime makes the real call. Hard: the wrappers nest (program end, thread exit, fork's
child, lineup), about 100 functions are classified in four tables, a call that may block
must not be made with the turn. Correct when the runtime stays in Sys space, the turn
stays inside a wrapper, errno is the real call's, and a call that need not wait returns.

### Synchronisation log (`record-log.cpp`, `logdefs.h`)
One logger per thread: text lines, test lines, or fixed-size records in a mapping of the
file. Records of one instruction are found by count; a wait writes two; thread end closes
the file; fork's child starts with a copy of the logger. Correct when a log reads back as
what its thread did, the logs of all threads merge into the schedule by turn number, and
logging stops the program only where the limits of the log are.

### Parts outside the model
| part | why |
|---|---|
| options, `rdtsc` statistics, `RecordSerializer` | configuration and measurement; the record serializer is a one-lock variant that nothing instantiates |
| the code generator of the interceptors, `get_eip`'s choice of a stack frame | what it generates is modelled, the generation is not |
| the inside of `wait_t::wait/post` | a semaphore, or a busy loop with the same effect |
| init and destroy of synchronisation objects as operations on the objects | modelled as calls (`Hooks`) and as log records, not in `SyncObjects` |
| `nonDetSyncs`, `monitor`, `detach` | statistics |
| `apps/`, `eval/`, scripts | programs that xtern runs or is measured by, not xtern |

How the parts interact: the runtime's operations call the scheduler while they hold the
turn; blocking calls go to `block`/`wakeup` and run without it; the idle thread is an
ordinary thread of the scheduler that also uses a real mutex and condition variable;
`RunQueue` is the scheduler's data structure; `TidMap` is its base class. Every operation
is reached through a wrapper and logged, with its turn number, before the turn is put.

## 2. Modules

| module | models | kind |
|---|---|---|
| `ThreadIds` | thread ids, shared by the scheduler and its run queue | |
| `RRScheduler` | turn scheduler, idle thread, shutdown, blocking calls | checked and proved |
| `RRScheduler_proofs` | the turn and the queues; the asserts, the clock and the idle thread; the run queue's refinement | proofs |
| `FifoQueue`, `RunQueue` | the abstract queue; the linked list that implements it | checked and proved |
| `Queues` | part of a queue, in its order (`Only`, `Except`) | used by `SyncObjects` and `NonDet` |
| `SeqLemmas` | facts about sequences and about `Queues`, used by all proofs on queues | proofs |
| `ThreadLife` | creation, begin, end, join, detach | checked and proved |
| `ThreadLife_proofs` | theorems about it | proofs |
| `TurnTime` | conversion of time to turns | checked and proved |
| `TurnTime_proofs` | theorems about it | proofs |
| `SyncObjects` | mutex, condition, semaphore, rwlock, barrier, lineup | checked and proved |
| `SyncObjects_proofs` | theorems about it | proofs |
| `NonDet` | non-deterministic regions, the clock bound, what fork's child keeps | checked and proved |
| `NonDet_proofs` | theorems about it | proofs |
| `Hooks` | interceptors, wrappers, spaces, errno, scheduling classes, base runtime | checked and proved |
| `Hooks_proofs` | the turn in the stacks of calls; spaces, dbug, errno | proofs |
| `RecordLog` | the three loggers and the reader of a log | checked and proved |
| `RecordLog_proofs` | theorems about the loggers | proofs |
| `MC*` | the instances for TLC | |

The components are stacked. `RRScheduler` shows that one thread at a time has the turn;
that is why `SyncObjects` may take the part of an operation that runs with the turn as
one step and `ThreadLife` may take the head of the run queue as the turn holder.
`TurnIsGranted` and `TimedWaitEnds` of `RRScheduler` justify the fairness of `SyncObjects`.
`RunQueue` justifies that `RRScheduler` uses a sequence for `runq`. On the same ground
`RecordLog` takes an operation from `getTurn` to `putTurn` as one step, `NonDet` the parts of it
between two reads of what threads without the turn write, and `Hooks` keeps of the scheduler only
who has the turn.

### RRScheduler
Per thread `pc` is the point in the scheduler and `op` the operation that brought it there.
A step is the code between two accesses that another thread can observe: each look at a
status (`next`, `nextRunnable` go element by element, with the position in `itr`), the
wakeup flag, the set under its mutex, the post of the token, the real `idle_mutex`.
`check_wakeup` takes the threads out of the set one by one. The choice of the next
thread and its `post` are one step, since the thread chosen cannot change in between:
`RUNNING_REG` marks it. A broadcast is a series of signals by the holder.
`phase` is where `idle_thread` (`sleep, lock, condWait, unlock, break, exit`) and
`__tern_prog_end` (`app, lock, set, unlock, signal, real, realSignal, realUnlock, join, exit`) are: the
real lock, signal and unlock at its end are three steps, made without the turn, and main owns `idle_mutex`
between them.
The application is the most general client: with the turn a thread may signal, wait with
or without timeout, block, create, end, in any order.

Abstraction of data: `timeout[t]` is `waits[t].timeout - turnCount`. The code compares the
two and does nothing else with them, so nothing is lost and the state is finite; a wait
of n turns starts with n - 2 because `wait` computes its deadline before it counts its own turn.
Spurious returns of `pthread_cond_wait` are a constant (`SpuriousWakeups`).
Left out here: `enforce_non_det_*` (0 by default; in `NonDet`), `launch_idle_thread = 0`, the dbug
build (in `Hooks`).

### RunQueue
One action per list operation the scheduler calls, with the pointers exactly as the code leaves
them. `fifo` is auxiliary and corresponds to the debug build's set `elements`: only the
callers' promises refer to it. `erase` and `push_front` have no caller and are left out
(with them, the stale pointer would no longer be harmless).

### ThreadLife
State is per pthread id. An id is given out again after a join or after a detached thread has
exited; `stale` is history, the ids of which a detached thread has ended, since `zombies` keeps those.
`Creators` is the set of threads that call `pthread_create`.

### TurnTime
One thread makes timed waits that nobody signals, others take turns. Units and word sizes are
constants, scaled down so that borrow, cut-off and wrap all happen in the instance.

### SyncObjects
`pc` and `arg` tell which operation a thread will resume when it has the turn. `E` is the set of
timed waiters whose time is up at a counted turn: any of them, because the number of turns is
abstracted. `pthreadCondTimedWait` counts one turn more than `pthreadCondWait`, before the
mutex is signalled; the two counts are one here, which only merges the order in which
expired and signalled threads join the queue. `Programs` says which threads use which object.
`AddressAssumption` says that no two objects have the same address. A lineup is named by a `long`
(`OpaqueType`) and kept under an `unsigned` (`Key`); two names with one key end the program in `lineupInit`'s
assert, which is `LineupAssumption`.

### NonDet
`sch` is a record with the scheduler's state, and each function of the scheduler is an operator
from such a record to the next, in the code's order. An operation is three kinds of step: what it does to
`sch` with `incTurnCount` and its `check_wakeup`; the rest up to the `check_wakeup` in `next` (`PutTurn`, `Wait`, `Leave`,
`PutTurnAtEnd`, by `todo`), with `checkNonDetBound` where the code calls it; and one step per round of the loop in
`nextRunnable`. So the steps without the turn (`InterProStart`, `InterProEnd`, `Wakeup`, `NonDetEnd`) come between
any two reads of what they write, and in particular between `check_wakeup` and the look at the size of the run
queue. `tryPutTurn` is one step here and element by element in `RRScheduler`, which also has the assert that it is not the
idle thread that finds the run queue empty. Threads may operate for ever. `sch.bad` tells that an assertion failed. A clock is kept as its age,
`turnCount` minus the clock, cut off at `Bound + 1`: the code only compares the difference with the
bound. A loop of the scheduler is written as what it does to a queue as a whole: `check_wakeup` queues the
returning threads in the order of `WakeOrder`, a constant, since the code goes through a hash set;
`unwait` moves the signalled part of the wait queue, in
its order. `ForkSpec` follows a forked child, which keeps what `childForkReturn` does not reset.

### Hooks
`frames[t]` is the stack of calls in progress; a frame is at its interceptor (`hook`), in its wrapper
(`tern`, `ret`), in the runtime (`rt, turn, held, put, offq, detach`), in the real call (`real`), or in a
script of further calls (`script`: program end, thread exit, fork's child, `soba_wait`). The functions are
sets named after the families of `hooks.cpp`, `runtime.cpp` and `record-runtime.cpp`, and
`TablesAgree` is what the tables must have in common. `errno` is `app` (as before the call), `call` (set by
the failing real call) or `rt` (only the runtime's own library calls touched it). Which real calls may block
and which report in errno is external. The options are part of the state and fixed at the start.

### RecordLog
`disk` maps file names to sequences of records, `lg` gives each thread its file and offset. A record
has the fields of `logdefs.h`. `fault` tells how a logger stopped its process: no case for an operation in a text
logger (`nocase`), a full trunk (`full`), an instruction id that does not fit its 29 bits (`insid`), a write behind the end of
the mapped file (`sigbus`; in the code the rest of the last page can still be written, and is lost). An operation is
logged under the id its hook passes: 0, the address of the call if `dync_geteip` is on, or the name of a lineup, the
last two from `AppInsids`; `INVALID_INSID` is logged by the runtime itself, and so is the idle thread's id. Each behaviour repeats one kind of
work, so that every operation the runtime logs is tried without mixing them; `done` and
`sched` are history. After a fork there are two processes, with the same file names unless
the option puts the process id in them; the properties speak of files that one process alone writes
(`OwnFiles`).

## 3. Runs

| run | question | bound and result |
|---|---|---|
| `rr_safety` | one turn, holder at the front, `selfcheck()`, nobody lost, the asserts, no overdue waiter, reasons of wakeups, no overtaking, idle never waits for the real lock | 3 threads, one channel, timed waits whose deadline is ahead or already past, spurious wakeups; also the invariant `FullInv` of the proofs; 562,605 states |
| `rr_live` | the turn is granted, timed waits end, shutdown completes | 3 threads, immediate deadline, no spurious wakeup; 330,281 states |
| `life_one` | maps, semaphores, join with one creator, ids used again | 3 children, 5 tids; 201,781 states |
| `life_two` | the same with two creators | violated |
| `time_turns` | length of a timed wait | 2 threads, 40 turns; 60,119 states |
| `sync_objects` | no lost wakeup on mutex, condition, semaphore, rwlock; barriers and lineups open for all, for a reason and always | 4 threads, one object each, counts of 3, in four programs; 133,824 states |
| `runq_fifo` | the list is a FIFO queue | 4 elements; 3,547 states |
| `hooks_calls` | Sys space, turn inside a wrapper, dbug attachment, errno, prompt calls return | 2 threads, every intercepted function, 3 builds and option settings; 250,492 states |
| `hooks_errno` | is errno always the failed call's? | violated |
| `log_records` | logs read back, merge into the schedule, and stop the program only at their limits | 2 processes of 2 threads, 4 turns, calls of up to 7 arguments, logs of 6 records, ids that fit, the reserved one, one that does not fit; 1,250,104 states |
| `nondet_regions` | set and queues agree, bound, woken regions come first, regions start, the turn comes back | 3 threads with the clock bound (of 1), 4 without; 161,211 states |
| `fork_child` | does the child's scheduler know only its own threads? | violated |

The other configurations show a disagreement of section 5 each, by a property that TLC finds violated in a few
seconds (a minute for the second), and are run by hand:

| configuration | violated property | what it shows |
|---|---|---|
| `MCRRScheduler_deadline.cfg` | `FiredAtDeadline` | a waiter whose timeout is equal to the turn count sleeps on |
| `MCRRScheduler_spurious.cfg` | `NextFinishes` | after a spurious wakeup `nextRunnable` waits for `idle_mutex` with the turn, for ever |
| `MCRRScheduler_progend.cfg` | `ProgEndReturns` | a worker that runs on starves `__tern_prog_end` |
| `MCThreadLife_reuse.cfg` | `JoinsEndedThread` | the join of a thread with a reused id does not wait |
| `MCTurnTime_negative.cfg` | `NegativeIsShort` | a wait until a time in the past lasts MAX_REL turns |
| `MCRecordLog_ids.cfg` | `IdsFit` | a lineup's name fails the assert of `setInsid` |
| `MCRecordLog_fork.cfg` | `CutIsUnused` | fork's child cuts the parent's file below what the parent has written |
| `MCNonDet_paused.cfg` | `StartWhenPaused` | a thread is back in the program when the regions are woken |

Why the bounds are enough to be interesting. Three scheduler threads are main, idle and one
worker: a head and a non-head of the queue can race with the holder, and two can be queued
while the idle thread sleeps; the proofs remove this bound for the main safety results.
Four threads on a barrier of three leave one over for the next round; three users of one
mutex are an owner, a signalled waiter and a barging thread. Two creators
are what it takes to confuse the semaphores. In `hooks_calls` the main thread makes every
call, one after the other in any order, while the other sits in `send` or ends: one class against
every other. Seven arguments need two extra records of a call. Two workers next to
main let two regions overlap with a blocking call, and a bound of 1 is passed within one round. The clocks of the bound multiply the states, so that
it is checked with one worker; the proofs have any number. A log of 6 records can be filled, and a call can run
over its end. `MaxThreads`, `MaxTid`, `MaxTurn`, `MaxSem`, `MaxRecords` bound counters in the guards. No symmetry is used: main and idle differ, and run queues
start in a fixed order.

`CHECK_DEADLOCK FALSE` is used where the program may end or where an application may
deadlock itself (lock twice, join itself, wait for a signal that nobody sends).

Fairness. `RRScheduler`: weak fairness for each thread's steps in the runtime and between two
calls of it, since the kernel runs every runnable thread; none for the return of a blocking call, the
start of the shutdown or spurious wakeups. `ThreadLife`: weak fairness per thread.
`SyncObjects`: weak fairness per thread with the turn, and for the expiry of each
timed wait, which the idle thread's ticking gives. `Hooks`: weak fairness for the steps of a call
that has started and for real calls that cannot block, none for the others; strong fairness for taking the turn
and for leaving the run queue, which `TurnIsGranted` of `RRScheduler` gives. `NonDet`: weak fairness
for a thread with the turn, in a region or in `wakeup`, for the idle thread's loop and for the scheduler's own code, with the
enabling condition written out (`CanGo`); a blocking call need not return. Nothing makes a thread stop operating or stay
away: threads that keep coming back can put a region off for ever, since its wait has no timeout. `RegionStarts` says that this is
the only way, and that is all the code promises.

Each property has a mutant of the code's definition that breaks it under the same configuration.

## 4. Proofs

All theorems hold for every value of the constants that the named assumptions of the modules allow.

### Scheduler
`RRScheduler_proofs` proves, for every number of threads, set of channels, set of timeouts and with
spurious wakeups: `TypeCorrect`, `TurnIsUnique`, `HolderIsAtFront`, `SelfCheckHolds`, all from
`Inductive == Spec => []IInv`.

    IInv == TypeOK /\ ControlInv /\ OneTurn /\ HolderAtFront /\ WakeInv /\ QueueInv /\ WaitInv

None of the properties is inductive alone. `OneTurn` needs `HolderAtFront` (the turn is taken from
the head) and `QueueInv` (the head occurs once). `QueueInv` needs to know that
`check_wakeup` never queues a waiting thread. That is `WakeInv`: a thread that waits is not in
`inter_pro_wakeup_tids`, because its own `incTurnCount` emptied the set and it has made no blocking
call since. `WaitInv` says `waits[t]` is reset exactly when `t` is not waiting. The step of each
part is a lemma (`ControlStep`, `TypeStep`, `TurnStep`, `WakeStep`, `QueueStep`, `WaitStep`)
with one case per action; `TurnKept`, `TurnTaken`, `TurnLeaves` are the three ways a step can treat
the turn, and `QueueKept` is the frame of the queues.

The second part of the module proves the rest of the run's properties: `NobodyIsLost`, `AssertionsHold`,
`NobodyIsOverdue` and, as action properties, `WaitsEndForAReason` and `NobodyOvertakes`, from
`FullInductive == Spec => []FullInv`, which `rr_safety` checks as well.

    FullInv == IInv /\ StatusInv /\ PlaceInv /\ DeadlineInv
               /\ MainControl /\ MainPlace /\ IdleControl /\ IdlePlace

`StatusInv` ties the status of a queue element to its thread's program point; the asserts on a
status are its instances. `PlaceInv` is `NoThreadLost` for every program point. `DeadlineInv` adds to
`NoOverdueWaiter` that between `fireTimeouts` and the end of the operation nobody at all is overdue. The
hard assert is the one of `next()`: an empty run queue is found only while the idle thread sleeps. It needs
the protocol between the idle thread and `__tern_prog_end`: `IdlePlace` (when the idle thread leaves the
queue it leaves the thread that `tryPutTurn` reserved, or main) rests on `IdleControl` (it ends only after
`idle_done`) and on `MainControl` and `MainPlace` (main is on the queue from its first lock to the join,
and joins nobody else); `IdleControl` also says in which phases, the real lock included, main and idle own `idle_mutex`. Assumptions: `ThreadAssumption` (main and idle exist), `ChanAssumption` (the
channels are distinct), `SpuriousAssumption`, and `TimeAssumption`, which allows negative timeouts: a
deadline may be past when the wait begins, so `NoOverdueWaiter` and `WaitEndsForAReason` except the thread
that called `wait()` last.

### Run queue
The third part of `RRScheduler_proofs` proves `ListIsQueue` (the pointers represent the sequence) and
`RunQueueIsFifo`: the list implements `FifoQueue`, for any number of threads, assuming only that `NULL` is none
of them. `RunQueue` has the scheduler's thread ids and a specification of its own (`ListSpec`): what is shown is that the
list behind `runq` may be taken for a sequence. That its caller pushes nobody twice is `SelfCheckHolds`.
The heart is `InIsRight`: in spite of the stale `prev` of the head, `in` answers membership.

### Hooks
`Hooks_proofs` proves `TurnIsInside` (`TurnStaysInside`) and `TypesAreRight`, for any number of threads, any
program and all option settings, from `ProgramAssumption`. The inductive invariant

    HInv == Plain /\ Stacks /\ TurnStaysInside

adds the types and `Stacks`: below the top of a stack of calls there are only scripts, so that a return never
uncovers a frame with the turn, and a thread that is not created yet has no frames. Each action but
`Create` and `Fork` changes one stack by replacing its top (`SetTopStep`), returning (`PopStep`) or calling
(`PushStack`); its lemma says what it leaves on top and what it does to the turn.

The second part proves `RuntimeStaysInSys`, `DbugAssertionsHold` and the action property
`ErrnoIsDelivered` from `StacksAreRight == Spec => [](HInv /\ SpaceInv)`. `SpaceInv` says of each thread's
stack which space its top frame runs in (`FrameSpace`, for a script by its step) and that every frame below
was in the space in which the one above returns (`Called`), so that nesting cannot leave a thread in the
wrong space; that a thread is attached to dbug exactly in a region and on the frames of `Away`; which functions
may be called inside a region; and which layer holds the errno of a failed call (`ErrorOK`). The three properties
need each other's part: a script's steps in Sys space depend on dbug, and errno on the mode of the call.

### Thread life
`ThreadLife_proofs` proves `MapsAlwaysAgree` without restriction, from
`MapInv == TypeOK /\ MapOK /\ SelfOK /\ QueueOK /\ TurnOK`: `TidMap` is consistent even when two creations
overlap or ids come back, because `create` and the real join run with the turn (`TurnOK`) and an ended
thread has left both maps. `JoinsAreSafe` (`JoinsEndedOrReused`) is unconditional too: its invariant `ZombieOK` says that a
zombie has ended or is `stale`, and that the real join is called on a zombie; the exception is needed (`MCThreadLife_reuse.cfg`). `ChildrenAreMapped`
is conditional, and its run shows that the condition cannot be dropped: it assumes `OneCreator`; its invariant `CreateOK` says that the semaphores are `Quiet` or one `Handshake` is in progress,
in one of its four stages, which a second creator breaks (`life_two`).

### Logical time
`TurnTime_proofs` proves `WaitsAreLongEnough` (`LastsLongEnough`) and `WaitsAreShort` (`LastsNoLonger`), for any
units of time, times of day, cut-off and number of threads, under `WordsSuffice`: the turn count and the product of `usleep`
stay below 2^32, the times below 2^64. Without it neither holds (the wrap of the turn count and the product of
`usleep` are hazards of the code); `MCTurnTime` makes TLC check that the instance meets it. `TimeInv` says where the
deadline lies, turn by turn: `since` turns after the call it is `Turns(want) - since - 1` turns ahead, and a wait ends exactly
when it has lasted `Turns(want)`. `DiffIsRight` shows that `time_diff`, with its borrow, is the difference of the two times, and
`TurnsProps` what `time2turn` and the lower bound of `relTimeToTurn` make of it, negative times included.

### Synchronisation operations
`SyncObjects_proofs` proves `WakeupsArrive` (`NoLostWakeup`), `BarrierCountsSleepers` (`ArrivedAreAsleep`),
`LineupsAreConsistent`, and the action properties `BarriersOpenForAll` and `LineupsOpenForAReason`, for any numbers of
threads and objects, any counts and any program, from `SyncInductive == Spec => []SyncInv`.

    SyncInv == ThreadInv /\ MutexOK /\ RWLockOK /\ SemOK /\ BarrierOK /\ LineupOK

`ThreadInv` says that a thread is in one queue, once, and that a waiting thread is in the middle of an
operation and waits on that operation's object (`OpOK`), not timed out and with a timeout only where the operation has
one. The others speak of two sets per object: `Sleepers`, who wait on it, and `Retriers`, who were woken and will try
again. `SemOK` is the delicate one: a post adds a unit and a retrier, a retry that succeeds takes one of each,
a thread that barges in takes a unit only, and one that goes to sleep does so at zero; so the value never exceeds
the number of retriers while somebody sleeps. A woken waiter never times out, so it cannot lose its signal. `LineupOK` adds
that a thread woken by others finds the lineup open, since a lineup closes only when nobody is inside.

The proof first reduces the queues to sets: `putTurn`, `syncWait` and `Tick` are shown to be `Moved` (`PutTurnMoves`,
`SyncWaitMoves`, `TickMoves`), and `StepOf` adds that no other thread gets anywhere. Each kind of object then has a lemma
for what a step may do to it (`MutexStep`, `SemStep`, `RWLockStep`, `BarrierStep`, `LineupStep`) and one with a case per operation
(`MutexSteps` and so on); `OtherKinds`, `NoBarrier`, `NoLineup` are the frames. `Only`, the filter of a queue, is a recursive
function; what it returns (`OnlyProps`) is proved by induction, in the form that the least element of a set of natural
numbers exists (`LeastNat`, `InductionUpTo`). Assumptions: `SyncAssumption`, `AddressAssumption`, `LineupAssumption`.

### Non-deterministic regions
`NonDet_proofs` proves `Consistent` (`NonDetConsistent`), `RegionsComeFirst` (`RegionsFirst`) and `BoundHeld`
(`BoundHolds`) for `Spec`: any number of threads, any bound, with the bound enforced or not, and any order of the hash set,
from `NonDetAssumption`. (`ForkSpec` is outside: there `fork_child` shows an assertion fail.)

    Inv == Good(sch, at, Entering(sch, todo)) /\ TodoOK(sch, at, todo) /\ the count of waiting regions

`Good(S, a, x)` speaks of a scheduler state `S` and thread places `a`, so that it can be carried through the
functions of the scheduler one after the other, within a step: no assertion has failed, the queues have no duplicates and are
disjoint (`QueueOK`), the place of a thread tells which queue it is in (`LocOK`) and which status it has (`StatusOK`), and the
set of threads that are away holds exactly the live threads in neither queue (`AwayOK`), plus `x`: `block` puts a
thread into the set before it leaves the run queue, and `check_wakeup` runs in between. `TodoOK` is what is known of the
thread with the turn between two steps of its operation. The delicate part is that a
thread may come back twice, through `checkNonDetBound` and through `wakeup`: `LocOK` knows at which places a thread can be in
`inter_pro_wakeup_tids`, so that nobody in the wait queue is queued again. Every function has a lemma (`CheckWakeup`, `Unwait`, `PopStopped`,
`GiveTurn` and so on), every action a lemma `Step...` that chains them.

`RegionsFirst` is the part `InFront` of `Good`. Regions are woken when the run queue holds the idle thread alone, so they are
queued right behind it; whoever comes back later is queued behind them. A thread that is woken and has its first turn goes to
the end of the queue once (`started`) before it leaves it, which is why `started` may be ahead as well.

For `BoundHeld` the invariant `BoundOK` adds a potential. `checkNonDetBound` looks only at the head of the set and
moves one thread at a time. `Sorted` says that the set is in the order of age, so that the head is overdue if anybody
is; `Soon` that the i-th thread of the set has been overdue for at most `NThread - i` calls of `putTurn`, and the i-th of the run
queue for at most `2 NThread - i`. Each call that counts an overdue thread moves it one place forward: in the set because
its head is taken out, in the run queue because its head goes to the back. A thread that moves from the set to the end of
the run queue therefore has a round left. `Fresh` is the frame: a thread that waits, holds the turn or does not exist yet
has no clock, so it is not overdue when it is queued. That other paths (`wait`, `block`) do not look at the bound is
why the property counts `putTurn` calls.

### The log
`RecordLog_proofs` proves `LogsMerge` (`MergeIsSchedule`) and `LoggersStopAtTheirLimits` (`StopsAtItsLimits`), for any numbers of threads
and turns, any options, any work and whatever the files held before, from `LogAssumption`. The first rests on
`LogInductive == Spec => [](LogInv /\ Given)`:

    LogInv == Types /\ Control /\ Names /\ \A p \in Proc : Lines(p)

`MergeIsSchedule` compares lines of different files, so the invariant has to say where every line is: `Lines` says that
each entry of the schedule lies in the file of some thread below that thread's offset, with a turn of the past. A line
stays there because nobody else writes to the file, which is `Unshared`: `Names` ties the name of a log to its thread, with
the one exception that the child's first log is named after the forking thread (`LogTid`), and `OwnFiles` excludes
just the cases in which this exception makes two names equal or a mapping is shared. `Control` supplies the order of
events at a fork: the child has no other thread before it has opened its log. Every action but `SilentTurn`, `Fork` and
`ChildReturn` is shown to be a `Writes` step (one thread writes behind its own lines, or cuts its file there);
`WritesKeep` and `LinesStay` then keep the invariant. Text lines and binary records are not told apart: a file is any sequence.

`LoggersStopAtTheirLimits` has no hypothesis on sizes or ids. It rests on `SafeInv`, which adds `Mapped`: while nobody else
writes to the files of a process, a binary log that is open is exactly as long as its mapping, so that its end and the trunk's
are one and a `sigbus` means that somebody else has cut the file. `Points` says that a thread creates the idle thread
only when the option is on, so that a failing id is the idle thread's or the program's (`Known`, `IdOK`); `FaultCauses` reads
off the causes of each fault. That the text loggers have a case for every logged operation is `TableIsComplete`, an
enumeration of the tables.

### Model-checked only
Everything under fairness (`TurnIsGranted`, `TimedWaitEnds`, `ShutdownCompletes`, `CreateReturns`, `LineupStartReturns`,
`PromptCallReturns`, `RegionStarts`, `TurnComesBack`): the prover does not reason about it. `RealLockUnseen` of `RRScheduler`: that
the idle thread is past its last trylock when main takes the real lock follows from the alternation of their turns during the shutdown, of which `FullInv` keeps no trace. Of
`RecordLog`, `LogReadsBack` alone: it is about a reader that groups a file of any length recursively, an induction over data.

## 5. Where code and comments disagree

* Two overlapping `pthreadCreate` calls share the two semaphores after the turn has been
  passed on; a child may look itself up before it is in the map (`life_two`).
* A failed `read` of a regular file goes straight to libc and the wrapper then restores the errno saved
  before the call; `write`, `pread`, `pwrite`, `close` and `fgets` likewise (`hooks_errno`).
* `childForkReturn` resets the queues but not `inter_pro_wakeup_tids`: the child's first
  `check_wakeup` may look for an element that was deleted (`fork_child`).
* A detached thread stays in `zombies`; with its id reused, `pthreadJoin` blocks on a live
  thread with the turn (`MCThreadLife_reuse.cfg`).
* A negative relative time becomes a huge unsigned one: a past deadline waits longest
  (`MCTurnTime_negative.cfg`).
* The idle thread's `pthread_cond_wait` is not in a loop; after a spurious return
  "This loop is guaranteed to finish" fails (`MCRRScheduler_spurious.cfg`).
* `scheduler.h:148` describes a timeout as reached when `turnCount` is greater than or
  equal to it; `fireTimeouts` waits until it is greater (`MCRRScheduler_deadline.cfg`).
* Lineups are logged under their names, and the idle thread's creation under an id of 32 bits, neither of which need fit
  the 29 bits of a binary record (`MCRecordLog_ids.cfg`).
* A forked child that deletes the inherited binary logger truncates the parent's file below what the parent has
  written since (`MCRecordLog_fork.cfg`).
* A thread that comes back from a call after the last `check_wakeup` runs, off the run queue, while the idle thread wakes the
  regions because "all threads are paused" (`MCNonDet_paused.cfg`).
* `__tern_prog_end` may starve while a worker keeps running (`MCRRScheduler_progend.cfg`); no comment says otherwise.

## 6. Plan

Done: the scheduler with idle thread and shutdown and its proofs; the run queue and its refinement;
thread life; time; synchronisation objects; non-deterministic regions and fork; hooks, spaces and base runtime; the log (each with
the proofs of section 4). Left, in this order:

1. `TurnOrder`: an abstract scheduler (a round-robin token ring with waiters) that `RRScheduler`
   implements, and determinism of the order given the operations.
2. init and destroy of objects in `SyncObjects`; the relay inside `wait_t`.
