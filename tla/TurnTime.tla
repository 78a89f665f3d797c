------------------------------ MODULE TurnTime ------------------------------
(***************************************************************************)
(* Logical time: how a relative or absolute time of the application        *)
(* becomes a number of turns (time_diff, time2turn and relTimeToTurn of    *)
(* lib/runtime/record-runtime.cpp), becomes the deadline of a wait and is  *)
(* compared with the turn count (fireTimeouts, lib/runtime/                *)
(* record-scheduler.cpp).                                                  *)
(*                                                                         *)
(* One thread makes timed waits that nobody signals, and the other threads *)
(* take turns.  The machine's word sizes and the units of time are         *)
(* constants, so that a small instance still meets their limits.           *)
(***************************************************************************)
EXTENDS Integers

CONSTANTS
  Giga, Kilo,       \* nanoseconds of a second, of a microsecond
  NanosecPerTurn,   \* options::nanosec_per_turn
  MAX_REL,          \* the longest wait, in turns
  Word64, Word32,   \* 2^64 and 2^32
  Clock,            \* times of day, in nanoseconds
  Usecs,            \* arguments of usleep
  MaxThread,        \* bound on nthread
  MaxTurn           \* bound on the turn count

ASSUME UnitAssumption ==
  /\ Giga \in Nat \ {0} /\ Kilo \in Nat \ {0}
  /\ NanosecPerTurn \in Nat \ {0} /\ MAX_REL \in Nat
  /\ Word64 \in Nat \ {0} /\ Word32 \in Nat \ {0}
  /\ Clock \subseteq Nat /\ Usecs \subseteq Nat
  /\ MaxThread \in Nat /\ MaxTurn \in Nat

\* struct timespec
Timespec(ns) == [tv_sec |-> ns \div Giga, tv_nsec |-> ns % Giga]
Nanosec(ts) == ts.tv_sec * Giga + ts.tv_nsec

\* Mutant: no borrow from the seconds.
time_diffNoBorrow(start, end) ==
  IF end.tv_nsec < start.tv_nsec
  THEN [tv_sec |-> end.tv_sec - start.tv_sec, tv_nsec |-> Giga - start.tv_nsec + end.tv_nsec]
  ELSE [tv_sec |-> end.tv_sec - start.tv_sec, tv_nsec |-> end.tv_nsec - start.tv_nsec]

time_diff(start, end) ==
  IF end.tv_nsec < start.tv_nsec
  THEN [tv_sec |-> end.tv_sec - start.tv_sec - 1, tv_nsec |-> Giga - start.tv_nsec + end.tv_nsec]
  ELSE [tv_sec |-> end.tv_sec - start.tv_sec, tv_nsec |-> end.tv_nsec - start.tv_nsec]

\* Mutant: the bound is applied to the nanoseconds.
time2turnShort(nsec) ==
  (IF nsec > MAX_REL THEN MAX_REL ELSE nsec) \div NanosecPerTurn

\* nsec is a uint64_t.
time2turn(nsec) ==
  LET ret64 == nsec \div NanosecPerTurn
  IN  IF ret64 > MAX_REL THEN MAX_REL ELSE ret64

AtLeast(n) == 5 * n + 1

\* The signed number of nanoseconds is converted to uint64_t by the call.
relTimeToTurn(reltime, nthread) ==
  LET ret == time2turn(Nanosec(reltime) % Word64)
  IN  IF ret < AtLeast(nthread) THEN AtLeast(nthread) ELSE ret

\* The words of the machine are long enough for the times and for the turn counts of the
\* run: usleep's product and the turn count fit 32 bits, the times of day fit 64 bits.
WordsSuffice ==
  /\ MaxTurn + MAX_REL + AtLeast(MaxThread) <= Word32
  /\ \A ns \in Clock : ns < Word64
  /\ \A usec \in Usecs : Kilo * usec < Word32 /\ Kilo * usec < Word64

-----------------------------------------------------------------------------
VARIABLES
  turnCount,
  timeout,      \* waits[tid].timeout
  waiting,
  nthread,
  since,        \* turns counted since the wait was called
  want          \* the time the application asked for, in nanoseconds

vars == <<turnCount, timeout, waiting, nthread, since, want>>

Init ==
  /\ turnCount = 0
  /\ timeout = 0
  /\ waiting = FALSE
  /\ nthread \in 1..MaxThread
  /\ since = 0
  /\ want = 0

\* getTurnCount()
getTurnCount == turnCount - 1

\* timeout = getTurnCount() + relTimeToTurn(ts), and wait() with its incTurnCount().
waitRel(ts, ns) ==
  /\ timeout' = (getTurnCount + relTimeToTurn(ts, nthread)) % Word32
  /\ turnCount' = (turnCount + 1) % Word32
  /\ waiting' = TRUE
  /\ since' = 1
  /\ want' = ns
  /\ UNCHANGED nthread

CanWait == ~waiting /\ turnCount < MaxTurn

\* pthread_mutex_timedlock, pthread_cond_timedwait, sem_timedwait at time now.
TimedWait(now, abstime) ==
  CanWait /\ waitRel(time_diff(Timespec(now), Timespec(abstime)), abstime - now)

\* sleep and nanosleep
Sleep(ns) == CanWait /\ waitRel(Timespec(ns), ns)

\* usleep: 1000*usec is a product of unsigned ints.
Usleep(usec) ==
  CanWait /\ waitRel([tv_sec |-> 0, tv_nsec |-> (Kilo * usec) % Word32], Kilo * usec)

\* Some thread ends an operation: incTurnCount() and fireTimeouts().
IncTurnCount ==
  /\ waiting \/ turnCount < MaxTurn
  /\ turnCount' = (turnCount + 1) % Word32
  /\ since' = IF waiting THEN since + 1 ELSE since
  /\ waiting' = (waiting /\ ~(timeout < turnCount'))
  /\ UNCHANGED <<timeout, nthread, want>>

Next ==
  \/ \E now, abstime \in Clock : TimedWait(now, abstime)
  \/ \E ns \in Clock : Sleep(ns)
  \/ \E usec \in Usecs : Usleep(usec)
  \/ IncTurnCount

Spec == Init /\ [][Next]_vars

-----------------------------------------------------------------------------
(* Properties. *)

\* A timed wait that times out has lasted as many turns as the time asked for is worth
\* (or MAX_REL), and long enough for every thread to have had five turns.
LastsLongEnough ==
  [][waiting /\ ~waiting' =>
       /\ since' >= AtLeast(nthread)
       /\ want \div NanosecPerTurn <= since' \/ MAX_REL <= since']_vars

\* It lasts no longer than that.
LastsNoLonger ==
  waiting /\ want >= 0 =>
    since <= AtLeast(nthread) \/ since <= want \div NanosecPerTurn

\* "if result too small or negative, return only (5 * nthread + 1)" (relTimeToTurn).
NegativeIsShort == waiting /\ want < 0 => since <= AtLeast(nthread)
=============================================================================
