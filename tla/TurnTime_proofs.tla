--------------------------- MODULE TurnTime_proofs ---------------------------
(***************************************************************************)
(* How long a timed wait lasts, for any units of time, clocks and numbers  *)
(* of threads: as many turns as the time that was asked for is worth, cut  *)
(* off at MAX_REL, and at least five turns of every thread.                *)
(***************************************************************************)
EXTENDS TurnTime, TLAPS

\* The turns a time in nanoseconds is worth.
Turns(ns, n) ==
  LET t == time2turn(ns % Word64) IN IF t < AtLeast(n) THEN AtLeast(n) ELSE t

\* A wait of want nanoseconds began since turns ago, and its deadline is not over.
TimeInv ==
  /\ turnCount \in Nat /\ timeout \in Nat /\ waiting \in BOOLEAN
  /\ nthread \in 1..MaxThread /\ since \in Nat /\ want \in Int
  /\ waiting =>
       /\ want < Word64 /\ since >= 1 /\ turnCount - since < MaxTurn
       /\ timeout = turnCount - since - 1 + Turns(want, nthread)
       /\ turnCount <= timeout

-----------------------------------------------------------------------------
(* Arithmetic. *)

LEMMA DivMod ==
  ASSUME NEW n \in Int, NEW d \in Nat \ {0}
  PROVE  n \div d \in Int /\ n % d \in 0..(d - 1) /\ n = d * (n \div d) + (n % d)
<1>1. n \div d \in Int /\ n % d \in Int
  OBVIOUS
<1>2. n % d >= 0 /\ n % d < d
  OBVIOUS
<1>3. n = d * (n \div d) + (n % d)
  OBVIOUS
<1>4. QED
  BY <1>1, <1>2, <1>3

LEMMA ModSmall ==
  ASSUME NEW d \in Nat \ {0}, NEW n \in 0..(d - 1)
  PROVE  n % d = n
  OBVIOUS

LEMMA DivNat ==
  ASSUME NEW n \in Nat, NEW d \in Nat \ {0}
  PROVE  n \div d \in Nat
  OBVIOUS

LEMMA DivNegative ==
  ASSUME NEW n \in Int, n < 0, NEW d \in Nat \ {0}
  PROVE  n \div d < 0
  OBVIOUS

\* Multiplication by the units, for the provers.
LEMMA Commutes ==
  ASSUME NEW x \in Int, NEW y \in Int
  PROVE  x * y = y * x
  OBVIOUS

LEMMA Borrow ==
  ASSUME NEW a \in Int, NEW b \in Int, NEW g \in Int, NEW m \in Int, NEW n \in Int
  PROVE  (a - b - 1) * g + (g - n + m) = (a * g + m) - (b * g + n)
  OBVIOUS

LEMMA NoBorrow ==
  ASSUME NEW a \in Int, NEW b \in Int, NEW g \in Int, NEW m \in Int, NEW n \in Int
  PROVE  (a - b) * g + (m - n) = (a * g + m) - (b * g + n)
  OBVIOUS

\* A timespec holds the time it was made from.
LEMMA TimespecHolds ==
  ASSUME NEW ns \in Int
  PROVE  /\ Timespec(ns).tv_sec \in Int /\ Timespec(ns).tv_nsec \in Int
         /\ Timespec(ns).tv_sec * Giga + Timespec(ns).tv_nsec = ns
<1>1. Giga \in Nat \ {0}
  BY UnitAssumption
<1>2. ns \div Giga \in Int /\ ns % Giga \in Int /\ ns = Giga * (ns \div Giga) + (ns % Giga)
  BY <1>1, DivMod
<1>3. Giga * (ns \div Giga) = (ns \div Giga) * Giga
  BY <1>1, <1>2, Commutes
<1>4. QED
  BY <1>2, <1>3 DEF Timespec

\* time_diff, with its borrow, is the difference of the two times.
LEMMA DiffIsRight ==
  ASSUME NEW now \in Int, NEW abstime \in Int
  PROVE  Nanosec(time_diff(Timespec(now), Timespec(abstime))) = abstime - now
<1> DEFINE s == Timespec(now)
           e == Timespec(abstime)
           b == s.tv_sec
           n == s.tv_nsec
           a == e.tv_sec
           m == e.tv_nsec
<1>1. /\ b \in Int /\ n \in Int /\ b * Giga + n = now
      /\ a \in Int /\ m \in Int /\ a * Giga + m = abstime
      /\ Giga \in Int
  BY TimespecHolds, UnitAssumption
<1>2. Nanosec(time_diff(s, e)) = IF m < n THEN (a - b - 1) * Giga + (Giga - n + m)
                                          ELSE (a - b) * Giga + (m - n)
  BY Zenon DEF time_diff, Nanosec
<1> HIDE DEF s, e, a, b, m, n
<1>3. /\ (a - b - 1) * Giga + (Giga - n + m) = abstime - now
      /\ (a - b) * Giga + (m - n) = abstime - now
  <2>1. (a - b - 1) * Giga + (Giga - n + m) = (a * Giga + m) - (b * Giga + n)
    BY <1>1, Borrow
  <2>2. (a - b) * Giga + (m - n) = (a * Giga + m) - (b * Giga + n)
    BY <1>1, NoBorrow
  <2>3. QED
    BY ONLY <1>1, <2>1, <2>2, Zenon
<1>4. Nanosec(time_diff(s, e)) = abstime - now
  BY ONLY <1>2, <1>3, Zenon
<1>5. QED
  BY <1>4 DEF s, e

\* What a time is worth: never less than five turns of every thread, the time divided by
\* the length of a turn up to MAX_REL, and a bounded number.
LEMMA TurnsProps ==
  ASSUME NEW ns \in Int, ns < Word64, NEW n \in 1..MaxThread
  PROVE  /\ Turns(ns, n) \in Nat /\ Turns(ns, n) >= AtLeast(n) /\ AtLeast(n) >= 6
         /\ Turns(ns, n) <= MAX_REL + AtLeast(MaxThread)
         /\ ns \div NanosecPerTurn <= Turns(ns, n) \/ MAX_REL <= Turns(ns, n)
         /\ ns >= 0 => Turns(ns, n) <= AtLeast(n) \/ Turns(ns, n) <= ns \div NanosecPerTurn
<1> DEFINE u == ns % Word64
           q == u \div NanosecPerTurn
           t == IF q > MAX_REL THEN MAX_REL ELSE q
           a == AtLeast(n)
<1>1. /\ NanosecPerTurn \in Nat \ {0} /\ Word64 \in Nat \ {0} /\ MAX_REL \in Nat
      /\ MaxThread \in Nat
  BY UnitAssumption
<1>2. u \in Nat /\ (ns >= 0 => u = ns)
  BY <1>1, DivMod, ModSmall
<1>3. q \in Nat /\ (ns >= 0 => q = ns \div NanosecPerTurn)
  BY <1>1, <1>2, DivNat
<1>4. ns \div NanosecPerTurn \in Int /\ (ns < 0 => ns \div NanosecPerTurn < 0)
  BY <1>1, DivMod, DivNegative
<1>5. a \in Nat /\ a >= 6 /\ a <= AtLeast(MaxThread) /\ AtLeast(MaxThread) \in Nat
  BY <1>1 DEF AtLeast
<1>6. Turns(ns, n) = IF t < a THEN a ELSE t
  BY DEF Turns, time2turn
<1> HIDE DEF u, q, a
<1>7. QED
  BY <1>1, <1>3, <1>4, <1>5, <1>6 DEF a

-----------------------------------------------------------------------------
(* The steps. *)

\* A wait begins: deadline, turn count and want are as the invariant says.
LEMMA WaitBegins ==
  ASSUME WordsSuffice, TimeInv, CanWait, NEW ts, NEW ns \in Int, ns < Word64,
         waitRel(ts, ns), Nanosec(ts) % Word64 = ns % Word64
  PROVE  TimeInv'
<1> DEFINE T == Turns(ns, nthread)
<1>1. /\ Word32 \in Nat \ {0} /\ MAX_REL \in Nat /\ MaxTurn \in Nat /\ MaxThread \in Nat
      /\ turnCount \in Nat /\ turnCount < MaxTurn /\ nthread \in 1..MaxThread
      /\ AtLeast(MaxThread) \in Nat /\ AtLeast(MaxThread) >= 6
      /\ MaxTurn + MAX_REL + AtLeast(MaxThread) <= Word32
  <2>1. /\ Word32 \in Nat \ {0} /\ MAX_REL \in Nat /\ MaxTurn \in Nat /\ MaxThread \in Nat
        /\ turnCount \in Nat /\ turnCount < MaxTurn /\ nthread \in 1..MaxThread
        /\ MaxTurn + MAX_REL + AtLeast(MaxThread) <= Word32
    BY UnitAssumption DEF TimeInv, CanWait, WordsSuffice
  <2>2. QED
    BY <2>1 DEF AtLeast
<1>2. T \in Nat /\ T >= 6 /\ T <= MAX_REL + AtLeast(MaxThread)
  <2>1. T \in Nat /\ T >= AtLeast(nthread) /\ AtLeast(nthread) >= 6
    BY <1>1, TurnsProps
  <2>2. T <= MAX_REL + AtLeast(MaxThread)
    BY <1>1, TurnsProps
  <2>3. QED
    BY <1>1, <2>1, <2>2 DEF AtLeast
<1>3. relTimeToTurn(ts, nthread) = T
  BY DEF relTimeToTurn, Turns
<1>4. /\ timeout' = (turnCount - 1 + T) % Word32 /\ turnCount' = (turnCount + 1) % Word32
      /\ waiting' = TRUE /\ since' = 1 /\ want' = ns /\ nthread' = nthread
  BY <1>3 DEF waitRel, getTurnCount
<1>5. Turns(want', nthread') = T
  BY <1>4
<1> HIDE DEF T
<1>6. turnCount - 1 + T \in 0..(Word32 - 1) /\ turnCount + 1 \in 0..(Word32 - 1)
  BY <1>1, <1>2
<1>7. timeout' = turnCount - 1 + T /\ turnCount' = turnCount + 1
  BY <1>1, <1>4, <1>6, ModSmall
<1>8. QED
  BY <1>1, <1>2, <1>4, <1>5, <1>7 DEF TimeInv

\* A turn is counted: a wait ends exactly when it has lasted the turns it is worth.
LEMMA TurnCounts ==
  ASSUME WordsSuffice, TimeInv, IncTurnCount
  PROVE  /\ TimeInv'
         /\ waiting /\ ~ waiting' => since' = Turns(want, nthread)
<1> DEFINE T == Turns(want, nthread)
<1>1. /\ Word32 \in Nat \ {0} /\ MAX_REL \in Nat /\ MaxTurn \in Nat
      /\ turnCount \in Nat /\ timeout \in Nat /\ since \in Nat /\ want \in Int
      /\ nthread \in 1..MaxThread /\ waiting \in BOOLEAN
      /\ MaxTurn + MAX_REL + AtLeast(MaxThread) <= Word32
  BY UnitAssumption DEF TimeInv, WordsSuffice
<1>2. AtLeast(MaxThread) \in Nat /\ AtLeast(MaxThread) >= 6
  BY <1>1, UnitAssumption DEF AtLeast
<1>3. /\ turnCount' = (turnCount + 1) % Word32
      /\ timeout' = timeout /\ nthread' = nthread /\ want' = want
      /\ waiting' = (waiting /\ ~ (timeout < turnCount'))
      /\ waiting \/ turnCount < MaxTurn
  BY DEF IncTurnCount
<1>4. since' = IF waiting THEN since + 1 ELSE since
  BY DEF IncTurnCount
<1>5. Turns(want', nthread') = T
  BY <1>3
<1>6. ASSUME waiting
      PROVE  /\ T \in Nat /\ T <= MAX_REL + AtLeast(MaxThread)
             /\ since >= 1 /\ turnCount - since < MaxTurn /\ want < Word64
             /\ timeout = turnCount - since - 1 + T /\ turnCount <= timeout
  <2>1. /\ since >= 1 /\ turnCount - since < MaxTurn /\ want < Word64
        /\ timeout = turnCount - since - 1 + T /\ turnCount <= timeout
    BY <1>6 DEF TimeInv
  <2>2. T \in Nat /\ T <= MAX_REL + AtLeast(MaxThread)
    BY <1>1, <2>1, TurnsProps
  <2>3. QED
    BY <2>1, <2>2
<1> HIDE DEF T
<1>7. turnCount + 1 \in 0..(Word32 - 1)
  BY <1>1, <1>2, <1>3, <1>6
<1>8. turnCount' = turnCount + 1
  BY <1>1, <1>3, <1>7, ModSmall
<1>9. CASE waiting
  <2>1. /\ since' = since + 1 /\ T \in Nat /\ since >= 1
        /\ turnCount - since < MaxTurn /\ want < Word64
        /\ timeout = turnCount - since - 1 + T /\ turnCount <= timeout
    BY <1>4, <1>6, <1>9
  <2>2. waiting' <=> ~ (timeout < turnCount + 1)
    BY <1>3, <1>8, <1>9
  <2>3. ~ waiting' => since' = T
    BY <1>1, <2>1, <2>2
  <2>4. waiting' => /\ since' >= 1 /\ turnCount' - since' < MaxTurn /\ turnCount' <= timeout
                    /\ timeout = turnCount' - since' - 1 + T
    BY <1>1, <1>8, <2>1, <2>2
  <2>5. waiting' \in BOOLEAN /\ since' \in Nat /\ turnCount' \in Nat
    BY <1>1, <1>3, <1>8, <2>1
  <2>6. TimeInv'
    BY <1>1, <1>3, <1>5, <2>1, <2>4, <2>5 DEF TimeInv
  <2>7. QED
    BY <2>3, <2>6 DEF T
<1>10. CASE ~ waiting
  <2>1. ~ waiting' /\ waiting' \in BOOLEAN /\ since' = since /\ turnCount' \in Nat
    BY <1>1, <1>3, <1>4, <1>8, <1>10
  <2>2. QED
    BY <1>1, <1>3, <1>10, <2>1 DEF TimeInv
<1>11. QED
  BY <1>9, <1>10

\* Every step keeps the invariant, and only a counted turn ends a wait.
LEMMA TimeStep ==
  ASSUME WordsSuffice, TimeInv, [Next]_vars
  PROVE  TimeInv' /\ (waiting /\ ~ waiting' => since' = Turns(want, nthread) /\ nthread' = nthread)
<1>1. /\ \A ns \in Clock : ns \in Nat /\ ns < Word64
      /\ \A usec \in Usecs : Kilo * usec \in Nat /\ Kilo * usec < Word32 /\ Kilo * usec < Word64
      /\ Word64 \in Nat \ {0} /\ Word32 \in Nat \ {0} /\ Giga \in Nat \ {0}
  BY UnitAssumption DEF WordsSuffice
<1>2. ASSUME NEW now \in Clock, NEW abstime \in Clock, TimedWait(now, abstime)
      PROVE  TimeInv' /\ ~ waiting
  <2>1. abstime - now \in Int /\ abstime - now < Word64
    BY <1>1
  <2>2. Nanosec(time_diff(Timespec(now), Timespec(abstime))) = abstime - now
    BY <1>1, DiffIsRight
  <2>3. QED
    BY <1>2, <2>1, <2>2, WaitBegins DEF TimedWait, CanWait
<1>3. ASSUME NEW ns \in Clock, Sleep(ns) PROVE TimeInv' /\ ~ waiting
  <2>1. ns \in Int /\ ns < Word64 /\ Nanosec(Timespec(ns)) = ns
    BY <1>1, TimespecHolds DEF Nanosec
  <2>2. QED
    BY <1>3, <2>1, WaitBegins DEF Sleep, CanWait
<1>4. ASSUME NEW usec \in Usecs, Usleep(usec) PROVE TimeInv' /\ ~ waiting
  <2> DEFINE k == Kilo * usec
             ts == [tv_sec |-> 0, tv_nsec |-> k % Word32]
  <2>1. k \in 0..(Word32 - 1) /\ k \in Int /\ k < Word64
    BY <1>1
  <2>2. CanWait /\ waitRel(ts, k)
    BY <1>4 DEF Usleep
  <2> HIDE DEF k
  <2>3. k % Word32 = k
    BY <1>1, <2>1, ModSmall
  <2>4. Nanosec(ts) = k
    BY <1>1, <2>1, <2>3 DEF Nanosec
  <2> HIDE DEF ts
  <2>5. QED
    BY <2>1, <2>2, <2>4, WaitBegins DEF CanWait
<1>5. CASE IncTurnCount
  BY <1>5, TurnCounts DEF IncTurnCount
<1>6. CASE UNCHANGED vars
  BY <1>6 DEF vars, TimeInv
<1>7. QED
  BY <1>2, <1>3, <1>4, <1>5, <1>6 DEF Next

-----------------------------------------------------------------------------
(* The theorems. *)

\* The deadline of a wait is where it should be, turn by turn.
LEMMA TimeInductive == ASSUME WordsSuffice PROVE Spec => []TimeInv
<1>1. Init => TimeInv
  <2> SUFFICES ASSUME Init PROVE TimeInv
    OBVIOUS
  <2>1. turnCount = 0 /\ timeout = 0 /\ since = 0 /\ want = 0 /\ nthread \in 1..MaxThread
    BY DEF Init
  <2>2. ~ waiting /\ waiting \in BOOLEAN
    BY Zenon DEF Init
  <2>3. QED
    BY <2>1, <2>2 DEF TimeInv
<1>2. TimeInv /\ [Next]_vars => TimeInv'
  BY TimeStep
<1>3. QED
  BY <1>1, <1>2, PTL DEF Spec

\* A wait for a time that is not negative lasts no longer than that time is worth in
\* turns, or five turns of every thread (time2turn and relTimeToTurn).
THEOREM WaitsAreShort == ASSUME WordsSuffice PROVE Spec => []LastsNoLonger
<1>1. TimeInv => LastsNoLonger
  <2> SUFFICES ASSUME TimeInv, waiting, want >= 0
               PROVE  since <= AtLeast(nthread) \/ since <= want \div NanosecPerTurn
    BY DEF LastsNoLonger
  <2> DEFINE T == Turns(want, nthread)
             a == AtLeast(nthread)
             q == want \div NanosecPerTurn
  <2>1. /\ turnCount \in Nat /\ since \in Nat /\ want \in Int /\ nthread \in 1..MaxThread
        /\ want < Word64 /\ timeout = turnCount - since - 1 + T /\ turnCount <= timeout
    BY DEF TimeInv
  <2>2. T \in Nat /\ (T <= a \/ T <= q)
    BY <2>1, TurnsProps
  <2>3. a \in Int /\ q \in Int
    BY <2>1, UnitAssumption, DivMod DEF AtLeast
  <2> HIDE DEF T, a, q
  <2>4. since <= T
    BY <2>1, <2>2
  <2>5. since <= a \/ since <= q
    BY <2>1, <2>2, <2>3, <2>4
  <2>6. QED
    BY <2>5 DEF a, q
<1>2. QED
  BY <1>1, TimeInductive, PTL

\* A timed wait that times out has lasted the turns its time is worth, or MAX_REL, and
\* five turns of every thread: fireTimeouts never ends it early.
THEOREM WaitsAreLongEnough == ASSUME WordsSuffice PROVE Spec => LastsLongEnough
<1>1. TimeInv /\ [Next]_vars =>
        (waiting /\ ~ waiting' =>
           /\ since' >= AtLeast(nthread)
           /\ want \div NanosecPerTurn <= since' \/ MAX_REL <= since')
  <2> SUFFICES ASSUME TimeInv, [Next]_vars, waiting, ~ waiting'
               PROVE  /\ since' >= AtLeast(nthread)
                      /\ want \div NanosecPerTurn <= since' \/ MAX_REL <= since'
    OBVIOUS
  <2>1. since' = Turns(want, nthread)
    BY TimeStep
  <2>2. want \in Int /\ want < Word64 /\ nthread \in 1..MaxThread
    BY DEF TimeInv
  <2>3. QED
    BY <2>1, <2>2, TurnsProps
<1>2. QED
  BY <1>1, TimeInductive, PTL DEF Spec, LastsLongEnough
=============================================================================
