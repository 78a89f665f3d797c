----------------------------- MODULE NonDet_proofs -----------------------------
(***************************************************************************)
(* Non-deterministic regions for any number of threads, any bound and any  *)
(* order of the hash set: the scheduler's assertions hold, the set of      *)
(* threads that are away agrees with the queues, woken regions start       *)
(* before anything else, and the bound holds.                              *)
(*                                                                         *)
(* An operation is a sequence of scheduler functions cut where threads     *)
(* without the turn can be seen.  Each function is shown to do what its    *)
(* name says and to keep Good, which leaves out only who has the turn.     *)
(***************************************************************************)
EXTENDS NonDet, SeqLemmas

-----------------------------------------------------------------------------
(* The invariant. *)

Statuses == {"RUNNABLE", "RUNNING_REG", "RUNNING_INTER_PRO", "INTER_PRO_STOP"}
Places == {"none", "spawn", "begin", "app", "block", "sys", "wakeup", "start", "started",
           "region", "join", "dead", "idle"}
Channels == {nonDetCV, idle_cond, None} \cup {EndOf(t) : t \in Tid}

\* The states of the scheduler in which no assertion has failed.
Scheds ==
  [elems : SUBSET Tid, runq : Seq(Tid), waitq : Seq(Tid), holder : Tid \cup {None},
   status : [Tid -> Statuses], chan : [Tid -> Channels], wakeTids : SUBSET Tid,
   nonDet : Seq(Tid), age : [Tid -> -1 .. MaxAge], late : [Tid -> 0 .. TwoRounds + 1],
   nNonDetWait : Int, bad : {None}]

\* Thread ids are given out in order; no queue has duplicates, and a thread is in one.
QueueOK(S) ==
  /\ \E n \in 1 .. NThread : S.elems = 0 .. n - 1
  /\ IsInjective(S.runq) /\ IsInjective(S.waitq) /\ IsInjective(S.nonDet)
  /\ ToSet(S.runq) \cap ToSet(S.waitq) = {}
  /\ ToSet(S.runq) \subseteq S.elems /\ ToSet(S.waitq) \subseteq S.elems
  /\ ToSet(S.nonDet) \subseteq S.elems /\ S.wakeTids \subseteq S.elems

\* Which queue a thread is in, by the place a[u] it is at.
LocOK(S, a) ==
  \A u \in Tid :
    /\ a[u] = "none" <=> u \notin S.elems
    /\ a[u] = "idle" <=> u = Idle /\ u \in S.elems
    /\ a[u] = "spawn" <=> u = Main /\ Idle \notin S.elems
    /\ a[u] \in {"block", "started", "spawn", "begin"} => u \in ToSet(S.runq)
    /\ a[u] = "app" => u \in ToSet(S.runq) \/ u \in S.wakeTids
    /\ a[u] \in {"start", "join", "idle"} => u \in ToSet(S.runq) \/ u \in ToSet(S.waitq)
    /\ a[u] = "dead" => u \notin ToSet(S.runq)
    /\ u \in S.wakeTids => a[u] \in {"app", "block", "sys", "wakeup"}
    /\ u \in ToSet(S.waitq) =>
         a[u] \in {"start", "join", "idle"} /\ (S.chan[u] = nonDetCV <=> a[u] = "start")

\* What its status says.
StatusOK(S, a) ==
  \A u \in Tid :
    /\ S.status[u] = "INTER_PRO_STOP" <=> a[u] = "sys"
    /\ S.status[u] = "RUNNING_INTER_PRO" <=> a[u] = "block"
    /\ S.status[u] = "RUNNING_REG" => u \in ToSet(S.runq)

\* The set holds the live threads that are in no queue, and thread x, which leaves.
AwayOK(S, a, x) ==
  IF clockBound
  THEN \A u \in S.elems : u \in ToSet(S.nonDet) <=>
         a[u] # "dead" /\ u \notin ToSet(S.waitq) /\ (u \notin ToSet(S.runq) \/ u = x)
  ELSE ToSet(S.nonDet) = {}

\* Only these can be ahead of a thread woken for its region.
First == {"start", "started", "idle"}
InFront(q, a) == \A i, j \in 1 .. Len(q) : i < j /\ a[q[j]] = "start" => a[q[i]] \in First

Good(S, a, x) ==
  /\ S \in Scheds /\ a \in [Tid -> Places]
  /\ QueueOK(S) /\ LocOK(S, a) /\ StatusOK(S, a) /\ AwayOK(S, a, x)
  /\ InFront(S.runq, a)

-----------------------------------------------------------------------------
(* The functions of the scheduler. *)

LEMMA Constants ==
  /\ NThread \in Nat /\ NThread >= 2 /\ Main \in Tid /\ Idle \in Tid /\ Main # Idle
  /\ None \notin Tid /\ Bound \in Nat /\ TwoRounds \in Nat /\ MaxAge \in Nat /\ Tid \subseteq Nat
  /\ WakeOrder \in Seq(Tid) /\ IsInjective(WakeOrder) /\ ToSet(WakeOrder) = Tid
  BY NonDetAssumption DEF Main, Idle, Tid, TwoRounds, MaxAge

\* Which changes of the run queue, and of the places, keep the front.
LEMMA FrontBehind ==
  ASSUME NEW p \in Seq(Tid), NEW q \in Seq(Tid), NEW a, InFront(p, a),
         \A u \in ToSet(q) : a[u] # "start"
  PROVE  InFront(p \o q, a)
<1> DEFINE r == p \o q
<1>1. /\ r \in Seq(Tid) /\ Len(r) = Len(p) + Len(q) /\ Len(p) \in Nat /\ Len(q) \in Nat
      /\ \A i \in 1..Len(r) : r[i] = IF i <= Len(p) THEN p[i] ELSE q[i - Len(p)]
  OBVIOUS
<1> HIDE DEF r
<1> SUFFICES ASSUME NEW i \in 1 .. Len(r), NEW j \in 1 .. Len(r), i < j, a[r[j]] = "start"
             PROVE  a[r[i]] \in First
  BY DEF InFront, r
<1>2. CASE j <= Len(p)
  <2>1. i \in 1 .. Len(p) /\ j \in 1 .. Len(p) /\ r[i] = p[i] /\ r[j] = p[j]
    BY <1>1, <1>2
  <2>2. QED
    BY <2>1 DEF InFront
<1>3. CASE ~(j <= Len(p))
  <2>1. j - Len(p) \in 1 .. Len(q) /\ r[j] = q[j - Len(p)]
    BY <1>1, <1>3
  <2>2. r[j] \in ToSet(q)
    BY <2>1, InToSet
  <2>3. QED
    BY <2>2
<1>4. QED
  BY <1>2, <1>3

LEMMA FrontTail ==
  ASSUME NEW p \in Seq(Tid), p # <<>>, NEW a, InFront(p, a)
  PROVE  InFront(Tail(p), a)
<1> DEFINE r == Tail(p)
<1>1. /\ Len(r) = Len(p) - 1 /\ Len(p) \in Nat /\ Len(p) >= 1
      /\ \A i \in 1 .. (Len(p) - 1) : r[i] = p[i + 1]
  OBVIOUS
<1> HIDE DEF r
<1> SUFFICES ASSUME NEW i \in 1 .. Len(r), NEW j \in 1 .. Len(r), i < j, a[r[j]] = "start"
             PROVE  a[r[i]] \in First
  BY DEF InFront, r
<1>2. /\ i + 1 \in 1 .. Len(p) /\ j + 1 \in 1 .. Len(p) /\ i + 1 < j + 1
      /\ r[i] = p[i + 1] /\ r[j] = p[j + 1]
  BY <1>1
<1>3. QED
  BY <1>2 DEF InFront

LEMMA FrontPlaces ==
  ASSUME NEW p \in Seq(Tid), NEW a, NEW b, InFront(p, a),
         \A u \in ToSet(p) : (b[u] = "start" => a[u] = "start") /\ (a[u] \in First => b[u] \in First)
  PROVE  InFront(p, b)
  BY InToSet DEF InFront

LEMMA FrontHead ==
  ASSUME NEW p \in Seq(Tid), p # <<>>, IsInjective(p), NEW a, NEW b, InFront(p, a),
         \A u \in ToSet(p) \ {Head(p)} : b[u] = a[u], a[Head(p)] \in First => b[Head(p)] \in First
  PROVE  InFront(p, b)
<1> SUFFICES ASSUME NEW i \in 1 .. Len(p), NEW j \in 1 .. Len(p), i < j, b[p[j]] = "start"
             PROVE  b[p[i]] \in First
  BY DEF InFront
<1>1. 1 \in 1 .. Len(p) /\ Head(p) = p[1] /\ j # 1 /\ Len(p) \in Nat
  OBVIOUS
<1>2. p[i] \in ToSet(p) /\ p[j] \in ToSet(p)
  BY InToSet
<1>3. p[j] # p[1]
  BY <1>1 DEF IsInjective
<1>4. a[p[j]] = "start"
  BY <1>1, <1>2, <1>3
<1>5. a[p[i]] \in First
  BY <1>4 DEF InFront
<1>6. QED
  BY <1>1, <1>2, <1>5

LEMMA FrontOnly ==
  ASSUME NEW p \in Seq(Tid), NEW a, \A u \in ToSet(p) : a[u] \in First
  PROVE  InFront(p, a)
  BY InToSet DEF InFront

\* Which fields a change of the queues leaves alone.
SameBut(S, S2) ==
  /\ S2.elems = S.elems /\ S2.holder = S.holder /\ S2.status = S.status
  /\ S2.nNonDetWait = S.nNonDetWait

\* check_wakeup: the threads that came back are queued and leave the set.
LEMMA CheckWakeup ==
  ASSUME NEW S, NEW a, NEW x, Good(S, a, x), x \in ToSet(S.runq) \/ x = None
  PROVE  LET S2 == check_wakeup(S)
             back == S.wakeTids \ ToSet(S.runq)
         IN  /\ Good(S2, a, x) /\ SameBut(S, S2) /\ S2.wakeTids = {}
             /\ S2.waitq = S.waitq /\ S2.chan = S.chan /\ S2.age = S.age /\ S2.late = S.late
             /\ S2.runq = S.runq \o Only(WakeOrder, back)
             /\ S2.nonDet = IF clockBound THEN Except(S.nonDet, back) ELSE S.nonDet
<1> DEFINE back == S.wakeTids \ ToSet(S.runq)
           q == Only(WakeOrder, back)
           r == S.runq \o q
           d == Except(S.nonDet, back)
           S2 == check_wakeup(S)
<1>1. S \in Scheds /\ a \in [Tid -> Places] /\ QueueOK(S) /\ LocOK(S, a) /\ StatusOK(S, a) /\ AwayOK(S, a, x)
      /\ InFront(S.runq, a)
  BY DEF Good
<1>2. S.runq \in Seq(Tid) /\ S.nonDet \in Seq(Tid) /\ S.wakeTids \subseteq Tid /\ S.elems \subseteq Tid
  BY <1>1 DEF Scheds
<1>3. q \in Seq(Tid) /\ ToSet(q) = back /\ IsInjective(q)
  BY <1>2, Constants, OnlyProps
<1>4. back \subseteq S.elems /\ back \cap ToSet(S.runq) = {}
  BY <1>1 DEF QueueOK
<1>5. r \in Seq(Tid) /\ ToSet(r) = ToSet(S.runq) \cup back /\ IsInjective(r)
  <2>1. IsInjective(S.runq) /\ ToSet(S.runq) \cap ToSet(q) = {}
    BY <1>1, <1>3, <1>4 DEF QueueOK
  <2> HIDE DEF q
  <2>2. QED
    BY <1>2, <1>3, <2>1, ConcatProps
<1>6. d \in Seq(Tid) /\ ToSet(d) = ToSet(S.nonDet) \ back /\ IsInjective(d)
  BY <1>1, <1>2, ExceptProps DEF QueueOK
<1>7. push_back(S, q) = [S EXCEPT !.runq = r]
  BY <1>3, <1>4 DEF push_back
<1>8. clockBound => back \subseteq ToSet(S.nonDet)
  BY <1>1, <1>2, <1>4, Constants DEF LocOK, AwayOK, QueueOK
<1>9. S2 = [S EXCEPT !.runq = r, !.nonDet = IF clockBound THEN d ELSE @, !.wakeTids = {}]
  <2>1. S.wakeTids \subseteq S.elems
    BY <1>1 DEF QueueOK
  <2>2. eraseIfBound([S EXCEPT !.runq = r], back) = [S EXCEPT !.runq = r, !.nonDet = IF clockBound THEN d ELSE @]
    BY <1>1, <1>8 DEF eraseIfBound, nd_erase, Scheds
  <2>3. S2 = [eraseIfBound(push_back(S, q), back) EXCEPT !.wakeTids = {}]
    BY <2>1 DEF check_wakeup
  <2>4. QED
    BY <1>1, <1>7, <2>2, <2>3 DEF Scheds
<1> HIDE DEF S2, d, r, q
<1>10. /\ SameBut(S, S2) /\ S2.wakeTids = {}
       /\ S2.waitq = S.waitq /\ S2.chan = S.chan /\ S2.age = S.age /\ S2.late = S.late
       /\ S2.runq = r /\ S2.nonDet = (IF clockBound THEN d ELSE S.nonDet) /\ S2 \in Scheds
  BY <1>1, <1>5, <1>6, <1>9 DEF Scheds, SameBut
<1>a. back \cap ToSet(S.waitq) = {} /\ x \notin back /\ \A u \in back : a[u] # "dead"
  BY <1>1, <1>2, <1>4, Constants DEF LocOK
<1> HIDE DEF back
<1>11. QueueOK(S2)
  <2>1. IsInjective(S2.nonDet) /\ ToSet(S2.nonDet) \subseteq S.elems
    BY <1>1, <1>6, <1>10 DEF QueueOK
  <2>2. QED
    BY <1>1, <1>4, <1>5, <1>10, <1>a, <2>1 DEF QueueOK, SameBut
<1>12. LocOK(S2, a) /\ StatusOK(S2, a)
  BY <1>1, <1>2, <1>5, <1>10, ZenonT(60) DEF LocOK, StatusOK, SameBut, back
<1>13. AwayOK(S2, a, x)
  BY <1>1, <1>2, <1>4, <1>5, <1>6, <1>8, <1>10, <1>a DEF AwayOK, SameBut
<1>b. InFront(S2.runq, a)
  <2>1. \A u \in ToSet(q) : a[u] # "start"
    BY <1>1, <1>2, <1>3 DEF LocOK, back
  <2>2. QED
    BY <1>1, <1>2, <1>3, <1>10, <2>1, FrontBehind DEF r
<1>14. QED
  BY <1>1, <1>10, <1>11, <1>12, <1>13, <1>b DEF Good, S2, r, q, d, back

\* incTurnCount: clocks grow older as well.
Older(S) ==
  [S EXCEPT !.age = [t \in Tid |-> IF @[t] \in 0 .. MaxAge - 1 THEN @[t] + 1 ELSE @[t]]]

LEMMA OlderAge ==
  ASSUME NEW A \in [Tid -> -1 .. MaxAge]
  PROVE  [t \in Tid |-> IF A[t] \in 0 .. MaxAge - 1 THEN A[t] + 1 ELSE A[t]] \in [Tid -> -1 .. MaxAge]
<1>1. \A n \in -1 .. MaxAge : (IF n \in 0 .. MaxAge - 1 THEN n + 1 ELSE n) \in -1 .. MaxAge
  BY Constants
<1>2. QED
  BY <1>1, Zenon

Counted(S, a, x, S2) ==
  LET back == S.wakeTids \ ToSet(S.runq)
  IN  /\ Good(S2, a, x) /\ SameBut(S, S2) /\ S2.wakeTids = {}
      /\ S2.waitq = S.waitq /\ S2.chan = S.chan /\ S2.late = S.late
      /\ S2.age = Older(S).age
      /\ S2.runq = S.runq \o Only(WakeOrder, back)
      /\ S2.nonDet = IF clockBound THEN Except(S.nonDet, back) ELSE S.nonDet

LEMMA IncTurnCount ==
  ASSUME NEW S, NEW a, NEW x, Good(S, a, x), x \in ToSet(S.runq) \/ x = None
  PROVE  Counted(S, a, x, incTurnCount(S))
<1> DEFINE O == Older(S)
<1>1. S \in Scheds /\ a \in [Tid -> Places] /\ QueueOK(S) /\ LocOK(S, a) /\ StatusOK(S, a) /\ AwayOK(S, a, x)
      /\ InFront(S.runq, a)
  BY DEF Good
<1>2. O.age \in [Tid -> -1 .. MaxAge]
  <2>1. S.age \in [Tid -> -1 .. MaxAge]
    BY <1>1 DEF Scheds
  <2>2. O.age = [t \in Tid |-> IF S.age[t] \in 0 .. MaxAge - 1 THEN S.age[t] + 1 ELSE S.age[t]]
    BY <1>1 DEF Scheds, Older
  <2>3. QED
    BY <2>1, <2>2, OlderAge
<1>3. /\ O \in Scheds /\ SameBut(S, O) /\ O.wakeTids = S.wakeTids /\ O.late = S.late
      /\ O.waitq = S.waitq /\ O.chan = S.chan /\ O.runq = S.runq /\ O.nonDet = S.nonDet
  BY <1>1, <1>2 DEF Scheds, SameBut, Older
<1>4. incTurnCount(S) = check_wakeup(O)
  BY DEF incTurnCount, Older
<1> HIDE DEF O
<1>5. Good(O, a, x)
  BY <1>1, <1>3 DEF Good, QueueOK, LocOK, StatusOK, AwayOK, SameBut
<1>6. QED
  <2>1. x \in ToSet(O.runq) \/ x = None
    BY <1>3
  <2>2. LET S2 == check_wakeup(O)
            back == O.wakeTids \ ToSet(O.runq)
         IN  /\ Good(S2, a, x) /\ SameBut(O, S2) /\ S2.wakeTids = {}
             /\ S2.waitq = O.waitq /\ S2.chan = O.chan /\ S2.age = O.age /\ S2.late = O.late
             /\ S2.runq = O.runq \o Only(WakeOrder, back)
             /\ S2.nonDet = IF clockBound THEN Except(O.nonDet, back) ELSE O.nonDet
    BY <1>5, <2>1, CheckWakeup
  <2>3. QED
    BY <1>3, <1>4, <2>2 DEF SameBut, O, Counted

\* A queue with something behind it.
LEMMA Behind ==
  ASSUME NEW T, NEW p \in Seq(T), NEW q \in Seq(T), p # <<>>
  PROVE  p \o q # <<>> /\ Head(p \o q) = Head(p)
  OBVIOUS

\* The threads T of the wait queue go back to the run queue.
Unwaited(S, a, T, S2) ==
  /\ Good(S2, a, None) /\ SameBut(S, S2) /\ S2.wakeTids = S.wakeTids
  /\ S2.late = S.late /\ S2.age = S.age /\ S2.nonDet = S.nonDet
  /\ S2.runq = S.runq \o Only(S.waitq, T) /\ S2.waitq = Except(S.waitq, T)
  /\ ToSet(S2.runq) = ToSet(S.runq) \cup T /\ ToSet(S2.waitq) = ToSet(S.waitq) \ T

LEMMA Unwait ==
  ASSUME NEW S, NEW a, Good(S, a, None), NEW T \in SUBSET ToSet(S.waitq),
         InFront(S.runq \o Only(S.waitq, T), a)
  PROVE  Unwaited(S, a, T, unwait(S, T))
<1> DEFINE q == Only(S.waitq, T)
           w == Except(S.waitq, T)
           c == [t \in Tid |-> IF t \in T THEN None ELSE S.chan[t]]
           r == S.runq \o q
           S2 == unwait(S, T)
<1>1. S \in Scheds /\ a \in [Tid -> Places] /\ QueueOK(S) /\ LocOK(S, a) /\ StatusOK(S, a) /\ AwayOK(S, a, None)
      /\ InFront(S.runq, a)
  BY DEF Good
<1>2. S.runq \in Seq(Tid) /\ S.waitq \in Seq(Tid) /\ S.elems \subseteq Tid
  BY <1>1 DEF Scheds
<1>3. q \in Seq(Tid) /\ ToSet(q) = T /\ IsInjective(q)
  <2>1. ToSet(S.waitq) \cap T = T /\ IsInjective(S.waitq)
    BY <1>1 DEF QueueOK
  <2>2. QED
    BY <1>2, <2>1, OnlyProps
<1>4. w \in Seq(Tid) /\ ToSet(w) = ToSet(S.waitq) \ T /\ IsInjective(w)
  BY <1>1, <1>2, ExceptProps DEF QueueOK
<1>5. T \subseteq S.elems /\ T \cap ToSet(S.runq) = {} /\ T \cap ToSet(S.nonDet) = {}
  BY <1>1, <1>2, Constants DEF QueueOK, AwayOK
<1>6. r \in Seq(Tid) /\ ToSet(r) = ToSet(S.runq) \cup T /\ IsInjective(r)
  <2>1. IsInjective(S.runq) /\ ToSet(S.runq) \cap ToSet(q) = {}
    BY <1>1, <1>3, <1>5 DEF QueueOK
  <2> HIDE DEF q
  <2>2. QED
    BY <1>2, <1>3, <2>1, ConcatProps
<1>7. c \in [Tid -> Channels]
  BY <1>1 DEF Scheds, Channels
<1>8. S2 = [S EXCEPT !.waitq = w, !.chan = c, !.runq = r]
  <2> DEFINE Z == [S EXCEPT !.waitq = Except(@, T), !.chan = [t \in Tid |-> IF t \in T THEN None ELSE @[t]]]
  <2>1. Z = [S EXCEPT !.waitq = w, !.chan = c] /\ Z.elems = S.elems /\ Z.runq = S.runq
    BY <1>1 DEF Scheds
  <2>2. S2 = push_back(Z, q)
    BY DEF unwait
  <2> HIDE DEF Z, S2, q, w, c
  <2>3. S2 = [Z EXCEPT !.runq = Z.runq \o q]
    BY <1>3, <1>5, <2>1, <2>2 DEF push_back
  <2>4. QED
    BY <1>1, <2>1, <2>3 DEF Scheds
<1> HIDE DEF S2, r, q, w
<1>9. /\ SameBut(S, S2) /\ S2.wakeTids = S.wakeTids /\ S2.late = S.late /\ S2.age = S.age
      /\ S2.nonDet = S.nonDet /\ S2.runq = r /\ S2.waitq = w /\ S2.chan = c /\ S2 \in Scheds
  BY <1>1, <1>4, <1>6, <1>7, <1>8 DEF Scheds, SameBut
<1>10. QueueOK(S2)
  BY <1>1, <1>4, <1>5, <1>6, <1>9 DEF QueueOK, SameBut
<1>11. LocOK(S2, a) /\ StatusOK(S2, a)
  BY <1>1, <1>2, <1>4, <1>5, <1>6, <1>9 DEF LocOK, StatusOK, SameBut
<1>12. AwayOK(S2, a, None)
  BY <1>1, <1>2, <1>4, <1>5, <1>6, <1>9, Constants DEF AwayOK, SameBut
<1>a. InFront(S2.runq, a)
  BY <1>9, Zenon DEF r, q
<1>13. Good(S2, a, None)
  BY <1>1, <1>9, <1>10, <1>11, <1>12, <1>a DEF Good
<1>14. /\ S2.runq = S.runq \o Only(S.waitq, T) /\ S2.waitq = Except(S.waitq, T)
       /\ ToSet(S2.runq) = ToSet(S.runq) \cup T /\ ToSet(S2.waitq) = ToSet(S.waitq) \ T
  BY <1>4, <1>6, <1>9, Zenon DEF r, q, w
<1>15. Unwaited(S, a, T, S2)
  BY <1>9, <1>13, <1>14, Zenon DEF Unwaited
<1>16. QED
  BY <1>15, Zenon DEF S2

\* countLate: history only.
LEMMA CountLate ==
  ASSUME NEW S, NEW a, Good(S, a, None)
  PROVE  LET S2 == countLate(S)
         IN  /\ Good(S2, a, None) /\ SameBut(S, S2) /\ S2.wakeTids = S.wakeTids
             /\ S2.runq = S.runq /\ S2.waitq = S.waitq /\ S2.nonDet = S.nonDet
             /\ S2.chan = S.chan /\ S2.age = S.age
             /\ S2.late = [t \in Tid |-> IF S.age[t] > Bound /\ S.late[t] <= TwoRounds
                                         THEN S.late[t] + 1 ELSE S.late[t]]
<1> DEFINE S2 == countLate(S)
           l == [t \in Tid |-> IF S.age[t] > Bound /\ S.late[t] <= TwoRounds
                               THEN S.late[t] + 1 ELSE S.late[t]]
<1>1. S \in Scheds /\ a \in [Tid -> Places] /\ QueueOK(S) /\ LocOK(S, a) /\ StatusOK(S, a) /\ AwayOK(S, a, None)
      /\ InFront(S.runq, a)
  BY DEF Good
<1>2. l \in [Tid -> 0 .. TwoRounds + 1]
  <2>1. S.late \in [Tid -> 0 .. TwoRounds + 1]
    BY <1>1 DEF Scheds
  <2>2. QED
    BY <2>1, Constants, SMTT(60)
<1>3. S2 = [S EXCEPT !.late = l]
  BY <1>1 DEF countLate, Scheds
<1> HIDE DEF S2, l
<1>4. /\ S2 \in Scheds /\ SameBut(S, S2) /\ S2.wakeTids = S.wakeTids
      /\ S2.runq = S.runq /\ S2.waitq = S.waitq /\ S2.nonDet = S.nonDet
      /\ S2.chan = S.chan /\ S2.age = S.age /\ S2.late = l
  BY <1>1, <1>2, <1>3 DEF Scheds, SameBut
<1>5. Good(S2, a, None)
  BY <1>1, <1>4 DEF Good, QueueOK, LocOK, StatusOK, AwayOK, SameBut
<1>6. QED
  BY <1>4, <1>5 DEF S2, l

\* checkNonDetBound: nothing, or the thread away longest, overdue, is queued.
LEMMA CheckNonDetBound ==
  ASSUME NEW S, NEW a, Good(S, a, None)
  PROVE  LET S2 == checkNonDetBound(S)
             h == Head(S.nonDet)
         IN  /\ Good(S2, a, None) /\ SameBut(S, S2) /\ S2.wakeTids = S.wakeTids
             /\ S2.waitq = S.waitq /\ S2.chan = S.chan /\ S2.age = S.age /\ S2.late = S.late
             /\ \/ /\ S2.runq = S.runq /\ S2.nonDet = S.nonDet
                   /\ ~(clockBound /\ S.nonDet # <<>> /\ S.age[h] > Bound)
                \/ /\ clockBound /\ S.nonDet # <<>> /\ S.age[h] > Bound /\ h \in Tid
                   /\ S2.runq = S.runq \o <<h>> /\ S2.nonDet = Except(S.nonDet, {h})
<1> DEFINE S2 == checkNonDetBound(S)
           h == Head(S.nonDet)
<1>1. S \in Scheds /\ a \in [Tid -> Places] /\ QueueOK(S) /\ LocOK(S, a) /\ StatusOK(S, a) /\ AwayOK(S, a, None)
      /\ InFront(S.runq, a)
  BY DEF Good
<1>2. CASE ~(clockBound /\ S.nonDet # <<>> /\ S.age[h] > Bound)
  <2>1. S2 = S
    BY <1>2 DEF checkNonDetBound
  <2>2. QED
    BY <1>2, <2>1 DEF SameBut
<1>3. CASE clockBound /\ S.nonDet # <<>> /\ S.age[h] > Bound
  <2> DEFINE r == S.runq \o <<h>>
             d == Except(S.nonDet, {h})
  <2>1. S.runq \in Seq(Tid) /\ S.nonDet \in Seq(Tid) /\ S.elems \subseteq Tid
    BY <1>1 DEF Scheds
  <2>2. h \in ToSet(S.nonDet) /\ h \in Tid
    BY <1>3, <2>1, HeadProps
  <2>3. h \in S.elems /\ h \notin ToSet(S.runq) /\ h \notin ToSet(S.waitq) /\ a[h] # "dead"
    BY <1>1, <1>3, <2>1, <2>2, Constants DEF QueueOK, AwayOK
  <2> HIDE DEF h
  <2>4. <<h>> \in Seq(Tid) /\ ToSet(<<h>>) = {h} /\ IsInjective(<<h>>)
    BY <2>2 DEF ToSet, IsInjective
  <2>5. r \in Seq(Tid) /\ ToSet(r) = ToSet(S.runq) \cup {h} /\ IsInjective(r)
    <3> DEFINE o == <<h>>
    <3>1. IsInjective(S.runq) /\ ToSet(S.runq) \cap ToSet(o) = {}
      BY <1>1, <2>3, <2>4 DEF QueueOK
    <3>2. o \in Seq(Tid) /\ IsInjective(o) /\ ToSet(o) = {h} /\ r = S.runq \o o
      BY <2>4
    <3> HIDE DEF o, r
    <3>3. QED
      BY <2>1, <3>1, <3>2, ConcatProps
  <2>6. d \in Seq(Tid) /\ ToSet(d) = ToSet(S.nonDet) \ {h} /\ IsInjective(d)
    BY <1>1, <2>1, ExceptProps DEF QueueOK
  <2>7. S2 = [S EXCEPT !.runq = r, !.nonDet = d]
    <3>1. push_back(S, <<h>>) = [S EXCEPT !.runq = r]
      BY <2>3, <2>4 DEF push_back
    <3>2. S2 = nd_erase([S EXCEPT !.runq = r], {h})
      BY <1>3, <3>1 DEF checkNonDetBound, h
    <3> HIDE DEF S2, r, d
    <3>3. QED
      BY <1>1, <2>2, <3>2 DEF nd_erase, Scheds, d
  <2> HIDE DEF S2, r, d
  <2>8. /\ SameBut(S, S2) /\ S2.wakeTids = S.wakeTids /\ S2.late = S.late /\ S2.age = S.age
        /\ S2.nonDet = d /\ S2.runq = r /\ S2.waitq = S.waitq /\ S2.chan = S.chan /\ S2 \in Scheds
    BY <1>1, <2>5, <2>6, <2>7 DEF Scheds, SameBut
  <2>9. QueueOK(S2)
    BY <1>1, <2>3, <2>5, <2>6, <2>8 DEF QueueOK, SameBut
  <2>10. LocOK(S2, a) /\ StatusOK(S2, a)
    BY <1>1, <2>3, <2>5, <2>8 DEF LocOK, StatusOK, SameBut
  <2>11. AwayOK(S2, a, None)
    BY <1>1, <1>3, <2>1, <2>3, <2>5, <2>6, <2>8, Constants DEF AwayOK, SameBut
  <2>a. InFront(S2.runq, a)
    <3> DEFINE o == <<h>>
    <3>1. o \in Seq(Tid) /\ ToSet(o) = {h} /\ S2.runq = S.runq \o o
      BY <2>4, <2>8 DEF r
    <3>2. a[h] # "start"
      BY <1>1, <2>2, <2>3 DEF LocOK
    <3> HIDE DEF o
    <3>3. QED
      BY <1>1, <2>1, <3>1, <3>2, FrontBehind
  <2>12. QED
    BY <1>1, <1>3, <2>2, <2>8, <2>9, <2>10, <2>11, <2>a DEF Good, S2, r, d, h
<1>4. QED
  BY <1>2, <1>3

\* insertIfBound: the threads of q go into the set, which has none of them.
LEMMA InsertIfBound ==
  ASSUME NEW S \in Scheds, NEW q \in Seq(Tid), ToSet(q) \cap ToSet(S.nonDet) = {}
  PROVE  LET S2 == insertIfBound(S, q)
         IN  /\ S2 \in Scheds /\ SameBut(S, S2) /\ S2.wakeTids = S.wakeTids
             /\ S2.runq = S.runq /\ S2.waitq = S.waitq /\ S2.chan = S.chan
             /\ S2.nonDet = IF clockBound THEN S.nonDet \o q ELSE S.nonDet
             /\ clockBound => /\ S2.age = [t \in Tid |-> IF t \in ToSet(q) THEN 0 ELSE S.age[t]]
                              /\ S2.late = [t \in Tid |-> IF t \in ToSet(q) THEN 0 ELSE S.late[t]]
<1> DEFINE S2 == insertIfBound(S, q)
           g == [t \in Tid |-> IF t \in ToSet(q) THEN 0 ELSE S.age[t]]
           l == [t \in Tid |-> IF t \in ToSet(q) THEN 0 ELSE S.late[t]]
<1>1. g \in [Tid -> -1 .. MaxAge] /\ l \in [Tid -> 0 .. TwoRounds + 1]
  <2>1. S.age \in [Tid -> -1 .. MaxAge] /\ S.late \in [Tid -> 0 .. TwoRounds + 1]
    BY DEF Scheds
  <2>2. 0 \in -1 .. MaxAge /\ 0 \in 0 .. TwoRounds + 1
    BY Constants
  <2>3. g \in [Tid -> -1 .. MaxAge]
    BY <2>1, <2>2, Zenon
  <2>4. l \in [Tid -> 0 .. TwoRounds + 1]
    BY <2>1, <2>2, Zenon
  <2>5. QED
    BY <2>3, <2>4
<1>2. S.nonDet \o q \in Seq(Tid)
  BY DEF Scheds
<1>3. clockBound => S2 = [S EXCEPT !.nonDet = S.nonDet \o q, !.age = g, !.late = l]
  BY DEF insertIfBound, nd_insert, Scheds
<1>4. ~clockBound => S2 = S
  BY SMTT(60) DEF insertIfBound
<1> HIDE DEF S2, g, l
<1>5. CASE clockBound
  BY <1>1, <1>2, <1>3, <1>5, ZenonT(60) DEF Scheds, SameBut, g, l, S2
<1>6. CASE ~clockBound
  BY <1>4, <1>6 DEF SameBut, S2
<1>7. QED
  BY <1>5, <1>6

\* popStopped: a thread in a call leaves the head of the run queue for the set.
Popped(S, S2, a) ==
  LET h == Head(S.runq)
  IN  /\ Good(S2, a, None) /\ SameBut(S, S2) /\ S2.wakeTids = S.wakeTids
      /\ S2.waitq = S.waitq /\ S2.chan = S.chan /\ S2.runq = Tail(S.runq)
      /\ S2.nonDet = IF clockBound THEN S.nonDet \o <<h>> ELSE S.nonDet
      /\ clockBound => \A t \in Tid : /\ S2.age[t] = IF t = h THEN 0 ELSE S.age[t]
                                      /\ S2.late[t] = IF t = h THEN 0 ELSE S.late[t]

LEMMA PopStopped ==
  ASSUME NEW S, NEW a, Good(S, a, None), S.runq # <<>>,
         S.status[Head(S.runq)] = "INTER_PRO_STOP"
  PROVE  Popped(S, popStopped(S), a)
<1> DEFINE S2 == popStopped(S)
           h == Head(S.runq)
           q == <<h>>
           r == Tail(S.runq)
           Z == [S EXCEPT !.runq = r]
<1>1. S \in Scheds /\ a \in [Tid -> Places] /\ QueueOK(S) /\ LocOK(S, a) /\ StatusOK(S, a) /\ AwayOK(S, a, None)
      /\ InFront(S.runq, a)
  BY DEF Good
<1>2. S.runq \in Seq(Tid) /\ S.nonDet \in Seq(Tid) /\ S.elems \subseteq Tid /\ IsInjective(S.runq)
  BY <1>1 DEF Scheds, QueueOK
<1>3. /\ h \in ToSet(S.runq) /\ h \in Tid
      /\ r \in Seq(Tid) /\ IsInjective(r) /\ ToSet(S.runq) = ToSet(r) \cup {h} /\ h \notin ToSet(r)
  BY <1>2, HeadProps, TailProps
<1>4. q \in Seq(Tid) /\ ToSet(q) = {h} /\ IsInjective(q)
  BY <1>3 DEF ToSet, IsInjective
<1>5. a[h] = "sys"
  BY <1>1, <1>3 DEF StatusOK
<1>6. InFront(r, a)
  BY <1>1, <1>2, FrontTail
<1>7. S2 = insertIfBound(Z, q)
  BY <1>1 DEF popStopped, Scheds
<1> HIDE DEF h, q, r
<1>8. /\ Z \in Scheds /\ SameBut(S, Z) /\ Z.wakeTids = S.wakeTids /\ Z.runq = r
      /\ Z.waitq = S.waitq /\ Z.chan = S.chan /\ Z.nonDet = S.nonDet /\ Z.age = S.age
      /\ Z.late = S.late
  BY <1>1, <1>3 DEF Scheds, SameBut
<1>9. h \notin ToSet(S.nonDet) /\ h \notin ToSet(S.waitq) /\ h \in S.elems
  BY <1>1, <1>2, <1>3, Constants DEF QueueOK, AwayOK
<1> HIDE DEF S2, Z
<1>10. /\ S2 \in Scheds /\ SameBut(Z, S2) /\ S2.wakeTids = Z.wakeTids
       /\ S2.runq = Z.runq /\ S2.waitq = Z.waitq /\ S2.chan = Z.chan
       /\ S2.nonDet = (IF clockBound THEN Z.nonDet \o q ELSE Z.nonDet)
       /\ clockBound => /\ S2.age = [t \in Tid |-> IF t \in ToSet(q) THEN 0 ELSE Z.age[t]]
                        /\ S2.late = [t \in Tid |-> IF t \in ToSet(q) THEN 0 ELSE Z.late[t]]
  <2>1. ToSet(q) \cap ToSet(Z.nonDet) = {}
    BY <1>4, <1>8, <1>9
  <2>2. QED
    BY <1>4, <1>7, <1>8, <2>1, InsertIfBound
<1>11. IsInjective(S2.nonDet) /\ ToSet(S2.nonDet) = ToSet(S.nonDet) \cup (IF clockBound THEN {h} ELSE {})
  <2>1. IsInjective(S.nonDet)
    BY <1>1 DEF QueueOK
  <2>2. IsInjective(S.nonDet \o q) /\ ToSet(S.nonDet \o q) = ToSet(S.nonDet) \cup {h}
    BY <1>2, <1>4, <1>9, <2>1, ConcatProps
  <2>3. QED
    BY <1>8, <1>10, <2>1, <2>2
<1>12. QueueOK(S2)
  BY <1>1, <1>3, <1>8, <1>9, <1>10, <1>11 DEF QueueOK, SameBut
<1>13. LocOK(S2, a) /\ StatusOK(S2, a)
  BY <1>1, <1>3, <1>5, <1>8, <1>10 DEF LocOK, StatusOK, SameBut
<1>14. AwayOK(S2, a, None)
  BY <1>1, <1>2, <1>3, <1>5, <1>8, <1>9, <1>10, <1>11, Constants DEF AwayOK, SameBut
<1>15. Good(S2, a, None)
  BY <1>1, <1>6, <1>8, <1>10, <1>12, <1>13, <1>14 DEF Good
<1>16. /\ SameBut(S, S2) /\ S2.wakeTids = S.wakeTids /\ S2.waitq = S.waitq /\ S2.chan = S.chan
       /\ S2.runq = r /\ S2.nonDet = (IF clockBound THEN S.nonDet \o q ELSE S.nonDet)
  BY <1>8, <1>10 DEF SameBut
<1>17. clockBound => \A t \in Tid : /\ S2.age[t] = IF t = h THEN 0 ELSE S.age[t]
                                    /\ S2.late[t] = IF t = h THEN 0 ELSE S.late[t]
  BY <1>4, <1>8, <1>10
<1>18. QED
  BY <1>15, <1>16, <1>17, Zenon DEF Popped, S2, h, q, r

\* Who has the turn is at the head of the run queue and running.
HolderOK(S) ==
  S.holder # None =>
    /\ S.runq # <<>> /\ S.holder = Head(S.runq)
    /\ S.status[S.holder] \in {"RUNNING_REG", "RUNNING_INTER_PRO"}

LEMMA GiveTurn ==
  ASSUME NEW S, NEW a, Good(S, a, None), S.runq # <<>>,
         S.status[Head(S.runq)] # "INTER_PRO_STOP"
  PROVE  LET S2 == giveTurn(S)
         IN  /\ Good(S2, a, None) /\ HolderOK(S2) /\ S2.holder = Head(S.runq)
             /\ S2.elems = S.elems /\ S2.nNonDetWait = S.nNonDetWait /\ S2.wakeTids = S.wakeTids
             /\ S2.runq = S.runq /\ S2.waitq = S.waitq /\ S2.chan = S.chan /\ S2.nonDet = S.nonDet
             /\ S2.age = [S.age EXCEPT ![Head(S.runq)] = -1]
             /\ S2.late = [S.late EXCEPT ![Head(S.runq)] = 0]
<1> DEFINE S2 == giveTurn(S)
           h == Head(S.runq)
           z == [S.status EXCEPT ![h] = IF @ = "RUNNABLE" THEN "RUNNING_REG" ELSE @]
           g == [S.age EXCEPT ![h] = -1]
           l == [S.late EXCEPT ![h] = 0]
<1>1. S \in Scheds /\ a \in [Tid -> Places] /\ QueueOK(S) /\ LocOK(S, a) /\ StatusOK(S, a) /\ AwayOK(S, a, None)
      /\ InFront(S.runq, a)
  BY DEF Good
<1>2. h \in ToSet(S.runq) /\ h \in Tid /\ h # None
  BY <1>1, HeadProps, Constants DEF Scheds
<1>3. S2 = [S EXCEPT !.holder = h, !.age = g, !.late = l, !.status = z]
  BY <1>1 DEF giveTurn, Scheds
<1> HIDE DEF S2, h
<1>4. z \in [Tid -> Statuses] /\ g \in [Tid -> -1 .. MaxAge] /\ l \in [Tid -> 0 .. TwoRounds + 1]
  <2>1. /\ S.status \in [Tid -> Statuses] /\ S.age \in [Tid -> -1 .. MaxAge]
        /\ S.late \in [Tid -> 0 .. TwoRounds + 1]
    BY <1>1 DEF Scheds
  <2>2. "RUNNING_REG" \in Statuses
    BY DEF Statuses
  <2>3. -1 \in -1 .. MaxAge /\ 0 \in 0 .. TwoRounds + 1
    BY Constants
  <2>4. z \in [Tid -> Statuses]
    BY <1>2, <2>1, <2>2
  <2>5. g \in [Tid -> -1 .. MaxAge]
    BY <1>2, <2>1, <2>3, Zenon
  <2>6. l \in [Tid -> 0 .. TwoRounds + 1]
    BY <1>2, <2>1, <2>3, Zenon
  <2>7. QED
    BY <2>4, <2>5, <2>6
<1>5. /\ \A u \in Tid \ {h} : z[u] = S.status[u]
      /\ z[h] = IF S.status[h] = "RUNNABLE" THEN "RUNNING_REG" ELSE S.status[h]
  BY <1>1, <1>2 DEF Scheds
<1> HIDE DEF z, g, l
<1>6. /\ S2.elems = S.elems /\ S2.nNonDetWait = S.nNonDetWait /\ S2.wakeTids = S.wakeTids
      /\ S2.runq = S.runq /\ S2.waitq = S.waitq /\ S2.chan = S.chan /\ S2.nonDet = S.nonDet
      /\ S2.holder = h /\ S2.age = g /\ S2.late = l /\ S2.status = z /\ S2 \in Scheds
  BY <1>1, <1>2, <1>3, <1>4 DEF Scheds
<1>7. S.status[h] # "INTER_PRO_STOP" /\ S.status[h] \in Statuses
  BY <1>1, <1>2 DEF h, Scheds
<1>8. StatusOK(S2, a)
  BY <1>1, <1>2, <1>5, <1>6, <1>7 DEF StatusOK
<1>9. HolderOK(S2)
  BY <1>5, <1>6, <1>7 DEF HolderOK, Statuses, h
<1>10. QueueOK(S2) /\ LocOK(S2, a) /\ AwayOK(S2, a, None)
  BY <1>1, <1>6 DEF QueueOK, LocOK, AwayOK
<1>11. QED
  BY <1>1, <1>6, <1>8, <1>9, <1>10 DEF Good, S2, h, g, l

RegionsWoken(S, a, self, S2) ==
  /\ Good(S2, a, None) /\ SameBut(S, S2) /\ S2.wakeTids = S.wakeTids
  /\ S2.late = S.late /\ S2.age = S.age /\ S2.nonDet = S.nonDet
  /\ S2.runq # <<>> /\ Head(S2.runq) = Head(S.runq)
  /\ \/ S2.runq = S.runq /\ S2.waitq = S.waitq
     \/ /\ self = Idle /\ S.runq = <<Idle>>
        /\ \E T \in SUBSET ToSet(S.waitq) :
             /\ \A t \in T : a[t] = "start"
             /\ S2 = unwait(S, T) /\ InFront(S.runq \o Only(S.waitq, T), a)
             /\ S2.runq = S.runq \o Only(S.waitq, T)
             /\ S2.waitq = Except(S.waitq, T)
             /\ ToSet(S2.waitq) = ToSet(S.waitq) \ T

LEMMA WakeNonDet ==
  ASSUME NEW S, NEW a, NEW self, Good(S, a, None), S.runq # <<>>
  PROVE  RegionsWoken(S, a, self, wakeNonDet(S, self))
<1> DEFINE S2 == wakeNonDet(S, self)
           T == {t \in ToSet(S.waitq) : S.chan[t] = nonDetCV}
<1>1. S \in Scheds /\ LocOK(S, a) /\ S.runq \in Seq(Tid) /\ S.waitq \in Seq(Tid)
  BY DEF Good, Scheds
<1>2. CASE S.nNonDetWait > 0 /\ self = Idle /\ S.runq = <<Idle>>
  <2> DEFINE S3 == signal(S, nonDetCV)
  <2>1. S2 = S3
    BY <1>2 DEF wakeNonDet
  <2>2. \A t \in T : a[t] = "start"
    BY <1>1, InToSet DEF LocOK
  <2>3. /\ Good(S3, a, None) /\ SameBut(S, S3) /\ S3.wakeTids = S.wakeTids
        /\ S3.late = S.late /\ S3.age = S.age /\ S3.nonDet = S.nonDet
        /\ S3.runq = S.runq \o Only(S.waitq, T) /\ S3.waitq = Except(S.waitq, T)
        /\ ToSet(S3.waitq) = ToSet(S.waitq) \ T /\ S3 = unwait(S, T)
        /\ InFront(S.runq \o Only(S.waitq, T), a)
    <3>1. S3 = unwait(S, T) /\ T \in SUBSET ToSet(S.waitq)
      BY DEF signal
    <3>2. Only(S.waitq, T) \in Seq(Tid) /\ ToSet(Only(S.waitq, T)) = ToSet(S.waitq) \cap T
      BY <1>1, OnlyProps
    <3> HIDE DEF S3, T
    <3>3. InFront(S.runq \o Only(S.waitq, T), a)
      <4> DEFINE q == Only(S.waitq, T)
      <4>1. ToSet(S.runq) = {Idle} /\ Idle \in Tid
        BY <1>2, Constants DEF ToSet
      <4>2. a[Idle] = "idle"
        BY <1>1, <4>1 DEF Good, LocOK, QueueOK
      <4>3. q \in Seq(Tid) /\ \A u \in ToSet(q) : a[u] \in First
        BY <2>2, <3>2 DEF First
      <4> HIDE DEF q
      <4>4. S.runq \o q \in Seq(Tid) /\ ToSet(S.runq \o q) = ToSet(S.runq) \cup ToSet(q)
        BY <1>1, <4>3, ConcatProps
      <4>5. \A u \in ToSet(S.runq \o q) : a[u] \in First
        BY <4>1, <4>2, <4>3, <4>4 DEF First
      <4>6. InFront(S.runq \o q, a)
        BY <4>4, <4>5, FrontOnly
      <4>7. QED
        BY <4>6 DEF q
    <3>4. Unwaited(S, a, T, unwait(S, T))
      BY <3>1, <3>3, Unwait
    <3>5. QED
      BY <3>1, <3>3, <3>4, Zenon DEF Unwaited
  <2> HIDE DEF S3
  <2>4. Only(S.waitq, T) \in Seq(Tid)
    BY <1>1, OnlyProps
  <2> HIDE DEF S2, T
  <2>5. S2.runq # <<>> /\ Head(S2.runq) = Head(S.runq)
    BY <1>1, <2>1, <2>3, <2>4, Behind
  <2>6. T \in SUBSET ToSet(S.waitq)
    BY DEF T
  <2>7. QED
    BY <1>2, <2>1, <2>2, <2>3, <2>5, <2>6, Zenon DEF S2, RegionsWoken
<1>3. CASE ~(S.nNonDetWait > 0 /\ self = Idle /\ S.runq = <<Idle>>)
  <2>1. S2 = S
    BY <1>3 DEF wakeNonDet
  <2>2. QED
    BY <2>1 DEF SameBut, RegionsWoken
<1>4. QED
  BY <1>2, <1>3

\* When the run queue is empty the idle thread waits, so it can be woken.
LEMMA WakeUpIdleThread ==
  ASSUME NEW S, NEW a, Good(S, a, None), S.runq = <<>>
  PROVE  LET S2 == wakeUpIdleThread(S)
         IN  /\ Good(S2, a, None) /\ SameBut(S, S2) /\ S2.wakeTids = S.wakeTids
             /\ S2.late = S.late /\ S2.age = S.age /\ S2.nonDet = S.nonDet
             /\ S2.runq # <<>> /\ Head(S2.runq) = Idle /\ a[Idle] = "idle"
             /\ Idle \in ToSet(S.waitq) /\ S2.runq = S.runq \o Only(S.waitq, {Idle})
             /\ S2 = unwait(S, {Idle}) /\ InFront(S.runq \o Only(S.waitq, {Idle}), a)
             /\ S2.waitq = Except(S.waitq, {Idle}) /\ ToSet(S2.waitq) = ToSet(S.waitq) \ {Idle}
<1> DEFINE S2 == wakeUpIdleThread(S)
<1>1. S \in Scheds /\ LocOK(S, a)
  BY DEF Good
<1>2. ToSet(S.runq) = {}
  BY DEF ToSet
<1>3. a[Idle] = "idle" /\ Idle \in ToSet(S.waitq)
  <2>1. a[Main] # "spawn"
    BY <1>1, <1>2, Constants DEF LocOK
  <2>2. Idle \in S.elems
    BY <1>1, <2>1, Constants DEF LocOK
  <2>3. QED
    BY <1>1, <1>2, <2>2, Constants DEF LocOK
<1>4. S2 = unwait(S, {Idle}) /\ {Idle} \in SUBSET ToSet(S.waitq)
  BY <1>3 DEF wakeUpIdleThread
<1> HIDE DEF S2
<1>a. InFront(S.runq \o Only(S.waitq, {Idle}), a)
  <2> DEFINE q == Only(S.waitq, {Idle})
  <2>1. q \in Seq(Tid) /\ ToSet(q) \subseteq {Idle} /\ S.runq \in Seq(Tid)
    BY <1>1, OnlyProps DEF Scheds
  <2> HIDE DEF q
  <2>2. S.runq \o q \in Seq(Tid) /\ ToSet(S.runq \o q) = ToSet(S.runq) \cup ToSet(q)
    BY <2>1, ConcatProps, ZenonT(60)
  <2>3. \A u \in ToSet(S.runq \o q) : a[u] \in First
    BY <1>2, <1>3, <2>1, <2>2 DEF First
  <2>4. InFront(S.runq \o q, a)
    BY <2>2, <2>3, FrontOnly
  <2>5. QED
    BY <2>4 DEF q
<1>5. /\ Good(S2, a, None) /\ SameBut(S, S2) /\ S2.wakeTids = S.wakeTids
      /\ S2.late = S.late /\ S2.age = S.age /\ S2.nonDet = S.nonDet
      /\ S2.runq = S.runq \o Only(S.waitq, {Idle}) /\ S2.waitq = Except(S.waitq, {Idle})
      /\ ToSet(S2.runq) = ToSet(S.runq) \cup {Idle} /\ ToSet(S2.waitq) = ToSet(S.waitq) \ {Idle}
  <2>1. Unwaited(S, a, {Idle}, unwait(S, {Idle}))
    BY <1>4, <1>a, Unwait
  <2>2. QED
    BY <1>4, <2>1, Zenon DEF Unwaited
<1>6. S2.runq # <<>> /\ Head(S2.runq) = Idle
  <2>1. ToSet(S2.runq) = {Idle} /\ S2.runq \in Seq(Tid)
    BY <1>2, <1>5 DEF Good, Scheds
  <2>2. S2.runq # <<>>
    BY <2>1 DEF ToSet
  <2>3. QED
    BY <2>1, <2>2, HeadProps
<1>7. QED
  BY <1>3, <1>4, <1>5, <1>6, <1>a DEF S2

-----------------------------------------------------------------------------
(* Putting the turn. *)

\* self runs: it is at the head, and its own wakeup() has been seen.
Ready(S, self) == S.runq # <<>> /\ self = Head(S.runq) /\ self \notin S.wakeTids

\* The head goes to the back.
Rotated(S, self) ==
  [S EXCEPT !.status[self] = "RUNNABLE", !.runq = Append(Tail(@), self)]

LEMMA Rotate ==
  ASSUME NEW S, NEW a, NEW self, Good(S, a, None), Ready(S, self),
         S.status[self] = "RUNNING_REG", a[self] # "start"
  PROVE  LET S2 == Rotated(S, self)
         IN  /\ Good(S2, a, None) /\ S2.elems = S.elems /\ S2.nNonDetWait = S.nNonDetWait
             /\ S2.wakeTids = S.wakeTids /\ S2.waitq = S.waitq /\ S2.chan = S.chan
             /\ S2.nonDet = S.nonDet /\ S2.age = S.age /\ S2.late = S.late
             /\ S2.runq = Append(Tail(S.runq), self) /\ S2.holder = S.holder
<1> DEFINE S2 == Rotated(S, self)
           z == [S.status EXCEPT ![self] = "RUNNABLE"]
           r == Append(Tail(S.runq), self)
<1>1. S \in Scheds /\ a \in [Tid -> Places] /\ QueueOK(S) /\ LocOK(S, a) /\ StatusOK(S, a) /\ AwayOK(S, a, None)
      /\ InFront(S.runq, a)
  BY DEF Good
<1>2. S.runq \in Seq(Tid) /\ S.runq # <<>> /\ self = Head(S.runq) /\ IsInjective(S.runq)
  BY <1>1 DEF Scheds, Ready, QueueOK
<1>3. self \in Tid
  BY <1>2, HeadProps
<1>4. r \in Seq(Tid) /\ ToSet(r) = ToSet(S.runq) /\ IsInjective(r) /\ InFront(r, a)
  <2> DEFINE w == Tail(S.runq)
             o == <<self>>
  <2>1. /\ w \in Seq(Tid) /\ ToSet(S.runq) = ToSet(w) \cup {self}
        /\ IsInjective(w) /\ self \notin ToSet(w)
    BY <1>2, TailProps
  <2>2. InFront(w, a)
    BY <1>1, <1>2, FrontTail
  <2> HIDE DEF w
  <2>3. /\ Append(w, self) \in Seq(Tid) /\ ToSet(Append(w, self)) = ToSet(w) \cup {self}
        /\ IsInjective(Append(w, self))
    BY <1>3, <2>1, AppendProps
  <2>4. o \in Seq(Tid) /\ ToSet(o) = {self} /\ Append(w, self) = w \o o
    BY <1>3, <2>1 DEF ToSet
  <2> HIDE DEF o
  <2>5. InFront(w \o o, a)
    BY <2>1, <2>2, <2>4, FrontBehind
  <2>6. QED
    BY <2>1, <2>3, <2>4, <2>5 DEF w
<1>5. z \in [Tid -> Statuses] /\ z[self] = "RUNNABLE" /\ \A u \in Tid \ {self} : z[u] = S.status[u]
  BY <1>1, <1>3 DEF Scheds, Statuses
<1>6. S2 = [S EXCEPT !.status = z, !.runq = r]
  BY <1>1 DEF Rotated, Scheds
<1> HIDE DEF S2, z, r
<1>7. /\ S2 \in Scheds /\ S2.elems = S.elems /\ S2.nNonDetWait = S.nNonDetWait
      /\ S2.wakeTids = S.wakeTids /\ S2.waitq = S.waitq /\ S2.chan = S.chan
      /\ S2.nonDet = S.nonDet /\ S2.age = S.age /\ S2.late = S.late
      /\ S2.runq = r /\ S2.status = z /\ S2.holder = S.holder
  BY <1>1, <1>4, <1>5, <1>6 DEF Scheds
<1>8. QueueOK(S2) /\ LocOK(S2, a) /\ AwayOK(S2, a, None)
  BY <1>1, <1>4, <1>7 DEF QueueOK, LocOK, AwayOK
<1>9. StatusOK(S2, a)
  BY <1>1, <1>4, <1>5, <1>7, ZenonT(60) DEF StatusOK
<1>10. QED
  BY <1>1, <1>4, <1>7, <1>8, <1>9 DEF Good, S2, r

\* What is left behind when the loop of nextRunnable() begins.
Scans(S, S2, a) == Good(S2, a, None) /\ S2.holder = S.holder /\ S2.nNonDetWait = S.nNonDetWait

LEMMA TurnPut ==
  ASSUME NEW S, NEW a, NEW self, Good(S, a, None), Ready(S, self),
         S.status[self] = "RUNNING_REG", a[self] # "start"
  PROVE  Scans(S, putTurn(S, self), a)
<1> DEFINE R == Rotated(S, self)
           C == countLate(R)
           B == checkNonDetBound(C)
           S2 == putTurn(S, self)
<1>1. S2 = check_wakeup(B)
  BY DEF putTurn, Rotated
<1>2. /\ Good(R, a, None) /\ R.holder = S.holder /\ R.nNonDetWait = S.nNonDetWait
  BY Rotate
<1> HIDE DEF R
<1>3. Good(C, a, None) /\ SameBut(R, C)
  BY <1>2, CountLate
<1> HIDE DEF C
<1>4. Good(B, a, None) /\ SameBut(C, B)
  BY <1>3, CheckNonDetBound
<1> HIDE DEF B
<1>5. Good(S2, a, None) /\ SameBut(B, S2)
  BY <1>1, <1>4, CheckWakeup
<1>6. QED
  BY <1>2, <1>3, <1>4, <1>5 DEF Scans, SameBut

\* The head leaves the run queue.
Gone(S, self) ==
  [S EXCEPT !.status[self] = IF @ = "RUNNING_REG" THEN "RUNNABLE" ELSE "INTER_PRO_STOP",
            !.runq = Tail(@)]

LEMMA NextIsGone ==
  ASSUME NEW S \in Scheds, NEW self \in Tid,
         S.status[self] \in {"RUNNING_REG", "RUNNING_INTER_PRO"}
  PROVE  next(S, self) = check_wakeup(Gone(S, self))
<1> DEFINE G == Gone(S, self)
<1>1. CASE S.status[self] = "RUNNING_REG"
  <2>1. G = [[S EXCEPT !.status[self] = "RUNNABLE"] EXCEPT !.runq = Tail(@)]
    BY <1>1 DEF Gone, Scheds
  <2>2. QED
    BY <1>1, <2>1 DEF next
<1>2. CASE S.status[self] = "RUNNING_INTER_PRO"
  <2>1. G = [[S EXCEPT !.status[self] = "INTER_PRO_STOP"] EXCEPT !.runq = Tail(@)]
    BY <1>2 DEF Gone, Scheds
  <2>2. QED
    BY <1>2, <2>1 DEF next
<1>3. QED
  BY <1>1, <1>2

LEMMA NextStep ==
  ASSUME NEW S \in Scheds, NEW a, NEW self \in Tid,
         S.status[self] \in {"RUNNING_REG", "RUNNING_INTER_PRO"}, Good(Gone(S, self), a, None)
  PROVE  Scans(S, next(S, self), a)
<1> DEFINE G == Gone(S, self)
           S2 == next(S, self)
<1>1. G.holder = S.holder /\ G.nNonDetWait = S.nNonDetWait
  BY DEF Gone, Scheds
<1>2. S2 = check_wakeup(G)
  BY NextIsGone
<1> HIDE DEF S2, G
<1>3. Good(S2, a, None) /\ SameBut(G, S2)
  BY <1>2, CheckWakeup DEF G
<1>4. QED
  BY <1>1, <1>3 DEF Scans, SameBut, S2

LEMMA Leaving ==
  ASSUME NEW S, NEW a, NEW x, NEW self, Good(S, a, x), Ready(S, self)
  PROVE  /\ self \in Tid /\ self \in ToSet(S.runq) /\ self \in S.elems
         /\ self \notin ToSet(S.waitq)
         /\ Tail(S.runq) \in Seq(Tid) /\ IsInjective(Tail(S.runq))
         /\ ToSet(Tail(S.runq)) = ToSet(S.runq) \ {self} /\ InFront(Tail(S.runq), a)
<1>1. S.runq \in Seq(Tid) /\ S.runq # <<>> /\ self = Head(S.runq) /\ IsInjective(S.runq)
  BY DEF Good, Scheds, Ready, QueueOK
<1>2. self \in Tid /\ self \in ToSet(S.runq)
  BY <1>1, HeadProps
<1>3. self \in S.elems /\ self \notin ToSet(S.waitq)
  BY <1>2 DEF Good, QueueOK
<1>4. /\ Tail(S.runq) \in Seq(Tid) /\ IsInjective(Tail(S.runq))
      /\ ToSet(S.runq) = ToSet(Tail(S.runq)) \cup {self} /\ self \notin ToSet(Tail(S.runq))
  BY <1>1, TailProps
<1>5. InFront(Tail(S.runq), a)
  BY <1>1, FrontTail DEF Good
<1>6. QED
  BY <1>2, <1>3, <1>4, <1>5

\* wait: into the wait queue, on a channel that fits the place.
Waiting(S, self) == [S EXCEPT !.waitq = Append(@, self)]

LEMMA LeaveWait ==
  ASSUME NEW S, NEW a, NEW self, Good(S, a, None), Ready(S, self), S.status[self] = "RUNNING_REG",
         a[self] \in {"start", "join", "idle"}, S.chan[self] = nonDetCV <=> a[self] = "start"
  PROVE  /\ Good(Gone(Waiting(S, self), self), a, None)
         /\ Waiting(S, self) \in Scheds /\ Waiting(S, self).status = S.status
         /\ Waiting(S, self).holder = S.holder /\ Waiting(S, self).nNonDetWait = S.nNonDetWait
<1> DEFINE W == Waiting(S, self)
           G == Gone(W, self)
           w == Append(S.waitq, self)
           r == Tail(S.runq)
           z == [S.status EXCEPT ![self] = "RUNNABLE"]
<1>1. S \in Scheds /\ a \in [Tid -> Places] /\ QueueOK(S) /\ LocOK(S, a) /\ StatusOK(S, a) /\ AwayOK(S, a, None)
  BY DEF Good
<1>2. S.waitq \in Seq(Tid) /\ IsInjective(S.waitq) /\ self \notin S.wakeTids /\ S.elems \subseteq Tid
  BY <1>1 DEF Scheds, QueueOK, Ready
<1>3. /\ self \in Tid /\ self \in ToSet(S.runq) /\ self \in S.elems
      /\ self \notin ToSet(S.waitq) /\ InFront(r, a)
      /\ r \in Seq(Tid) /\ IsInjective(r) /\ ToSet(r) = ToSet(S.runq) \ {self}
  BY Leaving
<1>4. w \in Seq(Tid) /\ IsInjective(w) /\ ToSet(w) = ToSet(S.waitq) \cup {self}
  BY <1>2, <1>3, AppendProps
<1>5. z \in [Tid -> Statuses] /\ z[self] = "RUNNABLE" /\ \A u \in Tid \ {self} : z[u] = S.status[u]
  BY <1>1, <1>3 DEF Scheds, Statuses
<1>6. W = [S EXCEPT !.waitq = w]
  BY <1>1 DEF Waiting, Scheds
<1>7. G = [S EXCEPT !.waitq = w, !.runq = r, !.status = z]
  BY <1>1, <1>6 DEF Gone, Scheds
<1> HIDE DEF W, G, w, r, z
<1>8. /\ W \in Scheds /\ W.status = S.status /\ W.holder = S.holder
      /\ W.nNonDetWait = S.nNonDetWait
  BY <1>1, <1>4, <1>6 DEF Scheds
<1>9. /\ G \in Scheds /\ G.wakeTids = S.wakeTids /\ G.status = z /\ G.elems = S.elems
      /\ G.waitq = w /\ G.chan = S.chan /\ G.runq = r /\ G.nonDet = S.nonDet
  BY <1>1, <1>3, <1>4, <1>5, <1>7 DEF Scheds
<1>10. QueueOK(G)
  BY <1>1, <1>3, <1>4, <1>9 DEF QueueOK
<1>11. LocOK(G, a)
  <2> SUFFICES ASSUME NEW u \in Tid
               PROVE  /\ a[u] = "none" <=> u \notin G.elems
                      /\ a[u] = "idle" <=> u = Idle /\ u \in G.elems
                      /\ a[u] = "spawn" <=> u = Main /\ Idle \notin G.elems
                      /\ a[u] \in {"block", "started", "spawn", "begin"} => u \in ToSet(G.runq)
                      /\ a[u] = "app" => u \in ToSet(G.runq) \/ u \in G.wakeTids
                      /\ a[u] \in {"start", "join", "idle"} => u \in ToSet(G.runq) \/ u \in ToSet(G.waitq)
                      /\ a[u] = "dead" => u \notin ToSet(G.runq)
                      /\ u \in G.wakeTids => a[u] \in {"app", "block", "sys", "wakeup"}
                      /\ u \in ToSet(G.waitq) =>
                           a[u] \in {"start", "join", "idle"} /\ (G.chan[u] = nonDetCV <=> a[u] = "start")
    BY Zenon DEF LocOK
  <2>1. CASE u = self
    BY <1>1, <1>2, <1>3, <1>4, <1>9, <2>1 DEF LocOK
  <2>2. CASE u # self
    BY <1>1, <1>2, <1>3, <1>4, <1>9, <2>2 DEF LocOK
  <2>3. QED
    BY <2>1, <2>2
<1>12. StatusOK(G, a)
  BY <1>1, <1>3, <1>5, <1>9 DEF StatusOK
<1>13. AwayOK(G, a, None)
  BY <1>1, <1>2, <1>3, <1>4, <1>9, Constants DEF AwayOK
<1>14. QED
  BY <1>1, <1>3, <1>8, <1>9, <1>10, <1>11, <1>12, <1>13 DEF Good, G, W

\* block: out of both queues, and in the set already.
LEMMA LeaveBlock ==
  ASSUME NEW S, NEW a, NEW self, Good(S, a, self), Ready(S, self),
         \/ a[self] = "block" /\ S.status[self] = "RUNNING_INTER_PRO"
         \/ a[self] = "started" /\ S.status[self] = "RUNNING_REG"
  PROVE  LET p == IF a[self] = "block" THEN "sys" ELSE "region"
         IN  Good(Gone(S, self), [a EXCEPT ![self] = p], None)
<1> DEFINE p == IF a[self] = "block" THEN "sys" ELSE "region"
           y == IF a[self] = "block" THEN "INTER_PRO_STOP" ELSE "RUNNABLE"
           G == Gone(S, self)
           b == [a EXCEPT ![self] = p]
           r == Tail(S.runq)
           z == [S.status EXCEPT ![self] = y]
<1>1. S \in Scheds /\ a \in [Tid -> Places] /\ QueueOK(S) /\ LocOK(S, a) /\ StatusOK(S, a) /\ AwayOK(S, a, self)
  BY DEF Good
<1>2. self \notin S.wakeTids /\ S.elems \subseteq Tid
  BY <1>1 DEF Scheds, Ready
<1>3. /\ self \in Tid /\ self \in ToSet(S.runq) /\ self \in S.elems
      /\ self \notin ToSet(S.waitq) /\ InFront(r, a)
      /\ r \in Seq(Tid) /\ IsInjective(r) /\ ToSet(r) = ToSet(S.runq) \ {self}
  BY Leaving
<1>4. z \in [Tid -> Statuses] /\ z[self] = y /\ \A u \in Tid \ {self} : z[u] = S.status[u]
  BY <1>1, <1>3 DEF Scheds, Statuses
<1>5. b \in [Tid -> Places] /\ b[self] = p /\ \A u \in Tid \ {self} : b[u] = a[u]
  BY <1>1, <1>3 DEF Places
<1>6. G = [S EXCEPT !.runq = r, !.status = z]
  BY <1>1 DEF Gone, Scheds
<1> HIDE DEF G, b, r, z
<1>7. /\ G \in Scheds /\ G.wakeTids = S.wakeTids /\ G.status = z /\ G.elems = S.elems
      /\ G.waitq = S.waitq /\ G.chan = S.chan /\ G.runq = r /\ G.nonDet = S.nonDet
  BY <1>1, <1>2, <1>3, <1>4, <1>6 DEF Scheds
<1>8. QueueOK(G)
  BY <1>1, <1>2, <1>3, <1>7 DEF QueueOK
<1>9. LocOK(G, b)
  BY <1>1, <1>2, <1>3, <1>5, <1>7 DEF LocOK
<1>10. StatusOK(G, b)
  BY <1>1, <1>3, <1>4, <1>5, <1>7 DEF StatusOK
<1>11. AwayOK(G, b, None)
  <2>1. CASE ~clockBound
    BY <1>1, <1>7, <2>1 DEF AwayOK
  <2>2. CASE clockBound
    <3>1. None \notin S.elems /\ p # "dead" /\ a[self] # "dead"
      BY <1>2, Constants
    <3>2. \A u \in S.elems : u \in ToSet(S.nonDet) <=>
            a[u] # "dead" /\ u \notin ToSet(S.waitq) /\ (u \notin ToSet(S.runq) \/ u = self)
      BY <1>1, <2>2 DEF AwayOK
    <3>3. \A u \in S.elems : u \in ToSet(S.nonDet) <=>
            b[u] # "dead" /\ u \notin ToSet(S.waitq) /\ u \notin ToSet(r)
      BY <1>2, <1>3, <1>5, <3>1, <3>2
    <3>4. QED
      BY <1>7, <2>2, <3>1, <3>3 DEF AwayOK
  <2>3. QED
    BY <2>1, <2>2
<1>12. InFront(r, b)
  <2>1. \A u \in ToSet(r) : b[u] = a[u]
    BY <1>3, <1>5, InToSet
  <2>2. QED
    BY <1>3, <2>1, FrontPlaces
<1>13. QED
  BY <1>5, <1>7, <1>8, <1>9, <1>10, <1>11, <1>12 DEF Good, G, b

\* The end of a thread: out of both queues for good.
LEMMA LeaveEnd ==
  ASSUME NEW S, NEW a, NEW self, Good(S, a, None), Ready(S, self),
         a[self] = "app", S.status[self] = "RUNNING_REG"
  PROVE  Good(Gone(S, self), [a EXCEPT ![self] = "dead"], None)
<1> DEFINE G == Gone(S, self)
           b == [a EXCEPT ![self] = "dead"]
           r == Tail(S.runq)
           z == [S.status EXCEPT ![self] = "RUNNABLE"]
<1>1. S \in Scheds /\ a \in [Tid -> Places] /\ QueueOK(S) /\ LocOK(S, a) /\ StatusOK(S, a) /\ AwayOK(S, a, None)
  BY DEF Good
<1>2. self \notin S.wakeTids /\ S.elems \subseteq Tid
  BY <1>1 DEF Scheds, Ready
<1>3. /\ self \in Tid /\ self \in ToSet(S.runq) /\ self \in S.elems
      /\ self \notin ToSet(S.waitq) /\ InFront(r, a)
      /\ r \in Seq(Tid) /\ IsInjective(r) /\ ToSet(r) = ToSet(S.runq) \ {self}
  BY Leaving
<1>4. z \in [Tid -> Statuses] /\ z[self] = "RUNNABLE" /\ \A u \in Tid \ {self} : z[u] = S.status[u]
  BY <1>1, <1>3 DEF Scheds, Statuses
<1>5. b \in [Tid -> Places] /\ b[self] = "dead" /\ \A u \in Tid \ {self} : b[u] = a[u]
  BY <1>1, <1>3 DEF Places
<1>6. G = [S EXCEPT !.runq = r, !.status = z]
  BY <1>1 DEF Gone, Scheds
<1> HIDE DEF G, b, r, z
<1>7. /\ G \in Scheds /\ G.wakeTids = S.wakeTids /\ G.status = z /\ G.elems = S.elems
      /\ G.waitq = S.waitq /\ G.chan = S.chan /\ G.runq = r /\ G.nonDet = S.nonDet
  BY <1>1, <1>2, <1>3, <1>4, <1>6 DEF Scheds
<1>8. QueueOK(G)
  BY <1>1, <1>2, <1>3, <1>7 DEF QueueOK
<1>9. LocOK(G, b)
  BY <1>1, <1>2, <1>3, <1>5, <1>7 DEF LocOK
<1>10. StatusOK(G, b)
  BY <1>1, <1>3, <1>4, <1>5, <1>7 DEF StatusOK
<1>11. AwayOK(G, b, None)
  <2>1. CASE ~clockBound
    BY <1>1, <1>7, <2>1 DEF AwayOK
  <2>2. CASE clockBound
    <3>1. None \notin S.elems
      BY <1>2, Constants
    <3>2. \A u \in S.elems : u \in ToSet(S.nonDet) <=>
            a[u] # "dead" /\ u \notin ToSet(S.waitq) /\ u \notin ToSet(S.runq)
      BY <1>1, <2>2, <3>1 DEF AwayOK
    <3>3. \A u \in S.elems : u \in ToSet(S.nonDet) <=>
            b[u] # "dead" /\ u \notin ToSet(S.waitq) /\ u \notin ToSet(r)
      BY <1>2, <1>3, <1>5, <3>2
    <3>4. QED
      BY <1>7, <2>2, <3>3, <3>1 DEF AwayOK
  <2>3. QED
    BY <2>1, <2>2
<1>12. InFront(r, b)
  <2>1. \A u \in ToSet(r) : b[u] = a[u]
    BY <1>3, <1>5, InToSet
  <2>2. QED
    BY <1>3, <2>1, FrontPlaces
<1>13. QED
  BY <1>5, <1>7, <1>8, <1>9, <1>10, <1>11, <1>12 DEF Good, G, b

-----------------------------------------------------------------------------
(* The operations of a thread that has the turn. *)

Holds(S, self) == self \in Tid /\ S.holder = self /\ HolderOK(S)

LEMMA HolderFacts ==
  ASSUME NEW S, NEW a, NEW x, NEW self, Good(S, a, x), Holds(S, self)
  PROVE  /\ S.runq # <<>> /\ self = Head(S.runq) /\ self \in ToSet(S.runq)
         /\ self \notin ToSet(S.waitq) /\ self \in S.elems /\ S.runq \in Seq(Tid)
         /\ IF a[self] = "block" THEN S.status[self] = "RUNNING_INTER_PRO"
                                 ELSE S.status[self] = "RUNNING_REG"
<1>1. /\ S.runq # <<>> /\ self = Head(S.runq) /\ S.runq \in Seq(Tid)
      /\ S.status[self] \in {"RUNNING_REG", "RUNNING_INTER_PRO"}
  BY Constants DEF Holds, HolderOK, Good, Scheds
<1>2. self \in ToSet(S.runq) /\ self \in Tid
  BY <1>1, HeadProps
<1>3. self \notin ToSet(S.waitq) /\ self \in S.elems
  BY <1>2 DEF Good, QueueOK
<1>4. S.status[self] = "RUNNING_INTER_PRO" <=> a[self] = "block"
  BY <1>2 DEF Good, StatusOK
<1>5. QED
  BY <1>1, <1>2, <1>3, <1>4

LEMMA Incremented ==
  ASSUME NEW S, NEW a, NEW x, NEW self, Good(S, a, x), Holds(S, self), x \in {None, self}
  PROVE  LET I == incTurnCount(S)
         IN  /\ Good(I, a, x) /\ Ready(I, self) /\ Holds(I, self) /\ SameBut(S, I)
             /\ I.waitq = S.waitq /\ I.chan = S.chan /\ I.wakeTids = {}
<1> DEFINE I == incTurnCount(S)
           q == Only(WakeOrder, S.wakeTids \ ToSet(S.runq))
<1>1. /\ S.runq # <<>> /\ self = Head(S.runq) /\ self \in ToSet(S.runq) /\ S.runq \in Seq(Tid)
      /\ S.status[self] \in {"RUNNING_REG", "RUNNING_INTER_PRO"} /\ self \in Tid
  BY HolderFacts DEF Holds
<1>2. /\ Good(I, a, x) /\ SameBut(S, I) /\ I.wakeTids = {}
      /\ I.waitq = S.waitq /\ I.chan = S.chan /\ I.runq = S.runq \o q
  <2>1. x \in ToSet(S.runq) \/ x = None
    BY <1>1
  <2>2. Counted(S, a, x, I)
    BY <2>1, IncTurnCount, Zenon
  <2> HIDE DEF I
  <2>3. QED
    BY <2>2, Zenon DEF Counted
<1>3. q \in Seq(Tid)
  BY Constants, OnlyProps
<1> HIDE DEF I, q
<1>4. I.runq # <<>> /\ Head(I.runq) = Head(S.runq)
  BY <1>1, <1>2, <1>3, Behind
<1>5. QED
  BY <1>1, <1>2, <1>4 DEF Ready, Holds, HolderOK, SameBut, I

\* A thread that leaves for a blocking call or a region is in the set first.
Entered(S, Z, a, self) ==
  /\ Good(Z, a, self) /\ Holds(Z, self) /\ SameBut(S, Z) /\ Z.waitq = S.waitq /\ Z.chan = S.chan
  /\ Z.runq = S.runq /\ Z.wakeTids = S.wakeTids
  /\ Z.nonDet = (IF clockBound THEN S.nonDet \o <<self>> ELSE S.nonDet)
  /\ clockBound => \A t \in Tid : /\ Z.age[t] = IF t = self THEN 0 ELSE S.age[t]
                                  /\ Z.late[t] = IF t = self THEN 0 ELSE S.late[t]

LEMMA Inserted ==
  ASSUME NEW S, NEW a, NEW self, Good(S, a, None), Holds(S, self), a[self] \in {"block", "started"}
  PROVE  Entered(S, insertIfBound(S, <<self>>), a, self)
<1> DEFINE o == <<self>>
           Z == insertIfBound(S, o)
           d == S.nonDet \o o
<1>1. S \in Scheds /\ a \in [Tid -> Places] /\ QueueOK(S) /\ LocOK(S, a) /\ StatusOK(S, a) /\ AwayOK(S, a, None)
      /\ InFront(S.runq, a)
  BY DEF Good
<1>2. /\ S.nonDet \in Seq(Tid) /\ IsInjective(S.nonDet) /\ None \notin S.elems /\ S.elems \subseteq Tid
      /\ ToSet(S.nonDet) \subseteq S.elems
  BY <1>1, Constants DEF Scheds, QueueOK
<1>3. /\ self \in ToSet(S.runq) /\ self \notin ToSet(S.waitq) /\ self \in S.elems /\ self \in Tid
      /\ a[self] # "dead"
  BY HolderFacts DEF Holds
<1>4. o \in Seq(Tid) /\ ToSet(o) = {self} /\ IsInjective(o)
  BY <1>3 DEF ToSet, IsInjective
<1> HIDE DEF o
<1>5. ToSet(o) \cap ToSet(S.nonDet) = {}
  BY <1>1, <1>2, <1>3, <1>4 DEF AwayOK
<1>6. d \in Seq(Tid) /\ ToSet(d) = ToSet(S.nonDet) \cup {self} /\ IsInjective(d)
  BY <1>2, <1>4, <1>5, ConcatProps
<1>7. /\ Z \in Scheds /\ SameBut(S, Z) /\ Z.wakeTids = S.wakeTids
      /\ Z.runq = S.runq /\ Z.waitq = S.waitq /\ Z.chan = S.chan
      /\ Z.nonDet = (IF clockBound THEN d ELSE S.nonDet)
      /\ clockBound => /\ Z.age = [t \in Tid |-> IF t \in ToSet(o) THEN 0 ELSE S.age[t]]
                       /\ Z.late = [t \in Tid |-> IF t \in ToSet(o) THEN 0 ELSE S.late[t]]
  BY <1>1, <1>4, <1>5, InsertIfBound
<1> HIDE DEF Z, d
<1>8. clockBound => \A t \in Tid : /\ Z.age[t] = IF t = self THEN 0 ELSE S.age[t]
                                   /\ Z.late[t] = IF t = self THEN 0 ELSE S.late[t]
  BY <1>4, <1>7
<1>9. IsInjective(Z.nonDet) /\ ToSet(Z.nonDet) \subseteq S.elems
  BY <1>2, <1>3, <1>6, <1>7
<1>10. QueueOK(Z)
  BY <1>1, <1>7, <1>9 DEF QueueOK, SameBut
<1>11. LocOK(Z, a) /\ StatusOK(Z, a)
  BY <1>1, <1>7 DEF LocOK, StatusOK, SameBut
<1>12. AwayOK(Z, a, self)
  BY <1>1, <1>2, <1>3, <1>6, <1>7 DEF AwayOK, SameBut
<1>13. Holds(Z, self)
  BY <1>7 DEF Holds, HolderOK, SameBut
<1>14. QED
  BY <1>1, <1>7, <1>8, <1>10, <1>11, <1>12, <1>13 DEF Good, Entered, Z, d, o

\* The new thread has the next id.
LEMMA NewTid ==
  ASSUME NEW S, QueueOK(S), Cardinality(S.elems) < NThread
  PROVE  LET new == Cardinality(S.elems)
         IN  /\ new \in Tid /\ new \in 1 .. NThread /\ new + 1 \in 1 .. NThread
             /\ S.elems = 0 .. new - 1 /\ S.elems \cup {new} = 0 .. new /\ new \notin S.elems
<1>1. PICK n \in 1 .. NThread : S.elems = 0 .. n - 1
  BY DEF QueueOK
<1>2. Cardinality(S.elems) = n
  <2>1. Cardinality(0 .. n - 1) = (n - 1) - 0 + 1
    BY <1>1, Constants, FS_Interval
  <2>2. QED
    BY <1>1, <2>1
<1>3. QED
  BY <1>1, <1>2, Constants DEF Tid

\* pthreadCreate: the idle thread is the first one.
LEMMA CreateStep ==
  ASSUME NEW S, NEW a, NEW self, NEW new, NEW b \in [Tid -> Places], Good(S, a, None),
         Holds(S, self), a[self] \in {"spawn", "app"}, new = Cardinality(S.elems),
         new < NThread, b[self] = "app", b[new] = IF new = Idle THEN "idle" ELSE "begin",
         \A u \in Tid \ {self, new} : b[u] = a[u]
  PROVE  LET Z == create(S, new)
         IN  /\ Good(Z, b, None) /\ Holds(Z, self) /\ Z.nNonDetWait = S.nNonDetWait
             /\ Z.waitq = S.waitq /\ Z.runq = S.runq \o <<new>> /\ Z.nonDet = S.nonDet
             /\ Z.age = S.age /\ Z.late = S.late /\ Z.elems = S.elems \cup {new}
             /\ new \in Tid /\ a[new] = "none" /\ self # Idle
<1> DEFINE o == <<new>>
           Z == create(S, new)
           z == [S.status EXCEPT ![new] = "RUNNABLE"]
           r == S.runq \o o
<1>1. S \in Scheds /\ a \in [Tid -> Places] /\ QueueOK(S) /\ LocOK(S, a) /\ StatusOK(S, a) /\ AwayOK(S, a, None)
      /\ InFront(S.runq, a)
  BY DEF Good
<1>4. /\ new \in Tid /\ new \notin S.elems /\ S.elems \cup {new} = 0 .. new
      /\ new + 1 \in 1 .. NThread /\ S.elems = 0 .. new - 1 /\ new \in 1 .. NThread
  BY <1>1, NewTid
<1>5. /\ self \in ToSet(S.runq) /\ self \in S.elems /\ self \notin ToSet(S.waitq) /\ self \in Tid
      /\ S.runq \in Seq(Tid) /\ S.runq # <<>> /\ self = Head(S.runq)
      /\ IF a[self] = "block" THEN S.status[self] = "RUNNING_INTER_PRO"
                              ELSE S.status[self] = "RUNNING_REG"
  BY HolderFacts DEF Holds
<1>6. new # self /\ self # Idle /\ a[new] = "none"
  BY <1>1, <1>4, <1>5 DEF LocOK
<1>7. (Idle \in S.elems \/ new = Idle) /\ (a[self] = "spawn" <=> new = Idle)
  <2>1. Idle \in S.elems <=> new >= 2
    BY <1>4 DEF Idle
  <2>2. new = 1 => S.elems = {Main}
    BY <1>4 DEF Main
  <2>3. new = 1 => a[self] = "spawn"
    BY <1>1, <1>5, <2>1, <2>2 DEF LocOK
  <2>4. a[self] = "spawn" => Idle \notin S.elems
    BY <1>1, <1>5 DEF LocOK
  <2>5. QED
    BY <1>4, <2>1, <2>3, <2>4 DEF Idle
<1>8. /\ b[self] = "app" /\ (\A u \in Tid \ {self, new} : b[u] = a[u])
      /\ b[new] = IF new = Idle THEN "idle" ELSE "begin"
  OBVIOUS
<1>9. z \in [Tid -> Statuses] /\ z[new] = "RUNNABLE" /\ \A u \in Tid \ {new} : z[u] = S.status[u]
  BY <1>1, <1>4 DEF Scheds, Statuses
<1>10. o \in Seq(Tid) /\ ToSet(o) = {new} /\ IsInjective(o)
  BY <1>4 DEF ToSet, IsInjective
<1>11. ToSet(S.runq) \cap {new} = {} /\ IsInjective(S.runq)
  BY <1>1, <1>4 DEF QueueOK
<1>12. Z = [S EXCEPT !.elems = S.elems \cup {new}, !.status = z, !.runq = r]
  <2> DEFINE Y == [S EXCEPT !.elems = @ \cup {new}, !.status[new] = "RUNNABLE"]
  <2>1. Y = [S EXCEPT !.elems = S.elems \cup {new}, !.status = z] /\ Y.runq = S.runq /\ Y.elems = S.elems \cup {new}
    BY <1>1 DEF Scheds
  <2>2. Z = push_back(Y, o)
    BY DEF create
  <2> HIDE DEF Y, o, z
  <2>3. Z = [Y EXCEPT !.runq = S.runq \o o]
    BY <1>10, <1>11, <2>1, <2>2 DEF push_back
  <2>4. QED
    BY <1>1, <2>1, <2>3 DEF Scheds
<1> HIDE DEF o
<1>13. r \in Seq(Tid) /\ ToSet(r) = ToSet(S.runq) \cup {new} /\ IsInjective(r)
  BY <1>5, <1>10, <1>11, ConcatProps
<1>14. r # <<>> /\ Head(r) = self
  BY <1>5, <1>10, Behind
<1> HIDE DEF Z, z, r
<1>15. /\ Z \in Scheds /\ Z.elems = S.elems \cup {new} /\ Z.status = z /\ Z.runq = r
       /\ Z.waitq = S.waitq /\ Z.chan = S.chan /\ Z.wakeTids = S.wakeTids /\ Z.nonDet = S.nonDet
       /\ Z.holder = S.holder /\ Z.nNonDetWait = S.nNonDetWait /\ Z.age = S.age /\ Z.late = S.late
  BY <1>1, <1>4, <1>9, <1>12, <1>13 DEF Scheds
<1>16. QueueOK(Z)
  <2>1. \E k \in 1 .. NThread : Z.elems = 0 .. k - 1
    <3>1. (new + 1) - 1 = new
      BY <1>4
    <3>2. Z.elems = 0 .. (new + 1) - 1
      BY <1>4, <1>15, <3>1
    <3>3. QED
      BY <1>4, <3>2
  <2>2. /\ IsInjective(Z.runq) /\ IsInjective(Z.waitq) /\ IsInjective(Z.nonDet)
        /\ ToSet(Z.runq) \cap ToSet(Z.waitq) = {}
        /\ ToSet(Z.runq) \subseteq Z.elems /\ ToSet(Z.waitq) \subseteq Z.elems
        /\ ToSet(Z.nonDet) \subseteq Z.elems /\ Z.wakeTids \subseteq Z.elems
    BY <1>1, <1>4, <1>13, <1>15 DEF QueueOK
  <2>3. QED
    BY <2>1, <2>2 DEF QueueOK
<1>17. LocOK(Z, b)
  <2>1. new \notin ToSet(S.waitq) /\ new \notin S.wakeTids /\ Idle \in Z.elems
    BY <1>1, <1>4, <1>7, <1>15 DEF QueueOK
  <2> SUFFICES ASSUME NEW u \in Tid
               PROVE  /\ b[u] = "none" <=> u \notin Z.elems
                      /\ b[u] = "idle" <=> u = Idle /\ u \in Z.elems
                      /\ b[u] = "spawn" <=> u = Main /\ Idle \notin Z.elems
                      /\ b[u] \in {"block", "started", "spawn", "begin"} => u \in ToSet(Z.runq)
                      /\ b[u] = "app" => u \in ToSet(Z.runq) \/ u \in Z.wakeTids
                      /\ b[u] \in {"start", "join", "idle"} => u \in ToSet(Z.runq) \/ u \in ToSet(Z.waitq)
                      /\ b[u] = "dead" => u \notin ToSet(Z.runq)
                      /\ u \in Z.wakeTids => b[u] \in {"app", "block", "sys", "wakeup"}
                      /\ u \in ToSet(Z.waitq) =>
                           b[u] \in {"start", "join", "idle"} /\ (Z.chan[u] = nonDetCV <=> b[u] = "start")
    BY Zenon DEF LocOK
  <2>2. CASE u = self
    BY <1>1, <1>5, <1>6, <1>8, <1>13, <1>15, <2>1, <2>2 DEF LocOK
  <2>3. CASE u = new
    BY <1>1, <1>4, <1>6, <1>8, <1>13, <1>15, <2>1, <2>3 DEF LocOK
  <2>4. CASE u # self /\ u # new
    <3>1. b[u] = a[u] /\ (u \in Z.elems <=> u \in S.elems) /\ (u \in ToSet(Z.runq) <=> u \in ToSet(S.runq))
      BY <1>8, <1>13, <1>15, <2>4
    <3>2. a[u] # "spawn"
      <4>1. a[u] = "spawn" => u = Main /\ Idle \notin S.elems
        BY <1>1 DEF LocOK
      <4>2. Idle \notin S.elems => a[self] = "spawn"
        BY <1>7
      <4>3. a[self] = "spawn" => self = Main
        BY <1>1, <1>5 DEF LocOK
      <4>4. QED
        BY <2>4, <4>1, <4>2, <4>3
    <3>3. QED
      BY <1>1, <1>15, <2>1, <3>1, <3>2 DEF LocOK
  <2>5. QED
    BY <2>2, <2>3, <2>4
<1>18. StatusOK(Z, b)
  <2>1. z[self] = "RUNNING_REG" /\ z[new] = "RUNNABLE" /\ b[new] \notin {"sys", "block"}
    BY <1>5, <1>6, <1>8, <1>9
  <2>2. \A u \in Tid \ {self, new} : z[u] = S.status[u] /\ b[u] = a[u]
    BY <1>8, <1>9
  <2>3. QED
    BY <1>1, <1>5, <1>8, <1>13, <1>15, <2>1, <2>2 DEF StatusOK
<1>19. AwayOK(Z, b, None)
  <2>1. CASE ~clockBound
    BY <1>1, <1>15, <2>1 DEF AwayOK
  <2>2. CASE clockBound
    <3>1. None \notin Z.elems /\ S.elems \subseteq Tid
      BY <1>1, <1>15, Constants DEF Scheds
    <3>2. \A u \in S.elems : u \in ToSet(S.nonDet) <=>
            a[u] # "dead" /\ u \notin ToSet(S.waitq) /\ u \notin ToSet(S.runq)
      BY <1>1, <1>15, <2>2, <3>1 DEF AwayOK
    <3>3. new \notin ToSet(S.nonDet)
      BY <1>1, <1>4 DEF QueueOK
    <3>4. \A u \in Z.elems : u \in ToSet(S.nonDet) <=>
            b[u] # "dead" /\ u \notin ToSet(S.waitq) /\ u \notin ToSet(r)
      BY <1>5, <1>6, <1>8, <1>13, <1>15, <3>1, <3>2, <3>3
    <3>5. QED
      BY <1>15, <2>2, <3>1, <3>4 DEF AwayOK
  <2>3. QED
    BY <2>1, <2>2
<1>f. InFront(Z.runq, b)
  <2>1. \A u \in ToSet(S.runq) \ {self} : b[u] = a[u]
    BY <1>5, <1>8, <1>11, InToSet
  <2>2. a[self] \notin First
    BY DEF First
  <2>3. InFront(S.runq, b)
    BY <1>1, <1>5, <1>11, <2>1, <2>2, FrontHead
  <2>4. \A u \in ToSet(o) : b[u] # "start"
    BY <1>8, <1>10
  <2>5. QED
    BY <1>5, <1>10, <1>15, <2>3, <2>4, FrontBehind DEF r
<1>20. Good(Z, b, None)
  BY <1>8, <1>15, <1>16, <1>17, <1>18, <1>19, <1>f DEF Good
<1>21. Holds(Z, self)
  BY <1>5, <1>6, <1>9, <1>14, <1>15 DEF Holds, HolderOK
<1>22. QED
  BY <1>4, <1>6, <1>15, <1>20, <1>21 DEF Z, r, o

\* The first part of an operation, in which a thread changes its place from a to b.
Moves(a, b, self) ==
  \/ b = a
  \/ /\ b \in [Tid -> Places] /\ \A u \in Tid \ {self} : b[u] = a[u]
     /\ a[self] \in {"begin", "app", "start", "join"}
     /\ b[self] \in {"app", "start", "started", "join"}
     /\ a[self] = "start" => b[self] = "started"

Begun(S, S2, b, self) ==
  /\ Good(S2, b, None) /\ HolderOK(S2) /\ S2.holder = self /\ self \notin S2.wakeTids
  /\ S2.chan = S.chan /\ S2.nNonDetWait = S.nNonDetWait

LEMMA Began ==
  ASSUME NEW S, NEW a, NEW b, NEW self, Good(S, a, None), Holds(S, self), Moves(a, b, self)
  PROVE  Begun(S, incTurnCount(S), b, self)
<1> DEFINE I == incTurnCount(S)
<1>1. /\ Good(I, a, None) /\ Ready(I, self) /\ Holds(I, self) /\ SameBut(S, I)
      /\ I.waitq = S.waitq /\ I.chan = S.chan /\ I.wakeTids = {}
  BY Incremented
<1> HIDE DEF I
<1>2. CASE b = a
  BY <1>1, <1>2 DEF Begun, Holds, SameBut, I
<1>3. CASE b # a
  <2>1. /\ b \in [Tid -> Places] /\ \A u \in Tid \ {self} : b[u] = a[u]
        /\ a[self] \in {"begin", "app", "start", "join"}
        /\ b[self] \in {"app", "start", "started", "join"}
        /\ a[self] = "start" => b[self] = "started"
    BY <1>3 DEF Moves
  <2>2. I \in Scheds /\ a \in [Tid -> Places] /\ QueueOK(I) /\ LocOK(I, a) /\ StatusOK(I, a)
        /\ AwayOK(I, a, None) /\ InFront(I.runq, a) /\ I.elems \subseteq Tid
    BY <1>1 DEF Good, Scheds
  <2>3. /\ I.runq # <<>> /\ self = Head(I.runq) /\ self \in ToSet(I.runq) /\ self \in Tid
        /\ self \notin ToSet(I.waitq) /\ self \in I.elems /\ I.runq \in Seq(Tid)
        /\ I.status[self] = "RUNNING_REG" /\ IsInjective(I.runq)
    BY <1>1, <2>1, <2>2, HolderFacts DEF Holds, QueueOK
  <2>4. LocOK(I, b)
    BY <1>1, <2>1, <2>2, <2>3 DEF LocOK
  <2>5. StatusOK(I, b)
    BY <2>1, <2>2, <2>3 DEF StatusOK
  <2>6. AwayOK(I, b, None)
    <3>1. \A u \in I.elems : b[u] = "dead" <=> a[u] = "dead"
      BY <2>1, <2>2
    <3>2. QED
      BY <2>2, <3>1 DEF AwayOK
  <2>7. InFront(I.runq, b)
    <3>1. \A u \in ToSet(I.runq) \ {Head(I.runq)} : b[u] = a[u]
      BY <2>1, <2>3, InToSet
    <3>2. a[Head(I.runq)] \in First => b[Head(I.runq)] \in First
      BY <2>1, <2>3 DEF First
    <3>3. QED
      BY <2>2, <2>3, <3>1, <3>2, FrontHead
  <2>8. Good(I, b, None)
    BY <2>1, <2>2, <2>4, <2>5, <2>6, <2>7 DEF Good
  <2>9. QED
    BY <1>1, <2>8 DEF Begun, Holds, SameBut, I
<1>4. QED
  BY <1>2, <1>3

\* A count of waiting regions, or a channel the thread will wait on, may change first.
Noting(S, self, k, c) == [S EXCEPT !.nNonDetWait = k, !.chan[self] = c]

LEMMA Noted ==
  ASSUME NEW S, NEW a, NEW self, Good(S, a, None), Holds(S, self), NEW k \in Int, NEW c \in Channels
  PROVE  LET Z == Noting(S, self, k, c)
         IN  /\ Good(Z, a, None) /\ Holds(Z, self) /\ Z.nNonDetWait = k /\ Z.chan[self] = c
             /\ Z.elems = S.elems /\ Z.waitq = S.waitq /\ Z.runq = S.runq /\ Z.nonDet = S.nonDet
             /\ Z.age = S.age /\ Z.late = S.late /\ Z.wakeTids = S.wakeTids /\ Z.status = S.status
<1> DEFINE n == [S.chan EXCEPT ![self] = c]
           Z == Noting(S, self, k, c)
<1>1. S \in Scheds /\ a \in [Tid -> Places] /\ QueueOK(S) /\ LocOK(S, a) /\ StatusOK(S, a)
      /\ AwayOK(S, a, None) /\ InFront(S.runq, a) /\ S.chan \in [Tid -> Channels] /\ S.waitq \in Seq(Tid)
  BY DEF Good, Scheds
<1>2. self \in Tid /\ self \notin ToSet(S.waitq)
  BY HolderFacts DEF Holds
<1>3. n \in [Tid -> Channels] /\ n[self] = c /\ \A u \in Tid \ {self} : n[u] = S.chan[u]
  BY <1>1, <1>2
<1>4. Z = [S EXCEPT !.nNonDetWait = k, !.chan = n]
  BY <1>1 DEF Scheds, Noting
<1> HIDE DEF n, Z
<1>5. /\ Z \in Scheds /\ Z.elems = S.elems /\ Z.holder = S.holder /\ Z.status = S.status
      /\ Z.waitq = S.waitq /\ Z.runq = S.runq /\ Z.nonDet = S.nonDet /\ Z.nNonDetWait = k
      /\ Z.age = S.age /\ Z.late = S.late /\ Z.wakeTids = S.wakeTids /\ Z.chan = n
  BY <1>1, <1>3, <1>4 DEF Scheds
<1>6. LocOK(Z, a)
  <2>1. \A u \in ToSet(S.waitq) : n[u] = S.chan[u]
    BY <1>1, <1>2, <1>3, InToSet
  <2>2. QED
    BY <1>1, <1>5, <2>1 DEF LocOK
<1>7. Good(Z, a, None) /\ Holds(Z, self)
  BY <1>1, <1>5, <1>6 DEF Good, QueueOK, StatusOK, AwayOK, Holds, HolderOK
<1>8. QED
  BY <1>3, <1>5, <1>7 DEF Z

-----------------------------------------------------------------------------
(* The invariant. *)

Starting(a) == {t \in Tid : a[t] = "start"}
Working == {"put", "wait", "block", "end", "try"}

\* What the thread with the turn has still to do, and where it is then.
TodoOK(S, a, d) ==
  LET h == S.holder
  IN  /\ d \in Working \cup {"none", "scan", "scanEnd"}
      /\ d \in Working \cup {"none"} => HolderOK(S)
      /\ d # "none" => h \in Tid
      /\ d \in Working => h \notin S.wakeTids
      /\ d = "put" => a[h] \in {"app", "started", "idle"}
      /\ d = "wait" => a[h] \in {"start", "join", "idle"} /\ (S.chan[h] = nonDetCV <=> a[h] = "start")
      /\ d = "block" => a[h] \in {"block", "started"}
      /\ d = "end" => a[h] = "app"
      /\ d = "try" => h = Idle /\ a[h] = "idle"

\* The thread in block() is in the set and in the run queue.
Entering(S, d) == IF d = "block" THEN S.holder ELSE None

InvOf(S, a, d) ==
  Good(S, a, Entering(S, d)) /\ TodoOK(S, a, d) /\ S.nNonDetWait = Cardinality(Starting(a))

\* The inductive invariant, and what every step does to it.
Inv == InvOf(sch, at, todo)
Kept == InvOf(sch', at', todo') /\ clockBound' = clockBound

LEMMA InvFacts ==
  ASSUME Inv
  PROVE  /\ Good(sch, at, Entering(sch, todo)) /\ TodoOK(sch, at, todo) /\ sch \in Scheds
         /\ at \in [Tid -> Places] /\ QueueOK(sch) /\ LocOK(sch, at) /\ StatusOK(sch, at)
         /\ AwayOK(sch, at, Entering(sch, todo)) /\ InFront(sch.runq, at)
         /\ sch.nNonDetWait = Cardinality(Starting(at))
         /\ todo # "block" => Good(sch, at, None)
         /\ todo = "block" => Good(sch, at, sch.holder)
         /\ sch.runq \in Seq(Tid) /\ sch.waitq \in Seq(Tid) /\ sch.elems \subseteq Tid
  BY DEF Inv, InvOf, Good, Entering, Scheds

\* A thread that is at no region's start before and after changes nothing there.
LEMMA StartingSame ==
  ASSUME NEW a \in [Tid -> Places], NEW b, NEW t \in Tid, NEW p, p # "start", a[t] # "start",
         b = [a EXCEPT ![t] = p]
  PROVE  Starting(b) = Starting(a)
  BY DEF Starting

LEMMA HasHolds ==
  ASSUME Inv, NEW t \in Tid, Has(t)
  PROVE  Holds(sch, t) /\ Good(sch, at, None) /\ at \in [Tid -> Places]
  BY InvFacts DEF Has, Holds, TodoOK

\* A thread inside the scheduler is at the head and its wakeup() has been seen.
LEMMA WorkFacts ==
  ASSUME Inv, todo \in Working
  PROVE  LET h == sch.holder
         IN  /\ h \in Tid /\ Holds(sch, h) /\ Ready(sch, h)
             /\ IF at[h] = "block" THEN sch.status[h] = "RUNNING_INTER_PRO"
                                   ELSE sch.status[h] = "RUNNING_REG"
<1> DEFINE h == sch.holder
<1>1. /\ HolderOK(sch) /\ h \in Tid /\ h \notin sch.wakeTids
  BY InvFacts DEF TodoOK, Working
<1>2. Holds(sch, h)
  BY <1>1 DEF Holds
<1>3. sch.runq # <<>> /\ h = Head(sch.runq)
      /\ IF at[h] = "block" THEN sch.status[h] = "RUNNING_INTER_PRO"
                            ELSE sch.status[h] = "RUNNING_REG"
  BY <1>2, InvFacts, HolderFacts
<1>4. QED
  BY <1>1, <1>2, <1>3 DEF Ready

-----------------------------------------------------------------------------
(* The first part of the operations. *)

\* A turn that is put, and the end of a thread.
LEMMA StepTurn ==
  ASSUME Inv, NEW t \in Tid, threadBegin(t) \/ Operate(t) \/ Joined(t) \/ End(t) \/ (t = Idle /\ IdleTurn)
  PROVE  Kept
<1>1. /\ Has(t) /\ sch' = incTurnCount(sch) /\ clockBound' = clockBound
      /\ \/ at[t] \in {"begin", "join"} /\ at' = [at EXCEPT ![t] = "app"] /\ todo' = "put"
         \/ at[t] = "app" /\ at' = at /\ todo' \in {"put", "end"}
         \/ t = Idle /\ at' = at /\ todo' \in {"put", "try"}
  BY DEF threadBegin, Operate, Joined, End, IdleTurn, Begin, Go, Same
<1>2. Good(sch, at, None) /\ Holds(sch, t) /\ at \in [Tid -> Places] /\ LocOK(sch, at)
  BY <1>1, HasHolds, InvFacts
<1>3. t = Idle => at[t] = "idle"
  BY <1>2, HolderFacts DEF LocOK
<1>4. Moves(at, at', t) /\ at' \in [Tid -> Places] /\ at'[t] \in {"app", "idle"}
      /\ (todo' = "end" => at'[t] = "app") /\ (todo' = "try" => t = Idle /\ at'[t] = "idle")
      /\ todo' \in {"put", "end", "try"}
  BY <1>1, <1>2, <1>3 DEF Moves, Places
<1>5. Begun(sch, sch', at', t)
  BY <1>1, <1>2, <1>4, Began
<1>6. Starting(at') = Starting(at)
  <2>1. at' = at \/ (at[t] # "start" /\ at' = [at EXCEPT ![t] = "app"])
    BY <1>1
  <2>2. QED
    BY <1>2, <2>1, StartingSame
<1>7. TodoOK(sch', at', todo')
  BY <1>4, <1>5 DEF TodoOK, Begun, Working
<1>8. QED
  BY <1>1, <1>4, <1>5, <1>6, <1>7, InvFacts DEF Kept, InvOf, Entering, Begun

LEMMA StepBlock ==
  ASSUME Inv, NEW t \in Tid, Block(t)
  PROVE  Kept
<1> DEFINE Z == insertIfBound(sch, <<t>>)
<1>1. /\ Has(t) /\ at[t] \in {"block", "started"} /\ sch' = incTurnCount(Z) /\ todo' = "block"
      /\ at' = at /\ clockBound' = clockBound
  BY DEF Block, Begin, Same
<1>2. Good(sch, at, None) /\ Holds(sch, t)
  BY <1>1, HasHolds
<1>3. Good(Z, at, t) /\ Holds(Z, t) /\ SameBut(sch, Z)
  BY <1>1, <1>2, Inserted DEF Entered
<1> HIDE DEF Z
<1>4. /\ Good(sch', at, t) /\ Holds(sch', t) /\ SameBut(Z, sch') /\ sch'.wakeTids = {}
  BY <1>1, <1>3, Incremented
<1>5. TodoOK(sch', at', todo')
  BY <1>1, <1>4 DEF TodoOK, Holds, Working
<1>6. QED
  BY <1>1, <1>3, <1>4, <1>5, InvFacts DEF Kept, InvOf, Entering, Holds, SameBut

\* pthreadCreate.
LEMMA StepCreate ==
  ASSUME Inv, NEW t \in Tid, Create(t)
  PROVE  Kept
<1> DEFINE new == Cardinality(sch.elems)
           Z == create(sch, new)
<1>1. /\ Has(t) /\ at[t] \in {"spawn", "app"} /\ new < NThread
      /\ sch' = incTurnCount(Z) /\ todo' = "put"
      /\ at' = [at EXCEPT ![t] = "app", ![new] = IF new = Idle THEN "idle" ELSE "begin"]
      /\ clockBound' = clockBound
  BY DEF Create, Begin, Same
<1>2. Good(sch, at, None) /\ Holds(sch, t) /\ at \in [Tid -> Places]
  BY <1>1, HasHolds
<1>3. new \in Tid /\ new \notin sch.elems /\ t \in sch.elems
  BY <1>1, <1>2, InvFacts, NewTid, HolderFacts
<1>4. new = Cardinality(sch.elems)
  OBVIOUS
<1> HIDE DEF new
<1>5. /\ at' \in [Tid -> Places] /\ at'[t] = "app" /\ new # t
      /\ at'[new] = (IF new = Idle THEN "idle" ELSE "begin")
      /\ \A u \in Tid \ {t, new} : at'[u] = at[u]
  BY <1>1, <1>2, <1>3 DEF Places
<1>6. /\ Good(Z, at', None) /\ Holds(Z, t) /\ Z.nNonDetWait = sch.nNonDetWait /\ at[new] = "none"
  <2>1. PICK b : b = at'
    OBVIOUS
  <2>2. /\ b \in [Tid -> Places] /\ b[t] = "app" /\ b[new] = (IF new = Idle THEN "idle" ELSE "begin")
        /\ \A u \in Tid \ {t, new} : b[u] = at[u]
    BY <1>5, <2>1
  <2>3. Good(sch, at, None) /\ Holds(sch, t) /\ at[t] \in {"spawn", "app"} /\ new < NThread
    BY <1>1, <1>2
  <2>4. Good(Z, b, None) /\ Holds(Z, t) /\ Z.nNonDetWait = sch.nNonDetWait /\ at[new] = "none"
    BY <1>4, <2>2, <2>3, CreateStep, ZenonT(60)
  <2>5. QED
    BY <2>1, <2>4
<1> HIDE DEF Z
<1>7. Begun(Z, sch', at', t)
  <2>1. Moves(at', at', t)
    BY DEF Moves
  <2>2. QED
    BY <1>1, <1>6, <2>1, Began
<1>8. Starting(at') = Starting(at)
  BY <1>1, <1>5, <1>6 DEF Starting
<1>9. TodoOK(sch', at', todo')
  BY <1>1, <1>5, <1>7 DEF TodoOK, Begun, Working
<1>10. QED
  BY <1>1, <1>6, <1>7, <1>8, <1>9, InvFacts DEF Kept, InvOf, Entering, Begun

LEMMA FiniteStarting ==
  ASSUME NEW a
  PROVE  IsFiniteSet(Starting(a)) /\ Cardinality(Starting(a)) \in Nat
<1>1. IsFiniteSet(Tid)
  BY FS_Interval, Constants DEF Tid
<1>2. IsFiniteSet(Starting(a))
  BY <1>1, FS_Subset DEF Starting
<1>3. QED
  BY <1>2, FS_CardinalityType

\* One more region waits to start, or one fewer.
LEMMA StartingMore ==
  ASSUME NEW a \in [Tid -> Places], NEW t \in Tid, a[t] # "start"
  PROVE  Cardinality(Starting([a EXCEPT ![t] = "start"])) = Cardinality(Starting(a)) + 1
<1>1. Starting([a EXCEPT ![t] = "start"]) = Starting(a) \cup {t} /\ t \notin Starting(a)
  BY DEF Starting
<1>2. Cardinality(Starting(a) \cup {t}) = Cardinality(Starting(a)) + 1
  BY <1>1, FiniteStarting, FS_AddElement
<1>3. QED
  BY <1>1, <1>2

LEMMA StartingFewer ==
  ASSUME NEW a \in [Tid -> Places], NEW t \in Tid, a[t] = "start"
  PROVE  Cardinality(Starting([a EXCEPT ![t] = "started"])) = Cardinality(Starting(a)) - 1
<1>1. Starting([a EXCEPT ![t] = "started"]) = Starting(a) \ {t} /\ t \in Starting(a)
  BY DEF Starting
<1>2. Cardinality(Starting(a) \ {t}) = Cardinality(Starting(a)) - 1
  BY <1>1, FiniteStarting, FS_RemoveElement
<1>3. QED
  BY <1>1, <1>2

LEMMA StepWaitOn ==
  ASSUME Inv, NEW t \in Tid, NonDetStart(t) \/ Join(t)
  PROVE  Kept
<1>1. Has(t) /\ at[t] = "app" /\ clockBound' = clockBound /\ todo' = "wait"
  BY DEF NonDetStart, Join, WaitOn, Begin, Same
<1>2. Good(sch, at, None) /\ Holds(sch, t) /\ at \in [Tid -> Places] /\ sch \in Scheds
  BY <1>1, HasHolds, InvFacts
<1>3. PICK k \in Int, c \in Channels, p \in {"start", "join"} :
        /\ sch' = incTurnCount(Noting(sch, t, k, c))
        /\ at' = [at EXCEPT ![t] = p] /\ (c = nonDetCV <=> p = "start")
        /\ k = Cardinality(Starting(at'))
  <2>1. CASE NonDetStart(t)
    <3>1. sch' = incTurnCount(Noting(sch, t, sch.nNonDetWait + 1, nonDetCV))
          /\ at' = [at EXCEPT ![t] = "start"]
      BY <1>2, <2>1 DEF NonDetStart, WaitOn, Begin, Go, Scheds, Noting
    <3>2. nonDetCV \in Channels /\ sch.nNonDetWait + 1 \in Int
      BY <1>2 DEF Channels, Scheds
    <3>3. sch.nNonDetWait + 1 = Cardinality(Starting(at'))
      BY <1>1, <1>2, <3>1, InvFacts, StartingMore
    <3>4. QED
      BY <3>1, <3>2, <3>3
  <2>2. CASE Join(t)
    <3>1. PICK u \in sch.elems : WaitOn(t, sch, EndOf(u), "join")
      BY <2>2 DEF Join
    <3>2. EndOf(u) \in Channels /\ EndOf(u) # nonDetCV
      BY <1>2, <3>1 DEF Channels, EndOf, nonDetCV, Scheds
    <3>3. [sch EXCEPT !.chan[t] = EndOf(u)] = Noting(sch, t, sch.nNonDetWait, EndOf(u))
      BY <1>2 DEF Scheds, Noting
    <3>4. sch' = incTurnCount(Noting(sch, t, sch.nNonDetWait, EndOf(u)))
          /\ at' = [at EXCEPT ![t] = "join"]
      BY <3>1, <3>3 DEF WaitOn, Begin, Go
    <3>5. sch.nNonDetWait \in Int /\ sch.nNonDetWait = Cardinality(Starting(at'))
      BY <1>1, <1>2, <3>4, InvFacts, StartingSame DEF Scheds
    <3>6. QED
      BY <3>2, <3>4, <3>5
  <2>3. QED
    BY <2>1, <2>2
<1> DEFINE Z == Noting(sch, t, k, c)
<1>4. Good(Z, at, None) /\ Holds(Z, t) /\ Z.nNonDetWait = k /\ Z.chan[t] = c
  BY <1>2, Noted
<1>5. sch' = incTurnCount(Z)
  BY <1>3
<1> HIDE DEF Z
<1>6. Moves(at, at', t) /\ at'[t] = p
  BY <1>1, <1>2, <1>3 DEF Moves, Places
<1>7. Begun(Z, sch', at', t)
  BY <1>4, <1>5, <1>6, Began
<1>8. TodoOK(sch', at', todo')
  BY <1>1, <1>3, <1>4, <1>6, <1>7 DEF TodoOK, Begun, Working
<1>9. QED
  BY <1>1, <1>3, <1>4, <1>7, <1>8 DEF Kept, InvOf, Entering, Begun

LEMMA StepNonDetStarted ==
  ASSUME Inv, NEW t \in Tid, NonDetStarted(t)
  PROVE  Kept
<1> DEFINE k == sch.nNonDetWait - 1
           c == sch.chan[t]
           Z == Noting(sch, t, k, c)
<1>1. /\ Has(t) /\ at[t] = "start" /\ clockBound' = clockBound /\ todo' = "put"
      /\ at' = [at EXCEPT ![t] = "started"]
      /\ sch' = incTurnCount([sch EXCEPT !.nNonDetWait = @ - 1])
  BY DEF NonDetStarted, Begin, Same, Go
<1>2. Good(sch, at, None) /\ Holds(sch, t) /\ at \in [Tid -> Places] /\ sch \in Scheds
  BY <1>1, HasHolds, InvFacts
<1>3. Z = [sch EXCEPT !.nNonDetWait = @ - 1] /\ k \in Int /\ c \in Channels
  <2>1. /\ [sch.chan EXCEPT ![t] = c] = sch.chan /\ k \in Int /\ c \in Channels
    BY <1>2 DEF Scheds
  <2>2. Z = [sch EXCEPT !.nNonDetWait = k, !.chan = [sch.chan EXCEPT ![t] = c]]
    BY <1>2 DEF Scheds, Noting
  <2>3. Z = [sch EXCEPT !.nNonDetWait = k]
    BY <1>2, <2>1, <2>2 DEF Scheds
  <2>4. QED
    BY <1>2, <2>1, <2>3 DEF Scheds
<1>4. k = Cardinality(Starting(at'))
  BY <1>1, <1>2, InvFacts, StartingFewer
<1> HIDE DEF k, c
<1>5. Good(Z, at, None) /\ Holds(Z, t) /\ Z.nNonDetWait = k
  <2>1. k \in Int /\ c \in Channels
    BY <1>3
  <2>2. QED
    BY <1>2, <2>1, Noted
<1>6. sch' = incTurnCount(Z)
  BY <1>1, <1>3
<1> HIDE DEF Z
<1>7. Moves(at, at', t) /\ at'[t] = "started"
  BY <1>1, <1>2 DEF Moves, Places
<1>8. Begun(Z, sch', at', t)
  BY <1>5, <1>6, <1>7, Began
<1>9. TodoOK(sch', at', todo')
  BY <1>1, <1>7, <1>8 DEF TodoOK, Begun, Working
<1>10. QED
  BY <1>1, <1>4, <1>5, <1>8, <1>9 DEF Kept, InvOf, Entering, Begun

-----------------------------------------------------------------------------
(* The rest of the operations. *)

LEMMA ScansKept ==
  ASSUME Inv, NEW b, Scans(sch, sch', b), at' = b, Starting(b) = Starting(at), sch.holder \in Tid,
         todo' \in {"scan", "scanEnd"}, clockBound' = clockBound
  PROVE  Kept
<1>1. TodoOK(sch', at', todo')
  BY DEF TodoOK, Scans, Working
<1>2. QED
  BY <1>1, InvFacts DEF Kept, InvOf, Scans, Entering

LEMMA StepPutTurn ==
  ASSUME Inv, PutTurn
  PROVE  Kept
<1> DEFINE h == sch.holder
<1>1. todo = "put" /\ sch' = putTurn(sch, h) /\ todo' = "scan" /\ at' = at /\ clockBound' = clockBound
  BY DEF PutTurn, Rest, Same
<1>2. h \in Tid /\ Ready(sch, h) /\ at[h] \in {"app", "started", "idle"}
      /\ sch.status[h] = "RUNNING_REG" /\ Good(sch, at, None)
  BY <1>1, WorkFacts, InvFacts DEF Working, TodoOK
<1>3. Scans(sch, sch', at)
  BY <1>1, <1>2, TurnPut
<1>4. QED
  BY <1>1, <1>2, <1>3, ScansKept

LEMMA StepWait ==
  ASSUME Inv, Wait
  PROVE  Kept
<1> DEFINE h == sch.holder
           W == Waiting(sch, h)
<1>1. todo = "wait" /\ sch' = next(W, h) /\ todo' = "scan" /\ at' = at /\ clockBound' = clockBound
  BY DEF Wait, Rest, Same, Waiting
<1>2. h \in Tid /\ Ready(sch, h) /\ at[h] \in {"start", "join", "idle"}
      /\ (sch.chan[h] = nonDetCV <=> at[h] = "start")
      /\ sch.status[h] = "RUNNING_REG" /\ Good(sch, at, None)
  BY <1>1, WorkFacts, InvFacts DEF Working, TodoOK
<1>3. /\ Good(Gone(W, h), at, None) /\ W \in Scheds /\ W.status = sch.status
      /\ W.holder = sch.holder /\ W.nNonDetWait = sch.nNonDetWait
  BY <1>2, LeaveWait
<1> HIDE DEF W
<1>4. Scans(W, sch', at)
  BY <1>1, <1>2, <1>3, NextStep
<1>5. Scans(sch, sch', at)
  BY <1>3, <1>4 DEF Scans
<1>6. QED
  BY <1>1, <1>2, <1>5, ScansKept

LEMMA StepLeave ==
  ASSUME Inv, Leave
  PROVE  Kept
<1> DEFINE h == sch.holder
           p == IF at[h] = "block" THEN "sys" ELSE "region"
<1>1. todo = "block" /\ sch' = next(sch, h) /\ todo' = "scan" /\ at' = [at EXCEPT ![h] = p]
      /\ clockBound' = clockBound
  BY DEF Leave, Rest, Same, Go
<1>2. /\ h \in Tid /\ Ready(sch, h) /\ at[h] \in {"block", "started"} /\ Good(sch, at, h)
      /\ sch \in Scheds /\ at \in [Tid -> Places]
      /\ IF at[h] = "block" THEN sch.status[h] = "RUNNING_INTER_PRO"
                            ELSE sch.status[h] = "RUNNING_REG"
  BY <1>1, WorkFacts, InvFacts DEF Working, TodoOK
<1>3. Good(Gone(sch, h), at', None)
  BY <1>1, <1>2, LeaveBlock
<1>4. Scans(sch, sch', at')
  BY <1>1, <1>2, <1>3, NextStep
<1>5. Starting(at') = Starting(at)
  <2>1. p # "start" /\ at[h] # "start"
    BY <1>2
  <2> HIDE DEF p
  <2>2. QED
    BY <1>1, <1>2, <2>1, StartingSame
<1>6. QED
  BY <1>1, <1>2, <1>4, <1>5, ScansKept

\* The end of a thread, up to the loop.
Ended(S, a, self) ==
  LET T == {t \in ToSet(S.waitq) : S.chan[t] = EndOf(self)}
      U == unwait(S, T)
      C == countLate(U)
      B == checkNonDetBound(C)
  IN  /\ putTurnAtEnd(S, self) = next(B, self)
      /\ T \in SUBSET ToSet(S.waitq) /\ (\A t \in T : a[t] # "start")
      /\ InFront(S.runq \o Only(S.waitq, T), a)
      /\ Good(U, a, None) /\ SameBut(S, U) /\ U.runq = S.runq \o Only(S.waitq, T)
      /\ U.waitq = Except(S.waitq, T)
      /\ Good(C, a, None) /\ SameBut(U, C) /\ Good(B, a, None) /\ SameBut(C, B)
      /\ Ready(U, self) /\ Ready(C, self) /\ Ready(B, self)

LEMMA Ending ==
  ASSUME NEW S, NEW a, NEW self, Good(S, a, None), Ready(S, self)
  PROVE  Ended(S, a, self)
<1> DEFINE T == {t \in ToSet(S.waitq) : S.chan[t] = EndOf(self)}
           q == Only(S.waitq, T)
           U == unwait(S, T)
           C == countLate(U)
           B == checkNonDetBound(C)
<1>1. putTurnAtEnd(S, self) = next(B, self)
  BY DEF putTurnAtEnd, signal
<1>2. S.runq \in Seq(Tid) /\ S.waitq \in Seq(Tid) /\ LocOK(S, a) /\ InFront(S.runq, a)
      /\ S.runq # <<>> /\ self = Head(S.runq) /\ self \notin S.wakeTids
  BY DEF Good, Scheds, Ready
<1>3. T \in SUBSET ToSet(S.waitq) /\ \A t \in T : a[t] # "start"
  <2>1. EndOf(self) # nonDetCV
    BY DEF EndOf, nonDetCV
  <2>2. \A t \in ToSet(S.waitq) : t \in Tid /\ (S.chan[t] = nonDetCV <=> a[t] = "start")
    BY <1>2, InToSet DEF LocOK
  <2>3. QED
    BY <2>1, <2>2
<1> HIDE DEF T
<1>4. q \in Seq(Tid) /\ ToSet(q) \subseteq T
  BY <1>2, OnlyProps
<1>5. InFront(S.runq \o q, a)
  <2> HIDE DEF q
  <2>1. QED
    BY <1>2, <1>3, <1>4, FrontBehind
<1>6. /\ Good(U, a, None) /\ SameBut(S, U) /\ U.wakeTids = S.wakeTids
      /\ U.runq = S.runq \o q /\ U.waitq = Except(S.waitq, T)
  <2>1. Unwaited(S, a, T, unwait(S, T))
    BY <1>3, <1>5, Unwait
  <2>2. U = unwait(S, T)
    OBVIOUS
  <2> HIDE DEF U
  <2>3. QED
    BY <2>1, <2>2, Zenon DEF Unwaited
<1> HIDE DEF U
<1>7. Ready(U, self)
  <2> HIDE DEF q
  <2>1. U.runq # <<>> /\ Head(U.runq) = Head(S.runq)
    BY <1>2, <1>4, <1>6, Behind
  <2>2. QED
    BY <1>2, <1>6, <2>1 DEF Ready
<1>8. /\ Good(C, a, None) /\ SameBut(U, C) /\ C.wakeTids = U.wakeTids /\ C.runq = U.runq
  BY <1>6, CountLate
<1>9. Ready(C, self)
  BY <1>7, <1>8 DEF Ready
<1> HIDE DEF C
<1>10. /\ Good(B, a, None) /\ SameBut(C, B) /\ B.wakeTids = C.wakeTids
       /\ B.runq = C.runq \/ (Head(C.nonDet) \in Tid /\ B.runq = C.runq \o <<Head(C.nonDet)>>)
  BY <1>8, CheckNonDetBound
<1> HIDE DEF B
<1>11. Ready(B, self)
  <2>1. CASE B.runq = C.runq
    BY <1>9, <1>10, <2>1 DEF Ready
  <2>2. CASE Head(C.nonDet) \in Tid /\ B.runq = C.runq \o <<Head(C.nonDet)>>
    <3>1. <<Head(C.nonDet)>> \in Seq(Tid) /\ C.runq \in Seq(Tid) /\ C.runq # <<>>
      BY <1>8, <1>9, <2>2, SMTT(60) DEF Good, Scheds, Ready
    <3>2. B.runq # <<>> /\ Head(B.runq) = Head(C.runq)
      BY <2>2, <3>1, Behind
    <3>3. QED
      BY <1>9, <1>10, <3>2 DEF Ready
  <2>3. QED
    BY <1>10, <2>1, <2>2
<1>12. QED
  BY <1>1, <1>3, <1>5, <1>6, <1>7, <1>8, <1>9, <1>10, <1>11, Zenon DEF Ended, B, C, U, q, T

LEMMA StepPutTurnAtEnd ==
  ASSUME Inv, PutTurnAtEnd
  PROVE  Kept
<1> DEFINE h == sch.holder
           T == {t \in ToSet(sch.waitq) : sch.chan[t] = EndOf(h)}
           U == unwait(sch, T)
           C == countLate(U)
           B == checkNonDetBound(C)
<1>1. todo = "end" /\ sch' = putTurnAtEnd(sch, h) /\ todo' = "scanEnd"
      /\ at' = [at EXCEPT ![h] = "dead"] /\ clockBound' = clockBound
  BY DEF PutTurnAtEnd, Rest, Same, Go
<1>2. /\ h \in Tid /\ Ready(sch, h) /\ at[h] = "app" /\ Good(sch, at, None)
      /\ at \in [Tid -> Places] /\ sch.status[h] = "RUNNING_REG"
  BY <1>1, WorkFacts, InvFacts DEF Working, TodoOK
<1>3. Ended(sch, at, h)
  BY <1>2, Ending
<1>4. /\ putTurnAtEnd(sch, h) = next(B, h) /\ SameBut(sch, U) /\ SameBut(U, C) /\ SameBut(C, B)
      /\ Good(B, at, None) /\ Ready(B, h)
  BY <1>3, Zenon DEF Ended
<1> HIDE DEF B, C, U, h
<1>5. /\ B.status[h] = "RUNNING_REG" /\ B.holder = sch.holder
      /\ B.nNonDetWait = sch.nNonDetWait /\ B \in Scheds
  BY <1>2, <1>4 DEF SameBut, Good
<1>6. Good(Gone(B, h), at', None)
  BY <1>1, <1>2, <1>4, <1>5, LeaveEnd
<1>7. Scans(B, sch', at')
  BY <1>1, <1>2, <1>4, <1>5, <1>6, NextStep
<1>8. Starting(at') = Starting(at)
  BY <1>1, <1>2, StartingSame
<1>9. QED
  BY <1>1, <1>2, <1>5, <1>7, <1>8, ScansKept DEF Scans, h

\* The idle thread keeps the first runnable thread from stopping.
LEMMA Reserve ==
  ASSUME NEW S, NEW a, Good(S, a, None), Ready(S, Idle), ready(S) # {}
  PROVE  LET v == S.runq[Min(ready(S))]
         IN  v \in Tid /\ v \in ToSet(S.runq) /\ v # Idle /\ S.status[v] = "RUNNABLE"
<1> DEFINE m == Min(ready(S))
           v == S.runq[m]
<1>1. /\ S.runq \in Seq(Tid) /\ IsInjective(S.runq) /\ S.runq # <<>> /\ Idle = Head(S.runq)
  BY DEF Good, Scheds, QueueOK, Ready
<1>2. ready(S) \in SUBSET Nat
  BY <1>1 DEF ready
<1>3. m \in ready(S)
  BY <1>2, MinProps
<1> HIDE DEF m
<1>4. m \in 1 .. Len(S.runq) /\ m # 1 /\ S.status[v] = "RUNNABLE"
  BY <1>1, <1>3 DEF ready
<1>5. v \in Tid /\ v \in ToSet(S.runq)
  BY <1>1, <1>4, InToSet
<1>6. Idle = S.runq[1] /\ 1 \in 1 .. Len(S.runq)
  BY <1>1
<1>7. v # Idle
  BY <1>1, <1>4, <1>6 DEF IsInjective
<1>8. QED
  BY <1>4, <1>5, <1>7 DEF m

LEMMA StepTryPutTurn ==
  ASSUME Inv, TryPutTurn
  PROVE  Kept
<1>1. /\ todo = "try" /\ at' = at /\ clockBound' = clockBound
      /\ \/ todo' = "put" /\ sch' = sch
         \/ /\ ready(sch) # {} /\ todo' = "wait"
            /\ sch' = [sch EXCEPT !.status[sch.runq[Min(ready(sch))]] = "RUNNING_REG",
                                  !.chan[Idle] = idle_cond]
  BY DEF TryPutTurn, Rest, Same
<1>2. /\ sch.holder = Idle /\ Idle \in Tid /\ Holds(sch, Idle) /\ Ready(sch, Idle) /\ at[Idle] = "idle"
      /\ sch.status[Idle] = "RUNNING_REG" /\ Good(sch, at, None)
  BY <1>1, WorkFacts, InvFacts DEF Working, TodoOK
<1>3. CASE todo' = "put" /\ sch' = sch
  <2>1. TodoOK(sch', at', todo')
    BY <1>1, <1>2, <1>3 DEF TodoOK, Working, Holds, Ready
  <2>2. QED
    BY <1>1, <1>2, <1>3, <2>1, InvFacts DEF Kept, InvOf, Entering
<1>4. CASE /\ ready(sch) # {} /\ todo' = "wait"
           /\ sch' = [sch EXCEPT !.status[sch.runq[Min(ready(sch))]] = "RUNNING_REG",
                                 !.chan[Idle] = idle_cond]
  <2> DEFINE v == sch.runq[Min(ready(sch))]
             z == [sch.status EXCEPT ![v] = "RUNNING_REG"]
             n == [sch.chan EXCEPT ![Idle] = idle_cond]
  <2>1. /\ v \in Tid /\ v \in ToSet(sch.runq) /\ v # Idle /\ sch.status[v] = "RUNNABLE"
    BY <1>2, <1>4, Reserve
  <2>2. /\ sch \in Scheds /\ at \in [Tid -> Places] /\ QueueOK(sch) /\ LocOK(sch, at) /\ StatusOK(sch, at)
        /\ AwayOK(sch, at, None) /\ InFront(sch.runq, at) /\ sch.waitq \in Seq(Tid)
    BY <1>2, InvFacts DEF Good
  <2>3. sch' = [sch EXCEPT !.status = z, !.chan = n]
    BY <1>4, <2>2 DEF Scheds
  <2> HIDE DEF v
  <2>4. z \in [Tid -> Statuses] /\ z[v] = "RUNNING_REG" /\ \A u \in Tid \ {v} : z[u] = sch.status[u]
    BY <2>1, <2>2 DEF Scheds, Statuses
  <2>5. /\ n \in [Tid -> Channels] /\ n[Idle] = idle_cond /\ \A u \in Tid \ {Idle} : n[u] = sch.chan[u]
        /\ idle_cond # nonDetCV
    BY <1>2, <2>2 DEF Scheds, Channels, idle_cond, nonDetCV
  <2> HIDE DEF z, n
  <2>6. /\ sch' \in Scheds /\ sch'.status = z /\ sch'.elems = sch.elems /\ sch'.runq = sch.runq
        /\ sch'.waitq = sch.waitq /\ sch'.chan = n /\ sch'.wakeTids = sch.wakeTids
        /\ sch'.nonDet = sch.nonDet /\ sch'.nNonDetWait = sch.nNonDetWait /\ sch'.holder = sch.holder
    BY <2>2, <2>3, <2>4, <2>5 DEF Scheds
  <2>7. QueueOK(sch') /\ AwayOK(sch', at, None)
    BY <2>2, <2>6 DEF QueueOK, AwayOK
  <2>8. LocOK(sch', at)
    <3>1. Idle \notin ToSet(sch.waitq)
      BY <1>2, HolderFacts
    <3>2. \A u \in ToSet(sch.waitq) : n[u] = sch.chan[u]
      BY <2>2, <2>5, <3>1, InToSet
    <3>3. QED
      BY <2>2, <2>6, <3>2 DEF LocOK
  <2>9. StatusOK(sch', at)
    BY <2>1, <2>2, <2>4, <2>6 DEF StatusOK
  <2>10. Good(sch', at, None)
    BY <2>2, <2>6, <2>7, <2>8, <2>9 DEF Good
  <2>11. TodoOK(sch', at', todo')
    BY <1>1, <1>2, <1>4, <2>1, <2>4, <2>5, <2>6 DEF TodoOK, Working, Holds, HolderOK, Ready
  <2>12. QED
    BY <1>1, <1>4, <2>6, <2>10, <2>11, InvFacts DEF Kept, InvOf, Entering
<1>5. QED
  BY <1>1, <1>3, <1>4

LEMMA StepLastReturns ==
  ASSUME Inv, LastReturns
  PROVE  Kept
<1>1. /\ todo \in {"scan", "scanEnd"} /\ sch' = [sch EXCEPT !.holder = None] /\ todo' = "none"
      /\ at' = at /\ clockBound' = clockBound
  BY DEF LastReturns, Scanning, Same
<1>2. /\ sch \in Scheds /\ at \in [Tid -> Places] /\ QueueOK(sch) /\ LocOK(sch, at) /\ StatusOK(sch, at)
      /\ AwayOK(sch, at, None) /\ InFront(sch.runq, at)
  BY <1>1, InvFacts DEF Good
<1>3. /\ sch' \in Scheds /\ sch'.status = sch.status /\ sch'.elems = sch.elems /\ sch'.runq = sch.runq
      /\ sch'.waitq = sch.waitq /\ sch'.chan = sch.chan /\ sch'.wakeTids = sch.wakeTids
      /\ sch'.nonDet = sch.nonDet /\ sch'.nNonDetWait = sch.nNonDetWait /\ sch'.holder = None
  BY <1>1, <1>2 DEF Scheds
<1>4. Good(sch', at', None)
  BY <1>1, <1>2, <1>3 DEF Good, QueueOK, LocOK, StatusOK, AwayOK
<1>5. TodoOK(sch', at', todo')
  BY <1>1, <1>3 DEF TodoOK, HolderOK, Working
<1>6. QED
  BY <1>1, <1>3, <1>4, <1>5, InvFacts DEF Kept, InvOf, Entering

\* A round of the loop, after whoever is to be woken has been.
Looked(S, self) == IF S.runq = <<>> THEN wakeUpIdleThread(S) ELSE wakeNonDet(S, self)

LEMMA Looks ==
  ASSUME NEW S, NEW a, NEW self, Good(S, a, None)
  PROVE  LET W == Looked(S, self) IN Good(W, a, None) /\ SameBut(S, W) /\ W.runq # <<>>
<1> DEFINE W == Looked(S, self)
<1>1. CASE S.runq = <<>>
  <2>1. W = wakeUpIdleThread(S)
    BY <1>1 DEF Looked
  <2> HIDE DEF W
  <2>2. QED
    BY <1>1, <2>1, WakeUpIdleThread DEF W
<1>2. CASE S.runq # <<>>
  <2>1. W = wakeNonDet(S, self)
    BY <1>2 DEF Looked
  <2> HIDE DEF W
  <2>2. RegionsWoken(S, a, self, W)
    BY <1>2, <2>1, WakeNonDet
  <2>3. QED
    BY <2>2, Zenon DEF RegionsWoken, W
<1>3. QED
  BY <1>1, <1>2

LEMMA StepNextRunnable ==
  ASSUME Inv, nextRunnable
  PROVE  Kept
<1> DEFINE W == Looked(sch, sch.holder)
<1>1. /\ todo \in {"scan", "scanEnd"} /\ at' = at /\ clockBound' = clockBound
      /\ \/ /\ W.runq # <<>> /\ W.status[Head(W.runq)] = "INTER_PRO_STOP"
            /\ sch' = popStopped(W) /\ todo' = todo
         \/ /\ W.runq # <<>> => W.status[Head(W.runq)] # "INTER_PRO_STOP"
            /\ sch' = giveTurn(W) /\ todo' = "none"
  BY Zenon DEF nextRunnable, Scanning, Same, Looked
<1>2. Good(sch, at, None) /\ sch.holder \in Tid
  BY <1>1, InvFacts DEF TodoOK
<1>3. Good(W, at, None) /\ SameBut(sch, W) /\ W.runq # <<>>
  BY <1>2, Looks
<1> HIDE DEF W
<1>4. CASE W.status[Head(W.runq)] = "INTER_PRO_STOP"
  <2>1. sch' = popStopped(W) /\ todo' = todo
    BY <1>1, <1>3, <1>4
  <2>2. Popped(W, sch', at)
    BY <1>3, <1>4, <2>1, PopStopped
  <2>3. Good(sch', at, None) /\ SameBut(W, sch')
    BY <2>2, Zenon DEF Popped
  <2>4. Scans(sch, sch', at)
    BY <1>3, <2>3 DEF Scans, SameBut
  <2>5. QED
    BY <1>1, <1>2, <2>1, <2>4, ScansKept
<1>5. CASE W.status[Head(W.runq)] # "INTER_PRO_STOP"
  <2>1. sch' = giveTurn(W) /\ todo' = "none"
    BY <1>1, <1>3, <1>5
  <2>2. Good(sch', at, None) /\ HolderOK(sch') /\ sch'.nNonDetWait = W.nNonDetWait
    BY <1>3, <1>5, <2>1, GiveTurn
  <2>3. TodoOK(sch', at', todo')
    BY <2>1, <2>2 DEF TodoOK, Working
  <2>4. QED
    BY <1>1, <1>3, <2>1, <2>2, <2>3, InvFacts DEF Kept, InvOf, Entering, SameBut
<1>6. QED
  BY <1>4, <1>5

-----------------------------------------------------------------------------
(* Steps without the turn. *)

LEMMA TodoSame ==
  ASSUME NEW S, NEW a, NEW d, NEW S2, NEW b, TodoOK(S, a, d), S2.holder = S.holder, S2.chan = S.chan,
         d # "none" => b[S.holder] = a[S.holder] /\ (S.holder \in S2.wakeTids => S.holder \in S.wakeTids),
         HolderOK(S) => HolderOK(S2)
  PROVE  TodoOK(S2, b, d)
<1>1. CASE d = "none"
  BY <1>1 DEF TodoOK, Working
<1>2. CASE d # "none"
  <2>1. d \in Working \cup {"none", "scan", "scanEnd"} /\ S2.holder \in Tid
    BY <1>2 DEF TodoOK
  <2>2. d \in Working => S2.holder \notin S2.wakeTids
    BY <1>2 DEF TodoOK
  <2>3. d \in Working \cup {"none"} => HolderOK(S2)
    BY DEF TodoOK
  <2>4. /\ d = "put" => b[S2.holder] \in {"app", "started", "idle"}
        /\ d = "wait" => /\ b[S2.holder] \in {"start", "join", "idle"}
                         /\ S2.chan[S2.holder] = nonDetCV <=> b[S2.holder] = "start"
        /\ d = "block" => b[S2.holder] \in {"block", "started"}
        /\ d = "end" => b[S2.holder] = "app"
        /\ d = "try" => S2.holder = Idle /\ b[S2.holder] = "idle"
    BY <1>2 DEF TodoOK
  <2>5. QED
    BY <2>1, <2>2, <2>3, <2>4 DEF TodoOK
<1>3. QED
  BY <1>1, <1>2

\* Such a step changes the status or the place of t, or adds t to wakeTids; t is not in
\* the scheduler.
LEMMA OutsideKept ==
  ASSUME Inv, NEW t \in Tid, Outside(t), NEW p, NEW b, b = [at EXCEPT ![t] = p], b \in [Tid -> Places],
         at' = b, p \notin First, at[t] \notin First, at[t] # "dead", p # "dead",
         sch' \in Scheds, sch'.elems = sch.elems, sch'.runq = sch.runq, sch'.waitq = sch.waitq,
         sch'.holder = sch.holder, sch'.chan = sch.chan, sch'.nonDet = sch.nonDet,
         sch'.nNonDetWait = sch.nNonDetWait, sch'.wakeTids \subseteq sch.wakeTids \cup {t},
         \A u \in Tid \ {t} : sch'.status[u] = sch.status[u],
         sch.status[t] \in {"RUNNING_REG", "RUNNING_INTER_PRO"} =>
           sch'.status[t] \in {"RUNNING_REG", "RUNNING_INTER_PRO"},
         QueueOK(sch'), LocOK(sch', b), StatusOK(sch', b), todo' = todo, clockBound' = clockBound
  PROVE  Kept
<1>1. /\ at \in [Tid -> Places] /\ AwayOK(sch, at, Entering(sch, todo)) /\ TodoOK(sch, at, todo)
      /\ InFront(sch.runq, at) /\ sch.runq \in Seq(Tid) /\ sch.elems \subseteq Tid
      /\ sch.nNonDetWait = Cardinality(Starting(at))
  BY InvFacts
<1>2. b[t] = p /\ \A u \in Tid \ {t} : b[u] = at[u]
  BY <1>1
<1>3. Entering(sch', todo') = Entering(sch, todo)
  BY DEF Entering
<1>4. AwayOK(sch', b, Entering(sch, todo))
  <2>1. \A u \in sch.elems : b[u] = "dead" <=> at[u] = "dead"
    BY <1>1, <1>2
  <2>2. QED
    BY <1>1, <2>1 DEF AwayOK
<1>5. InFront(sch'.runq, b)
  <2>1. \A u \in ToSet(sch.runq) : (b[u] = "start" => at[u] = "start") /\ (at[u] \in First => b[u] \in First)
    <3>1. p # "start"
      BY DEF First
    <3>2. QED
      BY <1>1, <1>2, <3>1, InToSet
  <2>2. QED
    BY <1>1, <2>1, FrontPlaces, ZenonT(60)
<1>6. Good(sch', b, Entering(sch', todo'))
  BY <1>3, <1>4, <1>5 DEF Good
<1>7. TodoOK(sch', b, todo')
  <2> DEFINE h == sch.holder
  <2>1. todo # "none" => h # t /\ h \in Tid
    BY <1>1 DEF Outside, TodoOK
  <2>2. todo # "none" => b[h] = at[h] /\ (h \in sch'.wakeTids => h \in sch.wakeTids)
    BY <1>2, <2>1
  <2>3. HolderOK(sch) => HolderOK(sch')
    BY DEF HolderOK, Scheds
  <2>4. QED
    BY <1>1, <2>2, <2>3, TodoSame
<1>8. Starting(b) = Starting(at)
  BY <1>1, StartingSame DEF First
<1>9. QED
  BY <1>1, <1>6, <1>7, <1>8 DEF Kept, InvOf

LEMMA StepInterProStart ==
  ASSUME Inv, NEW t \in Tid, InterProStart(t)
  PROVE  Kept
<1> DEFINE y == IF sch.status[t] = "RUNNABLE" THEN "INTER_PRO_STOP" ELSE "RUNNING_INTER_PRO"
           p == IF sch.status[t] = "RUNNABLE" THEN "sys" ELSE "block"
           z == [sch.status EXCEPT ![t] = y]
<1>1. /\ sch \in Scheds /\ at \in [Tid -> Places] /\ at[t] = "app" /\ clockBound' = clockBound
      /\ QueueOK(sch) /\ LocOK(sch, at) /\ StatusOK(sch, at) /\ Outside(t) /\ todo' = todo
  BY InvFacts DEF InterProStart, Same
<1>3. sch.status[t] \in {"RUNNABLE", "RUNNING_REG"}
  BY <1>1 DEF Scheds, StatusOK, Statuses
<1>4. sch' = [sch EXCEPT !.status = z] /\ at' = [at EXCEPT ![t] = p]
  BY <1>1, <1>3 DEF InterProStart, Go, Scheds
<1>5. z \in [Tid -> Statuses] /\ z[t] = y /\ \A u \in Tid \ {t} : z[u] = sch.status[u]
  BY <1>1 DEF Scheds, Statuses
<1>6. at' \in [Tid -> Places] /\ at'[t] = p /\ \A u \in Tid \ {t} : at'[u] = at[u]
  BY <1>1, <1>4 DEF Places
<1> HIDE DEF z
<1>7. /\ sch' \in Scheds /\ sch'.elems = sch.elems /\ sch'.runq = sch.runq /\ sch'.waitq = sch.waitq
      /\ sch'.holder = sch.holder /\ sch'.status = z /\ sch'.chan = sch.chan
      /\ sch'.wakeTids = sch.wakeTids /\ sch'.nonDet = sch.nonDet
      /\ sch'.nNonDetWait = sch.nNonDetWait
  BY <1>1, <1>4, <1>5 DEF Scheds
<1>8. QueueOK(sch')
  BY <1>1, <1>7 DEF QueueOK
<1>9. LocOK(sch', at')
  <2>1. p = "block" => t \in ToSet(sch.runq)
    BY <1>1, <1>3 DEF StatusOK
  <2>2. QED
    BY <1>1, <1>6, <1>7, <2>1 DEF LocOK
<1>10. StatusOK(sch', at')
  BY <1>1, <1>3, <1>5, <1>6, <1>7 DEF StatusOK
<1>11. /\ p \notin First /\ at[t] \notin First /\ p # "dead" /\ at[t] # "dead"
       /\ sch'.wakeTids \subseteq sch.wakeTids \cup {t} /\ \A u \in Tid \ {t} : sch'.status[u] = sch.status[u]
       /\ sch.status[t] \in {"RUNNING_REG", "RUNNING_INTER_PRO"} =>
            sch'.status[t] \in {"RUNNING_REG", "RUNNING_INTER_PRO"}
  BY <1>1, <1>3, <1>5, <1>7 DEF First
<1>12. PICK b : b = at'
  OBVIOUS
<1> HIDE DEF p
<1>13. QED
  BY <1>1, <1>4, <1>6, <1>7, <1>8, <1>9, <1>10, <1>11, <1>12, OutsideKept

LEMMA StepInterProEnd ==
  ASSUME Inv, NEW t \in Tid, InterProEnd(t)
  PROVE  Kept
<1> DEFINE z == [sch.status EXCEPT ![t] = "RUNNABLE"]
<1>1. /\ sch \in Scheds /\ at \in [Tid -> Places] /\ at[t] = "sys" /\ clockBound' = clockBound
      /\ QueueOK(sch) /\ LocOK(sch, at) /\ StatusOK(sch, at) /\ Outside(t) /\ todo' = todo
  BY InvFacts DEF InterProEnd, Same
<1>2. sch.status[t] = "INTER_PRO_STOP"
  BY <1>1 DEF StatusOK
<1>3. sch' = [sch EXCEPT !.status = z] /\ at' = [at EXCEPT ![t] = "wakeup"]
  BY <1>1, <1>2 DEF InterProEnd, Go, Scheds
<1>4. z \in [Tid -> Statuses] /\ z[t] = "RUNNABLE" /\ \A u \in Tid \ {t} : z[u] = sch.status[u]
  BY <1>1 DEF Scheds, Statuses
<1>5. at' \in [Tid -> Places] /\ at'[t] = "wakeup" /\ \A u \in Tid \ {t} : at'[u] = at[u]
  BY <1>1, <1>3 DEF Places
<1> HIDE DEF z
<1>6. /\ sch' \in Scheds /\ sch'.elems = sch.elems /\ sch'.runq = sch.runq /\ sch'.waitq = sch.waitq
      /\ sch'.holder = sch.holder /\ sch'.status = z /\ sch'.chan = sch.chan
      /\ sch'.wakeTids = sch.wakeTids /\ sch'.nonDet = sch.nonDet
      /\ sch'.nNonDetWait = sch.nNonDetWait
  BY <1>1, <1>3, <1>4 DEF Scheds
<1>7. QueueOK(sch')
  BY <1>1, <1>6 DEF QueueOK
<1>8. LocOK(sch', at')
  BY <1>1, <1>5, <1>6 DEF LocOK
<1>9. StatusOK(sch', at')
  BY <1>1, <1>2, <1>4, <1>5, <1>6 DEF StatusOK
<1>10. /\ "wakeup" \notin First /\ at[t] \notin First /\ at[t] # "dead"
       /\ sch'.wakeTids \subseteq sch.wakeTids \cup {t} /\ \A u \in Tid \ {t} : sch'.status[u] = sch.status[u]
       /\ sch.status[t] \notin {"RUNNING_REG", "RUNNING_INTER_PRO"}
  BY <1>1, <1>2, <1>4, <1>6 DEF First
<1>11. PICK b : b = at'
  OBVIOUS
<1>12. QED
  BY <1>1, <1>3, <1>5, <1>6, <1>7, <1>8, <1>9, <1>10, <1>11, OutsideKept

\* wakeup(), and the end of a region.
LEMMA StepWakeup ==
  ASSUME Inv, NEW t \in Tid, Wakeup(t) \/ NonDetEnd(t)
  PROVE  Kept
<1>1. /\ sch \in Scheds /\ at \in [Tid -> Places] /\ at[t] \in {"wakeup", "region"}
      /\ clockBound' = clockBound
      /\ QueueOK(sch) /\ LocOK(sch, at) /\ StatusOK(sch, at) /\ Outside(t) /\ todo' = todo
  BY InvFacts DEF Wakeup, NonDetEnd, Same
<1>2. sch' = [sch EXCEPT !.wakeTids = @ \cup {t}] /\ at' = [at EXCEPT ![t] = "app"]
  BY DEF Wakeup, NonDetEnd, Go
<1>3. at' \in [Tid -> Places] /\ at'[t] = "app" /\ \A u \in Tid \ {t} : at'[u] = at[u]
  BY <1>1, <1>2 DEF Places
<1>4. t \in sch.elems
  BY <1>1 DEF LocOK
<1>5. /\ sch' \in Scheds /\ sch'.elems = sch.elems /\ sch'.runq = sch.runq /\ sch'.waitq = sch.waitq
      /\ sch'.holder = sch.holder /\ sch'.status = sch.status /\ sch'.chan = sch.chan
      /\ sch'.wakeTids = sch.wakeTids \cup {t} /\ sch'.nonDet = sch.nonDet
      /\ sch'.nNonDetWait = sch.nNonDetWait
  BY <1>1, <1>2 DEF Scheds
<1>6. QueueOK(sch')
  BY <1>1, <1>4, <1>5 DEF QueueOK
<1>7. LocOK(sch', at')
  BY <1>1, <1>3, <1>5 DEF LocOK
<1>8. StatusOK(sch', at')
  BY <1>1, <1>3, <1>5 DEF StatusOK
<1>9. "app" \notin First /\ at[t] \notin First /\ at[t] # "dead"
  BY <1>1 DEF First
<1>10. PICK b : b = at'
  OBVIOUS
<1>11. QED
  BY <1>1, <1>2, <1>3, <1>5, <1>6, <1>7, <1>8, <1>9, <1>10, OutsideKept

-----------------------------------------------------------------------------
(* The theorems. *)

LEMMA InitInv == Init => Inv
<1> SUFFICES ASSUME Init PROVE Inv
  OBVIOUS
<1> DEFINE e == <<>>
           o == <<Main>>
<1>1. /\ sch.elems = {Main} /\ sch.runq = o /\ sch.waitq = e /\ sch.holder = Main
      /\ sch.status = [t \in Tid |-> IF t = Main THEN "RUNNING_REG" ELSE "RUNNABLE"]
      /\ sch.wakeTids = {} /\ sch.nonDet = e /\ sch.nNonDetWait = 0
      /\ at = [t \in Tid |-> IF t = Main THEN "spawn" ELSE "none"] /\ todo = "none"
  BY DEF Init
<1>2. /\ e \in Seq(Tid) /\ IsInjective(e) /\ ToSet(e) = {}
      /\ o \in Seq(Tid) /\ IsInjective(o) /\ ToSet(o) = {Main} /\ o # <<>> /\ Head(o) = Main
  BY Constants DEF IsInjective, ToSet
<1>3. sch \in Scheds
  <2>1. 0 \in 0 .. TwoRounds + 1 /\ -1 \in -1 .. MaxAge
    BY Constants
  <2>2. None \in Channels
    BY DEF Channels
  <2>3. sch = [elems |-> {Main}, runq |-> o, waitq |-> e, holder |-> Main,
               status |-> [t \in Tid |-> IF t = Main THEN "RUNNING_REG" ELSE "RUNNABLE"],
               chan |-> [t \in Tid |-> None], wakeTids |-> {}, nonDet |-> e,
               age |-> [t \in Tid |-> -1], late |-> [t \in Tid |-> 0], nNonDetWait |-> 0, bad |-> None]
    BY DEF Init
  <2> HIDE DEF e, o
  <2>4. QED
    BY <1>2, <2>1, <2>2, <2>3, Constants DEF Scheds, Statuses
<1> HIDE DEF e, o
<1>4. at \in [Tid -> Places]
  BY <1>1 DEF Places
<1>5. QueueOK(sch)
  <2>1. 1 \in 1 .. NThread /\ sch.elems = 0 .. 1 - 1
    BY <1>1, Constants DEF Main
  <2>2. \E n \in 1 .. NThread : sch.elems = 0 .. n - 1
    BY <2>1
  <2>3. QED
    BY <1>1, <1>2, <2>2 DEF QueueOK
<1>6. LocOK(sch, at)
  BY <1>1, <1>2, Constants DEF LocOK
<1>7. StatusOK(sch, at)
  BY <1>1, <1>2, Constants DEF StatusOK
<1>8. AwayOK(sch, at, None)
  BY <1>1, <1>2, Constants DEF AwayOK
<1>9. TodoOK(sch, at, todo)
  BY <1>1, <1>2, Constants DEF HolderOK, TodoOK, Working
<1>10. sch.nNonDetWait = Cardinality(Starting(at))
  <2>1. Starting(at) = {}
    BY <1>1 DEF Starting
  <2>2. QED
    BY <1>1, <2>1, FS_EmptySet
<1>11. InFront(sch.runq, at)
  <2>1. Len(sch.runq) = 1
    BY <1>1 DEF o
  <2>2. QED
    BY <2>1 DEF InFront
<1>12. QED
  BY <1>1, <1>3, <1>4, <1>5, <1>6, <1>7, <1>8, <1>9, <1>10, <1>11 DEF Inv, InvOf, Entering, Good

\* Every step keeps the invariant.
LEMMA NextKept ==
  ASSUME Inv, Next
  PROVE  Kept
<1>1. ASSUME NEW t \in Tid, Go_on(t) PROVE Kept
  BY <1>1, StepCreate, StepTurn, StepBlock, StepWakeup, StepWaitOn, StepNonDetStarted DEF Go_on
<1>2. ASSUME Finish PROVE Kept
  BY <1>2, StepTryPutTurn, StepPutTurn, StepWait, StepLeave, StepPutTurnAtEnd, StepLastReturns,
     StepNextRunnable DEF Finish
<1>3. ASSUME IdleTurn PROVE Kept
  BY <1>3, StepTurn, Constants
<1>4. QED
  BY <1>1, <1>2, <1>3, StepInterProStart, StepInterProEnd DEF Next

LEMMA KeptInv ==
  ASSUME Kept
  PROVE  Inv'
<1>1. Good(sch, at, Entering(sch, todo))'
  BY DEF Kept, InvOf, Good, QueueOK, LocOK, StatusOK, AwayOK, Entering
<1>2. TodoOK(sch, at, todo)'
  BY DEF Kept, InvOf, TodoOK, HolderOK
<1>3. QED
  BY <1>1, <1>2 DEF Kept, Inv, InvOf, Starting

LEMMA StutterInv ==
  ASSUME Inv, UNCHANGED vars
  PROVE  Inv'
<1>1. InvOf(sch', at', todo') /\ clockBound' = clockBound
  BY DEF vars, Inv
<1>2. QED
  BY <1>1, KeptInv DEF Kept

LEMMA InvAlways == Spec => []Inv
<1>1. Inv /\ [Next]_vars => Inv'
  BY NextKept, KeptInv, StutterInv
<1>2. QED
  BY InitInv, <1>1, PTL DEF Spec

LEMMA InvConsistent == Inv => NonDetConsistent
<1> SUFFICES ASSUME Inv PROVE NonDetConsistent
  OBVIOUS
<1>1. /\ sch \in Scheds /\ at \in [Tid -> Places] /\ TodoOK(sch, at, todo)
      /\ AwayOK(sch, at, Entering(sch, todo)) /\ sch.nNonDetWait = Cardinality(Starting(at))
  BY InvFacts
<1>2. sch.nNonDetWait \in Nat
  BY <1>1, FiniteStarting
<1>3. todo \in {"none", "put", "wait", "block", "end", "try", "scan", "scanEnd"}
  BY <1>1 DEF TodoOK, Working
<1>4. TypeOK
  BY <1>1, <1>2, <1>3 DEF TypeOK, Scheds, Statuses, Places
<1>5. sch.bad = None /\ sch.runq \in Seq(Tid) /\ sch.waitq \in Seq(Tid) /\ sch.elems \subseteq Tid
  BY <1>1 DEF Scheds
<1>6. ToSet(sch.runq \o sch.waitq) = ToSet(sch.runq) \cup ToSet(sch.waitq)
  BY <1>5, ConcatProps
<1>7. clockBound =>
        \A t \in sch.elems : t \in ToSet(sch.nonDet) <=>
          \/ at[t] # "dead" /\ t \notin ToSet(sch.runq \o sch.waitq)
          \/ todo = "block" /\ t = sch.holder
  <2>1. CASE todo = "block"
    <3>1. Holds(sch, sch.holder) /\ at[sch.holder] \in {"block", "started"} /\ Entering(sch, todo) = sch.holder
      BY <1>1, <2>1, WorkFacts DEF Working, TodoOK, Entering
    <3>2. sch.holder \in ToSet(sch.runq) /\ sch.holder \notin ToSet(sch.waitq)
      BY <2>1, <3>1, InvFacts, HolderFacts
    <3>3. QED
      BY <1>1, <1>5, <1>6, <2>1, <3>1, <3>2 DEF AwayOK
  <2>2. CASE todo # "block"
    <3>1. Entering(sch, todo) = None /\ None \notin sch.elems
      BY <1>5, <2>2, Constants DEF Entering
    <3>2. QED
      BY <1>1, <1>6, <2>2, <3>1 DEF AwayOK
  <2>3. QED
    BY <2>1, <2>2
<1>8. QED
  BY <1>1, <1>4, <1>5, <1>7 DEF NonDetConsistent, Starting

\* No assertion of the scheduler or of the set of threads that are away fails, the set
\* agrees with the queues, and the count of waiting regions is right: for any number of
\* threads, any bound and any order in which the threads that came back are queued.
THEOREM Consistent == Spec => []NonDetConsistent
  BY InvAlways, InvConsistent, PTL

\* Woken regions start before anything else, whoever comes back from a call in the middle
\* of the scheduler's code: nextRunnable() wakes them behind the idle thread only, and
\* what check_wakeup() and checkNonDetBound() queue goes behind them.
THEOREM RegionsComeFirst == Spec => []RegionsFirst
<1>1. Inv => RegionsFirst
  BY InvFacts DEF RegionsFirst, InFront, First
<1>2. QED
  BY <1>1, InvAlways, PTL

-----------------------------------------------------------------------------
(* The bound.  With the bound on, the set is in the order in which its threads     *)
(* went away, so the head is overdue when anybody is; every putTurn() takes one     *)
(* from the head, or moves the run queue on by one.  Places in the two queues       *)
(* therefore pay for the putTurn() calls a thread is overdue for.                   *)

\* The ages g along the queue q never grow.
Sorted(q, g) == \A i, j \in 1 .. Len(q) : i < j => g[q[i]] >= g[q[j]]

\* The calls l counted for the i-th thread leave i.
Soon(q, l, n) == \A i \in 1 .. Len(q) : l[q[i]] + i <= n

\* Everybody in the set has a clock.
Clocked(q, g) == \A i \in 1 .. Len(q) : g[q[i]] >= 0

\* A thread that had the turn last, waits, or is not there yet, has no clock.
Fresh(S, u) == S.late[u] = 0 /\ S.age[u] = -1

Bounded(S, k) ==
  /\ Sorted(S.nonDet, S.age) /\ Clocked(S.nonDet, S.age) /\ Soon(S.nonDet, S.late, NThread)
  /\ Soon(S.runq, S.late, TwoRounds + k)
  /\ \A u \in Tid : u \in ToSet(S.waitq) \/ u \notin S.elems => Fresh(S, u)

LEMMA Numbers == NThread \in Nat /\ TwoRounds = NThread + NThread /\ NThread >= 2 /\ Bound \in Nat
  BY NonDetAssumption DEF TwoRounds

\* Neither queue is longer than there are threads.
LEMMA ShortQueue ==
  ASSUME NEW q \in Seq(Tid), IsInjective(q)
  PROVE  Len(q) <= NThread
<1>1. IsFiniteSet(Tid) /\ Cardinality(Tid) = NThread
  <2>1. IsFiniteSet(0 .. NThread - 1) /\ Cardinality(0 .. NThread - 1) = (NThread - 1) - 0 + 1
    BY Numbers, FS_Interval
  <2>2. QED
    BY <2>1, Numbers DEF Tid
<1>2. ToSet(q) \subseteq Tid /\ Cardinality(ToSet(q)) = Len(q)
  BY InToSet, LenIsCardinality
<1>3. QED
  BY <1>1, <1>2, FS_Subset

LEMMA SchedFacts ==
  ASSUME NEW S, NEW a, NEW x, Good(S, a, x)
  PROVE  /\ S.runq \in Seq(Tid) /\ S.nonDet \in Seq(Tid) /\ S.waitq \in Seq(Tid)
         /\ IsInjective(S.runq) /\ IsInjective(S.nonDet) /\ IsInjective(S.waitq)
         /\ Len(S.runq) <= NThread /\ Len(S.nonDet) <= NThread
         /\ S.age \in [Tid -> -1 .. MaxAge] /\ S.late \in [Tid -> 0 .. TwoRounds + 1]
         /\ S.age \in [Tid -> Int] /\ S.late \in [Tid -> Int]
         /\ S.elems \subseteq Tid
<1>1. /\ S.runq \in Seq(Tid) /\ S.nonDet \in Seq(Tid) /\ S.waitq \in Seq(Tid)
      /\ IsInjective(S.runq) /\ IsInjective(S.nonDet) /\ IsInjective(S.waitq)
      /\ S.age \in [Tid -> -1 .. MaxAge] /\ S.late \in [Tid -> 0 .. TwoRounds + 1]
      /\ S.elems \subseteq Tid
  BY DEF Good, Scheds, QueueOK
<1>2. S.age \in [Tid -> Int] /\ S.late \in [Tid -> Int]
  BY <1>1, Constants
<1>3. QED
  BY <1>1, <1>2, ShortQueue

\* Threads queued at the end.
LEMMA SoonBehind ==
  ASSUME NEW p \in Seq(Tid), NEW q \in Seq(Tid), NEW l \in [Tid -> Int], NEW k \in {-1, 0, 1},
         Soon(p, l, TwoRounds + k), \A t \in ToSet(q) : l[t] <= NThread - 1 \/ (l[t] <= NThread /\ k >= 0),
         Len(p \o q) <= NThread
  PROVE  Soon(p \o q, l, TwoRounds + k)
<1> DEFINE r == p \o q
<1>1. /\ r \in Seq(Tid) /\ Len(r) = Len(p) + Len(q) /\ Len(p) \in Nat /\ Len(q) \in Nat
      /\ \A i \in 1..Len(r) : r[i] = IF i <= Len(p) THEN p[i] ELSE q[i - Len(p)]
  OBVIOUS
<1>2. Len(r) <= NThread
  OBVIOUS
<1> HIDE DEF r
<1> SUFFICES ASSUME NEW i \in 1 .. Len(r) PROVE l[r[i]] + i <= TwoRounds + k
  BY DEF Soon, r
<1>3. CASE i <= Len(p)
  <2>1. i \in 1 .. Len(p) /\ r[i] = p[i]
    BY <1>1, <1>3
  <2>2. QED
    BY <2>1 DEF Soon
<1>4. CASE ~(i <= Len(p))
  <2>1. i - Len(p) \in 1 .. Len(q) /\ r[i] = q[i - Len(p)]
    BY <1>1, <1>4
  <2>2. r[i] \in ToSet(q) /\ r[i] \in Tid
    BY <2>1, InToSet
  <2>3. l[r[i]] \in Int /\ (l[r[i]] <= NThread - 1 \/ (l[r[i]] <= NThread /\ k >= 0))
    BY <2>2
  <2>4. i \in Int /\ i <= NThread
    BY <1>1, <1>2, Numbers
  <2>5. QED
    BY <2>3, <2>4, Numbers
<1>5. QED
  BY <1>3, <1>4

\* Some of the set, in their order; if the head is gone there is room for one more call.
LEMMA SetOnly ==
  ASSUME NEW q \in Seq(Tid), NEW X, NEW g \in [Tid -> Int], NEW l \in [Tid -> Int],
         Sorted(q, g), Clocked(q, g), Soon(q, l, NThread)
  PROVE  LET r == Only(q, X)
         IN  /\ Sorted(r, g) /\ Clocked(r, g) /\ Soon(r, l, NThread)
             /\ q # <<>> /\ q[1] \notin X => Soon(r, l, NThread - 1)
<1> DEFINE r == Only(q, X)
           M == Len(q)
<1>1. PICK e : /\ Picks(e, r, q, M)
               /\ q[1] \notin X => \A i \in 1 .. Len(r) : i < e[i]
  BY OnlyOrder
<1>2. r \in Seq(Tid) /\ M \in Nat /\ Len(r) \in Nat
  BY OnlyProps
<1>3. \A i \in 1 .. M : q[i] \in Tid /\ l[q[i]] \in Int /\ g[q[i]] \in Int
  BY InToSet
<1> HIDE DEF r, M
<1>4. /\ \A i \in 1 .. Len(r) : e[i] \in 1 .. M /\ r[i] = q[e[i]] /\ i <= e[i]
      /\ \A i, j \in 1 .. Len(r) : i < j => e[i] < e[j]
  BY <1>1 DEF Picks
<1>5. \A i \in 1 .. M : g[q[i]] >= 0 /\ l[q[i]] + i <= NThread
  BY DEF Clocked, Soon, M
<1>6. \A i, j \in 1 .. M : i < j => g[q[i]] >= g[q[j]]
  BY DEF Sorted, M
<1>7. Sorted(r, g)
  BY <1>4, <1>6 DEF Sorted
<1>8. Clocked(r, g)
  BY <1>4, <1>5 DEF Clocked
<1>9. Soon(r, l, NThread)
  <2> SUFFICES ASSUME NEW i \in 1 .. Len(r) PROVE l[r[i]] + i <= NThread
    BY DEF Soon
  <2>a. e[i] \in 1 .. M /\ r[i] = q[e[i]] /\ i <= e[i]
    BY <1>4
  <2>1. l[r[i]] + e[i] <= NThread /\ i <= e[i] /\ l[r[i]] \in Int /\ e[i] \in Int /\ i \in Int
    BY <1>2, <1>3, <1>5, <2>a, SMTT(60)
  <2>2. QED
    BY <2>1, Numbers
<1>10. ASSUME q[1] \notin X PROVE Soon(r, l, NThread - 1)
  <2> SUFFICES ASSUME NEW i \in 1 .. Len(r) PROVE l[r[i]] + i <= NThread - 1
    BY DEF Soon
  <2>a. e[i] \in 1 .. M /\ r[i] = q[e[i]] /\ i < e[i]
    BY <1>1, <1>4, <1>10
  <2>1. l[r[i]] + e[i] <= NThread /\ i < e[i] /\ l[r[i]] \in Int /\ e[i] \in Int /\ i \in Int
    BY <1>2, <1>3, <1>5, <2>a, SMTT(60)
  <2>2. QED
    BY <2>1, Numbers
<1>11. QED
  BY <1>7, <1>8, <1>9, <1>10 DEF r

\* Threads that just went away, at the end of the set.
LEMMA SetBehind ==
  ASSUME NEW p \in Seq(Tid), NEW q \in Seq(Tid), NEW g \in [Tid -> Int], NEW l \in [Tid -> Int],
         Sorted(p, g), Clocked(p, g), Soon(p, l, NThread), Len(p \o q) <= NThread,
         \A t \in ToSet(q) : g[t] = 0 /\ l[t] = 0
  PROVE  Sorted(p \o q, g) /\ Clocked(p \o q, g) /\ Soon(p \o q, l, NThread)
<1> DEFINE r == p \o q
<1>1. /\ r \in Seq(Tid) /\ Len(r) = Len(p) + Len(q) /\ Len(p) \in Nat /\ Len(q) \in Nat
      /\ \A i \in 1..Len(r) : r[i] = IF i <= Len(p) THEN p[i] ELSE q[i - Len(p)]
  OBVIOUS
<1>2. Len(r) <= NThread
  OBVIOUS
<1> HIDE DEF r
<1>3. \A i \in 1 .. Len(r) : i <= Len(p) \/ (g[r[i]] = 0 /\ l[r[i]] = 0)
  <2> SUFFICES ASSUME NEW i \in 1 .. Len(r), ~(i <= Len(p)) PROVE g[r[i]] = 0 /\ l[r[i]] = 0
    OBVIOUS
  <2>1. i - Len(p) \in 1 .. Len(q) /\ r[i] = q[i - Len(p)]
    BY <1>1, SMTT(60)
  <2>2. r[i] \in ToSet(q)
    BY <2>1, InToSet
  <2>3. QED
    BY <2>2
<1>4. \A i \in 1 .. Len(r) : i <= Len(p) => r[i] = p[i] /\ i \in 1 .. Len(p)
  BY <1>1
<1>5. Clocked(r, g)
  <2> SUFFICES ASSUME NEW i \in 1 .. Len(r) PROVE g[r[i]] >= 0
    BY DEF Clocked
  <2>1. CASE i <= Len(p)
    BY <1>4, <2>1 DEF Clocked
  <2>2. CASE ~(i <= Len(p))
    BY <1>3, <2>2
  <2>3. QED
    BY <2>1, <2>2
<1>6. Soon(r, l, NThread)
  <2> SUFFICES ASSUME NEW i \in 1 .. Len(r) PROVE l[r[i]] + i <= NThread
    BY DEF Soon
  <2>1. CASE i <= Len(p)
    BY <1>4, <2>1 DEF Soon
  <2>2. CASE ~(i <= Len(p))
    <3>1. l[r[i]] = 0 /\ i \in Int /\ i <= Len(r) /\ Len(r) \in Int
      BY <1>1, <1>3, <2>2
    <3>2. QED
      BY <1>2, <3>1, Numbers
  <2>3. QED
    BY <2>1, <2>2
<1>7. Sorted(r, g)
  <2> SUFFICES ASSUME NEW i \in 1 .. Len(r), NEW j \in 1 .. Len(r), i < j PROVE g[r[i]] >= g[r[j]]
    BY DEF Sorted
  <2>1. CASE j <= Len(p)
    <3>1. i <= Len(p)
      BY <1>1, <2>1
    <3>2. QED
      BY <1>4, <2>1, <3>1 DEF Sorted
  <2>2. CASE ~(j <= Len(p))
    BY <1>3, <1>5, <2>2 DEF Clocked
  <2>3. QED
    BY <2>1, <2>2
<1>8. QED
  BY <1>5, <1>6, <1>7 DEF r

\* The threads that came back were in the set.
LEMMA BoundedWakeup ==
  ASSUME clockBound, NEW S, NEW a, NEW x, Good(S, a, x), x \in ToSet(S.runq) \/ x = None,
         Bounded(S, 0)
  PROVE  LET S2 == check_wakeup(S)
         IN  Bounded(S2, 0) /\ S2.age = S.age /\ S2.late = S.late
<1> DEFINE S2 == check_wakeup(S)
           back == S.wakeTids \ ToSet(S.runq)
           q == Only(WakeOrder, back)
           X == ToSet(S.nonDet) \ back
<1>1. /\ Good(S2, a, x) /\ S2.elems = S.elems /\ S2.waitq = S.waitq /\ S2.age = S.age
      /\ S2.late = S.late /\ S2.runq = S.runq \o q /\ S2.nonDet = Only(S.nonDet, X)
  BY CheckWakeup DEF SameBut, Except
<1> HIDE DEF S2
<1>2. /\ S.runq \in Seq(Tid) /\ S.nonDet \in Seq(Tid) /\ S.elems \subseteq Tid
      /\ S.age \in [Tid -> Int] /\ S.late \in [Tid -> Int]
  BY SchedFacts
<1>3. q \in Seq(Tid) /\ ToSet(q) = back
  <2>1. back \subseteq Tid
    BY DEF Good, Scheds
  <2>2. QED
    BY <2>1, Constants, OnlyProps
<1>4. back \subseteq ToSet(S.nonDet)
  BY <1>2, Constants DEF Good, QueueOK, LocOK, AwayOK
<1> HIDE DEF back, q
<1>5. \A t \in ToSet(q) : S.late[t] <= NThread - 1
  <2> SUFFICES ASSUME NEW t \in back PROVE S.late[t] <= NThread - 1
    BY <1>3
  <2>1. PICK i \in 1 .. Len(S.nonDet) : S.nonDet[i] = t
    BY <1>2, <1>4, InToSet
  <2>2. S.late[t] + i <= NThread /\ S.late[t] \in Int /\ i >= 1 /\ i \in Int
    BY <1>2, <2>1, InToSet, SMTT(60) DEF Bounded, Soon
  <2>3. QED
    BY <2>2, Numbers
<1>6. Len(S.runq \o q) <= NThread
  BY <1>1, SchedFacts
<1>7. Soon(S2.runq, S2.late, TwoRounds + 0)
  BY <1>1, <1>2, <1>3, <1>5, <1>6, SoonBehind DEF Bounded
<1>8. Sorted(S2.nonDet, S2.age) /\ Clocked(S2.nonDet, S2.age) /\ Soon(S2.nonDet, S2.late, NThread)
  BY <1>1, <1>2, SetOnly DEF Bounded
<1>9. \A u \in Tid : u \in ToSet(S2.waitq) \/ u \notin S2.elems => Fresh(S2, u)
  BY <1>1 DEF Bounded, Fresh
<1>10. QED
  BY <1>1, <1>7, <1>8, <1>9 DEF Bounded, S2

\* Older clocks are in the same order.
LEMMA BoundedInc ==
  ASSUME clockBound, NEW S, NEW a, NEW x, Good(S, a, x), x \in ToSet(S.runq) \/ x = None,
         Bounded(S, 0)
  PROVE  Bounded(incTurnCount(S), 0) /\ \A u \in Tid : Fresh(S, u) => Fresh(incTurnCount(S), u)
<1> DEFINE O == Older(S)
<1>1. S \in Scheds /\ S.nonDet \in Seq(Tid) /\ S.age \in [Tid -> -1 .. MaxAge] /\ S.late \in [Tid -> Int]
  BY SchedFacts DEF Good
<1>2. /\ \A t \in Tid : O.age[t] = IF S.age[t] \in 0 .. MaxAge - 1 THEN S.age[t] + 1 ELSE S.age[t]
      /\ O.age \in [Tid -> -1 .. MaxAge]
  <2>1. O.age = [t \in Tid |-> IF S.age[t] \in 0 .. MaxAge - 1 THEN S.age[t] + 1 ELSE S.age[t]]
    BY <1>1 DEF Scheds, Older
  <2> HIDE DEF O
  <2>2. O.age \in [Tid -> -1 .. MaxAge]
    BY <1>1, <2>1, OlderAge, Zenon
  <2>3. QED
    BY <2>1, <2>2, Zenon
<1>3. /\ O \in Scheds /\ SameBut(S, O) /\ O.wakeTids = S.wakeTids /\ O.late = S.late
      /\ O.waitq = S.waitq /\ O.chan = S.chan /\ O.runq = S.runq /\ O.nonDet = S.nonDet
  BY <1>1, <1>2 DEF Scheds, SameBut, Older
<1>4. incTurnCount(S) = check_wakeup(O)
  BY DEF incTurnCount, Older
<1> HIDE DEF O
<1>5. Good(O, a, x)
  BY <1>3 DEF Good, QueueOK, LocOK, StatusOK, AwayOK, SameBut
<1>6. \A t, u \in Tid : S.age[t] >= S.age[u] /\ S.age[u] >= 0 => O.age[t] >= O.age[u]
  <2> SUFFICES ASSUME NEW t \in Tid, NEW u \in Tid, S.age[t] >= S.age[u], S.age[u] >= 0
               PROVE  O.age[t] >= O.age[u]
    OBVIOUS
  <2>1. S.age[t] \in -1 .. MaxAge /\ S.age[u] \in -1 .. MaxAge /\ MaxAge \in Int
    BY <1>1, Constants
  <2>2. /\ O.age[t] = IF S.age[t] \in 0 .. MaxAge - 1 THEN S.age[t] + 1 ELSE S.age[t]
        /\ O.age[u] = IF S.age[u] \in 0 .. MaxAge - 1 THEN S.age[u] + 1 ELSE S.age[u]
    BY <1>2
  <2>3. QED
    BY <2>1, <2>2
<1>7. \A t \in Tid : S.age[t] >= 0 => O.age[t] >= 0
  <2> SUFFICES ASSUME NEW t \in Tid, S.age[t] >= 0 PROVE O.age[t] >= 0
    OBVIOUS
  <2>1. S.age[t] \in -1 .. MaxAge /\ MaxAge \in Int
    BY <1>1, Constants
  <2>2. O.age[t] = IF S.age[t] \in 0 .. MaxAge - 1 THEN S.age[t] + 1 ELSE S.age[t]
    BY <1>2
  <2>3. QED
    BY <2>1, <2>2
<1>8. \A t \in Tid : Fresh(S, t) => Fresh(O, t)
  BY <1>2, <1>3 DEF Fresh
<1>9. \A i \in 1 .. Len(S.nonDet) : S.nonDet[i] \in Tid /\ S.age[S.nonDet[i]] >= 0
  BY <1>1, InToSet DEF Bounded, Clocked
<1>10. Sorted(O.nonDet, O.age) /\ Clocked(O.nonDet, O.age)
  BY <1>3, <1>6, <1>7, <1>9 DEF Bounded, Sorted, Clocked
<1>11. Bounded(O, 0)
  BY <1>3, <1>8, <1>10 DEF Bounded, SameBut
<1>12. QED
  BY <1>3, <1>4, <1>5, <1>8, <1>11, BoundedWakeup DEF Fresh

\* Threads that wait have no clock.
LEMMA BoundedUnwait ==
  ASSUME clockBound, NEW S, NEW a, Good(S, a, None), NEW T \in SUBSET ToSet(S.waitq),
         InFront(S.runq \o Only(S.waitq, T), a), Bounded(S, 0)
  PROVE  Bounded(unwait(S, T), 0)
<1> DEFINE S2 == unwait(S, T)
           q == Only(S.waitq, T)
<1>1. /\ Good(S2, a, None) /\ SameBut(S, S2) /\ S2.late = S.late /\ S2.age = S.age
      /\ S2.nonDet = S.nonDet /\ S2.runq = S.runq \o q /\ ToSet(S2.waitq) = ToSet(S.waitq) \ T
  <2>1. Unwaited(S, a, T, S2)
    BY Unwait
  <2> HIDE DEF S2
  <2>2. QED
    BY <2>1, Zenon DEF Unwaited
<1>2. /\ S.runq \in Seq(Tid) /\ S.waitq \in Seq(Tid) /\ S.late \in [Tid -> Int]
  BY SchedFacts
<1>3. q \in Seq(Tid) /\ ToSet(q) \subseteq ToSet(S.waitq)
  BY <1>2, OnlyProps
<1> HIDE DEF S2, q
<1>4. \A t \in ToSet(q) : S.late[t] <= NThread - 1
  <2>1. \A t \in ToSet(q) : S.late[t] = 0
    BY <1>2, <1>3, InToSet DEF Bounded, Fresh
  <2>2. QED
    BY <2>1, Numbers
<1>5. Len(S.runq \o q) <= NThread
  BY <1>1, SchedFacts
<1>6. Soon(S2.runq, S2.late, TwoRounds + 0)
  BY <1>1, <1>2, <1>3, <1>4, <1>5, SoonBehind DEF Bounded
<1>7. \A u \in Tid : u \in ToSet(S2.waitq) \/ u \notin S2.elems => Fresh(S2, u)
  BY <1>1 DEF Bounded, Fresh, SameBut
<1>8. QED
  BY <1>1, <1>6, <1>7 DEF Bounded, S2

\* Counting another call and looking at the bound: an overdue head makes room.
LEMMA BoundedCheck ==
  ASSUME clockBound, NEW S, NEW a, Good(S, a, None), NEW k \in {-1, 0}, Bounded(S, k)
  PROVE  LET S2 == checkNonDetBound(countLate(S))
         IN  Bounded(S2, k + 1) /\ \A u \in Tid : Fresh(S, u) => Fresh(S2, u)
<1> DEFINE C == countLate(S)
           S2 == checkNonDetBound(C)
           h == Head(S.nonDet)
           q == S.nonDet
           l == C.late
<1>1. /\ Good(C, a, None) /\ SameBut(S, C) /\ C.runq = S.runq /\ C.waitq = S.waitq
      /\ C.nonDet = S.nonDet /\ C.age = S.age
      /\ C.late = [t \in Tid |-> IF S.age[t] > Bound /\ S.late[t] <= TwoRounds
                                 THEN S.late[t] + 1 ELSE S.late[t]]
  BY CountLate
<1>2. /\ S.runq \in Seq(Tid) /\ q \in Seq(Tid) /\ S.age \in [Tid -> Int] /\ S.late \in [Tid -> Int]
      /\ Len(S.runq) <= NThread
  BY SchedFacts
<1>3. \A t \in Tid : /\ l[t] <= S.late[t] + 1 /\ l[t] \in Int /\ S.late[t] \in Int
                     /\ ~(S.age[t] > Bound) => l[t] = S.late[t]
  BY <1>1, <1>2
<1>4. l \in [Tid -> Int]
  BY <1>1, SchedFacts
<1> HIDE DEF C
<1>5. \A t \in Tid : Fresh(S, t) => C.late[t] = 0 /\ C.age[t] = -1
  BY <1>1, <1>3, Numbers DEF Fresh
<1>6. Soon(S.runq, l, TwoRounds + (k + 1))
  <2> SUFFICES ASSUME NEW i \in 1 .. Len(S.runq) PROVE l[S.runq[i]] + i <= TwoRounds + (k + 1)
    BY DEF Soon
  <2>1. S.late[S.runq[i]] + i <= TwoRounds + k /\ S.runq[i] \in Tid
    BY <1>2, InToSet DEF Bounded, Soon
  <2>2. l[S.runq[i]] <= S.late[S.runq[i]] + 1 /\ l[S.runq[i]] \in Int /\ S.late[S.runq[i]] \in Int
    BY <1>3, <2>1
  <2>3. k \in Int /\ TwoRounds \in Int /\ i \in Int
    BY <1>2, Numbers
  <2> HIDE DEF l
  <2>4. QED
    BY <2>1, <2>2, <2>3, SMTT(60)
<1>7. /\ Good(S2, a, None) /\ SameBut(C, S2) /\ S2.waitq = C.waitq /\ S2.age = C.age /\ S2.late = l
      /\ \/ /\ S2.runq = C.runq /\ S2.nonDet = C.nonDet
            /\ ~(C.nonDet # <<>> /\ C.age[Head(C.nonDet)] > Bound)
         \/ /\ C.nonDet # <<>> /\ C.age[Head(C.nonDet)] > Bound /\ Head(C.nonDet) \in Tid
            /\ S2.runq = C.runq \o <<Head(C.nonDet)>>
            /\ S2.nonDet = Except(C.nonDet, {Head(C.nonDet)})
  BY <1>1, CheckNonDetBound
<1> HIDE DEF S2, l
<1>8. \A u \in Tid : Fresh(S, u) => Fresh(S2, u)
  BY <1>5, <1>7 DEF Fresh, l
<1>9. \A u \in Tid : u \in ToSet(S2.waitq) \/ u \notin S2.elems => Fresh(S2, u)
  BY <1>1, <1>7, <1>8 DEF Bounded, SameBut
<1>10. CASE S2.runq = S.runq /\ S2.nonDet = q /\ ~(q # <<>> /\ S.age[h] > Bound)
  <2>1. \A i \in 1 .. Len(q) : ~(S.age[q[i]] > Bound) /\ q[i] \in Tid
    <3> SUFFICES ASSUME NEW i \in 1 .. Len(q) PROVE ~(S.age[q[i]] > Bound) /\ q[i] \in Tid
      OBVIOUS
    <3>1. q # <<>> /\ h = q[1] /\ 1 \in 1 .. Len(q) /\ q[i] \in Tid /\ q[1] \in Tid
      BY <1>2
    <3>2. i = 1 \/ S.age[q[1]] >= S.age[q[i]]
      BY <1>2, SMTT(60) DEF Bounded, Sorted
    <3>3. QED
      BY <1>2, <1>10, <3>1, <3>2, Numbers, SMTT(60)
  <2>2. Soon(q, l, NThread)
    BY <1>3, <2>1 DEF Bounded, Soon, l
  <2>3. QED
    BY <1>1, <1>6, <1>7, <1>8, <1>9, <1>10, <2>2 DEF Bounded, S2, C, l
<1>11. CASE /\ q # <<>> /\ S.age[h] > Bound /\ h \in Tid
            /\ S2.runq = S.runq \o <<h>> /\ S2.nonDet = Except(q, {h})
  <2> DEFINE o == <<h>>
             X == ToSet(q) \ {h}
             r == Only(q, X)
  <2>1. q[1] = h /\ 1 \in 1 .. Len(q)
    BY <1>2, <1>11
  <2>2. Sorted(r, S.age) /\ Clocked(r, S.age) /\ Soon(r, S.late, NThread - 1)
    BY <1>2, <1>11, <2>1, SetOnly DEF Bounded
  <2>3. r \in Seq(Tid)
    BY <1>2, OnlyProps
  <2> HIDE DEF r
  <2>4. Soon(r, l, NThread)
    <3> SUFFICES ASSUME NEW i \in 1 .. Len(r) PROVE l[r[i]] + i <= NThread
      BY DEF Soon
    <3>1. S.late[r[i]] + i <= NThread - 1 /\ r[i] \in Tid
      BY <2>2, <2>3, InToSet DEF Soon
    <3>2. l[r[i]] <= S.late[r[i]] + 1 /\ l[r[i]] \in Int /\ S.late[r[i]] \in Int
      BY <1>3, <3>1 DEF l
    <3>3. QED
      BY <3>1, <3>2, Numbers, SMTT(60)
  <2>5. l[h] <= NThread
    <3>1. S.late[h] + 1 <= NThread
      BY <2>1 DEF Bounded, Soon
    <3>2. l[h] <= S.late[h] + 1 /\ l[h] \in Int /\ S.late[h] \in Int
      BY <1>3, <1>11 DEF l
    <3>3. QED
      BY <3>1, <3>2, Numbers
  <2>6. Soon(S2.runq, l, TwoRounds + (k + 1))
    <3>1. o \in Seq(Tid) /\ ToSet(o) = {h}
      BY <1>11 DEF ToSet
    <3>2. S2.runq = S.runq \o o
      BY <1>11
    <3> HIDE DEF o
    <3>3. Len(S.runq \o o) <= NThread
      BY <1>7, <3>2, SchedFacts
    <3>4. k + 1 \in {-1, 0, 1} /\ k + 1 >= 0
      OBVIOUS
    <3>5. \A t \in ToSet(o) : l[t] <= NThread /\ k + 1 >= 0
      BY <2>5, <3>1, <3>4
    <3>6. QED
      BY <1>2, <1>4, <1>6, <3>1, <3>2, <3>3, <3>4, <3>5, SoonBehind DEF l
  <2>7. S2.nonDet = r
    BY <1>11 DEF Except, r
  <2>8. QED
    BY <1>1, <1>7, <1>8, <1>9, <2>2, <2>4, <2>6, <2>7 DEF Bounded, S2, C, l
<1>12. QED
  BY <1>1, <1>7, <1>10, <1>11

\* A stopped thread goes to the end of the set, and the others move up.
LEMMA BoundedPop ==
  ASSUME clockBound, NEW S, NEW a, Good(S, a, None), S.runq # <<>>,
         S.status[Head(S.runq)] = "INTER_PRO_STOP", Bounded(S, 0)
  PROVE  Bounded(popStopped(S), 0)
<1> DEFINE P == popStopped(S)
           h == Head(S.runq)
           q == <<h>>
           r == Tail(S.runq)
           N == Len(S.runq)
<1>1. Popped(S, P, a)
  BY PopStopped
<1> HIDE DEF P
<1>2. /\ Good(P, a, None) /\ SameBut(S, P) /\ P.waitq = S.waitq /\ P.runq = r
      /\ P.nonDet = S.nonDet \o q
      /\ \A t \in Tid : /\ P.age[t] = IF t = h THEN 0 ELSE S.age[t]
                        /\ P.late[t] = IF t = h THEN 0 ELSE S.late[t]
  BY <1>1, Zenon DEF Popped
<1>3. /\ S.runq \in Seq(Tid) /\ S.nonDet \in Seq(Tid) /\ S.age \in [Tid -> Int] /\ S.late \in [Tid -> Int]
      /\ IsInjective(S.runq) /\ N \in Nat
  BY SchedFacts
<1>4. P.age \in [Tid -> Int] /\ P.late \in [Tid -> Int] /\ P.nonDet \in Seq(Tid) /\ Len(P.nonDet) <= NThread
  BY <1>2, SchedFacts
<1>5. /\ h \in Tid /\ h \in ToSet(S.runq) /\ q \in Seq(Tid) /\ ToSet(q) = {h}
      /\ r \in Seq(Tid) /\ Len(r) = N - 1 /\ \A i \in 1 .. (N - 1) : r[i] = S.runq[i + 1]
  BY <1>3, HeadProps DEF ToSet
<1>6. h \notin ToSet(r)
  BY <1>3, TailProps
<1> HIDE DEF h, q, r, N
<1>7. h \notin ToSet(S.nonDet) /\ h \notin ToSet(S.waitq) /\ h \in S.elems
  BY <1>5, Constants DEF Good, QueueOK, AwayOK, Scheds
<1>8. \A i \in 1 .. Len(S.nonDet) : /\ P.age[S.nonDet[i]] = S.age[S.nonDet[i]]
                                    /\ P.late[S.nonDet[i]] = S.late[S.nonDet[i]]
  <2>1. \A i \in 1 .. Len(S.nonDet) : S.nonDet[i] \in Tid /\ S.nonDet[i] # h
    BY <1>3, <1>7, InToSet, SMTT(60)
  <2>2. QED
    BY <1>2, <2>1
<1>9. Sorted(S.nonDet, P.age) /\ Clocked(S.nonDet, P.age) /\ Soon(S.nonDet, P.late, NThread)
  BY <1>8 DEF Bounded, Sorted, Clocked, Soon
<1>10. \A t \in ToSet(q) : P.age[t] = 0 /\ P.late[t] = 0
  BY <1>2, <1>5
<1>11. Sorted(P.nonDet, P.age) /\ Clocked(P.nonDet, P.age) /\ Soon(P.nonDet, P.late, NThread)
  <2>1. Len(S.nonDet \o q) <= NThread
    BY <1>2, <1>4
  <2>2. LET d == S.nonDet \o q
        IN  Sorted(d, P.age) /\ Clocked(d, P.age) /\ Soon(d, P.late, NThread)
    BY <1>3, <1>4, <1>5, <1>9, <1>10, <2>1, SetBehind
  <2>3. QED
    BY <1>2, <2>2
<1>12. Soon(P.runq, P.late, TwoRounds + 0)
  <2> SUFFICES ASSUME NEW i \in 1 .. (N - 1) PROVE P.late[r[i]] + i <= TwoRounds + 0
    BY <1>2, <1>5 DEF Soon
  <2>1. r[i] = S.runq[i + 1] /\ i + 1 \in 1 .. N /\ i \in Int
    BY <1>3, <1>5
  <2>2. r[i] \in Tid /\ r[i] \in ToSet(r)
    BY <1>5, InToSet
  <2>3. P.late[r[i]] = S.late[r[i]] /\ S.late[r[i]] \in Int
    BY <1>2, <1>3, <1>6, <2>2
  <2>4. S.late[r[i]] + (i + 1) <= TwoRounds + 0
    BY <2>1 DEF Bounded, Soon, N
  <2>5. QED
    BY <2>1, <2>3, <2>4, Numbers, SMTT(60)
<1>13. \A u \in Tid : u \in ToSet(P.waitq) \/ u \notin P.elems => Fresh(P, u)
  BY <1>2, <1>7 DEF Bounded, Fresh, SameBut
<1>14. QED
  BY <1>11, <1>12, <1>13 DEF Bounded, P


\* Who gets the turn has no clock any more.
LEMMA BoundedGive ==
  ASSUME clockBound, NEW S, NEW a, Good(S, a, None), S.runq # <<>>,
         S.status[Head(S.runq)] # "INTER_PRO_STOP", Bounded(S, 0)
  PROVE  LET S2 == giveTurn(S) IN Bounded(S2, 0) /\ Fresh(S2, S2.holder)
<1> DEFINE S2 == giveTurn(S)
           h == Head(S.runq)
<1>1. /\ Good(S2, a, None) /\ S2.holder = h /\ S2.elems = S.elems
      /\ S2.runq = S.runq /\ S2.waitq = S.waitq /\ S2.nonDet = S.nonDet
      /\ S2.age = [S.age EXCEPT ![h] = -1] /\ S2.late = [S.late EXCEPT ![h] = 0]
  BY GiveTurn
<1>2. /\ S.runq \in Seq(Tid) /\ S.nonDet \in Seq(Tid) /\ S.age \in [Tid -> Int] /\ S.late \in [Tid -> Int]
      /\ Len(S.runq) <= NThread
  BY SchedFacts
<1>3. h \in Tid /\ h \in ToSet(S.runq)
  BY <1>2, HeadProps
<1> HIDE DEF S2, h
<1>4. /\ S2.age[h] = -1 /\ S2.late[h] = 0
      /\ \A u \in Tid \ {h} : S2.age[u] = S.age[u] /\ S2.late[u] = S.late[u]
  BY <1>1, <1>2, <1>3
<1>5. h \notin ToSet(S.nonDet) /\ h \notin ToSet(S.waitq) /\ h \in S.elems
  BY <1>3, Constants DEF Good, QueueOK, AwayOK, Scheds
<1>6. \A i \in 1 .. Len(S.nonDet) : /\ S2.age[S.nonDet[i]] = S.age[S.nonDet[i]]
                                    /\ S2.late[S.nonDet[i]] = S.late[S.nonDet[i]]
  <2>1. \A i \in 1 .. Len(S.nonDet) : S.nonDet[i] \in Tid /\ S.nonDet[i] \in ToSet(S.nonDet)
    BY <1>2, InToSet
  <2>2. QED
    BY <1>4, <1>5, <2>1
<1>7. Sorted(S2.nonDet, S2.age) /\ Clocked(S2.nonDet, S2.age) /\ Soon(S2.nonDet, S2.late, NThread)
  BY <1>1, <1>6 DEF Bounded, Sorted, Clocked, Soon
<1>8. Soon(S2.runq, S2.late, TwoRounds + 0)
  <2> SUFFICES ASSUME NEW i \in 1 .. Len(S.runq) PROVE S2.late[S.runq[i]] + i <= TwoRounds + 0
    BY <1>1 DEF Soon
  <2>1. /\ S.runq[i] \in Tid /\ S.late[S.runq[i]] + i <= TwoRounds + 0 /\ i \in Int
        /\ i <= NThread
    BY <1>2, Numbers DEF Bounded, Soon
  <2>2. CASE S.runq[i] = h
    BY <1>4, <2>1, <2>2, Numbers
  <2>3. CASE S.runq[i] # h
    BY <1>4, <2>1, <2>3
  <2>4. QED
    BY <2>2, <2>3
<1>9. \A u \in Tid : u \in ToSet(S2.waitq) \/ u \notin S2.elems => Fresh(S2, u)
  BY <1>1, <1>4, <1>5 DEF Bounded, Fresh
<1>10. QED
  BY <1>1, <1>4, <1>7, <1>8, <1>9 DEF Bounded, Fresh, S2

LEMMA BoundedPut ==
  ASSUME clockBound, NEW S, NEW a, NEW self, Good(S, a, None), Ready(S, self),
         S.status[self] = "RUNNING_REG", a[self] # "start", Bounded(S, 0), Fresh(S, self)
  PROVE  Bounded(putTurn(S, self), 0)
<1> DEFINE R == Rotated(S, self)
           B == checkNonDetBound(countLate(R))
           K == check_wakeup(B)
           w == Tail(S.runq)
           N == Len(S.runq)
<1>1. putTurn(S, self) = K
  BY DEF putTurn, Rotated
<1>2. /\ Good(R, a, None) /\ R.elems = S.elems /\ R.waitq = S.waitq /\ R.nonDet = S.nonDet
      /\ R.age = S.age /\ R.late = S.late /\ R.runq = Append(w, self)
  BY Rotate, ZenonT(60)
<1>3. /\ S.runq \in Seq(Tid) /\ S.runq # <<>> /\ self = Head(S.runq) /\ N <= NThread
      /\ S.late \in [Tid -> Int]
  BY SchedFacts DEF Ready
<1>4. self \in Tid
  BY <1>3, HeadProps
<1>5. /\ w \in Seq(Tid) /\ Len(w) = N - 1 /\ N \in Nat /\ N >= 1
      /\ \A i \in 1 .. (N - 1) : w[i] = S.runq[i + 1]
  BY <1>3
<1> HIDE DEF w, N, R
<1>6. /\ Len(Append(w, self)) = N /\ Append(w, self)[N] = self
      /\ \A i \in 1 .. (N - 1) : Append(w, self)[i] = w[i]
  BY <1>4, <1>5
<1>7. Soon(R.runq, R.late, TwoRounds + (-1))
  <2> SUFFICES ASSUME NEW i \in 1 .. N PROVE S.late[R.runq[i]] + i <= TwoRounds + (-1)
    BY <1>2, <1>6 DEF Soon
  <2>1. CASE i = N
    <3>1. S.late[R.runq[i]] = 0
      BY <1>2, <1>6, <2>1 DEF Fresh
    <3>2. QED
      BY <1>3, <1>5, <2>1, <3>1, Numbers
  <2>2. CASE i # N
    <3>1. i \in 1 .. (N - 1) /\ i + 1 \in 1 .. N
      BY <1>5, <2>2
    <3>2. R.runq[i] = S.runq[i + 1] /\ S.runq[i + 1] \in Tid
      BY <1>2, <1>3, <1>5, <1>6, <3>1 DEF N
    <3>3. S.late[S.runq[i + 1]] + (i + 1) <= TwoRounds + 0 /\ S.late[S.runq[i + 1]] \in Int
      BY <1>3, <3>1, <3>2 DEF Bounded, Soon, N
    <3>4. QED
      BY <3>1, <3>2, <3>3, Numbers
  <2>3. QED
    BY <2>1, <2>2
<1>8. Bounded(R, -1)
  BY <1>2, <1>7 DEF Bounded, Fresh
<1>9. Good(B, a, None)
  BY <1>2, CountLate, CheckNonDetBound
<1>10. Bounded(B, -1 + 1)
  BY <1>2, <1>8, BoundedCheck
<1> HIDE DEF B
<1>11. Bounded(B, 0)
  <2>1. -1 + 1 = 0
    OBVIOUS
  <2>2. QED
    BY <1>10, <2>1
<1>12. Good(K, a, None) /\ Bounded(K, 0)
  BY <1>9, <1>11, CheckWakeup, BoundedWakeup
<1> HIDE DEF K
<1>13. QED
  BY <1>1, <1>12

LEMMA BoundedGone ==
  ASSUME NEW S \in Scheds, NEW self, S.runq # <<>>, NEW k \in {0, 1}, Bounded(S, k)
  PROVE  Bounded(Gone(S, self), 0)
<1> DEFINE G == Gone(S, self)
           w == Tail(S.runq)
           N == Len(S.runq)
<1>1. /\ G.elems = S.elems /\ G.waitq = S.waitq /\ G.nonDet = S.nonDet /\ G.age = S.age
      /\ G.late = S.late /\ G.runq = w
  BY DEF Gone, Scheds
<1>2. /\ S.runq \in Seq(Tid) /\ S.late \in [Tid -> Int] /\ N \in Nat /\ Len(w) = N - 1
      /\ \A i \in 1 .. (N - 1) : w[i] = S.runq[i + 1]
  <2>1. S.runq \in Seq(Tid) /\ S.late \in [Tid -> 0 .. TwoRounds + 1]
    BY DEF Scheds
  <2>2. QED
    BY <2>1, Constants
<1> HIDE DEF G, w
<1>3. Soon(G.runq, G.late, TwoRounds + 0)
  <2> SUFFICES ASSUME NEW i \in 1 .. (N - 1) PROVE S.late[w[i]] + i <= TwoRounds + 0
    BY <1>1, <1>2 DEF Soon
  <2>1. i + 1 \in 1 .. N /\ w[i] = S.runq[i + 1] /\ S.runq[i + 1] \in Tid /\ i \in Int
    BY <1>2
  <2>2. S.late[w[i]] + (i + 1) <= TwoRounds + k /\ S.late[w[i]] \in Int /\ k \in Int /\ k <= 1
    BY <1>2, <2>1 DEF Bounded, Soon
  <2>3. QED
    BY <2>1, <2>2, Numbers
<1>4. QED
  BY <1>1, <1>3 DEF Bounded, Fresh, G

LEMMA BoundedWaiting ==
  ASSUME NEW S, NEW a, NEW self, Good(S, a, None), Ready(S, self), Bounded(S, 0),
         Fresh(S, self)
  PROVE  Bounded(Waiting(S, self), 0)
<1> DEFINE W == Waiting(S, self)
<1>1. S \in Scheds /\ S.waitq \in Seq(Tid) /\ self \in Tid
  BY Leaving DEF Good, Scheds
<1>2. /\ W.elems = S.elems /\ W.nonDet = S.nonDet /\ W.runq = S.runq /\ W.age = S.age
      /\ W.late = S.late /\ W.waitq = Append(S.waitq, self)
  BY <1>1 DEF Waiting, Scheds
<1> HIDE DEF W
<1>3. ToSet(W.waitq) = ToSet(S.waitq) \cup {self}
  BY <1>1, <1>2, AppendProps
<1>4. QED
  BY <1>2, <1>3 DEF Bounded, Fresh, W

LEMMA BoundedInserted ==
  ASSUME clockBound, NEW S, NEW a, NEW self, Good(S, a, None), Holds(S, self),
         a[self] \in {"block", "started"}, Bounded(S, 0)
  PROVE  Bounded(insertIfBound(S, <<self>>), 0)
<1> DEFINE o == <<self>>
           Z == insertIfBound(S, o)
<1>1. /\ Good(Z, a, self) /\ SameBut(S, Z) /\ Z.waitq = S.waitq /\ Z.runq = S.runq
      /\ Z.nonDet = S.nonDet \o o
      /\ \A t \in Tid : /\ Z.age[t] = IF t = self THEN 0 ELSE S.age[t]
                        /\ Z.late[t] = IF t = self THEN 0 ELSE S.late[t]
  <2>1. Entered(S, Z, a, self)
    BY Inserted
  <2> HIDE DEF Z
  <2>2. QED
    BY <2>1 DEF Entered
<1>2. /\ self \in Tid /\ o \in Seq(Tid) /\ self \in S.elems /\ self \notin ToSet(S.waitq)
      /\ ToSet(o) = {self} /\ self \in ToSet(S.runq)
  BY HolderFacts DEF Holds, ToSet
<1> HIDE DEF o, Z
<1>3. /\ S.nonDet \in Seq(Tid) /\ S.runq \in Seq(Tid) /\ S.late \in [Tid -> 0 .. TwoRounds + 1]
      /\ Z.age \in [Tid -> Int] /\ Z.late \in [Tid -> Int] /\ Len(S.nonDet \o o) <= NThread
  BY <1>1, SchedFacts
<1>4. self \notin ToSet(S.nonDet)
  <2>1. AwayOK(S, a, None) /\ self # None
    BY <1>2, Constants DEF Good
  <2>2. QED
    BY <1>2, <2>1 DEF AwayOK
<1>5. \A i \in 1 .. Len(S.nonDet) : /\ Z.age[S.nonDet[i]] = S.age[S.nonDet[i]]
                                    /\ Z.late[S.nonDet[i]] = S.late[S.nonDet[i]]
  <2>1. \A i \in 1 .. Len(S.nonDet) : S.nonDet[i] \in Tid /\ S.nonDet[i] # self
    BY <1>3, <1>4, InToSet, SMTT(60)
  <2>2. QED
    BY <1>1, <2>1
<1>6. Sorted(S.nonDet, Z.age) /\ Clocked(S.nonDet, Z.age) /\ Soon(S.nonDet, Z.late, NThread)
  BY <1>5 DEF Bounded, Sorted, Clocked, Soon
<1>7. Sorted(Z.nonDet, Z.age) /\ Clocked(Z.nonDet, Z.age) /\ Soon(Z.nonDet, Z.late, NThread)
  <2>1. \A t \in ToSet(o) : Z.age[t] = 0 /\ Z.late[t] = 0
    BY <1>1, <1>2
  <2>2. QED
    BY <1>1, <1>2, <1>3, <1>6, <2>1, SetBehind, ZenonT(60)
<1>8. Soon(Z.runq, Z.late, TwoRounds + 0)
  <2> SUFFICES ASSUME NEW i \in 1 .. Len(S.runq) PROVE Z.late[S.runq[i]] + i <= TwoRounds + 0
    BY <1>1 DEF Soon
  <2>1. S.runq[i] \in Tid /\ S.late[S.runq[i]] + i <= TwoRounds + 0 /\ i \in Int
    BY <1>3 DEF Bounded, Soon
  <2>2. S.late[S.runq[i]] \in Int /\ S.late[S.runq[i]] >= 0
    BY <1>3, <2>1
  <2>3. Z.late[S.runq[i]] = 0 \/ Z.late[S.runq[i]] = S.late[S.runq[i]]
    BY <1>1, <2>1
  <2>4. QED
    BY <2>1, <2>2, <2>3, Numbers
<1>9. \A u \in Tid : u \in ToSet(Z.waitq) \/ u \notin Z.elems => Fresh(Z, u)
  BY <1>1, <1>2 DEF Bounded, Fresh, SameBut
<1>10. QED
  BY <1>7, <1>8, <1>9 DEF Bounded, Z, o

LEMMA BoundedCreated ==
  ASSUME clockBound, NEW S, NEW Z, NEW a, NEW b, NEW new \in Tid, Good(S, a, None), Bounded(S, 0),
         Good(Z, b, None), new \notin S.elems, Z.runq = S.runq \o <<new>>,
         Z.elems = S.elems \cup {new}, Z.waitq = S.waitq, Z.nonDet = S.nonDet, Z.age = S.age,
         Z.late = S.late
  PROVE  Bounded(Z, 0)
<1> DEFINE o == <<new>>
<1>1. /\ S.runq \in Seq(Tid) /\ S.late \in [Tid -> Int] /\ Len(S.runq \o o) <= NThread
  BY SchedFacts
<1>2. o \in Seq(Tid) /\ ToSet(o) = {new}
  BY DEF ToSet
<1>3. Fresh(S, new)
  BY DEF Bounded
<1> HIDE DEF o
<1>4. \A t \in ToSet(o) : S.late[t] <= NThread - 1
  BY <1>2, <1>3, Numbers DEF Fresh
<1>5. Soon(S.runq \o o, S.late, TwoRounds + 0)
  BY <1>1, <1>2, <1>4, SoonBehind DEF Bounded
<1>6. \A u \in Tid : u \in ToSet(Z.waitq) \/ u \notin Z.elems => Fresh(Z, u)
  BY DEF Bounded, Fresh
<1>7. QED
  BY <1>5, <1>6 DEF Bounded, o

-----------------------------------------------------------------------------
(* The bound, action by action. *)

\* Until it is to leave, the thread with the turn has no clock.
Early == {"none", "put", "wait", "end", "try"}
BoundOK(S, d) ==
  clockBound => Bounded(S, 0) /\ (S.holder # None /\ d \in Early => Fresh(S, S.holder))

\* What a step does to the set and to the status of threads changes nothing here.
LEMMA BoundedSame ==
  ASSUME NEW S, NEW d, NEW Z, NEW e, BoundOK(S, d), Z.elems = S.elems, Z.holder = S.holder,
         Z.runq = S.runq, Z.waitq = S.waitq, Z.nonDet = S.nonDet, Z.age = S.age, Z.late = S.late,
         e \in Early => d \in Early
  PROVE  BoundOK(Z, e)
  BY DEF BoundOK, Bounded, Fresh

\* The first part of an operation, after what it does to the state.
LEMMA BoundedBegin ==
  ASSUME clockBound, NEW Z, NEW a, NEW x, NEW t, NEW d, Good(Z, a, x), Holds(Z, t), x \in {None, t},
         Bounded(Z, 0), d \in Early => Fresh(Z, t)
  PROVE  BoundOK(incTurnCount(Z), d)
<1> DEFINE I == incTurnCount(Z)
<1>1. I.holder = t /\ t \in ToSet(Z.runq) /\ t \in Tid
  BY Incremented, HolderFacts DEF SameBut, Holds
<1>2. Bounded(I, 0) /\ \A u \in Tid : Fresh(Z, u) => Fresh(I, u)
  BY <1>1, BoundedInc
<1> HIDE DEF I
<1>3. QED
  BY <1>1, <1>2 DEF BoundOK, I

LEMMA BoundTurn ==
  ASSUME Inv, clockBound, BoundOK(sch, todo), NEW t \in Tid,
         threadBegin(t) \/ Operate(t) \/ Joined(t) \/ End(t) \/ (t = Idle /\ IdleTurn)
  PROVE  BoundOK(sch', todo')
<1>1. Has(t) /\ sch' = incTurnCount(sch)
  BY DEF threadBegin, Operate, Joined, End, IdleTurn, Begin
<1>2. Holds(sch, t) /\ Good(sch, at, None) /\ todo = "none"
  BY <1>1, HasHolds DEF Has
<1>3. Bounded(sch, 0) /\ Fresh(sch, t)
  BY <1>2, Constants DEF BoundOK, Holds, Early
<1>4. QED
  BY <1>1, <1>2, <1>3, BoundedBegin

LEMMA BoundBlock ==
  ASSUME Inv, clockBound, BoundOK(sch, todo), NEW t \in Tid, Block(t)
  PROVE  BoundOK(sch', todo')
<1> DEFINE Z == insertIfBound(sch, <<t>>)
<1>1. Has(t) /\ at[t] \in {"block", "started"} /\ sch' = incTurnCount(Z) /\ todo' = "block"
  BY DEF Block, Begin
<1>2. Holds(sch, t) /\ Good(sch, at, None) /\ Bounded(sch, 0)
  BY <1>1, HasHolds DEF BoundOK
<1>3. Good(Z, at, t) /\ Holds(Z, t)
  <2>1. Entered(sch, Z, at, t)
    BY <1>1, <1>2, Inserted
  <2> HIDE DEF Z
  <2>2. QED
    BY <2>1 DEF Entered
<1>4. Bounded(Z, 0)
  BY <1>1, <1>2, BoundedInserted
<1> HIDE DEF Z
<1>5. todo' \notin Early
  BY <1>1 DEF Early
<1>6. QED
  BY <1>1, <1>3, <1>4, <1>5, BoundedBegin

LEMMA BoundCreate ==
  ASSUME Inv, clockBound, BoundOK(sch, todo), NEW t \in Tid, Create(t)
  PROVE  BoundOK(sch', todo')
<1> DEFINE new == Cardinality(sch.elems)
           Z == create(sch, new)
           b == [at EXCEPT ![t] = "app", ![new] = IF new = Idle THEN "idle" ELSE "begin"]
<1>1. /\ Has(t) /\ at[t] \in {"spawn", "app"} /\ new < NThread /\ sch' = incTurnCount(Z)
  BY DEF Create, Begin
<1>2. Holds(sch, t) /\ Good(sch, at, None) /\ todo = "none"
  BY <1>1, HasHolds DEF Has
<1>3. new \in Tid /\ new \notin sch.elems /\ at \in [Tid -> Places] /\ t \in sch.elems
  BY <1>1, <1>2, InvFacts, NewTid, HolderFacts
<1>4. new = Cardinality(sch.elems)
  OBVIOUS
<1> HIDE DEF new
<1>5. /\ b \in [Tid -> Places] /\ b[t] = "app" /\ new # t
      /\ b[new] = (IF new = Idle THEN "idle" ELSE "begin")
      /\ \A u \in Tid \ {t, new} : b[u] = at[u]
  BY <1>3 DEF Places
<1> HIDE DEF b
<1>6. /\ Good(Z, b, None) /\ Holds(Z, t) /\ Z.waitq = sch.waitq /\ Z.runq = sch.runq \o <<new>>
      /\ Z.nonDet = sch.nonDet /\ Z.age = sch.age /\ Z.late = sch.late
      /\ Z.elems = sch.elems \cup {new}
  BY <1>1, <1>2, <1>4, <1>5, CreateStep, ZenonT(60)
<1>7. Bounded(sch, 0) /\ Fresh(sch, t)
  BY <1>2, Constants DEF BoundOK, Holds, Early
<1> HIDE DEF Z
<1>8. Bounded(Z, 0)
  BY <1>2, <1>3, <1>6, <1>7, BoundedCreated
<1>9. Fresh(Z, t)
  BY <1>6, <1>7 DEF Fresh
<1>10. QED
  BY <1>1, <1>6, <1>8, <1>9, BoundedBegin

\* Noting a channel and counting regions.
LEMMA BoundNoting ==
  ASSUME Inv, clockBound, BoundOK(sch, todo), NEW t \in Tid, Has(t), NEW k \in Int, NEW c \in Channels,
         sch' = incTurnCount(Noting(sch, t, k, c))
  PROVE  BoundOK(sch', todo')
<1> DEFINE Z == Noting(sch, t, k, c)
<1>1. Holds(sch, t) /\ Good(sch, at, None) /\ todo = "none"
  BY HasHolds DEF Has
<1>2. Bounded(sch, 0) /\ Fresh(sch, t)
  BY <1>1, Constants DEF BoundOK, Holds, Early
<1>3. /\ Good(Z, at, None) /\ Holds(Z, t) /\ Z.elems = sch.elems /\ Z.waitq = sch.waitq
      /\ Z.runq = sch.runq /\ Z.nonDet = sch.nonDet /\ Z.age = sch.age /\ Z.late = sch.late
  BY <1>1, Noted
<1>4. sch' = incTurnCount(Z)
  OBVIOUS
<1> HIDE DEF Z
<1>5. Bounded(Z, 0) /\ Fresh(Z, t)
  BY <1>2, <1>3 DEF Bounded, Fresh
<1>6. QED
  BY <1>3, <1>4, <1>5, BoundedBegin

LEMMA BoundWaitOn ==
  ASSUME Inv, clockBound, BoundOK(sch, todo), NEW t \in Tid,
         NonDetStart(t) \/ Join(t) \/ NonDetStarted(t)
  PROVE  BoundOK(sch', todo')
<1>1. Has(t) /\ sch \in Scheds
  BY InvFacts DEF NonDetStart, Join, NonDetStarted
<1>2. CASE NonDetStart(t)
  <2>1. sch' = incTurnCount(Noting(sch, t, sch.nNonDetWait + 1, nonDetCV))
    BY <1>1, <1>2 DEF NonDetStart, WaitOn, Begin, Scheds, Noting
  <2>2. nonDetCV \in Channels /\ sch.nNonDetWait + 1 \in Int
    BY <1>1 DEF Channels, Scheds
  <2>3. QED
    BY <1>1, <2>1, <2>2, BoundNoting
<1>3. CASE Join(t)
  <2>1. PICK u \in sch.elems : WaitOn(t, sch, EndOf(u), "join")
    BY <1>3 DEF Join
  <2>2. EndOf(u) \in Channels /\ sch.nNonDetWait \in Int
    BY <1>1, <2>1 DEF Channels, Scheds
  <2>3. [sch EXCEPT !.chan[t] = EndOf(u)] = Noting(sch, t, sch.nNonDetWait, EndOf(u))
    BY <1>1 DEF Scheds, Noting
  <2>4. sch' = incTurnCount(Noting(sch, t, sch.nNonDetWait, EndOf(u)))
    BY <2>1, <2>3 DEF WaitOn, Begin
  <2>5. QED
    BY <1>1, <2>2, <2>4, BoundNoting
<1>4. CASE NonDetStarted(t)
  <2> DEFINE k == sch.nNonDetWait - 1
             c == sch.chan[t]
  <2>1. sch' = incTurnCount([sch EXCEPT !.nNonDetWait = @ - 1])
    BY <1>4 DEF NonDetStarted, Begin
  <2>2. /\ [sch.chan EXCEPT ![t] = c] = sch.chan /\ k \in Int /\ c \in Channels
    BY <1>1 DEF Scheds
  <2>3. Noting(sch, t, k, c) = [sch EXCEPT !.nNonDetWait = k, !.chan = [sch.chan EXCEPT ![t] = c]]
    BY <1>1 DEF Scheds, Noting
  <2>4. Noting(sch, t, k, c) = [sch EXCEPT !.nNonDetWait = @ - 1]
    BY <1>1, <2>2, <2>3 DEF Scheds
  <2> HIDE DEF k, c
  <2>5. QED
    BY <1>1, <2>1, <2>2, <2>4, BoundNoting
<1>5. QED
  BY <1>2, <1>3, <1>4

\* The rest of the operations.
LEMMA BoundedScan ==
  ASSUME NEW S, NEW d \in {"scan", "scanEnd"}, Bounded(S, 0)
  PROVE  BoundOK(S, d)
  BY DEF BoundOK, Early

LEMMA BoundPutTurn ==
  ASSUME Inv, clockBound, BoundOK(sch, todo), PutTurn
  PROVE  BoundOK(sch', todo')
<1> DEFINE h == sch.holder
<1>1. todo = "put" /\ sch' = putTurn(sch, h) /\ todo' = "scan"
  BY DEF PutTurn, Rest
<1>2. h \in Tid /\ Ready(sch, h) /\ at[h] # "start" /\ sch.status[h] = "RUNNING_REG" /\ Good(sch, at, None)
  BY <1>1, WorkFacts, InvFacts DEF Working, TodoOK
<1>3. Bounded(sch, 0) /\ Fresh(sch, h)
  BY <1>1, <1>2, Constants DEF BoundOK, Early
<1>4. QED
  BY <1>1, <1>2, <1>3, BoundedPut, BoundedScan

LEMMA BoundedLeave ==
  ASSUME clockBound, NEW S \in Scheds, NEW a, NEW self \in Tid, S.runq # <<>>, NEW k \in {0, 1},
         S.status[self] \in {"RUNNING_REG", "RUNNING_INTER_PRO"}, Good(Gone(S, self), a, None),
         Bounded(S, k)
  PROVE  Bounded(next(S, self), 0)
<1>1. Bounded(Gone(S, self), 0)
  BY BoundedGone
<1>2. next(S, self) = check_wakeup(Gone(S, self))
  BY NextIsGone
<1>3. QED
  BY <1>1, <1>2, BoundedWakeup

LEMMA BoundWait ==
  ASSUME Inv, clockBound, BoundOK(sch, todo), Wait
  PROVE  BoundOK(sch', todo')
<1> DEFINE h == sch.holder
           W == Waiting(sch, h)
<1>1. todo = "wait" /\ sch' = next(W, h) /\ todo' = "scan"
  BY DEF Wait, Rest, Waiting
<1>2. h \in Tid /\ Ready(sch, h) /\ at[h] \in {"start", "join", "idle"}
      /\ (sch.chan[h] = nonDetCV <=> at[h] = "start")
      /\ sch.status[h] = "RUNNING_REG" /\ Good(sch, at, None)
  BY <1>1, WorkFacts, InvFacts DEF Working, TodoOK
<1>3. Bounded(sch, 0) /\ Fresh(sch, h)
  BY <1>1, <1>2, Constants DEF BoundOK, Early
<1>4. Good(Gone(W, h), at, None) /\ W \in Scheds /\ W.status = sch.status
  BY <1>2, LeaveWait
<1>5. Bounded(W, 0)
  BY <1>2, <1>3, BoundedWaiting
<1>6. W.runq # <<>>
  BY <1>2, <1>4 DEF Waiting, Good, Scheds, Ready
<1> HIDE DEF W, h
<1>7. Bounded(sch', 0)
  BY <1>1, <1>2, <1>4, <1>5, <1>6, BoundedLeave
<1>8. QED
  BY <1>1, <1>7, BoundedScan

LEMMA BoundLeave ==
  ASSUME Inv, clockBound, BoundOK(sch, todo), Leave
  PROVE  BoundOK(sch', todo')
<1> DEFINE h == sch.holder
           p == IF at[h] = "block" THEN "sys" ELSE "region"
           b == [at EXCEPT ![h] = p]
<1>1. todo = "block" /\ sch' = next(sch, h) /\ todo' = "scan"
  BY DEF Leave, Rest
<1>2. /\ h \in Tid /\ Ready(sch, h) /\ at[h] \in {"block", "started"} /\ Good(sch, at, h)
      /\ sch \in Scheds
      /\ IF at[h] = "block" THEN sch.status[h] = "RUNNING_INTER_PRO"
                            ELSE sch.status[h] = "RUNNING_REG"
  BY <1>1, WorkFacts, InvFacts DEF Working, TodoOK
<1>3. Good(Gone(sch, h), b, None)
  BY <1>2, LeaveBlock
<1>4. sch.runq # <<>> /\ Bounded(sch, 0) /\ sch.status[h] \in {"RUNNING_REG", "RUNNING_INTER_PRO"}
  BY <1>2 DEF Ready, BoundOK
<1> HIDE DEF b, h
<1>5. Bounded(sch', 0)
  BY <1>1, <1>2, <1>3, <1>4, BoundedLeave
<1>6. QED
  BY <1>1, <1>5, BoundedScan

LEMMA BoundPutTurnAtEnd ==
  ASSUME Inv, clockBound, BoundOK(sch, todo), PutTurnAtEnd
  PROVE  BoundOK(sch', todo')
<1> DEFINE h == sch.holder
           T == {t \in ToSet(sch.waitq) : sch.chan[t] = EndOf(h)}
           U == unwait(sch, T)
           C == countLate(U)
           B == checkNonDetBound(C)
           b == [at EXCEPT ![h] = "dead"]
<1>1. todo = "end" /\ sch' = putTurnAtEnd(sch, h) /\ todo' = "scanEnd"
  BY DEF PutTurnAtEnd, Rest
<1>2. /\ h \in Tid /\ Ready(sch, h) /\ at[h] = "app" /\ Good(sch, at, None)
      /\ sch.status[h] = "RUNNING_REG" /\ Bounded(sch, 0)
  BY <1>1, WorkFacts, InvFacts DEF Working, TodoOK, BoundOK
<1>3. Ended(sch, at, h)
  BY <1>2, Ending
<1>4. /\ putTurnAtEnd(sch, h) = next(B, h) /\ SameBut(sch, U) /\ SameBut(U, C) /\ SameBut(C, B)
      /\ Good(U, at, None) /\ Good(B, at, None) /\ Ready(B, h)
      /\ T \in SUBSET ToSet(sch.waitq) /\ InFront(sch.runq \o Only(sch.waitq, T), at)
  BY <1>3, Zenon DEF Ended
<1> HIDE DEF T
<1>5. Bounded(U, 0)
  BY <1>2, <1>4, BoundedUnwait
<1> HIDE DEF U
<1>6. Bounded(B, 1)
  <2>1. Bounded(B, 0 + 1)
    BY <1>4, <1>5, BoundedCheck
  <2>2. QED
    BY <2>1
<1> HIDE DEF B, C, h
<1>7. B.status[h] = "RUNNING_REG" /\ B \in Scheds /\ B.runq # <<>>
  BY <1>2, <1>4 DEF SameBut, Good, Ready
<1>8. Good(Gone(B, h), b, None)
  BY <1>2, <1>4, <1>7, LeaveEnd
<1> HIDE DEF b
<1>9. Bounded(sch', 0)
  BY <1>1, <1>2, <1>4, <1>6, <1>7, <1>8, BoundedLeave
<1>10. QED
  BY <1>1, <1>9, BoundedScan

LEMMA BoundTryPutTurn ==
  ASSUME Inv, BoundOK(sch, todo), TryPutTurn
  PROVE  BoundOK(sch', todo')
<1>1. sch \in Scheds /\ todo = "try" /\ todo' \in {"put", "wait"}
  BY InvFacts DEF TryPutTurn, Rest
<1>2. /\ sch'.elems = sch.elems /\ sch'.holder = sch.holder /\ sch'.runq = sch.runq
      /\ sch'.waitq = sch.waitq /\ sch'.nonDet = sch.nonDet /\ sch'.age = sch.age
      /\ sch'.late = sch.late
  BY <1>1 DEF Scheds, TryPutTurn
<1>3. todo \in Early
  BY <1>1 DEF Early
<1>4. QED
  BY <1>2, <1>3, BoundedSame

LEMMA BoundLastReturns ==
  ASSUME Inv, BoundOK(sch, todo), LastReturns
  PROVE  BoundOK(sch', todo')
<1>1. sch \in Scheds /\ sch' = [sch EXCEPT !.holder = None]
  BY InvFacts DEF LastReturns
<1>2. /\ sch'.elems = sch.elems /\ sch'.holder = None /\ sch'.runq = sch.runq
      /\ sch'.waitq = sch.waitq /\ sch'.nonDet = sch.nonDet /\ sch'.age = sch.age
      /\ sch'.late = sch.late
  BY <1>1 DEF Scheds
<1>3. QED
  BY <1>2 DEF BoundOK, Bounded, Fresh

LEMMA BoundNextRunnable ==
  ASSUME Inv, clockBound, BoundOK(sch, todo), nextRunnable
  PROVE  BoundOK(sch', todo')
<1> DEFINE W == Looked(sch, sch.holder)
<1>1. /\ todo \in {"scan", "scanEnd"}
      /\ \/ /\ W.runq # <<>> /\ W.status[Head(W.runq)] = "INTER_PRO_STOP"
            /\ sch' = popStopped(W) /\ todo' = todo
         \/ /\ W.runq # <<>> => W.status[Head(W.runq)] # "INTER_PRO_STOP"
            /\ sch' = giveTurn(W) /\ todo' = "none"
  BY Zenon DEF nextRunnable, Scanning, Looked
<1>2. Good(sch, at, None) /\ Bounded(sch, 0)
  BY <1>1, InvFacts DEF BoundOK
<1>3. Good(W, at, None) /\ SameBut(sch, W) /\ W.runq # <<>>
  BY <1>2, Looks
<1>4. Bounded(W, 0)
  <2>1. CASE sch.runq = <<>>
    <3>1. W = wakeUpIdleThread(sch)
      BY <2>1 DEF Looked
    <3>2. /\ wakeUpIdleThread(sch) = unwait(sch, {Idle}) /\ Idle \in ToSet(sch.waitq)
          /\ InFront(sch.runq \o Only(sch.waitq, {Idle}), at)
      BY <1>2, <2>1, WakeUpIdleThread
    <3> HIDE DEF W
    <3>3. QED
      BY <1>2, <3>1, <3>2, BoundedUnwait
  <2>2. CASE sch.runq # <<>>
    <3>1. W = wakeNonDet(sch, sch.holder)
      BY <2>2 DEF Looked
    <3> HIDE DEF W
    <3>2. RegionsWoken(sch, at, sch.holder, W)
      BY <1>2, <2>2, <3>1, WakeNonDet
    <3>3. /\ W.late = sch.late /\ W.age = sch.age /\ W.nonDet = sch.nonDet
          /\ \/ W.runq = sch.runq /\ W.waitq = sch.waitq
             \/ \E T \in SUBSET ToSet(sch.waitq) :
                  W = unwait(sch, T) /\ InFront(sch.runq \o Only(sch.waitq, T), at)
      BY <3>2, Zenon DEF RegionsWoken
    <3>4. CASE W.runq = sch.runq /\ W.waitq = sch.waitq
      BY <1>2, <1>3, <3>3, <3>4 DEF Bounded, Fresh, SameBut
    <3>5. CASE \E T \in SUBSET ToSet(sch.waitq) :
                 W = unwait(sch, T) /\ InFront(sch.runq \o Only(sch.waitq, T), at)
      BY <1>2, <3>5, BoundedUnwait
    <3>6. QED
      BY <3>3, <3>4, <3>5
  <2>3. QED
    BY <2>1, <2>2
<1> HIDE DEF W
<1>5. CASE W.status[Head(W.runq)] = "INTER_PRO_STOP"
  BY <1>1, <1>3, <1>4, <1>5, BoundedPop, BoundedScan
<1>6. CASE W.status[Head(W.runq)] # "INTER_PRO_STOP"
  BY <1>1, <1>3, <1>4, <1>6, BoundedGive DEF BoundOK
<1>7. QED
  BY <1>5, <1>6

\* Steps without the turn.
LEMMA BoundNoTurn ==
  ASSUME Inv, BoundOK(sch, todo), NEW t \in Tid,
         InterProStart(t) \/ InterProEnd(t) \/ Wakeup(t) \/ NonDetEnd(t)
  PROVE  BoundOK(sch', todo')
<1>1. sch \in Scheds /\ todo' = todo
  BY InvFacts DEF InterProStart, InterProEnd, Wakeup, NonDetEnd
<1>2. /\ sch'.elems = sch.elems /\ sch'.holder = sch.holder /\ sch'.runq = sch.runq
      /\ sch'.waitq = sch.waitq /\ sch'.nonDet = sch.nonDet /\ sch'.age = sch.age
      /\ sch'.late = sch.late
  BY <1>1, ZenonT(60) DEF Scheds, InterProStart, InterProEnd, Wakeup, NonDetEnd, Fail
<1>3. QED
  BY <1>1, <1>2, BoundedSame

LEMMA BoundNext ==
  ASSUME Inv, BoundOK(sch, todo), Next
  PROVE  BoundOK(sch', todo') /\ clockBound' = clockBound
<1>1. clockBound' = clockBound
  BY NextKept DEF Kept
<1>2. CASE ~clockBound
  BY <1>1, <1>2 DEF BoundOK
<1>3. CASE clockBound
  <2>1. ASSUME NEW t \in Tid, Go_on(t) PROVE BoundOK(sch', todo')
    BY <1>3, <2>1, BoundCreate, BoundTurn, BoundBlock, BoundWaitOn, BoundNoTurn DEF Go_on
  <2>2. ASSUME Finish PROVE BoundOK(sch', todo')
    BY <1>3, <2>2, BoundTryPutTurn, BoundPutTurn, BoundWait, BoundLeave, BoundPutTurnAtEnd,
       BoundLastReturns, BoundNextRunnable DEF Finish
  <2>3. Idle \in Tid
    BY Constants
  <2>4. QED
    BY <1>1, <1>3, <2>1, <2>2, <2>3, BoundTurn, BoundNoTurn DEF Next
<1>4. QED
  BY <1>2, <1>3

LEMMA BoundInit == Init => BoundOK(sch, todo)
<1> SUFFICES ASSUME Init PROVE BoundOK(sch, todo)
  OBVIOUS
<1> DEFINE e == <<>>
           o == <<Main>>
<1>1. /\ sch.elems = {Main} /\ sch.runq = o /\ sch.waitq = e /\ sch.holder = Main /\ sch.nonDet = e
      /\ sch.age = [t \in Tid |-> -1] /\ sch.late = [t \in Tid |-> 0]
  BY DEF Init
<1>2. Len(e) = 0 /\ Len(o) = 1 /\ o[1] = Main /\ Main \in Tid
  BY Constants
<1> HIDE DEF e, o
<1>3. Sorted(e, sch.age) /\ Clocked(e, sch.age) /\ Soon(e, sch.late, NThread)
  BY <1>2 DEF Sorted, Clocked, Soon
<1>4. Soon(o, sch.late, TwoRounds + 0)
  BY <1>1, <1>2, Numbers DEF Soon
<1>5. \A u \in Tid : Fresh(sch, u)
  BY <1>1 DEF Fresh
<1>6. QED
  BY <1>1, <1>2, <1>3, <1>4, <1>5 DEF BoundOK, Bounded

LEMMA BoundAlways == Spec => []BoundOK(sch, todo)
<1>1. Inv /\ BoundOK(sch, todo) /\ [Next]_vars => BoundOK(sch, todo)'
  <2> SUFFICES ASSUME Inv, BoundOK(sch, todo), [Next]_vars PROVE BoundOK(sch, todo)'
    OBVIOUS
  <2>1. BoundOK(sch', todo') /\ clockBound' = clockBound
    <3>1. CASE Next
      BY <3>1, BoundNext
    <3>2. CASE UNCHANGED vars
      BY <3>2 DEF vars, BoundOK, Bounded, Fresh
    <3>3. QED
      BY <3>1, <3>2
  <2>2. QED
    BY <2>1 DEF BoundOK, Bounded, Fresh, Sorted, Clocked, Soon
<1>2. QED
  BY <1>1, InvAlways, BoundInit, PTL DEF Spec

\* A thread in a region is away or queued again, and both places pay.
LEMMA BoundInv == Inv /\ BoundOK(sch, todo) => BoundHolds
<1> SUFFICES ASSUME Inv, BoundOK(sch, todo), clockBound, NEW t \in Tid, at[t] = "region"
             PROVE  sch.late[t] <= TwoRounds
  BY DEF BoundHolds
<1>1. /\ Good(sch, at, Entering(sch, todo)) /\ LocOK(sch, at) /\ AwayOK(sch, at, Entering(sch, todo)) /\ Bounded(sch, 0)
  BY InvFacts DEF BoundOK
<1>2. /\ sch.runq \in Seq(Tid) /\ sch.nonDet \in Seq(Tid) /\ sch.late \in [Tid -> Int]
  BY <1>1, SchedFacts
<1>3. t \in sch.elems /\ t \notin ToSet(sch.waitq)
  BY <1>1 DEF LocOK
<1>4. CASE t \in ToSet(sch.nonDet)
  <2>1. PICK i \in 1 .. Len(sch.nonDet) : sch.nonDet[i] = t
    BY <1>2, <1>4, InToSet DEF ToSet
  <2>2. sch.late[t] + i <= NThread /\ sch.late[t] \in Int /\ i \in Int /\ i >= 1
    BY <1>1, <1>2, <2>1 DEF Bounded, Soon
  <2>3. QED
    BY <2>2, Numbers
<1>5. CASE t \in ToSet(sch.runq)
  <2>1. PICK i \in 1 .. Len(sch.runq) : sch.runq[i] = t
    BY <1>2, <1>5, InToSet DEF ToSet
  <2>2. sch.late[t] + i <= TwoRounds + 0 /\ sch.late[t] \in Int /\ i \in Int /\ i >= 1
    BY <1>1, <1>2, <2>1 DEF Bounded, Soon
  <2>3. QED
    BY <2>2, Numbers
<1>6. QED
  BY <1>1, <1>3, <1>4, <1>5, Constants DEF AwayOK

\* With the bound on, an overdue region gets the turn before the others have put it for
\* more than two rounds of the threads there can be, for any number of threads and any
\* bound: checkNonDetBound() takes one overdue thread at a time, and that is enough.
THEOREM BoundHeld == Spec => []BoundHolds
  BY InvAlways, BoundAlways, BoundInv, PTL
===============================================================================
