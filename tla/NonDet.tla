------------------------------- MODULE NonDet -------------------------------
(* Non-deterministic regions (tern_non_det_start/end), the bound on how far the        *)
(* deterministic threads may run ahead of a thread outside the run queue               *)
(* (enforce_non_det_clock_bound), and what a forked child keeps of all that.           *)
(*                                                                                     *)
(* RRScheduler has the scheduler step by step; here sch is the scheduler's state and   *)
(* every function of the scheduler is an operator from one such state to the next.  An *)
(* operation with the turn is one step up to check_wakeup() in incTurnCount(), one up  *)
(* to check_wakeup() in next(), and one for every round of the loop in nextRunnable(): *)
(* each reads once what threads without the turn write.  Entering and leaving a        *)
(* blocking call, wakeup() and the end of a region come between any two of them.       *)
EXTENDS Integers, Sequences, FiniteSets, FiniteSetsExt, Queues

CONSTANTS
  NThread,     \* most threads of the process
  Bound,       \* options::non_det_clock_bound
  ClockBounds, \* values of options::enforce_non_det_clock_bound
  MaxThreads,  \* bound on the threads of a program, by that option
  WakeOrder,   \* the order in which inter_pro_wakeup_tids, a hash set, is gone through
  None

Tid == 0 .. NThread - 1

ASSUME NonDetAssumption ==
  /\ NThread \in Nat /\ NThread >= 2 /\ None \notin Tid
  /\ Bound \in Nat
  /\ ClockBounds \subseteq BOOLEAN /\ MaxThreads \in [ClockBounds -> 2 .. NThread]
  /\ WakeOrder \in Seq(Tid) /\ IsInjective(WakeOrder) /\ ToSet(WakeOrder) = Tid

VARIABLES
  clockBound, \* options::enforce_non_det_clock_bound
  sch,        \* the scheduler
  at,         \* where each thread is
  todo,       \* what the thread with the turn has still to do in the scheduler
  forked      \* this is a child process

vars == <<clockBound, sch, at, todo, forked>>

Main == 0
Idle == 1

\* One round of the threads until an overdue region is noticed, one until it is at the
\* head of the run queue.
TwoRounds == 2 * NThread
MaxAge == Bound + 1

\* The channels threads wait on.
nonDetCV == <<"nonDetCV", Main>>
idle_cond == <<"idle_cond", Idle>>
EndOf(t) == <<"end of", t>>

-----------------------------------------------------------------------------
(* The scheduler.  turnCount is kept as the age of every clock that was taken:    *)
(* turnCount minus that clock, up to MaxAge, -1 once the thread has the turn.       *)
(* bad tells which assertion failed; late is history, the number of putTurn() calls *)
(* a thread has been overdue for.                                                   *)

Fail(S, why) == IF S.bad = None THEN [S EXCEPT !.bad = why] ELSE S

\* run_queue::push_back of the threads of q: each needs an element, and may not be queued
\* already.
push_back(S, q) ==
  IF ~(ToSet(q) \subseteq S.elems) THEN Fail(S, "no element")
  ELSE IF ToSet(q) \cap ToSet(S.runq) # {} THEN Fail(S, "queued twice")
  ELSE [S EXCEPT !.runq = @ \o q]

\* non_det_thread_set::insert of the threads of q, and erase of the threads T.
nd_insert(S, q) ==
  IF ToSet(q) \cap ToSet(S.nonDet) # {} THEN Fail(S, "inserted twice")
  ELSE [S EXCEPT !.nonDet = @ \o q,
                 !.age = [t \in Tid |-> IF t \in ToSet(q) THEN 0 ELSE @[t]],
                 !.late = [t \in Tid |-> IF t \in ToSet(q) THEN 0 ELSE @[t]]]

nd_erase(S, T) ==
  IF ~(T \subseteq ToSet(S.nonDet)) THEN Fail(S, "not in the set")
  ELSE [S EXCEPT !.nonDet = Except(@, T)]

insertIfBound(S, q) == IF clockBound THEN nd_insert(S, q) ELSE S
eraseIfBound(S, T) == IF clockBound THEN nd_erase(S, T) ELSE S

\* Mutant: a thread that comes back by itself stays in the set.
check_wakeupKeeps(S) ==
  IF ~(S.wakeTids \subseteq S.elems) THEN Fail(S, "no element")
  ELSE [push_back(S, Only(WakeOrder, S.wakeTids \ ToSet(S.runq))) EXCEPT !.wakeTids = {}]
\* Threads that called wakeup() go back to the run queue; run_queue::in needs an element.
check_wakeup(S) ==
  LET back == S.wakeTids \ ToSet(S.runq)
  IN  IF ~(S.wakeTids \subseteq S.elems) THEN Fail(S, "no element")
      ELSE [eraseIfBound(push_back(S, Only(WakeOrder, back)), back) EXCEPT !.wakeTids = {}]

incTurnCount(S) ==
  check_wakeup([S EXCEPT !.age = [t \in Tid |->
                                    IF @[t] \in 0 .. MaxAge - 1 THEN @[t] + 1 ELSE @[t]]])

\* The threads T leave the wait queue (wait_t::reset) for the run queue.
unwait(S, T) ==
  push_back([S EXCEPT !.waitq = Except(@, T),
                      !.chan = [t \in Tid |-> IF t \in T THEN None ELSE @[t]]],
            Only(S.waitq, T))

signal(S, chan) == unwait(S, {t \in ToSet(S.waitq) : S.chan[t] = chan})

wakeUpIdleThread(S) ==
  IF Idle \notin ToSet(S.waitq) THEN Fail(S, "no idle thread")
  ELSE unwait(S, {Idle})

\* Mutant: the run queue is not looked at.
wakeNonDetEarly(S, self) ==
  IF S.nNonDetWait > 0 /\ self = Idle THEN signal(S, nonDetCV) ELSE S
\* The idle thread finds itself alone and lets the waiting regions start.
wakeNonDet(S, self) ==
  IF S.nNonDetWait > 0 /\ self = Idle /\ S.runq = <<Idle>> THEN signal(S, nonDetCV) ELSE S

\* A stopped thread at the head leaves the run queue; another one gets the turn.
popStopped(S) == insertIfBound([S EXCEPT !.runq = Tail(@)], <<Head(S.runq)>>)

giveTurn(S) ==
  LET head == Head(S.runq)
  IN  IF S.runq = <<>> THEN S
      ELSE [S EXCEPT !.holder = head, !.age[head] = -1, !.late[head] = 0,
                     !.status[head] = IF @ = "RUNNABLE" THEN "RUNNING_REG" ELSE @]

\* next() for a thread that is still at the head, up to the loop of nextRunnable().
next(S, self) ==
  LET S1 == CASE S.status[self] = "RUNNING_REG" -> [S EXCEPT !.status[self] = "RUNNABLE"]
              [] S.status[self] = "RUNNING_INTER_PRO" ->
                   [S EXCEPT !.status[self] = "INTER_PRO_STOP"]
              [] OTHER -> Fail(S, "status in next")
  IN  check_wakeup([S1 EXCEPT !.runq = Tail(@)])

\* Mutant: the bound is not enforced.
checkNonDetBoundOff(S) == S
\* The thread that is away longest is put back on the run queue when it is overdue.
checkNonDetBound(S) ==
  IF clockBound /\ S.nonDet # <<>> /\ S.age[Head(S.nonDet)] > Bound
  THEN nd_erase(push_back(S, <<Head(S.nonDet)>>), {Head(S.nonDet)})
  ELSE S

\* History: another putTurn() with these threads overdue.
countLate(S) ==
  [S EXCEPT !.late = [t \in Tid |-> IF S.age[t] > Bound /\ @[t] <= TwoRounds
                                    THEN @[t] + 1 ELSE @[t]]]

putTurn(S, self) ==
  LET S1 == IF S.status[self] # "RUNNING_REG" THEN Fail(S, "status in putTurn")
            ELSE [S EXCEPT !.status[self] = "RUNNABLE", !.runq = Append(Tail(@), self)]
  IN  check_wakeup(checkNonDetBound(countLate(S1)))

\* putTurn(true): who waits for the end of this thread is signalled.
putTurnAtEnd(S, self) == next(checkNonDetBound(countLate(signal(S, EndOf(self)))), self)

\* The first runnable thread behind the idle thread, which tryPutTurn() keeps from stopping.
ready(S) == {i \in 2 .. Len(S.runq) : S.status[S.runq[i]] = "RUNNABLE"}

create(S, t) == push_back([S EXCEPT !.elems = @ \cup {t}, !.status[t] = "RUNNABLE"], <<t>>)

\* childForkReturn(): queues, elements and waits are reset and the thread becomes the
\* main thread; wakeTids, nonDet and nNonDetWait keep what the parent had.
childForkReturn(S) ==
  [S EXCEPT !.elems = {Main}, !.runq = <<Main>>, !.waitq = <<>>, !.holder = Main,
            !.status = [t \in Tid |-> IF t = Main THEN "RUNNING_REG" ELSE "RUNNABLE"],
            !.chan = [t \in Tid |-> None]]

-----------------------------------------------------------------------------
(* Threads.  The main thread creates the idle thread, then workers.               *)

Has(t) == sch.bad = None /\ sch.holder = t /\ todo = "none"
Go(t, where) == at' = [at EXCEPT ![t] = where]
Same == UNCHANGED <<clockBound, forked>>

\* The first part of an operation: what it does to S, a turn counted, and what is left.
Begin(S, rest) == sch' = incTurnCount(S) /\ todo' = rest

\* pthreadCreate, and the new thread's first operation.
Create(t) ==
  LET new == Cardinality(sch.elems)
  IN  /\ Has(t) /\ new < NThread /\ new < MaxThreads[clockBound] /\ at[t] \in {"spawn", "app"}
      /\ Begin(create(sch, new), "put")
      /\ at' = [at EXCEPT ![t] = "app", ![new] = IF new = Idle THEN "idle" ELSE "begin"]
      /\ Same

threadBegin(t) ==
  /\ Has(t) /\ at[t] = "begin"
  /\ Begin(sch, "put")
  /\ Go(t, "app") /\ Same

\* Any operation that takes the turn once and does not wait.
Operate(t) ==
  /\ Has(t) /\ at[t] = "app"
  /\ Begin(sch, "put")
  /\ Same /\ UNCHANGED at

\* block(), for a blocking call and for a region.
Block(t) ==
  /\ Has(t) /\ at[t] \in {"block", "started"}
  /\ Begin(insertIfBound(sch, <<t>>), "block")
  /\ Same /\ UNCHANGED at

\* wait(): the channel is noted already, nobody looks before the thread is queued.
WaitOn(t, S, chan, where) ==
  /\ Begin([S EXCEPT !.chan[t] = chan], "wait")
  /\ Go(t, where) /\ Same

\* Mutant: the waiting regions are not counted.
NonDetStartUncounted(t) ==
  /\ Has(t) /\ at[t] = "app"
  /\ WaitOn(t, sch, nonDetCV, "start")
\* nonDetStart(): wait until everybody else is paused, give back the turn, and leave
\* the run queue with one more turn.
NonDetStart(t) ==
  /\ Has(t) /\ at[t] = "app"
  /\ WaitOn(t, [sch EXCEPT !.nNonDetWait = @ + 1], nonDetCV, "start")

NonDetStarted(t) ==
  /\ Has(t) /\ at[t] = "start"
  /\ Begin([sch EXCEPT !.nNonDetWait = @ - 1], "put")
  /\ Go(t, "started") /\ Same

\* The main thread waits for a worker; it is woken when that has ended.
Join(t) ==
  /\ Has(t) /\ t = Main /\ at[t] = "app"
  /\ \E u \in sch.elems \ {Main, Idle} :
       at[u] # "dead" /\ WaitOn(t, sch, EndOf(u), "join")

Joined(t) ==
  /\ Has(t) /\ at[t] = "join"
  /\ Begin(sch, "put")
  /\ Go(t, "app") /\ Same

\* A thread ends, the main thread after its workers.
End(t) ==
  /\ Has(t) /\ at[t] = "app"
  /\ t = Main => \A u \in sch.elems \ {Main, Idle} : at[u] = "dead"
  /\ Begin(sch, "end")
  /\ Same /\ UNCHANGED at

\* idle_thread(): turns that are put at once, and idle_cond_wait().
IdleTurn ==
  /\ Has(Idle)
  /\ \/ Begin(sch, "put")
     \/ Begin(sch, "try")
  /\ Same /\ UNCHANGED at

-----------------------------------------------------------------------------
(* The rest of an operation.  sch.holder is the thread that has the turn until the *)
(* loop of nextRunnable() passes it on.                                            *)

Rest(what) == sch.bad = None /\ todo = what

\* The idle thread keeps another one from stopping and sleeps, or else puts the turn.
TryPutTurn ==
  /\ Rest("try")
  /\ \/ /\ ready(sch) = {}
        /\ todo' = "put" /\ UNCHANGED sch
     \/ /\ ready(sch) # {}
        /\ sch' = [sch EXCEPT !.status[sch.runq[Min(ready(sch))]] = "RUNNING_REG",
                              !.chan[Idle] = idle_cond]
        /\ todo' = "wait"
  /\ Same /\ UNCHANGED at

PutTurn ==
  /\ Rest("put")
  /\ sch' = putTurn(sch, sch.holder) /\ todo' = "scan"
  /\ Same /\ UNCHANGED at

Wait ==
  /\ Rest("wait")
  /\ sch' = next([sch EXCEPT !.waitq = Append(@, sch.holder)], sch.holder) /\ todo' = "scan"
  /\ Same /\ UNCHANGED at

Leave ==
  /\ Rest("block")
  /\ sch' = next(sch, sch.holder) /\ todo' = "scan"
  /\ Go(sch.holder, IF at[sch.holder] = "block" THEN "sys" ELSE "region") /\ Same

PutTurnAtEnd ==
  /\ Rest("end")
  /\ sch' = putTurnAtEnd(sch, sch.holder) /\ todo' = "scanEnd"
  /\ Go(sch.holder, "dead") /\ Same

\* A round of the loop: nobody is left to pass the turn to; or a stopped thread at the
\* head is removed and the loop goes on; or the head gets the turn.
Scanning == sch.bad = None /\ todo \in {"scan", "scanEnd"}
NobodyLeft ==
  sch.runq = <<>> /\ todo = "scanEnd" /\ (sch.waitq = <<>> \/ sch.holder = Main)

LastReturns ==
  /\ Scanning /\ NobodyLeft
  /\ sch' = [sch EXCEPT !.holder = None] /\ todo' = "none"
  /\ Same /\ UNCHANGED at

nextRunnable ==
  LET S == IF sch.runq = <<>> THEN wakeUpIdleThread(sch) ELSE wakeNonDet(sch, sch.holder)
      stopped == S.runq # <<>> /\ S.status[Head(S.runq)] = "INTER_PRO_STOP"
  IN  /\ Scanning /\ ~NobodyLeft
      /\ \/ stopped /\ sch' = popStopped(S) /\ UNCHANGED todo
         \/ ~stopped /\ sch' = giveTurn(S) /\ todo' = "none"
      /\ Same /\ UNCHANGED at

-----------------------------------------------------------------------------
(* Steps without the turn, of threads that are not in the scheduler.                *)

Outside(t) == sch.bad = None /\ ~(sch.holder = t /\ todo # "none")

\* A blocking call: without the turn if the thread does not have it.
InterProStart(t) ==
  /\ Outside(t) /\ at[t] = "app"
  /\ IF sch.status[t] = "RUNNABLE"
     THEN sch' = [sch EXCEPT !.status[t] = "INTER_PRO_STOP"] /\ Go(t, "sys")
     ELSE /\ sch' = IF sch.status[t] = "RUNNING_REG"
                    THEN [sch EXCEPT !.status[t] = "RUNNING_INTER_PRO"]
                    ELSE Fail(sch, "status in interProStart")
          /\ Go(t, "block")
  /\ Same /\ UNCHANGED todo

InterProEnd(t) ==
  /\ Outside(t) /\ at[t] = "sys"
  /\ sch' = IF sch.status[t] = "INTER_PRO_STOP" THEN [sch EXCEPT !.status[t] = "RUNNABLE"]
            ELSE Fail(sch, "status in interProEnd")
  /\ Go(t, "wakeup")
  /\ Same /\ UNCHANGED todo

Wakeup(t) ==
  /\ Outside(t) /\ at[t] = "wakeup"
  /\ sch' = [sch EXCEPT !.wakeTids = @ \cup {t}] /\ Go(t, "app")
  /\ Same /\ UNCHANGED todo

\* Mutant: the scheduler is not told of the end.
NonDetEndSilent(t) ==
  /\ Outside(t) /\ at[t] = "region"
  /\ Go(t, "app") /\ Same /\ UNCHANGED <<sch, todo>>
\* nonDetEnd(), and nonDetBarrierEnd(): no turn is taken.
NonDetEnd(t) ==
  /\ Outside(t) /\ at[t] = "region"
  /\ sch' = [sch EXCEPT !.wakeTids = @ \cup {t}] /\ Go(t, "app")
  /\ Same /\ UNCHANGED todo

\* __fork(), followed in the child.
ForkChild(t) ==
  /\ ~forked /\ Has(t) /\ at[t] = "app"
  /\ Begin(childForkReturn(sch), "put")
  /\ at' = [u \in Tid |-> IF u = Main THEN "spawn" ELSE "none"]
  /\ forked' = TRUE /\ UNCHANGED clockBound

-----------------------------------------------------------------------------
Init ==
  /\ clockBound \in ClockBounds
  /\ sch = [elems |-> {Main}, runq |-> <<Main>>, waitq |-> <<>>, holder |-> Main,
            status |-> [t \in Tid |-> IF t = Main THEN "RUNNING_REG" ELSE "RUNNABLE"],
            chan |-> [t \in Tid |-> None], wakeTids |-> {}, nonDet |-> <<>>,
            age |-> [t \in Tid |-> -1], late |-> [t \in Tid |-> 0],
            nNonDetWait |-> 0, bad |-> None]
  /\ at = [t \in Tid |-> IF t = Main THEN "spawn" ELSE "none"]
  /\ todo = "none"
  /\ forked = FALSE

\* Steps a thread takes with the turn, and on its way back from a call or a region.
Go_on(t) ==
  \/ Create(t) \/ threadBegin(t) \/ Operate(t) \/ Block(t) \/ Wakeup(t) \/ NonDetStart(t)
  \/ NonDetStarted(t) \/ NonDetEnd(t) \/ Join(t) \/ Joined(t) \/ End(t)

\* Steps inside the scheduler.
Finish ==
  \/ TryPutTurn \/ PutTurn \/ Wait \/ Leave \/ PutTurnAtEnd \/ LastReturns \/ nextRunnable

Next ==
  \/ \E t \in Tid : Go_on(t) \/ InterProStart(t) \/ InterProEnd(t)
  \/ IdleTurn \/ Finish

Spec == Init /\ [][Next]_vars

\* The same with fork(), followed in the child.
ForkSpec == Init /\ [][Next \/ \E t \in Tid : ForkChild(t)]_vars

\* When a step of Go_on is possible (ENABLED Go_on(t), written out for TLC).
CanGo(t) ==
  \/ Outside(t) /\ at[t] \in {"wakeup", "region"}
  \/ Has(t) /\ at[t] \in {"spawn", "begin", "app", "block", "start", "started", "join"}

\* Weak fairness: a thread with the turn goes on, a region ends, wakeup() returns, the
\* idle thread loops and the scheduler's code runs on.  A blocking call need not return.
FairSpec ==
  /\ Spec
  /\ \A t \in Tid : <>[]CanGo(t) => []<><<Go_on(t)>>_vars
  /\ <>[]Has(Idle) => []<><<IdleTurn>>_vars
  /\ <>[](sch.bad = None /\ todo # "none") => []<><<Finish>>_vars

-----------------------------------------------------------------------------
(* Properties.                                                                    *)

TypeOK ==
  /\ sch.runq \in Seq(Tid) /\ sch.waitq \in Seq(Tid) /\ sch.nonDet \in Seq(Tid)
  /\ sch.elems \subseteq Tid /\ sch.wakeTids \subseteq Tid /\ sch.nNonDetWait \in Nat
  /\ sch.holder \in Tid \cup {None}
  /\ sch.status \in [Tid -> {"RUNNABLE", "RUNNING_REG", "RUNNING_INTER_PRO",
                             "INTER_PRO_STOP"}]
  /\ sch.age \in [Tid -> -1 .. MaxAge] /\ sch.late \in [Tid -> 0 .. TwoRounds + 1]
  /\ at \in [Tid -> {"none", "spawn", "begin", "app", "block", "sys", "wakeup", "start",
                    "started", "region", "join", "dead", "idle"}]
  /\ todo \in {"none", "put", "wait", "block", "end", "try", "scan", "scanEnd"}

\* The bookkeeping of bounded non-determinism agrees with the run queue: no assertion
\* of the scheduler or of non_det_thread_set fails, a thread that is away is in the set
\* exactly while it is in neither queue, or in block() on its way out of one, and the
\* count of waiting regions is right.
NonDetConsistent ==
  /\ TypeOK /\ sch.bad = None
  /\ clockBound =>
       \A t \in sch.elems :
         t \in ToSet(sch.nonDet) <=>
           \/ at[t] # "dead" /\ t \notin ToSet(sch.runq \o sch.waitq)
           \/ todo = "block" /\ t = sch.holder
  /\ sch.nNonDetWait = Cardinality({t \in Tid : at[t] = "start"})

\* With the bound on, a thread in a region that is overdue gets the turn, which then
\* stays with it until the region ends, before the others have put the turn for more
\* than two rounds.  Turns that end in a wait or a blocking call do not count: those
\* paths do not look at the bound.
BoundHolds ==
  clockBound => \A t \in Tid : at[t] = "region" => sch.late[t] <= TwoRounds

\* What the comment in nonDetStart() says of the wait on nonDetCV: the threads that wait
\* are woken when all other threads but the idle thread are paused, in a call, a region or
\* a wait.
StartWhenPaused ==
  [][\A t \in Tid :
       t \in ToSet(sch.waitq) /\ at[t] = "start" /\ t \notin ToSet(sch'.waitq) =>
         \A u \in sch.elems \ {Idle} :
           at[u] \in {"start", "sys", "wakeup", "region", "dead"} \/ u \in ToSet(sch'.waitq)]_vars

\* Once woken, regions start before anything else: only the idle thread and threads
\* about to enter their regions are ahead of a woken thread on the run queue, so whoever
\* comes back from a call while they are woken gets no turn before they have had theirs.
RegionsFirst ==
  \A i, j \in 1 .. Len(sch.runq) :
    i < j /\ at[sch.runq[j]] = "start" => at[sch.runq[i]] \in {"start", "started", "idle"}

\* Everybody but the idle thread is in a call, a region or a wait, or has ended.
Quiet ==
  \A u \in Tid \ {Idle} :
    at[u] \in {"none", "start", "join", "sys", "wakeup", "region", "dead"}

\* The wait for a region to start has no timeout, and one thing only can make it last:
\* other threads keep coming back.  Once they stay paused, the region starts.
RegionStarts == \A t \in Tid : <>[](at[t] = "start") => []<>~Quiet

\* A thread back from a call or a region gets the turn again when it needs it.
TurnComesBack == \A t \in Tid : at[t] = "app" ~> Has(t) \/ at[t] # "app"

\* After fork() the child's scheduler knows only the child's threads.
ChildIsReset == forked => sch.bad = None
==============================================================================
