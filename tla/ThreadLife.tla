----------------------------- MODULE ThreadLife -----------------------------
(***************************************************************************)
(* The life of a thread: pthreadCreate, threadBegin, threadEnd,            *)
(* pthreadJoin and __pthread_detach of the recorder runtime                *)
(* (lib/runtime/record-runtime.cpp) with the maps of TidMap                *)
(* (include/tern/runtime/scheduler.h).                                     *)
(*                                                                         *)
(* A new thread is created suspended on thread_begin_sem, so that its      *)
(* creator can put it in the maps first, and the creator waits for it on   *)
(* thread_begin_done_sem.  The semaphores are shared by all creations and  *)
(* are used AFTER the creator has passed the turn on, so they are the part *)
(* of creation that the turn does not order.                               *)
(*                                                                         *)
(* Pthread ids are the kernel's: it hands an id out again once its thread  *)
(* was joined, or was detached and has exited.  State is per pthread id.   *)
(* The scheduler is its round-robin run queue: the thread at the head has  *)
(* the turn.                                                               *)
(***************************************************************************)
EXTENDS Integers, Sequences, SequencesExt

CONSTANTS
  Pthread,      \* pthread ids the kernel has
  main,         \* the main thread's
  Creators,     \* threads of the application that call pthread_create
  MaxTid        \* bound on the threads created in a behaviour

InvalidTid == -1
Tid == 0..(MaxTid - 1)
NoThread == "none"

ASSUME ThreadLifeAssumption ==
  /\ main \in Pthread /\ Creators \subseteq Pthread /\ NoThread \notin Pthread
  /\ MaxTid \in Nat \ {0}

VARIABLES
  p_t_map,      \* pthread id -> tern tid, or InvalidTid
  t_p_map,      \* tern tid -> pthread id, or NoThread
  zombies,      \* ended, not yet joined
  stale,        \* history: the zombies that a detached thread left behind, whose id is free
                \* or belongs to another thread by now
  self_tid,     \* each thread's own thread-local tid
  nthread,
  runq,
  waitq,        \* joiners
  thread_begin_sem, thread_begin_done_sem,
  pc,
  arg,          \* the thread being created or joined
  detached

mapVars == <<p_t_map, t_p_map, zombies, stale, self_tid, nthread>>
semVars == <<thread_begin_sem, thread_begin_done_sem>>
vars == <<mapVars, semVars, runq, waitq, pc, arg, detached>>

CreatePc == {"create", "post", "waitDone"}
BeginPc == {"begin", "self", "done"}
EndPc == {"exiting", "gone"}
Pc == CreatePc \cup BeginPc \cup EndPc \cup
      {"none", "threadBegin", "run", "join", "realJoin", "assert"}

Init ==
  /\ p_t_map = [p \in Pthread |-> IF p = main THEN 0 ELSE InvalidTid]
  /\ t_p_map = [i \in Tid |-> IF i = 0 THEN main ELSE NoThread]
  /\ zombies = {} /\ stale = {}
  /\ self_tid = [p \in Pthread |-> IF p = main THEN 0 ELSE InvalidTid]
  /\ nthread = 1
  /\ runq = <<0>>
  /\ waitq = <<>>
  /\ thread_begin_sem = 0 /\ thread_begin_done_sem = 0
  /\ pc = [p \in Pthread |-> IF p = main THEN "run" ELSE "none"]
  /\ arg = [p \in Pthread |-> NoThread]
  /\ detached = {}

HasTurn(t) == runq # <<>> /\ self_tid[t] # InvalidTid /\ Head(runq) = self_tid[t]
Goto(t, l) == pc' = [pc EXCEPT ![t] = l]
putTurn(q) == Append(Tail(q), Head(q))

-----------------------------------------------------------------------------
(* pthreadCreate *)

\* The real pthread_create: the kernel picks a free id and starts the thread.
PthreadCreate(t, p) ==
  /\ pc[t] = "run" /\ HasTurn(t)
  /\ t \in Creators /\ nthread < MaxTid
  /\ pc[p] = "none"
  /\ pc' = [pc EXCEPT ![t] = "create", ![p] = "begin"]
  /\ arg' = [arg EXCEPT ![t] = p]
  /\ detached' = detached \ {p}
  /\ self_tid' = [self_tid EXCEPT ![p] = InvalidTid]
  /\ UNCHANGED <<p_t_map, t_p_map, zombies, stale, nthread, semVars, runq, waitq>>

\* create(): the child gets its tid and its place in the run queue; then putTurn().
Create(t) ==
  /\ pc[t] = "create"
  /\ p_t_map' = [p_t_map EXCEPT ![arg[t]] = nthread]
  /\ t_p_map' = [t_p_map EXCEPT ![nthread] = arg[t]]
  /\ nthread' = nthread + 1
  /\ runq' = putTurn(Append(runq, nthread))
  /\ Goto(t, "post")
  /\ UNCHANGED <<zombies, stale, self_tid, semVars, waitq, arg, detached>>

PostBegin(t) ==
  /\ pc[t] = "post"
  /\ thread_begin_sem' = thread_begin_sem + 1
  /\ Goto(t, "waitDone")
  /\ UNCHANGED <<mapVars, thread_begin_done_sem, runq, waitq, arg, detached>>

WaitDone(t) ==
  /\ pc[t] = "waitDone"
  /\ thread_begin_done_sem > 0
  /\ thread_begin_done_sem' = thread_begin_done_sem - 1
  /\ Goto(t, "run")
  /\ arg' = [arg EXCEPT ![t] = NoThread]
  /\ UNCHANGED <<mapVars, thread_begin_sem, runq, waitq, detached>>

-----------------------------------------------------------------------------
(* threadBegin *)

\* Mutant: the child does not wait for its creator.
WaitBeginNot(p) ==
  /\ pc[p] = "begin"
  /\ Goto(p, "self")
  /\ UNCHANGED <<mapVars, semVars, runq, waitq, arg, detached>>

WaitBegin(p) ==
  /\ pc[p] = "begin"
  /\ thread_begin_sem > 0
  /\ thread_begin_sem' = thread_begin_sem - 1
  /\ Goto(p, "self")
  /\ UNCHANGED <<mapVars, thread_begin_done_sem, runq, waitq, arg, detached>>

\* self(pthread_self()), with its assert.
Self(p) ==
  /\ pc[p] = "self"
  /\ IF p_t_map[p] = InvalidTid
     THEN Goto(p, "assert") /\ UNCHANGED self_tid
     ELSE Goto(p, "done") /\ self_tid' = [self_tid EXCEPT ![p] = p_t_map[p]]
  /\ UNCHANGED <<p_t_map, t_p_map, zombies, stale, nthread, semVars, runq, waitq, arg, detached>>

\* Mutant: the child does not report that it has begun.
PostDoneNot(p) ==
  /\ pc[p] = "done"
  /\ Goto(p, "threadBegin")
  /\ UNCHANGED <<mapVars, semVars, runq, waitq, arg, detached>>

PostDone(p) ==
  /\ pc[p] = "done"
  /\ thread_begin_done_sem' = thread_begin_done_sem + 1
  /\ Goto(p, "threadBegin")
  /\ UNCHANGED <<mapVars, thread_begin_sem, runq, waitq, arg, detached>>

\* The first turn of a thread, and every other operation with the turn.
TakeTurn(t) ==
  /\ pc[t] \in {"threadBegin", "run"} /\ HasTurn(t)
  /\ runq' = putTurn(runq)
  /\ Goto(t, "run")
  /\ UNCHANGED <<mapVars, semVars, waitq, arg, detached>>

-----------------------------------------------------------------------------
(* threadEnd and pthreadJoin *)

Joiners(u) == {i \in Tid : t_p_map[i] # NoThread /\ pc[t_p_map[i]] = "join" /\ arg[t_p_map[i]] = u}

\* signal(pthread_self()), and out of the run queue.
SignalAndLeave(t) ==
  \/ /\ Joiners(t) \cap ToSet(waitq) = {}
     /\ runq' = Tail(runq) /\ UNCHANGED waitq
  \/ \E i \in 1..Len(waitq) :
       /\ waitq[i] \in Joiners(t) /\ \A j \in 1..(i - 1) : waitq[j] \notin Joiners(t)
       /\ runq' = Append(Tail(runq), waitq[i]) /\ waitq' = RemoveAt(waitq, i)

\* Mutant: zombify() leaves the thread in p_t_map.
ThreadEndKeepsMap(t) ==
  /\ pc[t] = "run" /\ HasTurn(t) /\ t # main
  /\ SignalAndLeave(t)
  /\ zombies' = zombies \cup {t}
  /\ stale' = stale \ {t}
  /\ t_p_map' = [t_p_map EXCEPT ![self_tid[t]] = NoThread]
  /\ Goto(t, "exiting")
  /\ UNCHANGED <<p_t_map, self_tid, nthread, semVars, arg, detached>>

\* putTurn(true): signal the joiner, zombify(), leave the run queue.
ThreadEnd(t) ==
  /\ pc[t] = "run" /\ HasTurn(t) /\ t # main
  /\ SignalAndLeave(t)
  /\ zombies' = zombies \cup {t}
  /\ stale' = stale \ {t}
  /\ p_t_map' = [p_t_map EXCEPT ![t] = InvalidTid]
  /\ t_p_map' = [t_p_map EXCEPT ![self_tid[t]] = NoThread]
  /\ Goto(t, "exiting")
  /\ UNCHANGED <<self_tid, nthread, semVars, arg, detached>>

\* The thread exits: the kernel frees the id of a detached thread.
RealExit(t) ==
  /\ pc[t] = "exiting"
  /\ IF t \in detached
     THEN Goto(t, "none") /\ stale' = stale \cup {t}
     ELSE Goto(t, "gone") /\ UNCHANGED stale
  /\ UNCHANGED <<p_t_map, t_p_map, zombies, self_tid, nthread, semVars, runq, waitq, arg,
                 detached>>

\* The application has the id of u, and u may still be joined or detached.
Joinable(u) ==
  /\ pc[u] # "none" /\ u # main /\ u \notin detached
  /\ \A t \in Pthread : arg[t] # u

\* Mutant: the real join without the loop.
JoinLoopNot(t, u) ==
  /\ HasTurn(t)
  /\ \/ pc[t] = "run" /\ Joinable(u) /\ t # u
     \/ pc[t] = "join" /\ arg[t] = u
  /\ arg' = [arg EXCEPT ![t] = u]
  /\ Goto(t, "realJoin")
  /\ UNCHANGED <<mapVars, semVars, runq, waitq, detached>>

\* while (!zombie(th)) wait(th)
JoinLoop(t, u) ==
  /\ HasTurn(t)
  /\ \/ pc[t] = "run" /\ Joinable(u) /\ t # u
     \/ pc[t] = "join" /\ arg[t] = u
  /\ arg' = [arg EXCEPT ![t] = u]
  /\ IF u \in zombies
     THEN Goto(t, "realJoin") /\ UNCHANGED <<runq, waitq>>
     ELSE /\ Goto(t, "join")
          /\ runq' = Tail(runq)
          /\ waitq' = Append(waitq, self_tid[t])
  /\ UNCHANGED <<mapVars, semVars, detached>>

\* The real pthread_join, with the turn, and join(): the id is free again.
RealJoin(t) ==
  /\ pc[t] = "realJoin" /\ pc[arg[t]] = "gone"
  /\ pc' = [pc EXCEPT ![t] = "run", ![arg[t]] = "none"]
  /\ zombies' = zombies \ {arg[t]}
  /\ stale' = stale \ {arg[t]}
  /\ arg' = [arg EXCEPT ![t] = NoThread]
  /\ runq' = putTurn(runq)
  /\ UNCHANGED <<p_t_map, t_p_map, self_tid, nthread, semVars, waitq, detached>>

\* __pthread_detach: a blocking call, without the turn.
Detach(t, u) ==
  /\ pc[t] = "run" /\ Joinable(u)
  /\ detached' = detached \cup {u}
  /\ IF pc[u] = "gone"
     THEN Goto(u, "none") /\ stale' = stale \cup {u}
     ELSE UNCHANGED <<pc, stale>>
  /\ UNCHANGED <<p_t_map, t_p_map, zombies, self_tid, nthread, semVars, runq, waitq, arg>>

-----------------------------------------------------------------------------
CreateStep(t) == Create(t) \/ PostBegin(t) \/ WaitDone(t)
BeginStep(t) == WaitBegin(t) \/ Self(t) \/ PostDone(t)

Next ==
  \E t \in Pthread :
    \/ CreateStep(t) \/ BeginStep(t) \/ TakeTurn(t) \/ ThreadEnd(t) \/ RealExit(t) \/ RealJoin(t)
    \/ \E u \in Pthread : PthreadCreate(t, u) \/ JoinLoop(t, u) \/ Detach(t, u)

\* A thread that can take a step of the runtime takes it, and an application thread
\* with the turn does something with it.
Fairness ==
  \A t \in Pthread :
    WF_vars(\/ CreateStep(t) \/ BeginStep(t) \/ TakeTurn(t) \/ ThreadEnd(t) \/ RealExit(t) \/ RealJoin(t)
            \/ \E u \in Pthread : PthreadCreate(t, u) \/ JoinLoop(t, u))

Spec == Init /\ [][Next]_vars
FairSpec == Spec /\ Fairness

-----------------------------------------------------------------------------
(* Properties. *)

\* Every variable has its type; the semaphores are never negative.
TypeOK ==
  /\ p_t_map \in [Pthread -> Tid \cup {InvalidTid}]
  /\ t_p_map \in [Tid -> Pthread \cup {NoThread}]
  /\ zombies \subseteq Pthread /\ stale \subseteq Pthread /\ detached \subseteq Pthread
  /\ self_tid \in [Pthread -> Tid \cup {InvalidTid}]
  /\ nthread \in 1..MaxTid
  /\ runq \in Seq(Tid) /\ waitq \in Seq(Tid)
  /\ thread_begin_sem \in Nat /\ thread_begin_done_sem \in Nat
  /\ pc \in [Pthread -> Pc]
  /\ arg \in [Pthread -> Pthread \cup {NoThread}]

\* Problem 2 and 3 of pthreadCreate: a child past thread_begin_sem is in the maps.
SelfMapped == \A p \in Pthread : pc[p] \in {"self", "assert"} => p_t_map[p] # InvalidTid

\* "Xtern actually waits for the child thread to be dead and then proceed" (pthreadJoin):
\* the turn holder never blocks in the real pthread_join on a thread that has not ended,
\* which would need the turn in order to end.
JoinsEndedThread ==
  \A t \in Pthread : pc[t] = "realJoin" => pc[arg[t]] \in EndPc

\* What is true of that sentence: the turn holder is in the real pthread_join of a thread
\* that has not ended only if an earlier thread with the same pthread id was detached and
\* has ended, because nothing takes a detached thread out of zombies.
JoinsEndedOrReused ==
  \A t \in Pthread : pc[t] = "realJoin" => pc[arg[t]] \in EndPc \/ arg[t] \in stale

\* The maps are inverse to each other and to the threads' own tids, every queued tid is
\* the tid of a live thread, and create() is given an id that is in neither map: the
\* asserts of create() ("pthread tid already in map!") and zombify(), and no tid runs
\* twice, although the kernel hands out the ids of joined threads again.
MapsAgree ==
  /\ TypeOK
  /\ \A p \in Pthread : p_t_map[p] # InvalidTid => t_p_map[p_t_map[p]] = p
  /\ \A p \in Pthread : pc[p] \in {"threadBegin", "run", "join", "realJoin"} =>
       self_tid[p] = p_t_map[p] /\ self_tid[p] # InvalidTid
  /\ \A i \in ToSet(runq) \cup ToSet(waitq) : t_p_map[i] # NoThread /\ p_t_map[t_p_map[i]] = i
  /\ \A t \in Pthread : pc[t] = "create" =>
       p_t_map[arg[t]] = InvalidTid /\ \A i \in Tid : t_p_map[i] # arg[t]

\* pthread_create returns: the two semaphores never leave a creator waiting.
CreateReturns == \A t \in Pthread : pc[t] \in CreatePc ~> pc[t] = "run"
=============================================================================
