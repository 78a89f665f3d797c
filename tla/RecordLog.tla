------------------------------ MODULE RecordLog ------------------------------
(* The log of synchronisation operations (options::log_sync): one logger and one  *)
(* file per thread, written by the thread itself.  src/lib/runtime/record-log.cpp  *)
(* has three loggers: "txt" and "test" write a line per operation, "bin" writes    *)
(* records of fixed size into a mapping of the file, and also takes the records    *)
(* of instrumented code (loads, stores, calls).                                    *)
(*                                                                                 *)
(* An operation of the runtime runs with the turn from getTurn() to putTurn(), so  *)
(* it is one step here (RRScheduler has the turn itself); an operation that waits  *)
(* in between is two steps.  fork() adds a second process that starts with a copy  *)
(* of the forking thread's logger, its open file included.                         *)
(*                                                                                 *)
(* Every behaviour repeats one kind of work, chosen at the start: an operation the *)
(* runtime logs, or an instrumented instruction.                                   *)
EXTENDS Integers, Sequences, SequencesExt, FiniteSets

CONSTANTS
  MaxThread,    \* threads of one process, the main thread (0) included
  MaxTurn,      \* bound on the turns of a process
  TrunkRecords, \* TRUNK_SIZE / RECORD_SIZE, the capacity of a binary log
  MaxRecords,   \* bound on the log an instrumented instruction is added to
  MaxArgs,      \* most arguments of a logged call
  Options,      \* the option files to consider
  AppInsids,    \* the instruction ids the program passes, (unsigned)-1 is -1
  None

\* How a logger can stop its process.
Stops == {"nocase", "full", "insid", "sigbus"}

ASSUME LogAssumption ==
  /\ MaxThread \in Nat \ {0} /\ TrunkRecords \in Nat \ {0}
  /\ MaxTurn \in Nat /\ MaxRecords \in Nat /\ MaxArgs \in Nat
  \* stale: the log directory holds the files of an earlier run
  /\ Options \subseteq [type : {"txt", "bin", "test"}, pidName : BOOLEAN,
                        idle : BOOLEAN, geteip : BOOLEAN, stale : BOOLEAN]
  /\ AppInsids \subseteq Nat \cup {-1}
  /\ None \notin 0 .. MaxThread - 1 /\ None \notin Stops

VARIABLES
  opts,     \* the options read from the option file
  work,     \* what the program's threads do
  turn,     \* turnCount of each process
  nthread,  \* threads created so far in each process
  pc,       \* where each thread is
  lg,       \* Logger::the of each thread
  disk,     \* the log files by name
  fault,    \* how its logger stopped a process, None while it runs
  forker,   \* the thread that forked, None before
  done,     \* history: the instructions a thread has logged
  sched     \* history: where each line of the runtime went, in turn order

vars == <<opts, work, turn, nthread, pc, lg, disk, fault, forker, done, sched>>

Proc == {"parent", "child"}
Tids == 0 .. MaxThread - 1
Main == 0

-----------------------------------------------------------------------------
(* What the runtime passes to logSync: the number of variable arguments of each  *)
(* operation it logs.                                                            *)

PassedByThreads ==
  {"tern_thread_begin", "tern_thread_end", "pthread_join"} \X {1}
  \cup {"pthread_create"} \X {2}

PassedByMutexes ==
  {"pthread_mutex_init", "pthread_mutex_destroy", "pthread_mutex_lock"} \X {1}
  \cup {"pthread_mutex_trylock", "pthread_mutex_timedlock", "pthread_mutex_unlock"} \X {2}

PassedByRWLocks ==
  {"pthread_rwlock_rdlock", "pthread_rwlock_wrlock"} \X {1}
  \cup {"pthread_rwlock_tryrdlock", "pthread_rwlock_trywrlock",
        "pthread_rwlock_unlock"} \X {2}

PassedByBarriers ==
  {"pthread_barrier_init", "pthread_barrier_destroy"} \X {2}
  \cup {"pthread_barrier_wait"} \X {1}

PassedByConds ==
  {"pthread_cond_signal", "pthread_cond_broadcast"} \X {1}
  \cup {"pthread_cond_wait"} \X {2} \cup {"pthread_cond_timedwait"} \X {3}

PassedBySems ==
  {"sem_trywait", "sem_timedwait", "sem_post", "sem_init"} \X {2}
  \cup {"sem_wait"} \X {1}

PassedByLineups ==
  {"tern_lineup_destroy", "tern_lineup_start", "tern_lineup_end"} \X {1}
  \cup {"tern_lineup_init"} \X {3}

PassedByRegions == {"tern_non_det_start"} \X {1}

PassedBySleeps == {"sched_yield", "sleep", "usleep", "nanosleep"} \X {1}

PassedByIdle == {"tern_idle"} \X {0}

PassedByFork == {"fork"} \X {1}

Passed ==
  PassedByThreads \cup PassedByMutexes \cup PassedByRWLocks \cup PassedByBarriers
  \cup PassedByConds \cup PassedBySems \cup PassedByLineups \cup PassedByRegions
  \cup PassedBySleeps \cup PassedByIdle \cup PassedByFork

LoggedOps == {e[1] : e \in Passed}
ArgsPassed(op) == (CHOOSE e \in Passed : e[1] = op)[2]

-----------------------------------------------------------------------------
(* The tables of logdefs.h and the switch of the text loggers.                    *)

TwoRecordOps ==
  {"accept", "accept4", "connect", "recv", "recvfrom", "recvmsg", "read", "select",
   "epoll_wait", "epoll_create", "epoll_ctl", "sigwait", "fgets", "wait",
   "pthread_cond_wait", "pthread_barrier_wait", "pthread_cond_timedwait"}

NumRecordsForSync(op) == IF op \in TwoRecordOps THEN 2 ELSE 1

NumSyncArgs(op) == IF op = "pthread_cond_wait" THEN 2 ELSE 1

ReadsNone ==
  {"accept4", "recv", "recvfrom", "recvmsg", "select", "poll", "bind", "listen",
   "getsockopt", "setsockopt", "pipe", "fcntl", "shutdown", "gethostbyname",
   "gethostbyname_r", "getaddrinfo", "freeaddrinfo", "gethostbyaddr", "inet_ntoa",
   "strtok", "epoll_wait", "epoll_create", "epoll_ctl", "sigwait", "fgets", "kill",
   "fork", "execv", "sched_yield", "wait", "waitpid", "tern_idle",
   "tern_non_det_start", "tern_non_det_end"}

\* thread_begin and thread_end have a branch of their own in front of the switch.
ReadsOne ==
  {"tern_thread_begin", "tern_thread_end",
   "pthread_mutex_init", "pthread_mutex_destroy", "pthread_mutex_lock",
   "pthread_mutex_unlock", "pthread_barrier_wait", "pthread_barrier_destroy",
   "pthread_cond_signal", "pthread_cond_broadcast", "sem_wait", "sem_init",
   "sem_post", "pthread_join", "pthread_detach", "sleep", "usleep", "nanosleep",
   "pthread_rwlock_rdlock", "pthread_rwlock_wrlock", "tern_lineup_start",
   "tern_lineup_end", "tern_lineup_destroy"}

\* Mutant: sem_timedwait has no case.
ReadsTwoNoTimedWait ==
  {"pthread_mutex_timedlock", "pthread_cond_wait", "pthread_barrier_init",
   "pthread_create", "pthread_mutex_trylock", "sem_trywait",
   "pthread_rwlock_tryrdlock", "pthread_rwlock_trywrlock", "pthread_rwlock_unlock"}
ReadsTwo ==
  {"pthread_mutex_timedlock", "pthread_cond_wait", "pthread_barrier_init",
   "pthread_create", "pthread_mutex_trylock", "sem_trywait", "sem_timedwait",
   "pthread_rwlock_tryrdlock", "pthread_rwlock_trywrlock", "pthread_rwlock_unlock"}

ReadsThree ==
  {"pthread_cond_timedwait", "read", "pread", "accept", "write", "pwrite",
   "tern_lineup_init"}

ReadsFour == {"connect"}

\* The arguments a text logger takes from its va_list; no case: assert(0).
ArgsRead(op) ==
  CASE op \in ReadsNone -> 0
    [] op \in ReadsOne -> 1
    [] op \in ReadsTwo -> 2
    [] op \in ReadsThree -> 3
    [] op \in ReadsFour -> 4
    [] OTHER -> -1

-----------------------------------------------------------------------------
(* Records.  Argument i of an operation is the number i; reading more arguments   *)
(* than were passed yields Junk.  Instruction ids have INSID_BITS = 29 bits; the   *)
(* id 0xdead0000 of the idle thread's creation is here the least one that does     *)
(* not fit, INVALID_INSID is -1.                                                   *)

Junk == -1
MAX_INLINE_ARGS == 2
MAX_EXTRA_ARGS == 3
MAX_INSID == 536870912   \* 2^29
INVALID_INSID == -1
INVALID_INSID_IN_REC == MAX_INSID - 1
IdleInsid == MAX_INSID

setInsid(id) == IF id = INVALID_INSID THEN INVALID_INSID_IN_REC ELSE id
getInsid(r) == IF r.insid = INVALID_INSID_IN_REC THEN INVALID_INSID ELSE r.insid

NumExtraArgsRecords(narg) ==
  (narg - MAX_INLINE_ARGS + MAX_EXTRA_ARGS - 1) \div MAX_EXTRA_ARGS

VaArgs(passed, n) == [i \in 1 .. n |-> IF i <= passed THEN i ELSE Junk]

\* A line or record of logSync.  The text loggers write "after" as the suffix of a
\* two-record operation.
SyncRec(op, insid, n, after) ==
  [type |-> "Sync",
   insid |-> CASE opts.type = "bin" -> setInsid(insid)
               [] opts.type = "txt" -> insid
               [] opts.type = "test" -> 0,
   op |-> op, turn |-> n, after |-> after,
   args |-> VaArgs(ArgsPassed(op),
                   IF opts.type = "bin" THEN NumSyncArgs(op) ELSE ArgsRead(op))]

\* logInsid, logLoad and logStore.
PlainRec(kind, insid) == [type |-> kind, insid |-> setInsid(insid)]

\* logCall: the call record, then the records of the arguments that do not fit.  Their
\* flags are not written, a new file has zeros there.
CallRecs(insid, narg, noReturn) ==
  LET min(x, y) == IF x < y THEN x ELSE y
      last(seq) == min(narg, MAX_INLINE_ARGS + MAX_EXTRA_ARGS * seq)
  IN  [k \in 1 .. 1 + NumExtraArgsRecords(narg) |->
         IF k = 1
         THEN [type |-> "Call", insid |-> setInsid(insid), noReturn |-> noReturn,
               seq |-> 0, narg |-> narg, args |-> [i \in 1 .. last(0) |-> i]]
         ELSE [type |-> "Extra", insid |-> setInsid(insid), noReturn |-> FALSE,
               seq |-> k - 1, narg |-> narg,
               args |-> [i \in 1 .. last(k - 1) - last(k - 2) |-> last(k - 2) + i]]]

\* logRet.
ReturnRec(insid, narg) ==
  [type |-> "Return", insid |-> setInsid(insid), noReturn |-> FALSE,
   seq |-> NumExtraArgsRecords(narg) + 1, narg |-> narg]

-----------------------------------------------------------------------------
(* Files.  A writer keeps its own offset; what lies between the end of a file and *)
(* a later write, and what ftruncate adds, reads as zeros.                         *)

Zero == [type |-> "Insid", insid |-> 0]
Stale == [type |-> "Load", insid |-> 1]
Header == [type |-> "Header"]

\* getLogFilename: the process id is part of the name unless the option is off.
getLogFilename(p, tid) == <<IF opts.pidName THEN p ELSE None, tid>>

LogNames == (Proc \cup {None}) \X Tids

Resize(f, n) == [i \in 1 .. n |-> IF i <= Len(f) THEN f[i] ELSE Zero]

PutAt(f, off, recs) ==
  [i \in 1 .. IF Len(f) > off + Len(recs) THEN Len(f) ELSE off + Len(recs) |->
     IF i \in off + 1 .. off + Len(recs) THEN recs[i - off]
     ELSE IF i <= Len(f) THEN f[i] ELSE Zero]

\* The constructors: the text files are truncated, the binary one is given its full
\* size and keeps what it held.
TxtOpened == IF opts.type = "txt" THEN <<Header>> ELSE <<>>
BinOpened(f) == Resize(f, TrunkRecords)
Opened(f) == IF opts.type = "bin" THEN BinOpened(f) ELSE TxtOpened
StartOffset == IF opts.type = "bin" THEN 0 ELSE Len(TxtOpened)

\* Mutant: the file keeps the size of the trunk.
ClosedUncut(f, off) == f
\* The destructors: the unused rest of a binary log is cut off.
Closed(f, off) == IF opts.type = "bin" THEN Resize(f, off) ELSE f

\* The default case of the switch asserts.
TxtFault(recs) ==
  IF \E i \in DOMAIN recs : ArgsRead(recs[i].op) = -1 THEN "nocase" ELSE None

\* checkAndGrowLogSize and setInsid assert, in this order, before each record; a write
\* behind the end of a mapped file is fatal (but in the last page, where it is lost).
BinFault(l, f, recs) ==
  IF l.off >= TrunkRecords THEN "full"
  ELSE IF \E i \in DOMAIN recs : recs[i].insid >= MAX_INSID THEN "insid"
  ELSE IF l.off + Len(recs) <= Len(f) THEN None
  ELSE IF Len(f) < TrunkRecords THEN "sigbus" ELSE "full"

WriteFault(l, f, recs) ==
  IF opts.type = "bin" THEN BinFault(l, f, recs) ELSE TxtFault(recs)

-----------------------------------------------------------------------------
(* Actions.                                                                       *)

\* Thread t of process p writes recs through logger l; d is the disk at that point.
Write(p, t, l, d, recs) ==
  LET f == WriteFault(l, d[l.name], recs)
  IN  /\ fault' = [fault EXCEPT ![p] = f]
      /\ IF f = None
         THEN /\ disk' = [d EXCEPT ![l.name] = PutAt(@, l.off, recs)]
              /\ lg' = [lg EXCEPT ![p][t] = [l EXCEPT !.off = @ + Len(recs)]]
         ELSE disk' = d /\ lg' = [lg EXCEPT ![p][t] = l]

\* incTurnCount() and logSync(): the number logged is the one the count had.
LogSync(p, t, l, d, op, insid, after) ==
  /\ turn[p] < MaxTurn
  /\ turn' = [turn EXCEPT ![p] = @ + 1]
  /\ Write(p, t, l, d, <<SyncRec(op, insid, turn[p], after)>>)
  /\ sched' = [sched EXCEPT ![p] = Append(@, <<l.name, l.off + 1>>)]
  /\ done' = [done EXCEPT ![p][t] =
                IF after /\ NumRecordsForSync(op) = 2
                THEN [@ EXCEPT ![Len(@)].turns = Append(@, turn[p])]
                ELSE Append(@, [kind |-> "sync", op |-> op, insid |-> insid,
                                turns |-> <<turn[p]>>])]

\* The id an operation is logged with: the name of a lineup, else the address of the
\* call if the hooks look it up, else 0.
LineupOps == {e[1] : e \in PassedByLineups}
UnnamedOps == {"tern_idle", "tern_non_det_start"}
InsidOf(op) ==
  IF op \in LineupOps \/ (opts.geteip /\ op \notin UnnamedOps) THEN work.insid ELSE 0

\* Mutant: the first part takes no turn of its own.
LogFirstSameTurn(p, t, op) ==
  /\ Write(p, t, lg[p][t], disk, <<SyncRec(op, InsidOf(op), turn[p], FALSE)>>)
  /\ sched' = [sched EXCEPT ![p] = Append(@, <<lg[p][t].name, lg[p][t].off + 1>>)]
  /\ done' = [done EXCEPT ![p][t] = Append(@, [kind |-> "sync", op |-> op,
                                               insid |-> InsidOf(op),
                                               turns |-> <<turn[p]>>])]
  /\ UNCHANGED turn
\* The part of an operation before its wait (SCHED_TIMER_FAKE_END).
LogFirst(p, t, op) == LogSync(p, t, lg[p][t], disk, op, InsidOf(op), FALSE)

\* The end of an operation (SCHED_TIMER_END).
LogEnd(p, t, op, insid) == LogSync(p, t, lg[p][t], disk, op, insid, TRUE)

Runs(p, t, at) == fault[p] = None /\ pc[p][t] = at
GoTo(p, t, at) == pc' = [pc EXCEPT ![p][t] = at]
Static == UNCHANGED <<opts, work>>

\* Logger::threadBegin() on the log file of that thread id.
NewLogger(name) == [st |-> "open", name |-> name, off |-> StartOffset]

ThreadBegin(p, t) ==
  LET name == getLogFilename(p, t)
  IN  /\ Runs(p, t, "new")
      /\ LogSync(p, t, NewLogger(name), [disk EXCEPT ![name] = Opened(@)],
                 "tern_thread_begin", INVALID_INSID, TRUE)
      /\ GoTo(p, t, IF t = Main /\ opts.idle THEN "spawn" ELSE "run")
      /\ Static /\ UNCHANGED <<nthread, forker>>

\* pthread_create: by the program, and of the idle thread at the start of a process.
Create(p, t) ==
  /\ nthread[p] < MaxThread
  /\ \/ Runs(p, t, "run") /\ LogEnd(p, t, "pthread_create", InsidOf("pthread_create"))
     \/ Runs(p, t, "spawn") /\ LogEnd(p, t, "pthread_create", IdleInsid)
  /\ nthread' = [nthread EXCEPT ![p] = @ + 1]
  /\ pc' = [pc EXCEPT ![p][t] = "run", ![p][nthread[p]] = "new"]
  /\ Static /\ UNCHANGED forker

Operate(p, t) ==
  /\ Runs(p, t, "run") /\ work.kind = "sync" /\ NumRecordsForSync(work.op) = 1
  /\ LogEnd(p, t, work.op, InsidOf(work.op))
  /\ Static /\ UNCHANGED <<pc, nthread, forker>>

OperateFirst(p, t) ==
  /\ Runs(p, t, "run") /\ work.kind = "sync" /\ NumRecordsForSync(work.op) = 2
  /\ LogFirst(p, t, work.op)
  /\ GoTo(p, t, "wait")
  /\ Static /\ UNCHANGED <<nthread, forker>>

OperateSecond(p, t) ==
  /\ Runs(p, t, "wait")
  /\ LogEnd(p, t, work.op, InsidOf(work.op))
  /\ GoTo(p, t, "run")
  /\ Static /\ UNCHANGED <<nthread, forker>>

\* A turn that leaves no line: wait(), block() and idle_cond_wait() take one each.
SilentTurn(p) ==
  /\ fault[p] = None /\ \E t \in Tids : pc[p][t] \in {"run", "wait"}
  /\ turn[p] < MaxTurn
  /\ turn' = [turn EXCEPT ![p] = @ + 1]
  /\ Static /\ UNCHANGED <<nthread, pc, lg, disk, fault, forker, done, sched>>

\* Instrumented code, which runs without the turn.  Only the binary logger takes its
\* records; the functions of the base class are empty.
Instruction(p, t) ==
  /\ Runs(p, t, "run") /\ work.kind \in {"Insid", "Load", "Store"}
  /\ lg[p][t].off < MaxRecords
  /\ Write(p, t, lg[p][t], disk, <<PlainRec(work.kind, work.insid)>>)
  /\ done' = [done EXCEPT ![p][t] = Append(@, [kind |-> work.kind,
                                               insid |-> work.insid])]
  /\ Static /\ UNCHANGED <<turn, nthread, pc, forker, sched>>

\* tern_log_call and tern_log_ret around a call of a function that is not itself
\* instrumented; exit() and pthread_exit() do not return.
Call(p, t) ==
  /\ Runs(p, t, "run") /\ work.kind = "call"
  /\ lg[p][t].off < MaxRecords
  /\ Write(p, t, lg[p][t], disk, CallRecs(work.insid, work.narg, work.noReturn))
  /\ done' = [done EXCEPT ![p][t] = Append(@, [kind |-> "call", insid |-> work.insid,
                                               narg |-> work.narg, returned |-> FALSE])]
  /\ GoTo(p, t, IF work.noReturn THEN "exit" ELSE "call")
  /\ Static /\ UNCHANGED <<turn, nthread, forker, sched>>

Return(p, t) ==
  /\ Runs(p, t, "call")
  /\ Write(p, t, lg[p][t], disk, <<ReturnRec(work.insid, work.narg)>>)
  /\ done' = [done EXCEPT ![p][t][Len(done[p][t])].returned = TRUE]
  /\ GoTo(p, t, "run")
  /\ Static /\ UNCHANGED <<turn, nthread, forker, sched>>

\* threadEnd(): the line is written with the turn, the logger deleted after it.  The id
\* is that of pthread_exit(), or none when the thread's function returns.
ThreadEnd(p, t) ==
  /\ \E at \in {"run", "exit"} : Runs(p, t, at)
  /\ \E insid \in {INVALID_INSID, InsidOf("tern_thread_end")} :
       LogEnd(p, t, "tern_thread_end", insid)
  /\ GoTo(p, t, "ended")
  /\ Static /\ UNCHANGED <<nthread, forker>>

DeleteLogger(p, t) ==
  LET l == lg[p][t]
  IN  /\ Runs(p, t, "ended")
      /\ disk' = [disk EXCEPT ![l.name] = Closed(@, l.off)]
      /\ lg' = [lg EXCEPT ![p][t].st = "deleted"]
      /\ GoTo(p, t, "gone")
      /\ Static /\ UNCHANGED <<turn, nthread, fault, forker, done, sched>>

\* fork() in the parent.  The child starts as a copy with this thread alone.
Fork(t) ==
  /\ forker = None /\ Runs("parent", t, "run")
  /\ turn["parent"] < MaxTurn
  /\ LET l == lg["parent"][t]
         r == SyncRec("fork", InsidOf("fork"), turn["parent"], TRUE)
         f == WriteFault(l, disk[l.name], <<r>>)
     IN  /\ fault' = [fault EXCEPT !["parent"] = f]
         /\ disk' = IF f = None THEN [disk EXCEPT ![l.name] = PutAt(@, l.off, <<r>>)] ELSE disk
         /\ lg' = [lg EXCEPT !["parent"][t].off = IF f = None THEN @ + 1 ELSE @,
                             !["child"][Main] = l]
         /\ sched' = [sched EXCEPT !["parent"] = Append(@, <<l.name, l.off + 1>>)]
         /\ done' = [done EXCEPT !["parent"][t] =
                       Append(@, [kind |-> "sync", op |-> "fork", insid |-> InsidOf("fork"),
                                  turns |-> <<turn["parent"]>>])]
  /\ turn' = [turn EXCEPT !["parent"] = @ + 1, !["child"] = turn["parent"]]
  /\ pc' = [pc EXCEPT !["child"][Main] = "forked"]
  /\ forker' = t
  /\ Static /\ UNCHANGED nthread

\* fork() in the child: the inherited logger is deleted and a new one opened for the
\* old thread id, then childForkReturn() makes the thread the main thread.
ChildReturn ==
  LET old == lg["child"][Main]
      name == getLogFilename("child", forker)
      cut == [disk EXCEPT ![old.name] = Closed(@, old.off)]
  IN  /\ Runs("child", Main, "forked")
      /\ LogSync("child", Main, NewLogger(name), [cut EXCEPT ![name] = Opened(@)],
                 "fork", InsidOf("fork"), TRUE)
      /\ GoTo("child", Main, IF opts.idle THEN "spawn" ELSE "run")
      /\ Static /\ UNCHANGED <<nthread, forker>>

-----------------------------------------------------------------------------
WorkOps ==
  LoggedOps
    \ {"tern_thread_begin", "tern_thread_end", "pthread_create", "fork"}

Works ==
  [kind : {"sync"}, op : WorkOps, insid : AppInsids]
  \cup [kind : {"Insid", "Load", "Store"}, insid : AppInsids]
  \cup [kind : {"call"}, narg : 0 .. MaxArgs, noReturn : BOOLEAN, insid : AppInsids]

NoLog == [st |-> "none", name |-> <<None, Main>>, off |-> 0]

Init ==
  /\ opts \in Options
  /\ work \in Works /\ (work.kind # "sync" => opts.type = "bin")
  /\ turn = [p \in Proc |-> 0]
  /\ nthread = [p \in Proc |-> 1]
  /\ pc = [p \in Proc |-> [t \in Tids |->
             IF p = "parent" /\ t = Main THEN "new" ELSE "unborn"]]
  /\ lg = [p \in Proc |-> [t \in Tids |-> NoLog]]
  /\ disk = [n \in LogNames |->
               IF opts.stale THEN [i \in 1 .. TrunkRecords - 1 |-> Stale] ELSE <<>>]
  /\ fault = [p \in Proc |-> None]
  /\ forker = None
  /\ done = [p \in Proc |-> [t \in Tids |-> <<>>]]
  /\ sched = [p \in Proc |-> <<>>]

Step(p, t) ==
  \/ ThreadBegin(p, t) \/ Create(p, t) \/ Operate(p, t) \/ OperateFirst(p, t)
  \/ OperateSecond(p, t) \/ Instruction(p, t) \/ Call(p, t) \/ Return(p, t)
  \/ ThreadEnd(p, t) \/ DeleteLogger(p, t)

Next ==
  \/ \E p \in Proc, t \in Tids : Step(p, t)
  \/ \E p \in Proc : SilentTurn(p)
  \/ \E t \in Tids : Fork(t)
  \/ ChildReturn

Spec == Init /\ [][Next]_vars

-----------------------------------------------------------------------------
(* Reading a log: numRecForInst of an instruction's first record tells how many    *)
(* records belong to it, numArgsInRec how many arguments each of them holds.       *)

numRecForInst(r) ==
  CASE r.type \in {"Call", "Extra", "Return"} ->
         1 + NumExtraArgsRecords(r.narg) + (IF r.noReturn THEN 0 ELSE 1)
    [] r.type = "Sync" -> NumRecordsForSync(r.op)
    [] OTHER -> 1

numArgsInRec(r) ==
  LET n == IF r.type = "Call" THEN r.narg
           ELSE r.narg - MAX_INLINE_ARGS - (r.seq - 1) * MAX_EXTRA_ARGS
      most == IF r.type = "Call" THEN MAX_INLINE_ARGS ELSE MAX_EXTRA_ARGS
  IN  IF n < most THEN n ELSE most

\* The records grouped by instruction; the last instruction may be incomplete.
ByInstruction(recs) ==
  LET from[i \in Nat] ==
        IF i > Len(recs) THEN <<>>
        ELSE LET n == numRecForInst(recs[i])
                 e == IF i + n - 1 < Len(recs) THEN i + n - 1 ELSE Len(recs)
             IN  <<SubSeq(recs, i, e)>> \o from[i + n]
  IN  from[1]

\* The arguments of a call as logtest.cpp collects them.
CallArgs(g) ==
  FoldLeft(LAMBDA a, r : a \o SubSeq(r.args, 1, numArgsInRec(r)), <<>>,
           SelectSeq(g, LAMBDA r : r.type \in {"Call", "Extra"}))

\* Id got is what was logged as id: INVALID_INSID_IN_REC stands for no id in a record,
\* so that a program's own id of that value is lost.
SameInsid(got, id) == got = id \/ (id = INVALID_INSID_IN_REC /\ got = INVALID_INSID)

\* The records g are those of instruction i.
Reads(g, i) ==
  CASE i.kind = "sync" ->
         /\ Len(g) = Len(i.turns)
         /\ \A k \in DOMAIN g :
              /\ g[k].type = "Sync" /\ g[k].op = i.op /\ g[k].turn = i.turns[k]
              /\ g[k].after = (k = NumRecordsForSync(i.op))
              /\ Junk \in Range(g[k].args) => opts.type = "bin" /\ i.op = "tern_idle"
              /\ opts.type # "test" =>
                   IF opts.type = "bin" THEN SameInsid(getInsid(g[k]), i.insid)
                   ELSE g[k].insid = i.insid
    [] i.kind = "call" ->
         /\ g[1].type = "Call" /\ SameInsid(getInsid(g[1]), i.insid)
         /\ CallArgs(g) = [k \in 1 .. i.narg |-> k]
         /\ i.returned <=> g[Len(g)].type = "Return"
    [] OTHER -> Len(g) = 1 /\ g[1].type = i.kind /\ SameInsid(getInsid(g[1]), i.insid)

\* What a reader finds in the log of a thread: all of the file once it is closed.
LogOf(l) ==
  LET f == disk[l.name]
      e == IF l.st = "deleted" THEN Len(f) ELSE l.off
  IN  SubSeq(f, IF opts.type = "txt" THEN 2 ELSE 1, e)

-----------------------------------------------------------------------------
(* Properties.                                                                    *)

TypeOK ==
  /\ opts \in Options /\ work \in Works
  /\ turn \in [Proc -> 0 .. MaxTurn] /\ nthread \in [Proc -> 1 .. MaxThread]
  /\ \A p \in Proc, t \in Tids :
       /\ pc[p][t] \in {"unborn", "new", "spawn", "run", "wait", "call", "exit", "ended",
                        "gone", "forked"}
       /\ lg[p][t].st \in {"none", "open", "deleted"}
       /\ lg[p][t].name \in LogNames /\ lg[p][t].off \in Nat
       /\ lg[p][t].st = "none" => done[p][t] = <<>>
  /\ DOMAIN disk = LogNames
  /\ fault \in [Proc -> Stops \cup {None}]
  /\ forker \in Tids \cup {None}

\* Nobody else writes to the files of process p.  A fork leaves the parent's files to
\* the parent only if their names differ from the child's and no mapping is shared; in
\* the child a new thread may get the id the forking thread's log is named after.
OwnFiles(p) ==
  \/ forker = None
  \/ p = "parent" /\ opts.pidName /\ opts.type # "bin"
  \/ p = "child" /\ opts.pidName /\ forker = Main

\* Reading a thread's log back gives the instructions the thread executed, in order,
\* with their turns and arguments and nothing after the last, whatever the file held
\* before and wherever the arguments of a call were split.
LogReadsBack ==
  TypeOK /\ \A p \in Proc, t \in Tids :
    fault[p] = None /\ OwnFiles(p) /\ pc[p][t] \notin {"unborn", "new", "forked"} =>
      LET g == ByInstruction(LogOf(lg[p][t]))
      IN  /\ Len(g) = Len(done[p][t])
          /\ \A k \in DOMAIN g : Reads(g[k], done[p][t][k])

\* The logs of a process can be merged into the schedule: in the order in which the
\* lines were written, with the turn, their turn numbers strictly increase.
MergeIsSchedule ==
  \A p \in Proc : fault[p] = None /\ OwnFiles(p) =>
    LET rec(i) == disk[sched[p][i][1]][sched[p][i][2]]
    IN  \A i \in 2 .. Len(sched[p]) : rec(i - 1).turn < rec(i).turn

\* A logger stops its process only where its limits are: the text loggers have a case
\* for every operation the runtime logs, an instruction id that fails setInsid's assert
\* is the program's or the idle thread's, and the mapping of a log that no other process
\* or thread writes to never ends before the trunk does.
StopsAtItsLimits ==
  \A p \in Proc :
    /\ fault[p] # None => opts.type = "bin"
    /\ fault[p] = "insid" => opts.idle \/ work.insid >= MAX_INSID
    /\ fault[p] = "sigbus" => ~OwnFiles(p)

\* "instruction id larger than (1U<<29)!" (logdefs.h:84): no id fails the assert of
\* setInsid.  The code violates it: a lineup is logged under its name, which may be an
\* address, and the idle thread's creation under 0xdead0000.
IdsFit == \A p \in Proc : fault[p] # "insid"

\* "truncate unused portion of log" (record-log.cpp:440): what a log loses was not yet
\* written.  The code violates it: the child of a fork deletes the logger it inherited,
\* and with it what the parent has written to the file since.
CutIsUnused ==
  \A p \in Proc, t \in Tids :
    opts.type = "bin" /\ lg[p][t].st = "open" /\ pc[p][t] # "forked" =>
      lg[p][t].off <= Len(disk[lg[p][t].name])
==============================================================================
