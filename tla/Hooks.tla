------------------------------- MODULE Hooks -------------------------------
(***************************************************************************)
(* What happens between an application's call of a library function and    *)
(* its return when the interposition library is preloaded: the generated   *)
(* interceptor (dync_hook/func_template.cpp), the tern_* wrapper           *)
(* (lib/runtime/hooks.cpp) that saves errno and crosses into Sys space,    *)
(* the scheduling class RecorderRT gives the function                      *)
(* (lib/runtime/record-runtime.cpp) and the base wrapper that makes the    *)
(* real call (lib/runtime/runtime.cpp).  Thread start and end, fork, exec  *)
(* and program end are the frames that call other wrappers from inside.    *)
(*                                                                         *)
(* The turn is one variable: who may take it next is RRScheduler's matter. *)
(* errno is "app" before the call, "call" once a failing real call has set *)
(* it, "rt" when only the runtime's own library calls have touched it.     *)
(***************************************************************************)
EXTENDS Naturals, Sequences, FiniteSets

CONSTANTS Threads,   \* the application's threads
          First,     \* the one that runs main()
          Calls,     \* Calls[t]: the functions the program of t may call
          Options,   \* the option settings the program may start with
          None       \* no thread

-----------------------------------------------------------------------------
(* The tern_* wrappers, family by family, in the order of hooks.cpp.       *)

ThreadHooks == {"pthread_cancel", "pthread_create", "pthread_join", "pthread_detach"}
MutexHooks == {"pthread_mutex_init", "pthread_mutex_destroy", "pthread_mutex_lock",
               "pthread_mutex_trylock", "pthread_mutex_timedlock", "pthread_mutex_unlock"}
CondHooks == {"pthread_cond_wait", "pthread_cond_timedwait",
              "pthread_cond_signal", "pthread_cond_broadcast"}
BarrierHooks == {"pthread_barrier_init", "pthread_barrier_wait", "pthread_barrier_destroy"}
SemHooks == {"sem_init", "sem_wait", "sem_trywait", "sem_timedwait", "sem_post"}
LineupHooks == {"soba_init", "soba_destroy", "tern_lineup_start", "tern_lineup_end"}
RegionHooks == {"pcs_enter", "pcs_exit", "pcs_barrier_exit"}
OtherAnnotations == {"tern_detach", "tern_set_base_time"}
SocketHooks == {"sigwait", "socket", "listen", "accept", "accept4", "connect"}
NameHooks == {"gethostbyname", "gethostbyname_r", "getaddrinfo", "freeaddrinfo",
              "gethostbyaddr", "inet_ntoa", "strtok"}
MessageHooks == {"send", "sendto", "sendmsg", "recv", "recvfrom", "recvmsg"}
SockOptHooks == {"shutdown", "getpeername", "getsockopt", "setsockopt", "pipe", "fcntl"}
FileHooks == {"close", "read", "write", "pread", "pwrite"}
PollHooks == {"epoll_wait", "epoll_create", "epoll_ctl", "select", "poll", "bind"}
SleepHooks == {"sched_yield", "sleep", "usleep", "nanosleep", "fgets"}
ProcessHooks == {"kill", "fork", "execv", "wait", "waitpid"}
ClockHooks == {"time", "clock_getres", "clock_gettime", "clock_settime",
               "gettimeofday", "settimeofday"}
RWLockHooks == {"pthread_rwlock_rdlock", "pthread_rwlock_tryrdlock", "pthread_rwlock_wrlock",
                "pthread_rwlock_trywrlock", "pthread_rwlock_unlock",
                "pthread_rwlock_destroy", "pthread_rwlock_init"}

(* Wrappers the runtime calls by itself, never an application.             *)
InnerHooks == {"tern_thread_begin", "tern_thread_end", "tern_print_runtime_stat"}

(* The annotations a program may contain: no-ops unless enforced.          *)
Annotations == LineupHooks \cup RegionHooks \cup OtherAnnotations \cup {"soba_wait"}

Hooked == UNION {ThreadHooks, MutexHooks, CondHooks, BarrierHooks, SemHooks, Annotations,
                 SocketHooks, NameHooks, MessageHooks, SockOptHooks, FileHooks, PollHooks,
                 SleepHooks, ProcessHooks, ClockHooks, RWLockHooks, {"pthread_exit", "exit"}}

-----------------------------------------------------------------------------
(* runtime.cpp: the functions with a base wrapper Runtime::__f, which sets *)
(* errno to the caller's before the real call and stores it back after.    *)

BaseThreads == {"pthread_cancel"}
BaseDetach == {"pthread_detach"}
BaseSockOpts == {"socket", "getsockopt", "setsockopt", "pipe", "fcntl"}
BaseConnections == {"listen", "accept", "accept4", "connect"}
BaseNames == NameHooks
BaseMessages == MessageHooks
BaseFiles == {"shutdown", "getpeername"} \cup FileHooks
BasePolls == PollHooks \cup {"sigwait"}
BaseSleeps == {"sleep", "usleep", "fgets"}
BaseProcesses == ProcessHooks
BaseYields == {"sched_yield", "nanosleep"}
BaseClocks == ClockHooks
BaseSems == {"sem_init", "sem_wait", "sem_post"}
BaseMutexes == {"pthread_mutex_init", "pthread_mutex_destroy",
                "pthread_mutex_lock", "pthread_mutex_unlock"}

ViaBase == UNION {BaseThreads, BaseDetach, BaseSockOpts, BaseConnections, BaseNames,
                  BaseMessages, BaseFiles, BasePolls, BaseSleeps, BaseProcesses,
                  BaseYields, BaseClocks, BaseSems, BaseMutexes}

-----------------------------------------------------------------------------
(* record-runtime.cpp: the scheduling class of each function.              *)

(* BLOCK_TIMER_START .. END: the real call is made off the run queue.      *)
(* (a variant: send treated as a synchronisation call)                     *)
BlockSocketsNoSend == {"accept", "accept4", "connect"} \cup (MessageHooks \ {"send"})
BlockSockets == {"accept", "accept4", "connect"} \cup MessageHooks
BlockPolls == PollHooks \cup {"sigwait"}
BlockWaits == {"kill", "wait", "waitpid"}
BlockSetup == {"socket", "listen", "shutdown", "getsockopt", "setsockopt", "pipe", "fcntl"}
BlockNames == NameHooks

(* As BLOCK, but a descriptor that is no socket and no pipe goes straight  *)
(* to libc when RR_ignore_rw_regular_file is set.                          *)
RegularFiles == {"read", "write", "pread", "pwrite"}
RegularOthers == {"fgets", "close"}
Regular == RegularFiles \cup RegularOthers

Blocks == UNION {BlockSockets, BlockPolls, BlockWaits, BlockSetup, BlockNames,
                 BaseDetach, Regular}

(* Handed to the base runtime with no scheduling at all.                   *)
PassClocks == ClockHooks
Pass == PassClocks \cup {"getpeername", "pthread_cancel"}

(* Everything else, except what only touches the thread's own state, runs  *)
(* between SCHED_TIMER_START and SCHED_TIMER_END.                          *)
Unscheduled == {"pcs_exit", "pcs_barrier_exit", "tern_detach", "tern_set_base_time"}
Sleeps == {"sleep", "usleep", "nanosleep"}

(* With the turn, errno is stored back only after these.                   *)
SavedMutexes == MutexHooks
SavedRWLocks == RWLockHooks
SavedOthers == {"pthread_barrier_init", "pthread_barrier_destroy", "pthread_cond_wait",
                "pthread_cond_timedwait", "sem_trywait", "sem_timedwait", "pthread_join",
                "fork", "execv"}
SavedWithTurn == SavedMutexes \cup SavedRWLocks \cup SavedOthers

(* With the turn, these may give it up and wait (RecorderRT's syncWait or  *)
(* _S::wait) before they go on.                                            *)
MayWait == {"pthread_mutex_lock", "pthread_mutex_timedlock", "pthread_rwlock_rdlock",
            "pthread_rwlock_wrlock", "pthread_cond_wait", "pthread_cond_timedwait",
            "pthread_barrier_wait", "sem_wait", "sem_timedwait", "pthread_join",
            "tern_lineup_start", "pcs_enter"} \cup Sleeps

(* Inside a non-deterministic region: straight to libc, errno not stored.  *)
RegionDirect == RWLockHooks \cup BarrierHooks \cup CondHooks \cup
                {"pthread_mutex_trylock", "pthread_mutex_timedlock",
                 "sem_trywait", "sem_timedwait"}

(* External: the real calls that may wait for another process for ever,    *)
(* and the ones that report their failure in errno.                        *)
MayBlock == {"accept", "accept4", "connect", "wait", "waitpid", "select", "poll",
             "epoll_wait", "sigwait", "fgets", "read", "write"} \cup MessageHooks
ReportsErrno == UNION {SemHooks, SocketHooks \ {"sigwait"}, MessageHooks, SockOptHooks,
                       FileHooks, PollHooks, SleepHooks \ {"sched_yield"}, ProcessHooks,
                       ClockHooks \ {"time"}}

(* The table of syncfuncs.def.h: every function with an interceptor and a  *)
(* number of its own, and the ones it calls blocking system calls.         *)
SyncFunctions == Hooked \ (Annotations \cup {"exit"})
BlockingSyscalls ==
  {"accept", "accept4", "connect", "recv", "recvfrom", "recvmsg", "pipe", "read",
   "pread", "select", "epoll_wait", "sigwait", "fgets"} \cup Sleeps

(* The tables agree: what RecorderRT takes off the run queue, or passes    *)
(* on, has a base wrapper to make the call, and a class of its own; what   *)
(* the central table calls blocking is never made with the turn held.      *)
ASSUME TablesAgree ==
  /\ BlockingSyscalls \subseteq SyncFunctions \cap (Blocks \cup Sleeps)
  /\ Blocks \cup Pass \subseteq ViaBase
  /\ Blocks \cap Pass = {}
  /\ (Blocks \cup Pass) \cap (SavedWithTurn \cup MayWait \cup Unscheduled) = {}
  /\ RegionDirect \cap ViaBase = {}

(* Wrappers that no interceptor of hook_func.def leads to.                 *)
NotIntercepted == {"pthread_mutex_destroy", "getpeername",
                   "pthread_rwlock_init", "pthread_rwlock_destroy"}

ASSUME ProgramAssumption ==
  /\ First \in Threads /\ None \notin Threads
  /\ Options \subseteq [dmt : BOOLEAN, annot : BOOLEAN, nondet : BOOLEAN,
                        regular : BOOLEAN, dbug : BOOLEAN]
  /\ \A t \in Threads : Calls[t] \subseteq Hooked \ NotIntercepted

-----------------------------------------------------------------------------
VARIABLES opt,       \* the options: dmt, annot, nondet, regular, dbug
          proc,      \* "running", or "gone" after exit, exec or an assertion
          main,      \* the thread with the main thread's tid
          life,      \* life[t]: "none", "app" (the runtime knows it), "raw", "ended"
          space,     \* space[t]: Space::current_space
          errno,     \* errno[t]
          frames,    \* frames[t]: the stack of calls in progress, top first
          holder,    \* the thread with the turn, or None
          inNonDet,  \* inNonDet[t]
          attached   \* attached[t]: attachedToDbug

vars == <<opt, proc, main, life, space, errno, frames, holder, inNonDet, attached>>

Errnos == {"app", "call", "rt"}
Ats == {"hook", "tern", "rt", "turn", "held", "put", "offq",
        "real", "detach", "ret", "out", "script"}
Modes == {"none", "direct", "saved", "block", "orig", "sys"}

Frame(f, at) == [fn |-> f, at |-> at, step |-> 1, error |-> "app",
                 kern |-> "none", mode |-> "none"]
Top(t) == Head(frames[t])
At(t, where) == proc = "running" /\ frames[t] # <<>> /\ Top(t).at = where
In(t, f) == frames[t] # <<>> /\ Top(t).fn = f

(* space.cpp: cross().  enterSys asserts App before it, exitSys Sys.       *)
Cross(t) == space' = [space EXCEPT ![t] = IF @ = "Sys" THEN "App" ELSE "Sys"]
InSys(t) == space[t] = "Sys"

SetTop(t, frame) == frames' = [frames EXCEPT ![t] = <<frame>> \o Tail(@)]
Goto(t, at) == SetTop(t, [Top(t) EXCEPT !.at = at])
Push(t, frame) == frames' = [frames EXCEPT ![t] = <<frame>> \o @]
Pop(t) == frames' = [frames EXCEPT ![t] = Tail(@)]

(* The runtime's own library calls leave errno alone or overwrite it:      *)
(* stated where the interceptor and the scheduler make them.               *)
MayClobber(t) == \E e \in {errno[t], "rt"} : errno' = [errno EXCEPT ![t] = e]

(* options::enforce_non_det_annotations && inNonDet                        *)
InRegion(t) == opt.nondet /\ inNonDet[t]

(* The calls of the scheduled kind a build makes off the run queue.        *)
OffQueueCall(f) == f \in Blocks \/ (opt.dbug /\ f \in Sleeps \cup {"pthread_join"})

(* What a program may not do: RecorderRT asserts it away.                  *)
NoRegion == {"pthread_create", "pthread_join", "fork", "execv", "pthread_exit",
             "exit", "pcs_enter"}
Allowed(t, f) ==
  /\ (f \in NoRegion \/ (f \in Sleeps /\ ~opt.dbug)) => ~InRegion(t)
  /\ f \in {"pcs_exit", "pcs_barrier_exit"} =>
       (inNonDet[t] \/ ~(opt.dmt /\ opt.annot /\ opt.nondet))
  /\ f = "exit" => life[t] = "app"

-----------------------------------------------------------------------------
(* __tern_prog_begin: main starts in Sys space and is detached from dbug;  *)
(* its first wrapper is tern_thread_begin.                                 *)
Init ==
  /\ opt \in Options
  /\ proc = "running" /\ main = First /\ holder = None
  /\ life = [t \in Threads |-> IF t = First THEN "app" ELSE "none"]
  /\ space = [t \in Threads |-> "Sys"]
  /\ errno = [t \in Threads |-> "app"]
  /\ frames = [t \in Threads |->
                 IF t = First THEN <<Frame("tern_thread_begin", "rt")>> ELSE <<>>]
  /\ inNonDet = [t \in Threads |-> FALSE]
  /\ attached = [t \in Threads |-> FALSE]

(* The program calls f; exit is not intercepted but runs __tern_prog_end   *)
(* from atexit.                                                            *)
Call(t, f) ==
  /\ proc = "running" /\ life[t] \in {"app", "raw"} /\ frames[t] = <<>>
  /\ f \in Calls[t] /\ Allowed(t, f)
  /\ Push(t, Frame(f, IF f = "exit" THEN "script" ELSE "hook"))
  /\ errno' = [errno EXCEPT ![t] = "app"]
  /\ UNCHANGED <<opt, proc, main, life, space, holder, inNonDet, attached>>

-----------------------------------------------------------------------------
(* annotation_hooks.cpp: an annotation that is not enforced does nothing.  *)
Enforced(t, f) ==
  ~InSys(t) /\ opt.dmt /\ opt.annot /\ (f \in RegionHooks => opt.nondet)

AnnotationHook(t) ==
  /\ At(t, "hook") /\ Top(t).fn \in Annotations
  /\ IF ~Enforced(t, Top(t).fn) THEN Pop(t)
     ELSE Goto(t, IF Top(t).fn = "soba_wait" THEN "script" ELSE "tern")
  /\ UNCHANGED <<opt, proc, main, life, space, errno, holder, inNonDet, attached>>

(* func_template.cpp: in App space the call goes to the runtime, or, with  *)
(* DMT off, to libc from Sys space; from Sys space straight to libc.  The  *)
(* first call of a function resolves it with dlopen, and dync_geteip walks *)
(* the stack: both before errno is saved.                                  *)
Intercept(t) ==
  /\ At(t, "hook") /\ Top(t).fn \notin Annotations
  /\ MayClobber(t)
  /\ \/ /\ InSys(t)
        /\ SetTop(t, [Top(t) EXCEPT !.at = "real", !.mode = "sys"])
        /\ UNCHANGED space
     \/ /\ ~InSys(t) /\ opt.dmt
        /\ Goto(t, IF Top(t).fn = "pthread_exit" THEN "script" ELSE "tern")
        /\ UNCHANGED space
     \/ /\ ~InSys(t) /\ ~opt.dmt
        /\ SetTop(t, [Top(t) EXCEPT !.at = "real", !.mode = "orig"])
        /\ Cross(t)
  /\ UNCHANGED <<opt, proc, main, life, holder, inNonDet, attached>>

(* tern_f: int error = errno; Space::enterSys();                           *)
TernEnter(t) ==
  /\ At(t, "tern")
  /\ SetTop(t, [Top(t) EXCEPT !.at = "rt", !.error = errno[t]])
  /\ Cross(t)
  /\ UNCHANGED <<opt, proc, main, life, errno, holder, inNonDet, attached>>

(* tern_f: Space::exitSys(); errno = error; return ret;                    *)
TernReturn(t) ==
  /\ At(t, "ret")
  /\ errno' = [errno EXCEPT ![t] = Top(t).error]
  /\ Pop(t) /\ Cross(t)
  /\ UNCHANGED <<opt, proc, main, life, holder, inNonDet, attached>>

(* RecorderRT's nonDetEnd and nonDetBarrierEnd leave the region, detach    *)
(* from dbug and ask to be woken; the other unscheduled annotations touch  *)
(* nothing kept here.                                                      *)
RunUnscheduled(t) ==
  /\ At(t, "rt") /\ Top(t).fn \in Unscheduled
  /\ IF Top(t).fn \in RegionHooks
     THEN /\ inNonDet' = [inNonDet EXCEPT ![t] = FALSE]
          /\ attached' = [attached EXCEPT ![t] = FALSE]
     ELSE UNCHANGED <<inNonDet, attached>>
  /\ Goto(t, "ret")
  /\ UNCHANGED <<opt, proc, main, life, space, errno, holder>>

(* How the runtime treats f: the outcomes RecorderRT's first lines allow,  *)
(* in their order: regular file, region, class.                            *)
Route(t, f) ==
  (IF f \in Regular /\ opt.regular THEN {[at |-> "real", mode |-> "direct"]} ELSE {})
  \cup
  (IF InRegion(t)
   THEN IF f \in LineupHooks THEN {[at |-> "ret", mode |-> "none"]}
        ELSE IF f \in RegionDirect THEN {[at |-> "real", mode |-> "direct"]}
        ELSE {[at |-> "real", mode |-> "saved"]}
   ELSE IF f \in Pass THEN {[at |-> "real", mode |-> "saved"]}
   ELSE IF OffQueueCall(f) THEN {[at |-> "offq", mode |-> "block"]}
   ELSE {[at |-> "turn", mode |-> "none"]})

Dispatch(t) ==
  /\ At(t, "rt") /\ Top(t).fn \notin Unscheduled
  /\ \E r \in Route(t, Top(t).fn) :
       SetTop(t, [Top(t) EXCEPT !.at = r.at, !.mode = r.mode])
  /\ UNCHANGED <<opt, proc, main, life, space, errno, holder, inNonDet, attached>>

-----------------------------------------------------------------------------
(* SCHED_TIMER_START, or the end of a wait.                                *)
GetTurn(t) ==
  /\ At(t, "turn") /\ holder = None
  /\ holder' = t
  /\ Goto(t, "held") /\ MayClobber(t)
  /\ UNCHANGED <<opt, proc, main, life, space, inNonDet, attached>>

(* A wait inside the call: the turn is passed on.                          *)
Wait(t) ==
  /\ At(t, "held") /\ Top(t).fn \in MayWait \ {"pcs_enter"}
  /\ holder' = None
  /\ Goto(t, "turn")
  /\ UNCHANGED <<opt, proc, main, life, space, errno, inNonDet, attached>>

(* nonDetStart attaches to dbug before it waits for everyone to pause.     *)
NonDetWait(t) ==
  /\ At(t, "held") /\ In(t, "pcs_enter") /\ Top(t).step = 1
  /\ attached' = [attached EXCEPT ![t] = opt.dbug]
  /\ holder' = None
  /\ SetTop(t, [Top(t) EXCEPT !.at = "turn", !.step = 2])
  /\ UNCHANGED <<opt, proc, main, life, space, errno, inNonDet>>

(* The ways the real call may end, and what the frame keeps of errno.      *)
Outcomes(f) == IF f \in ReportsErrno THEN {"ok", "failed"} ELSE {"ok"}
(* (a variant: the base wrapper does not store errno back)                 *)
AfterUnsaved(frame, k, saved) == [frame EXCEPT !.kern = k]
After(frame, k, saved) ==
  [frame EXCEPT !.kern = k, !.error = IF k = "failed" /\ saved THEN "call" ELSE @]
Failed(t, k) == errno' = [errno EXCEPT ![t] = IF k = "failed" THEN "call" ELSE @]

(* The operation itself, with the turn held.                               *)
Operate(t) ==
  /\ At(t, "held")
  /\ Top(t).fn \notin {"pthread_create", "fork", "execv"}
  /\ In(t, "pcs_enter") => Top(t).step = 2
  /\ \E k \in IF Top(t).fn \in SavedWithTurn THEN Outcomes(Top(t).fn) ELSE {"ok"} :
       /\ SetTop(t, After([Top(t) EXCEPT !.at = "put"], k, TRUE))
       /\ Failed(t, k)
  /\ UNCHANGED <<opt, proc, main, life, space, holder, inNonDet, attached>>

(* pthreadCreate: the new thread starts in __tern_thread_func, in Sys      *)
(* space, detached from dbug, and calls tern_thread_begin; a failure is    *)
(* asserted away.  The idle thread that fork's child starts is left out.   *)
Create(t) ==
  /\ At(t, "held") /\ In(t, "pthread_create")
  /\ \/ /\ Len(frames[t]) > 1
        /\ Goto(t, "put") /\ UNCHANGED <<proc, life>>
     \/ /\ Len(frames[t]) = 1
        /\ \E u \in {u \in Threads : life[u] = "none"} :
             /\ life' = [life EXCEPT ![u] = "app"]
             /\ frames' = [frames EXCEPT
                  ![t] = <<[Top(t) EXCEPT !.at = "put"]>> \o Tail(@),
                  ![u] = <<Frame("tern_thread_begin", "rt")>>]
        /\ UNCHANGED proc
     \/ /\ Len(frames[t]) = 1
        /\ proc' = "gone" /\ UNCHANGED <<life, frames>>
  /\ UNCHANGED <<opt, main, space, errno, holder, inNonDet, attached>>

(* Runtime::__fork: the model goes on with the parent or with the child,   *)
(* where the forking thread is the only one and becomes the main thread;   *)
(* a failed fork is asserted away.                                         *)
Fork(t) ==
  /\ At(t, "held") /\ In(t, "fork")
  /\ \/ /\ Goto(t, "put") /\ UNCHANGED <<proc, main, life>>
     \/ /\ frames' = [u \in Threads |-> IF u = t
                THEN <<[Top(t) EXCEPT !.at = "put", !.step = 2]>> \o Tail(frames[t])
                ELSE <<>>]
        /\ life' = [u \in Threads |-> IF u = t THEN life[t] ELSE "ended"]
        /\ main' = t /\ UNCHANGED proc
     \/ /\ proc' = "gone" /\ UNCHANGED <<frames, main, life>>
  /\ UNCHANGED <<opt, space, errno, holder, inNonDet, attached>>

(* __execv with the turn: it does not return, or is asserted away.         *)
Exec(t) ==
  /\ At(t, "held") /\ In(t, "execv")
  /\ proc' = "gone"
  /\ UNCHANGED <<opt, main, life, space, errno, frames, holder, inNonDet, attached>>

(* A variant: a thread that ends keeps the turn.                           *)
PutTurnNotAtEnd(t) ==
  /\ At(t, "put")
  /\ holder' = IF In(t, "tern_thread_end") THEN holder ELSE None
  /\ CASE In(t, "tern_thread_end") -> Pop(t)
       [] In(t, "pcs_enter") -> Goto(t, "offq")
       [] In(t, "fork") /\ Top(t).step = 2 ->
            SetTop(t, [Top(t) EXCEPT !.at = "script", !.step = 1])
       [] OTHER -> Goto(t, "ret")
  /\ UNCHANGED <<opt, proc, main, life, space, errno, inNonDet, attached>>

(* SCHED_TIMER_END: the turn is passed on.  tern_thread_end stays in Sys   *)
(* space, nonDetStart goes on to block(), the forked child to its script.  *)
PutTurn(t) ==
  /\ At(t, "put")
  /\ holder' = None
  /\ CASE In(t, "tern_thread_end") -> Pop(t)
       [] In(t, "pcs_enter") -> Goto(t, "offq")
       [] In(t, "fork") /\ Top(t).step = 2 ->
            SetTop(t, [Top(t) EXCEPT !.at = "script", !.step = 1])
       [] OTHER -> Goto(t, "ret")
  /\ UNCHANGED <<opt, proc, main, life, space, errno, inNonDet, attached>>

-----------------------------------------------------------------------------
(* BLOCK_TIMER_START leaves the run queue; only the head of the queue, and *)
(* the explicit block() calls, take and pass the turn to do it.            *)
OffQueue(t) ==
  /\ At(t, "offq")
  /\ \/ /\ In(t, "pcs_enter") /\ holder = None
        /\ inNonDet' = [inNonDet EXCEPT ![t] = TRUE]
        /\ Goto(t, "ret") /\ UNCHANGED attached
     \/ /\ Top(t).fn # "pcs_enter"
        /\ In(t, "pthread_join") => holder = None
        /\ attached' = [attached EXCEPT ![t] = opt.dbug]
        /\ Goto(t, "real") /\ UNCHANGED inNonDet
  /\ MayClobber(t)
  /\ UNCHANGED <<opt, proc, main, life, space, holder>>

(* The real call outside the turn: by the base wrapper (saved, block), by  *)
(* the runtime itself (direct) or by the interceptor (orig, sys).  An      *)
(* interceptor's pthread_create starts a thread the runtime never sees,    *)
(* which stays in Sys space; its pthread_exit and execv do not return.     *)
Real(t) ==
  /\ At(t, "real")
  /\ LET f == Top(t).fn
         back == CASE Top(t).mode = "block" -> "detach"
                   [] Top(t).mode \in {"orig", "sys"} -> "out"
                   [] OTHER -> "ret"
     IN \/ /\ f # "pthread_exit"
           /\ \E k \in IF f = "execv" THEN {"failed"} ELSE Outcomes(f) :
                /\ SetTop(t, After([Top(t) EXCEPT !.at = back], k,
                                   Top(t).mode \in {"saved", "block"}))
                /\ Failed(t, k)
           /\ UNCHANGED <<proc, life>>
        \/ /\ f = "pthread_create"
           /\ \E u \in {u \in Threads : life[u] = "none"} :
                life' = [life EXCEPT ![u] = "raw"]
           /\ Goto(t, back)
           /\ UNCHANGED <<proc, errno>>
        \/ /\ f = "pthread_exit"
           /\ life' = [life EXCEPT ![t] = "ended"]
           /\ Pop(t) /\ UNCHANGED <<proc, errno>>
        \/ /\ f = "execv"
           /\ proc' = "gone" /\ UNCHANGED <<life, errno, frames>>
  /\ UNCHANGED <<opt, main, space, holder, inNonDet, attached>>

(* A variant: BLOCK_TIMER_END forgets to detach.                           *)
BlockEndAttached(t) ==
  /\ At(t, "detach")
  /\ Goto(t, "ret")
  /\ UNCHANGED <<opt, proc, main, life, space, errno, holder, inNonDet, attached>>

(* BLOCK_TIMER_END: detach from dbug and ask to be woken, errno kept.      *)
BlockEnd(t) ==
  /\ At(t, "detach")
  /\ attached' = [attached EXCEPT ![t] = FALSE]
  /\ Goto(t, "ret")
  /\ UNCHANGED <<opt, proc, main, life, space, errno, holder, inNonDet>>

(* The interceptor returns; with DMT off it first leaves Sys space.        *)
InterceptReturn(t) ==
  /\ At(t, "out")
  /\ Pop(t)
  /\ IF Top(t).mode = "orig" THEN Cross(t) ELSE UNCHANGED space
  /\ UNCHANGED <<opt, proc, main, life, errno, holder, inNonDet, attached>>
-----------------------------------------------------------------------------
(* Code that calls other wrappers from inside: each item is a crossing, an *)
(* attachment to dbug, or a call that starts at its interceptor ("hook"),  *)
(* at its tern_ wrapper ("tern") or in a script of its own.                *)
Item(via, f) == [via |-> via, fn |-> f]

(* __tern_prog_end, from atexit.                                           *)
ProgEndScript ==
  IF opt.dbug THEN <<Item("cross", "none"), Item("attach", "none")>>
  ELSE <<Item("tern", "tern_print_runtime_stat"), Item("tern", "pthread_mutex_lock"),
         Item("tern", "pthread_mutex_unlock"), Item("tern", "pthread_cond_signal"),
         Item("cross", "none"), Item("cross", "none"), Item("tern", "pthread_join"),
         Item("tern", "tern_thread_end")>>

(* A variant: fork's child forgets to enter Sys space again.               *)
ChildScriptInApp ==
  <<Item("cross", "none"), Item("hook", "pthread_mutex_init"), Item("tern", "pthread_create")>>

(* __fork in the child, once the turn is put: idle_mutex is initialised in *)
(* App space, so through the interceptor, and the idle thread created.     *)
ChildScript ==
  <<Item("cross", "none"), Item("hook", "pthread_mutex_init"),
    Item("tern", "pthread_create"), Item("cross", "none")>>

(* tern_pthread_exit: the main thread exits the program instead.           *)
ThreadExitScript(t) ==
  IF t = main THEN <<Item("script", "exit")>>
  ELSE <<Item("tern", "tern_thread_end")>> \o
       (IF opt.dbug THEN <<Item("attach", "none")>> ELSE <<>>)

Script(t) ==
  CASE In(t, "exit") -> ProgEndScript
    [] In(t, "fork") -> ChildScript
    [] In(t, "pthread_exit") -> ThreadExitScript(t)
    [] OTHER -> <<Item("tern", "tern_lineup_start"), Item("tern", "tern_lineup_end")>>

Scripted(t) == At(t, "script") /\ Top(t).step <= Len(Script(t))
NextItem(t) == Script(t)[Top(t).step]
Advanced(t) == [Top(t) EXCEPT !.step = @ + 1]

ScriptCall(t) ==
  /\ Scripted(t) /\ NextItem(t).via \in {"hook", "tern", "script"}
  /\ frames' = [frames EXCEPT ![t] =
       <<Frame(NextItem(t).fn, NextItem(t).via), Advanced(t)>> \o Tail(@)]
  /\ UNCHANGED <<opt, proc, main, life, space, errno, holder, inNonDet, attached>>

ScriptStep(t) ==
  /\ Scripted(t) /\ NextItem(t).via \in {"cross", "attach"}
  /\ SetTop(t, Advanced(t))
  /\ IF NextItem(t).via = "cross" THEN Cross(t) /\ UNCHANGED attached
     ELSE attached' = [attached EXCEPT ![t] = TRUE] /\ UNCHANGED space
  /\ UNCHANGED <<opt, proc, main, life, errno, holder, inNonDet>>

(* The end of a script: the process, the thread, or just the call ends.    *)
ScriptEnd(t) ==
  /\ At(t, "script") /\ Top(t).step > Len(Script(t))
  /\ CASE In(t, "exit") -> proc' = "gone" /\ UNCHANGED <<life, frames>>
       [] In(t, "pthread_exit") ->
            /\ life' = [life EXCEPT ![t] = "ended"]
            /\ Pop(t) /\ UNCHANGED proc
       [] In(t, "fork") -> Goto(t, "ret") /\ UNCHANGED <<proc, life>>
       [] OTHER -> Pop(t) /\ UNCHANGED <<proc, life>>
  /\ UNCHANGED <<opt, main, space, errno, holder, inNonDet, attached>>

-----------------------------------------------------------------------------
(* The steps the thread takes by itself once it has started a call.        *)
Inside(t) ==
  \/ AnnotationHook(t) \/ Intercept(t) \/ TernEnter(t) \/ TernReturn(t)
  \/ RunUnscheduled(t) \/ Dispatch(t) \/ NonDetWait(t) \/ Create(t)
  \/ Fork(t) \/ Exec(t) \/ PutTurn(t) \/ BlockEnd(t) \/ InterceptReturn(t)
  \/ ScriptCall(t) \/ ScriptStep(t) \/ ScriptEnd(t)

PromptReal(t) ==
  frames[t] # <<>> /\ Top(t).fn \notin MayBlock /\ (Real(t) \/ Operate(t))

Next ==
  \E t \in Threads :
    \/ \E f \in Calls[t] : Call(t, f)
    \/ Inside(t) \/ GetTurn(t) \/ Wait(t) \/ OffQueue(t) \/ Operate(t) \/ Real(t)

(* A started call is carried on, except where it waits by its nature: in a *)
(* real call that may block, or asleep in the scheduler.  The turn comes   *)
(* round: strong fairness of the steps that need it is what RRScheduler's  *)
(* TurnIsGranted gives.                                                    *)
Fairness ==
  \A t \in Threads : /\ WF_vars(Inside(t)) /\ WF_vars(PromptReal(t))
                     /\ SF_vars(GetTurn(t)) /\ SF_vars(OffQueue(t))

Spec == Init /\ [][Next]_vars
FairSpec == Spec /\ Fairness

-----------------------------------------------------------------------------
TypeOK ==
  /\ opt \in Options /\ proc \in {"running", "gone"} /\ main \in Threads
  /\ life \in [Threads -> {"none", "app", "raw", "ended"}]
  /\ space \in [Threads -> {"Sys", "App"}]
  /\ errno \in [Threads -> Errnos]
  /\ holder \in Threads \cup {None}
  /\ inNonDet \in [Threads -> BOOLEAN] /\ attached \in [Threads -> BOOLEAN]
  /\ DOMAIN frames = Threads
  /\ \A t \in Threads : \A i \in 1 .. Len(frames[t]) :
       frames[t][i] \in [fn : Hooked \cup InnerHooks, at : Ats, step : 1 .. 9,
                         error : Errnos, kern : {"none", "ok", "failed"}, mode : Modes]

(* The runtime runs in Sys space and the application in App space, on      *)
(* every path through nested wrappers, fork, thread start and thread end:  *)
(* the assertions of enterSys, exitSys and hooks.cpp hold, and a library   *)
(* call the runtime makes itself is never intercepted into the runtime     *)
(* again.  A thread the runtime never saw stays in Sys space.              *)
RuntimeInSys ==
  TypeOK /\ \A t \in Threads :
    /\ (life[t] = "app" /\ frames[t] = <<>>) => space[t] = "App"
    /\ (life[t] = "raw" /\ frames[t] = <<>>) => space[t] = "Sys"
    /\ At(t, "tern") => space[t] = "App"
    /\ (proc = "running" /\ frames[t] # <<>> /\ Top(t).at \in
          {"rt", "turn", "held", "put", "offq", "real", "detach", "ret"}) => space[t] = "Sys"
    /\ (At(t, "script") /\ In(t, "exit") /\ Top(t).step = 1) => space[t] = "App"

(* The turn is held exactly from getTurn to putTurn inside a wrapper: no   *)
(* call, nested wrapper, region, thread end or fork carries it back into   *)
(* application code or to a second thread.                                 *)
TurnStaysInside ==
  proc = "running" =>
    \A t \in Threads : (At(t, "held") \/ At(t, "put")) <=> holder = t

(* The assertions of __attach_self_to_dbug and __detach_self_from_dbug: a  *)
(* thread is attached exactly while it is away in a real call or in a      *)
(* non-deterministic region, and never attaches or detaches twice.         *)
DbugAssertsHold ==
  opt.dbug => \A t \in Threads :
    /\ (At(t, "offq") /\ ~In(t, "pcs_enter")) => ~attached[t]
    /\ (At(t, "held") /\ In(t, "pcs_enter") /\ Top(t).step = 1) => ~attached[t]
    /\ (At(t, "held") /\ Top(t).fn \in {"pthread_create", "fork", "execv"}) => ~attached[t]
    /\ At(t, "detach") => attached[t]
    /\ (At(t, "rt") /\ Top(t).fn \in {"pcs_exit", "pcs_barrier_exit"}) => attached[t]
    /\ (Scripted(t) /\ NextItem(t).via = "attach") => ~attached[t]

(* When a call returns to the application after its real call failed, the  *)
(* application's errno is the one that call left, whatever turns, waits    *)
(* and library calls of the runtime came after it.  Calls the runtime      *)
(* makes without its base wrapper are the exception: see ErrnoIsTheCalls.  *)
Returns(t) == Len(frames[t]) = 1 /\ frames'[t] = <<>> /\ life'[t] # "ended"
ErrnoDelivered ==
  [][\A t \in Threads : (Returns(t) /\ Top(t).kern = "failed" /\ Top(t).mode # "direct")
       => errno'[t] = "call"]_vars

(* The same of every call: a failed read() of a regular file, too, tells   *)
(* the application why ("Directly call the libc read() for regular IO").   *)
ErrnoIsTheCalls ==
  [][\A t \in Threads : (Returns(t) /\ Top(t).kern = "failed") => errno'[t] = "call"]_vars

(* A call that has no reason to wait returns, even while other threads sit *)
(* in real calls or waits for ever: no real call that may block is made    *)
(* with the turn held, and no path keeps the turn.                         *)
Prompt == Hooked \ (MayWait \cup MayBlock \cup
                     {"exit", "pthread_exit", "execv", "soba_wait"})
PromptCallReturns ==
  \A t \in Threads :
    (frames[t] # <<>> /\ frames[t][Len(frames[t])].fn \in Prompt)
      ~> (frames[t] = <<>> \/ proc = "gone")
=============================================================================
