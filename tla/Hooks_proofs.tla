---------------------------- MODULE Hooks_proofs ----------------------------
(***************************************************************************)
(* The turn stays inside the wrappers, for any number of threads, any      *)
(* program and any option settings.  A step changes the top of one stack   *)
(* of frames (fork and pthread_create apart), so the proof is about what a *)
(* step leaves on top, and about the frames below it, which are scripts.   *)
(***************************************************************************)
EXTENDS Hooks, TLAPS, Integers

(* The functions, the frames and the items of scripts.                     *)
Fns == Hooked \cup InnerHooks
FrameSet == [fn : Fns, at : Ats, step : 1 .. 9, error : Errnos,
             kern : {"none", "ok", "failed"}, mode : Modes]
Items == [via : {"cross", "attach"}, fn : {"none"}] \cup [via : {"hook", "tern", "script"}, fn : Fns]

(* Only scripts below the top; the top frame has the turn.                 *)
Rest(s) == \A i \in 2 .. Len(s) : s[i].at = "script"
Busy(s) == s # <<>> /\ Head(s).at \in {"held", "put"}

(* The stacks are stacks of frames, and only the top one is not a script.  *)
Stacks ==
  /\ frames \in [Threads -> Seq(FrameSet)]
  /\ \A t \in Threads : Rest(frames[t])
  /\ \A t \in Threads : life[t] = "none" => frames[t] = <<>>

(* The types of the other variables.                                       *)
Plain ==
  /\ opt \in Options /\ proc \in {"running", "gone"} /\ main \in Threads
  /\ life \in [Threads -> {"none", "app", "raw", "ended"}]
  /\ space \in [Threads -> {"Sys", "App"}]
  /\ errno \in [Threads -> Errnos]
  /\ holder \in Threads \cup {None}
  /\ inNonDet \in [Threads -> BOOLEAN] /\ attached \in [Threads -> BOOLEAN]

(* The inductive invariant.                                                *)
HInv == Plain /\ Stacks /\ TurnStaysInside

-----------------------------------------------------------------------------
(* Replacing the top frame keeps the rest of the stack.                  *)
LEMMA SetTopStack ==
  ASSUME NEW F, NEW s \in Seq(F), s # <<>>, Rest(s), NEW f \in F
  PROVE  /\ <<f>> \o Tail(s) \in Seq(F) /\ <<f>> \o Tail(s) # <<>>
         /\ Rest(<<f>> \o Tail(s)) /\ Head(<<f>> \o Tail(s)) = f
<1> DEFINE n == <<f>> \o Tail(s)
<1>1. n \in Seq(F) /\ Len(n) = Len(s) /\ n[1] = f /\ Len(s) >= 1 OBVIOUS
<1>2. \A i \in 2 .. Len(s) : n[i] = s[i] OBVIOUS
<1>3. Rest(n) BY <1>1, <1>2 DEF Rest
<1>4. n # <<>> /\ Head(n) = f BY <1>1
<1> QED BY <1>1, <1>3, <1>4

(* A script that calls a wrapper leaves its own frame below the new one. *)
LEMMA PushStack ==
  ASSUME NEW F, NEW s \in Seq(F), s # <<>>, Rest(s), NEW f \in F, NEW g \in F,
         g.at = "script"
  PROVE  /\ <<f, g>> \o Tail(s) \in Seq(F) /\ <<f, g>> \o Tail(s) # <<>>
         /\ Rest(<<f, g>> \o Tail(s)) /\ Head(<<f, g>> \o Tail(s)) = f
<1> DEFINE n == <<f, g>> \o Tail(s)
<1>1. n \in Seq(F) /\ Len(n) = Len(s) + 1 /\ n[1] = f /\ n[2] = g /\ Len(s) >= 1 OBVIOUS
<1>2. \A i \in 3 .. Len(s) + 1 : n[i] = s[i - 1] OBVIOUS
<1>3. Rest(n) BY <1>1, <1>2 DEF Rest
<1>4. n # <<>> /\ Head(n) = f BY <1>1
<1> QED BY <1>1, <1>3, <1>4

(* Below the top there are only scripts, so a return uncovers no turn.   *)
LEMMA PopStack ==
  ASSUME NEW F, NEW s \in Seq(F), s # <<>>, Rest(s)
  PROVE  Tail(s) \in Seq(F) /\ Rest(Tail(s)) /\ ~Busy(Tail(s))
<1>1. Tail(s) \in Seq(F) /\ Len(Tail(s)) = Len(s) - 1 OBVIOUS
<1>2. \A i \in 1 .. Len(s) - 1 : Tail(s)[i] = s[i + 1] OBVIOUS
<1>3. \A i \in 1 .. Len(s) - 1 : Tail(s)[i].at = "script" BY <1>2 DEF Rest
<1>4. Rest(Tail(s)) BY <1>1, <1>3 DEF Rest
<1>5. Tail(s) # <<>> => Head(Tail(s)).at = "script" BY <1>1, <1>3, SMTT(60)
<1> QED BY <1>1, <1>4, <1>5 DEF Busy

(* A stack of one frame.                                                 *)
LEMMA FreshStack ==
  ASSUME NEW F, NEW f \in F
  PROVE  /\ <<f>> \in Seq(F) /\ <<f>> # <<>> /\ Rest(<<f>>) /\ Head(<<f>>) = f
         /\ <<f>> \o <<>> = <<f>>
  BY DEF Rest

(* No thread becomes unborn.                                               *)
LifeKept == \A u \in Threads : life'[u] = "none" => life[u] = "none"

(* What every step on the stack of one thread has to show.                 *)
LEMMA OneStack ==
  ASSUME HInv, Plain', NEW t \in Threads, NEW new \in Seq(FrameSet), Rest(new),
         frames' = [frames EXCEPT ![t] = new], proc = "running",
         life[t] # "none", LifeKept,
         \/ holder' = holder /\ (Busy(new) <=> Busy(frames[t]))
         \/ holder = None /\ holder' = t /\ Busy(new)
         \/ holder = t /\ holder' = None /\ ~Busy(new)
  PROVE  HInv'
<1>1. Stacks'
  BY DEF HInv, Stacks, Plain, LifeKept
<1>2. None \notin Threads BY ProgramAssumption
<1>3. \A u \in Threads : Busy(frames[u]) <=> holder = u
  BY DEF HInv, TurnStaysInside, At, Top, Busy
<1>4. \A u \in Threads : Busy(frames'[u]) <=> holder' = u
  <2>1. frames'[t] = new /\ \A u \in Threads \ {t} : frames'[u] = frames[u]
    BY DEF HInv, Stacks
  <2>2. holder' = t <=> Busy(new) BY <1>2, <1>3
  <2>3. \A u \in Threads \ {t} : holder' = u <=> holder = u BY <1>2
  <2> QED BY <1>3, <2>1, <2>2, <2>3
<1>5. TurnStaysInside' BY <1>4 DEF TurnStaysInside, At, Top, Busy
<1> QED BY <1>1, <1>5 DEF HInv

(* What is known of a thread with a call in progress.                      *)
LEMMA TopFacts ==
  ASSUME HInv, NEW t \in Threads, frames[t] # <<>>
  PROVE  /\ Top(t) \in FrameSet /\ frames[t] \in Seq(FrameSet) /\ Rest(frames[t])
         /\ life[t] # "none"
         /\ Busy(frames[t]) <=> Top(t).at \in {"held", "put"}
<1>1. frames[t] \in Seq(FrameSet) /\ Rest(frames[t]) /\ life[t] # "none"
  BY DEF HInv, Stacks
<1>2. Top(t) \in FrameSet BY <1>1 DEF Top
<1> QED BY <1>1, <1>2 DEF Top, Busy

(* The turn changes hands the way the top frame says.                      *)
Turns(t, from, to) ==
  LET busy == {"held", "put"}
  IN  \/ holder' = holder /\ (to \in busy <=> from \in busy)
      \/ holder = None /\ holder' = t /\ to \in busy
      \/ holder = t /\ holder' = None /\ to \notin busy

(* A step that replaces the top frame of one thread.                     *)
LEMMA SetTopStep ==
  ASSUME HInv, Plain', NEW t \in Threads, proc = "running", frames[t] # <<>>,
         NEW f \in FrameSet, SetTop(t, f), LifeKept, Turns(t, Top(t).at, f.at)
  PROVE  HInv'
<1> DEFINE new == <<f>> \o Tail(frames[t])
<1>1. /\ new \in Seq(FrameSet) /\ Rest(new) /\ (Busy(new) <=> f.at \in {"held", "put"})
  BY TopFacts, SetTopStack DEF Busy
<1>2. frames' = [frames EXCEPT ![t] = new] BY DEF SetTop
<1>3. /\ Busy(frames[t]) <=> Top(t).at \in {"held", "put"}
      /\ life[t] # "none"
  BY TopFacts
<1>4. \/ holder' = holder /\ (Busy(new) <=> Busy(frames[t]))
      \/ holder = None /\ holder' = t /\ Busy(new)
      \/ holder = t /\ holder' = None /\ ~Busy(new)
  BY <1>1, <1>3 DEF Turns
<1> HIDE DEF new
<1> QED BY <1>1, <1>2, <1>3, <1>4, OneStack

(* A step that returns from the top frame of one thread.                 *)
LEMMA PopStep ==
  ASSUME HInv, Plain', NEW t \in Threads, proc = "running", frames[t] # <<>>,
         Pop(t), LifeKept, Turns(t, Top(t).at, "script")
  PROVE  HInv'
<1> DEFINE new == Tail(frames[t])
<1>1. new \in Seq(FrameSet) /\ Rest(new) /\ ~Busy(new)
  BY TopFacts, PopStack
<1>2. frames' = [frames EXCEPT ![t] = new] BY DEF Pop
<1>3. /\ Busy(frames[t]) <=> Top(t).at \in {"held", "put"}
      /\ life[t] # "none"
  BY TopFacts
<1>4. \/ holder' = holder /\ (Busy(new) <=> Busy(frames[t]))
      \/ holder = None /\ holder' = t /\ Busy(new)
      \/ holder = t /\ holder' = None /\ ~Busy(new)
  BY <1>1, <1>3 DEF Turns
<1> HIDE DEF new
<1> QED BY <1>1, <1>2, <1>3, <1>4, OneStack

(* When the process is gone nothing moves any more.                        *)
LEMMA GoneStep ==
  ASSUME HInv, Plain', proc' = "gone", UNCHANGED <<frames, life>>
  PROVE  HInv'
  BY DEF HInv, Stacks, TurnStaysInside

(* A script is a short sequence of items.                                  *)
LEMMA ScriptFacts ==
  ASSUME NEW t \in Threads
  PROVE  /\ Len(Script(t)) \in 0 .. 8
         /\ \A i \in 1 .. Len(Script(t)) : Script(t)[i] \in Items
<1> DEFINE Short(s) == s \in Seq(Items) /\ Len(s) <= 8
<1>0. /\ \A via \in {"cross", "attach"} : Item(via, "none") \in Items
      /\ \A via \in {"hook", "tern", "script"}, f \in Fns : Item(via, f) \in Items
      /\ {"tern_print_runtime_stat", "pthread_mutex_lock", "pthread_mutex_unlock",
          "pthread_cond_signal", "pthread_join", "tern_thread_end", "pthread_mutex_init",
          "pthread_create", "exit", "tern_lineup_start", "tern_lineup_end"} \subseteq Fns
  <2>1. /\ \A via \in {"cross", "attach"} : Item(via, "none") \in Items
        /\ \A via \in {"hook", "tern", "script"}, f \in Fns : Item(via, f) \in Items
    BY DEF Item, Items
  <2>2. /\ {"pthread_mutex_lock", "pthread_mutex_unlock", "pthread_mutex_init"} \subseteq MutexHooks
        /\ "pthread_cond_signal" \in CondHooks
        /\ {"pthread_join", "pthread_create"} \subseteq ThreadHooks
        /\ {"tern_lineup_start", "tern_lineup_end"} \subseteq Annotations
        /\ {"tern_print_runtime_stat", "tern_thread_end"} \subseteq InnerHooks
    BY DEF MutexHooks, CondHooks, ThreadHooks, Annotations, LineupHooks, InnerHooks
  <2>3. MutexHooks \cup CondHooks \cup ThreadHooks \cup Annotations \cup {"exit"} \subseteq Hooked
    BY DEF Hooked
  <2> QED BY <2>1, <2>2, <2>3 DEF Fns
<1>1. Short(ProgEndScript)
  <2>1. CASE opt.dbug BY <1>0, <2>1 DEF ProgEndScript
  <2>2. CASE ~opt.dbug BY <1>0, <2>2 DEF ProgEndScript
  <2> QED BY <2>1, <2>2
<1>2. Short(ChildScript) BY <1>0 DEF ChildScript
<1>3. Short(ThreadExitScript(t))
  <2>1. CASE t = main BY <1>0, <2>1 DEF ThreadExitScript
  <2>2. CASE t # main
    <3>1. Short(<<Item("tern", "tern_thread_end")>>)
          /\ Len(<<Item("tern", "tern_thread_end")>>) = 1 BY <1>0
    <3>2. Short(IF opt.dbug THEN <<Item("attach", "none")>> ELSE <<>>)
          /\ Len(IF opt.dbug THEN <<Item("attach", "none")>> ELSE <<>>) <= 1 BY <1>0
    <3> QED BY <2>2, <3>1, <3>2 DEF ThreadExitScript
  <2> QED BY <2>1, <2>2
<1>4. Short(<<Item("tern", "tern_lineup_start"), Item("tern", "tern_lineup_end")>>)
  BY <1>0
<1>5. Short(Script(t)) BY <1>1, <1>2, <1>3, <1>4 DEF Script
<1>6. \A s \in Seq(Items) : Len(s) \in Nat /\ \A i \in 1 .. Len(s) : s[i] \in Items
  OBVIOUS
<1>7. \A n \in Nat : n <= 8 => n \in 0 .. 8 OBVIOUS
<1>8. Script(t) \in Seq(Items) /\ Len(Script(t)) <= 8 BY <1>5
<1> QED BY <1>6, <1>7, <1>8, Zenon

-----------------------------------------------------------------------------
(* Every action, one after the other.                                      *)

(* A step in the middle of a call leaves the plain variables well typed.   *)
LEMMA PlainFrame ==
  ASSUME Plain, NEW t \in Threads
  PROVE  /\ UNCHANGED errno => errno' \in [Threads -> Errnos]
         /\ MayClobber(t) => errno' \in [Threads -> Errnos]
         /\ \A k : Failed(t, k) => errno' \in [Threads -> Errnos]
         /\ Cross(t) => space' \in [Threads -> {"Sys", "App"}]
         /\ \A b \in BOOLEAN :
              attached' = [attached EXCEPT ![t] = b] => attached' \in [Threads -> BOOLEAN]
         /\ \A b \in BOOLEAN :
              inNonDet' = [inNonDet EXCEPT ![t] = b] => inNonDet' \in [Threads -> BOOLEAN]
         /\ \A v \in {"none", "app", "raw", "ended"} :
              life' = [life EXCEPT ![t] = v] =>
                life' \in [Threads -> {"none", "app", "raw", "ended"}]
<1>1. /\ errno \in [Threads -> Errnos] /\ space \in [Threads -> {"Sys", "App"}]
      /\ attached \in [Threads -> BOOLEAN] /\ inNonDet \in [Threads -> BOOLEAN]
      /\ life \in [Threads -> {"none", "app", "raw", "ended"}]
      /\ {"app", "call", "rt"} \subseteq Errnos
  BY DEF Plain, Errnos
<1>2. MayClobber(t) => errno' \in [Threads -> Errnos] BY <1>1 DEF MayClobber
<1>3. \A k : Failed(t, k) => errno' \in [Threads -> Errnos] BY <1>1 DEF Failed
<1>4. Cross(t) => space' \in [Threads -> {"Sys", "App"}] BY <1>1 DEF Cross
<1> QED BY <1>1, <1>2, <1>3, <1>4

(* main() starts in tern_thread_begin, without the turn.                 *)
LEMMA InitHolds == Init => HInv
<1> SUFFICES ASSUME Init PROVE HInv OBVIOUS
<1>1. First \in Threads /\ None \notin Threads BY ProgramAssumption
<1>2. Plain BY <1>1 DEF Init, Plain, Errnos
<1>3. Frame("tern_thread_begin", "rt") \in FrameSet /\ Frame("tern_thread_begin", "rt").at = "rt"
  BY DEF Fns, InnerHooks, Ats, Errnos, Modes, FrameSet, Frame
<1>4. \A t \in Threads : frames[t] = IF t = First THEN <<Frame("tern_thread_begin", "rt")>> ELSE <<>>
  BY DEF Init
<1> DEFINE f == Frame("tern_thread_begin", "rt")
<1>5. /\ <<f>> \in Seq(FrameSet) /\ Rest(<<f>>) /\ ~Busy(<<f>>)
      /\ <<>> \in Seq(FrameSet) /\ Rest(<<>>) /\ ~Busy(<<>>)
  <2>1. <<f>> \in Seq(FrameSet) /\ Rest(<<f>>) /\ Head(<<f>>) = f BY <1>3, FreshStack
  <2>2. <<>> \in Seq(FrameSet) /\ Rest(<<>>) BY DEF Rest
  <2> QED BY <1>3, <2>1, <2>2 DEF Busy
<1> HIDE DEF f
<1>6. Stacks BY <1>1, <1>4, <1>5 DEF Stacks, Init, f
<1>7. \A t \in Threads : ~Busy(frames[t]) BY <1>4, <1>5 DEF f
<1>8. TurnStaysInside BY <1>1, <1>7 DEF TurnStaysInside, At, Top, Busy, Init
<1> QED BY <1>2, <1>6, <1>8 DEF HInv

(* The program calls a function, on an empty stack.                      *)
LEMMA CallStep ==
  ASSUME HInv, NEW t \in Threads, NEW f, Call(t, f)
  PROVE  HInv'
<1>1. Plain' BY PlainFrame DEF Call, HInv, Plain, Errnos
<1>2. f \in Fns BY ProgramAssumption DEF Call, Fns
<1> DEFINE fr == Frame(f, IF f = "exit" THEN "script" ELSE "hook")
<1>3. fr \in FrameSet /\ fr.at \in {"script", "hook"}
  BY <1>2 DEF Ats, FrameSet, Frame, Errnos, Modes
<1> HIDE DEF fr
<1>4. frames' = [frames EXCEPT ![t] = <<fr>>]
  BY FreshStack, <1>3 DEF Call, Push, fr
<1>5. <<fr>> \in Seq(FrameSet) /\ Rest(<<fr>>) /\ ~Busy(<<fr>>)
  BY <1>3, FreshStack DEF Busy
<1>6. ~Busy(frames[t]) /\ proc = "running" /\ holder' = holder
      /\ life[t] # "none" /\ life' = life
  BY DEF Call, Busy
<1> QED BY <1>1, <1>4, <1>5, <1>6, OneStack DEF LifeKept

(* An annotation returns at once or goes on to its wrapper.              *)
LEMMA AnnotationHookStep ==
  ASSUME HInv, NEW t \in Threads, AnnotationHook(t)
  PROVE  HInv'
<1>0. proc = "running" /\ frames[t] # <<>> /\ Top(t).at = "hook" BY DEF AnnotationHook, At
<1>1. Plain' BY PlainFrame DEF AnnotationHook, HInv, Plain
<1>2. Top(t) \in FrameSet /\ life[t] # "none" BY <1>0, TopFacts
<1>3. CASE Pop(t)
  BY <1>0, <1>1, <1>2, <1>3, PopStep DEF AnnotationHook, LifeKept, Turns
<1>4. CASE \E at \in {"script", "tern"} : Goto(t, at)
  <2> PICK at \in {"script", "tern"} : Goto(t, at) BY <1>4
  <2>1. [Top(t) EXCEPT !.at = at] \in FrameSet /\ [Top(t) EXCEPT !.at = at].at = at
    BY <1>2 DEF Ats, FrameSet
  <2> QED BY <1>0, <1>1, <1>2, <2>1, SetTopStep DEF AnnotationHook, LifeKept, Turns, Goto
<1> QED BY <1>3, <1>4 DEF AnnotationHook

(* A wrapper saves errno and enters Sys space.                           *)
LEMMA TernEnterStep ==
  ASSUME HInv, NEW t \in Threads, TernEnter(t)
  PROVE  HInv'
<1>0. proc = "running" /\ frames[t] # <<>> /\ Top(t).at = "tern" BY DEF TernEnter, At
<1>1. Plain' BY PlainFrame DEF TernEnter, HInv, Plain
<1>2. Top(t) \in FrameSet /\ life[t] # "none" BY <1>0, TopFacts
<1>3. errno[t] \in Errnos BY DEF HInv, Plain
<1> DEFINE f == [Top(t) EXCEPT !.at = "rt", !.error = errno[t]]
<1>4. f \in FrameSet /\ f.at = "rt" BY <1>2, <1>3 DEF Ats, FrameSet
<1> HIDE DEF f
<1> QED BY <1>0, <1>1, <1>2, <1>4, SetTopStep DEF TernEnter, LifeKept, Turns, f

(* An annotation that needs no turn.                                     *)
LEMMA RunUnscheduledStep ==
  ASSUME HInv, NEW t \in Threads, RunUnscheduled(t)
  PROVE  HInv'
<1>0. proc = "running" /\ frames[t] # <<>> /\ Top(t).at = "rt" BY DEF RunUnscheduled, At
<1>1. Plain' BY PlainFrame DEF RunUnscheduled, HInv, Plain
<1>2. Top(t) \in FrameSet /\ life[t] # "none" BY <1>0, TopFacts
<1> DEFINE f == [Top(t) EXCEPT !.at = "ret"]
<1>4. f \in FrameSet /\ f.at = "ret" BY <1>2 DEF Ats, FrameSet
<1> HIDE DEF f
<1> QED BY <1>0, <1>1, <1>2, <1>4, SetTopStep DEF RunUnscheduled, LifeKept, Turns, Goto, f

(* An interceptor chooses between the runtime and libc.                  *)
LEMMA InterceptStep ==
  ASSUME HInv, NEW t \in Threads, Intercept(t)
  PROVE  HInv'
<1>0. proc = "running" /\ frames[t] # <<>> /\ Top(t).at = "hook" BY DEF Intercept, At
<1>1. Plain' BY PlainFrame DEF Intercept, HInv, Plain
<1>2. Top(t) \in FrameSet /\ life[t] # "none" BY <1>0, TopFacts
<1>3. \E f \in FrameSet : SetTop(t, f) /\ f.at \in {"real", "script", "tern"}
  <2>1. \A at \in {"real", "script", "tern"} : [Top(t) EXCEPT !.at = at] \in FrameSet
          /\ [Top(t) EXCEPT !.at = at].at = at
    BY <1>2 DEF Ats, FrameSet
  <2>2. \A m \in {"sys", "orig"} : [Top(t) EXCEPT !.at = "real", !.mode = m] \in FrameSet
          /\ [Top(t) EXCEPT !.at = "real", !.mode = m].at = "real"
    BY <1>2 DEF Ats, FrameSet, Modes
  <2> QED BY <2>1, <2>2 DEF Intercept, Goto
<1> QED BY <1>0, <1>1, <1>2, <1>3, SetTopStep DEF Intercept, LifeKept, Turns

(* A wrapper returns with the errno it kept.                             *)
LEMMA TernReturnStep ==
  ASSUME HInv, NEW t \in Threads, TernReturn(t)
  PROVE  HInv'
<1>0. proc = "running" /\ frames[t] # <<>> /\ Top(t).at = "ret" BY DEF TernReturn, At
<1>2. Top(t) \in FrameSet /\ life[t] # "none" BY <1>0, TopFacts
<1>3. Top(t).error \in Errnos BY <1>2 DEF FrameSet
<1>1. Plain' BY <1>3, PlainFrame DEF TernReturn, HInv, Plain
<1> QED BY <1>0, <1>1, <1>2, PopStep DEF TernReturn, LifeKept, Turns

(* RecorderRT chooses the class of the call: none starts with the turn.  *)
LEMMA DispatchStep ==
  ASSUME HInv, NEW t \in Threads, Dispatch(t)
  PROVE  HInv'
<1>0. proc = "running" /\ frames[t] # <<>> /\ Top(t).at = "rt" BY DEF Dispatch, At
<1>1. Plain' BY PlainFrame DEF Dispatch, HInv, Plain
<1>2. Top(t) \in FrameSet /\ life[t] # "none" BY <1>0, TopFacts
<1>3. \E r \in Route(t, Top(t).fn) :
        SetTop(t, [Top(t) EXCEPT !.at = r.at, !.mode = r.mode])
  BY DEF Dispatch
<1>4. \A r \in Route(t, Top(t).fn) :
        /\ r.at \in {"real", "ret", "offq", "turn"}
        /\ r.mode \in {"direct", "none", "saved", "block"}
  BY DEF Route
<1>5. PICK r \in Route(t, Top(t).fn) :
        SetTop(t, [Top(t) EXCEPT !.at = r.at, !.mode = r.mode])
  BY <1>3
<1> DEFINE f == [Top(t) EXCEPT !.at = r.at, !.mode = r.mode]
<1>6. f \in FrameSet /\ f.at \in {"real", "ret", "offq", "turn"}
  BY <1>2, <1>4 DEF FrameSet, Ats, Modes
<1>7. SetTop(t, f) BY <1>5
<1> HIDE DEF f
<1> QED BY <1>0, <1>1, <1>2, <1>6, <1>7, SetTopStep DEF Dispatch, LifeKept, Turns

(* getTurn() when nobody has the turn.                                   *)
LEMMA GetTurnStep ==
  ASSUME HInv, NEW t \in Threads, GetTurn(t)
  PROVE  HInv'
<1>0. proc = "running" /\ frames[t] # <<>> /\ Top(t).at = "turn" BY DEF GetTurn, At
<1>1. Plain' BY PlainFrame DEF GetTurn, HInv, Plain
<1>2. Top(t) \in FrameSet /\ life[t] # "none" BY <1>0, TopFacts
<1> DEFINE f == [Top(t) EXCEPT !.at = "held"]
<1>3. f \in FrameSet /\ f.at = "held" BY <1>2 DEF Ats, FrameSet
<1> HIDE DEF f
<1> QED BY <1>0, <1>1, <1>2, <1>3, SetTopStep DEF GetTurn, LifeKept, Turns, f, Goto

(* A wait passes the turn on.                                            *)
LEMMA WaitStep ==
  ASSUME HInv, NEW t \in Threads, Wait(t)
  PROVE  HInv'
<1>0. proc = "running" /\ frames[t] # <<>> /\ Top(t).at = "held" BY DEF Wait, At
<1>1. Plain' BY PlainFrame DEF Wait, HInv, Plain
<1>2. Top(t) \in FrameSet /\ life[t] # "none" BY <1>0, TopFacts
<1> DEFINE f == [Top(t) EXCEPT !.at = "turn"]
<1>3. f \in FrameSet /\ f.at = "turn" BY <1>2 DEF Ats, FrameSet
<1> HIDE DEF f
<1>4. holder = t BY <1>0 DEF HInv, TurnStaysInside, At
<1> QED BY <1>0, <1>1, <1>2, <1>3, <1>4, SetTopStep DEF Wait, LifeKept, Turns, f, Goto

(* nonDetStart() passes the turn on while it waits.                      *)
LEMMA NonDetWaitStep ==
  ASSUME HInv, NEW t \in Threads, NonDetWait(t)
  PROVE  HInv'
<1>0. proc = "running" /\ frames[t] # <<>> /\ Top(t).at = "held" BY DEF NonDetWait, At
<1>9. opt.dbug \in BOOLEAN BY ProgramAssumption DEF HInv, Plain
<1>1. Plain' BY <1>9, PlainFrame DEF NonDetWait, HInv, Plain
<1>2. Top(t) \in FrameSet /\ life[t] # "none" BY <1>0, TopFacts
<1> DEFINE f == [Top(t) EXCEPT !.at = "turn", !.step = 2]
<1>8. 2 \in 1 .. 9 OBVIOUS
<1>3. f \in FrameSet /\ f.at = "turn" BY <1>2, <1>8 DEF Ats, FrameSet
<1> HIDE DEF f
<1>4. holder = t BY <1>0 DEF HInv, TurnStaysInside, At
<1> QED BY <1>0, <1>1, <1>2, <1>3, <1>4, SetTopStep DEF NonDetWait, LifeKept, Turns, f

(* The operation itself keeps the turn.                                  *)
LEMMA OperateStep ==
  ASSUME HInv, NEW t \in Threads, Operate(t)
  PROVE  HInv'
<1>0. proc = "running" /\ frames[t] # <<>> /\ Top(t).at = "held" BY DEF Operate, At
<1>1. Plain' BY PlainFrame DEF Operate, HInv, Plain
<1>2. Top(t) \in FrameSet /\ life[t] # "none" BY <1>0, TopFacts
<1>3. \E f \in FrameSet : SetTop(t, f) /\ f.at = "put"
  <2>1. \A k \in {"ok", "failed"} :
          LET f == After([Top(t) EXCEPT !.at = "put"], k, TRUE) IN f \in FrameSet /\ f.at = "put"
    BY <1>2, ZenonT(60) DEF Ats, FrameSet, After, Errnos
  <2>2. PICK k \in {"ok", "failed"} : SetTop(t, After([Top(t) EXCEPT !.at = "put"], k, TRUE))
    BY DEF Operate, Outcomes
  <2> QED BY <2>1, <2>2
<1> QED BY <1>0, <1>1, <1>2, <1>3, SetTopStep DEF Operate, LifeKept, Turns

(* BLOCK_TIMER_END.                                                      *)
LEMMA BlockEndStep ==
  ASSUME HInv, NEW t \in Threads, BlockEnd(t)
  PROVE  HInv'
<1>0. proc = "running" /\ frames[t] # <<>> /\ Top(t).at = "detach" BY DEF BlockEnd, At
<1>1. Plain' BY PlainFrame DEF BlockEnd, HInv, Plain
<1>2. Top(t) \in FrameSet /\ life[t] # "none" BY <1>0, TopFacts
<1> DEFINE f == [Top(t) EXCEPT !.at = "ret"]
<1>3. f \in FrameSet /\ f.at = "ret" BY <1>2 DEF Ats, FrameSet
<1> HIDE DEF f
<1> QED BY <1>0, <1>1, <1>2, <1>3, SetTopStep DEF BlockEnd, LifeKept, Turns, f, Goto

(* An interceptor returns without the turn.                              *)
LEMMA InterceptReturnStep ==
  ASSUME HInv, NEW t \in Threads, InterceptReturn(t)
  PROVE  HInv'
<1>0. proc = "running" /\ frames[t] # <<>> /\ Top(t).at = "out" BY DEF InterceptReturn, At
<1>1. Plain' BY PlainFrame DEF InterceptReturn, HInv, Plain
<1>2. Top(t) \in FrameSet /\ life[t] # "none" BY <1>0, TopFacts
<1> QED BY <1>0, <1>1, <1>2, PopStep DEF InterceptReturn, LifeKept, Turns

(* execv ends the process.                                               *)
LEMMA ExecStep ==
  ASSUME HInv, NEW t \in Threads, Exec(t)
  PROVE  HInv'
<1>0. proc = "running" /\ frames[t] # <<>> /\ Top(t).at = "held" BY DEF Exec, At
<1>1. Plain' BY PlainFrame DEF Exec, HInv, Plain
<1>2. Top(t) \in FrameSet /\ life[t] # "none" BY <1>0, TopFacts
<1> QED BY <1>1, GoneStep DEF Exec

(* Leaving the run queue.                                                *)
LEMMA OffQueueStep ==
  ASSUME HInv, NEW t \in Threads, OffQueue(t)
  PROVE  HInv'
<1>0. proc = "running" /\ frames[t] # <<>> /\ Top(t).at = "offq" BY DEF OffQueue, At
<1>9. opt.dbug \in BOOLEAN BY ProgramAssumption DEF HInv, Plain
<1>1. Plain' BY <1>9, PlainFrame DEF OffQueue, HInv, Plain
<1>2. Top(t) \in FrameSet /\ life[t] # "none" BY <1>0, TopFacts
<1>3. \E f \in FrameSet : SetTop(t, f) /\ f.at \in {"ret", "real"}
  <2>1. \A at \in {"ret", "real"} : [Top(t) EXCEPT !.at = at] \in FrameSet
          /\ [Top(t) EXCEPT !.at = at].at = at
    BY <1>2 DEF Ats, FrameSet
  <2> QED BY <2>1 DEF OffQueue, Goto
<1> QED BY <1>0, <1>1, <1>2, <1>3, SetTopStep DEF OffQueue, LifeKept, Turns

(* putTurn(), after which the frame is no longer at a place with the turn. *)
LEMMA PutTurnStep ==
  ASSUME HInv, NEW t \in Threads, PutTurn(t)
  PROVE  HInv'
<1>0. proc = "running" /\ frames[t] # <<>> /\ Top(t).at = "put" BY DEF PutTurn, At
<1>1. Plain' BY PlainFrame DEF PutTurn, HInv, Plain
<1>2. Top(t) \in FrameSet /\ life[t] # "none" BY <1>0, TopFacts
<1>3. holder = t BY <1>0 DEF HInv, TurnStaysInside, At
<1>4. CASE Pop(t)
  BY <1>0, <1>1, <1>2, <1>3, <1>4, PopStep DEF PutTurn, LifeKept, Turns
<1>5. CASE \E at \in {"offq", "ret"} : Goto(t, at)
  <2> PICK at \in {"offq", "ret"} : Goto(t, at) BY <1>5
  <2> DEFINE f == [Top(t) EXCEPT !.at = at]
  <2>1. f \in FrameSet /\ f.at = at BY <1>2 DEF FrameSet, Ats
  <2> HIDE DEF f
  <2> QED BY <1>0, <1>1, <1>2, <1>3, <2>1, SetTopStep DEF PutTurn, LifeKept, Turns, Goto, f
<1>6. CASE SetTop(t, [Top(t) EXCEPT !.at = "script", !.step = 1])
  <2> DEFINE f == [Top(t) EXCEPT !.at = "script", !.step = 1]
  <2>8. 1 \in 1 .. 9 OBVIOUS
  <2>1. f \in FrameSet /\ f.at = "script" BY <1>2, <2>8 DEF FrameSet, Ats
  <2>2. SetTop(t, f) BY <1>6
  <2> HIDE DEF f
  <2> QED BY <1>0, <1>1, <1>2, <1>3, <2>1, <2>2, SetTopStep DEF PutTurn, LifeKept, Turns
<1> QED BY <1>4, <1>5, <1>6 DEF PutTurn

(* pthread_create keeps the turn, and the child starts without it.       *)
LEMMA CreateStep ==
  ASSUME HInv, NEW t \in Threads, Create(t)
  PROVE  HInv'
<1>0. proc = "running" /\ frames[t] # <<>> /\ Top(t).at = "held" BY DEF Create, At
<1>1. Plain'
  <2>1. life' \in [Threads -> {"none", "app", "raw", "ended"}] BY DEF Create, HInv, Plain
  <2> QED BY <2>1 DEF Create, HInv, Plain
<1>2. Top(t) \in FrameSet /\ life[t] # "none" BY <1>0, TopFacts
<1> DEFINE f == [Top(t) EXCEPT !.at = "put"]
<1>3. f \in FrameSet /\ f.at = "put" BY <1>2 DEF Ats, FrameSet
<1>4. CASE Goto(t, "put") /\ UNCHANGED life
  <2>1. SetTop(t, f) BY <1>4 DEF Goto
  <2> HIDE DEF f
  <2> QED BY <1>0, <1>1, <1>3, <1>4, <2>1, SetTopStep DEF Create, LifeKept, Turns
<1>5. CASE proc' = "gone" /\ UNCHANGED <<life, frames>>
  BY <1>1, <1>5, GoneStep
<1>6. CASE \E u \in {u \in Threads : life[u] = "none"} :
             /\ life' = [life EXCEPT ![u] = "app"]
             /\ frames' = [frames EXCEPT
                  ![t] = <<f>> \o Tail(@), ![u] = <<Frame("tern_thread_begin", "rt")>>]
  <2>1. PICK u \in Threads :
          /\ life[u] = "none" /\ life' = [life EXCEPT ![u] = "app"]
          /\ frames' = [frames EXCEPT
               ![t] = <<f>> \o Tail(@), ![u] = <<Frame("tern_thread_begin", "rt")>>]
    BY <1>6
  <2> DEFINE new == <<f>> \o Tail(frames[t])
             g == Frame("tern_thread_begin", "rt")
  <2>2. u # t /\ holder' = holder BY <1>2, <2>1 DEF Create
  <2>3. g \in FrameSet /\ g.at = "rt"
    BY DEF Fns, InnerHooks, Ats, Errnos, Modes, FrameSet, Frame
  <2>4. new \in Seq(FrameSet) /\ Rest(new) /\ new # <<>> /\ Head(new) = f
    BY <1>0, <1>3, TopFacts, SetTopStack
  <2>5. <<g>> \in Seq(FrameSet) /\ Rest(<<g>>) /\ Head(<<g>>) = g
    BY <2>3, FreshStack
  <2>6. frames \in [Threads -> Seq(FrameSet)] /\ life \in [Threads -> {"none", "app", "raw", "ended"}]
    BY DEF HInv, Stacks, Plain
  <2>7. frames' = [[frames EXCEPT ![t] = new] EXCEPT ![u] = <<g>>] BY <2>1
  <2> HIDE DEF f, g, new
  <2>8. /\ frames' \in [Threads -> Seq(FrameSet)]
        /\ frames'[t] = new /\ frames'[u] = <<g>>
        /\ \A v \in Threads \ {t, u} : frames'[v] = frames[v]
    BY <2>2, <2>4, <2>5, <2>6, <2>7
  <2>9. Stacks'
    <3>1. \A v \in Threads : life'[v] = "none" => v # u /\ life[v] = "none"
      BY <2>1, <2>6
    <3> QED BY <1>2, <2>4, <2>5, <2>8, <3>1 DEF Stacks, HInv
  <2>10. \A v \in Threads : Busy(frames[v]) <=> holder = v
    BY <1>0 DEF HInv, TurnStaysInside, At, Top, Busy
  <2>11. holder = t BY <1>0, <2>10 DEF Busy, Top
  <2>12. Busy(new) /\ ~Busy(<<g>>) BY <1>3, <2>3, <2>4, <2>5 DEF Busy
  <2>13. \A v \in Threads : Busy(frames'[v]) <=> holder' = v
    BY <2>2, <2>8, <2>10, <2>11, <2>12
  <2>14. TurnStaysInside' BY <2>13 DEF TurnStaysInside, At, Top, Busy
  <2> QED BY <1>1, <2>9, <2>14 DEF HInv
<1> QED BY <1>4, <1>5, <1>6 DEF Create

(* fork keeps the turn with the forking thread, in the parent and in the child. *)
LEMMA ForkStep ==
  ASSUME HInv, NEW t \in Threads, Fork(t)
  PROVE  HInv'
<1>0. proc = "running" /\ frames[t] # <<>> /\ Top(t).at = "held" BY DEF Fork, At
<1>1. Plain'
  <2>1. life' \in [Threads -> {"none", "app", "raw", "ended"}] BY DEF Fork, HInv, Plain
  <2> QED BY <2>1 DEF Fork, HInv, Plain
<1>2. Top(t) \in FrameSet /\ life[t] # "none" BY <1>0, TopFacts
<1>3. CASE Goto(t, "put") /\ UNCHANGED <<proc, main, life>>
  <2> DEFINE f == [Top(t) EXCEPT !.at = "put"]
  <2>1. f \in FrameSet /\ f.at = "put" BY <1>2 DEF Ats, FrameSet
  <2>2. SetTop(t, f) BY <1>3 DEF Goto
  <2> HIDE DEF f
  <2> QED BY <1>0, <1>1, <1>3, <2>1, <2>2, SetTopStep DEF Fork, LifeKept, Turns
<1>4. CASE proc' = "gone" /\ UNCHANGED <<frames, main, life>>
  BY <1>1, <1>4, GoneStep
<1>5. CASE /\ frames' = [u \in Threads |-> IF u = t
                THEN <<[Top(t) EXCEPT !.at = "put", !.step = 2]>> \o Tail(frames[t])
                ELSE <<>>]
           /\ life' = [u \in Threads |-> IF u = t THEN life[t] ELSE "ended"]
  <2> DEFINE f == [Top(t) EXCEPT !.at = "put", !.step = 2]
             new == <<f>> \o Tail(frames[t])
  <2>1. 2 \in 1 .. 9 OBVIOUS
  <2>2. f \in FrameSet /\ f.at = "put" BY <1>2, <2>1 DEF Ats, FrameSet
  <2>3. frames' = [u \in Threads |-> IF u = t THEN new ELSE <<>>] BY <1>5
  <2> HIDE DEF f
  <2>4. new \in Seq(FrameSet) /\ Rest(new) /\ Busy(new)
    BY <1>0, <2>2, TopFacts, SetTopStack DEF Busy
  <2> HIDE DEF new
  <2>5. <<>> \in Seq(FrameSet) /\ Rest(<<>>) /\ ~Busy(<<>>) BY DEF Rest, Busy
  <2>6. Stacks' BY <1>2, <1>5, <2>3, <2>4, <2>5 DEF Stacks
  <2>7. holder = t /\ holder' = holder BY <1>0 DEF HInv, TurnStaysInside, At, Fork
  <2>8. \A v \in Threads : Busy(frames'[v]) <=> holder' = v
    BY <2>3, <2>4, <2>5, <2>7
  <2>9. TurnStaysInside' BY <2>8 DEF TurnStaysInside, At, Top, Busy
  <2> QED BY <1>1, <2>6, <2>9 DEF HInv
<1> QED BY <1>3, <1>4, <1>5 DEF Fork

(* A real call outside the turn.                                         *)
LEMMA RealStep ==
  ASSUME HInv, NEW t \in Threads, Real(t)
  PROVE  HInv'
<1>0. proc = "running" /\ frames[t] # <<>> /\ Top(t).at = "real" BY DEF Real, At
<1>1. Plain'
  <2>1. life' \in [Threads -> {"none", "app", "raw", "ended"}] BY DEF Real, HInv, Plain
  <2>2. errno' \in [Threads -> Errnos]
    BY PlainFrame DEF Real, HInv, Plain
  <2> QED BY <2>1, <2>2 DEF Real, HInv, Plain
<1>2. Top(t) \in FrameSet /\ life[t] # "none" BY <1>0, TopFacts
<1>3. LifeKept BY DEF LifeKept, Real, HInv, Plain
<1>4. CASE Pop(t)
  BY <1>0, <1>1, <1>3, <1>4, PopStep DEF Real, Turns
<1>5. CASE proc' = "gone" /\ UNCHANGED <<life, frames>>
  BY <1>1, <1>5, GoneStep
<1>6. CASE \E f \in FrameSet : SetTop(t, f) /\ f.at \in {"detach", "out", "ret"}
  BY <1>0, <1>1, <1>3, <1>6, SetTopStep DEF Real, Turns
<1>7. \A back \in {"detach", "out", "ret"}, k \in {"ok", "failed"}, saved \in BOOLEAN :
        LET f == After([Top(t) EXCEPT !.at = back], k, saved) IN f \in FrameSet /\ f.at = back
  <2> SUFFICES ASSUME NEW back \in {"detach", "out", "ret"}, NEW k \in {"ok", "failed"},
                      NEW saved \in BOOLEAN
               PROVE  LET f == After([Top(t) EXCEPT !.at = back], k, saved)
                      IN  f \in FrameSet /\ f.at = back
    OBVIOUS
  <2> DEFINE r == [Top(t) EXCEPT !.at = back]
  <2>1. r \in FrameSet /\ r.at = back BY <1>2 DEF FrameSet, Ats
  <2> HIDE DEF r
  <2>2. After(r, k, saved) \in FrameSet /\ After(r, k, saved).at = back
    BY <2>1 DEF FrameSet, After, Errnos
  <2> QED BY <2>2 DEF r
<1>8. \A back \in {"detach", "out", "ret"} :
        [Top(t) EXCEPT !.at = back] \in FrameSet /\ [Top(t) EXCEPT !.at = back].at = back
  BY <1>2 DEF FrameSet, Ats
<1>9. \/ Pop(t) \/ (proc' = "gone" /\ UNCHANGED <<life, frames>>)
      \/ \E back \in {"detach", "out", "ret"}, k \in {"ok", "failed"}, saved \in BOOLEAN :
           SetTop(t, After([Top(t) EXCEPT !.at = back], k, saved))
      \/ \E back \in {"detach", "out", "ret"} : SetTop(t, [Top(t) EXCEPT !.at = back])
  <2> DEFINE back == CASE Top(t).mode = "block" -> "detach"
                       [] Top(t).mode \in {"orig", "sys"} -> "out"
                       [] OTHER -> "ret"
             saved == Top(t).mode \in {"saved", "block"}
             Outs == IF Top(t).fn = "execv" THEN {"failed"} ELSE Outcomes(Top(t).fn)
  <2>1. back \in {"detach", "out", "ret"} OBVIOUS
  <2>2. saved \in BOOLEAN OBVIOUS
  <2>3. Outs \subseteq {"ok", "failed"} BY DEF Outcomes
  <2>4. \/ Pop(t) \/ (proc' = "gone" /\ UNCHANGED <<life, frames>>)
        \/ \E k \in Outs : SetTop(t, After([Top(t) EXCEPT !.at = back], k, saved))
        \/ SetTop(t, [Top(t) EXCEPT !.at = back])
    BY DEF Real, Goto
  <2> HIDE DEF back, saved, Outs
  <2> QED BY <2>1, <2>2, <2>3, <2>4
<1> QED BY <1>4, <1>5, <1>6, <1>7, <1>8, <1>9, ZenonT(60)

(* The next item of a script, and its step count.                          *)
LEMMA ItemFacts ==
  ASSUME HInv, NEW t \in Threads, Scripted(t)
  PROVE  /\ proc = "running" /\ frames[t] # <<>> /\ Top(t).at = "script"
         /\ NextItem(t) \in Items
         /\ Advanced(t) \in FrameSet /\ Advanced(t).at = "script"
<1>0. proc = "running" /\ frames[t] # <<>> /\ Top(t).at = "script" BY DEF Scripted, At
<1>1. Top(t) \in FrameSet BY <1>0, TopFacts
<1>2. Top(t).step \in 1 .. 9 BY <1>1 DEF FrameSet
<1>3. Top(t).step <= Len(Script(t)) BY DEF Scripted
<1>4. Len(Script(t)) \in 0 .. 8 BY ScriptFacts
<1>5. Top(t).step \in 1 .. Len(Script(t)) /\ Top(t).step + 1 \in 1 .. 9
  <2>1. \A n \in 1 .. 9, m \in 0 .. 8 : n <= m => n \in 1 .. m /\ n + 1 \in 1 .. 9 OBVIOUS
  <2> QED BY <1>2, <1>3, <1>4, <2>1, Zenon
<1>6. NextItem(t) \in Items BY <1>5, ScriptFacts DEF NextItem
<1>7. Advanced(t) \in FrameSet /\ Advanced(t).at = "script"
  BY <1>0, <1>1, <1>5 DEF Advanced, FrameSet
<1> QED BY <1>0, <1>6, <1>7

(* A script calls a wrapper.                                             *)
LEMMA ScriptCallStep ==
  ASSUME HInv, NEW t \in Threads, ScriptCall(t)
  PROVE  HInv'
<1>0. Scripted(t) /\ NextItem(t).via \in {"hook", "tern", "script"} BY DEF ScriptCall
<1>1. Plain' BY DEF ScriptCall, HInv, Plain
<1>2. /\ proc = "running" /\ frames[t] # <<>> /\ Top(t).at = "script"
      /\ NextItem(t) \in Items
      /\ Advanced(t) \in FrameSet /\ Advanced(t).at = "script"
  BY <1>0, ItemFacts
<1> DEFINE f == Frame(NextItem(t).fn, NextItem(t).via)
           new == <<f, Advanced(t)>> \o Tail(frames[t])
<1>3. f \in FrameSet /\ f.at \in {"hook", "tern", "script"}
  <2>1. NextItem(t).fn \in Fns BY <1>0, <1>2 DEF Items
  <2>2. 1 \in 1 .. 9 OBVIOUS
  <2> QED BY <1>0, <2>1, <2>2 DEF FrameSet, Frame, Ats, Errnos, Modes
<1>4. frames' = [frames EXCEPT ![t] = new] BY DEF ScriptCall
<1> HIDE DEF f
<1>5. new \in Seq(FrameSet) /\ Rest(new) /\ ~Busy(new)
  BY <1>2, <1>3, TopFacts, PushStack DEF Busy
<1> HIDE DEF new
<1>6. ~Busy(frames[t]) /\ life[t] # "none" BY <1>2, TopFacts
<1>7. holder' = holder /\ LifeKept BY DEF ScriptCall, LifeKept
<1> QED BY <1>1, <1>2, <1>4, <1>5, <1>6, <1>7, OneStack

(* A script crosses or attaches by itself.                               *)
LEMMA ScriptStepStep ==
  ASSUME HInv, NEW t \in Threads, ScriptStep(t)
  PROVE  HInv'
<1>0. Scripted(t) BY DEF ScriptStep
<1>1. Plain' BY PlainFrame DEF ScriptStep, HInv, Plain
<1>2. /\ proc = "running" /\ frames[t] # <<>> /\ Top(t).at = "script"
      /\ Advanced(t) \in FrameSet /\ Advanced(t).at = "script"
  BY <1>0, ItemFacts
<1> QED BY <1>1, <1>2, SetTopStep DEF ScriptStep, LifeKept, Turns

(* The end of a script.                                                  *)
LEMMA ScriptEndStep ==
  ASSUME HInv, NEW t \in Threads, ScriptEnd(t)
  PROVE  HInv'
<1>0. proc = "running" /\ frames[t] # <<>> /\ Top(t).at = "script" BY DEF ScriptEnd, At
<1>1. Plain' BY DEF ScriptEnd, HInv, Plain
<1>2. Top(t) \in FrameSet /\ life[t] # "none" BY <1>0, TopFacts
<1>3. LifeKept BY DEF LifeKept, ScriptEnd, HInv, Plain
<1>4. CASE Pop(t)
  BY <1>0, <1>1, <1>3, <1>4, PopStep DEF ScriptEnd, Turns
<1>5. CASE proc' = "gone" /\ UNCHANGED <<life, frames>>
  BY <1>1, <1>5, GoneStep
<1>6. CASE Goto(t, "ret")
  <2> DEFINE f == [Top(t) EXCEPT !.at = "ret"]
  <2>1. f \in FrameSet /\ f.at = "ret" BY <1>2 DEF FrameSet, Ats
  <2>2. SetTop(t, f) BY <1>6 DEF Goto
  <2> HIDE DEF f
  <2> QED BY <1>0, <1>1, <1>3, <2>1, <2>2, SetTopStep DEF ScriptEnd, Turns
<1> QED BY <1>4, <1>5, <1>6 DEF ScriptEnd

-----------------------------------------------------------------------------
(* The whole of it: the plain types, the stacks and the turn together are  *)
(* inductive.                                                              *)
LEMMA StepHolds == HInv /\ [Next]_vars => HInv'
<1> SUFFICES ASSUME HInv, [Next]_vars PROVE HInv' OBVIOUS
<1>1. CASE UNCHANGED vars
  BY <1>1 DEF vars, HInv, Plain, Stacks, TurnStaysInside, At, Top
<1>2. CASE Next
  <2> PICK t \in Threads :
        \/ \E f \in Calls[t] : Call(t, f)
        \/ Inside(t) \/ GetTurn(t) \/ Wait(t) \/ OffQueue(t) \/ Operate(t) \/ Real(t)
    BY <1>2 DEF Next
  <2>1. CASE \E f \in Calls[t] : Call(t, f) BY <2>1, CallStep
  <2>2. CASE Inside(t)
    BY <2>2, AnnotationHookStep, InterceptStep, TernEnterStep, TernReturnStep,
       RunUnscheduledStep, DispatchStep, NonDetWaitStep, CreateStep, ForkStep, ExecStep,
       PutTurnStep, BlockEndStep, InterceptReturnStep, ScriptCallStep, ScriptStepStep,
       ScriptEndStep DEF Inside
  <2>3. CASE GetTurn(t) \/ Wait(t) \/ OffQueue(t) \/ Operate(t) \/ Real(t)
    BY <2>3, GetTurnStep, WaitStep, OffQueueStep, OperateStep, RealStep
  <2> QED BY <2>1, <2>2, <2>3
<1> QED BY <1>1, <1>2

(* The turn is held exactly from getTurn to putTurn inside a wrapper, on   *)
(* every path through nested wrappers, thread start and end, fork and      *)
(* non-deterministic regions (hooks.cpp, record-runtime.cpp), whatever the *)
(* number of threads, the program and the options.                         *)
THEOREM TurnIsInside == Spec => []TurnStaysInside
<1>1. HInv => TurnStaysInside BY DEF HInv
<1> QED BY InitHolds, StepHolds, <1>1, PTL DEF Spec

(* The types: stacks hold frames of hooked functions at a known place, and *)
(* no script runs past its end (hooks.cpp, spec_hooks.cpp).                *)
THEOREM TypesAreRight == Spec => []TypeOK
<1>1. HInv => TypeOK
  <2> SUFFICES ASSUME HInv PROVE TypeOK OBVIOUS
  <2>1. DOMAIN frames = Threads /\ \A t \in Threads : frames[t] \in Seq(FrameSet)
    BY DEF HInv, Stacks
  <2>2. \A t \in Threads : \A i \in 1 .. Len(frames[t]) : frames[t][i] \in FrameSet
    BY <2>1
  <2> QED BY <2>1, <2>2 DEF TypeOK, HInv, Plain, FrameSet, Fns
<1> QED BY InitHolds, StepHolds, <1>1, PTL DEF Spec

-----------------------------------------------------------------------------
(***************************************************************************)
(* The runtime runs in Sys space and the application in App space, the     *)
(* dbug assertions hold and errno is delivered, for any number of threads, *)
(* any program and any options.  All three follow from what each frame of  *)
(* a stack says about its thread: the space it runs in, whether it is      *)
(* attached and in a region, and how the frame below called it.            *)
(***************************************************************************)

(* The frames that run a script, and the steps of a script in Sys space.   *)
Scripts == {"exit", "fork", "pthread_exit", "soba_wait"}
SysSteps(f, o) ==
  CASE f = "exit" -> IF o.dbug THEN 2 .. 9 ELSE {6, 9}
    [] f = "fork" -> {1} \cup 5 .. 9
    [] f = "pthread_exit" -> 2 .. 9
    [] OTHER -> {}

(* The space a thread of the runtime is in while frame f is on top, and    *)
(* when it returns.                                                        *)
FrameSpace(f, o) ==
  IF f.at \in {"hook", "tern"} \/ (f.at = "script" /\ f.step \notin SysSteps(f.fn, o))
  THEN "App" ELSE "Sys"
ReturnSpace(f) == IF f.fn = "tern_thread_end" THEN "Sys" ELSE "App"

(* What a frame can be: where each function can be, in which mode, and     *)
(* what it knows of a failed call.                                         *)
PlaceOK(f) ==
  /\ f.at = "script" => f.fn \in Scripts
  /\ f.fn = "exit" => f.at = "script"
  /\ f.at \in {"hook", "tern", "rt"} => f.step = 1
  /\ f.fn = "tern_thread_end" => f.at \in {"tern", "rt", "turn", "held", "put"}
ModeOK(f) ==
  /\ f.at = "real" => f.mode # "none"
  /\ f.at = "out" => f.mode \in {"orig", "sys"}
  /\ f.at = "detach" => f.mode = "block"
  /\ f.at = "offq" /\ f.fn # "pcs_enter" => f.mode = "block"
RegionOK(f, o) ==
  /\ f.fn \in RegionHooks /\ f.at # "hook" => o.dmt /\ o.annot /\ o.nondet
  /\ f.fn = "pcs_enter" =>
       /\ f.at \in {"hook", "tern", "rt", "turn", "held", "put", "offq", "ret"}
       /\ f.at \in {"put", "offq"} => f.step = 2
ErrorOK(f) ==
  f.kern = "failed" =>
    /\ f.at \in {"put", "detach", "ret", "out"}
    /\ f.at = "out" \/ f.error = "call" \/ f.mode = "direct"
    /\ f.at = "put" => f.fn \notin {"fork", "pcs_enter"}
FrameOK(f, o) == PlaceOK(f) /\ ModeOK(f) /\ RegionOK(f, o) /\ ErrorOK(f)

(* Frame f was called by the script of frame g.                            *)
Called(f, g, o) ==
  /\ f.fn = "exit" => g.fn = "pthread_exit"
  /\ f.fn # "exit" => FrameSpace(g, o) = ReturnSpace(f)
  /\ f.fn \notin {"pthread_exit", "fork", "soba_wait", "pcs_enter"}
  /\ o.dbug => g.fn # "exit" /\ (g.fn = "pthread_exit" => g.step = 2)

(* The stack of a thread of the runtime, and of a thread it never saw.     *)
Chain(s, o) ==
  /\ \A i \in 1 .. Len(s) : FrameOK(s[i], o)
  /\ \A i \in 1 .. Len(s) - 1 : Called(s[i], s[i + 1], o)
  /\ s # <<>> => s[Len(s)].fn # "tern_thread_end"
AppStack(s, sp, o) ==
  /\ Chain(s, o)
  /\ \A i \in 1 .. Len(s) : s[i].mode # "sys"
  /\ sp = IF s = <<>> THEN "App" ELSE FrameSpace(Head(s), o)
RawStack(s, sp, o) ==
  /\ Chain(s, o) /\ Len(s) <= 1 /\ sp = "Sys"
  /\ s # <<>> => Head(s).at \in {"hook", "real", "out"} /\ (Head(s).at # "hook" => Head(s).mode = "sys")

(* A thread in a non-deterministic region runs no function that is not     *)
(* allowed there, and leaves a region only when it is in one.              *)
Outside == (NoRegion \ {"pcs_enter"}) \cup {"tern_thread_end"}
RegionTop(f, in, o) ==
  /\ f.fn = "pcs_enter" => (in <=> f.at = "ret")
  /\ f.at \in {"offq", "real", "detach"} /\ f.mode = "block" => ~in
  /\ f.fn \in {"pcs_exit", "pcs_barrier_exit"} /\ f.at \in {"hook", "tern", "rt"}
       => in \/ ~(o.dmt /\ o.annot /\ o.nondet)
RegionStack(s, in, o) ==
  /\ in => o.nondet /\ \A i \in 1 .. Len(s) : s[i].fn \notin Outside
  /\ s # <<>> => RegionTop(Head(s), in, o)

(* The thread is attached to dbug in a region and on these frames.         *)
Away(f) ==
  \/ f.at \in {"real", "detach"} /\ f.mode = "block"
  \/ f.fn = "pcs_enter" /\ f.step = 2
  \/ f.at = "script" /\ f.fn \in {"exit", "pthread_exit"} /\ f.step = 3
AttachedRight(s, in, att, o) == o.dbug => (att <=> (in \/ (s # <<>> /\ Away(Head(s)))))

(* A thread is right: l is its life, s its stack, sp its space, e its      *)
(* errno, in and att whether it is in a region and attached.               *)
Right(l, s, sp, e, in, att, o) ==
  /\ l = "app" => AppStack(s, sp, o) /\ RegionStack(s, in, o) /\ AttachedRight(s, in, att, o)
  /\ l = "raw" => RawStack(s, sp, o)
  /\ l = "none" => sp = "Sys" /\ ~in /\ ~att
  /\ l = "ended" => s = <<>>
  /\ (s # <<>> /\ Head(s).at = "out" /\ Head(s).kern = "failed") => e = "call"
ThreadOK(t) == Right(life[t], frames[t], space[t], errno[t], inNonDet[t], attached[t], opt)
SpaceInv == \A t \in Threads : ThreadOK(t)
-----------------------------------------------------------------------------

(* The stack below the top frame.                                          *)
LEMMA TailFacts ==
  ASSUME NEW F, NEW s \in Seq(F), s # <<>>
  PROVE  /\ Tail(s) = <<>> <=> Len(s) = 1
         /\ Len(s) # 1 => 1 \in 1 .. Len(s) - 1
         /\ Len(s) <= 1 => Len(s) = 1
<1>1. Len(s) \in Nat /\ Len(s) >= 1 /\ Tail(s) \in Seq(F) /\ Len(Tail(s)) = Len(s) - 1 OBVIOUS
<1> DEFINE n == Tail(s)
           k == Len(s)
<1>2. n \in Seq(F) /\ Len(n) = k - 1 /\ k \in Nat /\ k >= 1 BY <1>1
<1> HIDE DEF n, k
<1>3. n = <<>> <=> Len(n) = 0 BY <1>2
<1>4. k # 1 => 1 \in 1 .. k - 1 BY <1>2
<1>5. k <= 1 => k = 1 BY <1>2
<1>6. n = <<>> <=> k = 1 BY <1>2, <1>3
<1> QED BY <1>4, <1>5, <1>6 DEF n, k

-----------------------------------------------------------------------------
(* Stacks of frames.                                                       *)

(* Replacing the top frame by one of the same function keeps the chain.    *)
LEMMA ChainSetTop ==
  ASSUME NEW o, NEW s \in Seq(FrameSet), s # <<>>, Chain(s, o),
         NEW f \in FrameSet, f.fn = Head(s).fn, FrameOK(f, o)
  PROVE  Chain(<<f>> \o Tail(s), o)
<1> DEFINE n == <<f>> \o Tail(s)
<1>1. Len(n) = Len(s) /\ n[1] = f /\ Len(s) \in Nat /\ Len(s) >= 1 /\ Head(s) = s[1] OBVIOUS
<1>2. \A i \in 2 .. Len(s) : n[i] = s[i] OBVIOUS
<1>3. n # <<>> BY <1>1
<1> HIDE DEF n
<1>4. \A i \in 1 .. Len(n) : FrameOK(n[i], o) BY <1>1, <1>2 DEF Chain
<1>5. ASSUME NEW i \in 1 .. Len(n) - 1 PROVE Called(n[i], n[i + 1], o)
  <2>1. Called(s[i], s[i + 1], o) /\ n[i + 1] = s[i + 1] BY <1>1, <1>2 DEF Chain
  <2>2. n[i].fn = s[i].fn
    <3>1. CASE i = 1 BY <1>1, <3>1
    <3>2. CASE i # 1 BY <1>1, <1>2, <3>2
    <3> QED BY <3>1, <3>2
  <2> QED BY <2>1, <2>2 DEF Called, ReturnSpace
<1>6. n[Len(n)].fn # "tern_thread_end"
  <2>1. s[Len(s)].fn # "tern_thread_end" BY DEF Chain
  <2>2. CASE Len(s) = 1 BY <1>1, <2>1, <2>2
  <2>3. CASE Len(s) # 1 BY <1>1, <1>2, <2>1, <2>3
  <2> QED BY <2>2, <2>3
<1>7. Chain(n, o) BY <1>4, <1>5, <1>6 DEF Chain
<1> QED BY <1>7 DEF n

(* A return uncovers the script that made the call, in the right space.    *)
LEMMA ChainPop ==
  ASSUME NEW o, NEW s \in Seq(FrameSet), s # <<>>, Chain(s, o), Rest(s)
  PROVE  /\ Chain(Tail(s), o)
         /\ Tail(s) = <<>> => Head(s).fn # "tern_thread_end"
         /\ Tail(s) # <<>> =>
              /\ Head(Tail(s)).at = "script" /\ Called(Head(s), Head(Tail(s)), o)
              /\ FrameOK(Head(Tail(s)), o)
<1> DEFINE n == Tail(s)
<1>1. /\ n \in Seq(FrameSet) /\ Len(n) = Len(s) - 1 /\ Len(s) \in Nat /\ Len(s) >= 1 /\ Head(s) = s[1]
      /\ \A i \in 1 .. Len(s) - 1 : n[i] = s[i + 1]
  OBVIOUS
<1>2. n # <<>> => Head(n) = n[1] /\ Len(n) >= 1 BY <1>1
<1> HIDE DEF n
<1>3. n = <<>> => Len(n) = 0 OBVIOUS
<1>4. \A i \in 1 .. Len(n) : FrameOK(n[i], o) BY <1>1 DEF Chain
<1>5. \A i \in 1 .. Len(n) - 1 : Called(n[i], n[i + 1], o) BY <1>1 DEF Chain
<1>6. n # <<>> => n[Len(n)].fn # "tern_thread_end" BY <1>1, <1>2 DEF Chain
<1>7. Chain(n, o) BY <1>4, <1>5, <1>6 DEF Chain
<1>8. ASSUME n = <<>> PROVE Head(s).fn # "tern_thread_end"
  <2>1. Len(s) = 1 BY <1>1, <1>3, <1>8
  <2>2. s[Len(s)].fn # "tern_thread_end" BY DEF Chain
  <2> QED BY <1>1, <2>1, <2>2
<1>9. ASSUME n # <<>> PROVE Head(n).at = "script" /\ Called(Head(s), Head(n), o) /\ FrameOK(Head(n), o)
  <2>1. Len(s) >= 2 /\ Head(n) = s[2] BY <1>1, <1>2, <1>9
  <2>2. Called(s[1], s[1 + 1], o) BY <1>1, <2>1 DEF Chain
  <2> QED BY <1>1, <2>1, <2>2 DEF Rest, Chain
<1> QED BY <1>7, <1>8, <1>9 DEF n

(* A script calls a wrapper.                                               *)
LEMMA ChainPush ==
  ASSUME NEW o, NEW s \in Seq(FrameSet), s # <<>>, Chain(s, o),
         NEW g \in FrameSet, g.fn = Head(s).fn, FrameOK(g, o),
         NEW f \in FrameSet, FrameOK(f, o), Called(f, g, o)
  PROVE  Chain(<<f, g>> \o Tail(s), o)
<1> DEFINE m == <<g>> \o Tail(s)
           n == <<f, g>> \o Tail(s)
<1>1. Chain(m, o) BY ChainSetTop
<1>2. /\ Len(m) = Len(s) /\ Len(n) = Len(s) + 1 /\ Len(s) \in Nat /\ Len(s) >= 1
      /\ n[1] = f /\ m[1] = g /\ m # <<>> /\ n # <<>>
  OBVIOUS
<1>3. \A i \in 1 .. Len(s) : n[i + 1] = m[i] OBVIOUS
<1> HIDE DEF m, n
<1>4. ASSUME NEW i \in 1 .. Len(n) PROVE FrameOK(n[i], o)
  <2>1. CASE i = 1 BY <1>2, <2>1
  <2>2. CASE i # 1
    <3>1. i - 1 \in 1 .. Len(s) /\ (i - 1) + 1 = i BY <1>2, <2>2
    <3>2. n[i] = m[i - 1] BY <1>3, <3>1
    <3> QED BY <1>1, <1>2, <3>1, <3>2 DEF Chain
  <2> QED BY <2>1, <2>2
<1>5. ASSUME NEW i \in 1 .. Len(n) - 1 PROVE Called(n[i], n[i + 1], o)
  <2>1. CASE i = 1 BY <1>2, <1>3, <2>1
  <2>2. CASE i # 1
    <3>1. i - 1 \in 1 .. Len(m) - 1 /\ (i - 1) + 1 = i /\ i \in 1 .. Len(s) BY <1>2, <2>2
    <3>2. n[i] = m[i - 1] /\ n[i + 1] = m[i] BY <1>2, <1>3, <3>1
    <3>3. Called(m[i - 1], m[(i - 1) + 1], o) BY <1>1, <3>1 DEF Chain
    <3> QED BY <3>1, <3>2, <3>3
  <2> QED BY <2>1, <2>2
<1>6. n[Len(n)].fn # "tern_thread_end" BY <1>1, <1>2, <1>3 DEF Chain
<1>7. Chain(n, o) BY <1>4, <1>5, <1>6 DEF Chain
<1> QED BY <1>7 DEF n

(* A call of the program starts a chain.                                   *)
LEMMA ChainOne ==
  ASSUME NEW o, NEW f \in FrameSet, FrameOK(f, o), f.fn # "tern_thread_end"
  PROVE  Chain(<<f>>, o) /\ Chain(<<>>, o)
<1>1. Len(<<f>>) = 1 /\ <<f>>[1] = f /\ Len(<<>>) = 0 OBVIOUS
<1> QED BY <1>1 DEF Chain

(* The empty stack is a chain.                                             *)
LEMMA ChainNone == ASSUME NEW o PROVE Chain(<<>>, o)
  BY DEF Chain

-----------------------------------------------------------------------------
(* What a right thread says of its top frame.                              *)
AppTop(f, sp, e, in, att, o) ==
  /\ FrameOK(f, o) /\ f.mode # "sys" /\ sp = FrameSpace(f, o) /\ RegionTop(f, in, o)
  /\ in => o.nondet /\ f.fn \notin Outside
  /\ o.dbug => (att <=> (in \/ Away(f)))
  /\ f.at = "out" /\ f.kern = "failed" => e = "call"
RawTop(f, sp, e, o) ==
  /\ FrameOK(f, o) /\ sp = "Sys" /\ f.at \in {"hook", "real", "out"}
  /\ f.at # "hook" => f.mode = "sys"
  /\ f.at = "out" /\ f.kern = "failed" => e = "call"

(* The top frame of a thread of the runtime.                               *)
LEMMA AppTopFacts ==
  ASSUME NEW s \in Seq(FrameSet), s # <<>>, NEW sp, NEW e, NEW in, NEW att, NEW o,
         Right("app", s, sp, e, in, att, o)
  PROVE  /\ AppTop(Head(s), sp, e, in, att, o)
         /\ Head(s).fn \in {"pthread_exit", "fork", "soba_wait", "pcs_enter"} => Tail(s) = <<>>
<1>1. Len(s) \in Nat /\ Len(s) >= 1 /\ Head(s) = s[1] /\ 1 \in 1 .. Len(s) OBVIOUS
<1>2. /\ Chain(s, o) /\ (\A i \in 1 .. Len(s) : s[i].mode # "sys") /\ sp = FrameSpace(Head(s), o)
      /\ (in => o.nondet /\ \A i \in 1 .. Len(s) : s[i].fn \notin Outside)
      /\ RegionTop(Head(s), in, o)
      /\ o.dbug => (att <=> (in \/ Away(Head(s))))
      /\ Head(s).at = "out" /\ Head(s).kern = "failed" => e = "call"
  BY DEF Right, AppStack, RegionStack, AttachedRight
<1>3. FrameOK(Head(s), o) BY <1>1, <1>2 DEF Chain
<1>4. AppTop(Head(s), sp, e, in, att, o) BY <1>1, <1>2, <1>3 DEF AppTop
<1>5. ASSUME Head(s).fn \in {"pthread_exit", "fork", "soba_wait", "pcs_enter"} PROVE Tail(s) = <<>>
  <2>1. CASE Len(s) = 1 BY <2>1, TailFacts
  <2>2. CASE Len(s) # 1
    <3>1. 1 \in 1 .. Len(s) - 1 BY <2>2, TailFacts
    <3>2. Called(s[1], s[1 + 1], o) BY <1>2, <3>1 DEF Chain
    <3> QED BY <1>1, <1>5, <3>2 DEF Called
  <2> QED BY <2>1, <2>2
<1> QED BY <1>4, <1>5

(* The top frame of a thread the runtime never saw is its only one.        *)
LEMMA RawTopFacts ==
  ASSUME NEW s \in Seq(FrameSet), s # <<>>, NEW sp, NEW e, NEW in, NEW att, NEW o,
         Right("raw", s, sp, e, in, att, o)
  PROVE  RawTop(Head(s), sp, e, o) /\ Tail(s) = <<>>
<1>1. Len(s) \in Nat /\ Len(s) >= 1 /\ Head(s) = s[1] /\ 1 \in 1 .. Len(s) OBVIOUS
<1>2. /\ Chain(s, o) /\ Len(s) <= 1 /\ sp = "Sys" /\ Head(s).at \in {"hook", "real", "out"}
      /\ Head(s).at # "hook" => Head(s).mode = "sys"
      /\ Head(s).at = "out" /\ Head(s).kern = "failed" => e = "call"
  BY DEF Right, RawStack
<1>3. FrameOK(Head(s), o) BY <1>1, <1>2 DEF Chain
<1>5. Tail(s) = <<>> BY <1>2, TailFacts
<1> QED BY <1>2, <1>3, <1>5 DEF RawTop

(* A step that leaves another frame of the same function on top.           *)
LEMMA AppSetTop ==
  ASSUME NEW s \in Seq(FrameSet), s # <<>>, NEW sp, NEW e, NEW in, NEW att, NEW o,
         Right("app", s, sp, e, in, att, o),
         NEW f \in FrameSet, f.fn = Head(s).fn, NEW sp2, NEW e2, NEW in2, NEW att2,
         AppTop(f, sp2, e2, in2, att2, o), in2 => in \/ f.fn = "pcs_enter"
  PROVE  Right("app", <<f>> \o Tail(s), sp2, e2, in2, att2, o)
<1> DEFINE n == <<f>> \o Tail(s)
<1>1. /\ Len(n) = Len(s) /\ n[1] = f /\ Len(s) \in Nat /\ Len(s) >= 1 /\ Head(s) = s[1]
      /\ Head(n) = f /\ n # <<>>
  OBVIOUS
<1>2. \A i \in 2 .. Len(s) : n[i] = s[i] OBVIOUS
<1>3. /\ Chain(s, o) /\ (\A i \in 1 .. Len(s) : s[i].mode # "sys")
      /\ (in => \A i \in 1 .. Len(s) : s[i].fn \notin Outside)
  BY DEF Right, AppStack, RegionStack
<1>4. Chain(n, o) BY <1>3, ChainSetTop DEF AppTop
<1>5. f.fn = "pcs_enter" => Len(s) = 1
  <2>1. f.fn = "pcs_enter" => Tail(s) = <<>> BY AppTopFacts
  <2> QED BY <2>1, TailFacts
<1> HIDE DEF n
<1>6. \A i \in 1 .. Len(n) : n[i].mode # "sys" BY <1>1, <1>2, <1>3 DEF AppTop
<1>7. ASSUME in2 PROVE o.nondet /\ \A i \in 1 .. Len(n) : n[i].fn \notin Outside
  <2>1. o.nondet /\ f.fn \notin Outside BY <1>7 DEF AppTop
  <2>2. CASE in BY <1>1, <1>2, <1>3, <2>1, <2>2
  <2>3. CASE f.fn = "pcs_enter" BY <1>1, <1>5, <2>1, <2>3
  <2> QED BY <1>7, <2>2, <2>3
<1>8. AppStack(n, sp2, o) BY <1>1, <1>4, <1>6 DEF AppStack, AppTop
<1>9. RegionStack(n, in2, o) BY <1>1, <1>7 DEF RegionStack, AppTop
<1>10. AttachedRight(n, in2, att2, o) BY <1>1 DEF AttachedRight, AppTop
<1>11. Right("app", n, sp2, e2, in2, att2, o) BY <1>1, <1>8, <1>9, <1>10 DEF Right, AppTop
<1> QED BY <1>11 DEF n

(* A return to the script below, or to the program.                        *)
LEMMA AppPop ==
  ASSUME NEW s \in Seq(FrameSet), s # <<>>, Rest(s), NEW sp, NEW e, NEW in, NEW att, NEW o,
         Right("app", s, sp, e, in, att, o), Head(s).fn # "exit",
         NEW sp2, sp2 = ReturnSpace(Head(s)), NEW e2, NEW att2,
         o.dbug => (att2 <=> in)
  PROVE  Right("app", Tail(s), sp2, e2, in, att2, o)
<1> DEFINE n == Tail(s)
<1>1. /\ n \in Seq(FrameSet) /\ Len(n) = Len(s) - 1 /\ Len(s) \in Nat /\ Len(s) >= 1
      /\ \A i \in 1 .. Len(s) - 1 : n[i] = s[i + 1]
  OBVIOUS
<1>2. /\ Chain(s, o) /\ (\A i \in 1 .. Len(s) : s[i].mode # "sys")
      /\ (in => o.nondet /\ \A i \in 1 .. Len(s) : s[i].fn \notin Outside)
  BY DEF Right, AppStack, RegionStack
<1>3. /\ Chain(n, o)
      /\ n = <<>> => Head(s).fn # "tern_thread_end"
      /\ n # <<>> => /\ Head(n).at = "script" /\ Called(Head(s), Head(n), o)
                     /\ FrameOK(Head(n), o)
  BY <1>2, ChainPop
<1> HIDE DEF n
<1>4. \A i \in 1 .. Len(n) : n[i].mode # "sys" BY <1>1, <1>2
<1>5. in => o.nondet /\ \A i \in 1 .. Len(n) : n[i].fn \notin Outside BY <1>1, <1>2
<1>6. n # <<>> => /\ Head(n).fn \in Scripts /\ FrameSpace(Head(n), o) = sp2 /\ Head(n).at = "script"
                  /\ o.dbug => Head(n).fn # "exit" /\ (Head(n).fn = "pthread_exit" => Head(n).step = 2)
  BY <1>3 DEF Called, FrameOK, PlaceOK
<1>7. AppStack(n, sp2, o) BY <1>3, <1>4, <1>6 DEF AppStack, ReturnSpace
<1>8. RegionStack(n, in, o) BY <1>5, <1>6 DEF RegionStack, RegionTop, Scripts
<1>9. AttachedRight(n, in, att2, o)
  <2>1. ASSUME o.dbug, n # <<>> PROVE ~Away(Head(n)) BY <1>6, <2>1 DEF Away, Scripts
  <2> QED BY <2>1 DEF AttachedRight
<1>10. Right("app", n, sp2, e2, in, att2, o) BY <1>6, <1>7, <1>8, <1>9 DEF Right
<1> QED BY <1>10 DEF n

(* A script calls a wrapper: g is the script's frame, f the wrapper's.     *)
LEMMA AppPush ==
  ASSUME NEW s \in Seq(FrameSet), s # <<>>, NEW sp, NEW e, NEW in, NEW att, NEW o,
         Right("app", s, sp, e, in, att, o),
         NEW g \in FrameSet, g.fn = Head(s).fn, FrameOK(g, o), g.mode # "sys",
         NEW f \in FrameSet, Called(f, g, o), AppTop(f, sp, e, in, att, o)
  PROVE  Right("app", <<f, g>> \o Tail(s), sp, e, in, att, o)
<1> DEFINE n == <<f, g>> \o Tail(s)
<1>1. /\ Len(n) = Len(s) + 1 /\ n[1] = f /\ n[2] = g /\ Len(s) \in Nat /\ Len(s) >= 1
      /\ Head(s) = s[1] /\ Head(n) = f /\ n # <<>>
  OBVIOUS
<1>2. \A i \in 3 .. Len(s) + 1 : n[i] = s[i - 1] OBVIOUS
<1>3. /\ Chain(s, o) /\ (\A i \in 1 .. Len(s) : s[i].mode # "sys")
      /\ (in => \A i \in 1 .. Len(s) : s[i].fn \notin Outside)
  BY DEF Right, AppStack, RegionStack
<1>4. Chain(n, o) BY <1>3, ChainPush DEF AppTop
<1> HIDE DEF n
<1>5. ASSUME NEW i \in 1 .. Len(n) PROVE n[i].mode # "sys" /\ (in => n[i].fn \notin Outside)
  <2>1. CASE i = 1 BY <1>1, <2>1 DEF AppTop
  <2>2. CASE i = 2 BY <1>1, <1>3, <2>2
  <2>3. CASE i # 1 /\ i # 2
    <3>1. i - 1 \in 1 .. Len(s) /\ n[i] = s[i - 1] BY <1>1, <1>2, <2>3
    <3> QED BY <1>3, <3>1
  <2> QED BY <2>1, <2>2, <2>3
<1>6. AppStack(n, sp, o) BY <1>1, <1>4, <1>5 DEF AppStack, AppTop
<1>7. RegionStack(n, in, o) BY <1>1, <1>5 DEF RegionStack, AppTop
<1>8. AttachedRight(n, in, att, o) BY <1>1 DEF AttachedRight, AppTop
<1>9. Right("app", n, sp, e, in, att, o) BY <1>1, <1>6, <1>7, <1>8 DEF Right, AppTop
<1> QED BY <1>9 DEF n

(* A thread with one frame, and a thread in the program.                   *)
LEMMA RightOne ==
  ASSUME NEW f \in FrameSet, NEW sp, NEW e, NEW in, NEW att, NEW o
  PROVE  /\ AppTop(f, sp, e, in, att, o) /\ f.fn # "tern_thread_end"
              => Right("app", <<f>>, sp, e, in, att, o)
         /\ RawTop(f, sp, e, o) /\ f.fn # "tern_thread_end"
              => Right("raw", <<f>>, sp, e, in, att, o)
         /\ sp = "Sys" => Right("raw", <<>>, sp, e, in, att, o)
         /\ Right("ended", <<>>, sp, e, in, att, o)
<1>1. <<f>> # <<>> /\ Len(<<f>>) = 1 /\ <<f>>[1] = f /\ Head(<<f>>) = f /\ Len(<<>>) = 0 OBVIOUS
<1>2. ASSUME FrameOK(f, o), f.fn # "tern_thread_end" PROVE Chain(<<f>>, o)
  BY <1>2, ChainOne
<1> DEFINE n == <<f>>
<1>3. n # <<>> /\ Len(n) = 1 /\ n[1] = f /\ Head(n) = f BY <1>1
<1>4. Chain(<<>>, o) BY ChainNone
<1>5. FrameOK(f, o) /\ f.fn # "tern_thread_end" => Chain(n, o) BY <1>2
<1> HIDE DEF n
<1>6. AppTop(f, sp, e, in, att, o) /\ f.fn # "tern_thread_end" => Right("app", n, sp, e, in, att, o)
  BY <1>3, <1>5 DEF AppTop, Right, AppStack, RegionStack, AttachedRight
<1>7. RawTop(f, sp, e, o) /\ f.fn # "tern_thread_end" => Right("raw", n, sp, e, in, att, o)
  BY <1>3, <1>5 DEF RawTop, Right, RawStack
<1>8. sp = "Sys" => Right("raw", <<>>, sp, e, in, att, o)
  BY <1>1, <1>4 DEF Right, RawStack
<1>9. Right("ended", <<>>, sp, e, in, att, o) BY DEF Right
<1> QED BY <1>6, <1>7, <1>8, <1>9 DEF n
-----------------------------------------------------------------------------
(* Steps of one thread.                                                    *)

(* Only thread t moves, but another may start behind the runtime's back;   *)
(* t neither starts nor ends.                                              *)
Others(t) ==
  /\ opt' = opt
  /\ \A u \in Threads \ {t} :
       /\ life'[u] = life[u] \/ (life[u] = "none" /\ life'[u] = "raw")
       /\ space'[u] = space[u] /\ errno'[u] = errno[u]
       /\ inNonDet'[u] = inNonDet[u] /\ attached'[u] = attached[u]
Moves(t) == Others(t) /\ life'[t] = life[t]

(* What is left to show of a step of one thread.                           *)
LEMMA OneThread ==
  ASSUME HInv, SpaceInv, NEW t \in Threads, Others(t),
         \A u \in Threads \ {t} : frames'[u] = frames[u],
         Right(life'[t], frames'[t], space'[t], errno'[t], inNonDet'[t], attached'[t], opt)
  PROVE  SpaceInv'
<1>1. ASSUME NEW u \in Threads \ {t}
      PROVE  Right(life'[u], frames'[u], space'[u], errno'[u], inNonDet'[u], attached'[u], opt)
  <2>1. Right(life[u], frames[u], space[u], errno[u], inNonDet[u], attached[u], opt)
    BY DEF SpaceInv, ThreadOK
  <2>2. CASE life'[u] = life[u] BY <2>1, <2>2 DEF Others
  <2>3. CASE life[u] = "none" /\ life'[u] = "raw"
    <3>1. frames'[u] = <<>> BY <2>3 DEF HInv, Stacks
    <3>2. space'[u] = "Sys" BY <2>1, <2>3 DEF Right, Others
    <3>3. Right("raw", <<>>, "Sys", errno'[u], inNonDet'[u], attached'[u], opt)
      <4>1. Len(<<>>) <= 1 OBVIOUS
      <4> QED BY <4>1, ChainNone DEF Right, RawStack
    <3> QED BY <2>3, <3>1, <3>2, <3>3
  <2> QED BY <2>2, <2>3 DEF Others
<1>2. opt' = opt BY DEF Others
<1> QED BY <1>1, <1>2 DEF SpaceInv, ThreadOK

(* A thread with a call in progress: its top frame, and how stacks change. *)
LEMMA Tops ==
  ASSUME HInv, SpaceInv, NEW t \in Threads, frames[t] # <<>>
  PROVE  /\ frames[t] \in Seq(FrameSet) /\ Rest(frames[t]) /\ Top(t) \in FrameSet
         /\ Top(t) = Head(frames[t])
         /\ life[t] \in {"app", "raw"}
         /\ life[t] = "app" =>
              /\ AppTop(Top(t), space[t], errno[t], inNonDet[t], attached[t], opt)
              /\ Top(t).fn \in {"pthread_exit", "fork", "soba_wait", "pcs_enter"}
                   => Tail(frames[t]) = <<>>
         /\ life[t] = "raw" => RawTop(Top(t), space[t], errno[t], opt) /\ Tail(frames[t]) = <<>>
         /\ Right(life[t], frames[t], space[t], errno[t], inNonDet[t], attached[t], opt)
<1>1. /\ frames[t] \in Seq(FrameSet) /\ Rest(frames[t]) /\ Top(t) \in FrameSet
      /\ life[t] # "none"
  BY TopFacts
<1>2. Top(t) = Head(frames[t]) BY DEF Top
<1>3. Right(life[t], frames[t], space[t], errno[t], inNonDet[t], attached[t], opt)
  BY DEF SpaceInv, ThreadOK
<1>4. life[t] \in {"none", "app", "raw", "ended"} BY DEF HInv, Plain
<1>5. life[t] # "ended" BY <1>3 DEF Right
<1>6. life[t] = "app" =>
        /\ AppTop(Top(t), space[t], errno[t], inNonDet[t], attached[t], opt)
        /\ Top(t).fn \in {"pthread_exit", "fork", "soba_wait", "pcs_enter"} => Tail(frames[t]) = <<>>
  BY <1>1, <1>2, <1>3, AppTopFacts
<1>7. life[t] = "raw" => RawTop(Top(t), space[t], errno[t], opt) /\ Tail(frames[t]) = <<>>
  BY <1>1, <1>2, <1>3, RawTopFacts
<1> QED BY <1>1, <1>2, <1>3, <1>4, <1>5, <1>6, <1>7

(* The stacks after a step on one of them.                                 *)
LEMMA StacksAfter ==
  ASSUME HInv, NEW t \in Threads, NEW new, frames' = [frames EXCEPT ![t] = new]
  PROVE  frames'[t] = new /\ \A u \in Threads \ {t} : frames'[u] = frames[u]
  BY DEF HInv, Stacks

(* A thread of the runtime goes on in its top frame.                       *)
LEMMA AppSetTopStep ==
  ASSUME HInv, SpaceInv, NEW t \in Threads, frames[t] # <<>>, life[t] = "app",
         NEW f \in FrameSet, SetTop(t, f), Moves(t), f.fn = Top(t).fn,
         AppTop(f, space'[t], errno'[t], inNonDet'[t], attached'[t], opt),
         inNonDet'[t] => inNonDet[t] \/ f.fn = "pcs_enter"
  PROVE  SpaceInv'
<1>1. /\ frames[t] \in Seq(FrameSet) /\ Top(t) = Head(frames[t])
      /\ Right("app", frames[t], space[t], errno[t], inNonDet[t], attached[t], opt)
  BY Tops
<1>2. Right("app", <<f>> \o Tail(frames[t]), space'[t], errno'[t], inNonDet'[t], attached'[t], opt)
  BY <1>1, AppSetTop
<1>3. /\ frames'[t] = <<f>> \o Tail(frames[t])
      /\ \A u \in Threads \ {t} : frames'[u] = frames[u]
  BY StacksAfter DEF SetTop
<1> QED BY <1>2, <1>3, OneThread DEF Moves

(* A thread of the runtime returns from its top frame.                     *)
LEMMA AppPopStep ==
  ASSUME HInv, SpaceInv, NEW t \in Threads, frames[t] # <<>>, life[t] = "app",
         Pop(t), Moves(t), Top(t).fn # "exit", space'[t] = ReturnSpace(Top(t)),
         inNonDet'[t] = inNonDet[t], opt.dbug => (attached'[t] <=> inNonDet[t])
  PROVE  SpaceInv'
<1>1. /\ frames[t] \in Seq(FrameSet) /\ Rest(frames[t]) /\ Top(t) = Head(frames[t])
      /\ Right("app", frames[t], space[t], errno[t], inNonDet[t], attached[t], opt)
  BY Tops
<1>2. Right("app", Tail(frames[t]), space'[t], errno'[t], inNonDet[t], attached'[t], opt)
  BY <1>1, AppPop, ZenonT(60)
<1>3. /\ frames'[t] = Tail(frames[t]) /\ \A u \in Threads \ {t} : frames'[u] = frames[u]
  BY StacksAfter DEF Pop
<1> QED BY <1>2, <1>3, OneThread DEF Moves

(* A thread the runtime never saw goes on in its call, and returns.        *)
LEMMA RawStep ==
  ASSUME HInv, SpaceInv, NEW t \in Threads, frames[t] # <<>>, life[t] = "raw", Moves(t),
         space'[t] = "Sys",
         \/ Pop(t)
         \/ \E f \in FrameSet : SetTop(t, f) /\ f.fn = Top(t).fn /\ RawTop(f, space'[t], errno'[t], opt)
  PROVE  SpaceInv'
<1>1. /\ Tail(frames[t]) = <<>> /\ Right("raw", frames[t], space[t], errno[t], inNonDet[t], attached[t], opt)
      /\ Top(t) \in FrameSet /\ RawTop(Top(t), space[t], errno[t], opt)
  BY Tops
<1>2. CASE Pop(t)
  <2>1. frames'[t] = <<>> /\ \A u \in Threads \ {t} : frames'[u] = frames[u]
    BY <1>1, <1>2, StacksAfter DEF Pop
  <2>2. Right("raw", <<>>, space'[t], errno'[t], inNonDet'[t], attached'[t], opt)
    BY <1>1, RightOne
  <2> QED BY <2>1, <2>2, OneThread DEF Moves
<1>3. CASE \E f \in FrameSet :
             SetTop(t, f) /\ f.fn = Top(t).fn /\ RawTop(f, space'[t], errno'[t], opt)
  <2>1. PICK f \in FrameSet : SetTop(t, f) /\ f.fn = Top(t).fn /\ RawTop(f, space'[t], errno'[t], opt)
    BY <1>3
  <2>2. frames'[t] = <<f>> \o <<>> /\ \A u \in Threads \ {t} : frames'[u] = frames[u]
    BY <1>1, <2>1, StacksAfter DEF SetTop
  <2>3. <<f>> \o <<>> = <<f>> BY FreshStack
  <2>4. f.fn # "tern_thread_end" BY <1>1, <2>1 DEF RawTop, FrameOK, PlaceOK
  <2>5. Right("raw", <<f>>, space'[t], errno'[t], inNonDet'[t], attached'[t], opt)
    BY <2>1, <2>4, RightOne
  <2> QED BY <2>2, <2>3, <2>5, OneThread DEF Moves
<1> QED BY <1>2, <1>3

(* A thread ends.                                                          *)
LEMMA EndStep ==
  ASSUME HInv, SpaceInv, NEW t \in Threads, frames[t] # <<>>, Top(t).fn = "pthread_exit",
         Pop(t), Others(t), life'[t] = "ended"
  PROVE  SpaceInv'
<1>1. Tail(frames[t]) = <<>> BY Tops
<1>2. frames'[t] = <<>> /\ \A u \in Threads \ {t} : frames'[u] = frames[u]
  BY <1>1, StacksAfter DEF Pop
<1>3. Right(life'[t], frames'[t], space'[t], errno'[t], inNonDet'[t], attached'[t], opt)
  BY <1>2 DEF Right
<1> QED BY <1>2, <1>3, OneThread

(* The process is gone.                                                    *)
LEMMA GoneKeeps ==
  ASSUME SpaceInv, UNCHANGED <<opt, life, space, errno, frames, inNonDet, attached>>
  PROVE  SpaceInv'
  BY DEF SpaceInv, ThreadOK

(* What the variables of one thread look like after a step.                *)
LEMMA MovesFacts ==
  ASSUME HInv, NEW t \in Threads
  PROVE  /\ \A e : errno' = [errno EXCEPT ![t] = e] =>
              errno'[t] = e /\ \A u \in Threads \ {t} : errno'[u] = errno[u]
         /\ \A v : space' = [space EXCEPT ![t] = v] =>
              space'[t] = v /\ \A u \in Threads \ {t} : space'[u] = space[u]
         /\ \A b : inNonDet' = [inNonDet EXCEPT ![t] = b] =>
              inNonDet'[t] = b /\ \A u \in Threads \ {t} : inNonDet'[u] = inNonDet[u]
         /\ \A b : attached' = [attached EXCEPT ![t] = b] =>
              attached'[t] = b /\ \A u \in Threads \ {t} : attached'[u] = attached[u]
         /\ \A v : life' = [life EXCEPT ![t] = v] =>
              life'[t] = v /\ \A u \in Threads \ {t} : life'[u] = life[u]
         /\ MayClobber(t) => \A u \in Threads \ {t} : errno'[u] = errno[u]
         /\ \A k : Failed(t, k) => /\ \A u \in Threads \ {t} : errno'[u] = errno[u]
                                   /\ k = "failed" => errno'[t] = "call"
         /\ Cross(t) => /\ \A u \in Threads \ {t} : space'[u] = space[u]
                        /\ space'[t] = IF space[t] = "Sys" THEN "App" ELSE "Sys"
<1>1. /\ errno \in [Threads -> Errnos] /\ space \in [Threads -> {"Sys", "App"}]
      /\ attached \in [Threads -> BOOLEAN] /\ inNonDet \in [Threads -> BOOLEAN]
      /\ life \in [Threads -> {"none", "app", "raw", "ended"}]
  BY DEF HInv, Plain
<1>2. MayClobber(t) => \A u \in Threads \ {t} : errno'[u] = errno[u] BY <1>1 DEF MayClobber
<1>3. \A k : Failed(t, k) => /\ \A u \in Threads \ {t} : errno'[u] = errno[u]
                             /\ k = "failed" => errno'[t] = "call"
  BY <1>1 DEF Failed
<1>4. Cross(t) => /\ \A u \in Threads \ {t} : space'[u] = space[u]
                  /\ space'[t] = IF space[t] = "Sys" THEN "App" ELSE "Sys"
  BY <1>1 DEF Cross
<1> QED BY <1>1, <1>2, <1>3, <1>4
-----------------------------------------------------------------------------
(* Every action, one after the other.                                      *)

(* The names that must not be in another class of functions.               *)
LEMMA NamesApart ==
  /\ {"tern_thread_end", "pcs_enter"} \cap (Regular \cup Pass \cup Blocks \cup Sleeps) = {}
  /\ {"tern_thread_end", "exit", "fork", "pthread_exit"} \cap Annotations = {}
  /\ "tern_thread_end" \notin Hooked
  /\ RegionHooks \subseteq Annotations
  /\ "pthread_exit" \notin RegionHooks
  /\ "soba_wait" \notin RegionHooks
  /\ "pcs_enter" \notin Unscheduled /\ "tern_thread_end" \notin Unscheduled
  /\ {"pcs_exit", "pcs_barrier_exit"} \subseteq Unscheduled
  /\ RegionHooks = {"pcs_enter", "pcs_exit", "pcs_barrier_exit"}
  /\ "pcs_enter" \notin SavedWithTurn
<1>1. /\ RegionHooks = {"pcs_enter", "pcs_exit", "pcs_barrier_exit"}
      /\ {"pcs_exit", "pcs_barrier_exit"} \subseteq Unscheduled
      /\ "pcs_enter" \notin Unscheduled /\ "tern_thread_end" \notin Unscheduled
      /\ "soba_wait" \notin RegionHooks /\ "pthread_exit" \notin RegionHooks
      /\ RegionHooks \subseteq Annotations
  BY DEF RegionHooks, Unscheduled, Annotations
<1>2. {"tern_thread_end", "exit", "fork", "pthread_exit"} \cap Annotations = {}
  BY DEF Annotations, LineupHooks, RegionHooks, OtherAnnotations
<1>3. {"tern_thread_end", "pcs_enter"} \cap (Regular \cup Pass \cup Sleeps) = {}
  BY DEF Regular, RegularFiles, RegularOthers, Pass, PassClocks, ClockHooks, Sleeps
<1>4. {"tern_thread_end", "pcs_enter"} \cap Blocks = {}
  <2>1. {"tern_thread_end", "pcs_enter"} \cap (BlockSockets \cup BlockPolls) = {}
    BY DEF BlockSockets, MessageHooks, BlockPolls, PollHooks
  <2>2. {"tern_thread_end", "pcs_enter"} \cap (BlockWaits \cup BlockSetup \cup BlockNames \cup BaseDetach) = {}
    BY DEF BlockWaits, BlockSetup, BlockNames, NameHooks, BaseDetach
  <2> QED BY <1>3, <2>1, <2>2 DEF Blocks
<1>5. "tern_thread_end" \notin Hooked
  <2>1. "tern_thread_end" \notin UNION {ThreadHooks, MutexHooks, CondHooks, BarrierHooks, SemHooks}
    BY DEF ThreadHooks, MutexHooks, CondHooks, BarrierHooks, SemHooks
  <2>2. "tern_thread_end" \notin UNION {SocketHooks, NameHooks, MessageHooks, SockOptHooks}
    BY DEF SocketHooks, NameHooks, MessageHooks, SockOptHooks
  <2>3. "tern_thread_end" \notin UNION {FileHooks, PollHooks, SleepHooks, ProcessHooks, ClockHooks, RWLockHooks}
    BY DEF FileHooks, PollHooks, SleepHooks, ProcessHooks, ClockHooks, RWLockHooks
  <2> QED BY <1>2, <2>1, <2>2, <2>3 DEF Hooked
<1>6. "pcs_enter" \notin SavedWithTurn
  BY DEF SavedWithTurn, SavedMutexes, MutexHooks, SavedRWLocks, RWLockHooks, SavedOthers
<1> QED BY <1>1, <1>2, <1>3, <1>4, <1>5, <1>6

(* A frame inside the runtime belongs to a thread of the runtime.          *)
LEMMA InRuntime ==
  ASSUME HInv, SpaceInv, NEW t \in Threads, frames[t] # <<>>,
         Top(t).at \notin {"hook", "real", "out"}
  PROVE  /\ life[t] = "app" /\ Top(t) \in FrameSet
         /\ AppTop(Top(t), space[t], errno[t], inNonDet[t], attached[t], opt)
  BY Tops DEF RawTop

(* main() starts in tern_thread_begin; the other threads are unborn.       *)
LEMMA InitRight == Init => SpaceInv
<1> SUFFICES ASSUME Init, NEW t \in Threads PROVE ThreadOK(t) BY DEF SpaceInv
<1> DEFINE f == Frame("tern_thread_begin", "rt")
<1>1. f \in FrameSet /\ f.fn = "tern_thread_begin" /\ f.at = "rt" /\ f.step = 1 /\ f.kern = "none" /\ f.mode = "none"
  BY DEF Fns, InnerHooks, Ats, Errnos, Modes, FrameSet, Frame
<1>2. space[t] = "Sys" /\ ~inNonDet[t] /\ ~attached[t] BY DEF Init
<1>3. CASE t = First
  <2>1. frames[t] = <<f>> /\ life[t] = "app" BY <1>3 DEF Init
  <2> HIDE DEF f
  <2>2. FrameOK(f, opt)
    BY <1>1, NamesApart DEF FrameOK, PlaceOK, ModeOK, RegionOK, ErrorOK
  <2>3. AppTop(f, space[t], errno[t], inNonDet[t], attached[t], opt)
    BY <1>1, <1>2, <2>2 DEF AppTop, FrameSpace, RegionTop, Away
  <2> QED BY <1>1, <2>1, <2>3, RightOne DEF ThreadOK
<1>4. CASE t # First
  <2>1. frames[t] = <<>> /\ life[t] = "none" BY <1>4 DEF Init
  <2> QED BY <1>2, <2>1 DEF ThreadOK, Right
<1> QED BY <1>3, <1>4

(* The program calls a function, from App space, or from a thread the      *)
(* runtime never saw.                                                      *)
LEMMA CallKeeps ==
  ASSUME HInv, SpaceInv, NEW t \in Threads, NEW f, Call(t, f)
  PROVE  SpaceInv'
<1>1. /\ life[t] \in {"app", "raw"} /\ frames[t] = <<>> /\ Allowed(t, f)
      /\ f \in Hooked /\ (f = "exit" => life[t] = "app")
  BY ProgramAssumption DEF Call, Allowed
<1>2. Right(life[t], <<>>, space[t], errno[t], inNonDet[t], attached[t], opt)
  BY <1>1 DEF SpaceInv, ThreadOK
<1> DEFINE fr == Frame(f, IF f = "exit" THEN "script" ELSE "hook")
<1>3. /\ fr \in FrameSet /\ fr.fn = f /\ fr.at = (IF f = "exit" THEN "script" ELSE "hook")
      /\ fr.step = 1 /\ fr.kern = "none" /\ fr.mode = "none"
  BY <1>1 DEF Ats, FrameSet, Frame, Errnos, Modes, Fns
<1> HIDE DEF fr
<1>4. frames' = [frames EXCEPT ![t] = <<fr>>]
  BY FreshStack, <1>1, <1>3 DEF Call, Push, fr
<1>5. frames'[t] = <<fr>> /\ \A u \in Threads \ {t} : frames'[u] = frames[u]
  BY <1>4, StacksAfter
<1>6. Others(t) /\ life'[t] = life[t] /\ space'[t] = space[t] /\ inNonDet'[t] = inNonDet[t]
      /\ attached'[t] = attached[t]
  BY MovesFacts DEF Others, Call
<1>7. f # "tern_thread_end" BY <1>1, NamesApart
<1>8. FrameOK(fr, opt)
  BY <1>3, <1>7, NamesApart DEF FrameOK, PlaceOK, ModeOK, RegionOK, ErrorOK, Scripts
<1>9. CASE life[t] = "raw"
  <2>1. space[t] = "Sys" /\ f # "exit" BY <1>1, <1>2, <1>9 DEF Right, RawStack
  <2>2. RawTop(fr, space[t], errno'[t], opt) BY <1>3, <1>8, <2>1 DEF RawTop
  <2>3. Right("raw", <<fr>>, space[t], errno'[t], inNonDet[t], attached[t], opt)
    BY <1>3, <1>7, <2>2, RightOne
  <2> QED BY <1>5, <1>6, <1>9, <2>3, OneThread
<1>10. CASE life[t] = "app"
  <2>1. /\ space[t] = "App" /\ (inNonDet[t] => opt.nondet)
        /\ opt.dbug => (attached[t] <=> inNonDet[t])
    BY <1>2, <1>10 DEF Right, AppStack, RegionStack, AttachedRight
  <2>2. inNonDet[t] => f \notin Outside /\ f # "pcs_enter"
    BY <1>1, <1>7, <2>1 DEF Allowed, InRegion, Outside, NoRegion
  <2>3. FrameSpace(fr, opt) = "App"
    <3>1. f = "exit" => 1 \notin SysSteps(f, opt) BY DEF SysSteps
    <3> QED BY <1>3, <3>1 DEF FrameSpace
  <2>4. ~Away(fr) BY <1>3 DEF Away
  <2>5. RegionTop(fr, inNonDet[t], opt) BY <1>1, <1>3, <2>2 DEF RegionTop, Allowed
  <2>6. AppTop(fr, space[t], errno'[t], inNonDet[t], attached[t], opt)
    BY <1>3, <1>8, <2>1, <2>2, <2>3, <2>4, <2>5 DEF AppTop
  <2>7. Right("app", <<fr>>, space[t], errno'[t], inNonDet[t], attached[t], opt)
    BY <1>3, <1>7, <2>6, RightOne
  <2> QED BY <1>5, <1>6, <1>10, <2>7, OneThread
<1> QED BY <1>1, <1>9, <1>10

(* An annotation that is not enforced returns at once, from App space or   *)
(* from a thread the runtime never saw.                                    *)
LEMMA AnnotationHookKeeps ==
  ASSUME HInv, SpaceInv, NEW t \in Threads, AnnotationHook(t)
  PROVE  SpaceInv'
<1>0. frames[t] # <<>> /\ Top(t).at = "hook" /\ Top(t).fn \in Annotations BY DEF AnnotationHook, At
<1>1. /\ Moves(t) /\ space'[t] = space[t] /\ inNonDet'[t] = inNonDet[t]
      /\ attached'[t] = attached[t] /\ errno'[t] = errno[t]
  BY DEF AnnotationHook, Moves, Others
<1>2. Top(t).fn \notin {"exit", "tern_thread_end"} BY <1>0, NamesApart
<1>3. Top(t) \in FrameSet /\ life[t] \in {"app", "raw"} BY <1>0, Tops
<1>4. CASE life[t] = "raw"
  <2>1. space[t] = "Sys" BY <1>0, <1>4, Tops DEF RawTop
  <2>2. Pop(t) BY <2>1 DEF AnnotationHook, Enforced, InSys
  <2> QED BY <1>0, <1>1, <1>4, <2>1, <2>2, RawStep
<1>5. CASE life[t] = "app"
  <2>1. AppTop(Top(t), space[t], errno[t], inNonDet[t], attached[t], opt) BY <1>0, <1>5, Tops
  <2>2. FrameOK(Top(t), opt) /\ space[t] = "App" BY <1>0, <2>1 DEF AppTop, FrameSpace
  <2>3. ~Away(Top(t)) BY <1>0, <2>2 DEF Away, FrameOK, PlaceOK
  <2>4. CASE Pop(t)
    <3>1. opt.dbug => (attached[t] <=> inNonDet[t]) BY <2>1, <2>3 DEF AppTop
    <3>2. space'[t] = ReturnSpace(Top(t)) BY <1>1, <1>2, <2>2 DEF ReturnSpace
    <3> QED BY <1>0, <1>1, <1>2, <1>5, <2>4, <3>1, <3>2, AppPopStep
  <2>5. CASE /\ Enforced(t, Top(t).fn)
             /\ Goto(t, IF Top(t).fn = "soba_wait" THEN "script" ELSE "tern")
    <3> DEFINE f == [Top(t) EXCEPT !.at = IF Top(t).fn = "soba_wait" THEN "script" ELSE "tern"]
    <3>1. /\ f \in FrameSet /\ f.fn = Top(t).fn /\ f.step = Top(t).step /\ f.kern = Top(t).kern
          /\ f.mode = Top(t).mode /\ f.at = (IF Top(t).fn = "soba_wait" THEN "script" ELSE "tern")
      BY <1>3 DEF FrameSet, Ats
    <3>2. SetTop(t, f) BY <2>5 DEF Goto
    <3> HIDE DEF f
    <3>3. f.fn \in RegionHooks => opt.dmt /\ opt.annot /\ opt.nondet
      BY <2>5, <3>1 DEF Enforced
    <3>4. FrameOK(f, opt)
      BY <1>0, <1>2, <2>2, <3>1, <3>3, NamesApart
      DEF FrameOK, PlaceOK, ModeOK, RegionOK, ErrorOK, Scripts
    <3>5. f.fn = "soba_wait" => SysSteps(f.fn, opt) = {} BY DEF SysSteps
    <3>6. FrameSpace(f, opt) = "App" BY <3>1, <3>5 DEF FrameSpace
    <3>7. Away(f) <=> Away(Top(t)) BY <1>0, <3>1 DEF Away
    <3>8. RegionTop(f, inNonDet[t], opt) BY <1>0, <2>1, <3>1 DEF AppTop, RegionTop
    <3>9. AppTop(f, space[t], errno[t], inNonDet[t], attached[t], opt)
      BY <2>1, <2>2, <3>1, <3>4, <3>6, <3>7, <3>8 DEF AppTop
    <3> QED BY <1>0, <1>1, <1>5, <3>1, <3>2, <3>9, AppSetTopStep
  <2> QED BY <2>4, <2>5 DEF AnnotationHook
<1> QED BY <1>3, <1>4, <1>5

(* An interceptor chooses between the runtime and libc.                    *)
LEMMA InterceptKeeps ==
  ASSUME HInv, SpaceInv, NEW t \in Threads, Intercept(t)
  PROVE  SpaceInv'
<1>0. frames[t] # <<>> /\ Top(t).at = "hook" /\ Top(t).fn \notin Annotations BY DEF Intercept, At
<1>1. /\ Moves(t) /\ inNonDet'[t] = inNonDet[t] /\ attached'[t] = attached[t]
  BY MovesFacts DEF Intercept, Moves, Others
<1>2. Top(t).fn \notin RegionHooks BY <1>0, NamesApart
<1>3. Top(t) \in FrameSet /\ life[t] \in {"app", "raw"} BY <1>0, Tops
<1>4. CASE life[t] = "raw"
  <2>1. space[t] = "Sys" /\ RawTop(Top(t), space[t], errno[t], opt) BY <1>0, <1>4, Tops DEF RawTop
  <2> DEFINE f == [Top(t) EXCEPT !.at = "real", !.mode = "sys"]
  <2>2. SetTop(t, f) /\ space'[t] = "Sys" BY <2>1 DEF Intercept, InSys
  <2>3. /\ f \in FrameSet /\ f.fn = Top(t).fn /\ f.kern = Top(t).kern
        /\ f.mode = "sys" /\ f.at = "real"
    BY <1>3 DEF FrameSet, Ats, Modes
  <2> HIDE DEF f
  <2>4. FrameOK(f, opt)
    BY <1>0, <1>2, <2>1, <2>3, NamesApart DEF RawTop, FrameOK, PlaceOK, ModeOK, RegionOK, ErrorOK, Scripts
  <2>5. RawTop(f, space'[t], errno'[t], opt) BY <2>2, <2>3, <2>4 DEF RawTop
  <2> QED BY <1>0, <1>1, <1>4, <2>2, <2>3, <2>5, RawStep
<1>5. CASE life[t] = "app"
  <2>1. AppTop(Top(t), space[t], errno[t], inNonDet[t], attached[t], opt) BY <1>0, <1>5, Tops
  <2>2. FrameOK(Top(t), opt) /\ space[t] = "App" /\ Top(t).mode # "sys"
    BY <1>0, <2>1 DEF AppTop, FrameSpace
  <2>3. PICK f \in FrameSet :
          /\ SetTop(t, f) /\ f.fn = Top(t).fn /\ f.kern = Top(t).kern /\ f.step = Top(t).step
          /\ \/ /\ f.at = "real" /\ f.mode = "orig" /\ space'[t] = "Sys"
             \/ /\ f.at = (IF f.fn = "pthread_exit" THEN "script" ELSE "tern")
                /\ f.mode = Top(t).mode /\ space'[t] = "App"
    <3>1. CASE opt.dmt
      <4> DEFINE f == [Top(t) EXCEPT !.at = IF Top(t).fn = "pthread_exit" THEN "script" ELSE "tern"]
      <4>1. SetTop(t, f) /\ space'[t] = "App" BY <2>2, <3>1 DEF Intercept, InSys, Goto
      <4>2. /\ f \in FrameSet /\ f.fn = Top(t).fn /\ f.kern = Top(t).kern /\ f.mode = Top(t).mode
            /\ f.step = Top(t).step /\ f.at = (IF Top(t).fn = "pthread_exit" THEN "script" ELSE "tern")
        BY <1>3 DEF FrameSet, Ats
      <4> HIDE DEF f
      <4> QED BY <4>1, <4>2
    <3>2. CASE ~opt.dmt
      <4> DEFINE f == [Top(t) EXCEPT !.at = "real", !.mode = "orig"]
      <4>1. SetTop(t, f) /\ Cross(t) BY <2>2, <3>2 DEF Intercept, InSys
      <4>2. /\ f \in FrameSet /\ f.fn = Top(t).fn /\ f.kern = Top(t).kern
            /\ f.step = Top(t).step /\ f.at = "real" /\ f.mode = "orig"
        BY <1>3 DEF FrameSet, Ats, Modes
      <4>3. space'[t] = "Sys" BY <2>2, <4>1, MovesFacts
      <4> HIDE DEF f
      <4> QED BY <4>1, <4>2, <4>3
    <3> QED BY <3>1, <3>2
  <2>4. FrameOK(f, opt)
    BY <1>0, <1>2, <2>2, <2>3, NamesApart DEF FrameOK, PlaceOK, ModeOK, RegionOK, ErrorOK, Scripts
  <2>5. f.step = 1 /\ ~Away(f) /\ ~Away(Top(t))
    BY <1>0, <2>2, <2>3 DEF Away, FrameOK, PlaceOK, RegionOK
  <2>6. space'[t] = FrameSpace(f, opt)
    <3>1. f.fn = "pthread_exit" => 1 \notin SysSteps(f.fn, opt) BY DEF SysSteps
    <3> QED BY <2>3, <2>5, <3>1 DEF FrameSpace
  <2>7. RegionTop(f, inNonDet[t], opt) BY <1>2, <2>3, NamesApart DEF RegionTop
  <2>8. AppTop(f, space'[t], errno'[t], inNonDet'[t], attached'[t], opt)
    BY <1>1, <2>1, <2>2, <2>3, <2>4, <2>5, <2>6, <2>7 DEF AppTop
  <2> QED BY <1>0, <1>1, <1>5, <2>3, <2>8, AppSetTopStep
<1> QED BY <1>3, <1>4, <1>5

(* A wrapper saves errno and enters Sys space from App space.              *)
LEMMA TernEnterKeeps ==
  ASSUME HInv, SpaceInv, NEW t \in Threads, TernEnter(t)
  PROVE  SpaceInv'
<1>0. frames[t] # <<>> /\ Top(t).at = "tern" BY DEF TernEnter, At
<1>1. /\ life[t] = "app" /\ Top(t) \in FrameSet
      /\ AppTop(Top(t), space[t], errno[t], inNonDet[t], attached[t], opt)
  BY <1>0, InRuntime
<1>2. Moves(t) /\ inNonDet'[t] = inNonDet[t] /\ attached'[t] = attached[t] /\ Cross(t)
  BY MovesFacts DEF TernEnter, Moves, Others
<1>3. FrameOK(Top(t), opt) /\ space[t] = "App" BY <1>0, <1>1 DEF AppTop, FrameSpace
<1>4. space'[t] = "Sys" BY <1>2, <1>3, MovesFacts
<1>5. errno[t] \in Errnos BY DEF HInv, Plain
<1> DEFINE f == [Top(t) EXCEPT !.at = "rt", !.error = errno[t]]
<1>6. /\ f \in FrameSet /\ f.fn = Top(t).fn /\ f.kern = Top(t).kern /\ f.step = Top(t).step
      /\ f.mode = Top(t).mode /\ f.at = "rt"
  BY <1>1, <1>5 DEF FrameSet, Ats
<1>7. SetTop(t, f) BY DEF TernEnter
<1> HIDE DEF f
<1>8. FrameOK(f, opt) BY <1>0, <1>3, <1>6 DEF FrameOK, PlaceOK, ModeOK, RegionOK, ErrorOK
<1>9. ~Away(f) /\ ~Away(Top(t)) /\ FrameSpace(f, opt) = "Sys"
  BY <1>0, <1>3, <1>6 DEF Away, FrameSpace, FrameOK, PlaceOK
<1>10. RegionTop(f, inNonDet[t], opt) BY <1>0, <1>1, <1>6 DEF AppTop, RegionTop
<1>11. AppTop(f, space'[t], errno'[t], inNonDet'[t], attached'[t], opt)
  BY <1>1, <1>2, <1>4, <1>6, <1>8, <1>9, <1>10 DEF AppTop
<1> QED BY <1>0, <1>1, <1>2, <1>6, <1>7, <1>11, AppSetTopStep

(* A wrapper returns to App space.                                         *)
LEMMA TernReturnKeeps ==
  ASSUME HInv, SpaceInv, NEW t \in Threads, TernReturn(t)
  PROVE  SpaceInv'
<1>0. frames[t] # <<>> /\ Top(t).at = "ret" BY DEF TernReturn, At
<1>1. /\ life[t] = "app" /\ Top(t) \in FrameSet
      /\ AppTop(Top(t), space[t], errno[t], inNonDet[t], attached[t], opt)
  BY <1>0, InRuntime
<1>2. Moves(t) /\ inNonDet'[t] = inNonDet[t] /\ attached'[t] = attached[t] /\ Cross(t) /\ Pop(t)
  BY MovesFacts DEF TernReturn, Moves, Others
<1>3. FrameOK(Top(t), opt) /\ space[t] = "Sys" BY <1>0, <1>1 DEF AppTop, FrameSpace
<1>4. space'[t] = "App" BY <1>2, <1>3, MovesFacts
<1>5. Top(t).fn \notin {"exit", "tern_thread_end"} BY <1>0, <1>3 DEF FrameOK, PlaceOK
<1>6. space'[t] = ReturnSpace(Top(t)) BY <1>4, <1>5 DEF ReturnSpace
<1>7. Away(Top(t)) => inNonDet[t] BY <1>0, <1>1 DEF Away, AppTop, RegionTop
<1>8. opt.dbug => (attached'[t] <=> inNonDet[t]) BY <1>1, <1>2, <1>7 DEF AppTop
<1> QED BY <1>0, <1>1, <1>2, <1>5, <1>6, <1>8, AppPopStep

(* A region ends, and the thread detaches.                                 *)
LEMMA RunUnscheduledKeeps ==
  ASSUME HInv, SpaceInv, NEW t \in Threads, RunUnscheduled(t)
  PROVE  SpaceInv'
<1>0. frames[t] # <<>> /\ Top(t).at = "rt" /\ Top(t).fn \in Unscheduled BY DEF RunUnscheduled, At
<1>1. /\ life[t] = "app" /\ Top(t) \in FrameSet
      /\ AppTop(Top(t), space[t], errno[t], inNonDet[t], attached[t], opt)
  BY <1>0, InRuntime
<1>2. /\ Moves(t) /\ space'[t] = space[t] /\ errno'[t] = errno[t]
      /\ IF Top(t).fn \in RegionHooks THEN ~inNonDet'[t] /\ ~attached'[t]
         ELSE inNonDet'[t] = inNonDet[t] /\ attached'[t] = attached[t]
  BY MovesFacts DEF RunUnscheduled, Moves, Others
<1>3. FrameOK(Top(t), opt) /\ space[t] = "Sys" BY <1>0, <1>1 DEF AppTop, FrameSpace
<1> DEFINE f == [Top(t) EXCEPT !.at = "ret"]
<1>6. /\ f \in FrameSet /\ f.fn = Top(t).fn /\ f.kern = Top(t).kern /\ f.step = Top(t).step
      /\ f.mode = Top(t).mode /\ f.at = "ret"
  BY <1>1 DEF FrameSet, Ats
<1>7. SetTop(t, f) BY DEF RunUnscheduled, Goto
<1> HIDE DEF f
<1>4. f.fn \notin {"tern_thread_end", "pcs_enter", "exit"}
  BY <1>0, <1>3, <1>6, NamesApart DEF FrameOK, PlaceOK
<1>8. FrameOK(f, opt) BY <1>0, <1>3, <1>4, <1>6 DEF FrameOK, PlaceOK, ModeOK, RegionOK, ErrorOK
<1>9. ~Away(f) /\ ~Away(Top(t)) /\ FrameSpace(f, opt) = "Sys"
  BY <1>0, <1>4, <1>6 DEF Away, FrameSpace
<1>10. RegionTop(f, inNonDet'[t], opt) BY <1>4, <1>6 DEF RegionTop
<1>11. inNonDet'[t] => inNonDet[t] BY <1>2
<1>12. opt.dbug => (attached'[t] <=> inNonDet'[t])
  BY <1>1, <1>2, <1>9 DEF AppTop
<1>13. AppTop(f, space'[t], errno'[t], inNonDet'[t], attached'[t], opt)
  BY <1>1, <1>2, <1>3, <1>6, <1>8, <1>9, <1>10, <1>11, <1>12 DEF AppTop
<1> QED BY <1>0, <1>1, <1>2, <1>6, <1>7, <1>11, <1>13, AppSetTopStep

(* RecorderRT chooses the class of the call.                               *)
LEMMA DispatchKeeps ==
  ASSUME HInv, SpaceInv, NEW t \in Threads, Dispatch(t)
  PROVE  SpaceInv'
<1>0. frames[t] # <<>> /\ Top(t).at = "rt" /\ Top(t).fn \notin Unscheduled BY DEF Dispatch, At
<1>1. /\ life[t] = "app" /\ Top(t) \in FrameSet
      /\ AppTop(Top(t), space[t], errno[t], inNonDet[t], attached[t], opt)
  BY <1>0, InRuntime
<1>2. /\ Moves(t) /\ space'[t] = space[t] /\ errno'[t] = errno[t]
      /\ inNonDet'[t] = inNonDet[t] /\ attached'[t] = attached[t]
  BY DEF Dispatch, Moves, Others
<1>3. FrameOK(Top(t), opt) /\ space[t] = "Sys" BY <1>0, <1>1 DEF AppTop, FrameSpace
<1>4. PICK r \in Route(t, Top(t).fn) :
        SetTop(t, [Top(t) EXCEPT !.at = r.at, !.mode = r.mode])
  BY DEF Dispatch
<1>5. \/ r.at = "real" /\ r.mode \in {"direct", "saved"}
      \/ r.at = "ret" /\ r.mode = "none"
      \/ r.at = "offq" /\ r.mode = "block"
      \/ r.at = "turn" /\ r.mode = "none"
  BY <1>4 DEF Route
<1>6. ASSUME Top(t).fn \in {"tern_thread_end", "pcs_enter"} PROVE r.at = "turn"
  <2>1. ~InRegion(t)
    BY <1>0, <1>1, <1>6 DEF AppTop, RegionTop, InRegion, Outside
  <2>2. Top(t).fn \notin Regular \cup Pass /\ ~OffQueueCall(Top(t).fn)
    BY <1>6, NamesApart DEF OffQueueCall
  <2> QED BY <1>4, <2>1, <2>2 DEF Route
<1> DEFINE f == [Top(t) EXCEPT !.at = r.at, !.mode = r.mode]
<1>7. /\ f \in FrameSet /\ f.fn = Top(t).fn /\ f.kern = Top(t).kern /\ f.step = Top(t).step
      /\ f.mode = r.mode /\ f.at = r.at
  BY <1>1, <1>5 DEF FrameSet, Ats, Modes
<1>8. SetTop(t, f) BY <1>4
<1> HIDE DEF f
<1>9. f.fn # "exit" BY <1>0, <1>3, <1>7 DEF FrameOK, PlaceOK
<1>10. FrameOK(f, opt)
  BY <1>0, <1>3, <1>5, <1>6, <1>7, <1>9 DEF FrameOK, PlaceOK, ModeOK, RegionOK, ErrorOK
<1>11. ~Away(f) /\ ~Away(Top(t)) /\ FrameSpace(f, opt) = "Sys"
  BY <1>0, <1>3, <1>5, <1>7 DEF Away, FrameSpace, FrameOK, PlaceOK
<1>12. RegionTop(f, inNonDet[t], opt)
  <2>1. f.fn \notin {"pcs_exit", "pcs_barrier_exit"} BY <1>0, <1>7, NamesApart
  <2>2. f.fn = "pcs_enter" => ~inNonDet[t] /\ f.at # "ret"
    BY <1>0, <1>1, <1>6, <1>7 DEF AppTop, RegionTop
  <2>3. inNonDet[t] \in BOOLEAN BY DEF HInv, Plain
  <2>4. r.mode = "block" => ~InRegion(t) BY <1>4 DEF Route
  <2>5. f.mode = "block" => ~inNonDet[t] BY <1>1, <1>7, <2>4 DEF AppTop, InRegion
  <2> QED BY <2>1, <2>2, <2>3, <2>5 DEF RegionTop
<1>13. AppTop(f, space'[t], errno'[t], inNonDet'[t], attached'[t], opt)
  BY <1>1, <1>2, <1>3, <1>5, <1>7, <1>10, <1>11, <1>12 DEF AppTop
<1> QED BY <1>0, <1>1, <1>2, <1>7, <1>8, <1>13, AppSetTopStep

(* A step in Sys space with the turn, or on the way to it: the frame keeps *)
(* its function, is in no real call and comes out of none.                 *)
LEMMA TurnKeeps ==
  ASSUME HInv, SpaceInv, NEW t \in Threads, frames[t] # <<>>,
         Top(t).at \in {"turn", "held"}, Moves(t),
         space'[t] = space[t], inNonDet'[t] = inNonDet[t],
         NEW f \in FrameSet, SetTop(t, f), f.fn = Top(t).fn, f.mode = Top(t).mode,
         f.at \in {"turn", "held", "put"},
         f.kern = "failed" => f.at = "put" /\ f.error = "call" /\ f.fn \notin {"fork", "pcs_enter"},
         f.fn = "pcs_enter" /\ f.at = "put" => f.step = 2,
         opt.dbug => (attached'[t] <=> (inNonDet[t] \/ (f.fn = "pcs_enter" /\ f.step = 2)))
  PROVE  SpaceInv'
<1>1. /\ life[t] = "app" /\ Top(t) \in FrameSet
      /\ AppTop(Top(t), space[t], errno[t], inNonDet[t], attached[t], opt)
  BY InRuntime
<1>2. FrameOK(Top(t), opt) /\ space[t] = "Sys" BY <1>1 DEF AppTop, FrameSpace
<1>3. FrameOK(f, opt) BY <1>2 DEF FrameOK, PlaceOK, ModeOK, RegionOK, ErrorOK
<1>4. FrameSpace(f, opt) = "Sys" /\ (Away(f) <=> f.fn = "pcs_enter" /\ f.step = 2)
  BY DEF Away, FrameSpace
<1>5. RegionTop(f, inNonDet[t], opt) BY <1>1 DEF AppTop, RegionTop
<1>6. AppTop(f, space'[t], errno'[t], inNonDet'[t], attached'[t], opt)
  BY <1>1, <1>2, <1>3, <1>4, <1>5 DEF AppTop
<1> QED BY <1>1, <1>6, AppSetTopStep

(* getTurn() and the waits inside a call.                                  *)
LEMMA TurnStepsKeep ==
  ASSUME HInv, SpaceInv, NEW t \in Threads, GetTurn(t) \/ Wait(t) \/ NonDetWait(t)
  PROVE  SpaceInv'
<1>0. frames[t] # <<>> /\ Top(t).at \in {"turn", "held"} BY DEF GetTurn, Wait, NonDetWait, At
<1>1. /\ life[t] = "app" /\ Top(t) \in FrameSet
      /\ AppTop(Top(t), space[t], errno[t], inNonDet[t], attached[t], opt)
  BY <1>0, InRuntime
<1>2. Moves(t) /\ space'[t] = space[t] /\ inNonDet'[t] = inNonDet[t]
  <2>1. CASE GetTurn(t) BY <2>1, MovesFacts DEF GetTurn, Moves, Others
  <2>2. CASE Wait(t) BY <2>2 DEF Wait, Moves, Others
  <2>3. CASE NonDetWait(t) BY <2>3, MovesFacts DEF NonDetWait, Moves, Others
  <2> QED BY <2>1, <2>2, <2>3
<1>3. Top(t).kern # "failed" BY <1>0, <1>1 DEF AppTop, FrameOK, ErrorOK
<1>4. Away(Top(t)) <=> Top(t).fn = "pcs_enter" /\ Top(t).step = 2 BY <1>0 DEF Away
<1>5. opt.dbug => (attached[t] <=> (inNonDet[t] \/ (Top(t).fn = "pcs_enter" /\ Top(t).step = 2)))
  BY <1>1, <1>4 DEF AppTop
<1>6. CASE GetTurn(t) \/ Wait(t)
  <2>1. PICK at \in {"held", "turn"} : SetTop(t, [Top(t) EXCEPT !.at = at])
    BY <1>6 DEF GetTurn, Wait, Goto
  <2> DEFINE f == [Top(t) EXCEPT !.at = at]
  <2>2. /\ f \in FrameSet /\ f.fn = Top(t).fn /\ f.kern = Top(t).kern /\ f.step = Top(t).step
        /\ f.mode = Top(t).mode /\ f.at = at /\ SetTop(t, f)
    BY <1>1, <2>1 DEF FrameSet, Ats
  <2>3. attached'[t] = attached[t] BY <1>6 DEF GetTurn, Wait
  <2> HIDE DEF f
  <2> QED BY <1>0, <1>2, <1>3, <1>5, <2>2, <2>3, TurnKeeps
<1>7. CASE NonDetWait(t)
  <2> DEFINE f == [Top(t) EXCEPT !.at = "turn", !.step = 2]
  <2>1. 2 \in 1 .. 9 OBVIOUS
  <2>2. /\ f \in FrameSet /\ f.fn = Top(t).fn /\ f.kern = Top(t).kern /\ f.step = 2
        /\ f.mode = Top(t).mode /\ f.at = "turn"
    BY <1>1, <2>1 DEF FrameSet, Ats
  <2>3. SetTop(t, f) /\ Top(t).fn = "pcs_enter" BY <1>7 DEF NonDetWait, In
  <2>4. attached'[t] = opt.dbug
    <3>1. attached' = [attached EXCEPT ![t] = opt.dbug] BY <1>7 DEF NonDetWait
    <3>2. attached \in [Threads -> BOOLEAN] BY DEF HInv, Plain
    <3> QED BY <3>1, <3>2, Zenon
  <2> HIDE DEF f
  <2> QED BY <1>0, <1>2, <1>3, <2>2, <2>3, <2>4, TurnKeeps
<1> QED BY <1>6, <1>7

(* The operation itself: a failure is kept in the frame.                   *)
LEMMA OperateKeeps ==
  ASSUME HInv, SpaceInv, NEW t \in Threads, Operate(t)
  PROVE  SpaceInv'
<1>0. frames[t] # <<>> /\ Top(t).at = "held" BY DEF Operate, At
<1>1. /\ life[t] = "app" /\ Top(t) \in FrameSet
      /\ AppTop(Top(t), space[t], errno[t], inNonDet[t], attached[t], opt)
  BY <1>0, InRuntime
<1>2. /\ Moves(t) /\ space'[t] = space[t] /\ inNonDet'[t] = inNonDet[t]
      /\ attached'[t] = attached[t]
  BY MovesFacts DEF Operate, Moves, Others
<1>3. PICK k \in {"ok", "failed"} :
        /\ SetTop(t, After([Top(t) EXCEPT !.at = "put"], k, TRUE))
        /\ k = "failed" => Top(t).fn \notin {"fork", "pcs_enter"}
  BY NamesApart DEF Operate, Outcomes
<1>4. Top(t).fn = "pcs_enter" => Top(t).step = 2 BY <1>0 DEF Operate, In
<1> DEFINE f == After([Top(t) EXCEPT !.at = "put"], k, TRUE)
<1>5. /\ f \in FrameSet /\ f.fn = Top(t).fn /\ f.kern = k /\ f.step = Top(t).step
      /\ f.mode = Top(t).mode /\ f.at = "put" /\ (k = "failed" => f.error = "call")
  BY <1>1 DEF FrameSet, Ats, After, Errnos
<1>6. SetTop(t, f) BY <1>3
<1> HIDE DEF f
<1>7. Away(Top(t)) <=> Top(t).fn = "pcs_enter" /\ Top(t).step = 2 BY <1>0 DEF Away
<1>8. opt.dbug => (attached[t] <=> (inNonDet[t] \/ (Top(t).fn = "pcs_enter" /\ Top(t).step = 2)))
  BY <1>1, <1>7 DEF AppTop
<1> QED BY <1>0, <1>2, <1>3, <1>4, <1>5, <1>6, <1>8, TurnKeeps

(* A step that only moves the frame to "put": in pthread_create and fork.  *)
LEMMA GotoPutKeeps ==
  ASSUME HInv, SpaceInv, NEW t \in Threads, frames[t] # <<>>, Top(t).at = "held",
         Moves(t), UNCHANGED <<space, errno, inNonDet, attached>>,
         Top(t).fn \in {"pthread_create", "fork"}, Goto(t, "put")
  PROVE  SpaceInv'
<1>1. /\ life[t] = "app" /\ Top(t) \in FrameSet
      /\ AppTop(Top(t), space[t], errno[t], inNonDet[t], attached[t], opt)
  BY InRuntime
<1> DEFINE f == [Top(t) EXCEPT !.at = "put"]
<1>2. /\ f \in FrameSet /\ f.fn = Top(t).fn /\ f.kern = Top(t).kern /\ f.step = Top(t).step
      /\ f.mode = Top(t).mode /\ f.at = "put"
  BY <1>1 DEF FrameSet, Ats
<1>3. SetTop(t, f) BY DEF Goto
<1> HIDE DEF f
<1>4. Top(t).kern # "failed" /\ ~Away(Top(t)) BY <1>1 DEF AppTop, FrameOK, ErrorOK, Away
<1>5. opt.dbug => (attached'[t] <=> inNonDet[t]) BY <1>1, <1>4 DEF AppTop
<1>6. space'[t] = space[t] /\ inNonDet'[t] = inNonDet[t] OBVIOUS
<1> QED BY <1>2, <1>3, <1>4, <1>5, <1>6, TurnKeeps

(* A new thread starts in Sys space, in tern_thread_begin.                 *)
LEMMA CreateKeeps ==
  ASSUME HInv, SpaceInv, NEW t \in Threads, Create(t)
  PROVE  SpaceInv'
<1>0. frames[t] # <<>> /\ Top(t).at = "held" /\ Top(t).fn = "pthread_create" BY DEF Create, At, In
<1>1. /\ life[t] = "app" /\ Top(t) \in FrameSet
      /\ AppTop(Top(t), space[t], errno[t], inNonDet[t], attached[t], opt)
  BY <1>0, InRuntime
<1>2. UNCHANGED <<opt, space, errno, inNonDet, attached>> BY DEF Create
<1>3. CASE Goto(t, "put") /\ UNCHANGED life
  <2>1. Moves(t) BY <1>2, <1>3 DEF Moves, Others
  <2> QED BY <1>0, <1>2, <1>3, <2>1, GotoPutKeeps
<1>4. CASE UNCHANGED <<life, frames>> BY <1>2, <1>4, GoneKeeps
<1>5. CASE \E u \in {u \in Threads : life[u] = "none"} :
             /\ life' = [life EXCEPT ![u] = "app"]
             /\ frames' = [frames EXCEPT
                  ![t] = <<[Top(t) EXCEPT !.at = "put"]>> \o Tail(@),
                  ![u] = <<Frame("tern_thread_begin", "rt")>>]
  <2> DEFINE f == [Top(t) EXCEPT !.at = "put"]
             new == <<f>> \o Tail(frames[t])
             g == Frame("tern_thread_begin", "rt")
  <2>1. PICK u \in Threads :
          /\ life[u] = "none" /\ life' = [life EXCEPT ![u] = "app"]
          /\ frames' = [[frames EXCEPT ![t] = new] EXCEPT ![u] = <<g>>]
    BY <1>5
  <2>2. u # t BY <1>1, <2>1
  <2>3. /\ f \in FrameSet /\ f.fn = Top(t).fn /\ f.kern = Top(t).kern /\ f.step = Top(t).step
        /\ f.mode = Top(t).mode /\ f.at = "put"
    BY <1>1 DEF FrameSet, Ats
  <2>4. g \in FrameSet /\ g.fn = "tern_thread_begin" /\ g.at = "rt" /\ g.step = 1 /\ g.kern = "none" /\ g.mode = "none"
    BY DEF Fns, InnerHooks, Ats, Errnos, Modes, FrameSet, Frame
  <2> HIDE DEF f, g
  <2>5. AppTop(f, space[t], errno[t], inNonDet[t], attached[t], opt)
    <3>1. Top(t).kern # "failed" /\ FrameOK(Top(t), opt) /\ "pthread_create" \notin RegionHooks
      BY <1>0, <1>1 DEF AppTop, FrameOK, ErrorOK, RegionHooks
    <3>2. FrameOK(f, opt) BY <1>0, <2>3, <3>1 DEF FrameOK, PlaceOK, ModeOK, RegionOK, ErrorOK
    <3>3. ~Away(f) /\ ~Away(Top(t)) /\ FrameSpace(f, opt) = FrameSpace(Top(t), opt)
      BY <1>0, <2>3 DEF Away, FrameSpace
    <3>4. RegionTop(f, inNonDet[t], opt) BY <1>0, <2>3 DEF RegionTop
    <3> QED BY <1>1, <2>3, <3>2, <3>3, <3>4 DEF AppTop
  <2>6. frames[t] \in Seq(FrameSet) /\ Top(t) = Head(frames[t])
        /\ Right("app", frames[t], space[t], errno[t], inNonDet[t], attached[t], opt)
    BY <1>0, <1>1, Tops
  <2>7. Right("app", new, space[t], errno[t], inNonDet[t], attached[t], opt)
    BY <1>0, <2>3, <2>5, <2>6, AppSetTop
  <2>8. Right("app", <<g>>, space[u], errno[u], inNonDet[u], attached[u], opt)
    <3>1. space[u] = "Sys" /\ ~inNonDet[u] /\ ~attached[u]
      BY <2>1 DEF SpaceInv, ThreadOK, Right
    <3>2. FrameOK(g, opt) BY <2>4, NamesApart DEF FrameOK, PlaceOK, ModeOK, RegionOK, ErrorOK
    <3>3. AppTop(g, space[u], errno[u], inNonDet[u], attached[u], opt)
      BY <2>4, <3>1, <3>2 DEF AppTop, FrameSpace, RegionTop, Away
    <3> QED BY <2>4, <3>3, RightOne
  <2> HIDE DEF new
  <2>9. /\ frames'[t] = new /\ frames'[u] = <<g>> /\ \A v \in Threads \ {t, u} : frames'[v] = frames[v]
        /\ life'[t] = "app" /\ life'[u] = "app" /\ \A v \in Threads \ {t, u} : life'[v] = life[v]
    <3>1. frames \in [Threads -> Seq(FrameSet)] /\ life \in [Threads -> {"none", "app", "raw", "ended"}]
      BY DEF HInv, Stacks, Plain
    <3> QED BY <1>1, <2>1, <2>2, <3>1
  <2>10. ASSUME NEW v \in Threads PROVE ThreadOK(v)'
    <3>1. CASE v = t BY <1>2, <2>7, <2>9, <3>1 DEF ThreadOK
    <3>2. CASE v = u BY <1>2, <2>8, <2>9, <3>2 DEF ThreadOK
    <3>3. CASE v # t /\ v # u BY <1>2, <2>9, <3>3 DEF ThreadOK, SpaceInv
    <3> QED BY <3>1, <3>2, <3>3
  <2> QED BY <2>10 DEF SpaceInv
<1> QED BY <1>3, <1>4, <1>5 DEF Create

(* fork goes on in the parent, or in a child with one thread.              *)
LEMMA ForkKeeps ==
  ASSUME HInv, SpaceInv, NEW t \in Threads, Fork(t)
  PROVE  SpaceInv'
<1>0. frames[t] # <<>> /\ Top(t).at = "held" /\ Top(t).fn = "fork" BY DEF Fork, At, In
<1>1. /\ life[t] = "app" /\ Top(t) \in FrameSet
      /\ AppTop(Top(t), space[t], errno[t], inNonDet[t], attached[t], opt)
  BY <1>0, InRuntime
<1>2. UNCHANGED <<opt, space, errno, inNonDet, attached>> BY DEF Fork
<1>3. CASE Goto(t, "put") /\ UNCHANGED <<proc, main, life>>
  <2>1. Moves(t) BY <1>2, <1>3 DEF Moves, Others
  <2> QED BY <1>0, <1>2, <1>3, <2>1, GotoPutKeeps
<1>4. CASE UNCHANGED <<frames, main, life>> BY <1>2, <1>4, GoneKeeps
<1>5. CASE /\ frames' = [u \in Threads |-> IF u = t
                THEN <<[Top(t) EXCEPT !.at = "put", !.step = 2]>> \o Tail(frames[t])
                ELSE <<>>]
           /\ life' = [u \in Threads |-> IF u = t THEN life[t] ELSE "ended"]
  <2> DEFINE f == [Top(t) EXCEPT !.at = "put", !.step = 2]
             new == <<f>> \o Tail(frames[t])
  <2>1. 2 \in 1 .. 9 OBVIOUS
  <2>3. /\ f \in FrameSet /\ f.fn = Top(t).fn /\ f.kern = Top(t).kern
        /\ f.mode = Top(t).mode /\ f.at = "put"
    BY <1>1, <2>1 DEF FrameSet, Ats
  <2>4. frames'[t] = new /\ \A u \in Threads \ {t} : frames'[u] = <<>> BY <1>5
  <2> HIDE DEF f
  <2>5. AppTop(f, space[t], errno[t], inNonDet[t], attached[t], opt)
    <3>1. Top(t).kern # "failed" /\ FrameOK(Top(t), opt) /\ "fork" \notin RegionHooks
      BY <1>0, <1>1 DEF AppTop, FrameOK, ErrorOK, RegionHooks
    <3>2. FrameOK(f, opt) BY <1>0, <2>3, <3>1 DEF FrameOK, PlaceOK, ModeOK, RegionOK, ErrorOK
    <3>3. ~Away(f) /\ ~Away(Top(t)) /\ FrameSpace(f, opt) = FrameSpace(Top(t), opt)
      BY <1>0, <2>3 DEF Away, FrameSpace
    <3>4. RegionTop(f, inNonDet[t], opt) BY <1>0, <2>3 DEF RegionTop
    <3> QED BY <1>1, <2>3, <3>2, <3>3, <3>4 DEF AppTop
  <2>6. frames[t] \in Seq(FrameSet) /\ Top(t) = Head(frames[t])
        /\ Right("app", frames[t], space[t], errno[t], inNonDet[t], attached[t], opt)
    BY <1>0, <1>1, Tops
  <2>7. Right("app", new, space[t], errno[t], inNonDet[t], attached[t], opt)
    BY <1>0, <2>3, <2>5, <2>6, AppSetTop
  <2> HIDE DEF new
  <2>8. ASSUME NEW v \in Threads PROVE ThreadOK(v)'
    <3>1. CASE v = t BY <1>1, <1>2, <1>5, <2>4, <2>7, <3>1 DEF ThreadOK
    <3>2. CASE v # t
      <4>1. frames'[v] = <<>> /\ life'[v] = "ended" BY <1>5, <2>4, <3>2
      <4> QED BY <4>1 DEF ThreadOK, Right
    <3> QED BY <3>1, <3>2
  <2> QED BY <2>8 DEF SpaceInv
<1> QED BY <1>3, <1>4, <1>5 DEF Fork

(* putTurn(): on to the return, out of the thread's last wrapper, into the *)
(* region, or into the script of fork's child.                             *)
LEMMA PutTurnKeeps ==
  ASSUME HInv, SpaceInv, NEW t \in Threads, PutTurn(t)
  PROVE  SpaceInv'
<1>0. frames[t] # <<>> /\ Top(t).at = "put" BY DEF PutTurn, At
<1>1. /\ life[t] = "app" /\ Top(t) \in FrameSet
      /\ AppTop(Top(t), space[t], errno[t], inNonDet[t], attached[t], opt)
  BY <1>0, InRuntime
<1>2. /\ Moves(t) /\ space'[t] = space[t] /\ errno'[t] = errno[t]
      /\ inNonDet'[t] = inNonDet[t] /\ attached'[t] = attached[t]
  BY DEF PutTurn, Moves, Others
<1>3. FrameOK(Top(t), opt) /\ space[t] = "Sys" BY <1>0, <1>1 DEF AppTop, FrameSpace
<1>4. /\ Top(t).fn = "tern_thread_end" => Pop(t)
      /\ Top(t).fn = "pcs_enter" => Goto(t, "offq")
      /\ Top(t).fn = "fork" /\ Top(t).step = 2 =>
           SetTop(t, [Top(t) EXCEPT !.at = "script", !.step = 1])
      /\ Top(t).fn \notin {"tern_thread_end", "pcs_enter"} /\ ~(Top(t).fn = "fork" /\ Top(t).step = 2)
           => Goto(t, "ret")
  BY <1>0 DEF PutTurn, In
<1>5. CASE Top(t).fn = "tern_thread_end"
  <2>1. ~Away(Top(t)) BY <1>0, <1>5 DEF Away
  <2>2. opt.dbug => (attached'[t] <=> inNonDet[t]) BY <1>1, <1>2, <2>1 DEF AppTop
  <2>3. space'[t] = ReturnSpace(Top(t)) BY <1>2, <1>3, <1>5 DEF ReturnSpace
  <2> QED BY <1>0, <1>1, <1>2, <1>4, <1>5, <2>2, <2>3, AppPopStep
<1>6. CASE Top(t).fn # "tern_thread_end"
  <2>1. PICK f \in FrameSet :
          /\ SetTop(t, f) /\ f.fn = Top(t).fn /\ f.mode = Top(t).mode /\ f.kern = Top(t).kern
          /\ f.error = Top(t).error
          /\ f.at = (IF f.fn = "pcs_enter" THEN "offq"
                     ELSE IF f.fn = "fork" /\ Top(t).step = 2 THEN "script" ELSE "ret")
          /\ f.step = (IF f.fn = "fork" /\ Top(t).step = 2 THEN 1 ELSE Top(t).step)
    <3>1. CASE Top(t).fn = "fork" /\ Top(t).step = 2
      <4> DEFINE f == [Top(t) EXCEPT !.at = "script", !.step = 1]
      <4>1. 1 \in 1 .. 9 OBVIOUS
      <4>2. /\ f \in FrameSet /\ f.fn = Top(t).fn /\ f.kern = Top(t).kern /\ f.mode = Top(t).mode
            /\ f.at = "script" /\ f.step = 1 /\ f.error = Top(t).error
        BY <1>1, <4>1 DEF FrameSet, Ats
      <4>3. SetTop(t, f) BY <1>4, <3>1
      <4> HIDE DEF f
      <4> QED BY <3>1, <4>2, <4>3
    <3>2. CASE ~(Top(t).fn = "fork" /\ Top(t).step = 2)
      <4> DEFINE at == IF Top(t).fn = "pcs_enter" THEN "offq" ELSE "ret"
                 f == [Top(t) EXCEPT !.at = at]
      <4>2. /\ f \in FrameSet /\ f.fn = Top(t).fn /\ f.kern = Top(t).kern /\ f.mode = Top(t).mode
            /\ f.at = at /\ f.step = Top(t).step /\ f.error = Top(t).error
        BY <1>1 DEF FrameSet, Ats
      <4>3. SetTop(t, f) BY <1>4, <1>6, <3>2 DEF Goto
      <4> HIDE DEF f
      <4> QED BY <3>2, <4>2, <4>3
    <3> QED BY <3>1, <3>2
  <2>2. f.fn \notin {"tern_thread_end", "exit"} BY <1>0, <1>3, <1>6, <2>1 DEF FrameOK, PlaceOK
  <2>3. f.at \in {"script", "offq"} => f.kern # "failed"
    BY <1>0, <1>3, <2>1 DEF FrameOK, ErrorOK
  <2>4. FrameOK(f, opt)
    BY <1>0, <1>3, <2>1, <2>2, <2>3, NamesApart DEF FrameOK, PlaceOK, ModeOK, RegionOK, ErrorOK, Scripts
  <2>5. Away(f) <=> Away(Top(t)) BY <1>0, <2>1 DEF Away
  <2>6. FrameSpace(f, opt) = "Sys"
    <3>1. 1 \in SysSteps("fork", opt) BY DEF SysSteps
    <3> QED BY <2>1, <3>1 DEF FrameSpace
  <2>7. RegionTop(f, inNonDet[t], opt) BY <1>0, <1>1, <2>1 DEF AppTop, RegionTop
  <2>8. AppTop(f, space'[t], errno'[t], inNonDet'[t], attached'[t], opt)
    BY <1>1, <1>2, <1>3, <2>1, <2>4, <2>5, <2>6, <2>7 DEF AppTop
  <2> QED BY <1>0, <1>1, <1>2, <2>1, <2>8, AppSetTopStep
<1> QED BY <1>5, <1>6

(* What the item i of a script may do when h is the frame of the script    *)
(* and g the same frame one item further: a crossing goes to the other     *)
(* space, dbug is attached once, and the wrappers are called from App.     *)
ItemRight(h, g, i, o) ==
  /\ i.via = "cross" => FrameSpace(g, o) # FrameSpace(h, o) /\ (o.dbug => ~Away(h) /\ ~Away(g))
  /\ i.via = "attach" => /\ FrameSpace(g, o) = FrameSpace(h, o) /\ ~Away(h) /\ Away(g)
                         /\ o.dbug /\ h.fn \in Outside
  /\ i.via \in {"hook", "tern", "script"} =>
       /\ FrameSpace(h, o) = "App" /\ Called(Frame(i.fn, i.via), g, o)
       /\ i.fn \notin RegionHooks /\ (i.via = "script" <=> i.fn = "exit")
       /\ i.fn = "tern_thread_end" => i.via = "tern"
       /\ i.fn \in Outside => h.fn \in Outside
       /\ o.dbug => ~Away(h)

(* A crossing that changes the space of the script's frame is right.       *)
LEMMA CrossRight ==
  ASSUME NEW h, NEW g, NEW o, FrameSpace(g, o) # FrameSpace(h, o), o.dbug => ~Away(h) /\ ~Away(g)
  PROVE  ItemRight(h, g, Item("cross", "none"), o)
  BY DEF ItemRight, Item

(* An attachment before which the thread was not away is right.            *)
LEMMA AttachRight ==
  ASSUME NEW h, NEW g, NEW o, FrameSpace(g, o) = FrameSpace(h, o), ~Away(h), Away(g), o.dbug,
         h.fn \in Outside
  PROVE  ItemRight(h, g, Item("attach", "none"), o)
  BY DEF ItemRight, Item

(* A call from App space that returns to the space the script is in next.  *)
LEMMA CallRight ==
  ASSUME NEW h, NEW g, NEW o, NEW via \in {"hook", "tern", "script"}, NEW f,
         FrameSpace(h, o) = "App",
         f # "exit" => FrameSpace(g, o) = (IF f = "tern_thread_end" THEN "Sys" ELSE "App"),
         f = "exit" => g.fn = "pthread_exit",
         f \notin RegionHooks, f \notin {"pthread_exit", "fork", "soba_wait", "pcs_enter"},
         via = "script" <=> f = "exit", f = "tern_thread_end" => via = "tern",
         f \in Outside => h.fn \in Outside,
         o.dbug => ~Away(h) /\ g.fn # "exit" /\ (g.fn = "pthread_exit" => g.step = 2)
  PROVE  ItemRight(h, g, Item(via, f), o)
<1>1. Item(via, f).via = via /\ Item(via, f).fn = f /\ Frame(f, via).fn = f BY DEF Item, Frame
<1>2. Called(Frame(f, via), g, o) BY <1>1 DEF Called, ReturnSpace
<1> QED BY <1>1, <1>2 DEF ItemRight

(* The scripts of spec_hooks.cpp, hooks.cpp and runtime.cpp, item by item. *)
LEMMA ScriptsAreRight ==
  ASSUME HInv, NEW t \in Threads, Scripted(t), Top(t).fn \in Scripts
  PROVE  ItemRight(Top(t), Advanced(t), NextItem(t), opt)
<1> DEFINE g == Advanced(t)
<1>0. proc = "running" /\ frames[t] # <<>> /\ Top(t).at = "script" BY DEF Scripted, At
<1>1. Top(t) \in FrameSet /\ Top(t).step \in 1 .. 9 /\ Top(t).step <= Len(Script(t))
  BY <1>0, TopFacts DEF FrameSet, Scripted
<1>2. g.fn = Top(t).fn /\ g.at = "script" /\ Top(t).at = "script" /\ g.step = Top(t).step + 1
  BY <1>0, <1>1 DEF Advanced, FrameSet
<1>3. /\ SysSteps("exit", opt) = IF opt.dbug THEN 2 .. 9 ELSE {6, 9}
      /\ SysSteps("fork", opt) = {1} \cup 5 .. 9
      /\ SysSteps("pthread_exit", opt) = 2 .. 9
      /\ SysSteps("soba_wait", opt) = {}
  BY DEF SysSteps
<1>4. {"tern_print_runtime_stat", "pthread_mutex_lock", "pthread_mutex_unlock", "exit",
           "pthread_cond_signal", "pthread_join", "tern_thread_end", "pthread_mutex_init",
           "pthread_create", "tern_lineup_start", "tern_lineup_end"} \cap RegionHooks = {}
  BY DEF RegionHooks
<1>13. {"exit", "fork", "pthread_exit"} \subseteq Outside
      /\ Outside = {"pthread_create", "pthread_join", "fork", "execv", "pthread_exit", "exit", "tern_thread_end"}
  BY DEF Outside, NoRegion
<1> SUFFICES ItemRight(Top(t), g, NextItem(t), opt) OBVIOUS
<1> HIDE DEF g
<1>5. CASE Top(t).fn = "exit" /\ opt.dbug
  <2>0. Script(t) = <<Item("cross", "none"), Item("attach", "none")>>
    BY <1>0, <1>5 DEF Script, In, ProgEndScript
  <2>1. CASE Top(t).step = 1
    <3>1. NextItem(t) = Item("cross", "none") BY <1>5, <2>0, <2>1 DEF NextItem
    <3>2. g.step = 2 BY <1>2, <2>1
    <3>3. FrameSpace(Top(t), opt) = "App" BY <1>2, <1>3, <1>5, <2>1 DEF FrameSpace
    <3>4. FrameSpace(g, opt) = "Sys" BY <1>2, <1>3, <1>5, <3>2 DEF FrameSpace
    <3>5. opt.dbug => ~Away(Top(t)) /\ ~Away(g) BY <1>2, <1>5, <2>1, <3>2 DEF Away
    <3> QED BY <3>1, <3>3, <3>4, <3>5, CrossRight
  <2>2. CASE Top(t).step = 2
    <3>1. NextItem(t) = Item("attach", "none") BY <1>5, <2>0, <2>2 DEF NextItem
    <3>2. g.step = 3 BY <1>2, <2>2
    <3>3. FrameSpace(Top(t), opt) = "Sys" BY <1>2, <1>3, <1>5, <2>2 DEF FrameSpace
    <3>4. FrameSpace(g, opt) = "Sys" BY <1>2, <1>3, <1>5, <3>2 DEF FrameSpace
    <3>5. ~Away(Top(t)) /\ Away(g) BY <1>2, <1>5, <2>2, <3>2 DEF Away
    <3> QED BY <1>13, <1>5, <3>1, <3>3, <3>4, <3>5, AttachRight
  <2>3. Top(t).step \in {1, 2} BY <1>5, <2>0, <1>1
  <2> QED BY <2>1, <2>2, <2>3
<1>6. CASE Top(t).fn = "exit" /\ ~opt.dbug
  <2>0. Script(t) = <<Item("tern", "tern_print_runtime_stat"), Item("tern", "pthread_mutex_lock"), Item("tern", "pthread_mutex_unlock"), Item("tern", "pthread_cond_signal"), Item("cross", "none"), Item("cross", "none"), Item("tern", "pthread_join"), Item("tern", "tern_thread_end")>>
    BY <1>0, <1>6 DEF Script, In, ProgEndScript
  <2>1. CASE Top(t).step = 1
    <3>1. NextItem(t) = Item("tern", "tern_print_runtime_stat") BY <1>6, <2>0, <2>1 DEF NextItem
    <3>2. g.step = 2 BY <1>2, <2>1
    <3>3. FrameSpace(Top(t), opt) = "App" BY <1>2, <1>3, <1>6, <2>1 DEF FrameSpace
    <3>4. FrameSpace(g, opt) = "App" BY <1>2, <1>3, <1>6, <3>2 DEF FrameSpace
    <3>5. opt.dbug => ~Away(Top(t)) BY <1>2, <1>6, <2>1 DEF Away
    <3> QED BY <1>2, <1>4, <1>13, <1>6, <3>1, <3>2, <3>3, <3>4, <3>5, CallRight
  <2>2. CASE Top(t).step = 2
    <3>1. NextItem(t) = Item("tern", "pthread_mutex_lock") BY <1>6, <2>0, <2>2 DEF NextItem
    <3>2. g.step = 3 BY <1>2, <2>2
    <3>3. FrameSpace(Top(t), opt) = "App" BY <1>2, <1>3, <1>6, <2>2 DEF FrameSpace
    <3>4. FrameSpace(g, opt) = "App" BY <1>2, <1>3, <1>6, <3>2 DEF FrameSpace
    <3>5. opt.dbug => ~Away(Top(t)) BY <1>2, <1>6, <2>2 DEF Away
    <3> QED BY <1>2, <1>4, <1>13, <1>6, <3>1, <3>2, <3>3, <3>4, <3>5, CallRight
  <2>3. CASE Top(t).step = 3
    <3>1. NextItem(t) = Item("tern", "pthread_mutex_unlock") BY <1>6, <2>0, <2>3 DEF NextItem
    <3>2. g.step = 4 BY <1>2, <2>3
    <3>3. FrameSpace(Top(t), opt) = "App" BY <1>2, <1>3, <1>6, <2>3 DEF FrameSpace
    <3>4. FrameSpace(g, opt) = "App" BY <1>2, <1>3, <1>6, <3>2 DEF FrameSpace
    <3>5. opt.dbug => ~Away(Top(t)) BY <1>2, <1>6, <2>3 DEF Away
    <3> QED BY <1>2, <1>4, <1>13, <1>6, <3>1, <3>2, <3>3, <3>4, <3>5, CallRight
  <2>4. CASE Top(t).step = 4
    <3>1. NextItem(t) = Item("tern", "pthread_cond_signal") BY <1>6, <2>0, <2>4 DEF NextItem
    <3>2. g.step = 5 BY <1>2, <2>4
    <3>3. FrameSpace(Top(t), opt) = "App" BY <1>2, <1>3, <1>6, <2>4 DEF FrameSpace
    <3>4. FrameSpace(g, opt) = "App" BY <1>2, <1>3, <1>6, <3>2 DEF FrameSpace
    <3>5. opt.dbug => ~Away(Top(t)) BY <1>2, <1>6, <2>4 DEF Away
    <3> QED BY <1>2, <1>4, <1>13, <1>6, <3>1, <3>2, <3>3, <3>4, <3>5, CallRight
  <2>5. CASE Top(t).step = 5
    <3>1. NextItem(t) = Item("cross", "none") BY <1>6, <2>0, <2>5 DEF NextItem
    <3>2. g.step = 6 BY <1>2, <2>5
    <3>3. FrameSpace(Top(t), opt) = "App" BY <1>2, <1>3, <1>6, <2>5 DEF FrameSpace
    <3>4. FrameSpace(g, opt) = "Sys" BY <1>2, <1>3, <1>6, <3>2 DEF FrameSpace
    <3>5. opt.dbug => ~Away(Top(t)) /\ ~Away(g) BY <1>2, <1>6, <2>5, <3>2 DEF Away
    <3> QED BY <3>1, <3>3, <3>4, <3>5, CrossRight
  <2>6. CASE Top(t).step = 6
    <3>1. NextItem(t) = Item("cross", "none") BY <1>6, <2>0, <2>6 DEF NextItem
    <3>2. g.step = 7 BY <1>2, <2>6
    <3>3. FrameSpace(Top(t), opt) = "Sys" BY <1>2, <1>3, <1>6, <2>6 DEF FrameSpace
    <3>4. FrameSpace(g, opt) = "App" BY <1>2, <1>3, <1>6, <3>2 DEF FrameSpace
    <3>5. opt.dbug => ~Away(Top(t)) /\ ~Away(g) BY <1>2, <1>6, <2>6, <3>2 DEF Away
    <3> QED BY <3>1, <3>3, <3>4, <3>5, CrossRight
  <2>7. CASE Top(t).step = 7
    <3>1. NextItem(t) = Item("tern", "pthread_join") BY <1>6, <2>0, <2>7 DEF NextItem
    <3>2. g.step = 8 BY <1>2, <2>7
    <3>3. FrameSpace(Top(t), opt) = "App" BY <1>2, <1>3, <1>6, <2>7 DEF FrameSpace
    <3>4. FrameSpace(g, opt) = "App" BY <1>2, <1>3, <1>6, <3>2 DEF FrameSpace
    <3>5. opt.dbug => ~Away(Top(t)) BY <1>2, <1>6, <2>7 DEF Away
    <3> QED BY <1>2, <1>4, <1>13, <1>6, <3>1, <3>2, <3>3, <3>4, <3>5, CallRight
  <2>8. CASE Top(t).step = 8
    <3>1. NextItem(t) = Item("tern", "tern_thread_end") BY <1>6, <2>0, <2>8 DEF NextItem
    <3>2. g.step = 9 BY <1>2, <2>8
    <3>3. FrameSpace(Top(t), opt) = "App" BY <1>2, <1>3, <1>6, <2>8 DEF FrameSpace
    <3>4. FrameSpace(g, opt) = "Sys" BY <1>2, <1>3, <1>6, <3>2 DEF FrameSpace
    <3>5. opt.dbug => ~Away(Top(t)) BY <1>2, <1>6, <2>8 DEF Away
    <3> QED BY <1>2, <1>4, <1>13, <1>6, <3>1, <3>2, <3>3, <3>4, <3>5, CallRight
  <2>9. Top(t).step \in {1, 2, 3, 4, 5, 6, 7, 8} BY <1>6, <2>0, <1>1
  <2> QED BY <2>1, <2>2, <2>3, <2>4, <2>5, <2>6, <2>7, <2>8, <2>9
<1>7. CASE Top(t).fn = "fork"
  <2>0. Script(t) = <<Item("cross", "none"), Item("hook", "pthread_mutex_init"), Item("tern", "pthread_create"), Item("cross", "none")>>
    BY <1>0, <1>7 DEF Script, In, ChildScript
  <2>1. CASE Top(t).step = 1
    <3>1. NextItem(t) = Item("cross", "none") BY <1>7, <2>0, <2>1 DEF NextItem
    <3>2. g.step = 2 BY <1>2, <2>1
    <3>3. FrameSpace(Top(t), opt) = "Sys" BY <1>2, <1>3, <1>7, <2>1 DEF FrameSpace
    <3>4. FrameSpace(g, opt) = "App" BY <1>2, <1>3, <1>7, <3>2 DEF FrameSpace
    <3>5. opt.dbug => ~Away(Top(t)) /\ ~Away(g) BY <1>2, <1>7, <2>1, <3>2 DEF Away
    <3> QED BY <3>1, <3>3, <3>4, <3>5, CrossRight
  <2>2. CASE Top(t).step = 2
    <3>1. NextItem(t) = Item("hook", "pthread_mutex_init") BY <1>7, <2>0, <2>2 DEF NextItem
    <3>2. g.step = 3 BY <1>2, <2>2
    <3>3. FrameSpace(Top(t), opt) = "App" BY <1>2, <1>3, <1>7, <2>2 DEF FrameSpace
    <3>4. FrameSpace(g, opt) = "App" BY <1>2, <1>3, <1>7, <3>2 DEF FrameSpace
    <3>5. opt.dbug => ~Away(Top(t)) BY <1>2, <1>7, <2>2 DEF Away
    <3> QED BY <1>2, <1>4, <1>13, <1>7, <3>1, <3>2, <3>3, <3>4, <3>5, CallRight
  <2>3. CASE Top(t).step = 3
    <3>1. NextItem(t) = Item("tern", "pthread_create") BY <1>7, <2>0, <2>3 DEF NextItem
    <3>2. g.step = 4 BY <1>2, <2>3
    <3>3. FrameSpace(Top(t), opt) = "App" BY <1>2, <1>3, <1>7, <2>3 DEF FrameSpace
    <3>4. FrameSpace(g, opt) = "App" BY <1>2, <1>3, <1>7, <3>2 DEF FrameSpace
    <3>5. opt.dbug => ~Away(Top(t)) BY <1>2, <1>7, <2>3 DEF Away
    <3> QED BY <1>2, <1>4, <1>13, <1>7, <3>1, <3>2, <3>3, <3>4, <3>5, CallRight
  <2>4. CASE Top(t).step = 4
    <3>1. NextItem(t) = Item("cross", "none") BY <1>7, <2>0, <2>4 DEF NextItem
    <3>2. g.step = 5 BY <1>2, <2>4
    <3>3. FrameSpace(Top(t), opt) = "App" BY <1>2, <1>3, <1>7, <2>4 DEF FrameSpace
    <3>4. FrameSpace(g, opt) = "Sys" BY <1>2, <1>3, <1>7, <3>2 DEF FrameSpace
    <3>5. opt.dbug => ~Away(Top(t)) /\ ~Away(g) BY <1>2, <1>7, <2>4, <3>2 DEF Away
    <3> QED BY <3>1, <3>3, <3>4, <3>5, CrossRight
  <2>5. Top(t).step \in {1, 2, 3, 4} BY <1>7, <2>0, <1>1
  <2> QED BY <2>1, <2>2, <2>3, <2>4, <2>5
<1>8. CASE Top(t).fn = "soba_wait"
  <2>0. Script(t) = <<Item("tern", "tern_lineup_start"), Item("tern", "tern_lineup_end")>>
    BY <1>0, <1>8 DEF Script, In
  <2>1. CASE Top(t).step = 1
    <3>1. NextItem(t) = Item("tern", "tern_lineup_start") BY <1>8, <2>0, <2>1 DEF NextItem
    <3>2. g.step = 2 BY <1>2, <2>1
    <3>3. FrameSpace(Top(t), opt) = "App" BY <1>2, <1>3, <1>8, <2>1 DEF FrameSpace
    <3>4. FrameSpace(g, opt) = "App" BY <1>2, <1>3, <1>8, <3>2 DEF FrameSpace
    <3>5. opt.dbug => ~Away(Top(t)) BY <1>2, <1>8, <2>1 DEF Away
    <3> QED BY <1>2, <1>4, <1>13, <1>8, <3>1, <3>2, <3>3, <3>4, <3>5, CallRight
  <2>2. CASE Top(t).step = 2
    <3>1. NextItem(t) = Item("tern", "tern_lineup_end") BY <1>8, <2>0, <2>2 DEF NextItem
    <3>2. g.step = 3 BY <1>2, <2>2
    <3>3. FrameSpace(Top(t), opt) = "App" BY <1>2, <1>3, <1>8, <2>2 DEF FrameSpace
    <3>4. FrameSpace(g, opt) = "App" BY <1>2, <1>3, <1>8, <3>2 DEF FrameSpace
    <3>5. opt.dbug => ~Away(Top(t)) BY <1>2, <1>8, <2>2 DEF Away
    <3> QED BY <1>2, <1>4, <1>13, <1>8, <3>1, <3>2, <3>3, <3>4, <3>5, CallRight
  <2>3. Top(t).step \in {1, 2} BY <1>8, <2>0, <1>1
  <2> QED BY <2>1, <2>2, <2>3
<1>9. CASE Top(t).fn = "pthread_exit" /\ t = main
  <2>0. Script(t) = <<Item("script", "exit")>>
    BY <1>0, <1>9 DEF Script, In, ThreadExitScript
  <2>1. CASE Top(t).step = 1
    <3>1. NextItem(t) = Item("script", "exit") BY <1>9, <2>0, <2>1 DEF NextItem
    <3>2. g.step = 2 BY <1>2, <2>1
    <3>3. FrameSpace(Top(t), opt) = "App" BY <1>2, <1>3, <1>9, <2>1 DEF FrameSpace
    <3>4. FrameSpace(g, opt) = "Sys" BY <1>2, <1>3, <1>9, <3>2 DEF FrameSpace
    <3>5. opt.dbug => ~Away(Top(t)) BY <1>2, <1>9, <2>1 DEF Away
    <3> QED BY <1>2, <1>4, <1>13, <1>9, <3>1, <3>2, <3>3, <3>4, <3>5, CallRight
  <2>2. Top(t).step \in {1} BY <1>9, <2>0, <1>1
  <2> QED BY <2>1, <2>2
<1>10. CASE Top(t).fn = "pthread_exit" /\ t # main /\ ~opt.dbug
  <2>0. Script(t) = <<Item("tern", "tern_thread_end")>>
    <3>1. ThreadExitScript(t) = <<Item("tern", "tern_thread_end")>> \o <<>>
      BY <1>10 DEF ThreadExitScript
    <3>2. \A a : <<a>> \o <<>> = <<a>> OBVIOUS
    <3>3. Script(t) = ThreadExitScript(t) BY <1>0, <1>10 DEF Script, In
    <3> QED BY <3>1, <3>2, <3>3
  <2>1. CASE Top(t).step = 1
    <3>1. NextItem(t) = Item("tern", "tern_thread_end") BY <1>10, <2>0, <2>1 DEF NextItem
    <3>2. g.step = 2 BY <1>2, <2>1
    <3>3. FrameSpace(Top(t), opt) = "App" BY <1>2, <1>3, <1>10, <2>1 DEF FrameSpace
    <3>4. FrameSpace(g, opt) = "Sys" BY <1>2, <1>3, <1>10, <3>2 DEF FrameSpace
    <3>5. opt.dbug => ~Away(Top(t)) BY <1>2, <1>10, <2>1 DEF Away
    <3> QED BY <1>2, <1>4, <1>13, <1>10, <3>1, <3>2, <3>3, <3>4, <3>5, CallRight
  <2>2. Top(t).step \in {1} BY <1>10, <2>0, <1>1
  <2> QED BY <2>1, <2>2
<1>11. CASE Top(t).fn = "pthread_exit" /\ t # main /\ opt.dbug
  <2>0. /\ Len(Script(t)) = 2 /\ Script(t)[1] = Item("tern", "tern_thread_end")
        /\ Script(t)[2] = Item("attach", "none")
    <3> DEFINE a == Item("tern", "tern_thread_end")
               b == Item("attach", "none")
    <3>1. Script(t) = <<a>> \o <<b>> BY <1>0, <1>11 DEF Script, In, ThreadExitScript
    <3> HIDE DEF a, b
    <3>2. Len(<<a>> \o <<b>>) = 2 /\ (<<a>> \o <<b>>)[1] = a /\ (<<a>> \o <<b>>)[2] = b OBVIOUS
    <3> QED BY <3>1, <3>2 DEF a, b
  <2>1. CASE Top(t).step = 1
    <3>1. NextItem(t) = Item("tern", "tern_thread_end") BY <1>11, <2>0, <2>1 DEF NextItem
    <3>2. g.step = 2 BY <1>2, <2>1
    <3>3. FrameSpace(Top(t), opt) = "App" BY <1>2, <1>3, <1>11, <2>1 DEF FrameSpace
    <3>4. FrameSpace(g, opt) = "Sys" BY <1>2, <1>3, <1>11, <3>2 DEF FrameSpace
    <3>5. opt.dbug => ~Away(Top(t)) BY <1>2, <1>11, <2>1 DEF Away
    <3> QED BY <1>2, <1>4, <1>13, <1>11, <3>1, <3>2, <3>3, <3>4, <3>5, CallRight
  <2>2. CASE Top(t).step = 2
    <3>1. NextItem(t) = Item("attach", "none") BY <1>11, <2>0, <2>2 DEF NextItem
    <3>2. g.step = 3 BY <1>2, <2>2
    <3>3. FrameSpace(Top(t), opt) = "Sys" BY <1>2, <1>3, <1>11, <2>2 DEF FrameSpace
    <3>4. FrameSpace(g, opt) = "Sys" BY <1>2, <1>3, <1>11, <3>2 DEF FrameSpace
    <3>5. ~Away(Top(t)) /\ Away(g) BY <1>2, <1>11, <2>2, <3>2 DEF Away
    <3> QED BY <1>13, <1>11, <3>1, <3>3, <3>4, <3>5, AttachRight
  <2>3. Top(t).step \in {1, 2} BY <1>11, <2>0, <1>1
  <2> QED BY <2>1, <2>2, <2>3
<1>12. Top(t).fn = "exit" \/ Top(t).fn = "fork" \/ Top(t).fn = "pthread_exit" \/ Top(t).fn = "soba_wait"
  BY DEF Scripts
<1> QED BY <1>5, <1>6, <1>7, <1>8, <1>9, <1>10, <1>11, <1>12

(* A script calls a wrapper, from App space.                               *)
LEMMA ScriptCallKeeps ==
  ASSUME HInv, SpaceInv, NEW t \in Threads, ScriptCall(t)
  PROVE  SpaceInv'
<1>0. Scripted(t) /\ NextItem(t).via \in {"hook", "tern", "script"} BY DEF ScriptCall
<1>1. /\ frames[t] # <<>> /\ Top(t).at = "script" /\ NextItem(t) \in Items
      /\ Advanced(t) \in FrameSet /\ Advanced(t).at = "script"
  BY <1>0, ItemFacts
<1>2. /\ life[t] = "app" /\ Top(t) \in FrameSet
      /\ AppTop(Top(t), space[t], errno[t], inNonDet[t], attached[t], opt)
  BY <1>1, InRuntime
<1>3. /\ Others(t) /\ life'[t] = life[t] /\ space'[t] = space[t] /\ errno'[t] = errno[t]
      /\ inNonDet'[t] = inNonDet[t] /\ attached'[t] = attached[t]
  BY DEF ScriptCall, Others
<1>4. Top(t).fn \in Scripts BY <1>1, <1>2 DEF AppTop, FrameOK, PlaceOK
<1> DEFINE g == Advanced(t)
           i == NextItem(t)
           f == Frame(i.fn, i.via)
<1>5. ItemRight(Top(t), g, i, opt) BY <1>0, <1>4, ScriptsAreRight
<1>6. g.fn = Top(t).fn /\ g.mode = Top(t).mode /\ g.kern = Top(t).kern
  BY <1>2 DEF Advanced, FrameSet
<1>7. frames' = [frames EXCEPT ![t] = <<f, g>> \o Tail(frames[t])] BY DEF ScriptCall
<1>8. /\ f \in FrameSet /\ f.fn = i.fn /\ f.at = i.via /\ f.step = 1 /\ f.kern = "none"
      /\ f.mode = "none"
  <2>1. i.fn \in Fns BY <1>0, <1>1 DEF Items
  <2>2. 1 \in 1 .. 9 OBVIOUS
  <2> QED BY <1>0, <2>1, <2>2 DEF FrameSet, Frame, Ats, Errnos, Modes
<1>9. /\ FrameSpace(Top(t), opt) = "App" /\ Called(f, g, opt)
      /\ f.fn \notin RegionHooks /\ (f.at = "script" <=> f.fn = "exit")
      /\ f.fn = "tern_thread_end" => f.at = "tern"
      /\ f.fn \in Outside => Top(t).fn \in Outside
      /\ opt.dbug => ~Away(Top(t))
  BY <1>0, <1>5, <1>8 DEF ItemRight
<1> HIDE DEF f, g, i
<1>10. FrameOK(g, opt)
  BY <1>1, <1>2, <1>6, <1>9, NamesApart DEF AppTop, FrameOK, PlaceOK, ModeOK, RegionOK, ErrorOK, Scripts, g
<1>11. FrameOK(f, opt)
  BY <1>0, <1>8, <1>9, NamesApart DEF FrameOK, PlaceOK, ModeOK, RegionOK, ErrorOK, Scripts, i
<1>12. FrameSpace(f, opt) = "App"
  <2>1. 1 \notin SysSteps("exit", opt) BY DEF SysSteps
  <2> QED BY <1>0, <1>8, <1>9, <2>1 DEF FrameSpace, i
<1>13. ~Away(f) BY <1>8, <1>9 DEF Away
<1>14. RegionTop(f, inNonDet[t], opt) BY <1>8, <1>9, NamesApart DEF RegionTop
<1>15. AppTop(f, space[t], errno[t], inNonDet[t], attached[t], opt)
  BY <1>2, <1>8, <1>9, <1>11, <1>12, <1>13, <1>14 DEF AppTop
<1>16. frames[t] \in Seq(FrameSet) /\ Top(t) = Head(frames[t])
       /\ Right("app", frames[t], space[t], errno[t], inNonDet[t], attached[t], opt)
  BY <1>1, <1>2, Tops
<1>17. g \in FrameSet /\ g.mode # "sys" BY <1>1, <1>2, <1>6 DEF g, AppTop
<1>18. Right("app", <<f, g>> \o Tail(frames[t]), space[t], errno[t], inNonDet[t], attached[t], opt)
  BY <1>1, <1>6, <1>8, <1>9, <1>10, <1>15, <1>16, <1>17, AppPush
<1>19. /\ frames'[t] = <<f, g>> \o Tail(frames[t])
       /\ \A u \in Threads \ {t} : frames'[u] = frames[u]
  BY <1>7, StacksAfter
<1> QED BY <1>2, <1>3, <1>18, <1>19, OneThread

(* A script crosses or attaches by itself.                                 *)
LEMMA ScriptStepKeeps ==
  ASSUME HInv, SpaceInv, NEW t \in Threads, ScriptStep(t)
  PROVE  SpaceInv'
<1>0. Scripted(t) /\ NextItem(t).via \in {"cross", "attach"} BY DEF ScriptStep
<1>1. /\ frames[t] # <<>> /\ Top(t).at = "script" /\ NextItem(t) \in Items
      /\ Advanced(t) \in FrameSet /\ Advanced(t).at = "script"
  BY <1>0, ItemFacts
<1>2. /\ life[t] = "app" /\ Top(t) \in FrameSet
      /\ AppTop(Top(t), space[t], errno[t], inNonDet[t], attached[t], opt)
  BY <1>1, InRuntime
<1>4. Top(t).fn \in Scripts BY <1>1, <1>2 DEF AppTop, FrameOK, PlaceOK
<1> DEFINE g == Advanced(t)
           i == NextItem(t)
<1>5. ItemRight(Top(t), g, i, opt) BY <1>0, <1>4, ScriptsAreRight
<1>6. g.fn = Top(t).fn /\ g.mode = Top(t).mode /\ g.kern = Top(t).kern
  BY <1>2 DEF Advanced, FrameSet
<1>7. SetTop(t, g) /\ inNonDet'[t] = inNonDet[t] BY DEF ScriptStep
<1>3. Moves(t) BY MovesFacts DEF ScriptStep, Moves, Others
<1> HIDE DEF g
<1>8. FrameOK(g, opt)
  BY <1>1, <1>2, <1>4, <1>6, NamesApart DEF AppTop, FrameOK, PlaceOK, ModeOK, RegionOK, ErrorOK, Scripts, g
<1>9. RegionTop(g, inNonDet[t], opt) BY <1>1, <1>4, <1>6 DEF RegionTop, Scripts, g
<1>10. FrameSpace(g, opt) \in {"App", "Sys"} /\ space[t] = FrameSpace(Top(t), opt)
  BY <1>2 DEF FrameSpace, AppTop
<1>11. CASE i.via = "cross"
  <2>1. Cross(t) /\ attached'[t] = attached[t] BY <1>11 DEF ScriptStep
  <2>2. space'[t] = IF space[t] = "Sys" THEN "App" ELSE "Sys" BY <2>1, MovesFacts
  <2>3. FrameSpace(g, opt) # space[t] /\ (opt.dbug => ~Away(Top(t)) /\ ~Away(g))
    BY <1>5, <1>10, <1>11 DEF ItemRight
  <2>4. space[t] \in {"App", "Sys"} BY <1>10 DEF FrameSpace
  <2>5. space'[t] = FrameSpace(g, opt) BY <1>10, <2>2, <2>3, <2>4
  <2>6. AppTop(g, space'[t], errno'[t], inNonDet'[t], attached'[t], opt)
    BY <1>1, <1>2, <1>6, <1>7, <1>8, <1>9, <2>1, <2>3, <2>5 DEF AppTop, g
  <2> QED BY <1>1, <1>2, <1>3, <1>6, <1>7, <2>6, AppSetTopStep DEF g
<1>12. CASE i.via = "attach"
  <2>1. space' = space /\ attached'[t] = TRUE BY <1>12, MovesFacts DEF ScriptStep
  <2>2. FrameSpace(g, opt) = space[t] /\ ~Away(Top(t)) /\ Away(g) /\ Top(t).fn \in Outside
    BY <1>5, <1>10, <1>12 DEF ItemRight
  <2>3. AppTop(g, space'[t], errno'[t], inNonDet'[t], attached'[t], opt)
    BY <1>1, <1>2, <1>6, <1>7, <1>8, <1>9, <2>1, <2>2 DEF AppTop, g
  <2> QED BY <1>1, <1>2, <1>3, <1>6, <1>7, <2>3, AppSetTopStep DEF g
<1> QED BY <1>0, <1>11, <1>12

(* The end of a script: the process, the thread or the call ends.          *)
LEMMA ScriptEndKeeps ==
  ASSUME HInv, SpaceInv, NEW t \in Threads, ScriptEnd(t)
  PROVE  SpaceInv'
<1>0. frames[t] # <<>> /\ Top(t).at = "script" BY DEF ScriptEnd, At
<1>1. /\ life[t] = "app" /\ Top(t) \in FrameSet
      /\ AppTop(Top(t), space[t], errno[t], inNonDet[t], attached[t], opt)
  BY <1>0, InRuntime
<1>2. /\ UNCHANGED <<opt, space, errno, inNonDet, attached>>
      /\ Top(t).step > Len(Script(t))
  BY DEF ScriptEnd
<1>3. FrameOK(Top(t), opt) /\ Top(t).fn \in Scripts
  BY <1>0, <1>1 DEF AppTop, FrameOK, PlaceOK
<1>4. /\ Top(t).fn = "exit" => UNCHANGED <<life, frames>>
      /\ Top(t).fn = "pthread_exit" => life' = [life EXCEPT ![t] = "ended"] /\ Pop(t)
      /\ Top(t).fn = "fork" => Goto(t, "ret") /\ UNCHANGED life
      /\ Top(t).fn = "soba_wait" => Pop(t) /\ UNCHANGED life
  BY <1>0 DEF ScriptEnd, In
<1>5. CASE Top(t).fn = "exit" BY <1>2, <1>4, <1>5, GoneKeeps
<1>6. CASE Top(t).fn = "pthread_exit"
  <2>1. life'[t] = "ended" /\ \A u \in Threads \ {t} : life'[u] = life[u]
    BY <1>4, <1>6, MovesFacts
  <2>2. Others(t) BY <1>2, <2>1 DEF Others
  <2> QED BY <1>0, <1>4, <1>6, <2>1, <2>2, EndStep
<1>7. CASE Top(t).fn = "fork"
  <2> DEFINE f == [Top(t) EXCEPT !.at = "ret"]
  <2>1. /\ f \in FrameSet /\ f.fn = "fork" /\ f.kern = Top(t).kern /\ f.mode = Top(t).mode
        /\ f.at = "ret"
    BY <1>1, <1>7 DEF FrameSet, Ats
  <2>2. SetTop(t, f) /\ Moves(t) BY <1>2, <1>4, <1>7 DEF Goto, Moves, Others
  <2> HIDE DEF f
  <2>3. space[t] = "Sys"
    <3>1. Script(t) = ChildScript BY <1>0, <1>7 DEF Script, In
    <3>2. Len(Script(t)) = 4 BY <3>1 DEF ChildScript
    <3>3. Top(t).step \in 5 .. 9
      <4>1. Top(t).step \in 1 .. 9 BY <1>1 DEF FrameSet
      <4> QED BY <1>2, <3>2, <4>1
    <3>4. Top(t).step \in SysSteps("fork", opt) BY <3>3 DEF SysSteps
    <3> QED BY <1>0, <1>1, <1>7, <3>4 DEF AppTop, FrameSpace
  <2>4. FrameOK(f, opt)
    BY <1>0, <1>3, <2>1, NamesApart DEF FrameOK, PlaceOK, ModeOK, RegionOK, ErrorOK
  <2>5. ~Away(f) /\ ~Away(Top(t)) /\ FrameSpace(f, opt) = "Sys" BY <1>0, <1>7, <2>1 DEF Away, FrameSpace
  <2>6. RegionTop(f, inNonDet[t], opt) BY <2>1 DEF RegionTop
  <2>7. AppTop(f, space'[t], errno'[t], inNonDet'[t], attached'[t], opt)
    BY <1>1, <1>2, <1>7, <2>1, <2>3, <2>4, <2>5, <2>6 DEF AppTop
  <2> QED BY <1>0, <1>1, <1>2, <1>7, <2>1, <2>2, <2>7, AppSetTopStep
<1>8. CASE Top(t).fn = "soba_wait"
  <2>1. Moves(t) BY <1>2, <1>4, <1>8 DEF Moves, Others
  <2>2. SysSteps("soba_wait", opt) = {} BY DEF SysSteps
  <2>3. space[t] = "App" BY <1>0, <1>1, <1>8, <2>2 DEF AppTop, FrameSpace
  <2>4. ~Away(Top(t)) BY <1>0, <1>8 DEF Away
  <2>5. opt.dbug => (attached'[t] <=> inNonDet[t]) BY <1>1, <1>2, <2>4 DEF AppTop
  <2>6. space'[t] = ReturnSpace(Top(t)) BY <1>2, <1>8, <2>3 DEF ReturnSpace
  <2> QED BY <1>0, <1>1, <1>2, <1>4, <1>8, <2>1, <2>5, <2>6, AppPopStep
<1> QED BY <1>3, <1>5, <1>6, <1>7, <1>8 DEF Scripts

(* Leaving the run queue: into a region, or attached for the real call.    *)
LEMMA OffQueueKeeps ==
  ASSUME HInv, SpaceInv, NEW t \in Threads, OffQueue(t)
  PROVE  SpaceInv'
<1>0. frames[t] # <<>> /\ Top(t).at = "offq" BY DEF OffQueue, At
<1>1. /\ life[t] = "app" /\ Top(t) \in FrameSet
      /\ AppTop(Top(t), space[t], errno[t], inNonDet[t], attached[t], opt)
  BY <1>0, InRuntime
<1>2. Moves(t) /\ space'[t] = space[t] BY MovesFacts DEF OffQueue, Moves, Others
<1>3. FrameOK(Top(t), opt) /\ space[t] = "Sys" BY <1>0, <1>1 DEF AppTop, FrameSpace
<1>4. CASE Top(t).fn = "pcs_enter"
  <2> DEFINE f == [Top(t) EXCEPT !.at = "ret"]
  <2>1. /\ f \in FrameSet /\ f.fn = "pcs_enter" /\ f.kern = Top(t).kern /\ f.mode = Top(t).mode
        /\ f.at = "ret" /\ f.step = 2
    BY <1>0, <1>1, <1>3, <1>4 DEF FrameSet, Ats, FrameOK, RegionOK
  <2>2. SetTop(t, f) /\ inNonDet' = [inNonDet EXCEPT ![t] = TRUE] /\ attached' = attached
    BY <1>4 DEF OffQueue, Goto, In
  <2> HIDE DEF f
  <2>3. inNonDet'[t] = TRUE BY <2>2, MovesFacts, ZenonT(60)
  <2>4. FrameOK(f, opt) /\ opt.nondet
    BY <1>0, <1>3, <1>4, <2>1, NamesApart DEF FrameOK, PlaceOK, ModeOK, RegionOK, ErrorOK
  <2>5. Away(f) /\ Away(Top(t)) /\ FrameSpace(f, opt) = "Sys"
    BY <1>0, <1>3, <1>4, <2>1 DEF Away, FrameSpace, FrameOK, RegionOK
  <2>6. RegionTop(f, TRUE, opt) BY <2>1 DEF RegionTop
  <2>7. f.fn \notin Outside BY <2>1 DEF Outside
  <2>8. AppTop(f, space'[t], errno'[t], inNonDet'[t], attached'[t], opt)
    BY <1>1, <1>2, <1>3, <2>1, <2>2, <2>3, <2>4, <2>5, <2>6, <2>7 DEF AppTop
  <2> QED BY <1>0, <1>1, <1>2, <1>4, <2>1, <2>2, <2>8, AppSetTopStep
<1>5. CASE Top(t).fn # "pcs_enter"
  <2> DEFINE f == [Top(t) EXCEPT !.at = "real"]
  <2>1. /\ f \in FrameSet /\ f.fn = Top(t).fn /\ f.kern = Top(t).kern /\ f.mode = "block"
        /\ f.at = "real"
    BY <1>0, <1>1, <1>3, <1>5 DEF FrameSet, Ats, FrameOK, ModeOK
  <2>2. SetTop(t, f) /\ attached' = [attached EXCEPT ![t] = opt.dbug] /\ inNonDet' = inNonDet
    BY <1>5 DEF OffQueue, Goto, In
  <2> HIDE DEF f
  <2>3. attached'[t] = opt.dbug
    <3>1. attached \in [Threads -> BOOLEAN] BY DEF HInv, Plain
    <3> QED BY <2>2, <3>1, Zenon
  <2>4. FrameOK(f, opt)
    BY <1>0, <1>3, <1>5, <2>1, NamesApart DEF FrameOK, PlaceOK, ModeOK, RegionOK, ErrorOK
  <2>5. Away(f) /\ FrameSpace(f, opt) = "Sys" BY <2>1 DEF Away, FrameSpace
  <2>6. RegionTop(f, inNonDet[t], opt)
    <3>1. Top(t).mode = "block" BY <1>0, <1>3, <1>5 DEF FrameOK, ModeOK
    <3>2. ~inNonDet[t] BY <1>0, <1>1, <3>1 DEF AppTop, RegionTop
    <3> QED BY <1>5, <2>1, <3>2 DEF RegionTop
  <2>7. AppTop(f, space'[t], errno'[t], inNonDet'[t], attached'[t], opt)
    BY <1>1, <1>2, <1>3, <2>1, <2>2, <2>3, <2>4, <2>5, <2>6 DEF AppTop
  <2> QED BY <1>0, <1>1, <1>2, <2>1, <2>2, <2>7, AppSetTopStep
<1> QED BY <1>4, <1>5

(* BLOCK_TIMER_END.                                                        *)
LEMMA BlockEndKeeps ==
  ASSUME HInv, SpaceInv, NEW t \in Threads, BlockEnd(t)
  PROVE  SpaceInv'
<1>0. frames[t] # <<>> /\ Top(t).at = "detach" BY DEF BlockEnd, At
<1>1. /\ life[t] = "app" /\ Top(t) \in FrameSet
      /\ AppTop(Top(t), space[t], errno[t], inNonDet[t], attached[t], opt)
  BY <1>0, InRuntime
<1>2. Moves(t) /\ space'[t] = space[t] /\ errno'[t] = errno[t] /\ inNonDet'[t] = inNonDet[t]
      /\ attached'[t] = FALSE
  <2>1. /\ attached' = [attached EXCEPT ![t] = FALSE] /\ opt' = opt /\ life' = life
        /\ space' = space /\ errno' = errno /\ inNonDet' = inNonDet
    BY DEF BlockEnd
  <2>2. attached'[t] = FALSE /\ \A u \in Threads \ {t} : attached'[u] = attached[u]
    BY <2>1, MovesFacts, Zenon
  <2> QED BY <2>1, <2>2, Zenon DEF Moves, Others
<1>3. FrameOK(Top(t), opt) /\ space[t] = "Sys" BY <1>0, <1>1 DEF AppTop, FrameSpace
<1> DEFINE f == [Top(t) EXCEPT !.at = "ret"]
<1>4. /\ f \in FrameSet /\ f.fn = Top(t).fn /\ f.kern = Top(t).kern /\ f.mode = Top(t).mode
      /\ f.at = "ret" /\ f.error = Top(t).error /\ f.step = Top(t).step
  BY <1>1 DEF FrameSet, Ats
<1>5. SetTop(t, f) BY DEF BlockEnd, Goto
<1> HIDE DEF f
<1>6. FrameOK(f, opt)
  BY <1>0, <1>3, <1>4 DEF FrameOK, PlaceOK, ModeOK, RegionOK, ErrorOK
<1>7. f.fn # "pcs_enter" BY <1>0, <1>3, <1>4 DEF FrameOK, RegionOK
<1>8. ~Away(f) /\ FrameSpace(f, opt) = "Sys" BY <1>4, <1>7 DEF Away, FrameSpace
<1>9. RegionTop(f, inNonDet[t], opt) BY <1>4, <1>7 DEF RegionTop
<1>10. ~inNonDet[t] BY <1>0, <1>1, <1>3 DEF AppTop, RegionTop, FrameOK, ModeOK
<1>11. AppTop(f, space'[t], errno'[t], inNonDet'[t], attached'[t], opt)
  BY <1>1, <1>2, <1>3, <1>4, <1>6, <1>8, <1>9, <1>10 DEF AppTop
<1> QED BY <1>0, <1>1, <1>2, <1>4, <1>5, <1>11, AppSetTopStep

(* An interceptor returns: with DMT off it crosses back to App space.      *)
LEMMA InterceptReturnKeeps ==
  ASSUME HInv, SpaceInv, NEW t \in Threads, InterceptReturn(t)
  PROVE  SpaceInv'
<1>0. frames[t] # <<>> /\ Top(t).at = "out" BY DEF InterceptReturn, At
<1>1. Moves(t) /\ inNonDet'[t] = inNonDet[t] /\ attached'[t] = attached[t] /\ Pop(t)
  BY MovesFacts DEF InterceptReturn, Moves, Others
<1>2. Top(t) \in FrameSet /\ life[t] \in {"app", "raw"} BY <1>0, Tops
<1>3. CASE life[t] = "raw"
  <2>1. space[t] = "Sys" /\ Top(t).mode = "sys" BY <1>0, <1>3, Tops DEF RawTop
  <2>2. space'[t] = "Sys" BY <2>1 DEF InterceptReturn
  <2> QED BY <1>0, <1>1, <1>3, <2>2, RawStep
<1>4. CASE life[t] = "app"
  <2>1. AppTop(Top(t), space[t], errno[t], inNonDet[t], attached[t], opt) BY <1>0, <1>4, Tops
  <2>2. FrameOK(Top(t), opt) /\ space[t] = "Sys" /\ Top(t).mode = "orig"
    BY <1>0, <2>1 DEF AppTop, FrameSpace, FrameOK, ModeOK
  <2>3. Cross(t) BY <2>2 DEF InterceptReturn
  <2>4. space'[t] = "App" BY <2>2, <2>3, MovesFacts
  <2>5. Top(t).fn \notin {"exit", "tern_thread_end", "pcs_enter"}
    BY <1>0, <2>2 DEF FrameOK, PlaceOK, RegionOK
  <2>6. ~Away(Top(t)) BY <1>0, <2>5 DEF Away
  <2>7. opt.dbug => (attached'[t] <=> inNonDet[t]) BY <1>1, <2>1, <2>6 DEF AppTop
  <2>8. space'[t] = ReturnSpace(Top(t)) BY <2>4, <2>5 DEF ReturnSpace
  <2> QED BY <1>0, <1>1, <1>4, <2>5, <2>7, <2>8, AppPopStep
<1> QED BY <1>2, <1>3, <1>4

(* A real call that returns, with or without a failure.                    *)
LEMMA RealReturns ==
  ASSUME HInv, SpaceInv, NEW t \in Threads, frames[t] # <<>>, Top(t).at = "real", Moves(t),
         UNCHANGED <<space, inNonDet, attached>>,
         NEW f \in FrameSet, SetTop(t, f), f.fn = Top(t).fn, f.mode = Top(t).mode,
         f.step = Top(t).step,
         f.at = (CASE Top(t).mode = "block" -> "detach"
                   [] Top(t).mode \in {"orig", "sys"} -> "out"
                   [] OTHER -> "ret"),
         f.kern = "failed" => /\ f.at = "out" => errno'[t] = "call"
                              /\ f.mode \in {"saved", "block"} => f.error = "call"
  PROVE  SpaceInv'
<1>1. Top(t) \in FrameSet /\ life[t] \in {"app", "raw"} BY Tops
<1>2. /\ Top(t).mode = "block" => f.at = "detach"
      /\ Top(t).mode \in {"orig", "sys"} => f.at = "out"
      /\ Top(t).mode \notin {"block", "orig", "sys"} => f.at = "ret"
  OBVIOUS
<1>3. FrameOK(Top(t), opt) BY <1>1, Tops DEF AppTop, RawTop
<1>4. Top(t).mode \in {"direct", "saved", "block", "orig", "sys"}
  BY <1>1, <1>3 DEF FrameSet, Modes, FrameOK, ModeOK
<1>5. Top(t).fn \notin {"exit", "tern_thread_end", "pcs_enter"}
  BY <1>3 DEF FrameOK, PlaceOK, RegionOK
<1>6. FrameOK(f, opt)
  BY <1>2, <1>3, <1>4, <1>5 DEF FrameOK, PlaceOK, ModeOK, RegionOK, ErrorOK
<1>7. CASE life[t] = "raw"
  <2>1. space[t] = "Sys" /\ Top(t).mode = "sys" BY <1>7, Tops DEF RawTop
  <2>2. RawTop(f, space'[t], errno'[t], opt) BY <1>2, <1>6, <2>1 DEF RawTop
  <2> QED BY <1>7, <2>1, <2>2, RawStep
<1>8. CASE life[t] = "app"
  <2>1. AppTop(Top(t), space[t], errno[t], inNonDet[t], attached[t], opt) BY <1>8, Tops
  <2>2. space[t] = "Sys" /\ Top(t).mode # "sys" BY <2>1 DEF AppTop, FrameSpace
  <2>3. FrameSpace(f, opt) = "Sys" BY <1>2, <1>4 DEF FrameSpace
  <2>4. Away(f) <=> Away(Top(t)) BY <1>2, <1>4, <1>5 DEF Away
  <2>5. RegionTop(f, inNonDet[t], opt) BY <1>2, <1>4, <1>5, <2>1 DEF AppTop, RegionTop
  <2>6. AppTop(f, space'[t], errno'[t], inNonDet'[t], attached'[t], opt)
    BY <1>2, <1>6, <2>1, <2>2, <2>3, <2>4, <2>5 DEF AppTop
  <2> QED BY <1>8, <2>6, AppSetTopStep
<1> QED BY <1>1, <1>7, <1>8

(* The real call outside the turn.                                         *)
LEMMA RealKeeps ==
  ASSUME HInv, SpaceInv, NEW t \in Threads, Real(t)
  PROVE  SpaceInv'
<1>0. frames[t] # <<>> /\ Top(t).at = "real" BY DEF Real, At
<1>1. Top(t) \in FrameSet /\ life[t] \in {"app", "raw"} BY <1>0, Tops
<1>2. UNCHANGED <<opt, space, inNonDet, attached>> BY DEF Real
<1> DEFINE back == CASE Top(t).mode = "block" -> "detach"
                     [] Top(t).mode \in {"orig", "sys"} -> "out"
                     [] OTHER -> "ret"
           saved == Top(t).mode \in {"saved", "block"}
<1>3. back \in {"detach", "out", "ret"} OBVIOUS
<1>4. \/ /\ \E k \in {"ok", "failed"} :
              SetTop(t, After([Top(t) EXCEPT !.at = back], k, saved)) /\ Failed(t, k)
         /\ UNCHANGED life
      \/ /\ \E u \in {u \in Threads : life[u] = "none"} : life' = [life EXCEPT ![u] = "raw"]
         /\ Goto(t, back) /\ UNCHANGED errno
      \/ /\ Top(t).fn = "pthread_exit" /\ life' = [life EXCEPT ![t] = "ended"]
         /\ Pop(t) /\ UNCHANGED errno
      \/ UNCHANGED <<life, errno, frames>>
  BY DEF Real, Outcomes
<1>5. CASE /\ \E k \in {"ok", "failed"} :
                SetTop(t, After([Top(t) EXCEPT !.at = back], k, saved)) /\ Failed(t, k)
           /\ UNCHANGED life
  <2>1. PICK k \in {"ok", "failed"} :
          SetTop(t, After([Top(t) EXCEPT !.at = back], k, saved)) /\ Failed(t, k)
    BY <1>5
  <2> DEFINE r == [Top(t) EXCEPT !.at = back]
             f == After(r, k, saved)
  <2>2. /\ r \in FrameSet /\ r.fn = Top(t).fn /\ r.mode = Top(t).mode /\ r.at = back
        /\ r.step = Top(t).step
    BY <1>1, <1>3 DEF FrameSet, Ats
  <2>3. SetTop(t, f) BY <2>1
  <2>4. saved \in BOOLEAN OBVIOUS
  <2> HIDE DEF r
  <2>5. /\ f \in FrameSet /\ f.fn = r.fn /\ f.mode = r.mode /\ f.at = back
        /\ f.step = r.step /\ f.kern = k /\ (k = "failed" /\ saved => f.error = "call")
    BY <2>2, <2>4 DEF FrameSet, After, Errnos
  <2> HIDE DEF f
  <2>6. Moves(t) /\ (k = "failed" => errno'[t] = "call")
    BY <1>2, <1>5, <2>1, MovesFacts DEF Moves, Others
  <2> QED BY <1>0, <1>2, <2>2, <2>3, <2>5, <2>6, RealReturns
<1>6. CASE /\ \E u \in {u \in Threads : life[u] = "none"} : life' = [life EXCEPT ![u] = "raw"]
           /\ Goto(t, back) /\ UNCHANGED errno
  <2>1. PICK u \in Threads : life[u] = "none" /\ life' = [life EXCEPT ![u] = "raw"] BY <1>6
  <2> DEFINE f == [Top(t) EXCEPT !.at = back]
  <2>2. /\ f \in FrameSet /\ f.fn = Top(t).fn /\ f.mode = Top(t).mode /\ f.at = back
        /\ f.step = Top(t).step /\ f.kern = Top(t).kern
    BY <1>1, <1>3 DEF FrameSet, Ats
  <2>3. SetTop(t, f) BY <1>6 DEF Goto
  <2> HIDE DEF f
  <2>4. f.kern # "failed"
    <3>1. FrameOK(Top(t), opt) BY <1>0, <1>1, Tops DEF AppTop, RawTop
    <3> QED BY <1>0, <2>2, <3>1 DEF FrameOK, ErrorOK
  <2>5. life'[t] = life[t] /\ \A v \in Threads \ {t} : life'[v] = life[v] \/ (life[v] = "none" /\ life'[v] = "raw")
    <3>1. life \in [Threads -> {"none", "app", "raw", "ended"}] BY DEF HInv, Plain
    <3> HIDE DEF back
    <3> QED BY <1>1, <2>1, <3>1
  <2>6. Moves(t) BY <1>2, <1>6, <2>5 DEF Moves, Others
  <2> QED BY <1>0, <1>2, <2>2, <2>3, <2>4, <2>6, RealReturns
<1>7. CASE /\ Top(t).fn = "pthread_exit" /\ life' = [life EXCEPT ![t] = "ended"]
           /\ Pop(t) /\ UNCHANGED errno
  <2>1. life' = [life EXCEPT ![t] = "ended"] /\ errno' = errno BY <1>7
  <2> HIDE DEF back, saved
  <2>2. life'[t] = "ended" /\ \A u \in Threads \ {t} : life'[u] = life[u] BY <2>1, MovesFacts
  <2>3. Others(t) BY <1>2, <2>1, <2>2 DEF Others
  <2> QED BY <1>0, <1>7, <2>2, <2>3, EndStep
<1>8. CASE UNCHANGED <<life, errno, frames>> BY <1>2, <1>8, GoneKeeps
<1> QED BY <1>4, <1>5, <1>6, <1>7, <1>8

-----------------------------------------------------------------------------
(* The whole of it.                                                        *)
LEMMA SpaceStep ==
  ASSUME HInv, SpaceInv, [Next]_vars
  PROVE  SpaceInv'
<1>1. CASE UNCHANGED vars BY <1>1, GoneKeeps DEF vars
<1>2. CASE Next
  <2> PICK t \in Threads :
        \/ \E f \in Calls[t] : Call(t, f)
        \/ Inside(t) \/ GetTurn(t) \/ Wait(t) \/ OffQueue(t) \/ Operate(t) \/ Real(t)
    BY <1>2 DEF Next
  <2>1. CASE \E f \in Calls[t] : Call(t, f) BY <2>1, CallKeeps
  <2>2. CASE Exec(t) BY <2>2, GoneKeeps DEF Exec
  <2>3. CASE Inside(t)
    BY <2>2, <2>3, AnnotationHookKeeps, InterceptKeeps, TernEnterKeeps, TernReturnKeeps,
       RunUnscheduledKeeps, DispatchKeeps, TurnStepsKeep, CreateKeeps, ForkKeeps,
       PutTurnKeeps, BlockEndKeeps, InterceptReturnKeeps, ScriptCallKeeps, ScriptStepKeeps,
       ScriptEndKeeps DEF Inside
  <2>4. CASE GetTurn(t) \/ Wait(t) \/ OffQueue(t) \/ Operate(t) \/ Real(t)
    BY <2>4, TurnStepsKeep, OffQueueKeeps, OperateKeeps, RealKeeps
  <2> QED BY <2>1, <2>3, <2>4
<1> QED BY <1>1, <1>2

(* Every frame of every stack is where its function can be, called from    *)
(* the right space, for any number of threads, any program and any options *)
(* (hooks.cpp, spec_hooks.cpp, func_template.cpp, record-runtime.cpp).     *)
THEOREM StacksAreRight == Spec => [](HInv /\ SpaceInv)
<1>1. Init => HInv /\ SpaceInv BY InitHolds, InitRight
<1>2. HInv /\ SpaceInv /\ [Next]_vars => HInv' /\ SpaceInv' BY StepHolds, SpaceStep
<1> QED BY <1>1, <1>2, PTL DEF Spec

(* The runtime runs in Sys space and the application in App space on every *)
(* path: the assertions of Space::enterSys, Space::exitSys and hooks.cpp   *)
(* hold, and no library call of the runtime is taken into the runtime.     *)
THEOREM RuntimeStaysInSys == Spec => []RuntimeInSys
<1>1. ASSUME HInv, SpaceInv, NEW t \in Threads
      PROVE  /\ (life[t] = "app" /\ frames[t] = <<>>) => space[t] = "App"
             /\ (life[t] = "raw" /\ frames[t] = <<>>) => space[t] = "Sys"
             /\ At(t, "tern") => space[t] = "App"
             /\ (proc = "running" /\ frames[t] # <<>> /\ Top(t).at \in
                   {"rt", "turn", "held", "put", "offq", "real", "detach", "ret"}) => space[t] = "Sys"
             /\ (At(t, "script") /\ In(t, "exit") /\ Top(t).step = 1) => space[t] = "App"
  <2>1. Right(life[t], frames[t], space[t], errno[t], inNonDet[t], attached[t], opt)
    BY <1>1 DEF SpaceInv, ThreadOK
  <2>2. (life[t] = "app" /\ frames[t] = <<>>) => space[t] = "App" BY <2>1 DEF Right, AppStack
  <2>3. (life[t] = "raw" /\ frames[t] = <<>>) => space[t] = "Sys" BY <2>1 DEF Right, RawStack
  <2>4. ASSUME frames[t] # <<>>, Top(t).at \in {"rt", "turn", "held", "put", "offq", "real", "detach", "ret"}
        PROVE  space[t] = "Sys"
    BY <1>1, <2>4, Tops DEF AppTop, RawTop, FrameSpace
  <2>5. ASSUME At(t, "tern") PROVE space[t] = "App"
    <3>1. frames[t] # <<>> /\ Top(t).at = "tern" BY <2>5 DEF At
    <3>2. AppTop(Top(t), space[t], errno[t], inNonDet[t], attached[t], opt) BY <1>1, <3>1, InRuntime
    <3> QED BY <3>1, <3>2 DEF AppTop, FrameSpace
  <2>6. ASSUME At(t, "script"), In(t, "exit"), Top(t).step = 1 PROVE space[t] = "App"
    <3>1. frames[t] # <<>> /\ Top(t).at = "script" /\ Top(t).fn = "exit" BY <2>6 DEF At, In
    <3>2. AppTop(Top(t), space[t], errno[t], inNonDet[t], attached[t], opt) BY <1>1, <3>1, InRuntime
    <3>3. 1 \notin SysSteps("exit", opt) BY DEF SysSteps
    <3> QED BY <2>6, <3>1, <3>2, <3>3 DEF AppTop, FrameSpace
  <2> QED BY <2>2, <2>3, <2>4, <2>5, <2>6
<1>2. TypeOK /\ HInv /\ SpaceInv => RuntimeInSys BY <1>1 DEF RuntimeInSys
<1> QED BY <1>2, StacksAreRight, TypesAreRight, PTL

(* The assertions of __attach_self_to_dbug and __detach_self_from_dbug     *)
(* hold: no thread attaches twice or detaches when it is not attached.     *)
THEOREM DbugAssertionsHold == Spec => []DbugAssertsHold
<1>1. ASSUME HInv, SpaceInv, opt.dbug, NEW t \in Threads
      PROVE  /\ (At(t, "offq") /\ ~In(t, "pcs_enter")) => ~attached[t]
             /\ (At(t, "held") /\ In(t, "pcs_enter") /\ Top(t).step = 1) => ~attached[t]
             /\ (At(t, "held") /\ Top(t).fn \in {"pthread_create", "fork", "execv"}) => ~attached[t]
             /\ At(t, "detach") => attached[t]
             /\ (At(t, "rt") /\ Top(t).fn \in {"pcs_exit", "pcs_barrier_exit"}) => attached[t]
             /\ (Scripted(t) /\ NextItem(t).via = "attach") => ~attached[t]
  <2>1. ASSUME NEW at, At(t, at), at \notin {"hook", "real", "out"}
        PROVE  /\ frames[t] # <<>> /\ Top(t).at = at
               /\ FrameOK(Top(t), opt) /\ RegionTop(Top(t), inNonDet[t], opt)
               /\ inNonDet[t] => opt.nondet /\ Top(t).fn \notin Outside
               /\ attached[t] <=> (inNonDet[t] \/ Away(Top(t)))
    <3>1. frames[t] # <<>> /\ Top(t).at = at BY <2>1 DEF At
    <3>2. AppTop(Top(t), space[t], errno[t], inNonDet[t], attached[t], opt)
      BY <1>1, <2>1, <3>1, InRuntime
    <3> QED BY <1>1, <3>1, <3>2 DEF AppTop
  <2>2. ASSUME At(t, "offq"), ~In(t, "pcs_enter") PROVE ~attached[t]
    <3>1. Top(t).fn # "pcs_enter" BY <2>1, <2>2 DEF In
    <3>2. Top(t).mode = "block" BY <2>1, <2>2, <3>1 DEF FrameOK, ModeOK
    <3> QED BY <2>1, <2>2, <3>1, <3>2 DEF RegionTop, Away
  <2>3. ASSUME At(t, "held"), In(t, "pcs_enter"), Top(t).step = 1 PROVE ~attached[t]
    BY <2>1, <2>3 DEF In, RegionTop, Away
  <2>4. ASSUME At(t, "held"), Top(t).fn \in {"pthread_create", "fork", "execv"} PROVE ~attached[t]
    BY <2>1, <2>4 DEF Outside, NoRegion, Away
  <2>5. ASSUME At(t, "detach") PROVE attached[t]
    BY <2>1, <2>5 DEF FrameOK, ModeOK, Away
  <2>6. ASSUME At(t, "rt"), Top(t).fn \in {"pcs_exit", "pcs_barrier_exit"} PROVE attached[t]
    BY <2>1, <2>6, NamesApart DEF FrameOK, RegionOK, RegionTop
  <2>7. ASSUME Scripted(t), NextItem(t).via = "attach" PROVE ~attached[t]
    <3>1. At(t, "script") BY <2>7 DEF Scripted
    <3>2. Top(t).fn \in Scripts BY <2>1, <3>1 DEF FrameOK, PlaceOK
    <3>3. ItemRight(Top(t), Advanced(t), NextItem(t), opt) BY <1>1, <2>7, <3>2, ScriptsAreRight
    <3>4. ~Away(Top(t)) /\ Top(t).fn \in Outside BY <2>7, <3>3 DEF ItemRight
    <3> QED BY <2>1, <3>1, <3>4
  <2> QED BY <2>2, <2>3, <2>4, <2>5, <2>6, <2>7
<1>2. HInv /\ SpaceInv => DbugAssertsHold BY <1>1 DEF DbugAssertsHold
<1> QED BY <1>2, StacksAreRight, PTL

-----------------------------------------------------------------------------
(* Returns to the program.                                                 *)

(* A step that leaves a frame on the only stack it changes returns from no *)
(* call.                                                                   *)
LEMMA NoReturn ==
  ASSUME HInv, NEW t \in Threads, NEW new, new # <<>>, frames' = [frames EXCEPT ![t] = new],
         NEW u \in Threads
  PROVE  ~Returns(u)
<1>1. frames'[t] = new /\ (u # t => frames'[u] = frames[u]) BY StacksAfter
<1>2. Len(<<>>) = 0 OBVIOUS
<1> QED BY <1>1, <1>2 DEF Returns

(* Replacing the top frame returns from no call.                           *)
LEMMA NoReturnSetTop ==
  ASSUME HInv, NEW t \in Threads, NEW f, SetTop(t, f), frames[t] # <<>>, NEW u \in Threads
  PROVE  ~Returns(u)
<1> DEFINE new == <<f>> \o Tail(frames[t])
<1>1. frames[t] \in Seq(FrameSet) BY DEF HInv, Stacks
<1>2. new # <<>>
  <2> DEFINE s == Tail(frames[t])
  <2>1. s \in Seq(FrameSet \cup {f}) /\ <<f>> \in Seq(FrameSet \cup {f}) BY <1>1
  <2> HIDE DEF s
  <2>2. Len(<<f>> \o s) = 1 + Len(s) /\ Len(s) \in Nat BY <2>1
  <2>3. <<f>> \o s # <<>> BY <2>2
  <2> QED BY <2>3 DEF s
<1>3. frames' = [frames EXCEPT ![t] = new] BY DEF SetTop
<1> HIDE DEF new
<1> QED BY <1>2, <1>3, NoReturn

(* Neither does moving it.                                                 *)
LEMMA NoReturnGoto ==
  ASSUME HInv, NEW t \in Threads, NEW at, Goto(t, at), frames[t] # <<>>, NEW u \in Threads
  PROVE  ~Returns(u)
  BY NoReturnSetTop DEF Goto

(* Nor a step that leaves the stacks alone.                                *)
LEMMA NoReturnSame ==
  ASSUME UNCHANGED frames, NEW u \in Threads
  PROVE  ~Returns(u)
<1>1. Len(<<>>) = 0 OBVIOUS
<1> QED BY <1>1 DEF Returns

(* Only these steps of a thread itself return from its last frame.         *)
LEMMA WhoReturns ==
  ASSUME HInv, [Next]_vars, NEW u \in Threads, Returns(u)
  PROVE  \/ AnnotationHook(u) \/ TernReturn(u) \/ InterceptReturn(u) \/ ScriptEnd(u)
         \/ PutTurn(u) /\ Top(u).fn = "tern_thread_end"
<1>1. CASE UNCHANGED vars BY <1>1, NoReturnSame DEF vars
<1>2. CASE Next
  <2> PICK t \in Threads :
        \/ \E f \in Calls[t] : Call(t, f)
        \/ Inside(t) \/ GetTurn(t) \/ Wait(t) \/ OffQueue(t) \/ Operate(t) \/ Real(t)
    BY <1>2 DEF Next
  <2>1. ASSUME NEW f, Call(t, f) PROVE FALSE
    <3> DEFINE fr == Frame(f, IF f = "exit" THEN "script" ELSE "hook")
    <3>1. frames' = [frames EXCEPT ![t] = <<fr>> \o <<>>] BY <2>1 DEF Call, Push
    <3>2. <<fr>> \o <<>> # <<>>
      <4> HIDE DEF fr
      <4> QED OBVIOUS
    <3> HIDE DEF fr
    <3> QED BY <3>1, <3>2, NoReturn
  <2>2. ASSUME Pop(t) PROVE t = u
    <3>1. t # u => frames'[u] = frames[u] BY <2>2, StacksAfter DEF Pop
    <3>2. Len(<<>>) = 0 OBVIOUS
    <3> QED BY <3>1, <3>2, SMTT(60) DEF Returns
  <2>3. CASE AnnotationHook(t)
    <3>1. frames[t] # <<>> BY <2>3 DEF AnnotationHook, At
    <3>2. Pop(t) BY <2>3, <3>1, NoReturnGoto DEF AnnotationHook
    <3> QED BY <2>2, <2>3, <3>2
  <2>4. CASE Intercept(t) \/ TernEnter(t)
    <3>1. frames[t] # <<>> BY <2>4 DEF Intercept, TernEnter, At
    <3> QED BY <2>4, <3>1, NoReturnSetTop, NoReturnGoto DEF Intercept, TernEnter
  <2>5. CASE TernReturn(t) BY <2>2, <2>5 DEF TernReturn
  <2>6. CASE RunUnscheduled(t) \/ Dispatch(t) \/ NonDetWait(t)
    <3>1. frames[t] # <<>> BY <2>6 DEF RunUnscheduled, Dispatch, NonDetWait, At
    <3> QED BY <2>6, <3>1, NoReturnSetTop, NoReturnGoto DEF RunUnscheduled, Dispatch, NonDetWait
  <2>7. CASE Create(t)
    <3>1. frames[t] # <<>> BY <2>7 DEF Create, At
    <3>2. \E v \in Threads : /\ life[v] = "none"
             /\ frames' = [frames EXCEPT
                  ![t] = <<[Top(t) EXCEPT !.at = "put"]>> \o Tail(@),
                  ![v] = <<Frame("tern_thread_begin", "rt")>>]
      BY <2>7, <3>1, NoReturnGoto, NoReturnSame DEF Create
    <3> DEFINE f == [Top(t) EXCEPT !.at = "put"]
               new == <<f>> \o Tail(frames[t])
               g == Frame("tern_thread_begin", "rt")
    <3>3. PICK v \in Threads : frames' = [[frames EXCEPT ![t] = new] EXCEPT ![v] = <<g>>]
      BY <3>2
    <3>4. frames[t] \in Seq(FrameSet) /\ frames \in [Threads -> Seq(FrameSet)] BY DEF HInv, Stacks
    <3> HIDE DEF f, g
    <3>5. new # <<>>
      <4> DEFINE s == Tail(frames[t])
      <4>1. s \in Seq(FrameSet \cup {f}) /\ <<f>> \in Seq(FrameSet \cup {f}) BY <3>1, <3>4
      <4> HIDE DEF s
      <4>2. Len(<<f>> \o s) = 1 + Len(s) /\ Len(s) \in Nat BY <4>1
      <4>3. <<f>> \o s # <<>> BY <4>2
      <4> QED BY <4>3 DEF s
    <3> HIDE DEF new
    <3>6. <<g>> # <<>> /\ Len(<<>>) = 0 OBVIOUS
    <3>7. frames'[u] = new \/ frames'[u] = <<g>> \/ frames'[u] = frames[u] BY <3>3, <3>4
    <3>8. frames[u] # <<>> /\ frames'[u] = <<>> BY <3>6, SMTT(60) DEF Returns
    <3> DEFINE h == <<g>>
    <3>9. h # <<>> /\ (frames'[u] = new \/ frames'[u] = h \/ frames'[u] = frames[u]) BY <3>6, <3>7
    <3> HIDE DEF h
    <3> QED BY <3>5, <3>8, <3>9
  <2>8. CASE Fork(t)
    <3>1. frames[t] # <<>> BY <2>8 DEF Fork, At
    <3>2. /\ frames' = [v \in Threads |-> IF v = t
                THEN <<[Top(t) EXCEPT !.at = "put", !.step = 2]>> \o Tail(frames[t])
                ELSE <<>>]
          /\ life' = [v \in Threads |-> IF v = t THEN life[t] ELSE "ended"]
      BY <2>8, <3>1, NoReturnGoto, NoReturnSame DEF Fork
    <3>3. u = t BY <3>2 DEF Returns
    <3> DEFINE f == [Top(t) EXCEPT !.at = "put", !.step = 2]
               s == Tail(frames[t])
    <3>4. frames'[t] = <<f>> \o s BY <3>2
    <3>5. frames[t] \in Seq(FrameSet) BY DEF HInv, Stacks
    <3> HIDE DEF f
    <3>6. s \in Seq(FrameSet \cup {f}) /\ <<f>> \in Seq(FrameSet \cup {f}) BY <3>1, <3>5
    <3> HIDE DEF s
    <3>7. Len(<<f>> \o s) = 1 + Len(s) /\ Len(s) \in Nat BY <3>6
    <3>8. <<f>> \o s # <<>> BY <3>7
    <3> QED BY <3>3, <3>4, <3>8 DEF Returns
  <2>9. CASE Exec(t) BY <2>9, NoReturnSame DEF Exec
  <2>10. CASE PutTurn(t)
    <3>1. frames[t] # <<>> BY <2>10 DEF PutTurn, At
    <3>2. \/ Top(t).fn = "tern_thread_end"
          \/ \E at : Goto(t, at)
          \/ SetTop(t, [Top(t) EXCEPT !.at = "script", !.step = 1])
      BY <2>10, <3>1 DEF PutTurn, In
    <3>3. Top(t).fn = "tern_thread_end" BY <3>1, <3>2, NoReturnGoto, NoReturnSetTop
    <3>4. Pop(t) BY <2>10, <3>1, <3>3 DEF PutTurn, In
    <3> QED BY <2>2, <2>10, <3>3, <3>4
  <2>11. CASE BlockEnd(t)
    <3>1. frames[t] # <<>> BY <2>11 DEF BlockEnd, At
    <3> QED BY <2>11, <3>1, NoReturnGoto DEF BlockEnd
  <2>12. CASE InterceptReturn(t) BY <2>2, <2>12 DEF InterceptReturn
  <2>13. CASE ScriptCall(t)
    <3> DEFINE f == Frame(NextItem(t).fn, NextItem(t).via)
               g == Advanced(t)
    <3>1. frames[t] # <<>> BY <2>13 DEF ScriptCall, Scripted, At
    <3>2. frames' = [frames EXCEPT ![t] = <<f, g>> \o Tail(frames[t])] BY <2>13 DEF ScriptCall
    <3> HIDE DEF f, g
    <3> DEFINE s == Tail(frames[t])
    <3>3. frames[t] \in Seq(FrameSet) BY DEF HInv, Stacks
    <3>4. s \in Seq(FrameSet \cup {f, g}) /\ <<f, g>> \in Seq(FrameSet \cup {f, g}) BY <3>1, <3>3
    <3> HIDE DEF s
    <3>5. Len(<<f, g>> \o s) = 2 + Len(s) /\ Len(s) \in Nat BY <3>4
    <3>6. <<f, g>> \o s # <<>> BY <3>5
    <3> QED BY <3>2, <3>6, NoReturn DEF s
  <2>14. CASE ScriptStep(t)
    <3>1. frames[t] # <<>> BY <2>14 DEF ScriptStep, Scripted, At
    <3> QED BY <2>14, <3>1, NoReturnSetTop DEF ScriptStep
  <2>15. CASE ScriptEnd(t)
    <3>1. frames[t] # <<>> BY <2>15 DEF ScriptEnd, At
    <3>2. UNCHANGED frames \/ Pop(t) \/ Goto(t, "ret") BY <2>15 DEF ScriptEnd
    <3>3. Pop(t) BY <3>1, <3>2, NoReturnSame, NoReturnGoto
    <3> QED BY <2>2, <2>15, <3>3
  <2>16. CASE GetTurn(t) \/ Wait(t) \/ OffQueue(t)
    <3>1. frames[t] # <<>> BY <2>16 DEF GetTurn, Wait, OffQueue, At
    <3> QED BY <2>16, <3>1, NoReturnGoto DEF GetTurn, Wait, OffQueue
  <2>17. CASE Operate(t)
    <3>1. frames[t] # <<>> BY <2>17 DEF Operate, At
    <3> QED BY <2>17, <3>1, NoReturnSetTop DEF Operate
  <2>18. CASE Real(t)
    <3>1. frames[t] # <<>> BY <2>18 DEF Real, At
    <3>2. \/ \E f : SetTop(t, f)
          \/ \E at : Goto(t, at)
          \/ Pop(t) /\ life' = [life EXCEPT ![t] = "ended"]
          \/ UNCHANGED frames
      BY <2>18 DEF Real
    <3>3. Pop(t) /\ life' = [life EXCEPT ![t] = "ended"]
      BY <3>1, <3>2, NoReturnSetTop, NoReturnGoto, NoReturnSame
    <3>4. life'[t] = "ended" BY <3>3 DEF HInv, Plain
    <3> QED BY <2>2, <3>3, <3>4 DEF Returns
  <2> QED BY <2>1, <2>3, <2>4, <2>5, <2>6, <2>7, <2>8, <2>9, <2>10, <2>11, <2>12, <2>13,
             <2>14, <2>15, <2>16, <2>17, <2>18 DEF Inside
<1> QED BY <1>1, <1>2

(* When a call returns to the application after its real call failed, the  *)
(* application's errno is the one that call left (hooks.cpp restores the   *)
(* errno the base wrapper of runtime.cpp stored), whatever the runtime and *)
(* the other threads did in between.                                       *)
THEOREM ErrnoIsDelivered == Spec => ErrnoDelivered
<1> DEFINE P == \A t \in Threads :
                  (Returns(t) /\ Top(t).kern = "failed" /\ Top(t).mode # "direct")
                    => errno'[t] = "call"
<1>1. ASSUME HInv, SpaceInv, [Next]_vars PROVE P
  <2> SUFFICES ASSUME NEW t \in Threads, Returns(t), Top(t).kern = "failed", Top(t).mode # "direct"
               PROVE  errno'[t] = "call"
    OBVIOUS
  <2>1. \/ AnnotationHook(t) \/ TernReturn(t) \/ InterceptReturn(t) \/ ScriptEnd(t)
        \/ PutTurn(t) /\ Top(t).fn = "tern_thread_end"
    BY <1>1, WhoReturns
  <2>2. frames[t] # <<>>
    <3>1. Len(<<>>) = 0 OBVIOUS
    <3> QED BY <3>1, SMTT(60) DEF Returns
  <2>3. FrameOK(Top(t), opt) BY <1>1, <2>2, Tops DEF AppTop, RawTop
  <2>4. Top(t).at \in {"put", "detach", "ret", "out"} BY <2>3 DEF FrameOK, ErrorOK
  <2>5. CASE AnnotationHook(t) \/ ScriptEnd(t) BY <2>4, <2>5 DEF AnnotationHook, ScriptEnd, At
  <2>6. CASE TernReturn(t)
    <3>1. Top(t).at = "ret" BY <2>6 DEF TernReturn, At
    <3>2. Top(t).error = "call" BY <2>3, <3>1 DEF FrameOK, ErrorOK
    <3>3. errno \in [Threads -> Errnos] BY <1>1 DEF HInv, Plain
    <3> QED BY <2>6, <3>2, <3>3 DEF TernReturn
  <2>7. CASE InterceptReturn(t)
    <3>1. Top(t).at = "out" /\ errno' = errno BY <2>7 DEF InterceptReturn, At
    <3> QED BY <1>1, <2>2, <3>1, Tops DEF AppTop, RawTop
  <2>8. CASE PutTurn(t) /\ Top(t).fn = "tern_thread_end"
    <3>1. Top(t).at = "put" BY <2>8 DEF PutTurn, At
    <3>2. life[t] = "app" BY <1>1, <2>2, <3>1, InRuntime
    <3>3. Chain(frames[t], opt) BY <1>1, <3>2 DEF SpaceInv, ThreadOK, Right, AppStack
    <3>4. frames[t][Len(frames[t])].fn # "tern_thread_end" BY <2>2, <3>3 DEF Chain
    <3>5. frames[t] \in Seq(FrameSet) /\ Len(frames[t]) = 1 BY <1>1 DEF HInv, Stacks, Returns
    <3>6. Head(frames[t]) = frames[t][1] BY <2>2, <3>5
    <3> QED BY <2>8, <3>4, <3>5, <3>6 DEF Top
  <2> QED BY <2>1, <2>5, <2>6, <2>7, <2>8
<1>2. HInv /\ SpaceInv /\ [Next]_vars => [P]_vars BY <1>1
<1>3. Spec => [][Next]_vars BY PTL DEF Spec
<1>4. Spec => [][P]_vars BY <1>2, <1>3, StacksAreRight, PTL
<1> QED BY <1>4 DEF ErrnoDelivered
=============================================================================
