-------------------------- MODULE RecordLog_proofs --------------------------
(***************************************************************************)
(* The logs of a process merge into its schedule, and a logger stops its   *)
(* process only at its limits, for any number of threads, any options and  *)
(* any work.  The argument is about who writes where: the names of the     *)
(* files of different threads differ, a file is written at its owner's     *)
(* offset only, so that a line stays where it was put, and only its owner  *)
(* can cut it.                                                             *)
(***************************************************************************)
EXTENDS RecordLog, SeqLemmas

\* The points a thread can be at.
Pcs == {"unborn", "new", "spawn", "run", "wait", "call", "exit", "ended", "gone", "forked"}

\* The thread has opened a log of its own.
Acting == {"spawn", "run", "wait", "call", "exit", "ended", "gone"}

Loggers == [st : {"none", "open", "deleted"}, name : LogNames, off : Nat]
Faults == Stops \cup {None}

\* A file is a sequence, of whatever records.
IsLog(f) == Len(f) \in Nat /\ f = [i \in 1 .. Len(f) |-> f[i]]
IsDisk(d) == d = [n \in LogNames |-> d[n]] /\ \A n \in LogNames : IsLog(d[n])

Types ==
  /\ turn \in [Proc -> Nat] /\ nthread \in [Proc -> 1 .. MaxThread]
  /\ pc \in [Proc -> [Tids -> Pcs]] /\ lg \in [Proc -> [Tids -> Loggers]]
  /\ IsDisk(disk) /\ fault \in [Proc -> Faults]
  /\ forker \in Tids \cup {None} /\ sched \in [Proc -> Seq(LogNames \X Nat)]

\* A thread is born once; the forked thread comes first in the child.
Control ==
  /\ \A p \in Proc, t \in Tids : pc[p][t] # "unborn" => t < nthread[p]
  /\ \A t \in Tids : pc["parent"][t] # "forked"
  /\ \A t \in Tids : t # Main => pc["child"][t] # "forked"
  /\ pc["child"][Main] # "new"
  /\ pc["child"][Main] \in {"unborn", "forked"} =>
       \A t \in Tids : t # Main => pc["child"][t] = "unborn"
  /\ forker = None <=> pc["child"][Main] = "unborn"

\* The thread id a log is named after: the child's first log has the forker's id.
LogTid(p, t) == IF p = "child" /\ t = Main THEN forker ELSE t

Names ==
  \A p \in Proc, t \in Tids : pc[p][t] \in Acting =>
     lg[p][t].name = getLogFilename(p, LogTid(p, t))

\* Entry e of the schedule is a line thread t of process p has written and not yet
\* passed again, with a turn of the past.
TurnAt(e) == disk[e[1]][e[2]].turn
LineOf(p, t, e) ==
  /\ e[1] = lg[p][t].name /\ e[2] \in 1 .. lg[p][t].off /\ e[2] <= Len(disk[e[1]])
  /\ TurnAt(e) \in Nat /\ TurnAt(e) < turn[p]

Lines(p) ==
  fault[p] = None /\ OwnFiles(p) =>
    /\ \A i \in 1 .. Len(sched[p]) :
         \E t \in Tids : pc[p][t] \in Acting /\ LineOf(p, t, sched[p][i])
    /\ \A i \in 2 .. Len(sched[p]) : TurnAt(sched[p][i - 1]) < TurnAt(sched[p][i])

LogInv == Types /\ Control /\ Names /\ \A p \in Proc : Lines(p)

-----------------------------------------------------------------------------
(* Files.                                                                     *)

\* The threads of a process include the main thread; None is no thread and no fault.
LEMMA LogFacts ==
  /\ Main \in Tids /\ None \notin Tids /\ Tids \subseteq Nat
  /\ None \notin Stops
  /\ MaxThread \in Nat /\ TrunkRecords \in Nat
  /\ \A n \in 1 .. MaxThread : n < MaxThread => n \in Tids /\ n # Main
  BY LogAssumption DEF Main, Tids

\* A function on 1 .. n is a file of n records.
LEMMA FileOf ==
  ASSUME NEW n \in Nat, NEW g, g = [i \in 1 .. n |-> g[i]]
  PROVE  IsLog(g) /\ Len(g) = n
<1> DEFINE S == {g[i] : i \in 1 .. n}
<1>1. g \in [1 .. n -> S] OBVIOUS
<1>2. g \in Seq(S) BY <1>1
<1>3. Len(g) = n BY <1>1, <1>2
<1> QED BY <1>3 DEF IsLog

\* Resize gives a file its size and keeps what fits.
LEMMA ResizeProps ==
  ASSUME NEW f, IsLog(f), NEW n \in Nat
  PROVE  /\ IsLog(Resize(f, n)) /\ Len(Resize(f, n)) = n
         /\ \A k \in 1 .. n : k <= Len(f) => Resize(f, n)[k] = f[k]
<1> DEFINE g == Resize(f, n)
<1>1. g = [i \in 1 .. n |-> g[i]] BY DEF Resize
<1>2. \A k \in 1 .. n : k <= Len(f) => g[k] = f[k] BY DEF Resize
<1> HIDE DEF g
<1>3. IsLog(g) /\ Len(g) = n BY <1>1, FileOf
<1> QED BY <1>2, <1>3 DEF g

\* File g is file f with the records at the offset.
IsPut(g, f, off, recs) ==
  /\ IsLog(g) /\ Len(g) >= off + Len(recs) /\ Len(g) >= Len(f)
  /\ Len(f) >= off + Len(recs) => Len(g) = Len(f)
  /\ \A k \in 1 .. off : k <= Len(f) => g[k] = f[k]
  /\ \A i \in 1 .. Len(recs) : g[off + i] = recs[i]

\* PutAt puts the records at the offset and keeps what is before them.
LEMMA PutAtProps ==
  ASSUME NEW f, IsLog(f), NEW off \in Nat, NEW recs, IsLog(recs),
         NEW g, g = PutAt(f, off, recs)
  PROVE  IsPut(g, f, off, recs)
<1> DEFINE n == IF Len(f) > off + Len(recs) THEN Len(f) ELSE off + Len(recs)
<1>1. /\ n \in Nat /\ n >= off + Len(recs) /\ n >= Len(f)
      /\ Len(f) \in Nat /\ Len(recs) \in Nat
      /\ Len(f) >= off + Len(recs) => n = Len(f)
  BY DEF IsLog
<1>2. g = [i \in 1 .. n |-> g[i]] BY DEF PutAt
<1>3. \A k \in 1 .. off : k <= Len(f) => g[k] = f[k]
  BY <1>1 DEF PutAt
<1>4. \A i \in 1 .. Len(recs) : g[off + i] = recs[i]
  <2> TAKE i \in 1 .. Len(recs)
  <2>1. off + i \in off + 1 .. off + Len(recs) /\ off + i \in 1 .. n /\ (off + i) - off = i
    BY <1>1
  <2> QED BY <2>1 DEF PutAt
<1> HIDE DEF n
<1>5. IsLog(g) /\ Len(g) = n BY <1>1, <1>2, FileOf
<1> QED BY <1>1, <1>3, <1>4, <1>5 DEF IsPut

\* Opening a log gives it a size and makes its logger start at the front.
LEMMA OpenedProps ==
  ASSUME NEW f, IsLog(f)
  PROVE  /\ IsLog(Opened(f)) /\ StartOffset \in Nat
         /\ opts.type = "bin" => Len(Opened(f)) = TrunkRecords /\ StartOffset = 0
<1>1. \A r : IsLog(<<r>>) /\ Len(<<r>>) = 1
  <2> TAKE r
  <2>1. <<r>> = [i \in 1 .. 1 |-> <<r>>[i]] OBVIOUS
  <2> QED BY <2>1, FileOf
<1>2. IsLog(<<>>) /\ Len(<<>>) = 0
  <2>1. <<>> = [i \in 1 .. 0 |-> <<>>[i]] OBVIOUS
  <2> QED BY <2>1, FileOf
<1>3. IsLog(TxtOpened) /\ Len(TxtOpened) \in Nat BY <1>1, <1>2 DEF TxtOpened
<1>4. IsLog(BinOpened(f)) /\ Len(BinOpened(f)) = TrunkRecords
  BY ResizeProps, LogFacts DEF BinOpened
<1> QED BY <1>3, <1>4 DEF Opened, StartOffset

\* Closing a log keeps the lines before the offset.
LEMMA ClosedProps ==
  ASSUME NEW f, IsLog(f), NEW off \in Nat
  PROVE  /\ IsLog(Closed(f, off))
         /\ opts.type # "bin" => Closed(f, off) = f
         /\ \A k \in 1 .. off : k <= Len(f) =>
              k <= Len(Closed(f, off)) /\ Closed(f, off)[k] = f[k]
  BY ResizeProps DEF Closed

\* Replacing one file of a disk by another.
LEMMA DiskExcept ==
  ASSUME NEW d, IsDisk(d), NEW n \in LogNames, NEW f, IsLog(f)
  PROVE  /\ IsDisk([d EXCEPT ![n] = f]) /\ [d EXCEPT ![n] = f][n] = f
         /\ \A m \in LogNames \ {n} : [d EXCEPT ![n] = f][m] = d[m]
  BY DEF IsDisk

-----------------------------------------------------------------------------
(* What the actions do to the logs.                                            *)

\* Write changes one logger and one file; what is before the offset stays, and the
\* records are behind it unless the write faults.
Written(p, t, l, d, recs) ==
  /\ IsDisk(disk') /\ lg' \in [Proc -> [Tids -> Loggers]]
  /\ fault' \in [Proc -> Faults]
  /\ fault'[p] = WriteFault(l, d[l.name], recs)
  /\ \A q \in Proc : q # p => fault'[q] = fault[q]
  /\ \A q \in Proc, u \in Tids : <<q, u>> # <<p, t>> => lg'[q][u] = lg[q][u]
  /\ lg'[p][t].name = l.name /\ lg'[p][t].off >= l.off
  /\ \A n \in LogNames : n # l.name => disk'[n] = d[n]
  /\ \A k \in 1 .. l.off : k <= Len(d[l.name]) =>
       k <= Len(disk'[l.name]) /\ disk'[l.name][k] = d[l.name][k]
  /\ Len(d[l.name]) >= l.off + Len(recs) => Len(disk'[l.name]) = Len(d[l.name])
  /\ lg'[p][t].off <= l.off + Len(recs)
  /\ fault'[p] = None =>
       /\ lg'[p][t].off = l.off + Len(recs)
       /\ \A i \in 1 .. Len(recs) :
            l.off + i <= Len(disk'[l.name]) /\ disk'[l.name][l.off + i] = recs[i]

\* What Write does.
LEMMA WriteEffect ==
  ASSUME Types, NEW p \in Proc, NEW t \in Tids, NEW l \in Loggers, NEW d, IsDisk(d),
         NEW recs, IsLog(recs), Write(p, t, l, d, recs)
  PROVE  Written(p, t, l, d, recs)
<1> USE DEF Written
<1> DEFINE f == WriteFault(l, d[l.name], recs)
           g == PutAt(d[l.name], l.off, recs)
           m == [l EXCEPT !.off = @ + Len(recs)]
<1>1. f \in Faults BY DEF WriteFault, TxtFault, BinFault, Faults, Stops
<1>2. /\ fault' = [fault EXCEPT ![p] = f]
      /\ f = None => disk' = [d EXCEPT ![l.name] = g] /\ lg' = [lg EXCEPT ![p][t] = m]
      /\ f # None => disk' = d /\ lg' = [lg EXCEPT ![p][t] = l]
  BY DEF Write
<1>3. l.name \in LogNames /\ l.off \in Nat /\ IsLog(d[l.name]) /\ Len(recs) \in Nat
      /\ Len(d[l.name]) \in Nat
  BY DEF Loggers, IsDisk, IsLog
<1>4. /\ IsLog(g) /\ Len(g) >= l.off + Len(recs) /\ Len(g) >= Len(d[l.name])
      /\ Len(d[l.name]) >= l.off + Len(recs) => Len(g) = Len(d[l.name])
      /\ \A k \in 1 .. l.off : k <= Len(d[l.name]) => g[k] = d[l.name][k]
      /\ \A i \in 1 .. Len(recs) : g[l.off + i] = recs[i]
  <2>1. PICK f0, off : f0 = d[l.name] /\ off = l.off OBVIOUS
  <2>2. IsLog(f0) /\ off \in Nat /\ g = PutAt(f0, off, recs) BY <1>3, <2>1
  <2> HIDE DEF g
  <2>3. IsPut(g, f0, off, recs) BY <2>2, PutAtProps
  <2> QED BY <2>1, <2>3 DEF IsPut
<1>5. m \in Loggers /\ m.name = l.name /\ m.off = l.off + Len(recs)
  BY <1>3 DEF Loggers
<1>6. fault \in [Proc -> Faults] /\ lg \in [Proc -> [Tids -> Loggers]] BY DEF Types
<1> HIDE DEF f, g, m
<1>7. /\ fault' \in [Proc -> Faults] /\ fault'[p] = f
      /\ \A q \in Proc : q # p => fault'[q] = fault[q]
  BY <1>1, <1>2, <1>6
<1>8. ASSUME NEW y \in Loggers, lg' = [lg EXCEPT ![p][t] = y]
      PROVE  /\ lg' \in [Proc -> [Tids -> Loggers]] /\ lg'[p][t] = y
             /\ \A q \in Proc, u \in Tids : <<q, u>> # <<p, t>> => lg'[q][u] = lg[q][u]
  BY <1>6, <1>8
<1>9. CASE f = None
  <2>1. /\ IsDisk(disk') /\ disk'[l.name] = g
        /\ \A n \in LogNames : n # l.name => disk'[n] = d[n]
    BY <1>2, <1>3, <1>4, <1>9, DiskExcept
  <2>2. /\ lg' \in [Proc -> [Tids -> Loggers]] /\ lg'[p][t] = m
        /\ \A q \in Proc, u \in Tids : <<q, u>> # <<p, t>> => lg'[q][u] = lg[q][u]
    BY <1>2, <1>5, <1>8, <1>9
  <2>3. \A k \in 1 .. l.off : k <= Len(d[l.name]) =>
          k <= Len(disk'[l.name]) /\ disk'[l.name][k] = d[l.name][k]
    BY <1>3, <1>4, <2>1
  <2>4. \A i \in 1 .. Len(recs) :
          l.off + i <= Len(disk'[l.name]) /\ disk'[l.name][l.off + i] = recs[i]
    <3>1. Len(g) \in Nat BY <1>4 DEF IsLog
    <3> QED BY <1>3, <1>4, <2>1, <3>1
  <2>5. Len(d[l.name]) >= l.off + Len(recs) => Len(disk'[l.name]) = Len(d[l.name])
    BY <1>4, <2>1
  <2>6. lg'[p][t].name = l.name /\ lg'[p][t].off = l.off + Len(recs)
        /\ lg'[p][t].off >= l.off /\ lg'[p][t].off <= l.off + Len(recs)
    BY <1>3, <1>5, <2>2
  <2> QED BY <1>7, <2>1, <2>2, <2>3, <2>4, <2>5, <2>6 DEF f
<1>10. CASE f # None
  <2>1. /\ lg' \in [Proc -> [Tids -> Loggers]] /\ lg'[p][t] = l
        /\ \A q \in Proc, u \in Tids : <<q, u>> # <<p, t>> => lg'[q][u] = lg[q][u]
    BY <1>2, <1>8, <1>10
  <2>2. lg'[p][t].name = l.name /\ lg'[p][t].off >= l.off
        /\ lg'[p][t].off <= l.off + Len(recs)
    BY <1>3, <2>1
  <2>3. disk' = d BY <1>2, <1>10
  <2> QED BY <1>7, <1>10, <2>1, <2>2, <2>3 DEF f
<1> QED BY <1>9, <1>10

\* While a process owns its files, no other thread's log has the name of one of them.
LEMMA Unshared ==
  ASSUME LogInv, NEW p \in Proc, NEW t \in Tids, pc[p][t] \in Acting, OwnFiles(p),
         NEW q \in Proc, NEW u \in Tids, pc[q][u] # "unborn", <<p, t>> # <<q, u>>
  PROVE  lg[p][t].name # getLogFilename(q, LogTid(q, u))
<1>1. lg[p][t].name = getLogFilename(p, LogTid(p, t)) BY DEF LogInv, Names
<1>2. pc[p][t] # "unborn" /\ pc[p][t] # "forked" BY DEF Acting
<1>3. \A v \in Tids : pc["child"][v] # "unborn" => forker # None
  BY LogFacts DEF LogInv, Control
<1>4. CASE p = q
  <2>1. t # u BY <1>4
  <2>2. CASE p = "child"
    <3>1. forker = Main BY <1>2, <1>3, <2>2 DEF OwnFiles
    <3> QED BY <1>1, <1>4, <2>1, <2>2, <3>1 DEF getLogFilename, LogTid
  <2>3. CASE p = "parent" BY <1>1, <1>4, <2>1, <2>3 DEF getLogFilename, LogTid
  <2> QED BY <2>2, <2>3 DEF Proc
<1>5. CASE p # q
  <2>1. forker # None BY <1>2, <1>3, <1>5 DEF Proc
  <2>2. opts.pidName BY <2>1 DEF OwnFiles
  <2> QED BY <1>1, <1>5, <2>2 DEF getLogFilename
<1> QED BY <1>4, <1>5

\* The step keeps the lines of process p where they are.
Keeps(p) ==
  \A t \in Tids : pc[p][t] \in Acting =>
    /\ pc'[p][t] \in Acting /\ lg'[p][t].name = lg[p][t].name
    /\ lg'[p][t].off >= lg[p][t].off
    /\ \A k \in 1 .. lg[p][t].off : k <= Len(disk[lg[p][t].name]) =>
         /\ k <= Len(disk'[lg[p][t].name])
         /\ disk'[lg[p][t].name][k] = disk[lg[p][t].name][k]

\* A line stays a line, with its turn, over a step that keeps the lines.
LEMMA LineStays ==
  ASSUME Types, Types', NEW p \in Proc, NEW t \in Tids, pc[p][t] \in Acting, Keeps(p),
         turn'[p] >= turn[p], NEW e \in LogNames \X Nat, LineOf(p, t, e)
  PROVE  pc'[p][t] \in Acting /\ LineOf(p, t, e)' /\ TurnAt(e)' = TurnAt(e)
<1> DEFINE n == e[1]
           k == e[2]
<1>1. /\ n = lg[p][t].name /\ k \in 1 .. lg[p][t].off /\ k <= Len(disk[n])
      /\ disk[n][k].turn \in Nat /\ disk[n][k].turn < turn[p]
  BY DEF LineOf, TurnAt
<1>2. /\ pc'[p][t] \in Acting /\ lg'[p][t].name = n /\ lg'[p][t].off >= lg[p][t].off
      /\ k <= Len(disk'[n]) /\ disk'[n][k] = disk[n][k]
  BY <1>1 DEF Keeps
<1>3. turn[p] \in Nat /\ turn'[p] \in Nat /\ lg[p][t].off \in Nat /\ lg'[p][t].off \in Nat
  BY DEF Types, Loggers
<1>4. k \in 1 .. lg'[p][t].off BY <1>1, <1>2, <1>3
<1>5. disk'[n][k].turn \in Nat /\ disk'[n][k].turn < turn'[p] BY <1>1, <1>2, <1>3, SMTT(60)
<1> QED BY <1>1, <1>2, <1>4, <1>5 DEF LineOf, TurnAt

\* A step that keeps the lines and adds at most one, of the current turn, keeps Lines.
LEMMA LinesStay ==
  ASSUME Types, Types', NEW p \in Proc, Lines(p),
         OwnFiles(p)' => OwnFiles(p), fault'[p] = None => fault[p] = None,
         fault'[p] = None /\ OwnFiles(p)' => Keeps(p),
         turn'[p] >= turn[p],
         \/ sched'[p] = sched[p]
         \/ \E e \in LogNames \X Nat :
              /\ sched'[p] = Append(sched[p], e)
              /\ fault'[p] = None =>
                   /\ \E t \in Tids : pc'[p][t] \in Acting /\ LineOf(p, t, e)'
                   /\ TurnAt(e)' = turn[p]
  PROVE  Lines(p)'
<1> SUFFICES ASSUME fault'[p] = None, OwnFiles(p)'
             PROVE  /\ \A i \in 1 .. Len(sched'[p]) :
                         \E t \in Tids : pc'[p][t] \in Acting /\ LineOf(p, t, sched[p][i])'
                    /\ \A i \in 2 .. Len(sched'[p]) :
                         TurnAt(sched[p][i - 1])' < TurnAt(sched[p][i])'
  BY DEF Lines
<1>1. Keeps(p) OBVIOUS
<1>2. sched[p] \in Seq(LogNames \X Nat) /\ Len(sched[p]) \in Nat BY DEF Types
<1>3. /\ \A i \in 1 .. Len(sched[p]) :
           \E t \in Tids : pc[p][t] \in Acting /\ LineOf(p, t, sched[p][i])
      /\ \A i \in 2 .. Len(sched[p]) : TurnAt(sched[p][i - 1]) < TurnAt(sched[p][i])
  BY DEF Lines
<1>4. ASSUME NEW i \in 1 .. Len(sched[p]), NEW e, e = sched[p][i]
      PROVE  /\ \E t \in Tids : pc'[p][t] \in Acting /\ LineOf(p, t, e)'
             /\ TurnAt(e)' = TurnAt(e) /\ TurnAt(e) < turn[p]
  <2>1. e \in LogNames \X Nat BY <1>2, <1>4
  <2>2. PICK t \in Tids : pc[p][t] \in Acting /\ LineOf(p, t, e) BY <1>3, <1>4
  <2>3. pc'[p][t] \in Acting /\ LineOf(p, t, e)' /\ TurnAt(e)' = TurnAt(e)
    BY <1>1, <2>1, <2>2, LineStays
  <2>4. TurnAt(e) < turn[p] BY <2>2 DEF LineOf
  <2> QED BY <2>3, <2>4
<1>5. CASE sched'[p] = sched[p]
  <2>1. \A i \in 2 .. Len(sched[p]) : i \in 1 .. Len(sched[p]) /\ i - 1 \in 1 .. Len(sched[p])
    BY <1>2
  <2> QED BY <1>3, <1>4, <1>5, <2>1
<1>6. ASSUME NEW e \in LogNames \X Nat, sched'[p] = Append(sched[p], e),
             \E t \in Tids : pc'[p][t] \in Acting /\ LineOf(p, t, e)',
             TurnAt(e)' = turn[p]
      PROVE  /\ \A i \in 1 .. Len(sched'[p]) :
                  \E t \in Tids : pc'[p][t] \in Acting /\ LineOf(p, t, sched[p][i])'
             /\ \A i \in 2 .. Len(sched'[p]) :
                  TurnAt(sched[p][i - 1])' < TurnAt(sched[p][i])'
  <2>1. /\ Len(sched'[p]) = Len(sched[p]) + 1 /\ sched'[p][Len(sched[p]) + 1] = e
        /\ \A i \in 1 .. Len(sched[p]) : sched'[p][i] = sched[p][i]
    BY <1>2, <1>6
  <2>2. ASSUME NEW i \in 1 .. Len(sched'[p])
        PROVE  \E t \in Tids : pc'[p][t] \in Acting /\ LineOf(p, t, sched[p][i])'
    <3>1. CASE i = Len(sched[p]) + 1 BY <1>6, <2>1, <3>1
    <3>2. CASE i # Len(sched[p]) + 1
      <4>1. i \in 1 .. Len(sched[p]) BY <1>2, <2>1, <3>2
      <4> QED BY <1>4, <2>1, <4>1
    <3> QED BY <3>1, <3>2
  <2>3. ASSUME NEW i \in 2 .. Len(sched'[p])
        PROVE  TurnAt(sched[p][i - 1])' < TurnAt(sched[p][i])'
    <3>1. i - 1 \in 1 .. Len(sched[p]) /\ sched'[p][i - 1] = sched[p][i - 1]
      BY <1>2, <2>1
    <3>2. /\ TurnAt(sched[p][i - 1])' = TurnAt(sched[p][i - 1])
          /\ TurnAt(sched[p][i - 1]) < turn[p]
      BY <1>4, <3>1
    <3>3. CASE i = Len(sched[p]) + 1 BY <1>6, <2>1, <3>2, <3>3
    <3>4. CASE i # Len(sched[p]) + 1
      <4>1. i \in 1 .. Len(sched[p]) /\ i \in 2 .. Len(sched[p]) BY <1>2, <2>1, <3>4
      <4>2. TurnAt(sched[p][i])' = TurnAt(sched[p][i]) BY <1>4, <2>1, <4>1
      <4> QED BY <1>3, <3>2, <4>1, <4>2
    <3> QED BY <3>3, <3>4
  <2> QED BY <2>2, <2>3
<1> QED BY <1>5, <1>6

-----------------------------------------------------------------------------
(* The steps of one thread.                                                    *)

\* Thread u of process q is the only one to open, or to write through, a log, and does
\* so behind the lines of its own log.
Writes(q, u, x) ==
  /\ pc[q][u] # "unborn" /\ fault[q] = None
  /\ \A p \in Proc, t \in Tids : <<p, t>> # <<q, u>> =>
       /\ pc'[p][t] \in Acting <=> pc[p][t] \in Acting
       /\ pc[p][t] \in Acting => lg'[p][t] = lg[p][t]
  /\ \A n \in LogNames : n # x => disk'[n] = disk[n]
  /\ pc'[q][u] \in Acting /\ lg'[q][u].name = x
  /\ pc[q][u] \in Acting =>
       /\ lg'[q][u].off >= lg[q][u].off
       /\ \A k \in 1 .. lg[q][u].off : k <= Len(disk[x]) =>
            k <= Len(disk'[x]) /\ disk'[x][k] = disk[x][k]
  /\ \A p \in Proc : p # q =>
       turn'[p] = turn[p] /\ sched'[p] = sched[p] /\ fault'[p] = fault[p]

\* The step takes a turn and logs its number, or logs no line.
Logs(q, u, x) ==
  \/ sched'[q] = sched[q] /\ turn'[q] = turn[q]
  \/ /\ turn'[q] = turn[q] + 1
     /\ \E k \in Nat :
          /\ sched'[q] = Append(sched[q], <<x, k>>)
          /\ fault'[q] = None => /\ k \in 1 .. lg'[q][u].off /\ k <= Len(disk'[x])
                                 /\ disk'[x][k].turn = turn[q]

\* Such a step keeps the lines of every process that owns its files.
LEMMA WritesKeep ==
  ASSUME LogInv, NEW q \in Proc, NEW u \in Tids, NEW x \in LogNames,
         x = getLogFilename(q, LogTid(q, u)), Writes(q, u, x),
         NEW p \in Proc, OwnFiles(p)
  PROVE  Keeps(p)
<1> SUFFICES ASSUME NEW t \in Tids, pc[p][t] \in Acting
             PROVE  /\ pc'[p][t] \in Acting /\ lg'[p][t].name = lg[p][t].name
                    /\ lg'[p][t].off >= lg[p][t].off
                    /\ \A k \in 1 .. lg[p][t].off : k <= Len(disk[lg[p][t].name]) =>
                         /\ k <= Len(disk'[lg[p][t].name])
                         /\ disk'[lg[p][t].name][k] = disk[lg[p][t].name][k]
  BY DEF Keeps
<1>1. lg[p][t].name \in LogNames /\ lg[p][t].off \in Nat
  BY DEF LogInv, Types, Loggers
<1>2. lg[p][t].name = getLogFilename(p, LogTid(p, t)) BY DEF LogInv, Names
<1>3. CASE <<p, t>> = <<q, u>>
  <2>1. p = q /\ t = u BY <1>3
  <2> QED BY <1>2, <2>1 DEF Writes
<1>4. CASE <<p, t>> # <<q, u>>
  <2>1. lg[p][t].name # x BY <1>4, Unshared DEF Writes
  <2>2. disk'[lg[p][t].name] = disk[lg[p][t].name] BY <1>1, <2>1 DEF Writes
  <2>3. lg'[p][t] = lg[p][t] /\ pc'[p][t] \in Acting BY <1>4 DEF Writes
  <2> QED BY <1>1, <2>2, <2>3
<1> QED BY <1>3, <1>4

\* Such a step keeps the invariant.
LEMMA WritesInv ==
  ASSUME LogInv, Types', Control', NEW q \in Proc, NEW u \in Tids, NEW x \in LogNames,
         x = getLogFilename(q, LogTid(q, u)), Writes(q, u, x), Logs(q, u, x),
         forker' = forker, opts' = opts
  PROVE  LogInv'
<1>1. Names'
  <2> SUFFICES ASSUME NEW p \in Proc, NEW t \in Tids, pc'[p][t] \in Acting
               PROVE  lg'[p][t].name = getLogFilename(p, LogTid(p, t))'
    BY DEF Names
  <2>1. getLogFilename(p, LogTid(p, t))' = getLogFilename(p, LogTid(p, t))
    BY DEF getLogFilename, LogTid
  <2>2. CASE <<p, t>> = <<q, u>>
    <3>1. p = q /\ t = u BY <2>2
    <3> QED BY <2>1, <3>1 DEF Writes
  <2>3. CASE <<p, t>> # <<q, u>>
    BY <2>1, <2>3 DEF Writes, LogInv, Names
  <2> QED BY <2>2, <2>3
<1>2. \A p \in Proc : OwnFiles(p)' => OwnFiles(p) BY DEF OwnFiles
<1>3. ASSUME NEW p \in Proc PROVE Lines(p)'
  <2>1. Types /\ Lines(p) BY DEF LogInv
  <2>2. turn[p] \in Nat /\ turn[q] \in Nat BY <2>1 DEF Types
  <2>3. OwnFiles(p)' => Keeps(p) BY <1>2, WritesKeep
  <2>4. CASE p # q
    <3>1. turn'[p] = turn[p] /\ sched'[p] = sched[p] /\ fault'[p] = fault[p]
      BY <2>4 DEF Writes
    <3> QED BY <1>2, <2>1, <2>2, <2>3, <3>1, LinesStay
  <2>5. CASE p = q
    <3>1. fault[q] = None /\ lg'[q][u].name = x /\ pc'[q][u] \in Acting BY DEF Writes
    <3>2. CASE sched'[q] = sched[q] /\ turn'[q] = turn[q]
      BY <1>2, <2>1, <2>2, <2>3, <2>5, <3>1, <3>2, LinesStay
    <3>3. ASSUME NEW k \in Nat, turn'[q] = turn[q] + 1,
                 sched'[q] = Append(sched[q], <<x, k>>),
                 fault'[q] = None => /\ k \in 1 .. lg'[q][u].off /\ k <= Len(disk'[x])
                                     /\ disk'[x][k].turn = turn[q]
          PROVE  Lines(q)'
      <4> DEFINE e == <<x, k>>
      <4>1. e \in LogNames \X Nat /\ e[1] = x /\ e[2] = k OBVIOUS
      <4> HIDE DEF e
      <4>2. fault'[q] = None => LineOf(q, u, e)' /\ TurnAt(e)' = turn[q]
        BY <2>2, <3>1, <3>3, <4>1 DEF LineOf, TurnAt
      <4>3. turn'[q] >= turn[q] BY <2>2, <3>3
      <4>4. sched'[q] = Append(sched[q], e) BY <3>3 DEF e
      <4> QED BY <1>2, <2>1, <2>3, <2>5, <3>1, <4>1, <4>2, <4>3, <4>4, LinesStay
    <3> QED BY <2>5, <3>2, <3>3 DEF Logs
  <2> QED BY <2>4, <2>5
<1> QED BY <1>1, <1>3 DEF LogInv

\* A sequence of one record is a file.
LEMMA OneRecord == \A r : IsLog(<<r>>) /\ Len(<<r>>) = 1 /\ <<r>>[1] = r
<1> TAKE r
<1>1. <<r>> = [i \in 1 .. 1 |-> <<r>>[i]] OBVIOUS
<1> QED BY <1>1, FileOf

\* d is the disk but for file x.
DiskBut(d, x) == \A n \in LogNames : n # x => d[n] = disk[n]

\* logSync() of a record r with the number of the current turn.
Synced(q, u, l, d, r) ==
  /\ turn' = [turn EXCEPT ![q] = @ + 1] /\ Write(q, u, l, d, <<r>>)
  /\ sched' = [sched EXCEPT ![q] = Append(@, <<l.name, l.off + 1>>)]

\* logSync() through a log that is the thread's own, on a disk that differs from the
\* current one in that log at most.
LEMMA LogSyncWrites ==
  ASSUME LogInv, NEW q \in Proc, NEW u \in Tids, NEW l \in Loggers, NEW d, IsDisk(d),
         NEW r, r.turn = turn[q], Synced(q, u, l, d, r),
         pc[q][u] # "unborn", fault[q] = None,
         pc[q][u] \in Acting => l = lg[q][u] /\ d = disk,
         DiskBut(d, l.name),
         pc'[q][u] \in Acting,
         \A p \in Proc, t \in Tids : <<p, t>> # <<q, u>> =>
           pc'[p][t] \in Acting <=> pc[p][t] \in Acting
  PROVE  /\ Writes(q, u, l.name) /\ Logs(q, u, l.name)
         /\ IsDisk(disk') /\ lg' \in [Proc -> [Tids -> Loggers]]
         /\ fault' \in [Proc -> Faults] /\ turn' \in [Proc -> Nat]
         /\ sched' \in [Proc -> Seq(LogNames \X Nat)]
<1> DEFINE e == <<l.name, l.off + 1>>
<1>1. /\ turn' = [turn EXCEPT ![q] = @ + 1] /\ Write(q, u, l, d, <<r>>)
      /\ sched' = [sched EXCEPT ![q] = Append(@, e)]
  BY DEF Synced
<1>2. r.turn = turn[q] OBVIOUS
<1>3. PICK recs : /\ recs = <<r>> /\ IsLog(recs) /\ Len(recs) = 1 /\ recs[1] = r
                  /\ Write(q, u, l, d, recs)
  BY <1>1, OneRecord
<1>4. Types BY DEF LogInv
<1>5. Written(q, u, l, d, recs) BY <1>3, <1>4, WriteEffect
<1>6. l.off \in Nat /\ l.name \in LogNames BY DEF Loggers
<1>7. turn \in [Proc -> Nat] /\ sched \in [Proc -> Seq(LogNames \X Nat)] BY <1>4 DEF Types
<1>8. /\ turn' \in [Proc -> Nat] /\ turn'[q] = turn[q] + 1
      /\ \A p \in Proc : p # q => turn'[p] = turn[p]
  BY <1>1, <1>7
<1>9. e \in LogNames \X Nat BY <1>6
<1>10. /\ sched' \in [Proc -> Seq(LogNames \X Nat)] /\ sched'[q] = Append(sched[q], e)
       /\ \A p \in Proc : p # q => sched'[p] = sched[p]
  <2> HIDE DEF e
  <2>1. Append(sched[q], e) \in Seq(LogNames \X Nat) BY <1>7, <1>9
  <2> QED BY <1>1, <1>7, <2>1
<1>11. Writes(q, u, l.name) BY <1>5, <1>8, <1>10, SMTT(60) DEF Writes, Written, DiskBut
<1>12. Logs(q, u, l.name)
  <2>1. l.off + 1 \in Nat /\ l.off + 1 \in 1 .. l.off + 1 /\ 1 \in 1 .. 1 BY <1>6
  <2>2. fault'[q] = None => /\ lg'[q][u].off = l.off + 1 /\ l.off + 1 <= Len(disk'[l.name])
                            /\ disk'[l.name][l.off + 1] = r
    BY <1>3, <1>5, <2>1 DEF Written
  <2>3. fault'[q] = None => /\ l.off + 1 \in 1 .. lg'[q][u].off
                            /\ l.off + 1 <= Len(disk'[l.name])
                            /\ disk'[l.name][l.off + 1].turn = turn[q]
    BY <1>2, <2>1, <2>2
  <2> QED BY <1>8, <1>10, <2>1, <2>3 DEF Logs
<1> QED BY <1>5, <1>8, <1>10, <1>11, <1>12 DEF Written

\* The same for the records of instrumented code, which take no turn.
LEMMA RecordWrites ==
  ASSUME LogInv, NEW q \in Proc, NEW u \in Tids, NEW recs, IsLog(recs),
         Write(q, u, lg[q][u], disk, recs), turn' = turn, sched' = sched,
         pc[q][u] \in Acting, fault[q] = None, pc'[q][u] \in Acting,
         \A p \in Proc, t \in Tids : <<p, t>> # <<q, u>> =>
           pc'[p][t] \in Acting <=> pc[p][t] \in Acting
  PROVE  /\ Writes(q, u, lg[q][u].name) /\ Logs(q, u, lg[q][u].name)
         /\ IsDisk(disk') /\ lg' \in [Proc -> [Tids -> Loggers]]
         /\ fault' \in [Proc -> Faults]
<1>1. PICK l, d : l = lg[q][u] /\ d = disk OBVIOUS
<1>2. Types /\ IsDisk(d) /\ l \in Loggers BY <1>1 DEF LogInv, Types
<1>3. Write(q, u, l, d, recs) BY <1>1 DEF Write
<1>4. Written(q, u, l, d, recs) BY <1>2, <1>3, WriteEffect
<1>5. pc[q][u] # "unborn" BY DEF Acting
<1>6. Writes(q, u, l.name) BY <1>1, <1>4, <1>5 DEF Writes, Written
<1> QED BY <1>1, <1>4, <1>6 DEF Logs, Written

\* A thread that has begun, or begins, goes to another point of its own.
LEMMA PcStep ==
  ASSUME LogInv, NEW q \in Proc, NEW u \in Tids, NEW at \in Acting,
         pc[q][u] \in Acting \cup {"new"}, pc' = [pc EXCEPT ![q][u] = at],
         nthread' = nthread, forker' = forker
  PROVE  /\ pc' \in [Proc -> [Tids -> Pcs]] /\ Control'
         /\ pc[q][u] # "unborn" /\ pc'[q][u] \in Acting
         /\ \A p \in Proc, t \in Tids : <<p, t>> # <<q, u>> =>
              pc'[p][t] \in Acting <=> pc[p][t] \in Acting
<1>1. pc \in [Proc -> [Tids -> Pcs]] BY DEF LogInv, Types
<1>2. at \in Pcs /\ at \notin {"unborn", "new", "forked"} BY DEF Acting, Pcs
<1>3. /\ pc' \in [Proc -> [Tids -> Pcs]] /\ pc'[q][u] = at
      /\ \A p \in Proc, t \in Tids : <<p, t>> # <<q, u>> => pc'[p][t] = pc[p][t]
  BY <1>1, <1>2
<1>4. pc[q][u] # "unborn" /\ pc[q][u] # "forked" BY DEF Acting
<1>5. q = "child" /\ u = Main => pc[q][u] # "new" BY DEF LogInv, Control
<1>6. "child" \in Proc /\ "parent" \in Proc /\ "child" # "parent" /\ Main \in Tids
  BY LogFacts DEF Proc
<1>7. /\ \A p \in Proc, t \in Tids : pc'[p][t] # "unborn" => t < nthread'[p]
      /\ \A t \in Tids : pc'["parent"][t] # "forked"
      /\ \A t \in Tids : t # Main => pc'["child"][t] # "forked"
      /\ pc'["child"][Main] # "new"
  BY <1>2, <1>3, <1>4, <1>6 DEF LogInv, Control
<1>8. /\ pc'["child"][Main] = "unborn" <=> pc["child"][Main] = "unborn"
      /\ pc'["child"][Main] = "forked" => pc["child"][Main] = "forked"
  BY <1>2, <1>3, <1>4, <1>6
<1>9. pc'["child"][Main] \in {"unborn", "forked"} =>
        \A t \in Tids : t # Main => pc'["child"][t] = "unborn"
  BY <1>2, <1>3, <1>4, <1>6, <1>8 DEF LogInv, Control
<1>10. Control' BY <1>7, <1>8, <1>9 DEF LogInv, Control
<1> QED BY <1>3, <1>4, <1>10

\* A step of a thread that logs its turn keeps the invariant.
LEMMA SyncStep ==
  ASSUME LogInv, NEW q \in Proc, NEW u \in Tids, NEW l \in Loggers, NEW d, IsDisk(d),
         NEW r, r.turn = turn[q], Synced(q, u, l, d, r),
         l.name = getLogFilename(q, LogTid(q, u)), fault[q] = None,
         pc[q][u] \in Acting => l = lg[q][u] /\ d = disk,
         DiskBut(d, l.name),
         NEW at \in Acting, pc[q][u] \in Acting \cup {"new"},
         pc' = [pc EXCEPT ![q][u] = at],
         nthread' = nthread, forker' = forker, opts' = opts
  PROVE  LogInv'
<1>1. /\ pc' \in [Proc -> [Tids -> Pcs]] /\ Control'
      /\ pc[q][u] # "unborn" /\ pc'[q][u] \in Acting
      /\ \A p \in Proc, t \in Tids : <<p, t>> # <<q, u>> =>
           pc'[p][t] \in Acting <=> pc[p][t] \in Acting
  BY PcStep
<1>2. /\ Writes(q, u, l.name) /\ Logs(q, u, l.name)
      /\ IsDisk(disk') /\ lg' \in [Proc -> [Tids -> Loggers]]
      /\ fault' \in [Proc -> Faults] /\ turn' \in [Proc -> Nat]
      /\ sched' \in [Proc -> Seq(LogNames \X Nat)]
  BY <1>1, LogSyncWrites
<1>3. Types' BY <1>1, <1>2 DEF LogInv, Types
<1>4. l.name \in LogNames BY DEF Loggers
<1> QED BY <1>1, <1>2, <1>3, <1>4, WritesInv

\* So does a step that logs other records.
LEMMA RecordStep ==
  ASSUME LogInv, NEW q \in Proc, NEW u \in Tids, NEW recs, IsLog(recs),
         Write(q, u, lg[q][u], disk, recs), turn' = turn, sched' = sched,
         pc[q][u] \in Acting, fault[q] = None,
         NEW at \in Acting, pc' = [pc EXCEPT ![q][u] = at],
         nthread' = nthread, forker' = forker, opts' = opts
  PROVE  LogInv'
<1>1. /\ pc' \in [Proc -> [Tids -> Pcs]] /\ Control'
      /\ pc[q][u] # "unborn" /\ pc'[q][u] \in Acting
      /\ \A p \in Proc, t \in Tids : <<p, t>> # <<q, u>> =>
           pc'[p][t] \in Acting <=> pc[p][t] \in Acting
  BY PcStep
<1>2. PICK x : x = lg[q][u].name OBVIOUS
<1>3. /\ Writes(q, u, x) /\ Logs(q, u, x)
      /\ IsDisk(disk') /\ lg' \in [Proc -> [Tids -> Loggers]]
      /\ fault' \in [Proc -> Faults]
  BY <1>1, <1>2, RecordWrites
<1>4. Types' BY <1>1, <1>3 DEF LogInv, Types
<1>5. x \in LogNames /\ x = getLogFilename(q, LogTid(q, u))
  BY <1>2 DEF LogInv, Types, Names, Loggers
<1> QED BY <1>1, <1>3, <1>4, <1>5, WritesInv

\* What of a line the proofs use.
IsLine(r, op, insid, n) ==
  r.op = op /\ r.turn = n /\ (opts.type = "bin" => r.insid = setInsid(insid))

\* SyncRec makes such a line.
LEMMA SyncRecProps ==
  \A op, insid, n, after : IsLine(SyncRec(op, insid, n, after), op, insid, n)
<1> TAKE op, insid, n, after
<1> QED BY DEF SyncRec, IsLine

\* logSync() through the thread's own log.
LEMMA OwnSync ==
  ASSUME LogInv, NEW q \in Proc, NEW u \in Tids, pc[q][u] \in Acting,
         NEW op, NEW insid, NEW after, LogSync(q, u, lg[q][u], disk, op, insid, after)
  PROVE  \E l \in Loggers : \E d, r :
           /\ l = lg[q][u] /\ d = disk /\ IsDisk(d)
           /\ r.turn = turn[q] /\ Synced(q, u, l, d, r)
           /\ l.name = getLogFilename(q, LogTid(q, u))
           /\ r = SyncRec(op, insid, turn[q], after)
<1>1. PICK l, d, r : l = lg[q][u] /\ d = disk /\ r = SyncRec(op, insid, turn[q], after)
  OBVIOUS
<1>2. Synced(q, u, l, d, r) BY <1>1, Zenon DEF LogSync, Synced, Write
<1>3. r.turn = turn[q]
  <2>1. IsLine(r, op, insid, turn[q]) BY <1>1, SyncRecProps
  <2> QED BY <2>1 DEF IsLine
<1>4. l \in Loggers /\ IsDisk(d) /\ l.name = getLogFilename(q, LogTid(q, u))
  BY <1>1 DEF LogInv, Types, Names
<1> QED BY <1>1, <1>2, <1>3, <1>4

-----------------------------------------------------------------------------
(* The actions.                                                                *)

\* The log a thread opens is named after it: no other thread writes there.
LEMMA ThreadBeginInv ==
  ASSUME LogInv, NEW p \in Proc, NEW t \in Tids, ThreadBegin(p, t)
  PROVE  LogInv'
<1>1. PICK name, l, d, r, at :
        /\ name = getLogFilename(p, t) /\ l = NewLogger(name)
        /\ d = [disk EXCEPT ![name] = Opened(@)]
        /\ r = SyncRec("tern_thread_begin", INVALID_INSID, turn[p], TRUE)
        /\ at = IF t = Main /\ opts.idle THEN "spawn" ELSE "run"
  OBVIOUS
<1>2. /\ fault[p] = None /\ pc[p][t] = "new" /\ pc' = [pc EXCEPT ![p][t] = at]
      /\ nthread' = nthread /\ forker' = forker /\ opts' = opts
  BY <1>1 DEF ThreadBegin, Runs, GoTo, Static
<1>3. Synced(p, t, l, d, r)
  BY <1>1, Zenon DEF ThreadBegin, LogSync, Synced, Write
<1>4. r.turn = turn[p] BY <1>1, Zenon DEF SyncRec
<1>5. LogTid(p, t) = t BY <1>2 DEF LogInv, Control, LogTid
<1>6. name \in LogNames BY <1>1 DEF getLogFilename, LogNames
<1>7. IsDisk(disk) /\ IsLog(disk[name]) BY <1>6 DEF LogInv, Types, IsDisk
<1>8. IsLog(Opened(disk[name])) /\ StartOffset \in Nat BY <1>7, OpenedProps
<1>9. IsDisk(d) /\ \A n \in LogNames : n # name => d[n] = disk[n]
  <2>1. PICK f, e : f = Opened(disk[name]) /\ e = disk OBVIOUS
  <2>2. d = [e EXCEPT ![name] = f] /\ IsDisk(e) /\ IsLog(f) BY <1>1, <1>7, <1>8, <2>1
  <2>3. IsDisk(d) BY <1>6, <2>2, DiskExcept
  <2>4. \A n \in LogNames : n # name => d[n] = e[n] BY <1>6, <2>2, DiskExcept
  <2> QED BY <2>1, <2>3, <2>4
<1>10. l \in Loggers /\ l.name = name BY <1>1, <1>6, <1>8 DEF NewLogger, Loggers
<1>11. /\ at \in Acting /\ pc[p][t] \notin Acting /\ pc[p][t] \in Acting \cup {"new"}
       /\ l.name = getLogFilename(p, LogTid(p, t))
       /\ DiskBut(d, l.name)
  BY <1>1, <1>2, <1>5, <1>9, <1>10 DEF Acting, DiskBut
<1> QED BY <1>2, <1>3, <1>4, <1>9, <1>10, <1>11, SyncStep

\* A thread with a log writes a line and goes on.
LEMMA LineStep ==
  ASSUME LogInv, NEW p \in Proc, NEW t \in Tids, pc[p][t] \in Acting, fault[p] = None,
         NEW op, NEW insid, NEW after, LogSync(p, t, lg[p][t], disk, op, insid, after),
         NEW at \in Acting, pc' = [pc EXCEPT ![p][t] = at],
         nthread' = nthread, forker' = forker, opts' = opts
  PROVE  LogInv'
<1>1. PICK l \in Loggers : \E d, r :
        /\ l = lg[p][t] /\ d = disk /\ IsDisk(d)
        /\ r.turn = turn[p] /\ Synced(p, t, l, d, r)
        /\ l.name = getLogFilename(p, LogTid(p, t))
        /\ r = SyncRec(op, insid, turn[p], after)
  BY OwnSync
<1>2. PICK d, r :
        /\ l = lg[p][t] /\ d = disk /\ IsDisk(d)
        /\ r.turn = turn[p] /\ Synced(p, t, l, d, r)
        /\ l.name = getLogFilename(p, LogTid(p, t))
  BY <1>1
<1>3. DiskBut(d, l.name) BY <1>2 DEF DiskBut
<1> QED BY <1>2, <1>3, SyncStep

\* The lines of an operation, in one part or in two.
LEMMA OperateInv ==
  ASSUME LogInv, NEW p \in Proc, NEW t \in Tids,
         Operate(p, t) \/ OperateFirst(p, t) \/ OperateSecond(p, t)
  PROVE  LogInv'
<1>1. PICK op : op = work.op OBVIOUS
<1>2. pc \in [Proc -> [Tids -> Pcs]] BY DEF LogInv, Types
<1>3. "run" \in Acting /\ "wait" \in Acting BY DEF Acting
<1>4. ASSUME Operate(p, t) PROVE LogInv'
  <2>1. LogSync(p, t, lg[p][t], disk, op, InsidOf(op), TRUE)
    BY <1>1, <1>4 DEF Operate, LogEnd
  <2>2. /\ fault[p] = None /\ pc[p][t] = "run" /\ pc' = pc
        /\ nthread' = nthread /\ forker' = forker /\ opts' = opts
    BY <1>4 DEF Operate, Runs, Static
  <2>3. pc' = [pc EXCEPT ![p][t] = "run"] BY <1>2, <2>2
  <2> QED BY <1>3, <2>1, <2>2, <2>3, LineStep
<1>5. ASSUME OperateFirst(p, t) PROVE LogInv'
  <2>1. LogSync(p, t, lg[p][t], disk, op, InsidOf(op), FALSE)
    BY <1>1, <1>5 DEF OperateFirst, LogFirst
  <2>2. /\ fault[p] = None /\ pc[p][t] = "run" /\ pc' = [pc EXCEPT ![p][t] = "wait"]
        /\ nthread' = nthread /\ forker' = forker /\ opts' = opts
    BY <1>5 DEF OperateFirst, Runs, GoTo, Static
  <2> QED BY <1>3, <2>1, <2>2, LineStep
<1>6. ASSUME OperateSecond(p, t) PROVE LogInv'
  <2>1. LogSync(p, t, lg[p][t], disk, op, InsidOf(op), TRUE)
    BY <1>1, <1>6 DEF OperateSecond, LogEnd
  <2>2. /\ fault[p] = None /\ pc[p][t] = "wait" /\ pc' = [pc EXCEPT ![p][t] = "run"]
        /\ nthread' = nthread /\ forker' = forker /\ opts' = opts
    BY <1>6 DEF OperateSecond, Runs, GoTo, Static
  <2> QED BY <1>3, <2>1, <2>2, LineStep
<1> QED BY <1>4, <1>5, <1>6

\* The last line of a thread.
LEMMA ThreadEndInv ==
  ASSUME LogInv, NEW p \in Proc, NEW t \in Tids, ThreadEnd(p, t)
  PROVE  LogInv'
<1>1. PICK insid : LogSync(p, t, lg[p][t], disk, "tern_thread_end", insid, TRUE)
  BY DEF ThreadEnd, LogEnd
<1>2. /\ fault[p] = None /\ pc[p][t] \in {"run", "exit"}
      /\ pc' = [pc EXCEPT ![p][t] = "ended"]
      /\ nthread' = nthread /\ forker' = forker /\ opts' = opts
  BY DEF ThreadEnd, Runs, GoTo, Static
<1>3. "ended" \in Acting /\ pc[p][t] \in Acting BY <1>2 DEF Acting
<1> QED BY <1>1, <1>2, <1>3, LineStep

\* The records of a call are a sequence.
LEMMA CallIsLog ==
  ASSUME NEW narg \in Nat, NEW id, NEW nr
  PROVE  /\ IsLog(CallRecs(id, narg, nr))
         /\ Len(CallRecs(id, narg, nr)) = 1 + NumExtraArgsRecords(narg)
         /\ \A k \in 1 .. Len(CallRecs(id, narg, nr)) :
              CallRecs(id, narg, nr)[k].insid = setInsid(id)
<1> DEFINE n == 1 + NumExtraArgsRecords(narg)
           g == CallRecs(id, narg, nr)
<1>1. n \in Nat BY DEF NumExtraArgsRecords, MAX_INLINE_ARGS, MAX_EXTRA_ARGS
<1>2. g = [k \in 1 .. n |-> g[k]] BY DEF CallRecs
<1>3. \A k \in 1 .. n : g[k].insid = setInsid(id) BY DEF CallRecs
<1> HIDE DEF n, g
<1>4. IsLog(g) /\ Len(g) = n BY <1>1, <1>2, FileOf
<1> QED BY <1>3, <1>4 DEF n, g

\* A record of a load, a store or a basic block takes no turn.
LEMMA InstructionInv ==
  ASSUME LogInv, NEW p \in Proc, NEW t \in Tids, Instruction(p, t)
  PROVE  LogInv'
<1>1. PICK recs : recs = <<PlainRec(work.kind, work.insid)>> OBVIOUS
<1>2. IsLog(recs) BY <1>1, OneRecord
<1>3. Write(p, t, lg[p][t], disk, recs) /\ turn' = turn /\ sched' = sched
  BY <1>1 DEF Instruction
<1>4. /\ fault[p] = None /\ pc[p][t] = "run" /\ pc' = pc
      /\ nthread' = nthread /\ forker' = forker /\ opts' = opts
  BY DEF Instruction, Runs, Static
<1>5. pc' = [pc EXCEPT ![p][t] = "run"] BY <1>4 DEF LogInv, Types
<1>6. "run" \in Acting BY DEF Acting
<1> QED BY <1>2, <1>3, <1>4, <1>5, <1>6, RecordStep

\* The records of a call take no turn.
LEMMA CallInv ==
  ASSUME LogInv, work \in Works, NEW p \in Proc, NEW t \in Tids, Call(p, t)
  PROVE  LogInv'
<1> DEFINE at == IF work.noReturn THEN "exit" ELSE "call"
<1>1. PICK recs : recs = CallRecs(work.insid, work.narg, work.noReturn) OBVIOUS
<1>2. work.narg \in Nat
  BY LogAssumption DEF Works, Call, WorkOps
<1>3. IsLog(recs) BY <1>1, <1>2, CallIsLog
<1>4. Write(p, t, lg[p][t], disk, recs) /\ turn' = turn /\ sched' = sched
  BY <1>1 DEF Call
<1>5. /\ fault[p] = None /\ pc[p][t] = "run" /\ pc' = [pc EXCEPT ![p][t] = at]
      /\ nthread' = nthread /\ forker' = forker /\ opts' = opts
  BY DEF Call, Runs, GoTo, Static
<1>6. "run" \in Acting /\ at \in Acting BY DEF Acting
<1> HIDE DEF at
<1> QED BY <1>3, <1>4, <1>5, <1>6, RecordStep

\* Nor does the record of its return.
LEMMA ReturnInv ==
  ASSUME LogInv, NEW p \in Proc, NEW t \in Tids, Return(p, t)
  PROVE  LogInv'
<1>1. PICK recs : recs = <<ReturnRec(work.insid, work.narg)>> OBVIOUS
<1>2. IsLog(recs) BY <1>1, OneRecord
<1>3. Write(p, t, lg[p][t], disk, recs) /\ turn' = turn /\ sched' = sched
  BY <1>1 DEF Return
<1>4. /\ fault[p] = None /\ pc[p][t] = "call" /\ pc' = [pc EXCEPT ![p][t] = "run"]
      /\ nthread' = nthread /\ forker' = forker /\ opts' = opts
  BY DEF Return, Runs, GoTo, Static
<1>5. "run" \in Acting /\ "call" \in Acting BY DEF Acting
<1> QED BY <1>2, <1>3, <1>4, <1>5, RecordStep

\* The thread that is born has no log yet.
LEMMA CreateInv ==
  ASSUME LogInv, NEW p \in Proc, NEW t \in Tids, Create(p, t)
  PROVE  LogInv'
<1>1. PICK op, insid, after :
        /\ LogSync(p, t, lg[p][t], disk, op, insid, after)
        /\ fault[p] = None /\ pc[p][t] \in {"run", "spawn"}
  BY DEF Create, Runs, LogEnd
<1>2. PICK c : c = nthread[p] OBVIOUS
<1>3. /\ nthread[p] < MaxThread /\ nthread' = [nthread EXCEPT ![p] = @ + 1]
      /\ pc' = [pc EXCEPT ![p][t] = "run", ![p][c] = "new"]
      /\ forker' = forker /\ opts' = opts
  BY <1>2 DEF Create, Static
<1>4. /\ Types /\ nthread \in [Proc -> 1 .. MaxThread] /\ pc \in [Proc -> [Tids -> Pcs]]
      /\ Control /\ Names
  BY DEF LogInv, Types
<1>5. c \in Tids /\ c # Main /\ c \in Nat BY <1>2, <1>3, <1>4, LogFacts
<1>6. pc[p][c] = "unborn" /\ t # c
  <2>1. ~(c < nthread[p]) BY <1>2, <1>5
  <2>2. pc[p][c] = "unborn" BY <1>4, <1>5, <2>1 DEF Control
  <2> QED BY <1>1, <2>2
<1>7. /\ pc' \in [Proc -> [Tids -> Pcs]] /\ pc'[p][t] = "run" /\ pc'[p][c] = "new"
      /\ \A q \in Proc, u \in Tids :
           <<q, u>> # <<p, t>> /\ <<q, u>> # <<p, c>> => pc'[q][u] = pc[q][u]
  BY <1>3, <1>4, <1>5, <1>6 DEF Pcs
<1>8. /\ nthread' \in [Proc -> 1 .. MaxThread] /\ nthread'[p] = nthread[p] + 1
      /\ \A q \in Proc : q # p => nthread'[q] = nthread[q]
  BY <1>3, <1>4, LogFacts
<1>9. /\ pc[p][t] \in Acting /\ pc[p][t] # "unborn" /\ pc'[p][t] \in Acting
      /\ \A q \in Proc, u \in Tids : <<q, u>> # <<p, t>> =>
           pc'[q][u] \in Acting <=> pc[q][u] \in Acting
  BY <1>1, <1>6, <1>7 DEF Acting
<1>10. "child" \in Proc /\ "parent" \in Proc /\ "child" # "parent" /\ Main \in Tids
       /\ Tids \subseteq Nat
  BY LogFacts DEF Proc
<1>11. Control'
  <2>1. \A q \in Proc, u \in Tids : pc'[q][u] # "unborn" => u < nthread'[q]
    <3> SUFFICES ASSUME NEW q \in Proc, NEW u \in Tids, pc'[q][u] # "unborn"
                 PROVE  u < nthread'[q]
      OBVIOUS
    <3>1. nthread[q] \in Nat /\ nthread'[q] >= nthread[q] /\ u \in Nat
      BY <1>4, <1>8, <1>10
    <3>2. CASE <<q, u>> = <<p, c>>
      <4>1. q = p /\ u = c BY <3>2
      <4> QED BY <1>2, <1>5, <1>8, <4>1
    <3>3. CASE <<q, u>> # <<p, c>>
      <4>1. pc[q][u] # "unborn" BY <1>7, <1>9, <3>3
      <4>2. u < nthread[q] BY <1>4, <4>1 DEF Control
      <4> QED BY <1>4, <1>8, <3>1, <4>2
    <3> QED BY <3>2, <3>3
  <2>2. /\ \A u \in Tids : pc'["parent"][u] # "forked"
        /\ \A u \in Tids : u # Main => pc'["child"][u] # "forked"
        /\ pc'["child"][Main] # "new"
    BY <1>4, <1>5, <1>7, <1>10 DEF Control
  <2>3. /\ pc'["child"][Main] = "unborn" <=> pc["child"][Main] = "unborn"
        /\ pc'["child"][Main] \in {"unborn", "forked"} =>
             p = "parent" /\ pc["child"][Main] \in {"unborn", "forked"}
    BY <1>1, <1>4, <1>5, <1>7, <1>10 DEF Control, Proc
  <2>4. pc'["child"][Main] \in {"unborn", "forked"} =>
          \A u \in Tids : u # Main => pc'["child"][u] = "unborn"
    BY <1>4, <1>7, <1>10, <2>3 DEF Control
  <2> QED BY <1>3, <1>4, <2>1, <2>2, <2>3, <2>4 DEF Control
<1>12. PICK l \in Loggers : \E d, r :
        /\ l = lg[p][t] /\ d = disk /\ IsDisk(d)
        /\ r.turn = turn[p] /\ Synced(p, t, l, d, r)
        /\ l.name = getLogFilename(p, LogTid(p, t))
        /\ r = SyncRec(op, insid, turn[p], after)
  BY <1>1, <1>9, OwnSync
<1>13. PICK d, r :
        /\ l = lg[p][t] /\ d = disk /\ IsDisk(d)
        /\ r.turn = turn[p] /\ Synced(p, t, l, d, r)
        /\ l.name = getLogFilename(p, LogTid(p, t))
  BY <1>12
<1>14. DiskBut(d, l.name) BY <1>13 DEF DiskBut
<1>15. /\ Writes(p, t, l.name) /\ Logs(p, t, l.name)
       /\ IsDisk(disk') /\ lg' \in [Proc -> [Tids -> Loggers]]
       /\ fault' \in [Proc -> Faults] /\ turn' \in [Proc -> Nat]
       /\ sched' \in [Proc -> Seq(LogNames \X Nat)]
  BY <1>1, <1>9, <1>13, <1>14, LogSyncWrites
<1>16. Types' BY <1>3, <1>4, <1>7, <1>8, <1>15 DEF Types
<1>17. l.name \in LogNames BY DEF Loggers
<1> QED BY <1>3, <1>11, <1>13, <1>15, <1>16, <1>17, WritesInv

\* The deleted log keeps its lines.
LEMMA DeleteLoggerWrites ==
  ASSUME LogInv, NEW p \in Proc, NEW t \in Tids, DeleteLogger(p, t)
  PROVE  /\ Types' /\ Control' /\ pc[p][t] = "ended" /\ pc' = [pc EXCEPT ![p][t] = "gone"]
         /\ lg'[p][t].off = lg[p][t].off
         /\ \E x \in LogNames : /\ x = getLogFilename(p, LogTid(p, t))
                               /\ Writes(p, t, x) /\ Logs(p, t, x)
<1>1. PICK l, d, x : l = lg[p][t] /\ d = disk /\ x = lg[p][t].name OBVIOUS
<1>2. /\ fault[p] = None /\ pc[p][t] = "ended" /\ pc' = [pc EXCEPT ![p][t] = "gone"]
      /\ disk' = [d EXCEPT ![x] = Closed(d[x], l.off)]
      /\ lg' = [lg EXCEPT ![p][t] = [l EXCEPT !.st = "deleted"]]
      /\ nthread' = nthread /\ forker' = forker /\ opts' = opts
      /\ turn' = turn /\ sched' = sched /\ fault' = fault
  BY <1>1 DEF DeleteLogger, Runs, GoTo, Static
<1>3. /\ Types /\ lg \in [Proc -> [Tids -> Loggers]] /\ l \in Loggers /\ IsDisk(d)
      /\ Names
  BY <1>1 DEF LogInv, Types
<1>4. x \in LogNames /\ x = l.name /\ l.off \in Nat /\ IsLog(d[x])
  BY <1>1, <1>3 DEF Loggers, IsDisk
<1>5. "ended" \in Acting /\ "gone" \in Acting BY DEF Acting
<1>6. /\ pc' \in [Proc -> [Tids -> Pcs]] /\ Control'
      /\ pc[p][t] # "unborn" /\ pc'[p][t] \in Acting
      /\ \A q \in Proc, u \in Tids : <<q, u>> # <<p, t>> =>
           pc'[q][u] \in Acting <=> pc[q][u] \in Acting
  BY <1>2, <1>5, PcStep, ZenonT(30)
<1>7. PICK g : g = Closed(d[x], l.off) OBVIOUS
<1>8. IsLog(g) /\ \A k \in 1 .. l.off : k <= Len(d[x]) => k <= Len(g) /\ g[k] = d[x][k]
  BY <1>4, <1>7, ClosedProps
<1>9. IsDisk(disk') /\ disk'[x] = g
  <2>1. disk' = [d EXCEPT ![x] = g] BY <1>2, <1>7
  <2>2. IsDisk([d EXCEPT ![x] = g]) BY <1>3, <1>4, <1>8, DiskExcept
  <2>3. [d EXCEPT ![x] = g][x] = g BY <1>3, <1>4 DEF IsDisk
  <2> QED BY <2>1, <2>2, <2>3
<1>10. \A n \in LogNames : n # x => disk'[n] = d[n] BY <1>2, <1>3 DEF IsDisk
<1>11. PICK m : m = [l EXCEPT !.st = "deleted"] OBVIOUS
<1>12. m \in Loggers /\ m.name = x /\ m.off = l.off BY <1>3, <1>4, <1>11 DEF Loggers
<1>13. /\ lg' \in [Proc -> [Tids -> Loggers]] /\ lg'[p][t] = m
       /\ \A q \in Proc, u \in Tids : <<q, u>> # <<p, t>> => lg'[q][u] = lg[q][u]
  BY <1>2, <1>3, <1>11, <1>12
<1>14. Writes(p, t, x)
  <2>1. /\ lg'[p][t].name = x /\ lg'[p][t].off >= lg[p][t].off
    BY <1>1, <1>4, <1>12, <1>13
  <2>2. \A k \in 1 .. lg[p][t].off : k <= Len(disk[x]) =>
          k <= Len(disk'[x]) /\ disk'[x][k] = disk[x][k]
    BY <1>1, <1>8, <1>9
  <2> QED BY <1>1, <1>2, <1>6, <1>10, <1>13, <2>1, <2>2 DEF Writes
<1>15. Logs(p, t, x) BY <1>2 DEF Logs
<1>16. Types' BY <1>2, <1>3, <1>6, <1>9, <1>13 DEF Types
<1>17. x = getLogFilename(p, LogTid(p, t)) BY <1>1, <1>2, <1>3, <1>5 DEF Names
<1>18. lg'[p][t].off = lg[p][t].off BY <1>1, <1>12, <1>13
<1> QED BY <1>2, <1>4, <1>6, <1>14, <1>15, <1>16, <1>17, <1>18

\* Deleting a logger keeps the invariant.
LEMMA DeleteLoggerInv ==
  ASSUME LogInv, NEW p \in Proc, NEW t \in Tids, DeleteLogger(p, t)
  PROVE  LogInv'
<1>1. PICK x \in LogNames : /\ x = getLogFilename(p, LogTid(p, t))
                            /\ Writes(p, t, x) /\ Logs(p, t, x)
  BY DeleteLoggerWrites
<1>2. Types' /\ Control' BY DeleteLoggerWrites
<1>3. forker' = forker /\ opts' = opts BY DEF DeleteLogger, Static
<1> QED BY <1>1, <1>2, <1>3, WritesInv

\* A turn without a line leaves a gap in the numbers, which still increase.
LEMMA SilentTurnInv ==
  ASSUME LogInv, NEW q \in Proc, SilentTurn(q)
  PROVE  LogInv'
<1>1. /\ turn' = [turn EXCEPT ![q] = @ + 1]
      /\ UNCHANGED <<opts, nthread, pc, lg, disk, fault, forker, sched>>
  BY DEF SilentTurn, Static
<1>2. Types BY DEF LogInv
<1>3. turn' \in [Proc -> Nat] /\ \A p \in Proc : turn'[p] >= turn[p]
  BY <1>1, <1>2 DEF Types
<1>4. Types' BY <1>1, <1>2, <1>3 DEF Types, IsDisk, IsLog
<1>5. Control' /\ Names'
  BY <1>1 DEF LogInv, Control, Names, getLogFilename, LogTid
<1>6. ASSUME NEW p \in Proc PROVE Lines(p)'
  <2>1. Keeps(p)
    <3>1. \A t \in Tids : lg[p][t].off \in Nat BY <1>2 DEF Types, Loggers
    <3> QED BY <1>1, <3>1 DEF Keeps
  <2>2. OwnFiles(p)' => OwnFiles(p) BY <1>1 DEF OwnFiles
  <2>3. Lines(p) BY DEF LogInv
  <2> QED BY <1>1, <1>2, <1>3, <1>4, <2>1, <2>2, <2>3, LinesStay
<1> QED BY <1>4, <1>5, <1>6 DEF LogInv

\* A process of which no thread has begun has logged nothing.
LEMMA NoLines ==
  ASSUME LogInv, NEW p \in Proc, fault[p] = None, OwnFiles(p),
         \A t \in Tids : pc[p][t] \notin Acting
  PROVE  Len(sched[p]) = 0
<1>1. Len(sched[p]) \in Nat BY DEF LogInv, Types
<1>2. Len(sched[p]) # 0 => 1 \in 1 .. Len(sched[p]) BY <1>1
<1> QED BY <1>2 DEF LogInv, Lines

\* The fork: the parent's line is its own; the child has logged nothing.
LEMMA ForkInv ==
  ASSUME LogInv, NEW t \in Tids, Fork(t)
  PROVE  LogInv'
<1>1. PICK l, d, x, r : /\ l = lg["parent"][t] /\ d = disk /\ x = l.name
                        /\ r = SyncRec("fork", InsidOf("fork"), turn["parent"], TRUE)
  OBVIOUS
<1>2. PICK recs : /\ recs = <<r>> /\ IsLog(recs) /\ Len(recs) = 1 /\ recs[1] = r
  BY OneRecord
<1>3. PICK f : f = WriteFault(l, d[x], recs) OBVIOUS
<1>4. /\ forker = None /\ fault["parent"] = None /\ pc["parent"][t] = "run"
      /\ fault' = [fault EXCEPT !["parent"] = f]
      /\ disk' = IF f = None THEN [d EXCEPT ![x] = PutAt(d[x], l.off, recs)] ELSE d
      /\ lg' = [lg EXCEPT !["parent"][t].off = IF f = None THEN @ + 1 ELSE @,
                          !["child"][Main] = l]
      /\ sched' = [sched EXCEPT !["parent"] = Append(@, <<x, l.off + 1>>)]
      /\ turn' = [turn EXCEPT !["parent"] = @ + 1, !["child"] = turn["parent"]]
      /\ pc' = [pc EXCEPT !["child"][Main] = "forked"]
      /\ forker' = t /\ nthread' = nthread /\ opts' = opts
  BY <1>1, <1>2, <1>3 DEF Fork, Runs, Static
<1>5. /\ "child" \in Proc /\ "parent" \in Proc /\ "child" # "parent" /\ Main \in Tids
      /\ t # None /\ Tids \subseteq Nat /\ \A p \in Proc : p # "parent" => p = "child"
  BY LogFacts DEF Proc
<1>6. /\ Types /\ Control /\ Names /\ lg \in [Proc -> [Tids -> Loggers]]
      /\ l \in Loggers /\ IsDisk(d) /\ pc \in [Proc -> [Tids -> Pcs]]
      /\ turn \in [Proc -> Nat] /\ fault \in [Proc -> Faults]
      /\ sched \in [Proc -> Seq(LogNames \X Nat)]
  BY <1>1, <1>5 DEF LogInv, Types
<1>7. x \in LogNames /\ l.off \in Nat /\ IsLog(d[x]) /\ Len(d[x]) \in Nat
  BY <1>1, <1>6 DEF Loggers, IsDisk, IsLog
<1>8. \A u \in Tids : pc["child"][u] = "unborn"
  BY <1>4, <1>6 DEF Control
\* the file and the log of the parent
<1>9. PICK g : g = PutAt(d[x], l.off, recs) OBVIOUS
<1>10. /\ IsLog(g) /\ Len(g) >= l.off + 1 /\ Len(g) >= Len(d[x])
       /\ \A k \in 1 .. l.off : k <= Len(d[x]) => g[k] = d[x][k]
       /\ g[l.off + 1] = r
  <2>1. PICK f0, off : f0 = d[x] /\ off = l.off /\ off \in Nat /\ IsLog(f0) BY <1>7
  <2>2. g = PutAt(f0, off, recs) BY <1>9, <2>1
  <2>3. IsPut(g, f0, off, recs) BY <1>2, <2>1, <2>2, PutAtProps
  <2>4. /\ IsLog(g) /\ Len(g) >= off + Len(recs) /\ Len(g) >= Len(f0)
        /\ \A k \in 1 .. off : k <= Len(f0) => g[k] = f0[k]
        /\ \A i \in 1 .. Len(recs) : g[off + i] = recs[i]
    BY <2>3 DEF IsPut
  <2> QED BY <1>2, <2>1, <2>4
<1>11. /\ IsDisk(disk') /\ \A n \in LogNames : n # x => disk'[n] = d[n]
       /\ f = None => disk'[x] = g
       /\ f # None => disk'[x] = d[x]
  <2>1. CASE f = None
    <3>1. disk' = [d EXCEPT ![x] = g] BY <1>4, <1>9, <2>1
    <3>2. IsDisk([d EXCEPT ![x] = g]) BY <1>6, <1>7, <1>10, DiskExcept
    <3>3. IsDisk(disk') BY <3>1, <3>2
    <3> QED BY <1>6, <1>7, <2>1, <3>1, <3>3 DEF IsDisk
  <2>2. CASE f # None BY <1>4, <1>6, <2>2
  <2> QED BY <2>1, <2>2
<1>12. PICK m : m = [l EXCEPT !.off = IF f = None THEN @ + 1 ELSE @] OBVIOUS
<1>13. m \in Loggers /\ m.name = x /\ m.off = IF f = None THEN l.off + 1 ELSE l.off
  <2>1. PICK n \in Nat : n = IF f = None THEN l.off + 1 ELSE l.off BY <1>7
  <2>2. m = [l EXCEPT !.off = n] BY <1>12, <2>1
  <2>3. m \in Loggers /\ m.name = l.name /\ m.off = n BY <1>6, <2>2 DEF Loggers
  <2> QED BY <1>1, <2>1, <2>3
<1>14. lg' = [lg EXCEPT !["parent"][t] = m, !["child"][Main] = l]
  BY <1>1, <1>4, <1>5, <1>6, <1>12
<1>15. /\ lg' \in [Proc -> [Tids -> Loggers]] /\ lg'["parent"][t] = m
       /\ \A u \in Tids : u # t => lg'["parent"][u] = lg["parent"][u]
  BY <1>5, <1>6, <1>13, <1>14
<1>16. /\ pc' \in [Proc -> [Tids -> Pcs]] /\ pc'["child"][Main] = "forked"
       /\ \A u \in Tids : u # Main => pc'["child"][u] = "unborn"
       /\ \A u \in Tids : pc'["parent"][u] = pc["parent"][u]
  BY <1>4, <1>5, <1>6, <1>8 DEF Pcs
<1>17. f \in Faults BY <1>3 DEF WriteFault, TxtFault, BinFault, Faults, Stops
<1>18. /\ fault' \in [Proc -> Faults] /\ fault'["parent"] = f
       /\ fault'["child"] = fault["child"]
  BY <1>4, <1>5, <1>6, <1>17
<1>19. /\ turn' \in [Proc -> Nat] /\ turn'["parent"] = turn["parent"] + 1
       /\ turn["parent"] \in Nat
  BY <1>4, <1>5, <1>6
<1>20. PICK e \in LogNames \X Nat : e = <<x, l.off + 1>>
  <2>1. l.off + 1 \in Nat BY <1>7
  <2>2. <<x, l.off + 1>> \in LogNames \X Nat BY <1>7, <2>1
  <2> QED BY <2>2, Zenon
<1>21. /\ sched' \in [Proc -> Seq(LogNames \X Nat)]
       /\ sched'["parent"] = Append(sched["parent"], e)
       /\ sched'["child"] = sched["child"]
  <2>1. Append(sched["parent"], e) \in Seq(LogNames \X Nat) BY <1>5, <1>6
  <2>2. sched' = [sched EXCEPT !["parent"] = Append(sched["parent"], e)] BY <1>4, <1>20
  <2> QED BY <1>5, <1>6, <2>1, <2>2
\* the invariant
<1>22. Types' BY <1>4, <1>6, <1>11, <1>15, <1>16, <1>18, <1>19, <1>21 DEF Types
<1>23. Control'
  <2>1. \A p \in Proc, u \in Tids : pc'[p][u] # "unborn" => u < nthread'[p]
    <3>1. \A u \in Tids : pc'["parent"][u] # "unborn" => u < nthread'["parent"]
      BY <1>4, <1>5, <1>6, <1>16 DEF Control
    <3>2. Main < nthread'["child"] BY <1>4, <1>5, <1>6, SMTT(60) DEF Types, Main
    <3> QED BY <1>5, <1>16, <3>1, <3>2
  <2> QED BY <1>4, <1>5, <1>6, <1>16, <2>1 DEF Control
<1>24. Names'
  <2> SUFFICES ASSUME NEW p \in Proc, NEW u \in Tids, pc'[p][u] \in Acting
               PROVE  lg'[p][u].name = getLogFilename(p, LogTid(p, u))'
    BY DEF Names
  <2>1. p = "parent" BY <1>5, <1>16 DEF Acting
  <2>2. lg[p][u].name = getLogFilename(p, LogTid(p, u)) BY <1>6, <1>16, <2>1 DEF Names
  <2>3. lg'[p][u].name = lg[p][u].name BY <1>1, <1>13, <1>15, <2>1
  <2> QED BY <1>4, <1>5, <2>1, <2>2, <2>3 DEF getLogFilename, LogTid
<1>25. Keeps("parent")
  <2> SUFFICES ASSUME NEW u \in Tids, pc["parent"][u] \in Acting
               PROVE  LET o == lg["parent"][u]
                      IN  /\ pc'["parent"][u] \in Acting /\ lg'["parent"][u].name = o.name
                          /\ lg'["parent"][u].off >= o.off
                          /\ \A k \in 1 .. o.off : k <= Len(disk[o.name]) =>
                               k <= Len(disk'[o.name]) /\ disk'[o.name][k] = disk[o.name][k]
    BY DEF Keeps
  <2>1. lg["parent"][u].off \in Nat /\ lg["parent"][u].name \in LogNames
    BY <1>5, <1>6, SMTT(60) DEF Loggers
  <2>2. CASE u = t
    <3>1. \A k \in 1 .. l.off : k <= Len(d[x]) => k <= Len(disk'[x]) /\ disk'[x][k] = d[x][k]
      BY <1>7, <1>10, <1>11
    <3>2. m.off >= l.off BY <1>7, <1>13
    <3> QED BY <1>1, <1>13, <1>15, <1>16, <2>2, <3>1, <3>2
  <2>3. CASE u # t
    <3>1. pc["parent"][t] # "unborn" /\ OwnFiles("parent") BY <1>4 DEF OwnFiles
    <3>2. lg["parent"][u].name # getLogFilename("parent", LogTid("parent", t))
      BY <1>5, <2>3, <3>1, Unshared
    <3>3. x = getLogFilename("parent", LogTid("parent", t))
      BY <1>1, <1>4, <1>5, <1>6 DEF Names, Acting
    <3>4. disk'[lg["parent"][u].name] = disk[lg["parent"][u].name]
      BY <1>1, <1>11, <2>1, <3>2, <3>3
    <3> QED BY <1>15, <1>16, <2>1, <2>3, <3>4
  <2> QED BY <2>2, <2>3
<1>26. Lines("parent")'
  <2>1. Lines("parent") BY <1>5 DEF LogInv
  <2>2. OwnFiles("parent") BY <1>4 DEF OwnFiles
  <2>3. ASSUME f = None
        PROVE  /\ pc'["parent"][t] \in Acting /\ LineOf("parent", t, e)'
               /\ TurnAt(e)' = turn["parent"]
    <3>1. e[1] = x /\ e[2] = l.off + 1 BY <1>20
    <3>2. disk'[x] = g /\ g[l.off + 1].turn = turn["parent"]
      BY <1>1, <1>10, <1>11, <2>3 DEF SyncRec
    <3>3. lg'["parent"][t].name = x /\ lg'["parent"][t].off = l.off + 1
      BY <1>13, <1>15, <2>3
    <3>4. l.off + 1 \in 1 .. l.off + 1 BY <1>7
    <3>5. pc'["parent"][t] \in Acting BY <1>4, <1>16 DEF Acting
    <3> QED BY <1>10, <1>19, <3>1, <3>2, <3>3, <3>4, <3>5 DEF LineOf, TurnAt
  <2>4. turn'["parent"] >= turn["parent"] BY <1>19
  <2> QED BY <1>4, <1>5, <1>6, <1>18, <1>21, <1>22, <1>25, <2>1, <2>2, <2>3, <2>4, LinesStay
<1>27. Lines("child")'
  <2>1. \A u \in Tids : pc["child"][u] \notin Acting BY <1>8 DEF Acting
  <2>2. OwnFiles("child") BY <1>4 DEF OwnFiles
  <2>3. fault["child"] = None => Len(sched["child"]) = 0 BY <1>5, <2>1, <2>2, NoLines
  <2>4. fault["child"] = None =>
          (1 .. Len(sched'["child"])) = {} /\ (2 .. Len(sched'["child"])) = {}
    BY <1>21, <2>3
  <2> QED BY <1>18, <2>4 DEF Lines
<1> QED BY <1>5, <1>22, <1>23, <1>24, <1>26, <1>27 DEF LogInv

\* The child's first line: it closes the inherited log, which cuts the parent's only if
\* it is a binary one, and opens one of its own.
LEMMA ChildReturnInv ==
  ASSUME LogInv, ChildReturn
  PROVE  LogInv'
<1>1. PICK old, name, cut, l, d, r, at :
        /\ old = lg["child"][Main] /\ name = getLogFilename("child", forker)
        /\ cut = [disk EXCEPT ![old.name] = Closed(disk[old.name], old.off)]
        /\ l = NewLogger(name) /\ d = [cut EXCEPT ![name] = Opened(cut[name])]
        /\ r = SyncRec("fork", InsidOf("fork"), turn["child"], TRUE)
        /\ at = IF opts.idle THEN "spawn" ELSE "run"
  OBVIOUS
<1>2. /\ fault["child"] = None /\ pc["child"][Main] = "forked"
      /\ pc' = [pc EXCEPT !["child"][Main] = at]
      /\ nthread' = nthread /\ forker' = forker /\ opts' = opts
  BY <1>1 DEF ChildReturn, Runs, GoTo, Static
<1>3. PICK recs : /\ recs = <<r>> /\ IsLog(recs) /\ Len(recs) = 1 /\ recs[1] = r
  BY OneRecord
<1>4. /\ turn' = [turn EXCEPT !["child"] = @ + 1]
      /\ Write("child", Main, l, d, recs)
      /\ sched' = [sched EXCEPT !["child"] = Append(@, <<l.name, l.off + 1>>)]
  BY <1>1, <1>3, Zenon DEF ChildReturn, LogSync, Write
<1>5. /\ "child" \in Proc /\ "parent" \in Proc /\ "child" # "parent" /\ Main \in Tids
      /\ \A p \in Proc : p # "parent" => p = "child"
  BY LogFacts DEF Proc
<1>6. /\ Types /\ Control /\ Names /\ IsDisk(disk) /\ pc \in [Proc -> [Tids -> Pcs]]
      /\ turn \in [Proc -> Nat] /\ old \in Loggers
      /\ sched \in [Proc -> Seq(LogNames \X Nat)] /\ forker \in Tids \cup {None}
  BY <1>1, <1>5 DEF LogInv, Types
<1>7. forker # None /\ forker \in Tids BY <1>2, <1>6 DEF Control
<1>8. name \in LogNames BY <1>1, <1>5, <1>7 DEF getLogFilename, LogNames
<1>9. old.name \in LogNames /\ old.off \in Nat BY <1>6 DEF Loggers
\* the two files
<1>10. IsDisk(cut) /\ (opts.type # "bin" => cut = disk)
  <2>1. PICK g : g = Closed(disk[old.name], old.off) OBVIOUS
  <2>2. IsLog(disk[old.name]) BY <1>6, <1>9 DEF IsDisk
  <2>3. IsLog(g) /\ (opts.type # "bin" => g = disk[old.name])
    BY <1>9, <2>1, <2>2, ClosedProps
  <2>4. PICK e : e = disk /\ IsDisk(e) /\ cut = [e EXCEPT ![old.name] = g] BY <1>1, <1>6, <2>1
  <2>5. IsDisk(cut) BY <1>9, <2>3, <2>4, DiskExcept
  <2>6. opts.type # "bin" => cut = disk BY <1>6, <1>9, <2>3, <2>4 DEF IsDisk
  <2> QED BY <2>5, <2>6
<1>11. /\ IsDisk(d) /\ StartOffset \in Nat
       /\ \A n \in LogNames : n # name => d[n] = cut[n]
  <2>1. PICK g : g = Opened(cut[name]) OBVIOUS
  <2>2. IsLog(cut[name]) BY <1>8, <1>10 DEF IsDisk
  <2>3. IsLog(g) /\ StartOffset \in Nat BY <2>1, <2>2, OpenedProps
  <2>4. d = [cut EXCEPT ![name] = g] BY <1>1, <2>1
  <2>5. IsDisk(d) BY <1>8, <1>10, <2>3, <2>4, DiskExcept
  <2>6. \A n \in LogNames : n # name => d[n] = cut[n] BY <1>10, <2>4 DEF IsDisk
  <2> QED BY <2>3, <2>5, <2>6
<1>12. l \in Loggers /\ l.name = name /\ l.off \in Nat
  BY <1>1, <1>8, <1>11 DEF NewLogger, Loggers
<1>13. Written("child", Main, l, d, recs)
  BY <1>3, <1>4, <1>5, <1>6, <1>11, <1>12, WriteEffect
<1>14. at \in Acting /\ at \in Pcs /\ at # "unborn" /\ at # "new" /\ at # "forked"
  BY <1>1 DEF Acting, Pcs
<1>15. /\ pc' \in [Proc -> [Tids -> Pcs]] /\ pc'["child"][Main] = at
       /\ \A u \in Tids : u # Main => pc'["child"][u] = "unborn" /\ pc["child"][u] = "unborn"
       /\ \A u \in Tids : pc'["parent"][u] = pc["parent"][u]
  BY <1>2, <1>5, <1>6, <1>14 DEF Control
<1>16. /\ turn' \in [Proc -> Nat] /\ turn'["child"] = turn["child"] + 1
       /\ turn'["parent"] = turn["parent"] /\ turn["child"] \in Nat /\ turn["parent"] \in Nat
  BY <1>4, <1>5, <1>6
<1>17. PICK e \in LogNames \X Nat : e = <<l.name, l.off + 1>>
  <2>1. l.off + 1 \in Nat BY <1>12
  <2>2. <<l.name, l.off + 1>> \in LogNames \X Nat BY <1>8, <1>12, <2>1
  <2> QED BY <2>2, Zenon
<1>18. /\ sched' \in [Proc -> Seq(LogNames \X Nat)]
       /\ sched'["child"] = Append(sched["child"], e)
       /\ sched'["parent"] = sched["parent"]
  <2>1. Append(sched["child"], e) \in Seq(LogNames \X Nat) BY <1>5, <1>6
  <2>2. sched' = [sched EXCEPT !["child"] = Append(sched["child"], e)] BY <1>4, <1>17
  <2> QED BY <1>5, <1>6, <2>1, <2>2
\* the invariant
<1>19. Types' BY <1>2, <1>6, <1>13, <1>15, <1>16, <1>18 DEF Types, Written
<1>20. Control'
  <2>1. \A p \in Proc, u \in Tids : pc'[p][u] # "unborn" => u < nthread'[p]
    <3>1. \A u \in Tids : pc'["parent"][u] # "unborn" => u < nthread'["parent"]
      BY <1>2, <1>5, <1>6, <1>15 DEF Control
    <3>2. Main < nthread'["child"] BY <1>2, <1>5, <1>6 DEF Control
    <3> QED BY <1>5, <1>15, <3>1, <3>2
  <2> QED BY <1>2, <1>5, <1>6, <1>7, <1>14, <1>15, <2>1 DEF Control
<1>21. Names'
  <2> SUFFICES ASSUME NEW p \in Proc, NEW u \in Tids, pc'[p][u] \in Acting
               PROVE  lg'[p][u].name = getLogFilename(p, LogTid(p, u))'
    BY DEF Names
  <2>1. getLogFilename(p, LogTid(p, u))' = getLogFilename(p, LogTid(p, u))
    BY <1>2 DEF getLogFilename, LogTid
  <2>2. CASE p = "parent"
    <3>1. lg'[p][u] = lg[p][u] BY <1>5, <1>13, <2>2, SMTT(60) DEF Written
    <3> QED BY <1>6, <1>15, <2>1, <2>2, <3>1 DEF Names
  <2>3. CASE p = "child"
    <3>1. u = Main BY <1>15, <2>3 DEF Acting
    <3> QED BY <1>1, <1>12, <1>13, <2>1, <2>3, <3>1 DEF Written, LogTid
  <2> QED BY <1>5, <2>2, <2>3
<1>22. \A p \in Proc : (OwnFiles(p)' => OwnFiles(p)) /\ Lines(p)
  BY <1>2 DEF OwnFiles, LogInv
<1>23. Lines("child")'
  <2>1. Keeps("child") BY <1>2, <1>15 DEF Keeps, Acting
  <2>2. ASSUME fault'["child"] = None
        PROVE  /\ pc'["child"][Main] \in Acting /\ LineOf("child", Main, e)'
               /\ TurnAt(e)' = turn["child"]
    <3>1. e[1] = name /\ e[2] = l.off + 1 BY <1>12, <1>17
    <3>2. /\ lg'["child"][Main].name = name /\ lg'["child"][Main].off = l.off + 1
          /\ l.off + 1 <= Len(disk'[name]) /\ disk'[name][l.off + 1] = r
      <4>1. 1 \in 1 .. Len(recs) BY <1>3
      <4> QED BY <1>3, <1>12, <1>13, <2>2, <4>1 DEF Written
    <3>3. disk'[name][l.off + 1].turn = turn["child"] BY <1>1, <3>2 DEF SyncRec
    <3>4. l.off + 1 \in 1 .. l.off + 1 BY <1>12
    <3> QED BY <1>14, <1>15, <1>16, <3>1, <3>2, <3>3, <3>4 DEF LineOf, TurnAt
  <2>3. turn'["child"] >= turn["child"] BY <1>16
  <2> QED BY <1>2, <1>5, <1>6, <1>18, <1>19, <1>22, <2>1, <2>2, <2>3, LinesStay
<1>24. Lines("parent")'
  <2>1. ASSUME OwnFiles("parent")' PROVE Keeps("parent")
    <3>1. OwnFiles("parent") /\ opts.type # "bin"
      BY <1>2, <1>5, <1>7, <2>1 DEF OwnFiles
    <3> SUFFICES ASSUME NEW u \in Tids, pc["parent"][u] \in Acting
                 PROVE  LET o == lg["parent"][u]
                        IN  /\ pc'["parent"][u] \in Acting /\ lg'["parent"][u].name = o.name
                            /\ lg'["parent"][u].off >= o.off
                            /\ \A k \in 1 .. o.off : k <= Len(disk[o.name]) =>
                                 k <= Len(disk'[o.name]) /\ disk'[o.name][k] = disk[o.name][k]
      BY DEF Keeps
    <3>2. lg["parent"][u].off \in Nat /\ lg["parent"][u].name \in LogNames
      BY <1>5, <1>6 DEF Types, Loggers
    <3>3. lg["parent"][u].name # getLogFilename("child", LogTid("child", Main))
      BY <1>2, <1>5, <3>1, Unshared
    <3>4. lg["parent"][u].name # name BY <1>1, <3>3 DEF LogTid
    <3>5. disk'[lg["parent"][u].name] = disk[lg["parent"][u].name]
      BY <1>10, <1>11, <1>12, <1>13, <3>1, <3>2, <3>4 DEF Written
    <3>6. lg'["parent"][u] = lg["parent"][u] BY <1>5, <1>13 DEF Written
    <3> QED BY <1>15, <3>2, <3>5, <3>6
  <2>2. fault'["parent"] = fault["parent"] BY <1>5, <1>13 DEF Written
  <2>3. turn'["parent"] >= turn["parent"] BY <1>16
  <2> QED BY <1>5, <1>6, <1>18, <1>19, <1>22, <2>1, <2>2, <2>3, LinesStay
<1> QED BY <1>5, <1>19, <1>20, <1>21, <1>23, <1>24 DEF LogInv

-----------------------------------------------------------------------------
(* The logs merge into the schedule.                                          *)

\* The options and the work do not change.
Given ==
  opts \in Options /\ work \in Works /\ (work.kind # "sync" => opts.type = "bin")

\* Given is kept by every step.
LEMMA GivenStays == ASSUME Given, [Next]_vars PROVE Given'
<1>1. ASSUME NEW p, NEW t, Step(p, t) PROVE Static
  <2>1. ThreadBegin(p, t) => Static BY DEF ThreadBegin
  <2>2. Create(p, t) => Static BY DEF Create
  <2>3. Operate(p, t) => Static BY DEF Operate
  <2>4. OperateFirst(p, t) => Static BY DEF OperateFirst
  <2>5. OperateSecond(p, t) => Static BY DEF OperateSecond
  <2>6. Instruction(p, t) => Static BY DEF Instruction
  <2>7. Call(p, t) => Static BY DEF Call
  <2>8. Return(p, t) => Static BY DEF Return
  <2>9. ThreadEnd(p, t) => Static BY DEF ThreadEnd
  <2>10. DeleteLogger(p, t) => Static BY DEF DeleteLogger
  <2> QED BY <1>1, <2>1, <2>2, <2>3, <2>4, <2>5, <2>6, <2>7, <2>8, <2>9, <2>10 DEF Step
<1>2. \A p : SilentTurn(p) => Static BY DEF SilentTurn
<1>3. \A t : Fork(t) => Static BY DEF Fork
<1>4. ChildReturn => Static BY DEF ChildReturn
<1>5. UNCHANGED vars => Static BY DEF vars, Static
<1>6. Static BY <1>1, <1>2, <1>3, <1>4, <1>5 DEF Next
<1> QED BY <1>6 DEF Static, Given

\* The invariant holds at the start, when no thread has a log.
LEMMA InitLogInv == ASSUME Init PROVE LogInv /\ Given
<1>1. /\ "child" \in Proc /\ "parent" \in Proc /\ "child" # "parent" /\ Main \in Tids
      /\ 1 \in 1 .. MaxThread /\ Main < 1 /\ TrunkRecords - 1 \in Nat
  BY LogFacts, LogAssumption DEF Proc, Main
<1>2. IsDisk(disk)
  <2>1. \A n \in LogNames : IsLog(disk[n])
    <3> TAKE n \in LogNames
    <3>1. CASE opts.stale
      <4>1. PICK g : g = [i \in 1 .. TrunkRecords - 1 |-> Stale] OBVIOUS
      <4>2. g = [i \in 1 .. TrunkRecords - 1 |-> g[i]] BY <4>1
      <4>3. IsLog(g) BY <1>1, <4>2, FileOf
      <4> QED BY <3>1, <4>1, <4>3 DEF Init
    <3>2. CASE ~opts.stale
      <4>1. disk[n] = <<>> BY <3>2 DEF Init
      <4>2. PICK g : g = <<>> OBVIOUS
      <4>3. g = [i \in 1 .. 0 |-> g[i]] BY <4>2
      <4>4. IsLog(g) BY <4>3, FileOf
      <4> QED BY <4>1, <4>2, <4>4
    <3> QED BY <3>1, <3>2
  <2> QED BY <2>1 DEF Init, IsDisk
<1>3. Types
  <2>1. NoLog \in Loggers
    <3>1. <<None, Main>> \in LogNames BY <1>1 DEF LogNames
    <3> QED BY <3>1 DEF NoLog, Loggers
  <2>2. lg \in [Proc -> [Tids -> Loggers]] BY <2>1 DEF Init
  <2>3. pc \in [Proc -> [Tids -> Pcs]] BY DEF Init, Pcs
  <2>4. turn \in [Proc -> Nat] /\ nthread \in [Proc -> 1 .. MaxThread] BY <1>1 DEF Init
  <2>5. fault \in [Proc -> Faults] BY DEF Init, Faults
  <2>6. forker \in Tids \cup {None} BY DEF Init
  <2>7. <<>> \in Seq(LogNames \X Nat) OBVIOUS
  <2>8. sched \in [Proc -> Seq(LogNames \X Nat)] BY <2>7 DEF Init
  <2> QED BY <1>2, <2>2, <2>3, <2>4, <2>5, <2>6, <2>8 DEF Types
<1>4. Control BY <1>1 DEF Init, Control
<1>5. Names BY <1>1 DEF Init, Names, Acting
<1>6. \A p \in Proc : Lines(p)
  <2> TAKE p \in Proc
  <2>1. sched[p] = <<>> BY DEF Init
  <2>2. (1 .. Len(sched[p])) = {} /\ (2 .. Len(sched[p])) = {} BY <2>1
  <2> QED BY <2>2 DEF Lines
<1> QED BY <1>3, <1>4, <1>5, <1>6 DEF LogInv, Given, Init

\* The invariant is kept by every step.
LEMMA NextLogInv == ASSUME LogInv, Given, [Next]_vars PROVE LogInv'
<1>1. ASSUME NEW p \in Proc, NEW t \in Tids, Step(p, t) PROVE LogInv'
  BY <1>1, ThreadBeginInv, CreateInv, OperateInv, InstructionInv, CallInv, ReturnInv,
     ThreadEndInv, DeleteLoggerInv DEF Step, Given
<1>2. ASSUME UNCHANGED vars PROVE LogInv'
  <2>1. /\ opts' = opts /\ turn' = turn /\ nthread' = nthread /\ pc' = pc /\ lg' = lg
        /\ disk' = disk /\ fault' = fault /\ forker' = forker /\ sched' = sched
    BY <1>2 DEF vars
  <2>2. Types' BY <2>1 DEF LogInv, Types, IsDisk, IsLog
  <2>3. Control' BY <2>1 DEF LogInv, Control
  <2>4. Names' BY <2>1, SMTT(60) DEF LogInv, Names, getLogFilename, LogTid
  <2>5. ASSUME NEW p \in Proc PROVE Lines(p)'
    <3>1. Lines(p) BY DEF LogInv
    <3> QED BY <2>1, <3>1 DEF Lines, LineOf, TurnAt, OwnFiles
  <2> QED BY <2>2, <2>3, <2>4, <2>5 DEF LogInv
<1> QED BY <1>1, <1>2, SilentTurnInv, ForkInv, ChildReturnInv DEF Next

\* Where the lines are and who writes there, for every behaviour.
THEOREM LogInductive == Spec => [](LogInv /\ Given)
<1>1. Init => LogInv /\ Given BY InitLogInv
<1>2. (LogInv /\ Given) /\ [Next]_vars => (LogInv /\ Given)' BY NextLogInv, GivenStays
<1> QED BY <1>1, <1>2, PTL DEF Spec

\* The lines of a process, read from its threads' logs in the order in which they were
\* written, have increasing turn numbers as long as the process owns its files.
THEOREM LogsMerge == Spec => []MergeIsSchedule
<1>1. LogInv => MergeIsSchedule
  BY DEF LogInv, Lines, TurnAt, MergeIsSchedule
<1> QED BY <1>1, LogInductive, PTL
-----------------------------------------------------------------------------
(* A logger stops its process only at its limits.                              *)

\* The point at which a thread is agrees with the options and the work.
PointOK(at) ==
  /\ at = "spawn" => opts.idle
  /\ at = "wait" => work.kind = "sync"
  /\ at = "call" => work.kind = "call"

Points == \A p \in Proc, t \in Tids : PointOK(pc[p][t])

\* While a process owns its files, a log that is open is as long as its mapping.
Mapped ==
  opts.type = "bin" =>
    \A p \in Proc, t \in Tids :
      fault[p] = None /\ OwnFiles(p) /\ pc[p][t] \in Acting \ {"gone"} =>
        Len(disk[lg[p][t].name]) = TrunkRecords

SafeInv == LogInv /\ Given /\ Points /\ Mapped /\ StopsAtItsLimits

\* The text loggers have a case for every operation the runtime logs.
LEMMA TableIsComplete == ASSUME NEW op \in LoggedOps PROVE ArgsRead(op) # -1
<1> DEFINE Cases == ReadsNone \cup ReadsOne \cup ReadsTwo \cup ReadsThree
<1>1. \A e \in PassedByThreads \cup PassedByMutexes \cup PassedByRWLocks : e[1] \in Cases
  BY DEF PassedByThreads, PassedByMutexes, PassedByRWLocks, ReadsNone, ReadsOne, ReadsTwo,
         ReadsThree
<1>2. \A e \in PassedByBarriers \cup PassedByConds \cup PassedBySems : e[1] \in Cases
  BY DEF PassedByBarriers, PassedByConds, PassedBySems, ReadsNone, ReadsOne, ReadsTwo,
         ReadsThree
<1>3. \A e \in PassedByLineups \cup PassedByRegions \cup PassedBySleeps \cup PassedByIdle
             \cup PassedByFork : e[1] \in Cases
  BY DEF PassedByLineups, PassedByRegions, PassedBySleeps, PassedByIdle, PassedByFork,
         ReadsNone, ReadsOne, ReadsTwo, ReadsThree
<1>4. op \in Cases BY <1>1, <1>2, <1>3 DEF LoggedOps, Passed
<1>5. op \in ReadsNone \/ op \in ReadsOne \/ op \in ReadsTwo \/ op \in ReadsThree BY <1>4
<1> QED BY <1>5 DEF ArgsRead

\* The operations of the work are logged ones, its ids are integers.
LEMMA WorkIsLogged ==
  ASSUME Given
  PROVE  /\ work.kind = "sync" => work.op \in LoggedOps
         /\ work.kind = "call" => work.narg \in 0 .. MaxArgs
         /\ {"tern_thread_begin", "tern_thread_end", "pthread_create", "fork"}
              \subseteq LoggedOps
         /\ work.insid \in Int
<1>1. work \in Works BY DEF Given
<1>2. work.kind = "sync" => work.op \in WorkOps BY <1>1 DEF Works
<1>3. work.kind = "call" => work.narg \in 0 .. MaxArgs BY <1>1 DEF Works
<1>4. <<"tern_thread_begin", 1>> \in Passed /\ <<"tern_thread_end", 1>> \in Passed
      /\ <<"pthread_create", 2>> \in Passed /\ <<"fork", 1>> \in Passed
  BY DEF Passed, PassedByThreads, PassedByFork
<1>5. \A o, n : <<o, n>> \in Passed => o \in LoggedOps BY DEF LoggedOps
<1>6. work.insid \in AppInsids BY <1>1 DEF Works
<1>7. work.insid \in Int
  <2>1. AppInsids \subseteq Nat \cup {-1} BY LogAssumption
  <2>2. work.insid \in Nat \/ work.insid = -1 BY <1>6, <2>1
  <2> QED BY <2>2
<1>8. WorkOps \subseteq LoggedOps BY DEF WorkOps
<1>9. {"tern_thread_begin", "tern_thread_end", "pthread_create", "fork"} \subseteq LoggedOps
  BY <1>4, <1>5
<1> QED BY <1>2, <1>3, <1>7, <1>8, <1>9

\* The ids the runtime logs: none, 0, the program's, and the idle thread's.
Known(id) ==
  id \in {INVALID_INSID, 0, work.insid} \/ (id = IdleInsid /\ opts.idle)

\* The id of a record fits, unless an id the program or the idle thread passed does not.
IdOK(r) == r.insid \in Int /\ (r.insid < MAX_INSID \/ opts.idle \/ work.insid >= MAX_INSID)

LEMMA KnownFits ==
  ASSUME Given, NEW id, Known(id), NEW r, r.insid = setInsid(id)
  PROVE  IdOK(r)
<1>1. work.insid \in Int BY WorkIsLogged
<1>2. /\ setInsid(id) \in Int
      /\ setInsid(id) < MAX_INSID \/ opts.idle \/ work.insid >= MAX_INSID
  BY <1>1 DEF Known, setInsid, INVALID_INSID, INVALID_INSID_IN_REC, MAX_INSID, IdleInsid
<1> QED BY <1>2 DEF IdOK

LEMMA InsidOfKnown == \A op : Known(InsidOf(op))
  BY DEF Known, InsidOf

\* The records a logger is given are ones it can take: a text logger one line of an
\* operation that is logged, the binary logger records of known ids.
Loggable(recs) ==
  /\ opts.type # "bin" => \E r : recs = <<r>> /\ r.op \in LoggedOps
  /\ opts.type = "bin" => \A i \in 1 .. Len(recs) : IdOK(recs[i])

\* Why a write of such records can fail.
LEMMA FaultCauses ==
  ASSUME NEW recs, IsLog(recs), Loggable(recs), NEW l, NEW file,
         NEW f, f = WriteFault(l, file, recs), Len(file) \in Nat
  PROVE  /\ f # None => opts.type = "bin"
         /\ f = "insid" => opts.idle \/ work.insid >= MAX_INSID
         /\ f = "sigbus" => Len(file) < TrunkRecords
         /\ f = None /\ opts.type = "bin" => l.off + Len(recs) <= Len(file)
<1>1. CASE opts.type # "bin"
  <2>1. PICK r : recs = <<r>> /\ r.op \in LoggedOps BY <1>1 DEF Loggable
  <2>2. ArgsRead(r.op) # -1 BY <2>1, TableIsComplete
  <2>3. DOMAIN recs = {1} /\ recs[1] = r BY <2>1
  <2>4. f = None BY <1>1, <2>2, <2>3 DEF WriteFault, TxtFault
  <2> QED BY <1>1, <2>4, LogFacts DEF Stops
<1>2. CASE opts.type = "bin"
  <2>1. f = BinFault(l, file, recs) BY <1>2 DEF WriteFault
  <2>2. f = "insid" => opts.idle \/ work.insid >= MAX_INSID
    <3> SUFFICES ASSUME f = "insid" PROVE opts.idle \/ work.insid >= MAX_INSID OBVIOUS
    <3>1. PICK i \in DOMAIN recs : recs[i].insid >= MAX_INSID
      BY <2>1, LogFacts DEF BinFault, Stops
    <3>2. DOMAIN recs = 1 .. Len(recs) BY DEF IsLog
    <3>3. IdOK(recs[i]) BY <1>2, <3>2 DEF Loggable
    <3> QED BY <3>1, <3>3 DEF IdOK, MAX_INSID
  <2>3. f = "sigbus" => Len(file) < TrunkRecords BY <2>1, LogFacts DEF BinFault, Stops
  <2>4. f = None => l.off + Len(recs) <= Len(file) BY <2>1, LogFacts DEF BinFault, Stops
  <2> QED BY <1>2, <2>2, <2>3, <2>4
<1> QED BY <1>1, <1>2

\* The other threads stay where they are; one may be born.
OthersStay(q, u) ==
  \A p \in Proc, t \in Tids : <<p, t>> # <<q, u>> => pc'[p][t] \in {pc[p][t], "new"}

\* A step of one thread keeps Points.
LEMMA PointsStep ==
  ASSUME Points, NEW q \in Proc, NEW u \in Tids, OthersStay(q, u), opts' = opts,
         work' = work, PointOK(pc'[q][u])
  PROVE  Points'
<1> SUFFICES ASSUME NEW p \in Proc, NEW t \in Tids PROVE PointOK(pc[p][t])'
  BY DEF Points
<1>1. CASE <<p, t>> = <<q, u>>
  <2>1. p = q /\ t = u BY <1>1
  <2> QED BY <2>1 DEF PointOK
<1>2. CASE <<p, t>> # <<q, u>>
  <2>1. pc'[p][t] = pc[p][t] \/ pc'[p][t] = "new" BY <1>2 DEF OthersStay
  <2>2. PointOK(pc[p][t]) BY DEF Points
  <2> QED BY <2>1, <2>2 DEF PointOK
<1> QED BY <1>1, <1>2

\* A step of one thread keeps Mapped when that thread's log is mapped after it.
LEMMA MappedStep ==
  ASSUME LogInv, Mapped, NEW q \in Proc, NEW u \in Tids, NEW x \in LogNames,
         x = getLogFilename(q, LogTid(q, u)), Writes(q, u, x), OthersStay(q, u),
         opts' = opts, forker' = forker,
         opts.type = "bin" /\ OwnFiles(q) /\ fault'[q] = None /\ pc'[q][u] # "gone" =>
           Len(disk'[x]) = TrunkRecords
  PROVE  Mapped'
<1> SUFFICES ASSUME opts.type = "bin", NEW p \in Proc, NEW t \in Tids, fault'[p] = None,
                    OwnFiles(p)', pc'[p][t] \in Acting \ {"gone"}
             PROVE  Len(disk'[lg'[p][t].name]) = TrunkRecords
  BY DEF Mapped
<1>1. OwnFiles(p) BY DEF OwnFiles
<1>2. fault[p] = None BY DEF Writes
<1>3. CASE <<p, t>> = <<q, u>>
  <2>1. p = q /\ t = u BY <1>3
  <2>2. lg'[q][u].name = x BY DEF Writes
  <2> QED BY <1>1, <2>1, <2>2
<1>4. CASE <<p, t>> # <<q, u>>
  <2>1. pc'[p][t] = pc[p][t] BY <1>4 DEF OthersStay, Acting
  <2>2. /\ lg'[p][t] = lg[p][t] /\ \A n \in LogNames : n # x => disk'[n] = disk[n]
        /\ pc[q][u] # "unborn"
    BY <1>4, <2>1 DEF Writes
  <2>3. lg[p][t].name # x BY <1>1, <1>4, <2>1, <2>2, Unshared
  <2>4. lg[p][t].name \in LogNames BY DEF LogInv, Types, Loggers
  <2>5. Len(disk[lg[p][t].name]) = TrunkRecords BY <1>1, <1>2, <2>1 DEF Mapped
  <2> QED BY <2>2, <2>3, <2>4, <2>5
<1> QED BY <1>3, <1>4

\* A step that stops no process without a cause keeps StopsAtItsLimits.
LEMMA StopsStep ==
  ASSUME StopsAtItsLimits, NEW q \in Proc, opts' = opts, work' = work,
         \A p \in Proc : OwnFiles(p)' => OwnFiles(p),
         \A p \in Proc : p # q => fault'[p] = fault[p],
         fault'[q] # None => opts.type = "bin",
         fault'[q] = "insid" => opts.idle \/ work.insid >= MAX_INSID,
         fault'[q] = "sigbus" => ~OwnFiles(q)'
  PROVE  StopsAtItsLimits'
<1> SUFFICES ASSUME NEW p \in Proc
             PROVE  /\ fault'[p] # None => opts.type = "bin"
                    /\ fault'[p] = "insid" => opts.idle \/ work.insid >= MAX_INSID
                    /\ fault'[p] = "sigbus" => ~OwnFiles(p)'
  BY DEF StopsAtItsLimits
<1>1. CASE p = q BY <1>1
<1>2. CASE p # q BY <1>2 DEF StopsAtItsLimits
<1> QED BY <1>1, <1>2

\* A thread writes records its logger can take to its own log, which is mapped unless
\* somebody else writes there.
LEMMA WriteSafe ==
  ASSUME SafeInv, NEW q \in Proc, NEW u \in Tids, NEW l \in Loggers, NEW d, IsDisk(d),
         NEW recs, IsLog(recs), Write(q, u, l, d, recs), Loggable(recs),
         l.name = getLogFilename(q, LogTid(q, u)), Writes(q, u, l.name),
         OthersStay(q, u), PointOK(pc'[q][u]),
         opts.type = "bin" /\ OwnFiles(q) => Len(d[l.name]) = TrunkRecords,
         opts' = opts, work' = work, forker' = forker
  PROVE  Points' /\ Mapped' /\ StopsAtItsLimits'
<1>1. LogInv /\ Types /\ Points /\ Mapped /\ StopsAtItsLimits BY DEF SafeInv, LogInv
<1>2. Written(q, u, l, d, recs) BY <1>1, WriteEffect
<1>3. PICK x \in LogNames : x = l.name BY DEF Loggers
<1>4. PICK file : file = d[x] /\ IsLog(file) /\ Len(file) \in Nat BY DEF IsDisk, IsLog
<1>5. /\ fault'[q] = WriteFault(l, file, recs)
      /\ Len(file) >= l.off + Len(recs) => Len(disk'[x]) = Len(file)
  BY <1>2, <1>3, <1>4 DEF Written
<1>6. /\ fault'[q] # None => opts.type = "bin"
      /\ fault'[q] = "insid" => opts.idle \/ work.insid >= MAX_INSID
      /\ fault'[q] = "sigbus" => Len(file) < TrunkRecords
      /\ fault'[q] = None /\ opts.type = "bin" => l.off + Len(recs) <= Len(file)
  <2>1. PICK f : f = WriteFault(l, file, recs) OBVIOUS
  <2>2. /\ f # None => opts.type = "bin"
        /\ f = "insid" => opts.idle \/ work.insid >= MAX_INSID
        /\ f = "sigbus" => Len(file) < TrunkRecords
        /\ f = None /\ opts.type = "bin" => l.off + Len(recs) <= Len(file)
    BY <1>4, <2>1, FaultCauses
  <2> QED BY <1>5, <2>1, <2>2
<1>7. opts.type = "bin" /\ OwnFiles(q) /\ fault'[q] = None => Len(disk'[x]) = TrunkRecords
  <2>1. l.off \in Nat /\ Len(recs) \in Nat BY DEF Loggers, IsLog
  <2> QED BY <1>3, <1>4, <1>5, <1>6, <2>1
<1>8. Points' BY <1>1, PointsStep
<1>9. Mapped' BY <1>1, <1>3, <1>7, MappedStep
<1>10. \A p \in Proc : p # q => fault'[p] = fault[p] BY DEF Writes
<1>11. \A p \in Proc : OwnFiles(p)' = OwnFiles(p) BY DEF OwnFiles
<1>12. fault'[q] = "sigbus" => ~OwnFiles(q)
  <2> SUFFICES ASSUME fault'[q] = "sigbus", OwnFiles(q) PROVE FALSE OBVIOUS
  <2>1. "sigbus" # None BY LogAssumption DEF Stops
  <2>2. opts.type = "bin" /\ Len(file) < TrunkRecords BY <1>6, <2>1
  <2>3. Len(file) = TrunkRecords BY <1>3, <1>4, <2>2
  <2> QED BY <1>4, <2>2, <2>3
<1> QED BY <1>1, <1>6, <1>8, <1>9, <1>10, <1>11, <1>12, StopsStep

\* A step to another point of the same thread.
LEMMA GoSafe ==
  ASSUME LogInv, NEW q \in Proc, NEW u \in Tids, NEW at \in Acting,
         pc' = [pc EXCEPT ![q][u] = at]
  PROVE  /\ pc'[q][u] = at /\ OthersStay(q, u)
         /\ \A p \in Proc, t \in Tids : <<p, t>> # <<q, u>> =>
              pc'[p][t] \in Acting <=> pc[p][t] \in Acting
<1>1. pc \in [Proc -> [Tids -> Pcs]] BY DEF LogInv, Types
<1>2. /\ pc'[q][u] = at
      /\ \A p \in Proc, t \in Tids : <<p, t>> # <<q, u>> => pc'[p][t] = pc[p][t]
  BY <1>1
<1> QED BY <1>2 DEF OthersStay

\* A thread's own log is mapped as long as nobody else writes there.
LEMMA OwnIsMapped ==
  ASSUME SafeInv, NEW q \in Proc, NEW u \in Tids, fault[q] = None,
         pc[q][u] \in Acting \ {"gone"}
  PROVE  opts.type = "bin" /\ OwnFiles(q) => Len(disk[lg[q][u].name]) = TrunkRecords
  BY DEF SafeInv, Mapped

\* One line of an operation that is logged, with a known id, can be logged.
LEMMA LineLoggable ==
  ASSUME Given, NEW op \in LoggedOps, NEW insid, Known(insid), NEW r, NEW n,
         IsLine(r, op, insid, n), NEW recs, recs = <<r>>, Len(recs) = 1, recs[1] = r
  PROVE  Loggable(recs)
<1>1. r.op \in LoggedOps BY DEF IsLine
<1>2. opts.type = "bin" => IdOK(r)
  <2>1. opts.type = "bin" => r.insid = setInsid(insid) BY DEF IsLine
  <2> QED BY <2>1, KnownFits
<1>3. \A i \in 1 .. Len(recs) : recs[i] = r OBVIOUS
<1> QED BY <1>1, <1>2, <1>3 DEF Loggable

\* A line in the thread's own log.
LEMMA LineSafe ==
  ASSUME SafeInv, NEW q \in Proc, NEW u \in Tids, pc[q][u] \in Acting \ {"gone"},
         fault[q] = None, NEW op \in LoggedOps, NEW insid, Known(insid), NEW after,
         LogSync(q, u, lg[q][u], disk, op, insid, after),
         pc'[q][u] \in Acting, PointOK(pc'[q][u]), OthersStay(q, u),
         \A p \in Proc, t \in Tids : <<p, t>> # <<q, u>> =>
           pc'[p][t] \in Acting <=> pc[p][t] \in Acting,
         opts' = opts, work' = work, forker' = forker
  PROVE  Points' /\ Mapped' /\ StopsAtItsLimits'
<1>1. LogInv /\ Given BY DEF SafeInv
<1>2. PICK l \in Loggers : \E d, r :
        /\ l = lg[q][u] /\ d = disk /\ IsDisk(d)
        /\ r.turn = turn[q] /\ Synced(q, u, l, d, r)
        /\ l.name = getLogFilename(q, LogTid(q, u))
        /\ r = SyncRec(op, insid, turn[q], after)
  BY <1>1, OwnSync
<1>3. PICK d, r :
        /\ l = lg[q][u] /\ d = disk /\ IsDisk(d)
        /\ r.turn = turn[q] /\ Synced(q, u, l, d, r)
        /\ l.name = getLogFilename(q, LogTid(q, u))
        /\ r = SyncRec(op, insid, turn[q], after)
  BY <1>2
<1>4. DiskBut(d, l.name) BY <1>3 DEF DiskBut
<1>5. pc[q][u] # "unborn" BY DEF Acting
<1>6. Writes(q, u, l.name) BY <1>1, <1>3, <1>4, <1>5, LogSyncWrites
<1>7. PICK recs : /\ recs = <<r>> /\ IsLog(recs) /\ Len(recs) = 1 /\ recs[1] = r
                  /\ Write(q, u, l, d, recs)
  BY <1>3, OneRecord DEF Synced
<1>8. IsLine(r, op, insid, turn[q]) BY <1>3, SyncRecProps
<1>9. Loggable(recs) BY <1>1, <1>7, <1>8, LineLoggable
<1>10. opts.type = "bin" /\ OwnFiles(q) => Len(d[l.name]) = TrunkRecords
  BY <1>3, OwnIsMapped
<1> QED BY <1>3, <1>6, <1>7, <1>9, <1>10, WriteSafe

\* Records of an instruction in the thread's own log.
LEMMA RecordSafe ==
  ASSUME SafeInv, NEW q \in Proc, NEW u \in Tids, pc[q][u] \in Acting \ {"gone"},
         fault[q] = None, opts.type = "bin", NEW recs, IsLog(recs),
         Write(q, u, lg[q][u], disk, recs), turn' = turn, sched' = sched,
         NEW at \in Acting, pc' = [pc EXCEPT ![q][u] = at], PointOK(at),
         \A i \in 1 .. Len(recs) : recs[i].insid = setInsid(work.insid),
         opts' = opts, work' = work, forker' = forker
  PROVE  Points' /\ Mapped' /\ StopsAtItsLimits'
<1>1. /\ LogInv /\ Given /\ Names /\ IsDisk(disk) /\ lg[q][u] \in Loggers
  BY SMTT(60) DEF SafeInv, LogInv, Types
<1>2. /\ pc'[q][u] = at /\ OthersStay(q, u)
      /\ \A p \in Proc, t \in Tids : <<p, t>> # <<q, u>> =>
           pc'[p][t] \in Acting <=> pc[p][t] \in Acting
  BY <1>1, GoSafe
<1>3. PICK l, d : l = lg[q][u] /\ l \in Loggers /\ d = disk /\ IsDisk(d) BY <1>1
<1>4. Write(q, u, l, d, recs) BY <1>3 DEF Write
<1>5. Writes(q, u, l.name) BY <1>1, <1>2, <1>3, RecordWrites
<1>6. l.name = getLogFilename(q, LogTid(q, u)) BY <1>1, <1>3 DEF Names
<1>7. Known(work.insid) BY DEF Known
<1>8. \A i \in 1 .. Len(recs) : IdOK(recs[i])
  <2> TAKE i \in 1 .. Len(recs)
  <2>1. recs[i].insid = setInsid(work.insid) OBVIOUS
  <2> QED BY <1>1, <1>7, <2>1, KnownFits
<1>9. Loggable(recs) BY <1>8 DEF Loggable
<1>10. opts.type = "bin" /\ OwnFiles(q) => Len(d[l.name]) = TrunkRecords
  BY <1>3, OwnIsMapped
<1>11. PointOK(pc'[q][u]) BY <1>2
<1> QED BY <1>2, <1>3, <1>4, <1>5, <1>6, <1>9, <1>10, <1>11, WriteSafe

\* A line that ends, or begins, an operation, or the thread.
LEMMA GoLineSafe ==
  ASSUME SafeInv, NEW p \in Proc, NEW t \in Tids,
         pc[p][t] \in Acting \ {"gone"}, fault[p] = None, NEW op \in LoggedOps, NEW after,
         NEW insid, Known(insid), LogSync(p, t, lg[p][t], disk, op, insid, after),
         NEW at \in Acting, PointOK(at), pc' = [pc EXCEPT ![p][t] = at],
         opts' = opts, work' = work, forker' = forker
  PROVE  Points' /\ Mapped' /\ StopsAtItsLimits'
<1>1. LogInv BY DEF SafeInv
<1>2. /\ pc'[p][t] = at /\ OthersStay(p, t)
      /\ \A q \in Proc, u \in Tids : <<q, u>> # <<p, t>> =>
           pc'[q][u] \in Acting <=> pc[q][u] \in Acting
  BY <1>1, GoSafe
<1> QED BY <1>2, LineSafe

-----------------------------------------------------------------------------
(* Each action keeps the points, the mappings and the limits.                  *)

\* A log that is opened is mapped in full.
LEMMA ThreadBeginSafe ==
  ASSUME SafeInv, NEW p \in Proc, NEW t \in Tids, ThreadBegin(p, t)
  PROVE  Points' /\ Mapped' /\ StopsAtItsLimits'
<1>1. PICK name, l, d, r, at :
        /\ name = getLogFilename(p, t) /\ l = NewLogger(name)
        /\ d = [disk EXCEPT ![name] = Opened(@)]
        /\ r = SyncRec("tern_thread_begin", INVALID_INSID, turn[p], TRUE)
        /\ at = IF t = Main /\ opts.idle THEN "spawn" ELSE "run"
  OBVIOUS
<1>2. /\ fault[p] = None /\ pc[p][t] = "new" /\ pc' = [pc EXCEPT ![p][t] = at]
      /\ forker' = forker /\ opts' = opts /\ work' = work
  BY <1>1 DEF ThreadBegin, Runs, GoTo, Static
<1>3. Synced(p, t, l, d, r)
  BY <1>1, Zenon DEF ThreadBegin, LogSync, Synced, Write
<1>4. LogInv /\ Given /\ Control BY DEF SafeInv, LogInv
<1>5. IsLine(r, "tern_thread_begin", INVALID_INSID, turn[p]) BY <1>1, SyncRecProps
<1>6. r.turn = turn[p] BY <1>5 DEF IsLine
<1>7. LogTid(p, t) = t BY <1>2, <1>4 DEF Control, LogTid
<1>8. name \in LogNames BY <1>1 DEF getLogFilename, LogNames
<1>9. PICK f, e : f = Opened(disk[name]) /\ e = disk /\ IsDisk(e) /\ IsLog(disk[name])
  BY <1>4, <1>8 DEF LogInv, Types, IsDisk
<1>10. /\ IsLog(f) /\ StartOffset \in Nat
       /\ opts.type = "bin" => Len(f) = TrunkRecords
  BY <1>9, OpenedProps
<1>11. d = [e EXCEPT ![name] = f] BY <1>1, <1>9
<1>12. IsDisk(d) BY <1>8, <1>9, <1>10, <1>11, DiskExcept
<1>13. d[name] = f /\ DiskBut(d, name)
  BY <1>8, <1>9, <1>11 DEF IsDisk, DiskBut
<1>14. l \in Loggers /\ l.name = name
  BY <1>1, <1>8, <1>10 DEF NewLogger, Loggers
<1>15. /\ at \in Acting /\ PointOK(at) /\ pc[p][t] \notin Acting /\ pc[p][t] # "unborn"
  BY <1>1, <1>2 DEF Acting, PointOK
<1>16. /\ pc'[p][t] = at /\ OthersStay(p, t)
       /\ \A q \in Proc, u \in Tids : <<q, u>> # <<p, t>> =>
            pc'[q][u] \in Acting <=> pc[q][u] \in Acting
  BY <1>2, <1>4, <1>15, GoSafe
<1>17. /\ l.name = getLogFilename(p, LogTid(p, t)) /\ DiskBut(d, l.name)
       /\ pc'[p][t] \in Acting /\ PointOK(pc'[p][t])
       /\ opts.type = "bin" => Len(d[l.name]) = TrunkRecords
  BY <1>1, <1>7, <1>10, <1>13, <1>14, <1>15, <1>16
<1>18. Writes(p, t, l.name)
  BY <1>2, <1>3, <1>4, <1>6, <1>12, <1>14, <1>15, <1>16, <1>17, LogSyncWrites
<1>19. PICK recs : /\ recs = <<r>> /\ IsLog(recs) /\ Len(recs) = 1 /\ recs[1] = r
                   /\ Write(p, t, l, d, recs)
  BY <1>3, OneRecord DEF Synced
<1>20. Known(INVALID_INSID) /\ "tern_thread_begin" \in LoggedOps
  BY <1>4, WorkIsLogged DEF Known
<1>21. Loggable(recs) BY <1>4, <1>5, <1>19, <1>20, LineLoggable
<1> QED BY <1>2, <1>12, <1>14, <1>16, <1>17, <1>18, <1>19, <1>21, WriteSafe

\* The idle thread's creation is logged only with the idle thread on.
LEMMA CreateSafe ==
  ASSUME SafeInv, NEW p \in Proc, NEW t \in Tids, Create(p, t)
  PROVE  Points' /\ Mapped' /\ StopsAtItsLimits'
<1>1. LogInv /\ Given /\ Points /\ Control /\ Types BY DEF SafeInv, LogInv
<1>2. PICK op, insid, after :
        /\ op = "pthread_create" /\ Known(insid)
        /\ LogSync(p, t, lg[p][t], disk, op, insid, after)
        /\ fault[p] = None /\ pc[p][t] \in {"run", "spawn"}
  <2>1. CASE Runs(p, t, "run") /\ LogEnd(p, t, "pthread_create", InsidOf("pthread_create"))
    <3>1. LogSync(p, t, lg[p][t], disk, "pthread_create", InsidOf("pthread_create"), TRUE)
      BY <2>1 DEF LogEnd
    <3> QED BY <2>1, <3>1, InsidOfKnown DEF Runs
  <2>2. CASE Runs(p, t, "spawn") /\ LogEnd(p, t, "pthread_create", IdleInsid)
    <3>1. LogSync(p, t, lg[p][t], disk, "pthread_create", IdleInsid, TRUE) BY <2>2 DEF LogEnd
    <3>2. opts.idle BY <1>1, <2>2 DEF Runs, Points, PointOK
    <3>3. Known(IdleInsid) BY <3>2 DEF Known
    <3> QED BY <2>2, <3>1, <3>3 DEF Runs
  <2> QED BY <2>1, <2>2 DEF Create
<1>3. PICK c : c = nthread[p] OBVIOUS
<1>4. /\ nthread[p] < MaxThread /\ pc' = [pc EXCEPT ![p][t] = "run", ![p][c] = "new"]
      /\ forker' = forker /\ opts' = opts /\ work' = work
  BY <1>3 DEF Create, Static
<1>5. c \in Tids /\ c \in Nat /\ ~(c < nthread[p])
  BY <1>1, <1>3, <1>4, LogFacts DEF Types
<1>6. pc[p][c] = "unborn" BY <1>1, <1>5 DEF Control
<1>7. /\ pc'[p][t] = "run" /\ pc'[p][c] = "new"
      /\ \A q \in Proc, u \in Tids :
           <<q, u>> # <<p, t>> /\ <<q, u>> # <<p, c>> => pc'[q][u] = pc[q][u]
  BY <1>1, <1>2, <1>4, <1>5, <1>6 DEF Types
<1>8. OthersStay(p, t) BY <1>7 DEF OthersStay
<1>9. \A q \in Proc, u \in Tids : <<q, u>> # <<p, t>> =>
        pc'[q][u] \in Acting <=> pc[q][u] \in Acting
  BY <1>6, <1>7 DEF Acting
<1>10. pc'[p][t] \in Acting /\ PointOK(pc'[p][t]) /\ pc[p][t] \in Acting \ {"gone"}
  BY <1>2, <1>7 DEF Acting, PointOK
<1>11. op \in LoggedOps BY <1>1, <1>2, WorkIsLogged
<1> QED BY <1>2, <1>4, <1>8, <1>9, <1>10, <1>11, LineSafe

\* A line of an operation or of the end of a thread.
LEMMA OperateSafe ==
  ASSUME SafeInv, NEW p \in Proc, NEW t \in Tids,
         Operate(p, t) \/ OperateFirst(p, t) \/ OperateSecond(p, t) \/ ThreadEnd(p, t)
  PROVE  Points' /\ Mapped' /\ StopsAtItsLimits'
<1>1. LogInv /\ Given /\ Points /\ pc \in [Proc -> [Tids -> Pcs]]
  BY DEF SafeInv, LogInv, Types
<1>2. PICK op, insid : op = work.op /\ insid = InsidOf(op) OBVIOUS
<1>3. /\ work.kind = "sync" => op \in LoggedOps
      /\ "tern_thread_end" \in LoggedOps
  BY <1>1, <1>2, WorkIsLogged
<1>4. /\ {"run", "wait", "exit"} \subseteq Acting \ {"gone"} /\ "ended" \in Acting
      /\ PointOK("run") /\ PointOK("ended") /\ (work.kind = "sync" => PointOK("wait"))
      /\ Known(insid)
  BY <1>2, InsidOfKnown DEF Acting, PointOK
<1>5. ASSUME Operate(p, t) PROVE Points' /\ Mapped' /\ StopsAtItsLimits'
  <2>1. LogSync(p, t, lg[p][t], disk, op, insid, TRUE) BY <1>2, <1>5 DEF Operate, LogEnd
  <2>2. /\ fault[p] = None /\ pc[p][t] = "run" /\ pc' = pc /\ work.kind = "sync"
        /\ forker' = forker /\ opts' = opts /\ work' = work
    BY <1>5 DEF Operate, Runs, Static
  <2>3. pc' = [pc EXCEPT ![p][t] = "run"] BY <1>1, <2>2
  <2> QED BY <1>3, <1>4, <2>1, <2>2, <2>3, GoLineSafe, ZenonT(60)
<1>6. ASSUME OperateFirst(p, t) PROVE Points' /\ Mapped' /\ StopsAtItsLimits'
  <2>1. LogSync(p, t, lg[p][t], disk, op, insid, FALSE)
    BY <1>2, <1>6 DEF OperateFirst, LogFirst
  <2>2. /\ fault[p] = None /\ pc[p][t] = "run" /\ pc' = [pc EXCEPT ![p][t] = "wait"]
        /\ work.kind = "sync" /\ forker' = forker /\ opts' = opts /\ work' = work
    BY <1>6 DEF OperateFirst, Runs, GoTo, Static
  <2> QED BY <1>3, <1>4, <2>1, <2>2, GoLineSafe
<1>7. ASSUME OperateSecond(p, t) PROVE Points' /\ Mapped' /\ StopsAtItsLimits'
  <2>1. LogSync(p, t, lg[p][t], disk, op, insid, TRUE)
    BY <1>2, <1>7 DEF OperateSecond, LogEnd
  <2>2. /\ fault[p] = None /\ pc[p][t] = "wait" /\ pc' = [pc EXCEPT ![p][t] = "run"]
        /\ forker' = forker /\ opts' = opts /\ work' = work
    BY <1>7 DEF OperateSecond, Runs, GoTo, Static
  <2>3. work.kind = "sync" BY <1>1, <2>2 DEF Points, PointOK
  <2> QED BY <1>3, <1>4, <2>1, <2>2, <2>3, GoLineSafe
<1>8. ASSUME ThreadEnd(p, t) PROVE Points' /\ Mapped' /\ StopsAtItsLimits'
  <2>1. PICK id \in {INVALID_INSID, InsidOf("tern_thread_end")} :
          LogSync(p, t, lg[p][t], disk, "tern_thread_end", id, TRUE)
    BY <1>8 DEF ThreadEnd, LogEnd
  <2>2. Known(id)
    <3>1. Known(INVALID_INSID) BY DEF Known
    <3> QED BY <3>1, InsidOfKnown
  <2>3. /\ fault[p] = None /\ pc[p][t] \in {"run", "exit"}
        /\ pc' = [pc EXCEPT ![p][t] = "ended"]
        /\ forker' = forker /\ opts' = opts /\ work' = work
    BY <1>8 DEF ThreadEnd, Runs, GoTo, Static
  <2> QED BY <1>3, <1>4, <2>1, <2>2, <2>3, GoLineSafe
<1> QED BY <1>5, <1>6, <1>7, <1>8

\* The records of instrumented code.
LEMMA InstructionSafe ==
  ASSUME SafeInv, NEW p \in Proc, NEW t \in Tids,
         Instruction(p, t) \/ Call(p, t) \/ Return(p, t)
  PROVE  Points' /\ Mapped' /\ StopsAtItsLimits'
<1>1. LogInv /\ Given /\ Points /\ pc \in [Proc -> [Tids -> Pcs]]
  BY DEF SafeInv, LogInv, Types
<1>2. /\ {"run", "call"} \subseteq Acting \ {"gone"}
      /\ {"run", "call", "exit"} \subseteq Acting
      /\ PointOK("run") /\ PointOK("exit") /\ (work.kind = "call" => PointOK("call"))
  BY DEF Acting, PointOK
<1>3. work.kind # "sync" => opts.type = "bin" BY <1>1 DEF Given
<1>4. ASSUME Instruction(p, t) PROVE Points' /\ Mapped' /\ StopsAtItsLimits'
  <2>1. PICK recs : recs = <<PlainRec(work.kind, work.insid)>> OBVIOUS
  <2>2. IsLog(recs) /\ Len(recs) = 1 /\ recs[1].insid = setInsid(work.insid)
    BY <2>1, OneRecord DEF PlainRec
  <2>3. Write(p, t, lg[p][t], disk, recs) /\ turn' = turn /\ sched' = sched
    BY <1>4, <2>1 DEF Instruction
  <2>4. /\ fault[p] = None /\ pc[p][t] = "run" /\ pc' = pc
        /\ forker' = forker /\ opts' = opts /\ work' = work /\ work.kind # "sync"
    BY <1>4 DEF Instruction, Runs, Static
  <2>5. PICK at : at = "run" OBVIOUS
  <2>6. pc' = [pc EXCEPT ![p][t] = at] BY <1>1, <2>4, <2>5
  <2>7. \A i \in 1 .. Len(recs) : recs[i].insid = setInsid(work.insid) BY <2>2
  <2>8. /\ pc[p][t] \in Acting \ {"gone"} /\ opts.type = "bin" /\ fault[p] = None
        /\ at \in Acting /\ PointOK(at) /\ forker' = forker /\ opts' = opts /\ work' = work
    BY <1>2, <1>3, <2>4, <2>5
  <2> QED BY <2>2, <2>3, <2>6, <2>7, <2>8, RecordSafe
<1>5. ASSUME Call(p, t) PROVE Points' /\ Mapped' /\ StopsAtItsLimits'
  <2>1. PICK recs, id, narg, nr, at :
          /\ recs = CallRecs(id, narg, nr) /\ narg = work.narg /\ nr = work.noReturn
          /\ id = work.insid /\ at = IF work.noReturn THEN "exit" ELSE "call"
    OBVIOUS
  <2>2. /\ fault[p] = None /\ pc[p][t] = "run" /\ pc' = [pc EXCEPT ![p][t] = at]
        /\ work.kind = "call" /\ forker' = forker /\ opts' = opts /\ work' = work
    BY <1>5, <2>1 DEF Call, Runs, GoTo, Static
  <2>3. narg \in Nat BY <1>1, <2>1, <2>2, WorkIsLogged
  <2>4. /\ IsLog(recs) /\ \A k \in 1 .. Len(recs) : recs[k].insid = setInsid(work.insid)
    BY <2>1, <2>3, CallIsLog
  <2>5. Write(p, t, lg[p][t], disk, recs) /\ turn' = turn /\ sched' = sched
    BY <1>5, <2>1 DEF Call
  <2>6. at \in Acting /\ PointOK(at) /\ pc[p][t] \in Acting \ {"gone"} /\ opts.type = "bin"
    BY <1>2, <1>3, <2>1, <2>2
  <2> QED BY <2>2, <2>4, <2>5, <2>6, RecordSafe
<1>6. ASSUME Return(p, t) PROVE Points' /\ Mapped' /\ StopsAtItsLimits'
  <2>1. PICK recs : recs = <<ReturnRec(work.insid, work.narg)>> OBVIOUS
  <2>2. IsLog(recs) /\ Len(recs) = 1 /\ recs[1].insid = setInsid(work.insid)
    BY <2>1, OneRecord DEF ReturnRec
  <2>3. Write(p, t, lg[p][t], disk, recs) /\ turn' = turn /\ sched' = sched
    BY <1>6, <2>1 DEF Return
  <2>4. /\ fault[p] = None /\ pc[p][t] = "call" /\ pc' = [pc EXCEPT ![p][t] = "run"]
        /\ forker' = forker /\ opts' = opts /\ work' = work
    BY <1>6 DEF Return, Runs, GoTo, Static
  <2>5. work.kind = "call" /\ opts.type = "bin" BY <1>1, <1>3, <2>4 DEF Points, PointOK
  <2>6. \A i \in 1 .. Len(recs) : recs[i].insid = setInsid(work.insid) BY <2>2
  <2> QED BY <1>2, <2>2, <2>3, <2>4, <2>5, <2>6, RecordSafe
<1> QED BY <1>4, <1>5, <1>6

\* A log is cut when its logger is deleted; nobody else has it mapped.
LEMMA DeleteLoggerSafe ==
  ASSUME SafeInv, NEW p \in Proc, NEW t \in Tids, DeleteLogger(p, t)
  PROVE  Points' /\ Mapped' /\ StopsAtItsLimits'
<1>1. LogInv /\ Points /\ Mapped /\ StopsAtItsLimits BY DEF SafeInv
<1>2. pc' = [pc EXCEPT ![p][t] = "gone"] BY <1>1, DeleteLoggerWrites
<1>3. PICK x \in LogNames : x = getLogFilename(p, LogTid(p, t)) /\ Writes(p, t, x)
  BY <1>1, DeleteLoggerWrites
<1>4. fault' = fault /\ forker' = forker /\ opts' = opts /\ work' = work
  BY DEF DeleteLogger, Static
<1>5. "gone" \in Acting /\ PointOK("gone") BY DEF Acting, PointOK
<1>6. pc'[p][t] = "gone" /\ OthersStay(p, t) BY <1>1, <1>2, <1>5, GoSafe
<1>7. Points' BY <1>1, <1>4, <1>5, <1>6, PointsStep
<1>8. Mapped' BY <1>1, <1>3, <1>4, <1>6, MappedStep
<1>9. StopsAtItsLimits' BY <1>1, <1>4 DEF StopsAtItsLimits, OwnFiles
<1> QED BY <1>7, <1>8, <1>9

\* A turn without a line touches no log.
LEMMA SilentTurnSafe ==
  ASSUME SafeInv, NEW q \in Proc, SilentTurn(q)
  PROVE  Points' /\ Mapped' /\ StopsAtItsLimits'
<1>1. UNCHANGED <<opts, work, pc, lg, disk, fault, forker>> BY DEF SilentTurn, Static
<1>2. Points /\ Mapped /\ StopsAtItsLimits BY DEF SafeInv
<1>3. \A p \in Proc : OwnFiles(p)' = OwnFiles(p) BY <1>1 DEF OwnFiles
<1>4. Points' BY <1>1, <1>2 DEF Points, PointOK
<1>5. Mapped' BY <1>1, <1>2, <1>3 DEF Mapped
<1>6. StopsAtItsLimits' BY <1>1, <1>2, <1>3 DEF StopsAtItsLimits
<1> QED BY <1>4, <1>5, <1>6

\* A fork takes the parent's binary logs from it; the child has none yet.
LEMMA ForkSafe ==
  ASSUME SafeInv, NEW t \in Tids, Fork(t)
  PROVE  Points' /\ Mapped' /\ StopsAtItsLimits'
<1>1. PICK l, g, r, recs, f :
        /\ l = lg["parent"][t] /\ g = disk[lg["parent"][t].name]
        /\ r = SyncRec("fork", InsidOf("fork"), turn["parent"], TRUE) /\ recs = <<r>>
        /\ f = WriteFault(l, g, recs)
  OBVIOUS
<1>2. /\ forker = None /\ fault' = [fault EXCEPT !["parent"] = f]
      /\ pc' = [pc EXCEPT !["child"][Main] = "forked"]
      /\ forker' = t /\ opts' = opts /\ work' = work
  BY <1>1 DEF Fork, Static
<1>3. /\ Points /\ StopsAtItsLimits /\ Given /\ Control /\ IsDisk(disk)
      /\ pc \in [Proc -> [Tids -> Pcs]] /\ fault \in [Proc -> Faults]
      /\ lg \in [Proc -> [Tids -> Loggers]]
  BY SMTT(60) DEF SafeInv, LogInv, Types
<1>4. /\ "parent" \in Proc /\ "child" \in Proc /\ "parent" # "child"
      /\ t # None /\ Main \in Tids
      /\ \A p \in Proc : p # "parent" => p = "child"
  BY LogFacts DEF Proc
<1>5. \A p \in Proc, u \in Tids : pc'[p][u] = pc[p][u] \/ pc'[p][u] = "forked"
  BY <1>2, <1>3, <1>4
<1>6. Points'
  <2> SUFFICES ASSUME NEW p \in Proc, NEW u \in Tids PROVE PointOK(pc[p][u])'
    BY DEF Points
  <2>1. PointOK(pc[p][u]) BY <1>3 DEF Points
  <2> QED BY <1>2, <1>5, <2>1 DEF PointOK
<1>7. Mapped'
  <2> SUFFICES ASSUME opts.type = "bin", NEW p \in Proc, NEW u \in Tids, OwnFiles(p)',
                      pc'[p][u] \in Acting
               PROVE  FALSE
    BY <1>2 DEF Mapped
  <2>1. p = "child" BY <1>2, <1>4 DEF OwnFiles
  <2>2. \A v \in Tids : pc["child"][v] = "unborn" BY <1>2, <1>3 DEF Control
  <2> QED BY <1>5, <2>1, <2>2 DEF Acting
<1>8. fault'["parent"] = f /\ \A p \in Proc : p # "parent" => fault'[p] = fault[p]
  BY <1>2, <1>3, <1>4
<1>9. IsLog(recs) /\ Loggable(recs)
  <2>1. IsLog(recs) /\ Len(recs) = 1 /\ recs[1] = r BY <1>1, OneRecord
  <2>2. PICK id, n : id = InsidOf("fork") /\ n = turn["parent"] OBVIOUS
  <2>3. IsLine(r, "fork", id, n) BY <1>1, <2>2, SyncRecProps
  <2>4. "fork" \in LoggedOps /\ Known(id) BY <1>3, <2>2, WorkIsLogged, InsidOfKnown
  <2> QED BY <1>1, <1>3, <2>1, <2>3, <2>4, LineLoggable
<1>10. Len(g) \in Nat BY <1>1, <1>3, <1>4 DEF IsDisk, IsLog, Loggers
<1>11. /\ f # None => opts.type = "bin"
       /\ f = "insid" => opts.idle \/ work.insid >= MAX_INSID
  BY <1>1, <1>9, <1>10, FaultCauses
<1>12. /\ \A p \in Proc : OwnFiles(p)' => OwnFiles(p)
       /\ opts.type = "bin" => ~OwnFiles("parent")'
  BY <1>2, <1>4 DEF OwnFiles
<1>13. f = "sigbus" => opts.type = "bin" BY <1>11, LogFacts DEF Stops
<1>14. fault'["parent"] = "sigbus" => ~OwnFiles("parent")' BY <1>8, <1>12, <1>13
<1>15. StopsAtItsLimits' BY <1>2, <1>3, <1>4, <1>8, <1>11, <1>12, <1>14, StopsStep
<1> QED BY <1>6, <1>7, <1>15

\* The child opens a log of its own, mapped in full.
LEMMA ChildReturnSafe ==
  ASSUME SafeInv, ChildReturn
  PROVE  Points' /\ Mapped' /\ StopsAtItsLimits'
<1>1. PICK old, name, cut, l, d, r, recs, at :
        /\ old = lg["child"][Main] /\ name = getLogFilename("child", forker)
        /\ cut = [disk EXCEPT ![old.name] = Closed(disk[old.name], old.off)]
        /\ l = NewLogger(name) /\ d = [cut EXCEPT ![name] = Opened(cut[name])]
        /\ r = SyncRec("fork", InsidOf("fork"), turn["child"], TRUE) /\ recs = <<r>>
        /\ at = IF opts.idle THEN "spawn" ELSE "run"
  OBVIOUS
<1>2. /\ fault["child"] = None /\ pc["child"][Main] = "forked"
      /\ pc' = [pc EXCEPT !["child"][Main] = at]
      /\ forker' = forker /\ opts' = opts /\ work' = work
  BY <1>1 DEF ChildReturn, Runs, GoTo, Static
<1>3. Write("child", Main, l, d, recs)
  BY <1>1, ZenonT(60) DEF ChildReturn, LogSync, Write
<1>4. /\ Points /\ StopsAtItsLimits /\ Given /\ Types /\ Control /\ IsDisk(disk)
      /\ pc \in [Proc -> [Tids -> Pcs]] /\ lg \in [Proc -> [Tids -> Loggers]]
  BY SMTT(60) DEF SafeInv, LogInv, Types
<1>5. /\ "parent" \in Proc /\ "child" \in Proc /\ "parent" # "child" /\ Main \in Tids
      /\ \A p \in Proc : p # "parent" => p = "child"
  BY LogFacts DEF Proc
<1>6. forker # None /\ forker \in Tids BY <1>2, <1>4 DEF Control, Types
<1>7. name \in LogNames BY <1>1, <1>5, <1>6 DEF getLogFilename, LogNames
<1>8. old.name \in LogNames /\ old.off \in Nat BY <1>1, <1>4, <1>5 DEF Loggers
\* the two files
<1>9. IsDisk(cut)
  <2>1. PICK g : g = Closed(disk[old.name], old.off) OBVIOUS
  <2>2. IsLog(g) BY <1>4, <1>8, <2>1, ClosedProps DEF IsDisk
  <2>3. PICK e : e = disk /\ IsDisk(e) /\ cut = [e EXCEPT ![old.name] = g] BY <1>1, <1>4, <2>1
  <2> QED BY <1>8, <2>2, <2>3, DiskExcept
<1>10. PICK f : f = Opened(cut[name]) OBVIOUS
<1>11. /\ IsLog(f) /\ StartOffset \in Nat /\ (opts.type = "bin" => Len(f) = TrunkRecords)
  BY <1>7, <1>9, <1>10, OpenedProps DEF IsDisk
<1>12. d = [cut EXCEPT ![name] = f] BY <1>1, <1>10
<1>13. IsDisk(d) BY <1>7, <1>9, <1>11, <1>12, DiskExcept
<1>14. d[name] = f BY <1>7, <1>9, <1>12 DEF IsDisk
<1>15. l \in Loggers /\ l.name = name BY <1>1, <1>7, <1>11 DEF NewLogger, Loggers
\* the line
<1>16. IsLog(recs) /\ Loggable(recs)
  <2>1. IsLog(recs) /\ Len(recs) = 1 /\ recs[1] = r BY <1>1, OneRecord
  <2>2. PICK id, n : id = InsidOf("fork") /\ n = turn["child"] OBVIOUS
  <2>3. IsLine(r, "fork", id, n) BY <1>1, <2>2, SyncRecProps
  <2>4. "fork" \in LoggedOps /\ Known(id) BY <1>4, <2>2, WorkIsLogged, InsidOfKnown
  <2> QED BY <1>1, <1>4, <2>1, <2>3, <2>4, LineLoggable
<1>17. Written("child", Main, l, d, recs)
  BY <1>3, <1>4, <1>5, <1>13, <1>15, <1>16, WriteEffect
<1>18. /\ fault'["child"] = WriteFault(l, f, recs) /\ lg'["child"][Main].name = name
       /\ Len(f) >= l.off + Len(recs) => Len(disk'[name]) = Len(f)
       /\ \A p \in Proc : p # "child" => fault'[p] = fault[p]
  BY <1>14, <1>15, <1>17 DEF Written
<1>19. /\ fault'["child"] # None => opts.type = "bin"
       /\ fault'["child"] = "insid" => opts.idle \/ work.insid >= MAX_INSID
       /\ fault'["child"] = "sigbus" => Len(f) < TrunkRecords
       /\ fault'["child"] = None /\ opts.type = "bin" => l.off + Len(recs) <= Len(f)
  <2>1. PICK w : w = WriteFault(l, f, recs) OBVIOUS
  <2>2. Len(f) \in Nat BY <1>11 DEF IsLog
  <2>3. /\ w # None => opts.type = "bin"
        /\ w = "insid" => opts.idle \/ work.insid >= MAX_INSID
        /\ w = "sigbus" => Len(f) < TrunkRecords
        /\ w = None /\ opts.type = "bin" => l.off + Len(recs) <= Len(f)
    BY <1>16, <2>1, <2>2, FaultCauses
  <2> QED BY <1>18, <2>1, <2>3
<1>20. fault'["child"] # "sigbus"
  <2> SUFFICES ASSUME fault'["child"] = "sigbus" PROVE FALSE OBVIOUS
  <2>1. opts.type = "bin" BY <1>19, LogFacts DEF Stops
  <2> QED BY <1>11, <1>19, <2>1, LogFacts
<1>21. \A p \in Proc, u \in Tids :
         IF p = "child" /\ u = Main THEN pc'[p][u] = at ELSE pc'[p][u] = pc[p][u]
  BY <1>2, <1>4, <1>5
<1>22. Points'
  <2> SUFFICES ASSUME NEW p \in Proc, NEW u \in Tids PROVE PointOK(pc[p][u])'
    BY DEF Points
  <2>1. PointOK(pc[p][u]) /\ PointOK(at) BY <1>1, <1>4 DEF Points, PointOK
  <2>2. pc'[p][u] = pc[p][u] \/ pc'[p][u] = at BY <1>21
  <2> QED BY <1>2, <2>1, <2>2 DEF PointOK
<1>23. Mapped'
  <2> SUFFICES ASSUME opts.type = "bin", NEW p \in Proc, NEW u \in Tids, fault'[p] = None,
                      OwnFiles(p)', pc'[p][u] \in Acting
               PROVE  Len(disk'[lg'[p][u].name]) = TrunkRecords
    BY <1>2 DEF Mapped
  <2>1. p = "child" BY <1>2, <1>5, <1>6 DEF OwnFiles
  <2>2. u = Main
    <3> SUFFICES ASSUME u # Main PROVE FALSE OBVIOUS
    <3>1. pc[p][u] = "unborn" BY <1>2, <1>4, <2>1 DEF Control
    <3> QED BY <1>21, <3>1 DEF Acting
  <2>3. Len(f) \in Nat /\ l.off \in Nat /\ Len(recs) \in Nat
    BY <1>11, <1>15, <1>16 DEF IsLog, Loggers
  <2>4. Len(disk'[name]) = TrunkRecords BY <1>11, <1>18, <1>19, <2>1, <2>3
  <2> QED BY <1>18, <2>1, <2>2, <2>4
<1>24. \A p \in Proc : OwnFiles(p)' => OwnFiles(p) BY <1>2 DEF OwnFiles
<1>25. StopsAtItsLimits' BY <1>2, <1>4, <1>5, <1>18, <1>19, <1>20, <1>24, StopsStep
<1> QED BY <1>22, <1>23, <1>25

\* Every step keeps the points, the mappings and the limits.
LEMMA NextSafe ==
  ASSUME SafeInv, [Next]_vars
  PROVE  Points' /\ Mapped' /\ StopsAtItsLimits'
<1>1. ASSUME NEW p \in Proc, NEW t \in Tids, Step(p, t)
      PROVE  Points' /\ Mapped' /\ StopsAtItsLimits'
  BY <1>1, ThreadBeginSafe, CreateSafe, OperateSafe, InstructionSafe, DeleteLoggerSafe DEF Step
<1>2. ASSUME UNCHANGED vars PROVE Points' /\ Mapped' /\ StopsAtItsLimits'
  BY <1>2 DEF vars, SafeInv, Points, PointOK, Mapped, StopsAtItsLimits, OwnFiles
<1> QED BY <1>1, <1>2, SilentTurnSafe, ForkSafe, ChildReturnSafe DEF Next

\* At the start no log is open and nothing has failed.
LEMMA InitSafe == ASSUME Init PROVE Points /\ Mapped /\ StopsAtItsLimits
<1>1. \A p \in Proc : fault[p] = None BY DEF Init
<1>2. \A p \in Proc, t \in Tids : pc[p][t] \in {"new", "unborn"} BY DEF Init
<1>3. Points BY <1>2 DEF Points, PointOK
<1>4. Mapped BY <1>2 DEF Mapped, Acting
<1>5. StopsAtItsLimits BY <1>1, LogFacts DEF StopsAtItsLimits, Stops
<1> QED BY <1>3, <1>4, <1>5

\* Whatever its threads do and whatever the files held before, a logger stops its process
\* only at its limits: never with text logs, for an instruction id that does not fit, or
\* when its log is full; a write behind the end of the mapping needs a fork, or the
\* child's thread that has the forking thread's id, to have cut the file.
THEOREM LoggersStopAtTheirLimits == Spec => []StopsAtItsLimits
<1>1. Init => SafeInv BY InitLogInv, InitSafe DEF SafeInv
<1>2. SafeInv /\ [Next]_vars => SafeInv'
  <2> SUFFICES ASSUME SafeInv, [Next]_vars PROVE SafeInv' OBVIOUS
  <2>1. LogInv' /\ Given' BY NextLogInv, GivenStays DEF SafeInv
  <2>2. Points' /\ Mapped' /\ StopsAtItsLimits' BY NextSafe
  <2> QED BY <2>1, <2>2 DEF SafeInv
<1>3. SafeInv => StopsAtItsLimits BY DEF SafeInv
<1> QED BY <1>1, <1>2, <1>3, PTL DEF Spec
=============================================================================
