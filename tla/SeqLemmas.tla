----------------------------- MODULE SeqLemmas -----------------------------
(***************************************************************************)
(* What the queue operations of the scheduler models (push_back, pop_front *)
(* and erase) do to the set of queued elements and to the absence of       *)
(* duplicates.  The proofs about the schedulers use only these facts.      *)
(***************************************************************************)
EXTENDS Queues, FiniteSetTheorems, WellFoundedInduction, TLAPS

\* The elements of a sequence are the ones it has at its indices.
LEMMA InToSet ==
  ASSUME NEW S, NEW s \in Seq(S)
  PROVE  /\ ToSet(s) \subseteq S
         /\ \A i \in 1..Len(s) : s[i] \in ToSet(s) /\ s[i] \in S
         /\ \A x \in ToSet(s) : \E i \in 1..Len(s) : s[i] = x
  BY DEF ToSet

\* front() of a queue that is not empty is one of its elements.
LEMMA HeadProps ==
  ASSUME NEW S, NEW s \in Seq(S), s # <<>>
  PROVE  Head(s) \in ToSet(s) /\ Head(s) \in S /\ Len(s) >= 1
  BY DEF ToSet

\* push_back() adds its element and changes neither the head nor the order.
LEMMA AppendProps ==
  ASSUME NEW S, NEW s \in Seq(S), NEW x \in S
  PROVE  /\ Append(s, x) \in Seq(S)
         /\ Append(s, x) # <<>>
         /\ ToSet(Append(s, x)) = ToSet(s) \cup {x}
         /\ s # <<>> => Head(Append(s, x)) = Head(s)
         /\ IsInjective(s) /\ x \notin ToSet(s) => IsInjective(Append(s, x))
<1>1. /\ Append(s, x) \in Seq(S) /\ Append(s, x) # <<>>
      /\ s # <<>> => Head(Append(s, x)) = Head(s)
  OBVIOUS
<1>2. /\ Len(Append(s, x)) = Len(s) + 1
      /\ \A i \in 1..Len(s) : Append(s, x)[i] = s[i]
      /\ Append(s, x)[Len(s) + 1] = x
  OBVIOUS
<1>3. ToSet(Append(s, x)) = ToSet(s) \cup {x}
  <2>1. 1..(Len(s) + 1) = (1..Len(s)) \cup {Len(s) + 1}
    OBVIOUS
  <2> QED BY <1>1, <1>2, <2>1 DEF ToSet
<1>4. ASSUME IsInjective(s), x \notin ToSet(s)  PROVE IsInjective(Append(s, x))
  BY <1>2, <1>4, InToSet DEF IsInjective
<1> QED BY <1>1, <1>3, <1>4

\* pop_front() removes the head and nothing else.
LEMMA TailProps ==
  ASSUME NEW S, NEW s \in Seq(S), s # <<>>
  PROVE  /\ Tail(s) \in Seq(S)
         /\ ToSet(Tail(s)) \subseteq ToSet(s)
         /\ ToSet(s) = ToSet(Tail(s)) \cup {Head(s)}
         /\ IsInjective(s) => IsInjective(Tail(s)) /\ Head(s) \notin ToSet(Tail(s))
<1> DEFINE r == Tail(s)
<1>1. /\ r \in Seq(S) /\ Len(r) = Len(s) - 1 /\ Len(s) \in Nat /\ Len(s) >= 1
      /\ \A i \in 1..(Len(s) - 1) : r[i] = s[i + 1]
      /\ Head(s) = s[1]
  OBVIOUS
<1> HIDE DEF r
<1>2. ToSet(s) = ToSet(r) \cup {Head(s)}
  <2>1. ASSUME NEW i \in 1..Len(s) PROVE s[i] \in ToSet(r) \cup {Head(s)}
    <3>1. CASE i = 1 BY <3>1, <1>1
    <3>2. CASE i # 1
      <4>1. i - 1 \in 1..Len(r) /\ r[i - 1] = s[i]
        BY <3>2, <1>1
      <4> QED BY <4>1, <1>1, InToSet
    <3> QED BY <3>1, <3>2
  <2>2. ASSUME NEW i \in 1..Len(r) PROVE r[i] \in ToSet(s)
    BY <1>1, InToSet
  <2>3. ToSet(s) \subseteq ToSet(r) \cup {Head(s)} BY <2>1, InToSet
  <2>4. ToSet(r) \subseteq ToSet(s) BY <2>2, <1>1, InToSet
  <2>5. Head(s) \in ToSet(s) BY HeadProps
  <2> QED BY <2>3, <2>4, <2>5
<1>3. ASSUME IsInjective(s) PROVE IsInjective(r) /\ Head(s) \notin ToSet(r)
  <2>1. IsInjective(r) BY <1>1, <1>3 DEF IsInjective
  <2>2. \A i \in 1..Len(r) : r[i] # Head(s) BY <1>1, <1>3 DEF IsInjective
  <2> QED BY <2>1, <2>2, <1>1, InToSet
<1> QED BY <1>1, <1>2, <1>3 DEF r

\* erase() of the i-th element moves the ones behind it forward by one.
LEMMA RemoveAtIndex ==
  ASSUME NEW S, NEW s \in Seq(S), NEW i \in 1..Len(s)
  PROVE  /\ RemoveAt(s, i) \in Seq(S)
         /\ Len(RemoveAt(s, i)) = Len(s) - 1 /\ Len(s) \in Nat
         /\ \A j \in 1..(Len(s) - 1) : RemoveAt(s, i)[j] = IF j < i THEN s[j] ELSE s[j + 1]
<1> DEFINE r == RemoveAt(s, i)
           p == SubSeq(s, 1, i - 1)
           q == SubSeq(s, i + 1, Len(s))
<1>1. /\ p \in Seq(S) /\ Len(p) = i - 1
      /\ \A j \in 1..(i - 1) : p[j] = s[j]
  OBVIOUS
<1>2. /\ q \in Seq(S) /\ Len(q) = Len(s) - i
      /\ \A j \in 1..(Len(s) - i) : q[j] = s[j + i]
  OBVIOUS
<1>3. r = p \o q BY DEF RemoveAt
<1> HIDE DEF p, q, r
<1>4. r \in Seq(S) /\ Len(r) = Len(s) - 1 /\ Len(s) \in Nat
  BY <1>1, <1>2, <1>3
<1>5. ASSUME NEW j \in 1..(Len(s) - 1)
      PROVE  r[j] = IF j < i THEN s[j] ELSE s[j + 1]
  <2>1. CASE j < i BY <2>1, <1>1, <1>2, <1>3
  <2>2. CASE ~(j < i)
    <3>1. j - (i - 1) \in 1..(Len(s) - i) /\ (j - (i - 1)) + i = j + 1 BY <2>2
    <3>2. r[j] = q[j - (i - 1)] BY <2>2, <1>1, <1>2, <1>3
    <3>3. q[j - (i - 1)] = s[(j - (i - 1)) + i] BY <3>1, <1>2
    <3> QED BY <2>2, <3>1, <3>2, <3>3
  <2> QED BY <2>1, <2>2
<1> QED BY <1>4, <1>5 DEF r

\* erase() of the i-th element removes it and nothing else.
LEMMA RemoveAtProps ==
  ASSUME NEW S, NEW s \in Seq(S), NEW i \in 1..Len(s)
  PROVE  /\ RemoveAt(s, i) \in Seq(S)
         /\ ToSet(RemoveAt(s, i)) \subseteq ToSet(s)
         /\ ToSet(s) = ToSet(RemoveAt(s, i)) \cup {s[i]}
         /\ IsInjective(s) => IsInjective(RemoveAt(s, i)) /\ s[i] \notin ToSet(RemoveAt(s, i))
<1> DEFINE r == RemoveAt(s, i)
<1>1. /\ r \in Seq(S) /\ Len(r) = Len(s) - 1 /\ Len(s) \in Nat
      /\ \A j \in 1..(Len(s) - 1) : r[j] = IF j < i THEN s[j] ELSE s[j + 1]
  BY RemoveAtIndex
<1> HIDE DEF r
<1>2. ToSet(s) = ToSet(r) \cup {s[i]}
  <2>1. ASSUME NEW j \in 1..Len(s), j # i PROVE s[j] \in ToSet(r)
    <3>1. CASE j < i
      <4>1. j \in 1..Len(r) /\ r[j] = s[j] BY <3>1, <1>1
      <4> QED BY <4>1, <1>1, InToSet
    <3>2. CASE j > i
      <4>1. j - 1 \in 1..Len(r) /\ r[j - 1] = s[j] BY <3>2, <1>1
      <4> QED BY <4>1, <1>1, InToSet
    <3> QED BY <2>1, <3>1, <3>2
  <2>2. ASSUME NEW j \in 1..Len(r) PROVE r[j] \in ToSet(s)
    <3>1. (r[j] = s[j] /\ j \in 1..Len(s)) \/ (r[j] = s[j + 1] /\ j + 1 \in 1..Len(s))
      BY <1>1
    <3> QED BY <3>1, InToSet
  <2> QED BY <2>1, <2>2, <1>1, InToSet
<1>3. ASSUME IsInjective(s) PROVE IsInjective(r) /\ s[i] \notin ToSet(r)
  <2>1. IsInjective(r) BY <1>1, <1>3 DEF IsInjective
  <2>2. \A j \in 1..Len(r) : r[j] # s[i] BY <1>1, <1>3 DEF IsInjective
  <2> QED BY <2>1, <2>2, <1>1, InToSet
<1> QED BY <1>1, <1>2, <1>3 DEF r

\* Two queues without a common element, one behind the other.
LEMMA ConcatProps ==
  ASSUME NEW S, NEW p \in Seq(S), NEW q \in Seq(S)
  PROVE  /\ p \o q \in Seq(S) /\ ToSet(p \o q) = ToSet(p) \cup ToSet(q)
         /\ IsInjective(p) /\ IsInjective(q) /\ ToSet(p) \cap ToSet(q) = {} =>
              IsInjective(p \o q)
<1> DEFINE r == p \o q
<1>1. /\ r \in Seq(S) /\ Len(r) = Len(p) + Len(q) /\ Len(p) \in Nat /\ Len(q) \in Nat
      /\ \A i \in 1..Len(r) : r[i] = IF i <= Len(p) THEN p[i] ELSE q[i - Len(p)]
  OBVIOUS
<1> HIDE DEF r
<1>2. /\ \A i \in 1..Len(p) : p[i] \in ToSet(p)
      /\ \A i \in 1..Len(q) : q[i] \in ToSet(q)
      /\ \A i \in 1..Len(r) : r[i] \in ToSet(r)
      /\ \A x \in ToSet(p) : \E i \in 1..Len(p) : p[i] = x
      /\ \A x \in ToSet(q) : \E i \in 1..Len(q) : q[i] = x
      /\ \A x \in ToSet(r) : \E i \in 1..Len(r) : r[i] = x
  BY <1>1, InToSet
<1>3. ToSet(r) = ToSet(p) \cup ToSet(q)
  <2>1. ASSUME NEW i \in 1..Len(r) PROVE r[i] \in ToSet(p) \cup ToSet(q)
    <3>1. CASE i <= Len(p)
      BY <1>1, <1>2, <3>1
    <3>2. CASE ~ (i <= Len(p))
      <4>1. i - Len(p) \in 1..Len(q) /\ r[i] = q[i - Len(p)]
        BY <1>1, <3>2
      <4>2. QED
        BY <1>2, <4>1
    <3>3. QED
      BY <3>1, <3>2
  <2>2. ASSUME NEW i \in 1..Len(p) PROVE p[i] \in ToSet(r)
    <3>1. i \in 1..Len(r) /\ r[i] = p[i]
      BY <1>1
    <3>2. QED
      BY <1>2, <3>1
  <2>3. ASSUME NEW i \in 1..Len(q) PROVE q[i] \in ToSet(r)
    <3>1. /\ i + Len(p) \in 1..Len(r) /\ ~ (i + Len(p) <= Len(p))
          /\ (i + Len(p)) - Len(p) = i
      BY <1>1
    <3>2. r[i + Len(p)] = q[i]
      BY <1>1, <3>1
    <3>3. QED
      BY <1>2, <3>1, <3>2
  <2>4. QED
    BY <1>2, <2>1, <2>2, <2>3
<1>4. ASSUME IsInjective(p), IsInjective(q), ToSet(p) \cap ToSet(q) = {} PROVE IsInjective(r)
  <2> SUFFICES ASSUME NEW i \in 1..Len(r), NEW j \in 1..Len(r), r[i] = r[j] PROVE i = j
    BY <1>1 DEF IsInjective
  <2>1. CASE i <= Len(p) /\ j <= Len(p)
    BY <1>1, <1>4, <2>1 DEF IsInjective
  <2>2. CASE ~ (i <= Len(p)) /\ ~ (j <= Len(p))
    <3>1. i - Len(p) \in 1..Len(q) /\ j - Len(p) \in 1..Len(q)
      BY <1>1, <2>2
    <3>2. i - Len(p) = j - Len(p)
      BY <1>1, <1>4, <2>2, <3>1 DEF IsInjective
    <3>3. QED
      BY <1>1, <3>2
  <2>3. ASSUME NEW k \in 1..Len(p), NEW l \in 1..Len(r), ~ (l <= Len(p)), r[k] = r[l]
        PROVE  FALSE
    <3>1. l - Len(p) \in 1..Len(q) /\ r[k] = p[k] /\ r[l] = q[l - Len(p)]
      BY <1>1, <2>3
    <3>2. QED
      BY <1>2, <1>4, <2>3, <3>1
  <2>4. QED
    BY <1>1, <2>1, <2>2, <2>3
<1>5. QED
  BY <1>1, <1>3, <1>4 DEF r

\* Splitting a queue after its first k elements.
LEMMA SplitProps ==
  ASSUME NEW S, NEW s \in Seq(S), NEW k \in 0..Len(s)
  PROVE  LET p == SubSeq(s, 1, k)
             r == SubSeq(s, k + 1, Len(s))
         IN  /\ p \in Seq(S) /\ Len(p) = k /\ \A i \in 1..k : p[i] = s[i]
             /\ r \in Seq(S) /\ Len(r) = Len(s) - k /\ \A i \in 1..(Len(s) - k) : r[i] = s[k + i]
             /\ ToSet(s) = ToSet(p) \cup ToSet(r)
             /\ IsInjective(s) => /\ IsInjective(p) /\ IsInjective(r)
                                  /\ ToSet(p) \cap ToSet(r) = {}
<1> DEFINE p == SubSeq(s, 1, k)
           r == SubSeq(s, k + 1, Len(s))
<1>1. Len(s) \in Nat
  OBVIOUS
<1>2. p \in Seq(S) /\ Len(p) = k /\ \A i \in 1..k : p[i] = s[i]
  OBVIOUS
<1>3. r \in Seq(S) /\ Len(r) = Len(s) - k /\ \A i \in 1..(Len(s) - k) : r[i] = s[k + i]
  OBVIOUS
<1> HIDE DEF p, r
<1>4. /\ \A i \in 1..Len(p) : p[i] \in ToSet(p)
      /\ \A i \in 1..Len(r) : r[i] \in ToSet(r)
      /\ \A i \in 1..Len(s) : s[i] \in ToSet(s)
      /\ \A x \in ToSet(p) : \E i \in 1..Len(p) : p[i] = x
      /\ \A x \in ToSet(r) : \E i \in 1..Len(r) : r[i] = x
      /\ \A x \in ToSet(s) : \E i \in 1..Len(s) : s[i] = x
  BY <1>2, <1>3, InToSet
<1>5. ToSet(s) = ToSet(p) \cup ToSet(r)
  <2>1. ASSUME NEW i \in 1..Len(s) PROVE s[i] \in ToSet(p) \cup ToSet(r)
    <3>1. CASE i <= k
      BY <1>1, <1>2, <1>4, <3>1
    <3>2. CASE ~ (i <= k)
      <4>1. i - k \in 1..(Len(s) - k) /\ k + (i - k) = i
        BY <1>1, <3>2
      <4>2. QED
        BY <1>3, <1>4, <4>1
    <3>3. QED
      BY <3>1, <3>2
  <2>2. ASSUME NEW i \in 1..Len(p) PROVE p[i] \in ToSet(s)
    BY <1>1, <1>2, <1>4
  <2>3. ASSUME NEW i \in 1..Len(r) PROVE r[i] \in ToSet(s)
    BY <1>1, <1>3, <1>4
  <2>4. QED
    BY <1>4, <2>1, <2>2, <2>3
<1>6. ASSUME IsInjective(s)
      PROVE  IsInjective(p) /\ IsInjective(r) /\ ToSet(p) \cap ToSet(r) = {}
  <2>1. IsInjective(p)
    BY <1>1, <1>2, <1>6 DEF IsInjective
  <2>2. IsInjective(r)
    <3> SUFFICES ASSUME NEW i \in 1..Len(r), NEW j \in 1..Len(r), r[i] = r[j] PROVE i = j
      BY <1>3 DEF IsInjective
    <3>1. k + i \in 1..Len(s) /\ k + j \in 1..Len(s) /\ s[k + i] = s[k + j]
      BY <1>1, <1>3
    <3>2. k + i = k + j
      BY <1>6, <3>1 DEF IsInjective
    <3>3. QED
      BY <1>1, <3>2
  <2>3. ASSUME NEW i \in 1..Len(p), NEW j \in 1..Len(r), p[i] = r[j] PROVE FALSE
    <3>1. i \in 1..Len(s) /\ k + j \in 1..Len(s) /\ i # k + j /\ s[i] = s[k + j]
      BY <1>1, <1>2, <1>3, <2>3
    <3>2. QED
      BY <1>6, <3>1 DEF IsInjective
  <2>4. QED
    BY <1>4, <2>1, <2>2, <2>3
<1>7. QED
  BY <1>2, <1>3, <1>5, <1>6 DEF p, r

-----------------------------------------------------------------------------
(* Filtering a queue. *)

\* Every set of natural numbers that is not empty has a least element.
LEMMA LeastNat ==
  ASSUME NEW T \in SUBSET Nat, T # {}
  PROVE  \E m \in T : \A k \in T : m <= k
<1> DEFINE R == OpToRel(<, Nat)
<1>1. IsWellFoundedOn(R, Nat)
  BY NatLessThanWellFounded
<1>2. \A x, y \in Nat : y < x => <<y, x>> \in R
  BY DEF OpToRel
<1> HIDE DEF R
<1>3. PICK m \in T : \A k \in T : ~ (<<k, m>> \in R)
  BY <1>1, WFMin
<1>4. \A k \in T : ~ (k < m) /\ k \in Nat /\ m \in Nat
  BY <1>2, <1>3
<1>5. QED
  BY <1>4

\* Induction up to N, for a set of numbers.
LEMMA InductionUpTo ==
  ASSUME NEW N \in Nat, NEW P, 0 \in P, \A n \in 0..(N - 1) : n \in P => n + 1 \in P
  PROVE  0..N \subseteq P
<1> DEFINE T == (0..N) \ P
<1> SUFFICES ASSUME T # {} PROVE FALSE
  OBVIOUS
<1>1. T \in SUBSET Nat
  OBVIOUS
<1>2. PICK m \in T : \A k \in T : m <= k
  BY <1>1, LeastNat
<1>3. m # 0 /\ m - 1 \in 0..(N - 1) /\ m - 1 \in 0..N /\ m = (m - 1) + 1 /\ ~ (m <= m - 1)
  BY <1>2
<1>4. m - 1 \in P
  BY <1>2, <1>3
<1>5. QED
  BY <1>2, <1>3, <1>4

\* f holds what Only() has collected after each element of the queue.
Filter(f, q, S, n) ==
  f = [i \in 0..n |->
         IF i = 0 THEN << >> ELSE IF q[i] \in S THEN Append(f[i - 1], q[i]) ELSE f[i - 1]]

\* The recursive definition in Only() has a solution.
LEMMA FilterExists ==
  ASSUME NEW q, NEW S, NEW N \in Nat
  PROVE  \E f : Filter(f, q, S, N)
<1> DEFINE P == {n \in 0..N : \E f : Filter(f, q, S, n)}
<1>1. 0 \in P
  <2> DEFINE f == [i \in 0..0 |-> << >>]
  <2>1. Filter(f, q, S, 0)
    BY DEF Filter
  <2>2. QED
    BY <2>1
<1>2. ASSUME NEW n \in 0..(N - 1), n \in P PROVE n + 1 \in P
  <2>1. PICK f : Filter(f, q, S, n)
    BY <1>2
  <2> DEFINE g == [i \in 0..(n + 1) |->
                     IF i <= n THEN f[i]
                     ELSE IF q[i] \in S THEN Append(f[n], q[i]) ELSE f[n]]
  <2>2. Filter(g, q, S, n + 1)
    <3>1. \A i \in 0..n : f[i] = IF i = 0 THEN << >>
                                 ELSE IF q[i] \in S THEN Append(f[i - 1], q[i]) ELSE f[i - 1]
      BY <2>1, Zenon DEF Filter
    <3>2. \A i \in 0..n : g[i] = f[i]
      OBVIOUS
    <3>3. g[n + 1] = IF q[n + 1] \in S THEN Append(g[n], q[n + 1]) ELSE g[n]
      OBVIOUS
    <3>4. g = [i \in 0..(n + 1) |-> g[i]]
      OBVIOUS
    <3> HIDE DEF g
    <3>5. \A i \in 0..(n + 1) :
            g[i] = IF i = 0 THEN << >>
                   ELSE IF q[i] \in S THEN Append(g[i - 1], q[i]) ELSE g[i - 1]
      BY <3>1, <3>2, <3>3
    <3>6. QED
      BY <3>4, <3>5 DEF Filter
  <2>3. QED
    BY <2>2
<1>3. 0..N \subseteq P
  BY <1>1, <1>2, InductionUpTo
<1>4. QED
  BY <1>3

\* Only() keeps the elements of S, each as often as the queue has it.
LEMMA OnlyProps ==
  ASSUME NEW T, NEW q \in Seq(T), NEW S
  PROVE  /\ Only(q, S) \in Seq(T)
         /\ ToSet(Only(q, S)) = ToSet(q) \cap S
         /\ IsInjective(q) => IsInjective(Only(q, S))
<1> DEFINE N == Len(q)
           f == CHOOSE g : Filter(g, q, S, N)
           Upto(n) == {q[j] : j \in 1..n} \cap S
           Good(n) == /\ f[n] \in Seq(T) /\ ToSet(f[n]) = Upto(n)
                      /\ IsInjective(q) => IsInjective(f[n])
           P == {n \in 0..N : Good(n)}
<1>1. Filter(f, q, S, N)
  BY FilterExists
<1>2. Only(q, S) = f[N]
  BY DEF Only, Filter
<1>3. \A i \in 0..N : f[i] = IF i = 0 THEN << >>
                             ELSE IF q[i] \in S THEN Append(f[i - 1], q[i]) ELSE f[i - 1]
  BY <1>1, Zenon DEF Filter
<1> HIDE DEF f
<1>4. 0 \in P
  <2>1. f[0] = << >>
    BY <1>3
  <2>2. << >> \in Seq(T) /\ ToSet(<< >>) = {} /\ IsInjective(<< >>)
    BY DEF ToSet, IsInjective
  <2>3. Upto(0) = {} /\ 0 \in 0..N
    OBVIOUS
  <2>4. QED
    BY <2>1, <2>2, <2>3
<1>5. ASSUME NEW n \in 0..(N - 1), n \in P PROVE n + 1 \in P
  <2>1. Good(n) /\ n + 1 \in 1..N /\ n + 1 \in 0..N /\ q[n + 1] \in T
    BY <1>5
  <2>2. f[n + 1] = IF q[n + 1] \in S THEN Append(f[n], q[n + 1]) ELSE f[n]
    BY <1>3, <2>1
  <2>3. Upto(n + 1) = IF q[n + 1] \in S THEN Upto(n) \cup {q[n + 1]} ELSE Upto(n)
    <3>1. 1..(n + 1) = (1..n) \cup {n + 1}
      BY <2>1
    <3>2. {q[j] : j \in 1..(n + 1)} = {q[j] : j \in 1..n} \cup {q[n + 1]}
      BY <3>1
    <3>3. QED
      BY <3>2
  <2>4. IsInjective(q) => q[n + 1] \notin Upto(n)
    BY <2>1 DEF IsInjective
  <2> HIDE DEF Upto
  <2>5. CASE q[n + 1] \in S
    <3>1. /\ Append(f[n], q[n + 1]) \in Seq(T)
          /\ ToSet(Append(f[n], q[n + 1])) = ToSet(f[n]) \cup {q[n + 1]}
          /\ IsInjective(f[n]) /\ q[n + 1] \notin ToSet(f[n]) =>
               IsInjective(Append(f[n], q[n + 1]))
      BY <2>1, AppendProps
    <3>2. QED
      BY <2>1, <2>2, <2>3, <2>4, <2>5, <3>1
  <2>6. CASE q[n + 1] \notin S
    BY <2>1, <2>2, <2>3, <2>6
  <2>7. QED
    BY <2>5, <2>6
<1>6. N \in Nat /\ N \in 0..N
  OBVIOUS
<1>7. N \in P
  <2> HIDE DEF P, N
  <2>1. QED
    BY <1>4, <1>5, <1>6, InductionUpTo
<1>8. Upto(N) = ToSet(q) \cap S
  BY DEF ToSet
<1>9. QED
  BY <1>2, <1>7, <1>8

\* Only() keeps the order: its i-th element is the g[i]-th of the queue, which is
\* further back as soon as the head is left out.
Picks(g, r, q, n) ==
  /\ g \in [1..Len(r) -> 1..n]
  /\ \A i \in 1..Len(r) : r[i] = q[g[i]] /\ i <= g[i]
  /\ \A i, j \in 1..Len(r) : i < j => g[i] < g[j]

LEMMA OnlyOrder ==
  ASSUME NEW T, NEW q \in Seq(T), NEW S
  PROVE  \E g : /\ Picks(g, Only(q, S), q, Len(q))
                /\ q[1] \notin S => \A i \in 1..Len(Only(q, S)) : i < g[i]
<1> DEFINE N == Len(q)
           f == CHOOSE h : Filter(h, q, S, N)
           Past(n) == \E g : /\ Picks(g, f[n], q, n)
                             /\ q[1] \notin S => \A i \in 1..Len(f[n]) : i < g[i]
           P == {n \in 0..N : /\ f[n] \in Seq(T) /\ Len(f[n]) <= n
                              /\ q[1] \notin S /\ n # 0 => Len(f[n]) < n
                              /\ Past(n)}
<1>1. Filter(f, q, S, N)
  BY FilterExists
<1>2. Only(q, S) = f[N]
  BY DEF Only, Filter
<1>3. \A i \in 0..N : f[i] = IF i = 0 THEN << >>
                             ELSE IF q[i] \in S THEN Append(f[i - 1], q[i]) ELSE f[i - 1]
  BY <1>1, Zenon DEF Filter
<1> HIDE DEF f
<1>4. 0 \in P
  <2>a. f[0] = << >> /\ 0 \in 0..N
    BY <1>3
  <2>1. f[0] = << >> /\ Len(f[0]) = 0 /\ f[0] \in Seq(T) /\ 0 \in 0..N
    BY <2>a
  <2> DEFINE g == [i \in 1..0 |-> i]
  <2>2. Picks(g, f[0], q, 0) /\ \A i \in 1..Len(f[0]) : i < g[i]
    BY <2>1 DEF Picks
  <2>3. Past(0)
    BY <2>2
  <2> HIDE DEF N
  <2>4. Len(f[0]) <= 0
    BY <2>1
  <2>5. QED
    BY <2>1, <2>3, <2>4
<1>5. ASSUME NEW n \in 0..(N - 1), n \in P PROVE n + 1 \in P
  <2> DEFINE r == f[n]
             s == f[n + 1]
  <2>1. /\ r \in Seq(T) /\ Len(r) <= n /\ n \in Nat /\ n + 1 \in 0..N /\ q[n + 1] \in T
        /\ q[1] \notin S /\ n # 0 => Len(r) < n
    BY <1>5
  <2>2. PICK g : Picks(g, r, q, n) /\ (q[1] \notin S => \A i \in 1..Len(r) : i < g[i])
    BY <1>5
  <2>3. s = IF q[n + 1] \in S THEN Append(r, q[n + 1]) ELSE r
    BY <1>3, <2>1
  <2> HIDE DEF r, s
  <2>4. CASE q[n + 1] \in S
    <3> DEFINE k == Len(r) + 1
               e == [i \in 1..k |-> IF i = k THEN n + 1 ELSE g[i]]
    <3>1. /\ s \in Seq(T) /\ Len(s) = k /\ s[k] = q[n + 1] /\ \A i \in 1..Len(r) : s[i] = r[i]
      BY <2>1, <2>3, <2>4
    <3>2. \A i \in 1..Len(r) : g[i] \in 1..n /\ r[i] = q[g[i]] /\ i <= g[i]
      BY <2>2 DEF Picks
    <3>3. \A i \in 1..k : i = k \/ (i \in 1..Len(r) /\ i # k)
      BY <2>1
    <3>4. e \in [1..k -> 1..(n + 1)] /\ e[k] = n + 1 /\ \A i \in 1..Len(r) : e[i] = g[i]
      BY <2>1, <3>2, <3>3
    <3> HIDE DEF e
    <3>5. \A i \in 1..k : s[i] = q[e[i]] /\ i <= e[i]
      <4>1. s[k] = q[e[k]] /\ k <= e[k]
        BY <2>1, <3>1, <3>4
      <4>2. \A i \in 1..Len(r) : s[i] = q[e[i]] /\ i <= e[i]
        BY <3>1, <3>2, <3>4
      <4>3. QED
        BY <3>3, <4>1, <4>2
    <3>6. \A i, j \in 1..k : i < j => e[i] < e[j]
      <4> SUFFICES ASSUME NEW i \in 1..k, NEW j \in 1..k, i < j PROVE e[i] < e[j]
        OBVIOUS
      <4>1. i \in 1..Len(r)
        BY <2>1
      <4>2. CASE j = k
        BY <2>1, <3>2, <3>4, <4>1, <4>2
      <4>3. CASE j # k
        <5>1. j \in 1..Len(r)
          BY <3>3, <4>3
        <5>2. QED
          BY <2>2, <3>4, <4>1, <5>1 DEF Picks
      <4>4. QED
        BY <4>2, <4>3
    <3>7. q[1] \notin S => n # 0
      BY <2>4
    <3>8. q[1] \notin S => \A i \in 1..k : i < e[i]
      BY <2>1, <2>2, <3>3, <3>4, <3>7
    <3>9. Picks(e, s, q, n + 1) /\ (q[1] \notin S => \A i \in 1..Len(s) : i < e[i])
      BY <3>1, <3>4, <3>5, <3>6, <3>8 DEF Picks
    <3>10. Len(s) <= n + 1 /\ (q[1] \notin S /\ n + 1 # 0 => Len(s) < n + 1)
      BY <2>1, <3>1, <3>7
    <3>11. QED
      BY <2>1, <3>1, <3>9, <3>10 DEF s
  <2>5. CASE q[n + 1] \notin S
    <3>1. s = r
      BY <2>3, <2>5
    <3>2. Picks(g, s, q, n + 1)
      BY <2>1, <2>2, <3>1 DEF Picks
    <3>3. Len(s) <= n + 1 /\ (q[1] \notin S /\ n + 1 # 0 => Len(s) < n + 1)
      BY <2>1, <3>1
    <3>4. QED
      BY <2>1, <2>2, <3>1, <3>2, <3>3 DEF s
  <2>6. QED
    BY <2>4, <2>5
<1>6. N \in Nat /\ N \in 0..N
  OBVIOUS
<1>7. N \in P
  <2> HIDE DEF P, N
  <2>1. QED
    BY <1>4, <1>5, <1>6, InductionUpTo
<1>8. QED
  BY <1>2, <1>7

\* Except() keeps all the others.
LEMMA ExceptProps ==
  ASSUME NEW T, NEW q \in Seq(T), NEW S
  PROVE  /\ Except(q, S) \in Seq(T)
         /\ ToSet(Except(q, S)) = ToSet(q) \ S
         /\ IsInjective(q) => IsInjective(Except(q, S))
  BY OnlyProps DEF Except

\* The least element of a set of numbers.
LEMMA MinProps ==
  ASSUME NEW T \in SUBSET Nat, T # {}
  PROVE  Min(T) \in T /\ \A k \in T : Min(T) <= k
  BY LeastNat DEF Min

\* A queue without duplicates is as long as the set of its elements is large.
LEMMA LenIsCardinality ==
  ASSUME NEW T, NEW q \in Seq(T), IsInjective(q)
  PROVE  IsFiniteSet(ToSet(q)) /\ Cardinality(ToSet(q)) = Len(q) /\ (q = << >> <=> ToSet(q) = {})
<1>1. q \in Bijection(1..Len(q), ToSet(q))
  BY DEF Bijection, Injection, Surjection, IsInjective, ToSet
<1>2. Len(q) \in Nat
  OBVIOUS
<1>3. ExistsBijection(1..Len(q), ToSet(q))
  BY <1>1 DEF ExistsBijection
<1>4. QED
  BY <1>2, <1>3, FS_CountingElements, FS_NatBijection DEF ToSet
=============================================================================
