--------------------------- MODULE SequenceLemmas ---------------------------
(***************************************************************************)
(* Induction over Nat from the least-number principle, and with it what is *)
(* true of recursive functions, once and for all, and what FlattenSeq      *)
(* computes: the events of a stream in the order of its commits            *)
(* (get_events).                                                           *)
(***************************************************************************)
EXTENDS Integers, Sequences, SequencesExt, WellFoundedInduction, TLAPS

\* A non-empty set of naturals has a least element.
LEMMA LeastNat ==
  ASSUME NEW T, T \subseteq Nat, T # {}
  PROVE  \E x \in T : \A y \in T : x <= y
<1> DEFINE R == OpToRel(<, Nat)
<1>1. IsWellFoundedOn(R, Nat)
  BY NatLessThanWellFounded, Zenon
<1>2. \A x, y \in Nat : x < y => <<x, y>> \in R
  BY Zenon DEF OpToRel
<1>3. \E x \in T : \A y \in T : ~(<<y, x>> \in R)
  <2> HIDE DEF R
  <2> QED BY <1>1, WFMin, Zenon
<1> HIDE DEF R
<1>4. PICK x \in T : \A y \in T : ~(<<y, x>> \in R)
  BY <1>3
<1>5. \A y \in T : ~(y < x)
  BY <1>2, <1>4, Zenon
<1>6. \A y \in T : y \in Int /\ x \in Int
  OBVIOUS
<1>7. \A y \in T : x <= y
  BY <1>5, <1>6, SMT
<1> QED BY <1>7

\* A set of naturals with 0 and every successor of its elements is Nat.
LEMMA InductionOnNat ==
  ASSUME NEW T \in SUBSET Nat, 0 \in T, \A n \in T : n + 1 \in T
  PROVE  T = Nat
<1> SUFFICES ASSUME Nat \ T # {} PROVE FALSE
  OBVIOUS
<1>1. PICK x \in Nat \ T : \A y \in Nat \ T : x <= y
  BY LeastNat
<1>2. x - 1 \in T
  BY <1>1
<1> QED BY <1>1, <1>2

\* What two sequences in a row are made of.
LEMMA ConcatElements ==
  ASSUME NEW E, NEW p \in Seq(E), NEW q \in Seq(E)
  PROVE  /\ p \o q \in Seq(E) /\ Len(p \o q) = Len(p) + Len(q)
         /\ \A k \in 1..Len(p) : (p \o q)[k] = p[k]
         /\ \A k \in (Len(p) + 1)..(Len(p) + Len(q)) : (p \o q)[k] = q[k - Len(p)]
OBVIOUS

\* Sequences of the same elements are the same.
LEMMA SameElements ==
  ASSUME NEW E, NEW p \in Seq(E), NEW q \in Seq(E), Len(p) = Len(q),
         \A i \in 1..Len(p) : p[i] = q[i]
  PROVE  p = q
OBVIOUS

\* Three sequences in a row, however they are put together.
Associates(p, q, r) == (p \o q) \o r = p \o (q \o r)

LEMMA ConcatAssociates ==
  ASSUME NEW E, NEW p \in Seq(E), NEW q \in Seq(E), NEW r \in Seq(E)
  PROVE  Associates(p, q, r)
BY DEF Associates

\* One element in front of a sequence.
LEMMA OneInFront ==
  ASSUME NEW E, NEW x \in E, NEW q \in Seq(E)
  PROVE  /\ <<x>> \in Seq(E) /\ <<x>> \o q \in Seq(E) /\ Len(<<x>> \o q) = Len(q) + 1
         /\ (<<x>> \o q)[1] = x
         /\ \A k \in 2..(Len(q) + 1) : (<<x>> \o q)[k] = q[k - 1]
OBVIOUS

\* The last element of a sequence is the one appended last.
LEMMA LastOfAppend ==
  ASSUME NEW E, NEW q \in Seq(E), NEW e \in E
  PROVE  Append(q, e) # <<>> /\ Last(Append(q, e)) = e
BY DEF Last

\* A sequence is a prefix of itself and of itself with one more element.
LEMMA PrefixOfAppend ==
  ASSUME NEW E, NEW q \in Seq(E), NEW t, t = q \/ \E e \in E : t = Append(q, e)
  PROVE  IsPrefix(q, t)
<1>1. SubSeq(q, 1, Len(q)) = SubSeq(t, 1, Len(q)) /\ Len(q) <= Len(t)
  OBVIOUS
<1> QED BY <1>1 DEF IsPrefix

\* A prefix is shorter and agrees with the sequence where it is defined.
LEMMA PrefixElements ==
  ASSUME NEW E, NEW q \in Seq(E), NEW t \in Seq(E)
  PROVE  IsPrefix(q, t) <=> Len(q) <= Len(t) /\ \A i \in 1..Len(q) : q[i] = t[i]
<1>1. ASSUME IsPrefix(q, t) PROVE Len(q) <= Len(t) /\ \A i \in 1..Len(q) : q[i] = t[i]
  <2>1. Len(q) <= Len(t) /\ SubSeq(q, 1, Len(q)) = SubSeq(t, 1, Len(q))
    BY <1>1 DEF IsPrefix
  <2>2. \A i \in 1..Len(q) : SubSeq(q, 1, Len(q))[i] = q[i] /\ SubSeq(t, 1, Len(q))[i] = t[i]
    BY <2>1
  <2> QED BY <2>1, <2>2
<1>2. ASSUME Len(q) <= Len(t), \A i \in 1..Len(q) : q[i] = t[i] PROVE IsPrefix(q, t)
  <2>1. SubSeq(q, 1, Len(q)) = SubSeq(t, 1, Len(q))
    BY <1>2
  <2> QED BY <1>2, <2>1 DEF IsPrefix
<1> QED BY <1>1, <1>2

\* Prefixes of prefixes are prefixes.
LEMMA PrefixTransitive ==
  ASSUME NEW E, NEW q \in Seq(E), NEW r \in Seq(E), NEW t \in Seq(E),
         IsPrefix(q, r), IsPrefix(r, t)
  PROVE  IsPrefix(q, t)
<1>1. /\ Len(q) <= Len(r) /\ \A i \in 1..Len(q) : q[i] = r[i]
      /\ Len(r) <= Len(t) /\ \A i \in 1..Len(r) : r[i] = t[i]
  BY PrefixElements
<1>2. Len(q) <= Len(t) /\ \A i \in 1..Len(q) : q[i] = t[i]
  BY <1>1
<1> QED BY <1>2, PrefixElements

----------------------------------------------------------------------------
(* Recursive functions over 0..n *)

\* f starts at base and goes on by steps.
Recurs(f, n, base, step) == f[0] = base /\ \A i \in 1..n : f[i] = step[i][f[i-1]]

\* A recursion whose steps stay in a set has a function.
LEMMA RecursionExists ==
  ASSUME NEW n \in Nat, NEW V, NEW base \in V, NEW step \in [1..n -> [V -> V]]
  PROVE  \E f \in [0..n -> V] : Recurs(f, n, base, step)
<1> DEFINE Good(f, m) == f[0] = base /\ \A i \in 1..m : f[i] = step[i][f[i-1]]
           T == {m \in Nat : m <= n => \E f \in [0..m -> V] : Good(f, m)}
<1>1. 0 \in T
  <2> DEFINE f == [i \in 0..0 |-> base]
  <2>1. f \in [0..0 -> V] /\ Good(f, 0)
    OBVIOUS
  <2> QED BY <2>1
<1>2. ASSUME NEW m \in T PROVE m + 1 \in T
  <2> SUFFICES ASSUME m + 1 <= n PROVE \E g \in [0..(m + 1) -> V] : Good(g, m + 1)
    <3> HIDE DEF Good
    <3> QED OBVIOUS
  <2>1. PICK f \in [0..m -> V] : Good(f, m)
    OBVIOUS
  <2> DEFINE g == [i \in 0..(m + 1) |-> IF i \in 0..m THEN f[i] ELSE step[i][f[i-1]]]
  <2>2. f[m] \in V /\ step[m + 1][f[m]] \in V
    OBVIOUS
  <2>3. g \in [0..(m + 1) -> V]
    BY <2>2
  <2>4. ASSUME NEW i \in 1..(m + 1) PROVE g[i] = step[i][g[i-1]]
    <3>1. i - 1 \in 0..m /\ i - 1 \in 0..(m + 1) /\ g[i-1] = f[i-1]
      OBVIOUS
    <3>2. CASE i \in 1..m
      <4>1. g[i] = f[i] /\ f[i] = step[i][f[i-1]]
        BY <2>1, <3>2
      <4> QED BY <3>1, <4>1
    <3>3. CASE i = m + 1
      BY <3>1, <3>3
    <3> QED BY <3>2, <3>3
  <2>5. g[0] = base
    BY <2>1
  <2> QED BY <2>3, <2>4, <2>5
<1>3. T = Nat
  <2>1. T \in SUBSET Nat
    OBVIOUS
  <2> HIDE DEF T
  <2> QED BY <1>1, <1>2, <2>1, InductionOnNat
<1>4. n \in T
  <2> HIDE DEF T
  <2> QED BY <1>3
<1> QED BY <1>4 DEF Recurs

\* What holds at 0 and is kept by each step holds up to n.
LEMMA RecursionStays ==
  ASSUME NEW n \in Nat, NEW V, NEW f, f[0] \in V,
         \A i \in 1..n : f[i-1] \in V => f[i] \in V
  PROVE  f[n] \in V
<1> DEFINE T == {m \in Nat : m <= n => f[m] \in V}
<1>1. 0 \in T
  OBVIOUS
<1>2. ASSUME NEW m \in T PROVE m + 1 \in T
  <2> SUFFICES ASSUME m + 1 <= n PROVE f[m + 1] \in V
    OBVIOUS
  <2>1. m + 1 \in 1..n /\ (m + 1) - 1 = m /\ f[m] \in V
    OBVIOUS
  <2> QED BY <2>1
<1>3. T = Nat
  <2>1. T \in SUBSET Nat
    OBVIOUS
  <2> HIDE DEF T
  <2> QED BY <1>1, <1>2, <2>1, InductionOnNat
<1>4. n \in T
  <2> HIDE DEF T
  <2> QED BY <1>3
<1> QED BY <1>4

----------------------------------------------------------------------------
(* FlattenSeq *)

\* What FlattenSeq's recursive function satisfies on 1..n.
Flattens(f, ss, n) ==
  f = [i \in 1..n |-> IF i = 1 THEN ss[i] ELSE f[i-1] \o ss[i]]

\* Such a function exists.
LEMMA FlattensExists ==
  ASSUME NEW E, NEW ss \in Seq(Seq(E))
  PROVE  \E f : Flattens(f, ss, Len(ss))
<1> DEFINE T == {n \in Nat : n <= Len(ss) => \E f \in [1..n -> Seq(E)] : Flattens(f, ss, n)}
<1>1. 0 \in T
  <2> DEFINE f == [i \in 1..0 |-> <<>>]
  <2>1. f \in [1..0 -> Seq(E)] /\ Flattens(f, ss, 0)
    BY DEF Flattens
  <2> QED BY <2>1
<1>2. ASSUME NEW n \in T PROVE n + 1 \in T
  <2> SUFFICES ASSUME n + 1 <= Len(ss)
               PROVE  \E g \in [1..(n + 1) -> Seq(E)] : Flattens(g, ss, n + 1)
    OBVIOUS
  <2>1. PICK f \in [1..n -> Seq(E)] : Flattens(f, ss, n)
    OBVIOUS
  <2> DEFINE g == [i \in 1..(n + 1) |->
                     IF i \in 1..n THEN f[i] ELSE IF i = 1 THEN ss[i] ELSE f[i-1] \o ss[i]]
  <2>2. g \in [1..(n + 1) -> Seq(E)]
    OBVIOUS
  <2>3. \A i \in 1..(n + 1) : g[i] = IF i = 1 THEN ss[i] ELSE g[i-1] \o ss[i]
    <3> SUFFICES ASSUME NEW i \in 1..(n + 1)
                 PROVE  g[i] = IF i = 1 THEN ss[i] ELSE g[i-1] \o ss[i]
      OBVIOUS
    <3>1. CASE i \in 1..n
      <4>1. f[i] = IF i = 1 THEN ss[i] ELSE f[i-1] \o ss[i]
        BY <2>1, <3>1 DEF Flattens
      <4>2. i # 1 => i - 1 \in 1..n /\ i - 1 \in 1..(n + 1)
        BY <3>1
      <4> QED BY <3>1, <4>1, <4>2
    <3>2. CASE i = n + 1
      <4>1. i \notin 1..n /\ (i # 1 => i - 1 \in 1..n /\ i - 1 \in 1..(n + 1))
        BY <3>2
      <4> QED BY <4>1
    <3> QED BY <3>1, <3>2
  <2>4. Flattens(g, ss, n + 1)
    BY <2>3 DEF Flattens
  <2> QED BY <2>2, <2>4
<1>3. T = Nat
  <2>1. T \in SUBSET Nat
    OBVIOUS
  <2> HIDE DEF T
  <2> QED BY <1>1, <1>2, <2>1, InductionOnNat
<1>4. Len(ss) \in T
  <2> HIDE DEF T
  <2> QED BY <1>3
<1> QED BY <1>4

\* FlattenSeq is the last value of such a function.
LEMMA FlattenSeqIsLast ==
  ASSUME NEW E, NEW ss \in Seq(Seq(E)), ss # <<>>
  PROVE  \E f : Flattens(f, ss, Len(ss)) /\ FlattenSeq(ss) = f[Len(ss)]
<1> DEFINE P(f) == f = [i \in 1..Len(ss) |-> IF i = 1 THEN ss[i] ELSE f[i-1] \o ss[i]]
           F == CHOOSE f : P(f)
<1>1. \E f : P(f)
  BY FlattensExists DEF Flattens
<1>2. P(F)
  <2> HIDE DEF P
  <2> QED BY <1>1
<1>3. FlattenSeq(ss) = F[Len(ss)]
  BY DEF FlattenSeq
<1>4. Flattens(F, ss, Len(ss))
  BY <1>2 DEF Flattens
<1> QED BY <1>3, <1>4

\* A flattened sequence of sequences over E is a sequence over E.
LEMMA FlattenSeqType ==
  ASSUME NEW E, NEW ss \in Seq(Seq(E))
  PROVE  FlattenSeq(ss) \in Seq(E)
<1>1. CASE ss = <<>>
  BY <1>1 DEF FlattenSeq
<1>2. CASE ss # <<>>
  <2>1. PICK f : Flattens(f, ss, Len(ss)) /\ FlattenSeq(ss) = f[Len(ss)]
    BY <1>2, FlattenSeqIsLast
  <2> DEFINE T == {n \in Nat : n \in 1..Len(ss) => f[n] \in Seq(E)}
  <2>2. 0 \in T
    OBVIOUS
  <2>3. ASSUME NEW n \in T PROVE n + 1 \in T
    <3> SUFFICES ASSUME n + 1 \in 1..Len(ss) PROVE f[n + 1] \in Seq(E)
      OBVIOUS
    <3>1. f[n + 1] = IF n + 1 = 1 THEN ss[n + 1] ELSE f[(n + 1) - 1] \o ss[n + 1]
      BY <2>1 DEF Flattens
    <3>2. ss[n + 1] \in Seq(E)
      OBVIOUS
    <3>3. CASE n = 0
      BY <3>1, <3>2, <3>3
    <3>4. CASE n # 0
      <4>1. f[n] \in Seq(E) /\ (n + 1) - 1 = n
        BY <3>4
      <4> QED BY <3>1, <3>2, <3>4, <4>1
    <3> QED BY <3>3, <3>4
  <2>4. T = Nat
    <3>1. T \in SUBSET Nat
      OBVIOUS
    <3> HIDE DEF T
    <3> QED BY <2>2, <2>3, <3>1, InductionOnNat
  <2>5. Len(ss) \in 1..Len(ss)
    BY <1>2
  <2> QED BY <2>1, <2>4, <2>5
<1> QED BY <1>1, <1>2

\* What two sequences in a row hold.
LEMMA RangeOfConcat ==
  ASSUME NEW E, NEW p \in Seq(E), NEW q \in Seq(E)
  PROVE  Range(p \o q) = Range(p) \cup Range(q)
<1> DEFINE r == p \o q
<1>1. /\ DOMAIN p = 1..Len(p) /\ DOMAIN q = 1..Len(q) /\ DOMAIN r = 1..(Len(p) + Len(q))
      /\ Len(p) \in Nat /\ Len(q) \in Nat
      /\ \A k \in 1..Len(p) : r[k] = p[k]
      /\ \A k \in (Len(p) + 1)..(Len(p) + Len(q)) : r[k] = q[k - Len(p)]
  BY ConcatElements
<1> HIDE DEF r
<1>2. ASSUME NEW k \in DOMAIN p PROVE p[k] \in Range(r)
  <2>1. k \in DOMAIN r /\ r[k] = p[k]
    BY <1>1
  <2> QED BY <2>1 DEF Range
<1>3. ASSUME NEW k \in DOMAIN q PROVE q[k] \in Range(r)
  <2>1. Len(p) + k \in DOMAIN r /\ Len(p) + k \in (Len(p) + 1)..(Len(p) + Len(q))
        /\ (Len(p) + k) - Len(p) = k
    BY <1>1
  <2>2. r[Len(p) + k] = q[k]
    BY <1>1, <2>1
  <2> QED BY <2>1, <2>2 DEF Range
<1>4. ASSUME NEW k \in DOMAIN r PROVE r[k] \in Range(p) \cup Range(q)
  <2>1. CASE k \in 1..Len(p)
    BY <1>1, <2>1 DEF Range
  <2>2. CASE k \notin 1..Len(p)
    <3>1. k \in (Len(p) + 1)..(Len(p) + Len(q)) /\ k - Len(p) \in DOMAIN q
      BY <1>1, <2>2
    <3> QED BY <1>1, <3>1 DEF Range
  <2> QED BY <2>1, <2>2
<1> QED BY <1>2, <1>3, <1>4 DEF Range, r

\* A flattened sequence holds what its sequences hold.
LEMMA FlattenSeqElements ==
  ASSUME NEW E, NEW ss \in Seq(Seq(E)), NEW x
  PROVE  x \in Range(FlattenSeq(ss)) <=> \E i \in 1..Len(ss) : x \in Range(ss[i])
<1>1. CASE ss = <<>>
  <2>1. FlattenSeq(ss) = <<>> /\ Len(ss) = 0 /\ DOMAIN <<>> = {}
    BY <1>1 DEF FlattenSeq
  <2> QED BY <2>1 DEF Range
<1>2. CASE ss # <<>>
  <2> DEFINE N == Len(ss)
  <2>1. PICK f : Flattens(f, ss, N) /\ FlattenSeq(ss) = f[N]
    BY <1>2, FlattenSeqIsLast
  <2>2. N \in Nat /\ N \in 1..N /\ \A i \in 1..N : ss[i] \in Seq(E)
    BY <1>2
  <2> HIDE DEF N
  <2>3. \A i \in 1..N : f[i] = IF i = 1 THEN ss[i] ELSE f[i-1] \o ss[i]
    BY <2>1 DEF Flattens
  <2> DEFINE Holds(n) == /\ f[n] \in Seq(E)
                         /\ x \in Range(f[n]) <=> \E i \in 1..n : x \in Range(ss[i])
             T == {n \in Nat : n \in 1..N => Holds(n)}
  <2>4. 0 \in T
    OBVIOUS
  <2>5. ASSUME NEW n \in T PROVE n + 1 \in T
    <3> SUFFICES ASSUME n + 1 \in 1..N PROVE Holds(n + 1)
      <4> HIDE DEF Holds
      <4> QED OBVIOUS
    <3>1. ss[n + 1] \in Seq(E) /\ (n + 1) - 1 = n
      BY <2>2
    <3>2. \A i : i \in 1..(n + 1) <=> i \in 1..n \/ i = n + 1
      OBVIOUS
    <3>3. CASE n = 0
      BY <2>3, <3>1, <3>2, <3>3
    <3>4. CASE n # 0
      <4>1. n \in 1..N /\ Holds(n)
        <5> HIDE DEF Holds
        <5> QED BY <2>2, <3>4
      <4>2. f[n + 1] = f[n] \o ss[n + 1] /\ f[n] \in Seq(E)
        <5>1. f[n + 1] = IF n + 1 = 1 THEN ss[n + 1] ELSE f[(n + 1) - 1] \o ss[n + 1]
          BY <2>3
        <5>2. n + 1 # 1
          BY <3>4
        <5> QED BY <3>1, <4>1, <5>1, <5>2
      <4>3. Range(f[n + 1]) = Range(f[n]) \cup Range(ss[n + 1]) /\ f[n + 1] \in Seq(E)
        BY <3>1, <4>2, RangeOfConcat
      <4> QED BY <3>2, <4>1, <4>3
    <3> QED BY <3>3, <3>4
  <2>6. T = Nat
    <3>1. T \in SUBSET Nat
      OBVIOUS
    <3> HIDE DEF T
    <3> QED BY <2>4, <2>5, <3>1, InductionOnNat
  <2>7. Holds(N)
    <3>1. N \in T
      <4> HIDE DEF T
      <4> QED BY <2>2, <2>6
    <3> HIDE DEF Holds
    <3> QED BY <2>2, <3>1
  <2> QED BY <2>1, <2>7 DEF N
<1> QED BY <1>1, <1>2

\* One more sequence at the end adds its elements at the end.
LEMMA FlattenSeqAppend ==
  ASSUME NEW E, NEW ss \in Seq(Seq(E)), NEW x \in Seq(E)
  PROVE  FlattenSeq(Append(ss, x)) = FlattenSeq(ss) \o x
<1> DEFINE tt == Append(ss, x)
           m == Len(ss)
<1>1. /\ tt \in Seq(Seq(E)) /\ Len(tt) = m + 1 /\ m \in Nat /\ tt[m + 1] = x
      /\ \A i \in 1..m : tt[i] = ss[i]
  OBVIOUS
<1> HIDE DEF tt
<1>2. PICK g : Flattens(g, tt, m + 1) /\ FlattenSeq(tt) = g[m + 1]
  <2>1. tt # <<>>
    BY <1>1
  <2> QED BY <1>1, <2>1, FlattenSeqIsLast
<1>3. \A i \in 1..(m + 1) : g[i] = IF i = 1 THEN tt[i] ELSE g[i-1] \o tt[i]
  BY <1>2 DEF Flattens
<1>4. CASE m = 0
  <2>1. FlattenSeq(ss) = <<>>
    BY <1>4 DEF FlattenSeq
  <2>2. g[m + 1] = x
    BY <1>1, <1>3, <1>4
  <2> QED BY <1>2, <2>1, <2>2 DEF tt
<1>5. CASE m # 0
  <2>1. PICK f : Flattens(f, ss, m) /\ FlattenSeq(ss) = f[m]
    <3>1. ss # <<>>
      BY <1>5
    <3> QED BY <3>1, FlattenSeqIsLast
  <2>2. \A i \in 1..m : f[i] = IF i = 1 THEN ss[i] ELSE f[i-1] \o ss[i]
    BY <2>1 DEF Flattens
  <2> DEFINE T == {n \in Nat : n \in 1..m => g[n] = f[n]}
  <2>3. 0 \in T
    OBVIOUS
  <2>4. ASSUME NEW n \in T PROVE n + 1 \in T
    <3> SUFFICES ASSUME n + 1 \in 1..m PROVE g[n + 1] = f[n + 1]
      OBVIOUS
    <3>1. /\ g[n + 1] = IF n + 1 = 1 THEN tt[n + 1] ELSE g[(n + 1) - 1] \o tt[n + 1]
          /\ f[n + 1] = IF n + 1 = 1 THEN ss[n + 1] ELSE f[(n + 1) - 1] \o ss[n + 1]
          /\ tt[n + 1] = ss[n + 1]
      BY <1>1, <1>3, <2>2
    <3>2. CASE n = 0
      BY <3>1, <3>2
    <3>3. CASE n # 0
      <4>1. g[n] = f[n] /\ (n + 1) - 1 = n /\ n + 1 # 1
        BY <3>3
      <4> QED BY <3>1, <4>1
    <3> QED BY <3>2, <3>3
  <2>5. T = Nat
    <3>1. T \in SUBSET Nat
      OBVIOUS
    <3> HIDE DEF T
    <3> QED BY <2>3, <2>4, <3>1, InductionOnNat
  <2>6. g[m] = f[m]
    <3>1. m \in T /\ m \in 1..m
      <4> HIDE DEF T
      <4> QED BY <2>5, <1>1, <1>5
    <3> QED BY <3>1
  <2>7. g[m + 1] = g[m] \o x
    <3>1. m + 1 \in 1..(m + 1) /\ m + 1 # 1 /\ (m + 1) - 1 = m
      BY <1>1, <1>5
    <3> QED BY <1>1, <1>3, <3>1
  <2> QED BY <1>2, <2>1, <2>6, <2>7 DEF tt
<1> QED BY <1>4, <1>5

\* One more sequence at the front adds its elements at the front.
LEMMA FlattenSeqCons ==
  ASSUME NEW E, NEW ss \in Seq(Seq(E)), NEW x \in Seq(E)
  PROVE  FlattenSeq(<<x>> \o ss) = x \o FlattenSeq(ss)
<1> DEFINE tt == <<x>> \o ss
           m == Len(ss)
<1>1. /\ tt \in Seq(Seq(E)) /\ Len(tt) = m + 1 /\ m \in Nat /\ tt[1] = x
      /\ \A i \in 1..m : tt[i + 1] = ss[i] /\ ss[i] \in Seq(E)
  OBVIOUS
<1> HIDE DEF tt
<1>2. PICK g : Flattens(g, tt, m + 1) /\ FlattenSeq(tt) = g[m + 1]
  <2>1. tt # <<>>
    BY <1>1
  <2> QED BY <1>1, <2>1, FlattenSeqIsLast
<1>3. \A i \in 1..(m + 1) : g[i] = IF i = 1 THEN tt[i] ELSE g[i-1] \o tt[i]
  BY <1>2 DEF Flattens
<1>4. CASE m = 0
  <2>1. FlattenSeq(ss) = <<>> /\ x \o <<>> = x
    BY <1>4 DEF FlattenSeq
  <2>2. g[m + 1] = x
    BY <1>1, <1>3, <1>4
  <2> QED BY <1>2, <2>1, <2>2 DEF tt
<1>5. CASE m # 0
  <2>1. PICK f : Flattens(f, ss, m) /\ FlattenSeq(ss) = f[m]
    <3>1. ss # <<>>
      BY <1>5
    <3> QED BY <3>1, FlattenSeqIsLast
  <2>2. \A i \in 1..m : f[i] = IF i = 1 THEN ss[i] ELSE f[i-1] \o ss[i]
    BY <2>1 DEF Flattens
  <2> DEFINE T == {n \in Nat : n \in 1..m => f[n] \in Seq(E) /\ g[n + 1] = x \o f[n]}
  <2>3. 0 \in T
    OBVIOUS
  <2>4. ASSUME NEW n \in T PROVE n + 1 \in T
    <3> SUFFICES ASSUME n + 1 \in 1..m
                 PROVE  f[n + 1] \in Seq(E) /\ g[(n + 1) + 1] = x \o f[n + 1]
      OBVIOUS
    <3>1. /\ g[(n + 1) + 1] = g[n + 1] \o ss[n + 1]
          /\ f[n + 1] = IF n + 1 = 1 THEN ss[n + 1] ELSE f[(n + 1) - 1] \o ss[n + 1]
          /\ ss[n + 1] \in Seq(E)
      <4>1. (n + 1) + 1 \in 1..(m + 1) /\ (n + 1) + 1 # 1 /\ ((n + 1) + 1) - 1 = n + 1
        BY <1>1
      <4>2. tt[(n + 1) + 1] = ss[n + 1] /\ ss[n + 1] \in Seq(E)
        BY <1>1
      <4> QED BY <1>3, <2>2, <4>1, <4>2
    <3>2. CASE n = 0
      <4>1. g[1] = x
        BY <1>1, <1>3
      <4>2. n + 1 = 1
        BY <3>2
      <4>3. f[n + 1] = ss[n + 1] /\ g[(n + 1) + 1] = x \o ss[n + 1]
        BY <3>1, <4>1, <4>2, Zenon
      <4> QED BY <3>1, <4>3, Zenon
    <3>3. CASE n # 0
      <4> HIDE DEF T
      <4>1. f[n] \in Seq(E) /\ g[n + 1] = x \o f[n]
        BY <3>3, <2>4 DEF T
      <4>2. f[n + 1] = f[n] \o ss[n + 1]
        <5>1. (n + 1) - 1 = n /\ n + 1 # 1
          BY <3>3, <2>4 DEF T
        <5> QED BY <3>1, <5>1
      <4>3. g[n + 1] \o ss[n + 1] = x \o f[n + 1]
        <5>1. x \in Seq(E) /\ f[n] \in Seq(E) /\ ss[n + 1] \in Seq(E)
          BY <3>1, <4>1
        <5>2. PICK a \in Seq(E), b \in Seq(E) : a = f[n] /\ b = ss[n + 1]
          BY <5>1
        <5>3. (x \o a) \o b = x \o (a \o b)
          OBVIOUS
        <5> QED BY <4>1, <4>2, <5>2, <5>3, Zenon
      <4>4. f[n + 1] \in Seq(E)
        BY <3>1, <4>1, <4>2, ConcatElements, Zenon
      <4> QED BY <4>1, <4>2, <4>3, <4>4, <3>1, Zenon
    <3> QED BY <3>2, <3>3
  <2>5. T = Nat
    <3>1. T \in SUBSET Nat
      OBVIOUS
    <3> HIDE DEF T
    <3> QED BY <2>3, <2>4, <3>1, InductionOnNat
  <2>6. g[m + 1] = x \o f[m]
    <3>1. m \in T /\ m \in 1..m
      <4> HIDE DEF T
      <4> QED BY <2>5, <1>1, <1>5
    <3> QED BY <3>1
  <2> QED BY <1>2, <2>1, <2>6 DEF tt
<1> QED BY <1>4, <1>5

----------------------------------------------------------------------------
(* Sequences in order *)

\* What stands earlier in s is related by R to what stands later.
Ascends(s, R) == \A i, j \in DOMAIN s : i < j => <<s[i], s[j]>> \in R

\* Two ascending sequences in a row ascend where what is in the first comes before what is
\* in the second.
LEMMA ConcatAscends ==
  ASSUME NEW E, NEW p \in Seq(E), NEW q \in Seq(E), NEW R, Ascends(p, R), Ascends(q, R),
         \A x \in Range(p), y \in Range(q) : <<x, y>> \in R
  PROVE  Ascends(p \o q, R)
<1> DEFINE r == p \o q
           m == Len(p)
           n == Len(q)
<1>1. /\ DOMAIN p = 1..m /\ DOMAIN q = 1..n /\ DOMAIN r = 1..(m + n) /\ m \in Nat /\ n \in Nat
      /\ \A k \in 1..m : r[k] = p[k]
      /\ \A k \in (m + 1)..(m + n) : r[k] = q[k - m]
  BY ConcatElements
<1> HIDE DEF r, m, n
<1>2. SUFFICES ASSUME NEW i \in DOMAIN r, NEW j \in DOMAIN r, i < j
               PROVE  <<r[i], r[j]>> \in R
  BY DEF Ascends, r
<1>3. CASE j \in 1..m
  <2>1. i \in 1..m
    BY <1>1, <1>2, <1>3
  <2> QED BY <1>1, <1>2, <1>3, <2>1 DEF Ascends
<1>4. CASE i \in 1..m /\ j \notin 1..m
  <2>1. j \in (m + 1)..(m + n) /\ j - m \in DOMAIN q
    BY <1>1, <1>2, <1>4
  <2>2. r[i] = p[i] /\ r[j] = q[j - m]
    BY <1>1, <1>4, <2>1
  <2>3. p[i] \in Range(p) /\ q[j - m] \in Range(q)
    BY <1>1, <1>4, <2>1 DEF Range
  <2> QED BY <2>2, <2>3
<1>5. CASE i \notin 1..m
  <2>1. /\ i \in (m + 1)..(m + n) /\ j \in (m + 1)..(m + n)
        /\ i - m \in DOMAIN q /\ j - m \in DOMAIN q /\ i - m < j - m
    BY <1>1, <1>2, <1>5
  <2>2. r[i] = q[i - m] /\ r[j] = q[j - m]
    BY <1>1, <2>1
  <2> QED BY <2>1, <2>2 DEF Ascends
<1> QED BY <1>3, <1>4, <1>5

\* A flattened sequence ascends where its sequences do, and each comes before the next.
LEMMA FlattenSeqAscends ==
  ASSUME NEW E, NEW ss \in Seq(Seq(E)), NEW R,
         \A i \in 1..Len(ss) : Ascends(ss[i], R),
         \A i, j \in 1..Len(ss) :
           i < j => \A x \in Range(ss[i]), y \in Range(ss[j]) : <<x, y>> \in R
  PROVE  Ascends(FlattenSeq(ss), R)
<1>1. CASE ss = <<>>
  <2>1. FlattenSeq(ss) = <<>> /\ DOMAIN <<>> = {}
    BY <1>1 DEF FlattenSeq
  <2> QED BY <2>1 DEF Ascends
<1>2. CASE ss # <<>>
  <2> DEFINE N == Len(ss)
  <2>1. PICK f : Flattens(f, ss, N) /\ FlattenSeq(ss) = f[N]
    BY <1>2, FlattenSeqIsLast
  <2>2. N \in Nat /\ N \in 1..N /\ \A i \in 1..N : ss[i] \in Seq(E)
    BY <1>2
  <2> HIDE DEF N
  <2>3. \A i \in 1..N : f[i] = IF i = 1 THEN ss[i] ELSE f[i-1] \o ss[i]
    BY <2>1 DEF Flattens
  <2> DEFINE Holds(n) == /\ f[n] \in Seq(E) /\ Ascends(f[n], R)
                         /\ \A x \in Range(f[n]) : \E i \in 1..n : x \in Range(ss[i])
             T == {n \in Nat : n \in 1..N => Holds(n)}
  <2>4. 0 \in T
    OBVIOUS
  <2>5. ASSUME NEW n \in T PROVE n + 1 \in T
    <3> SUFFICES ASSUME n + 1 \in 1..N PROVE Holds(n + 1)
      <4> HIDE DEF Holds
      <4> QED OBVIOUS
    <3>1. ss[n + 1] \in Seq(E) /\ (n + 1) - 1 = n /\ Ascends(ss[n + 1], R)
      BY <2>2 DEF N
    <3>2. \A i : i \in 1..(n + 1) <=> i \in 1..n \/ i = n + 1
      OBVIOUS
    <3>3. CASE n = 0
      <4>1. f[n + 1] = ss[n + 1] /\ n + 1 \in 1..(n + 1)
        BY <2>3, <3>3
      <4> QED BY <3>1, <4>1
    <3>4. CASE n # 0
      <4>1. n \in 1..N /\ Holds(n)
        <5> HIDE DEF Holds
        <5> QED BY <2>2, <3>4
      <4>2. f[n + 1] = f[n] \o ss[n + 1] /\ f[n] \in Seq(E)
        <5>1. f[n + 1] = IF n + 1 = 1 THEN ss[n + 1] ELSE f[(n + 1) - 1] \o ss[n + 1]
          BY <2>3
        <5>2. n + 1 # 1
          BY <3>4
        <5> QED BY <3>1, <4>1, <5>1, <5>2
      <4>3. Range(f[n + 1]) = Range(f[n]) \cup Range(ss[n + 1]) /\ f[n + 1] \in Seq(E)
        BY <3>1, <4>2, RangeOfConcat
      <4>4. \A x \in Range(f[n]), y \in Range(ss[n + 1]) : <<x, y>> \in R
        <5>1. ASSUME NEW i \in 1..n PROVE i \in 1..N /\ n + 1 \in 1..N /\ i < n + 1
          BY <2>2
        <5>2. \A i, j \in 1..N :
                i < j => \A x \in Range(ss[i]), y \in Range(ss[j]) : <<x, y>> \in R
          BY DEF N
        <5> QED BY <4>1, <5>1, <5>2
      <4>5. Ascends(f[n + 1], R)
        <5> HIDE DEF T
        <5> QED BY <3>1, <4>1, <4>2, <4>4, ConcatAscends
      <4> QED BY <3>2, <4>1, <4>3, <4>5
    <3> QED BY <3>3, <3>4
  <2>6. T = Nat
    <3>1. T \in SUBSET Nat
      OBVIOUS
    <3> HIDE DEF T
    <3> QED BY <2>4, <2>5, <3>1, InductionOnNat
  <2>7. Holds(N)
    <3>1. N \in T
      <4> HIDE DEF T
      <4> QED BY <2>2, <2>6
    <3> HIDE DEF Holds
    <3> QED BY <2>2, <3>1
  <2> QED BY <2>1, <2>7
<1> QED BY <1>1, <1>2

============================================================================
