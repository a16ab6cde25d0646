---------------------------- MODULE ReviewProofs ----------------------------
(***************************************************************************)
(* That a reviewer finds what is in the text and nothing else, that a      *)
(* patch made of findings is applied to the very text that was reviewed,   *)
(* merges no corrections that meet and makes of the text what the accepted *)
(* ones describe, that an operation runs with the context of the very work *)
(* it runs on, and that a verified edition is the work in reading order.   *)
(***************************************************************************)
EXTENDS Reviewers, Corrections, WorkViews, SequenceLemmas, FiniteSetTheorems

----------------------------------------------------------------------------
(* Sorting *)

\* A strict order of all the elements of S.
Orders(R, S) ==
  /\ \A x \in S : <<x, x>> \notin R
  /\ \A x, y, z \in S : <<x, y>> \in R /\ <<y, z>> \in R => <<x, z>> \in R
  /\ \A x, y \in S : x = y \/ <<x, y>> \in R \/ <<y, x>> \in R

\* What stands before something else has a lower rank, and ranks are places.
LEMMA RankGrows ==
  ASSUME NEW S, IsFiniteSet(S), NEW R, Orders(R, S)
  PROVE  /\ \A x \in S : Rank(S, R, x) \in 0..(Cardinality(S) - 1)
         /\ \A x, y \in S : <<x, y>> \in R => Rank(S, R, x) < Rank(S, R, y)
<1> DEFINE B(x) == {y \in S : <<y, x>> \in R}
<1>1. \A x \in S : IsFiniteSet(B(x)) /\ Cardinality(B(x)) \in Nat
  <2> SUFFICES ASSUME NEW x \in S PROVE IsFiniteSet(B(x)) /\ Cardinality(B(x)) \in Nat
    OBVIOUS
  <2>1. B(x) \in SUBSET S
    OBVIOUS
  <2>2. IsFiniteSet(B(x))
    BY <2>1, FS_Subset
  <2> QED BY <2>2, FS_CardinalityType
<1>2. ASSUME NEW x \in S, NEW T, IsFiniteSet(T), B(x) \in SUBSET (T \ {x}), x \in T
      PROVE  Cardinality(B(x)) < Cardinality(T)
  <2>1. IsFiniteSet(T \ {x}) /\ Cardinality(T \ {x}) = Cardinality(T) - 1
    BY <1>2, FS_RemoveElement
  <2>2. Cardinality(B(x)) <= Cardinality(T \ {x})
    BY <1>2, <2>1, FS_Subset
  <2>3. Cardinality(T) \in Nat
    BY <1>2, FS_CardinalityType
  <2>4. Cardinality(B(x)) \in Nat
    BY <1>1
  <2> HIDE DEF B
  <2> QED BY <2>1, <2>2, <2>3, <2>4
<1>3. ASSUME NEW x \in S PROVE Cardinality(B(x)) < Cardinality(S)
  <2>1. B(x) \in SUBSET (S \ {x})
    BY DEF Orders
  <2> QED BY <1>2, <2>1
<1>4. ASSUME NEW x \in S, NEW y \in S, <<x, y>> \in R
      PROVE  Cardinality(B(x)) < Cardinality(B(y))
  <2>1. B(x) \in SUBSET (B(y) \ {x}) /\ x \in B(y)
    BY <1>4 DEF Orders
  <2> QED BY <1>1, <1>2, <2>1
<1>5. Cardinality(S) \in Nat
  BY FS_CardinalityType
<1>6. \A x \in S : Rank(S, R, x) = Cardinality(B(x))
  BY DEF Rank
<1> HIDE DEF B
<1> QED BY <1>1, <1>3, <1>4, <1>5, <1>6

\* SortedBy lists every element once, each before those that R puts after it.
LEMMA SortedBySorts ==
  ASSUME NEW S, IsFiniteSet(S), NEW R, Orders(R, S)
  PROVE  /\ Cardinality(S) \in Nat
         /\ SortedBy(S, R) \in Seq(S) /\ Len(SortedBy(S, R)) = Cardinality(S)
         /\ \A x \in S : \E i \in 1..Len(SortedBy(S, R)) : SortedBy(S, R)[i] = x
         /\ \A i, j \in 1..Len(SortedBy(S, R)) :
              /\ i < j => <<SortedBy(S, R)[i], SortedBy(S, R)[j]>> \in R
              /\ i # j => SortedBy(S, R)[i] # SortedBy(S, R)[j]
         /\ \A i \in 1..Len(SortedBy(S, R)) : Rank(S, R, SortedBy(S, R)[i]) = i - 1
<1> DEFINE n == Cardinality(S)
           rank == [x \in S |-> Rank(S, R, x)]
           q == SortedBy(S, R)
<1>1. n \in Nat
  BY FS_CardinalityType
<1>2. IsFiniteSet(0..(n-1)) /\ Cardinality(0..(n-1)) = n
  BY <1>1, FS_Interval
<1>3. rank \in Injection(S, 0..(n-1))
  <2>1. rank \in [S -> 0..(n-1)]
    BY RankGrows
  <2>2. ASSUME NEW x \in S, NEW y \in S, x # y PROVE rank[x] # rank[y]
    <3>1. <<x, y>> \in R \/ <<y, x>> \in R
      BY <2>2 DEF Orders
    <3>2. rank[x] < rank[y] \/ rank[y] < rank[x]
      BY <3>1, RankGrows
    <3> QED BY <2>1, <3>2
  <2> QED BY <2>1, <2>2 DEF Injection, IsInjective
<1>4. rank \in Surjection(S, 0..(n-1))
  BY <1>2, <1>3, FS_Injection
<1>5. \A i \in 1..n : q[i] \in S /\ Rank(S, R, q[i]) = i - 1
  <2> SUFFICES ASSUME NEW i \in 1..n PROVE q[i] \in S /\ Rank(S, R, q[i]) = i - 1
    OBVIOUS
  <2>1. i - 1 \in 0..(n-1)
    BY <1>1
  <2>2. \E x \in S : Rank(S, R, x) = i - 1
    BY <1>4, <2>1 DEF Surjection
  <2>3. q[i] = CHOOSE x \in S : Rank(S, R, x) = i - 1
    BY DEF SortedBy
  <2> QED BY <2>2, <2>3
<1>6. q \in Seq(S) /\ Len(q) = n
  <2>1. q = [i \in 1..n |-> q[i]]
    BY DEF SortedBy
  <2> QED BY <1>1, <1>5, <2>1
<1>7. ASSUME NEW i \in 1..n, NEW j \in 1..n, i < j PROVE <<q[i], q[j]>> \in R
  <2>1. Rank(S, R, q[i]) < Rank(S, R, q[j])
    BY <1>1, <1>5, <1>7
  <2>2. q[i] # q[j] /\ ~(<<q[j], q[i]>> \in R)
    BY <1>1, <1>5, <2>1, RankGrows
  <2> QED BY <1>5, <2>2 DEF Orders
<1>8. ASSUME NEW x \in S PROVE \E i \in 1..n : q[i] = x
  <2>1. Rank(S, R, x) + 1 \in 1..n
    BY <1>1, RankGrows
  <2> DEFINE y == q[Rank(S, R, x) + 1]
  <2>2. y \in S /\ rank[y] = rank[x]
    BY <1>1, <1>5, <2>1, RankGrows
  <2>3. y = x
    <3> HIDE DEF y, rank
    <3> QED BY <1>3, <2>2 DEF Injection, IsInjective
  <2> QED BY <2>1, <2>3
<1>9. ASSUME NEW i \in 1..n, NEW j \in 1..n, i # j PROVE q[i] # q[j]
  BY <1>1, <1>5, <1>9
<1> HIDE DEF n, q, rank
<1>10. \A i, j \in 1..Len(q) : (i < j => <<q[i], q[j]>> \in R) /\ (i # j => q[i] # q[j])
  BY <1>6, <1>7, <1>9
<1>11. \A x \in S : \E i \in 1..Len(q) : q[i] = x
  BY <1>6, <1>8
<1>12. \A i \in 1..Len(q) : Rank(S, R, q[i]) = i - 1
  BY <1>5, <1>6
<1> QED BY <1>1, <1>6, <1>10, <1>11, <1>12 DEF n, q

----------------------------------------------------------------------------
(* Corrections: what is applied was reviewed *)

\* A round is a sequence of findings with their decisions.
LEMMA RoundsAreTyped ==
  ASSUME NEW r \in Round
  PROVE  /\ r \in Seq(Items) /\ Len(r) \in Nat /\ DOMAIN r = 1..Len(r)
         /\ r # <<>> => 1 \in DOMAIN r
         /\ \A i \in DOMAIN r :
              /\ r[i].block \in Chapter /\ r[i].about \in 0..1 /\ r[i].accepted \in BOOLEAN
              /\ r[i].edits \subseteq Edits
<1>1. r \in Seq(Items)
  BY CorrectionsAssumption
<1>2. \A item \in Items : /\ item.block \in Chapter /\ item.about \in 0..1
                          /\ item.accepted \in BOOLEAN /\ item.edits \subseteq Edits
  BY DEF Items
<1> QED BY <1>1, <1>2

\* The first revision has the text that was reviewed.  A patch that still fits the
\* version of the work was made on that text, and for accepted findings.
ReviewedInv ==
  /\ round \in Round
  /\ seen.version = 1 /\ seen.revision = 1
  /\ work.version \in Nat /\ work.revision \in Nat
  /\ work.revision >= 1
  /\ work.revision = 1 => work.text = seen.text
  /\ gate # None => patch.source \in Nat /\ patch.source <= work.version
  /\ gate # None /\ round # <<>> =>
       /\ \A i \in DOMAIN round : round[i].accepted
       /\ patch.source = work.version => work.text = seen.text

LEMMA ProposalsAreOfTheReviewedText ==
  ASSUME ReviewedInv, NEW before, NEW after, Propose(before, after),
         \A i \in DOMAIN round : round[i].accepted /\ round[i].about = work.revision
  PROVE  ReviewedInv'
<1>1. UNCHANGED <<work, seen, round>> /\ patch'.source = work.version
  BY DEF Propose
<1>2. ASSUME round # <<>> PROVE work.revision = 1 /\ work.text = seen.text
  <2>1. 1 \in DOMAIN round /\ round[1].about \in 0..1
    BY <1>2, RoundsAreTyped DEF ReviewedInv
  <2>2. round[1].about = work.revision
    BY <2>1
  <2> QED BY <2>1, <2>2 DEF ReviewedInv
<1> QED BY <1>1, <1>2 DEF ReviewedInv

LEMMA StepsKeepReviewedInv ==
  ASSUME ReviewedInv, [CorrectionsNext]_correctionVars
  PROVE  ReviewedInv'
<1>1. CASE ProposeCorrections
  <2>1. CASE Refuse
    BY <2>1 DEF Refuse, ReviewedInv
  <2>2. CASE /\ \A i \in DOMAIN round : Holds(round[i])
             /\ Propose(BlocksBefore(TouchedBlocks(round)), Corrected(round))
    BY <2>2, ProposalsAreOfTheReviewedText DEF Holds
  <2> QED BY <1>1, <2>1, <2>2 DEF ProposeCorrections
<1>2. CASE ProposeFromFinding
  <2>1. CASE Refuse
    BY <2>1 DEF Refuse, ReviewedInv
  <2>2. ASSUME NEW text \in Rewriting, Len(round) = 1,
               round[1].accepted, round[1].about = work.revision,
               Propose(BlocksBefore({round[1].block}), [b \in {round[1].block} |-> text])
        PROVE  ReviewedInv'
    <3>1. \A i \in DOMAIN round : i = 1
      BY <2>2, RoundsAreTyped DEF ReviewedInv
    <3> QED BY <2>2, <3>1, ProposalsAreOfTheReviewedText
  <2> QED BY <1>2, <2>1, <2>2 DEF ProposeFromFinding
<1>3. CASE ProposeBlockEdit
  <2>1. CASE Refuse
    BY <2>1 DEF Refuse, ReviewedInv
  <2>2. ASSUME NEW b \in Chapter, NEW text \in Rewriting, round = <<>>,
               Propose(BlocksBefore({b}), [c \in {b} |-> text])
        PROVE  ReviewedInv'
    <3>1. DOMAIN round = {}
      BY <2>2
    <3> QED BY <2>2, <3>1, ProposalsAreOfTheReviewedText
  <2> QED BY <1>3, <2>1, <2>2 DEF ProposeBlockEdit
<1>4. CASE DecideGate
  BY <1>4, CorrectionsAssumption DEF DecideGate, ReviewedInv
<1>5. CASE ApplyPatch
  <2>1. CASE Refuse
    BY <2>1 DEF Refuse, ReviewedInv
  <2>2. CASE /\ work'.version = work.version + 1 /\ work'.revision = work.revision + 1
             /\ UNCHANGED <<seen, round, patch, gate>>
    BY <2>2 DEF ReviewedInv
  <2> QED BY <1>5, <2>1, <2>2 DEF ApplyPatch
<1>6. CASE EditBlock
  <2>1. /\ work'.version = work.version + 1 /\ work'.revision = work.revision + 1
        /\ UNCHANGED <<seen, round, patch, gate>>
    BY <1>6 DEF EditBlock
  <2> QED BY <2>1 DEF ReviewedInv
<1>7. CASE Annotate
  <2>1. /\ work'.version = work.version + 1 /\ work'.revision = work.revision
        /\ work'.text = work.text
        /\ UNCHANGED <<seen, round, patch, gate>>
    BY <1>7 DEF Annotate
  <2> QED BY <2>1 DEF ReviewedInv
<1>8. CASE UNCHANGED correctionVars
  BY <1>8 DEF correctionVars, ReviewedInv
<1> QED BY <1>1, <1>2, <1>3, <1>4, <1>5, <1>6, <1>7, <1>8 DEF CorrectionsNext

\* What is applied was decided on the text it is applied to, and a patch made from
\* findings was made on the reviewed text of accepted ones alone
\* (ApprovedFindingCorrectionsPass.propose, ApplyApprovedPatchHandler).
THEOREM AppliedAsReviewed == CorrectionsSpec => AppliedToTheReviewedText
<1>1. CorrectionsInit => ReviewedInv
  <2> SUFFICES ASSUME CorrectionsInit PROVE ReviewedInv
    OBVIOUS
  <2>1. seen = work /\ work.version = 1 /\ work.revision = 1 /\ round \in Round /\ gate = None
    BY DEF CorrectionsInit
  <2> QED BY <2>1 DEF ReviewedInv
<1>2. ASSUME ReviewedInv, [CorrectionsNext]_correctionVars
      PROVE  [outcome' = "applied" /\ outcome # "applied" =>
                /\ \A b \in DOMAIN patch.before : work.text[b] = patch.before[b]
                /\ round # <<>> => work.text = seen.text /\ \A i \in DOMAIN round : round[i].accepted
             ]_correctionVars
  <2> SUFFICES ASSUME outcome' = "applied" /\ outcome # "applied"
               PROVE  /\ \A b \in DOMAIN patch.before : work.text[b] = patch.before[b]
                      /\ round # <<>> => /\ work.text = seen.text
                                         /\ \A i \in DOMAIN round : round[i].accepted
    OBVIOUS
  <2>1. ApplyPatch
    BY <1>2 DEF CorrectionsNext, correctionVars, ProposeCorrections, ProposeFromFinding,
       ProposeBlockEdit, DecideGate, EditBlock, Annotate, Propose, Refuse
  <2>2. /\ gate = "approved" /\ patch.source = work.version
        /\ \A b \in DOMAIN patch.before : work.text[b] = patch.before[b]
    BY <2>1 DEF ApplyPatch, Refuse
  <2> QED BY <1>2, <2>2, CorrectionsAssumption DEF ReviewedInv
<1>3. ASSUME ReviewedInv, [CorrectionsNext]_correctionVars PROVE ReviewedInv'
  BY <1>3, StepsKeepReviewedInv
<1> QED BY <1>1, <1>2, <1>3, PTL DEF CorrectionsSpec, AppliedToTheReviewedText

----------------------------------------------------------------------------
(* Corrections: what meets is not merged *)

\* The alphabetical order of texts is strict and total.
LEMMA AlphabeticalOrders ==
  /\ \A s \in Seq(Nat) : ~Alphabetical(s, s)
  /\ \A s, t, u \in Seq(Nat) : Alphabetical(s, t) /\ Alphabetical(t, u) => Alphabetical(s, u)
  /\ \A s, t \in Seq(Nat) : s = t \/ Alphabetical(s, t) \/ Alphabetical(t, s)
<1>1. ASSUME NEW s \in Seq(Nat), Alphabetical(s, s) PROVE FALSE
  BY <1>1 DEF Alphabetical
<1>2. ASSUME NEW s \in Seq(Nat), NEW t \in Seq(Nat), NEW u \in Seq(Nat),
             Alphabetical(s, t), Alphabetical(t, u)
      PROVE  Alphabetical(s, u)
  <2>1. PICK n \in 1..Len(t) : /\ n <= Len(s) + 1 /\ \A m \in 1..(n-1) : s[m] = t[m]
                               /\ n > Len(s) \/ s[n] < t[n]
    BY <1>2 DEF Alphabetical
  <2>2. PICK k \in 1..Len(u) : /\ k <= Len(t) + 1 /\ \A m \in 1..(k-1) : t[m] = u[m]
                               /\ k > Len(t) \/ t[k] < u[k]
    BY <1>2 DEF Alphabetical
  <2>3. CASE n < k
    <3>1. /\ n \in 1..Len(u) /\ n <= Len(s) + 1 /\ \A m \in 1..(n-1) : s[m] = u[m]
          /\ n > Len(s) \/ s[n] < u[n]
      BY <2>1, <2>2, <2>3
    <3> QED BY <3>1 DEF Alphabetical
  <2>4. CASE n = k
    <3>1. n > Len(s) \/ s[n] < u[n]
      <4>1. CASE n <= Len(s)
        <5>1. n \in 1..Len(s) /\ n \in 1..Len(t) /\ n \in 1..Len(u) /\ ~(n > Len(t))
          BY <4>1, <2>1, <2>2, <2>4
        <5>2. s[n] \in Nat /\ t[n] \in Nat /\ u[n] \in Nat
          BY <5>1
        <5>3. s[n] < t[n] /\ t[n] < u[n]
          BY <2>1, <2>2, <2>4, <4>1, <5>1
        <5>4. \A a, b, c \in Nat : a < b /\ b < c => a < c
          OBVIOUS
        <5>5. s[n] < u[n]
          BY <5>2, <5>3, <5>4, Zenon
        <5> QED BY <5>5, Zenon
      <4> QED BY <2>1, <4>1
    <3>2. n \in 1..Len(u) /\ n <= Len(s) + 1
      BY <2>1, <2>2, <2>4
    <3>3. \A m \in 1..(n-1) : s[m] = u[m]
      <4>1. \A m \in 1..(n-1) : s[m] = t[m] /\ m \in 1..(k-1)
        BY <2>1, <2>4
      <4> QED BY <2>2, <4>1
    <3> QED BY <3>1, <3>2, <3>3 DEF Alphabetical
  <2>5. CASE k < n
    <3>1. k <= Len(s) + 1 /\ ~(k > Len(t)) /\ k \in 1..(n-1)
      BY <2>1, <2>2, <2>5
    <3>2. s[k] < u[k]
      <4>1. s[k] = t[k]
        BY <2>1, <3>1, Zenon
      <4> QED BY <2>2, <3>1, <4>1, Zenon
    <3>3. \A m \in 1..(k-1) : s[m] = u[m]
      <4>1. \A m \in 1..(k-1) : m \in 1..(n-1)
        BY <2>5
      <4> QED BY <2>1, <2>2, <4>1, Zenon
    <3> QED BY <2>2, <3>1, <3>2, <3>3 DEF Alphabetical
  <2> QED BY <2>1, <2>2, <2>3, <2>4, <2>5
<1>3. ASSUME NEW s \in Seq(Nat), NEW t \in Seq(Nat), s # t
      PROVE  Alphabetical(s, t) \/ Alphabetical(t, s)
  <2> DEFINE D == {n \in Nat : /\ 1 <= n /\ n <= Len(s) + 1 /\ n <= Len(t) + 1
                               /\ n > Len(s) \/ n > Len(t) \/ s[n] # t[n]}
  <2>1. D # {}
    <3>1. CASE Len(s) <= Len(t)
      <4>1. Len(s) + 1 \in D
        BY <3>1
      <4> QED BY <4>1
    <3>2. CASE Len(t) <= Len(s)
      <4>1. Len(t) + 1 \in D
        BY <3>2
      <4> QED BY <4>1
    <3> QED BY <3>1, <3>2
  <2>2. PICK n \in D : \A m \in D : n <= m
    BY <2>1, LeastNat
  <2>3. \A m \in 1..(n-1) : m <= Len(s) /\ m <= Len(t) /\ s[m] = t[m]
    <3> SUFFICES ASSUME NEW m \in 1..(n-1) PROVE m <= Len(s) /\ m <= Len(t) /\ s[m] = t[m]
      OBVIOUS
    <3>1. m \notin D
      BY <2>2
    <3> QED BY <3>1
  <2>4. ~(n > Len(s) /\ n > Len(t))
    <3> SUFFICES ASSUME n > Len(s), n > Len(t) PROVE FALSE
      OBVIOUS
    <3>1. Len(s) = n - 1 /\ Len(t) = n - 1
      OBVIOUS
    <3>2. s = t
      BY <2>3, <3>1
    <3> QED BY <1>3, <3>2
  <2>5. CASE n > Len(s)
    <3>1. n \in 1..Len(t)
      BY <2>4, <2>5
    <3> QED BY <2>3, <2>5, <3>1 DEF Alphabetical
  <2>6. CASE n > Len(t)
    <3>1. n \in 1..Len(s)
      BY <2>4, <2>6
    <3> QED BY <2>3, <2>6, <3>1 DEF Alphabetical
  <2>7. CASE n <= Len(s) /\ n <= Len(t)
    <3>1. s[n] < t[n] \/ t[n] < s[n]
      BY <2>7
    <3>2. n \in 1..Len(s) /\ n \in 1..Len(t)
      BY <2>7
    <3> QED BY <2>3, <3>1, <3>2 DEF Alphabetical
  <2> QED BY <2>5, <2>6, <2>7
<1> QED BY <1>1, <1>2, <1>3

\* The edits of E in the order of propose's sort key.
OrderOf(E) == {p \in E \X E : ComesBefore(p[1], p[2])}

LEMMA EditsAreOrdered ==
  ASSUME NEW E, E \subseteq Edits
  PROVE  Orders(OrderOf(E), E)
<1>1. \A e, f \in E : <<e, f>> \in OrderOf(E) <=> ComesBefore(e, f)
  BY DEF OrderOf
<1>2. \A e \in E : /\ e.start \in Nat /\ e.end \in Nat /\ e.inserted \in Seq(Nat)
                   /\ e = [start |-> e.start, end |-> e.end, inserted |-> e.inserted]
  BY DEF Edits
<1>3. ASSUME NEW e \in E PROVE ~ComesBefore(e, e)
  BY <1>2, AlphabeticalOrders DEF ComesBefore
<1>4. ASSUME NEW e \in E, NEW f \in E, NEW g \in E, ComesBefore(e, f), ComesBefore(f, g)
      PROVE  ComesBefore(e, g)
  <2> DEFINE A(x, y) == Alphabetical(x.inserted, y.inserted)
  <2>1. A(e, f) /\ A(f, g) => A(e, g)
    BY <1>2, AlphabeticalOrders
  <2>2. /\ e.start \in Nat /\ f.start \in Nat /\ g.start \in Nat
        /\ e.end \in Nat /\ f.end \in Nat /\ g.end \in Nat
    BY <1>2
  <2>3. /\ e.start < f.start \/ (e.start = f.start /\ e.end < f.end)
           \/ (e.start = f.start /\ e.end = f.end /\ A(e, f))
        /\ f.start < g.start \/ (f.start = g.start /\ f.end < g.end)
           \/ (f.start = g.start /\ f.end = g.end /\ A(f, g))
    BY <1>4 DEF ComesBefore
  <2> HIDE DEF A
  <2>4. e.start < g.start \/ (e.start = g.start /\ e.end < g.end)
        \/ (e.start = g.start /\ e.end = g.end /\ A(e, g))
    BY <2>1, <2>2, <2>3
  <2> QED BY <2>4 DEF ComesBefore, A
<1>5. ASSUME NEW e \in E, NEW f \in E, e # f PROVE ComesBefore(e, f) \/ ComesBefore(f, e)
  <2>1. \/ e.start # f.start \/ e.end # f.end
        \/ Alphabetical(e.inserted, f.inserted) \/ Alphabetical(f.inserted, e.inserted)
    <3>1. e.start # f.start \/ e.end # f.end \/ e.inserted # f.inserted
      BY <1>2, <1>5
    <3> QED BY <1>2, <3>1, AlphabeticalOrders
  <2> QED BY <1>2, <2>1 DEF ComesBefore
<1> QED BY <1>1, <1>3, <1>4, <1>5 DEF Orders

\* The edits of a block in the order of propose's sort key: each once, by their
\* start, and those that do not overlap with the ones before end where they begin.
LEMMA EditsAreSorted ==
  ASSUME NEW E, E \subseteq Edits, IsFiniteSet(E)
  PROVE  /\ Sorted(E) \in Seq(E) /\ Len(Sorted(E)) \in Nat /\ Len(Sorted(E)) = Cardinality(E)
         /\ \A e \in E : \E i \in 1..Len(Sorted(E)) : Sorted(E)[i] = e
         /\ \A i, j \in 1..Len(Sorted(E)) : i < j => ComesBefore(Sorted(E)[i], Sorted(E)[j])
         /\ \A i \in 1..Len(Sorted(E)) : Rank(E, OrderOf(E), Sorted(E)[i]) = i - 1
<1> DEFINE R == OrderOf(E)
<1>1. \A e, f \in E : <<e, f>> \in R <=> ComesBefore(e, f)
  BY DEF OrderOf
<1>2. Sorted(E) = SortedBy(E, R)
  BY DEF Sorted, OrderOf
<1>3. Orders(R, E)
  BY EditsAreOrdered
<1> HIDE DEF R
<1>4. /\ SortedBy(E, R) \in Seq(E) /\ Len(SortedBy(E, R)) \in Nat
      /\ Len(SortedBy(E, R)) = Cardinality(E)
      /\ \A e \in E : \E i \in 1..Len(SortedBy(E, R)) : SortedBy(E, R)[i] = e
      /\ \A i, j \in 1..Len(SortedBy(E, R)) : i < j => <<SortedBy(E, R)[i], SortedBy(E, R)[j]>> \in R
      /\ \A i \in 1..Len(SortedBy(E, R)) : Rank(E, R, SortedBy(E, R)[i]) = i - 1
  BY <1>3, SortedBySorts
<1>5. \A i \in 1..Len(SortedBy(E, R)) : SortedBy(E, R)[i] \in E
  BY <1>4
<1>6. \A i, j \in 1..Len(Sorted(E)) : i < j => ComesBefore(Sorted(E)[i], Sorted(E)[j])
  BY <1>1, <1>2, <1>4, <1>5
<1> QED BY <1>2, <1>4, <1>6 DEF R

LEMMA SortedEditsDoNotMeet ==
  ASSUME NEW E, E \subseteq Edits, IsFiniteSet(E), ~Overlap(E)
  PROVE  /\ \A i, j \in 1..Len(Sorted(E)) : i < j => Sorted(E)[i].end <= Sorted(E)[j].start
         /\ \A e, f \in E : ~Meet(e, f)
<1> DEFINE q == Sorted(E)
<1>1. /\ q \in Seq(E) /\ Len(q) \in Nat
      /\ \A e \in E : \E i \in 1..Len(q) : q[i] = e
      /\ \A i, j \in 1..Len(q) : i < j => ComesBefore(q[i], q[j])
  BY EditsAreSorted
<1>2. \A i \in 2..Len(q) : ~(q[i].start < q[i-1].end)
  BY DEF Overlap
<1> HIDE DEF q
<1>3. \A i \in 1..Len(q) : q[i].start \in Nat /\ q[i].end \in Nat
  <2>1. \A i \in 1..Len(q) : q[i] \in Edits
    BY <1>1
  <2> QED BY <2>1 DEF Edits
<1>4. ASSUME NEW i \in 1..Len(q), NEW j \in 1..Len(q), i < j PROVE q[i].end <= q[j].start
  <2>1. i + 1 \in 2..Len(q) /\ (i + 1) - 1 = i /\ i + 1 \in 1..Len(q)
    BY <1>1, <1>4
  <2>2. q[i].end <= q[i+1].start
    BY <1>2, <1>3, <2>1
  <2>3. q[i+1].start <= q[j].start
    <3>1. CASE i + 1 = j
      BY <1>3, <3>1
    <3>2. CASE i + 1 < j
      <4>1. ComesBefore(q[i+1], q[j])
        BY <1>1, <2>1, <3>2
      <4> QED BY <4>1, <1>3, <2>1 DEF ComesBefore
    <3> QED BY <1>1, <1>4, <3>1, <3>2
  <2> QED BY <1>3, <2>1, <2>2, <2>3
<1>5. ASSUME NEW e \in E, NEW f \in E, Meet(e, f) PROVE FALSE
  <2>1. PICK i \in 1..Len(q) : q[i] = e
    BY <1>1
  <2>2. PICK j \in 1..Len(q) : q[j] = f
    BY <1>1
  <2>3. i # j /\ q[i].start < q[j].end /\ q[j].start < q[i].end
    BY <1>5, <2>1, <2>2 DEF Meet
  <2>4. i < j \/ j < i
    BY <1>1, <2>3
  <2> QED BY <1>3, <1>4, <2>3, <2>4
<1> QED BY <1>4, <1>5 DEF q

\* The edits of a block of a round.
LEMMA EditsOfRound ==
  ASSUME NEW r \in Round, NEW b
  PROVE  /\ EditsOf(r, b) \subseteq Edits /\ IsFiniteSet(EditsOf(r, b))
         /\ b \notin TouchedBlocks(r) => EditsOf(r, b) = {}
<1> DEFINE all == UNION {r[i].edits : i \in DOMAIN r}
<1>1. IsFiniteSet(all) /\ all \subseteq Edits
  BY CorrectionsAssumption, RoundsAreTyped
<1>2. EditsOf(r, b) \in SUBSET all
  BY DEF EditsOf
<1>3. IsFiniteSet(EditsOf(r, b))
  <2> HIDE DEF all
  <2> QED BY <1>1, <1>2, FS_Subset
<1>4. b \notin TouchedBlocks(r) => EditsOf(r, b) = {}
  BY DEF EditsOf, TouchedBlocks
<1> QED BY <1>1, <1>2, <1>3, <1>4

\* Accepted corrections that replace a character in common, or insert inside what
\* another replaces, go back to the editor (the overlap check of propose).
THEOREM OverlapsAreArbitrated == CorrectionsSpec => []ArbitratedNotMerged
<1>1. CorrectionsInit => ReviewedInv /\ ArbitratedNotMerged
  <2> SUFFICES ASSUME CorrectionsInit PROVE ReviewedInv /\ ArbitratedNotMerged
    OBVIOUS
  <2>1. /\ seen = work /\ work.version = 1 /\ work.revision = 1 /\ round \in Round
        /\ gate = None /\ patch = None
    BY DEF CorrectionsInit
  <2> QED BY <2>1 DEF ReviewedInv, ArbitratedNotMerged, FromFindings
<1>2. ASSUME ReviewedInv, ArbitratedNotMerged, [CorrectionsNext]_correctionVars
      PROVE  ArbitratedNotMerged'
  <2>1. CASE UNCHANGED <<round, patch>>
    BY <1>2, <2>1 DEF ArbitratedNotMerged, FromFindings, EditsOf, Meet
  <2>2. CASE /\ UNCHANGED round
             /\ ~(\E b \in TouchedBlocks(round) : Overlap(EditsOf(round, b)))
    <3>1. ASSUME NEW b \in Chapter, NEW e \in EditsOf(round, b), NEW f \in EditsOf(round, b)
          PROVE  ~Meet(e, f)
      <4>1. EditsOf(round, b) \subseteq Edits /\ IsFiniteSet(EditsOf(round, b))
        BY <1>2, EditsOfRound DEF ReviewedInv
      <4>2. ~Overlap(EditsOf(round, b))
        BY <1>2, <2>2, <3>1, EditsOfRound DEF ReviewedInv
      <4> QED BY <4>1, <4>2, SortedEditsDoNotMeet
    <3> QED BY <2>2, <3>1 DEF ArbitratedNotMerged, EditsOf, Meet
  <2>3. CASE UNCHANGED round /\ (Len(round) = 1 \/ round = <<>>)
    BY <2>3 DEF ArbitratedNotMerged, FromFindings
  <2> QED BY <1>2, <2>1, <2>2, <2>3 DEF CorrectionsNext, correctionVars, ProposeCorrections,
        ProposeFromFinding, ProposeBlockEdit, DecideGate, ApplyPatch, EditBlock, Annotate, Propose, Refuse
<1>3. ASSUME ReviewedInv, [CorrectionsNext]_correctionVars PROVE ReviewedInv'
  BY <1>3, StepsKeepReviewedInv
<1> QED BY <1>1, <1>2, <1>3, PTL DEF CorrectionsSpec

----------------------------------------------------------------------------
(* Corrections: what a round makes of the text *)

\* No two edits have the same rank.
LEMMA RanksTellEditsApart ==
  ASSUME NEW E, E \subseteq Edits, IsFiniteSet(E), NEW e \in E, NEW f \in E,
         Rank(E, OrderOf(E), e) = Rank(E, OrderOf(E), f)
  PROVE  e = f
<1> DEFINE R == OrderOf(E)
<1>1. Orders(R, E)
  BY EditsAreOrdered
<1> HIDE DEF R
<1>2. /\ Rank(E, R, e) \in 0..(Cardinality(E) - 1) /\ Rank(E, R, f) \in 0..(Cardinality(E) - 1)
      /\ <<e, f>> \in R => Rank(E, R, e) < Rank(E, R, f)
      /\ <<f, e>> \in R => Rank(E, R, f) < Rank(E, R, e)
  BY <1>1, RankGrows
<1>3. Rank(E, R, e) = Rank(E, R, f)
  BY DEF R
<1>4. <<e, f>> \notin R /\ <<f, e>> \notin R
  BY <1>2, <1>3
<1> QED BY <1>1, <1>4 DEF Orders

\* No edits, nothing to sort.
LEMMA SortedOfNone == Sorted({}) = <<>>
<1>1. Cardinality({}) = 0
  BY FS_EmptySet
<1> QED BY <1>1 DEF Sorted, SortedBy

\* An edit that comes before all the others is the first.
LEMMA SortedOfFirst ==
  ASSUME NEW E, E \subseteq Edits, IsFiniteSet(E), NEW e \in Edits, \A f \in E : ComesBefore(e, f)
  PROVE  Sorted({e} \cup E) = <<e>> \o Sorted(E)
<1> DEFINE A == {e} \cup E
           q == Sorted(E)
           p == Sorted(A)
           n == Cardinality(E)
<1>1. e \notin E
  <2> SUFFICES ASSUME e \in E PROVE FALSE
    OBVIOUS
  <2>1. Orders(OrderOf(E), E) /\ <<e, e>> \in OrderOf(E)
    BY EditsAreOrdered DEF OrderOf
  <2> QED BY <2>1 DEF Orders
<1>2. A \subseteq Edits /\ IsFiniteSet(A) /\ Cardinality(A) = n + 1 /\ n \in Nat
  BY <1>1, FS_AddElement, FS_CardinalityType
<1>3. /\ p \in Seq(A) /\ Len(p) = n + 1
      /\ \A f \in A : \E i \in 1..Len(p) : p[i] = f
      /\ \A i, j \in 1..Len(p) : i < j => ComesBefore(p[i], p[j])
      /\ \A i \in 1..Len(p) : Rank(A, OrderOf(A), p[i]) = i - 1
  <2> HIDE DEF A
  <2> QED BY <1>2, EditsAreSorted
<1>4. /\ q \in Seq(E) /\ Len(q) = n
      /\ \A i \in 1..Len(q) : Rank(E, OrderOf(E), q[i]) = i - 1
  BY EditsAreSorted
<1>5. ASSUME NEW f \in A PROVE ~ComesBefore(f, e)
  <2> SUFFICES ASSUME ComesBefore(f, e) PROVE FALSE
    OBVIOUS
  <2>1. Orders(OrderOf(A), A) /\ <<f, e>> \in OrderOf(A)
    BY <1>2, EditsAreOrdered DEF OrderOf
  <2>2. f # e => <<e, f>> \in OrderOf(A)
    BY DEF OrderOf
  <2> HIDE DEF A
  <2>3. e \in A
    BY DEF A
  <2> QED BY <2>1, <2>2, <2>3 DEF Orders
<1>6. Rank(A, OrderOf(A), e) = 0
  <2>1. {f \in A : <<f, e>> \in OrderOf(A)} = {}
    BY <1>5 DEF OrderOf
  <2> QED BY <2>1, FS_EmptySet DEF Rank
<1>7. ASSUME NEW f \in E PROVE Rank(A, OrderOf(A), f) = Rank(E, OrderOf(E), f) + 1
  <2> DEFINE B == {g \in E : <<g, f>> \in OrderOf(E)}
  <2>1. {g \in A : <<g, f>> \in OrderOf(A)} = B \cup {e}
    BY DEF OrderOf
  <2>2. B \in SUBSET E /\ e \notin B
    BY <1>1
  <2>3. IsFiniteSet(B)
    BY <2>2, FS_Subset
  <2> HIDE DEF B
  <2>4. Cardinality(B \cup {e}) = Cardinality(B) + 1
    BY <2>2, <2>3, FS_AddElement
  <2>5. Rank(E, OrderOf(E), f) = Cardinality(B)
    BY DEF Rank, B
  <2> QED BY <2>1, <2>4, <2>5 DEF Rank
<1> HIDE DEF A, q, p, n
<1>8. p[1] = e
  <2>1. 1 \in 1..Len(p) /\ p[1] \in A /\ e \in A
    BY <1>2, <1>3 DEF A
  <2>2. Rank(A, OrderOf(A), p[1]) = 0
    BY <1>3, <2>1
  <2> QED BY <1>2, <1>6, <2>1, <2>2, RanksTellEditsApart
<1>9. ASSUME NEW i \in 1..n PROVE p[i + 1] = q[i]
  <2>1. i + 1 \in 1..Len(p) /\ i \in 1..Len(q) /\ (i + 1) - 1 = i
    BY <1>2, <1>3, <1>4
  <2>2. p[i + 1] \in A /\ q[i] \in E /\ q[i] \in A
    BY <1>3, <1>4, <2>1 DEF A
  <2>3. Rank(A, OrderOf(A), p[i + 1]) = i
    BY <1>3, <2>1
  <2>4. Rank(A, OrderOf(A), q[i]) = i
    BY <1>4, <1>7, <2>1, <2>2
  <2> QED BY <1>2, <2>2, <2>3, <2>4, RanksTellEditsApart
<1>10. p \in Seq(Edits) /\ q \in Seq(Edits)
  BY <1>2, <1>3, <1>4
<1>11. p = <<e>> \o q
  <2>1. Len(<<e>> \o q) = n + 1 /\ <<e>> \o q \in Seq(Edits)
    BY <1>4, <1>10
  <2>2. ASSUME NEW i \in 1..(n + 1) PROVE p[i] = (<<e>> \o q)[i]
    <3>1. CASE i = 1
      BY <1>8, <1>10, <3>1
    <3>2. CASE i # 1
      <4>1. i - 1 \in 1..n /\ (i - 1) + 1 = i
        BY <1>2, <3>2
      <4>2. (<<e>> \o q)[i] = q[i - 1]
        BY <1>4, <1>10, <3>2
      <4> QED BY <1>9, <4>1, <4>2
    <3> QED BY <3>1, <3>2
  <2> QED BY <1>3, <1>10, <2>1, <2>2
<1> QED BY <1>11 DEF p, q, A

\* What a set of edits that begin at the same place inserts, one after the other.
Insertions(S) == FlattenSeq([i \in DOMAIN Sorted(S) |-> Sorted(S)[i].inserted])

LEMMA InsertionsOfMore ==
  ASSUME NEW S, S \subseteq Edits, IsFiniteSet(S)
  PROVE  /\ Insertions(S) \in Seq(Nat)
         /\ Insertions({}) = <<>>
         /\ \A e \in Edits : (\A f \in S : ComesBefore(e, f)) =>
              Insertions({e} \cup S) = e.inserted \o Insertions(S)
<1> DEFINE ins(T) == [i \in DOMAIN Sorted(T) |-> Sorted(T)[i].inserted]
<1>1. Sorted(S) \in Seq(Edits) /\ Len(Sorted(S)) \in Nat
  BY EditsAreSorted
<1>2. \A e \in Edits : e.inserted \in Seq(Nat)
  BY DEF Edits
<1>3. ins(S) \in Seq(Seq(Nat)) /\ Len(ins(S)) = Len(Sorted(S))
  BY <1>1, <1>2
<1>4. Insertions(S) \in Seq(Nat)
  <2> HIDE DEF ins
  <2>1. Insertions(S) = FlattenSeq(ins(S))
    BY DEF Insertions, ins
  <2> QED BY <1>3, <2>1, FlattenSeqType
<1>5. Insertions({}) = <<>>
  <2>1. ins({}) = <<>>
    BY SortedOfNone
  <2> HIDE DEF ins
  <2>2. FlattenSeq(<<>>) = <<>>
    BY DEF FlattenSeq
  <2> QED BY <2>1, <2>2 DEF Insertions, ins
<1>6. ASSUME NEW e \in Edits, \A f \in S : ComesBefore(e, f)
      PROVE  Insertions({e} \cup S) = e.inserted \o Insertions(S)
  <2>1. Sorted({e} \cup S) = <<e>> \o Sorted(S)
    BY <1>6, SortedOfFirst
  <2>2. ins({e} \cup S) = <<e.inserted>> \o ins(S)
    <3> DEFINE q == Sorted(S)
               p == <<e>> \o q
    <3>1. /\ DOMAIN p = 1..(Len(q) + 1) /\ DOMAIN q = 1..Len(q) /\ Len(q) \in Nat
          /\ p[1] = e /\ \A i \in 1..(Len(q) + 1) : i # 1 => p[i] = q[i - 1]
      BY <1>1
    <3> HIDE DEF q, p
    <3> DEFINE a == [i \in DOMAIN p |-> p[i].inserted]
               b == [i \in DOMAIN q |-> q[i].inserted]
    <3>2. b \in Seq(Seq(Nat)) /\ Len(b) = Len(q)
      BY <1>3 DEF q
    <3>3. /\ Len(<<e.inserted>> \o b) = Len(q) + 1
          /\ <<e.inserted>> \o b \in Seq(Seq(Nat))
          /\ (<<e.inserted>> \o b)[1] = e.inserted
          /\ \A i \in 1..(Len(q) + 1) : i # 1 => (<<e.inserted>> \o b)[i] = b[i - 1]
      <4> HIDE DEF b
      <4> QED BY <1>2, <3>1, <3>2
    <3>4. a \in [1..(Len(q) + 1) -> Seq(Nat)]
      <4>1. \A i \in 1..(Len(q) + 1) : p[i] \in Edits
        BY <1>1, <3>1 DEF q
      <4> QED BY <1>2, <3>1, <4>1
    <3>5. \A i \in 1..(Len(q) + 1) : a[i] = (<<e.inserted>> \o b)[i]
      <4> SUFFICES ASSUME NEW i \in 1..(Len(q) + 1) PROVE a[i] = (<<e.inserted>> \o b)[i]
        OBVIOUS
      <4>1. a[i] = p[i].inserted
        BY <3>1
      <4>2. CASE i = 1
        BY <3>1, <3>3, <4>1, <4>2
      <4>3. CASE i # 1
        <5>1. i - 1 \in DOMAIN q
          BY <3>1, <4>3
        <5>2. b[i - 1] = q[i - 1].inserted
          BY <5>1
        <5> HIDE DEF a, b
        <5> QED BY <3>1, <3>3, <4>1, <4>3, <5>2
      <4> QED BY <4>2, <4>3
    <3>6. a = <<e.inserted>> \o b
      <4>1. a \in Seq(Seq(Nat)) /\ Len(a) = Len(q) + 1
        BY <3>1, <3>4
      <4> HIDE DEF a, b
      <4> QED BY <3>3, <3>5, <4>1, SameElements
    <3> QED BY <2>1, <3>6 DEF a, b, p, q
  <2> HIDE DEF ins
  <2>3. FlattenSeq(ins({e} \cup S)) = e.inserted \o FlattenSeq(ins(S))
    BY <1>2, <1>3, <2>2, FlattenSeqCons
  <2> QED BY <2>3 DEF Insertions, ins
<1> QED BY <1>4, <1>5, <1>6

\* What stands at position p of the text as it will be written, and from a on.
EditsAt(E, p) == {e \in E : e.start = p}

KeptAt(text, E, p) ==
  IF p = Len(text) \/ \E e \in E : e.start <= p /\ p < e.end THEN <<>> ELSE <<text[p + 1]>>

Piece(text, E, p) == Insertions(EditsAt(E, p)) \o KeptAt(text, E, p)

From(text, E, a) == FlattenSeq([p \in 1..(Len(text) + 1 - a) |-> Piece(text, E, a + p - 1)])

LEMMA PieceType ==
  ASSUME NEW text \in Seq(Nat), NEW E, E \subseteq Edits, IsFiniteSet(E), NEW p \in 0..Len(text)
  PROVE  /\ EditsAt(E, p) \subseteq Edits /\ IsFiniteSet(EditsAt(E, p))
         /\ Insertions(EditsAt(E, p)) \in Seq(Nat)
         /\ KeptAt(text, E, p) \in Seq(Nat)
         /\ Piece(text, E, p) \in Seq(Nat)
<1>1. EditsAt(E, p) \in SUBSET E /\ EditsAt(E, p) \subseteq Edits
  BY DEF EditsAt
<1>2. IsFiniteSet(EditsAt(E, p))
  BY <1>1, FS_Subset
<1>3. Insertions(EditsAt(E, p)) \in Seq(Nat)
  BY <1>1, <1>2, InsertionsOfMore
<1>4. KeptAt(text, E, p) \in Seq(Nat)
  <2>1. p # Len(text) => text[p + 1] \in Nat
    OBVIOUS
  <2> QED BY <2>1 DEF KeptAt
<1>5. Piece(text, E, p) \in Seq(Nat)
  BY <1>3, <1>4, ConcatElements DEF Piece
<1> QED BY <1>1, <1>2, <1>3, <1>4, <1>5

LEMMA WrittenFromTheStart ==
  ASSUME NEW text \in Seq(Nat), NEW E
  PROVE  Written(text, E) = From(text, E, 0)
<1>1. Len(text) + 1 - 0 = Len(text) + 1 /\ \A p \in 1..(Len(text) + 1) : 0 + p - 1 = p - 1
  OBVIOUS
<1>2. Written(text, E) = FlattenSeq([p \in 1..(Len(text) + 1) |-> Piece(text, E, p - 1)])
  BY DEF Written, Piece, Insertions, EditsAt, KeptAt
<1>3. [p \in 1..(Len(text) + 1) |-> Piece(text, E, p - 1)]
        = [p \in 1..(Len(text) + 1 - 0) |-> Piece(text, E, 0 + p - 1)]
  BY <1>1
<1> QED BY <1>2, <1>3 DEF From

\* The pieces one after the other.
LEMMA FromNext ==
  ASSUME NEW text \in Seq(Nat), NEW E, E \subseteq Edits, IsFiniteSet(E)
  PROVE  /\ From(text, E, Len(text) + 1) = <<>>
         /\ \A a \in 0..(Len(text) + 1) : From(text, E, a) \in Seq(Nat)
         /\ \A a \in 0..Len(text) : From(text, E, a) = Piece(text, E, a) \o From(text, E, a + 1)
<1> DEFINE pieces(a) == [p \in 1..(Len(text) + 1 - a) |-> Piece(text, E, a + p - 1)]
<1>1. ASSUME NEW a \in 0..(Len(text) + 1)
      PROVE  pieces(a) \in Seq(Seq(Nat)) /\ Len(pieces(a)) = Len(text) + 1 - a
  <2>1. \A p \in 1..(Len(text) + 1 - a) : Piece(text, E, a + p - 1) \in Seq(Nat)
    <3> SUFFICES ASSUME NEW p \in 1..(Len(text) + 1 - a) PROVE Piece(text, E, a + p - 1) \in Seq(Nat)
      OBVIOUS
    <3>1. a + p - 1 \in 0..Len(text)
      OBVIOUS
    <3> QED BY <3>1, PieceType
  <2>2. Len(text) + 1 - a \in Nat
    OBVIOUS
  <2> QED BY <2>1, <2>2
<1>2. \A a : From(text, E, a) = FlattenSeq(pieces(a))
  BY DEF From
<1>3. ASSUME NEW a \in 0..(Len(text) + 1) PROVE From(text, E, a) \in Seq(Nat)
  <2> HIDE DEF pieces
  <2> QED BY <1>1, <1>2, FlattenSeqType
<1>4. From(text, E, Len(text) + 1) = <<>>
  <2>1. pieces(Len(text) + 1) = <<>>
    OBVIOUS
  <2>2. FlattenSeq(<<>>) = <<>>
    BY DEF FlattenSeq
  <2> HIDE DEF pieces
  <2> QED BY <1>2, <2>1, <2>2
<1>5. ASSUME NEW a \in 0..Len(text)
      PROVE  From(text, E, a) = Piece(text, E, a) \o From(text, E, a + 1)
  <2>1. /\ a \in 0..(Len(text) + 1) /\ a + 1 \in 0..(Len(text) + 1) /\ Piece(text, E, a) \in Seq(Nat)
        /\ pieces(a + 1) \in Seq(Seq(Nat)) /\ pieces(a) \in Seq(Seq(Nat))
    BY <1>1, PieceType
  <2>2. pieces(a) = <<Piece(text, E, a)>> \o pieces(a + 1)
    <3> DEFINE c == <<Piece(text, E, a)>> \o pieces(a + 1)
               n == Len(text) + 1 - a
    <3>1. /\ n \in Nat \ {0} /\ Len(text) + 1 - (a + 1) = n - 1
          /\ DOMAIN pieces(a) = 1..n /\ DOMAIN pieces(a + 1) = 1..(n - 1)
          /\ \A p \in 1..n : pieces(a)[p] = Piece(text, E, a + p - 1)
          /\ \A p \in 1..(n - 1) : pieces(a + 1)[p] = Piece(text, E, (a + 1) + p - 1)
      OBVIOUS
    <3> HIDE DEF pieces, n
    <3>2. Len(pieces(a)) = n /\ Len(pieces(a + 1)) = n - 1
      BY <2>1, <3>1
    <3>3. /\ c \in Seq(Seq(Nat)) /\ Len(c) = n /\ c[1] = Piece(text, E, a)
          /\ \A p \in 2..n : c[p] = pieces(a + 1)[p - 1]
      BY <2>1, <3>1, <3>2
    <3> HIDE DEF c
    <3>4. ASSUME NEW p \in 1..n PROVE pieces(a)[p] = c[p]
      <4>1. CASE p = 1
        <5>1. a + p - 1 = a
          BY <4>1
        <5> QED BY <3>1, <3>3, <4>1, <5>1
      <4>2. CASE p # 1
        <5>1. p \in 2..n /\ p - 1 \in 1..(n - 1) /\ (a + 1) + (p - 1) - 1 = a + p - 1
          BY <3>1, <4>2
        <5>2. pieces(a + 1)[p - 1] = Piece(text, E, a + p - 1)
          BY <3>1, <5>1
        <5> QED BY <3>1, <3>3, <5>1, <5>2
      <4> QED BY <4>1, <4>2
    <3>5. pieces(a) = c
      BY <2>1, <3>2, <3>3, <3>4, SameElements
    <3> QED BY <3>5 DEF c
  <2> HIDE DEF pieces
  <2> QED BY <1>2, <2>1, <2>2, FlattenSeqCons
<1> QED BY <1>3, <1>4, <1>5

\* A part of the text and what follows it.
LEMMA PartOfText ==
  ASSUME NEW text \in Seq(Nat), NEW i \in 1..(Len(text) + 1), NEW j \in (i - 1)..Len(text)
  PROVE  /\ SubSeq(text, i, j) \in Seq(Nat) /\ Len(SubSeq(text, i, j)) = j - i + 1
         /\ \A k \in 1..(j - i + 1) : SubSeq(text, i, j)[k] = text[i + k - 1]
<1>1. \A k \in i..j : text[k] \in Nat
  OBVIOUS
<1>2. j - i + 1 \in Nat
  OBVIOUS
<1> QED BY <1>1, <1>2

LEMMA StartOfText ==
  ASSUME NEW text \in Seq(Nat), NEW j \in 0..Len(text)
  PROVE  /\ SubSeq(text, 1, j) \in Seq(Nat) /\ Len(SubSeq(text, 1, j)) = j
         /\ \A k \in 1..j : SubSeq(text, 1, j)[k] = text[k]
<1>1. \A k \in 1..j : text[k] \in Nat
  OBVIOUS
<1> QED BY <1>1

LEMMA EndOfText ==
  ASSUME NEW text \in Seq(Nat), NEW j \in 0..Len(text)
  PROVE  /\ SubSeq(text, j + 1, Len(text)) \in Seq(Nat)
         /\ Len(SubSeq(text, j + 1, Len(text))) = Len(text) - j
         /\ \A k \in 1..(Len(text) - j) : SubSeq(text, j + 1, Len(text))[k] = text[j + k]
<1> DEFINE i == j + 1
           n == Len(text)
<1>1. i \in 1..(n + 1) /\ n \in (i - 1)..n
  OBVIOUS
<1>2. n - i + 1 = n - j /\ \A k \in 1..(n - j) : i + k - 1 = j + k
  OBVIOUS
<1>3. /\ SubSeq(text, i, n) \in Seq(Nat) /\ Len(SubSeq(text, i, n)) = n - i + 1
      /\ \A k \in 1..(n - i + 1) : SubSeq(text, i, n)[k] = text[i + k - 1]
  <2> HIDE DEF i
  <2> QED BY <1>1, PartOfText
<1>4. \A k \in 1..(n - j) : SubSeq(text, i, n)[k] = text[j + k]
  <2> HIDE DEF i, n
  <2> QED BY <1>2, <1>3
<1> QED BY <1>2, <1>3, <1>4

LEMMA PartGrows ==
  ASSUME NEW text \in Seq(Nat), NEW i \in 1..Len(text), NEW j \in i..Len(text), NEW rest \in Seq(Nat)
  PROVE  <<text[i]>> \o (SubSeq(text, i + 1, j) \o rest) = SubSeq(text, i, j) \o rest
<1>1. text[i] \in Nat /\ i + 1 \in 1..(Len(text) + 1) /\ j \in ((i + 1) - 1)..Len(text)
  OBVIOUS
<1>2. PICK part \in Seq(Nat) : part = SubSeq(text, i + 1, j)
  BY <1>1, PartOfText
<1>3. PICK head \in Seq(Nat) : head = <<text[i]>>
  BY <1>1, OneInFront
<1>4. head \o part = SubSeq(text, i, j)
  <2>1. /\ Len(part) = j - i /\ \A k \in 1..(j - i) : part[k] = text[i + k]
    <3>1. j - (i + 1) + 1 = j - i /\ \A k \in 1..(j - i) : (i + 1) + k - 1 = i + k
      OBVIOUS
    <3> QED BY <1>1, <1>2, <3>1, PartOfText
  <2>2. /\ SubSeq(text, i, j) \in Seq(Nat) /\ Len(SubSeq(text, i, j)) = j - i + 1
        /\ \A k \in 1..(j - i + 1) : SubSeq(text, i, j)[k] = text[i + k - 1]
    <3>1. i \in 1..(Len(text) + 1) /\ j \in (i - 1)..Len(text)
      OBVIOUS
    <3> QED BY <3>1, PartOfText
  <2>3. /\ head \o part \in Seq(Nat) /\ Len(head \o part) = j - i + 1
        /\ (head \o part)[1] = text[i]
        /\ \A k \in 2..(j - i + 1) : (head \o part)[k] = part[k - 1]
    <3>1. /\ <<text[i]>> \o part \in Seq(Nat) /\ Len(<<text[i]>> \o part) = Len(part) + 1
          /\ (<<text[i]>> \o part)[1] = text[i]
          /\ \A k \in 2..(Len(part) + 1) : (<<text[i]>> \o part)[k] = part[k - 1]
      BY <1>1, OneInFront
    <3> QED BY <1>3, <2>1, <3>1
  <2>4. ASSUME NEW k \in 1..(j - i + 1) PROVE (head \o part)[k] = SubSeq(text, i, j)[k]
    <3>1. CASE k = 1
      <4>1. i + k - 1 = i
        BY <3>1
      <4> QED BY <2>2, <2>3, <3>1, <4>1
    <3>2. CASE k # 1
      <4>1. k \in 2..(j - i + 1) /\ k - 1 \in 1..(j - i) /\ i + (k - 1) = i + k - 1
        BY <3>2
      <4> QED BY <2>1, <2>2, <2>3, <4>1
    <3> QED BY <3>1, <3>2
  <2> QED BY <2>2, <2>3, <2>4, SameElements
<1>5. Associates(head, part, rest)
  BY ConcatAssociates
<1> QED BY <1>2, <1>3, <1>4, <1>5, Zenon DEF Associates

\* The place before those that were counted from the end.
LEMMA OneBefore ==
  ASSUME NEW i \in Nat, NEW j \in Nat, NEW k \in Nat, NEW l \in Nat,
         i <= j, j <= l, k + 1 <= j - i
  PROVE  /\ j - (k + 1) \in 0..l /\ j - (k + 1) \in i..(j-1)
         /\ (j - (k + 1)) + 1 = j - k /\ ((j - (k + 1)) + 1) + 1 = j - k + 1
         /\ (j - (k + 1)) + 1 \in 1..l /\ j \in ((j - (k + 1)) + 1)..l
OBVIOUS

\* Where no edit touches the text it stands as it was.
LEMMA FromUntouched ==
  ASSUME NEW text \in Seq(Nat), NEW E, E \subseteq Edits, IsFiniteSet(E),
         NEW a \in 0..Len(text), NEW b \in a..Len(text),
         \A p \in a..(b-1) : Piece(text, E, p) = <<text[p + 1]>>
  PROVE  From(text, E, a) = SubSeq(text, a + 1, b) \o From(text, E, b)
<1> DEFINE T == {n \in Nat : n <= b - a =>
                   From(text, E, b - n) = SubSeq(text, b - n + 1, b) \o From(text, E, b)}
<1>1. From(text, E, b) \in Seq(Nat) /\ a \in Nat /\ b \in Nat /\ Len(text) \in Nat
  BY FromNext
<1>2. 0 \in T
  <2>1. b - 0 = b /\ SubSeq(text, b - 0 + 1, b) = <<>>
    OBVIOUS
  <2>2. <<>> \o From(text, E, b) = From(text, E, b)
    BY <1>1
  <2> QED BY <2>1, <2>2
<1>3. ASSUME NEW n \in T PROVE n + 1 \in T
  <2> SUFFICES ASSUME n + 1 <= b - a
               PROVE  From(text, E, b - (n + 1)) = SubSeq(text, b - (n + 1) + 1, b) \o From(text, E, b)
    OBVIOUS
  <2> DEFINE p == b - (n + 1)
  <2>1. n \in Nat /\ From(text, E, b - n) = SubSeq(text, b - n + 1, b) \o From(text, E, b)
    <3>1. n \in Nat /\ (n <= b - a =>
            From(text, E, b - n) = SubSeq(text, b - n + 1, b) \o From(text, E, b))
      BY Zenon
    <3> HIDE DEF T
    <3>2. n <= b - a
      BY <1>1, <3>1
    <3> QED BY <3>1, <3>2, Zenon
  <2> HIDE DEF T
  <2>2. /\ p \in 0..Len(text) /\ p \in a..(b-1) /\ p + 1 = b - n /\ (p + 1) + 1 = b - n + 1
        /\ p + 1 \in 1..Len(text) /\ b \in (p + 1)..Len(text)
    <3>1. a <= b /\ b <= Len(text)
      BY <1>1
    <3> QED BY <1>1, <2>1, <3>1, OneBefore, Zenon
  <2> HIDE DEF p
  <2>3. From(text, E, p) = Piece(text, E, p) \o From(text, E, p + 1)
    BY <2>2, FromNext
  <2>4. Piece(text, E, p) = <<text[p + 1]>>
    BY <2>2
  <2>5. <<text[p + 1]>> \o (SubSeq(text, (p + 1) + 1, b) \o From(text, E, b))
          = SubSeq(text, p + 1, b) \o From(text, E, b)
    BY <1>1, <2>2, PartGrows, Zenon
  <2>6. From(text, E, p) = SubSeq(text, p + 1, b) \o From(text, E, b)
    BY <2>1, <2>2, <2>3, <2>4, <2>5, Zenon
  <2> QED BY <2>6 DEF p
<1>4. T = Nat
  <2>1. T \in SUBSET Nat
    OBVIOUS
  <2> HIDE DEF T
  <2> QED BY <1>2, <1>3, <2>1, InductionOnNat
<1>5. b - a \in Nat /\ b - (b - a) = a /\ b - (b - a) + 1 = a + 1
  BY <1>1
<1>6. b - a \in T
  BY <1>4, <1>5
<1> QED BY <1>5, <1>6

\* Where an edit takes the text away nothing stands.
LEMMA FromReplaced ==
  ASSUME NEW text \in Seq(Nat), NEW E, E \subseteq Edits, IsFiniteSet(E),
         NEW a \in 0..Len(text), NEW b \in a..Len(text),
         \A p \in a..(b-1) : Piece(text, E, p) = <<>>
  PROVE  From(text, E, a) = From(text, E, b)
<1> DEFINE T == {n \in Nat : n <= b - a => From(text, E, b - n) = From(text, E, b)}
<1>1. From(text, E, b) \in Seq(Nat) /\ a \in Nat /\ b \in Nat /\ Len(text) \in Nat
  BY FromNext
<1>2. 0 \in T
  OBVIOUS
<1>3. ASSUME NEW n \in T PROVE n + 1 \in T
  <2> SUFFICES ASSUME n + 1 <= b - a PROVE From(text, E, b - (n + 1)) = From(text, E, b)
    OBVIOUS
  <2> DEFINE p == b - (n + 1)
  <2>1. n \in Nat /\ From(text, E, b - n) = From(text, E, b)
    BY <1>1
  <2> HIDE DEF T
  <2>2. p \in 0..Len(text) /\ p \in a..(b-1) /\ p + 1 = b - n
    BY <1>1, <2>1
  <2> HIDE DEF p
  <2>3. From(text, E, p) = Piece(text, E, p) \o From(text, E, p + 1)
    BY <2>2, FromNext
  <2>4. Piece(text, E, p) = <<>> /\ <<>> \o From(text, E, b) = From(text, E, b)
    BY <1>1, <2>2
  <2>5. From(text, E, p) = From(text, E, b)
    BY <2>1, <2>2, <2>3, <2>4, Zenon
  <2> QED BY <2>5 DEF p
<1>4. T = Nat
  <2>1. T \in SUBSET Nat
    OBVIOUS
  <2> HIDE DEF T
  <2> QED BY <1>2, <1>3, <2>1, InductionOnNat
<1>5. b - a \in Nat /\ b - (b - a) = a
  BY <1>1
<1>6. b - a \in T
  BY <1>4, <1>5
<1> QED BY <1>5, <1>6

\* Edits that leave the same pieces from a on leave the same text there.
LEMMA FromSamePieces ==
  ASSUME NEW text \in Seq(Nat), NEW E, NEW F, NEW a \in 0..(Len(text) + 1),
         \A p \in a..Len(text) : Piece(text, E, p) = Piece(text, F, p)
  PROVE  From(text, E, a) = From(text, F, a)
<1>1. \A p \in 1..(Len(text) + 1 - a) : a + p - 1 \in a..Len(text)
  OBVIOUS
<1>2. [p \in 1..(Len(text) + 1 - a) |-> Piece(text, E, a + p - 1)]
        = [p \in 1..(Len(text) + 1 - a) |-> Piece(text, F, a + p - 1)]
  BY <1>1
<1> QED BY <1>2 DEF From

\* An edit in a text of which the part after the edit is already written.
LEMMA SpliceOfParts ==
  ASSUME NEW text \in Seq(Nat), NEW e \in Edits, e.end <= Len(text), NEW rest \in Seq(Nat)
  PROVE  Splice(SubSeq(text, 1, e.end) \o rest, e)
           = SubSeq(text, 1, e.start) \o (e.inserted \o rest)
<1>1. /\ e.start \in Nat /\ e.end \in Nat /\ e.start <= e.end /\ e.inserted \in Seq(Nat)
      /\ Len(text) \in Nat
  BY DEF Edits
<1>2. PICK s \in Nat, t \in Nat, ins \in Seq(Nat) : s = e.start /\ t = e.end /\ ins = e.inserted
  BY <1>1
<1>3. s <= t /\ t <= Len(text) /\ s \in 0..Len(text) /\ t \in 0..Len(text)
  BY <1>1, <1>2
<1>4. PICK kept \in Seq(Nat) : kept = SubSeq(text, 1, t)
  BY <1>3, StartOfText
<1>5. Len(kept) = t /\ \A k \in 1..t : kept[k] = text[k]
  BY <1>3, <1>4, StartOfText
<1>6. PICK head \in Seq(Nat) : head = SubSeq(text, 1, s)
  BY <1>3, StartOfText
<1>7. Len(head) = s /\ \A k \in 1..s : head[k] = text[k]
  BY <1>3, <1>6, StartOfText
<1>8. PICK all \in Seq(Nat) : all = kept \o rest
  BY ConcatElements
<1>9. /\ Len(all) = t + Len(rest) /\ Len(rest) \in Nat
      /\ \A k \in 1..t : all[k] = kept[k]
      /\ \A k \in (t + 1)..(t + Len(rest)) : all[k] = rest[k - t]
  <2>1. /\ Len(kept \o rest) = Len(kept) + Len(rest)
        /\ \A k \in 1..Len(kept) : (kept \o rest)[k] = kept[k]
        /\ \A k \in (Len(kept) + 1)..(Len(kept) + Len(rest)) : (kept \o rest)[k] = rest[k - Len(kept)]
    BY ConcatElements
  <2>2. Len(rest) \in Nat
    OBVIOUS
  <2> QED BY <1>5, <1>8, <2>1, <2>2
<1>10. SubSeq(all, 0 + 1, s) = head
  <2>1. /\ SubSeq(all, 1, s) \in Seq(Nat) /\ Len(SubSeq(all, 1, s)) = s
        /\ \A k \in 1..s : SubSeq(all, 1, s)[k] = all[k]
    <3>1. s \in 0..Len(all)
      BY <1>3, <1>9
    <3> QED BY <3>1, StartOfText
  <2>2. \A k \in 1..s : all[k] = head[k]
    <3>1. \A k \in 1..s : k \in 1..t
      BY <1>3
    <3>2. \A k \in 1..s : all[k] = kept[k] /\ kept[k] = text[k] /\ head[k] = text[k]
      BY <1>5, <1>7, <1>9, <3>1
    <3> QED BY <3>2
  <2>3. SubSeq(all, 1, s) = head
    BY <1>7, <2>1, <2>2, SameElements
  <2> QED BY <2>3
<1>11. SubSeq(all, t + 1, Len(all)) = rest
  <2>1. /\ SubSeq(all, t + 1, Len(all)) \in Seq(Nat)
        /\ Len(SubSeq(all, t + 1, Len(all))) = Len(rest)
        /\ \A k \in 1..Len(rest) : SubSeq(all, t + 1, Len(all))[k] = all[t + k]
    <3>1. t \in 0..Len(all) /\ Len(all) - t = Len(rest)
      BY <1>9
    <3> QED BY <3>1, EndOfText
  <2>2. \A k \in 1..Len(rest) : all[t + k] = rest[k]
    <3> SUFFICES ASSUME NEW k \in 1..Len(rest) PROVE all[t + k] = rest[k]
      OBVIOUS
    <3>1. t + k \in (t + 1)..(t + Len(rest)) /\ (t + k) - t = k
      BY <1>9
    <3> QED BY <1>9, <3>1
  <2> QED BY <2>1, <2>2, SameElements
<1>12. Associates(head, ins, rest)
  BY ConcatAssociates
<1>13. Splice(all, e) = (head \o ins) \o rest
  BY <1>2, <1>10, <1>11 DEF Splice, Slice
<1> QED BY <1>2, <1>4, <1>6, <1>8, <1>12, <1>13, Zenon DEF Associates

\* A position where no edit begins and that no edit takes away.
LEMMA UntouchedPiece ==
  ASSUME NEW text \in Seq(Nat), NEW E, NEW p \in 0..(Len(text) - 1),
         \A e \in E : e.start # p /\ ~(e.start <= p /\ p < e.end)
  PROVE  Piece(text, E, p) = <<text[p + 1]>>
<1>1. EditsAt(E, p) = {}
  BY DEF EditsAt
<1>2. p # Len(text) /\ text[p + 1] \in Nat
  OBVIOUS
<1>3. KeptAt(text, E, p) = <<text[p + 1]>>
  BY <1>2 DEF KeptAt
<1>4. Insertions({}) = <<>>
  <2>1. IsFiniteSet({}) /\ {} \subseteq Edits
    BY FS_EmptySet
  <2> QED BY <2>1, InsertionsOfMore
<1>5. <<text[p + 1]>> \in Seq(Nat)
  BY <1>2
<1>6. <<>> \o <<text[p + 1]>> = <<text[p + 1]>>
  BY <1>5
<1> QED BY <1>1, <1>3, <1>4, <1>6 DEF Piece

LEMMA WrittenUntouched ==
  ASSUME NEW text \in Seq(Nat), NEW E, E \subseteq Edits, IsFiniteSet(E), NEW b \in 0..Len(text),
         \A p \in 0..(b-1) : Piece(text, E, p) = <<text[p + 1]>>
  PROVE  Written(text, E) = SubSeq(text, 1, b) \o From(text, E, b)
<1> DEFINE a == 0
<1>1. a \in 0..Len(text) /\ b \in a..Len(text)
  OBVIOUS
<1>2. \A p \in a..(b-1) : Piece(text, E, p) = <<text[p + 1]>>
  OBVIOUS
<1>3. a + 1 = 1
  OBVIOUS
<1>4. Written(text, E) = From(text, E, a)
  BY WrittenFromTheStart
<1> HIDE DEF a
<1>5. From(text, E, a) = SubSeq(text, a + 1, b) \o From(text, E, b)
  BY <1>1, <1>2, FromUntouched
<1> QED BY <1>3, <1>4, <1>5

\* One more edit, before all the others: writing it is splicing it in.
LEMMA WriteOneMore ==
  ASSUME NEW text \in Seq(Nat), NEW E, E \subseteq Edits, IsFiniteSet(E),
         NEW e \in Edits, e.end <= Len(text),
         \A f \in E : ComesBefore(e, f) /\ e.end <= f.start
  PROVE  Written(text, {e} \cup E) = Splice(Written(text, E), e)
<1> DEFINE A == {e} \cup E
           rest == From(text, E, e.end)
<1>1. /\ e.start \in Nat /\ e.end \in Nat /\ e.start <= e.end /\ e.inserted \in Seq(Nat)
      /\ Len(text) \in Nat
      /\ \A f \in E : f.start \in Nat /\ f.end \in Nat /\ f.start <= f.end
  BY DEF Edits
<1>2. A \subseteq Edits /\ IsFiniteSet(A)
  BY FS_AddElement
<1>3. e.start \in 0..Len(text) /\ e.end \in 0..Len(text) /\ e.end \in e.start..Len(text)
  BY <1>1
<1>4. rest \in Seq(Nat)
  <2>1. e.end \in 0..(Len(text) + 1)
    BY <1>1
  <2> QED BY <2>1, FromNext
<1>5. Written(text, E) = SubSeq(text, 1, e.end) \o rest
  <2>1. ASSUME NEW p \in 0..(e.end - 1) PROVE Piece(text, E, p) = <<text[p + 1]>>
    <3>1. p \in 0..(Len(text) - 1)
      BY <1>1
    <3>2. \A f \in E : f.start # p /\ ~(f.start <= p /\ p < f.end)
      BY <1>1
    <3> QED BY <3>1, <3>2, UntouchedPiece
  <2> QED BY <1>3, <2>1, WrittenUntouched
<1>6. Written(text, A) = SubSeq(text, 1, e.start) \o From(text, A, e.start)
  <2>1. ASSUME NEW p \in 0..(e.start - 1) PROVE Piece(text, A, p) = <<text[p + 1]>>
    <3>1. p \in 0..(Len(text) - 1)
      BY <1>1
    <3>2. \A f \in A : f.start # p /\ ~(f.start <= p /\ p < f.end)
      BY <1>1
    <3> QED BY <3>1, <3>2, UntouchedPiece
  <2> HIDE DEF A
  <2> QED BY <1>2, <1>3, <2>1, WrittenUntouched
<1>7. ASSUME NEW p \in e.end..Len(text), p # e.start PROVE Piece(text, A, p) = Piece(text, E, p)
  <2>1. EditsAt(A, p) = EditsAt(E, p)
    BY <1>7 DEF EditsAt
  <2>2. (\E f \in A : f.start <= p /\ p < f.end) <=> (\E f \in E : f.start <= p /\ p < f.end)
    BY <1>1
  <2>3. KeptAt(text, A, p) = KeptAt(text, E, p)
    BY <2>2 DEF KeptAt
  <2> QED BY <2>1, <2>3 DEF Piece
<1>8. \A S \in SUBSET E : IsFiniteSet(S) =>
        /\ Insertions(S) \in Seq(Nat) /\ Insertions({}) = <<>>
        /\ Insertions({e} \cup S) = e.inserted \o Insertions(S)
  BY InsertionsOfMore
<1>9. e.start + 1 \in 0..(Len(text) + 1)
  BY <1>1
<1>10. CASE e.start < e.end
  <2>1. Piece(text, A, e.start) = e.inserted
    <3>1. EditsAt(A, e.start) = {e} \cup {}
      <4>1. \A f \in E : f.start # e.start
        BY <1>1, <1>10
      <4> QED BY <4>1 DEF EditsAt
    <3>2. IsFiniteSet({}) /\ {} \in SUBSET E
      BY FS_EmptySet
    <3>3. Insertions(EditsAt(A, e.start)) = e.inserted \o <<>>
      BY <1>8, <3>1, <3>2
    <3>4. KeptAt(text, A, e.start) = <<>>
      BY <1>1, <1>10 DEF KeptAt
    <3>5. e.inserted \o <<>> = e.inserted
      BY <1>1
    <3> QED BY <3>3, <3>4, <3>5 DEF Piece
  <2>2. ASSUME NEW p \in (e.start + 1)..(e.end - 1) PROVE Piece(text, A, p) = <<>>
    <3>1. EditsAt(A, p) = {}
      <4>1. \A f \in A : f.start # p
        BY <1>1
      <4> QED BY <4>1 DEF EditsAt
    <3>2. KeptAt(text, A, p) = <<>>
      <4>1. \E f \in A : f.start <= p /\ p < f.end
        <5>1. e.start <= p /\ p < e.end
          BY <1>1
        <5> QED BY <5>1
      <4> QED BY <4>1 DEF KeptAt
    <3>3. Insertions({}) = <<>>
      <4>1. IsFiniteSet({}) /\ {} \in SUBSET E
        BY FS_EmptySet
      <4> QED BY <1>8, <4>1
    <3>4. <<>> \o <<>> = <<>>
      OBVIOUS
    <3> QED BY <3>1, <3>2, <3>3, <3>4 DEF Piece
  <2> HIDE DEF A
  <2>3. From(text, A, e.start + 1) = From(text, A, e.end)
    <3>1. e.start + 1 \in 0..Len(text) /\ e.end \in (e.start + 1)..Len(text)
      BY <1>1, <1>10
    <3> QED BY <1>2, <2>2, <3>1, FromReplaced
  <2>4. From(text, A, e.end) = rest
    <3>1. \A p \in e.end..Len(text) : Piece(text, A, p) = Piece(text, E, p)
      BY <1>1, <1>7, <1>10
    <3>2. e.end \in 0..(Len(text) + 1)
      BY <1>1
    <3> QED BY <3>1, <3>2, FromSamePieces
  <2>5. From(text, A, e.start) = e.inserted \o rest
    BY <1>2, <1>3, <2>1, <2>3, <2>4, FromNext
  <2> QED BY <1>4, <1>5, <1>6, <2>5, SpliceOfParts DEF A
<1>11. CASE e.start = e.end
  <2> DEFINE S == EditsAt(E, e.end)
             kept == KeptAt(text, E, e.end)
             after == From(text, E, e.end + 1)
  <2>1. /\ Insertions(S) \in Seq(Nat) /\ kept \in Seq(Nat) /\ IsFiniteSet(S)
        /\ Piece(text, E, e.end) \in Seq(Nat)
    BY <1>3, PieceType
  <2>2. Piece(text, A, e.start) = (e.inserted \o Insertions(S)) \o kept
    <3>1. EditsAt(A, e.start) = {e} \cup S /\ S \in SUBSET E
      BY <1>11 DEF EditsAt
    <3>2. KeptAt(text, A, e.start) = kept
      <4>1. (\E f \in A : f.start <= e.start /\ e.start < f.end)
              <=> (\E f \in E : f.start <= e.end /\ e.end < f.end)
        BY <1>1, <1>11
      <4> QED BY <1>11, <4>1 DEF KeptAt
    <3> HIDE DEF S, kept
    <3>3. Insertions({e} \cup S) = e.inserted \o Insertions(S)
      BY <1>8, <2>1, <3>1
    <3> QED BY <3>1, <3>2, <3>3 DEF Piece
  <2>3. From(text, A, e.start + 1) = after
    <3>1. \A p \in (e.start + 1)..Len(text) : Piece(text, A, p) = Piece(text, E, p)
      <4>1. \A p \in (e.start + 1)..Len(text) : p \in e.end..Len(text) /\ p # e.start
        BY <1>1, <1>11
      <4> HIDE DEF A
      <4> QED BY <1>7, <4>1
    <3> HIDE DEF A
    <3>2. From(text, A, e.start + 1) = From(text, E, e.start + 1)
      BY <1>9, <3>1, FromSamePieces
    <3> QED BY <1>11, <3>2
  <2>4. after \in Seq(Nat)
    <3>1. e.end + 1 \in 0..(Len(text) + 1)
      BY <1>1
    <3> QED BY <3>1, FromNext
  <2>5. rest = Piece(text, E, e.end) \o after
    BY <1>3, FromNext
  <2>6. Associates(e.inserted, Insertions(S), kept)
    <3> HIDE DEF S, kept
    <3> QED BY <1>1, <2>1, ConcatAssociates
  <2>7. Piece(text, A, e.start) = e.inserted \o Piece(text, E, e.end)
    BY <2>2, <2>6, Zenon DEF Associates, Piece
  <2>8. Associates(e.inserted, Piece(text, E, e.end), after)
    <3> HIDE DEF after
    <3> QED BY <1>1, <2>1, <2>4, ConcatAssociates
  <2>9. From(text, A, e.start) = Piece(text, A, e.start) \o From(text, A, e.start + 1)
    <3> HIDE DEF A
    <3> QED BY <1>2, <1>3, FromNext
  <2>10. From(text, A, e.start) = e.inserted \o rest
    <3> HIDE DEF A, S, kept, after, rest
    <3> QED BY <2>3, <2>5, <2>7, <2>8, <2>9, Zenon DEF Associates
  <2> QED BY <1>4, <1>5, <1>6, <2>10, SpliceOfParts
<1> QED BY <1>1, <1>10, <1>11

LEMMA WrittenWithoutEdits ==
  ASSUME NEW text \in Seq(Nat)
  PROVE  Written(text, {}) = text
<1> DEFINE n == Len(text)
<1>1. n \in Nat /\ n \in 0..n /\ IsFiniteSet({}) /\ {} \subseteq Edits
  BY FS_EmptySet
<1>2. \A p \in 0..(n-1) : Piece(text, {}, p) = <<text[p + 1]>>
  BY UntouchedPiece
<1>3. Written(text, {}) = SubSeq(text, 1, n) \o From(text, {}, n)
  <2> HIDE DEF n
  <2>1. n \in 0..Len(text)
    BY <1>1 DEF n
  <2> QED BY <1>1, <1>2, <2>1, WrittenUntouched
<1>4. From(text, {}, n) = <<>>
  <2>1. From(text, {}, n) = Piece(text, {}, n) \o From(text, {}, n + 1)
    BY <1>1, FromNext
  <2>2. From(text, {}, n + 1) = <<>>
    BY <1>1, FromNext
  <2>3. EditsAt({}, n) = {} /\ KeptAt(text, {}, n) = <<>> /\ Insertions({}) = <<>>
    BY <1>1, InsertionsOfMore DEF EditsAt, KeptAt
  <2>4. <<>> \o <<>> = <<>>
    OBVIOUS
  <2> HIDE DEF n
  <2> QED BY <2>1, <2>2, <2>3, <2>4 DEF Piece
<1>5. SubSeq(text, 1, n) = text
  BY <1>1, StartOfText, SameElements
<1>6. text \o <<>> = text
  OBVIOUS
<1> HIDE DEF n
<1> QED BY <1>3, <1>4, <1>5, <1>6, Zenon

\* Applied from the last to the first, the edits of a block make the text they describe.
LEMMA AppliedIsWritten ==
  ASSUME NEW text \in Seq(Nat), NEW E, E \subseteq Edits, IsFiniteSet(E), ~Overlap(E),
         \A e \in E : e.end <= Len(text)
  PROVE  ApplyEdits(text, E) = Written(text, E)
<1> DEFINE q == Sorted(E)
           n == Len(q)
           Later(i) == {q[k] : k \in i..n}
           W(i) == Written(text, Later(i))
           P(f) == f = [i \in 1..(n + 1) |-> IF i > n THEN text ELSE Splice(f[i + 1], q[i])]
           F == CHOOSE f : P(f)
<1>1. /\ q \in Seq(E) /\ n \in Nat /\ \A e \in E : \E i \in 1..n : q[i] = e
      /\ \A i, j \in 1..n : i < j => ComesBefore(q[i], q[j]) /\ q[i].end <= q[j].start
  BY EditsAreSorted, SortedEditsDoNotMeet
<1>2. \A i \in 1..n : q[i] \in E /\ q[i] \in Edits /\ q[i].end <= Len(text)
  BY <1>1
<1>3. ApplyEdits(text, E) = F[1]
  BY DEF ApplyEdits
<1> HIDE DEF q, n
<1>4. W(n + 1) = text
  <2>1. Later(n + 1) = {}
    BY <1>1
  <2> QED BY <2>1, WrittenWithoutEdits
<1>5. ASSUME NEW i \in 1..n PROVE W(i) = Splice(W(i + 1), q[i])
  <2>1. Later(i) = {q[i]} \cup Later(i + 1)
    <3>1. \A k : k \in i..n <=> k = i \/ k \in (i + 1)..n
      BY <1>1
    <3> QED BY <3>1
  <2>2. Later(i + 1) \in SUBSET E /\ Later(i + 1) \subseteq Edits
    BY <1>1, <1>2
  <2>3. \A e \in Later(i + 1) : ComesBefore(q[i], e) /\ q[i].end <= e.start
    <3>1. \A k \in (i + 1)..n : k \in 1..n /\ i < k
      BY <1>1
    <3> QED BY <1>1, <3>1
  <2> HIDE DEF Later
  <2>4. IsFiniteSet(Later(i + 1))
    BY <2>2, FS_Subset
  <2>5. Written(text, {q[i]} \cup Later(i + 1)) = Splice(Written(text, Later(i + 1)), q[i])
    BY <1>2, <2>2, <2>3, <2>4, WriteOneMore
  <2> QED BY <2>1, <2>5
<1>6. W(1) = Written(text, E)
  <2>1. Later(1) = E
    BY <1>1, <1>2
  <2> QED BY <2>1
<1> HIDE DEF W
<1>7. P(F)
  <2> DEFINE g == [i \in 1..(n + 1) |-> W(i)]
  <2>1. \A i \in 1..(n + 1) : g[i] = IF i > n THEN text ELSE Splice(g[i + 1], q[i])
    <3> SUFFICES ASSUME NEW i \in 1..(n + 1)
                 PROVE  g[i] = IF i > n THEN text ELSE Splice(g[i + 1], q[i])
      OBVIOUS
    <3>1. CASE i > n
      <4>1. i = n + 1
        BY <1>1, <3>1
      <4> QED BY <1>4, <3>1, <4>1
    <3>2. CASE ~(i > n)
      <4>1. i \in 1..n /\ i + 1 \in 1..(n + 1)
        BY <1>1, <3>2
      <4> QED BY <1>5, <3>2, <4>1
    <3> QED BY <3>1, <3>2
  <2>2. P(g)
    BY <2>1
  <2> HIDE DEF P, g
  <2> QED BY <2>2
<1> HIDE DEF F
<1>8. \A i \in 1..(n + 1) : F[i] = IF i > n THEN text ELSE Splice(F[i + 1], q[i])
  BY <1>7
<1> HIDE DEF P
<1> DEFINE T == {m \in Nat : m <= n => F[n + 1 - m] = W(n + 1 - m)}
<1>9. 0 \in T
  <2>1. n + 1 - 0 = n + 1 /\ n + 1 \in 1..(n + 1) /\ n + 1 > n
    BY <1>1
  <2>2. F[n + 1] = text
    BY <1>8, <2>1
  <2> QED BY <1>4, <2>1, <2>2
<1>10. ASSUME NEW m \in T PROVE m + 1 \in T
  <2> SUFFICES ASSUME m + 1 <= n PROVE F[n + 1 - (m + 1)] = W(n + 1 - (m + 1))
    OBVIOUS
  <2>1. m \in Nat /\ F[n + 1 - m] = W(n + 1 - m)
    BY <1>1
  <2> DEFINE i == n + 1 - (m + 1)
  <2> HIDE DEF T
  <2>2. i \in 1..n /\ i + 1 = n + 1 - m /\ i \in 1..(n + 1) /\ ~(i > n)
    BY <1>1, <2>1
  <2> HIDE DEF i
  <2>3. F[i] = Splice(F[i + 1], q[i])
    BY <1>8, <2>2
  <2>4. F[i] = W(i)
    BY <1>5, <2>1, <2>2, <2>3
  <2> QED BY <2>4 DEF i
<1>11. T = Nat
  <2>1. T \in SUBSET Nat
    OBVIOUS
  <2> HIDE DEF T
  <2> QED BY <1>9, <1>10, <2>1, InductionOnNat
<1>12. F[1] = W(1)
  <2>1. n \in T
    <3> HIDE DEF T
    <3> QED BY <1>1, <1>11
  <2>2. n + 1 - n = 1
    BY <1>1
  <2> QED BY <1>1, <2>1, <2>2
<1> QED BY <1>3, <1>6, <1>12

\* A round has corrections inside the text that was reviewed, and the patch that several
\* findings make holds their blocks, each with its edits applied to that text.
RoundInv ==
  /\ seen.text \in [Chapter -> Seq(Nat)]
  /\ \A i \in DOMAIN round : round[i].end <= Len(seen.text[round[i].block])
  /\ FromFindings =>
       /\ \A b \in TouchedBlocks(round) : ~Overlap(EditsOf(round, b))
       /\ patch.after = [b \in TouchedBlocks(round) |-> ApplyEdits(seen.text[b], EditsOf(round, b))]

LEMMA StepsKeepRoundInv ==
  ASSUME ReviewedInv, RoundInv, [CorrectionsNext]_correctionVars
  PROVE  RoundInv'
<1>1. UNCHANGED <<seen, round>>
  BY DEF CorrectionsNext, correctionVars, ProposeCorrections, ProposeFromFinding, ProposeBlockEdit,
     DecideGate, ApplyPatch, EditBlock, Annotate, Propose, Refuse
<1>2. CASE UNCHANGED patch
  <2>1. /\ \A b : EditsOf(round', b) = EditsOf(round, b)
        /\ TouchedBlocks(round') = TouchedBlocks(round)
        /\ FromFindings' <=> FromFindings
    BY <1>1, <1>2 DEF FromFindings
  <2> QED BY <1>1, <1>2, <2>1 DEF RoundInv
<1>3. CASE Len(round) = 1 \/ round = <<>>
  <2>1. ~FromFindings'
    BY <1>1, <1>3 DEF FromFindings
  <2> QED BY <1>1, <2>1 DEF RoundInv
<1>4. CASE /\ Len(round) > 1
           /\ \A i \in DOMAIN round : Holds(round[i])
           /\ ~(\E b \in TouchedBlocks(round) : Overlap(EditsOf(round, b)))
           /\ Propose(BlocksBefore(TouchedBlocks(round)), Corrected(round))
  <2>1. work.text = seen.text
    <3>1. 1 \in DOMAIN round /\ round[1].about \in 0..1
      BY <1>4, RoundsAreTyped DEF ReviewedInv
    <3>2. round[1].about = work.revision
      BY <1>4, <3>1 DEF Holds
    <3> QED BY <3>1, <3>2 DEF ReviewedInv
  <2>2. patch'.after = [b \in TouchedBlocks(round) |-> ApplyEdits(seen.text[b], EditsOf(round, b))]
    <3>1. patch'.after = Corrected(round)
      BY <1>4 DEF Propose
    <3> QED BY <2>1, <3>1 DEF Corrected
  <2>3. /\ \A b : EditsOf(round', b) = EditsOf(round, b)
        /\ TouchedBlocks(round') = TouchedBlocks(round)
    BY <1>1
  <2> QED BY <1>1, <1>4, <2>2, <2>3 DEF RoundInv
<1>5. UNCHANGED patch \/ ProposeCorrections \/ ProposeFromFinding \/ ProposeBlockEdit
  BY DEF CorrectionsNext, correctionVars, DecideGate, ApplyPatch, EditBlock, Annotate, Refuse
<1>6. CASE ProposeCorrections
  <2>1. CASE Refuse
    BY <1>2, <2>1 DEF Refuse
  <2>2. CASE ~Refuse
    <3>1. /\ \A i \in DOMAIN round : Holds(round[i])
          /\ ~(\E b \in TouchedBlocks(round) : Overlap(EditsOf(round, b)))
          /\ Propose(BlocksBefore(TouchedBlocks(round)), Corrected(round))
      BY <1>6, <2>2 DEF ProposeCorrections
    <3>2. round \in Seq(Items) /\ Len(round) \in Nat
      BY RoundsAreTyped DEF ReviewedInv
    <3>3. Len(round) > 1 \/ Len(round) = 1 \/ round = <<>>
      BY <3>2
    <3> QED BY <1>3, <1>4, <3>1, <3>3
  <2> QED BY <2>1, <2>2
<1> QED BY <1>2, <1>3, <1>5, <1>6 DEF ProposeFromFinding, ProposeBlockEdit

\* CorrectedAsAccepted, of ApprovedFindingCorrectionsPass.propose and _apply_edits, for every
\* text and every round of findings: the block a patch brings is the reviewed one with each
\* accepted edit at its place, whatever their number and order, and nothing else changed.
THEOREM RoundsAreWritten == CorrectionsSpec => []CorrectedAsAccepted
<1>1. CorrectionsInit => ReviewedInv /\ RoundInv
  <2> SUFFICES ASSUME CorrectionsInit PROVE ReviewedInv /\ RoundInv
    OBVIOUS
  <2>1. /\ seen = work /\ work.version = 1 /\ work.revision = 1 /\ round \in Round
        /\ gate = None /\ patch = None
        /\ \E text \in Manuscript : work.text = text
        /\ \A i \in DOMAIN round : round[i].end <= Len(work.text[round[i].block])
    BY DEF CorrectionsInit
  <2>2. work.text \in [Chapter -> Seq(Nat)]
    BY <2>1, CorrectionsAssumption
  <2> QED BY <2>1, <2>2 DEF ReviewedInv, RoundInv, FromFindings
<1>2. ReviewedInv /\ RoundInv => CorrectedAsAccepted
  <2> SUFFICES ASSUME ReviewedInv, RoundInv, FromFindings, NEW b \in Chapter
               PROVE  IF b \in DOMAIN patch.after
                      THEN patch.after[b] = Written(seen.text[b], EditsOf(round, b))
                      ELSE EditsOf(round, b) = {}
    BY DEF CorrectedAsAccepted
  <2> DEFINE E == EditsOf(round, b)
             text == seen.text[b]
  <2>1. E \subseteq Edits /\ IsFiniteSet(E) /\ (b \notin TouchedBlocks(round) => E = {})
    BY EditsOfRound DEF ReviewedInv
  <2>2. text \in Seq(Nat) /\ DOMAIN patch.after = TouchedBlocks(round)
    BY DEF RoundInv
  <2>3. CASE b \in TouchedBlocks(round)
    <3>1. patch.after[b] = ApplyEdits(text, E) /\ ~Overlap(E)
      BY <2>3 DEF RoundInv
    <3>2. ASSUME NEW e \in E PROVE e.end <= Len(text)
      <4>1. PICK i \in DOMAIN round : round[i].block = b /\ e \in round[i].edits
        BY DEF EditsOf
      <4>2. round[i] \in Items
        BY RoundsAreTyped DEF ReviewedInv
      <4>3. e.end <= round[i].end /\ e.end \in Nat /\ round[i].end \in Nat
        BY <4>1, <4>2 DEF Items, Edits
      <4>4. round[i].end <= Len(text) /\ Len(text) \in Nat
        BY <2>2, <4>1 DEF RoundInv
      <4> QED BY <4>3, <4>4
    <3> HIDE DEF E, text
    <3>3. ApplyEdits(text, E) = Written(text, E)
      BY <2>1, <2>2, <3>1, <3>2, AppliedIsWritten
    <3> QED BY <2>2, <2>3, <3>1, <3>3 DEF E, text
  <2>4. CASE b \notin TouchedBlocks(round)
    BY <2>1, <2>2, <2>4
  <2> QED BY <2>3, <2>4
<1>3. ReviewedInv /\ RoundInv /\ [CorrectionsNext]_correctionVars => ReviewedInv' /\ RoundInv'
  BY StepsKeepReviewedInv, StepsKeepRoundInv
<1> QED BY <1>1, <1>2, <1>3, PTL DEF CorrectionsSpec

----------------------------------------------------------------------------
(* WorkViews: what is above a block *)

\* Books all of whose blocks have a parent, or none.
IsTree(B) == IsBook(B) /\ \A b \in DOMAIN B : B[b].parent \in DOMAIN B \cup {Root}

Rooted(B, b) == Root \in Above(B, b)

\* With each block that is in T its parent is.
ClosedUpwards(B, T) == \A c \in T \ {Root} : B[c].parent \in T

\* f are the ancestors found from b, level by level.
Climbs(f, B, b, n) ==
  /\ f[0] = {b}
  /\ \A i \in 0..n : f[i] \in SUBSET (DOMAIN B \cup {Root})
  /\ \A i \in 1..n : f[i] = f[i-1] \cup {B[c].parent : c \in f[i-1] \ {Root}}

LEMMA AboveIsClimb ==
  ASSUME NEW B, IsTree(B), NEW b \in DOMAIN B \cup {Root}
  PROVE  \E f : Climbs(f, B, b, Cardinality(DOMAIN B)) /\ Above(B, b) = f[Cardinality(DOMAIN B)]
<1> DEFINE N == Cardinality(DOMAIN B)
           V == SUBSET (DOMAIN B \cup {Root})
           Step(known) == known \cup {B[c].parent : c \in known \ {Root}}
           P(f) == f = [n \in 0..N |->
             IF n = 0 THEN {b} ELSE f[n-1] \cup {B[c].parent : c \in f[n-1] \ {Root}}]
           F == CHOOSE f : P(f)
<1>1. N \in Nat
  BY FS_CardinalityType DEF IsTree, IsBook
<1> HIDE DEF N
<1>2. ASSUME NEW known \in V PROVE Step(known) \in V
  BY DEF IsTree
<1>3. \E f : P(f)
  <2> DEFINE step == [n \in 1..N |-> [known \in V |-> Step(known)]]
  <2>1. step \in [1..N -> [V -> V]]
    <3> HIDE DEF Step, V
    <3> QED BY <1>2
  <2>2. {b} \in V
    OBVIOUS
  <2>3. PICK f \in [0..N -> V] : Recurs(f, N, {b}, step)
    <3> HIDE DEF step, V, P, F, Step
    <3> QED BY <1>1, <2>1, <2>2, RecursionExists
  <2>4. ASSUME NEW n \in 1..N PROVE f[n] = Step(f[n-1])
    <3>1. n - 1 \in 0..N
      BY <1>1
    <3>2. f[n-1] \in V
      BY <3>1
    <3> HIDE DEF V, Step
    <3> QED BY <2>3, <3>2 DEF Recurs
  <2>5. \A n \in 0..N : n # 0 => n \in 1..N
    BY <1>1
  <2>6. P(f)
    BY <2>3, <2>4, <2>5 DEF Recurs
  <2> QED BY <2>6
<1>4. P(F)
  <2> HIDE DEF P
  <2> QED BY <1>3
<1>5. Above(B, b) = F[N]
  BY DEF Above, N
<1>6. F[0] = {b}
  <2> HIDE DEF F
  <2> QED BY <1>1, <1>4
<1>7. ASSUME NEW n \in 1..N PROVE F[n] = Step(F[n-1])
  <2>1. n \in 0..N /\ n # 0
    BY <1>1
  <2> HIDE DEF F
  <2> QED BY <1>4, <2>1
<1>8. ASSUME NEW m \in 0..N PROVE F[m] \in V
  <2>1. m \in Nat /\ F[0] \in V /\ \A n \in 1..m : n \in 1..N
    <3> HIDE DEF F
    <3> QED BY <1>1, <1>6
  <2>2. ASSUME NEW n \in 1..N, F[n-1] \in V PROVE F[n] \in V
    <3> HIDE DEF F, V, Step
    <3> QED BY <1>2, <1>7, <2>2
  <2> HIDE DEF F, V
  <2> QED BY <2>1, <2>2, RecursionStays
<1>9. Climbs(F, B, b, N)
  <2> HIDE DEF F
  <2> QED BY <1>6, <1>7, <1>8 DEF Climbs
<1> HIDE DEF F
<1> QED BY <1>5, <1>9 DEF N

\* There are levels enough: what is above a block is the least set that has the block and,
\* with each block of it, its parent. A level that adds a place takes one of the blocks below.
LEMMA AboveIsClosed ==
  ASSUME NEW B, IsTree(B), NEW b \in DOMAIN B \cup {Root}
  PROVE  /\ b \in Above(B, b) /\ Above(B, b) \subseteq DOMAIN B \cup {Root}
         /\ ClosedUpwards(B, Above(B, b))
         /\ \A T : b \in T /\ ClosedUpwards(B, T) => Above(B, b) \subseteq T
<1> DEFINE N == Cardinality(DOMAIN B)
<1>1. N \in Nat /\ IsFiniteSet(DOMAIN B) /\ Root \notin DOMAIN B
  BY FS_CardinalityType DEF IsTree, IsBook
<1>2. PICK f : Climbs(f, B, b, N) /\ Above(B, b) = f[N]
  BY AboveIsClimb
<1> DEFINE Closed(n) == ClosedUpwards(B, f[n])
           below(n) == {c \in DOMAIN B : c \in f[n] /\ B[c].parent \in f[n]}
           T == {n \in Nat : n <= N => Closed(n) \/ Cardinality(below(n)) >= n}
<1>3. ASSUME NEW n \in Nat
      PROVE  /\ IsFiniteSet(below(n)) /\ Cardinality(below(n)) \in Nat
             /\ below(n) \in SUBSET DOMAIN B
  BY <1>1, FS_Subset, FS_CardinalityType
<1> HIDE DEF N
<1>4. 0 \in T
  <2> HIDE DEF below, Closed
  <2> QED BY <1>3
<1>5. ASSUME NEW n \in T PROVE n + 1 \in T
  <2> SUFFICES ASSUME n + 1 <= N PROVE Closed(n + 1) \/ Cardinality(below(n + 1)) >= n + 1
    <3> HIDE DEF below, Closed
    <3> QED OBVIOUS
  <2>1. n \in Nat /\ n + 1 \in 1..N /\ (n + 1) - 1 = n /\ n \in 0..N
    BY <1>1
  <2>2. /\ f[n + 1] = f[n] \cup {B[c].parent : c \in f[n] \ {Root}}
        /\ f[n] \in SUBSET (DOMAIN B \cup {Root})
    BY <1>2, <2>1 DEF Climbs
  <2>3. Closed(n) \/ Cardinality(below(n)) >= n
    <3> HIDE DEF below, Closed
    <3> QED BY <1>1, <2>1
  <2>4. CASE Closed(n)
    <3>1. f[n + 1] = f[n]
      BY <2>2, <2>4 DEF ClosedUpwards
    <3> QED BY <2>4, <3>1
  <2>5. CASE ~Closed(n) /\ Cardinality(below(n)) >= n
    <3>1. PICK c \in f[n] \ {Root} : B[c].parent \notin f[n]
      BY <2>5 DEF ClosedUpwards
    <3>2. c \in below(n + 1) /\ c \notin below(n) /\ below(n) \in SUBSET below(n + 1)
      BY <2>2, <3>1
    <3> HIDE DEF below
    <3>3. /\ IsFiniteSet(below(n + 1))
          /\ Cardinality(below(n)) \in Nat /\ Cardinality(below(n + 1)) \in Nat
      BY <1>3, <2>1
    <3>4. /\ Cardinality(below(n)) <= Cardinality(below(n + 1))
          /\ Cardinality(below(n + 1)) = Cardinality(below(n)) => below(n + 1) = below(n)
      BY <3>2, <3>3, FS_Subset
    <3> QED BY <2>1, <2>5, <3>2, <3>3, <3>4
  <2> QED BY <2>3, <2>4, <2>5
<1>6. T = Nat
  <2>1. T \in SUBSET Nat
    OBVIOUS
  <2> HIDE DEF T
  <2> QED BY <1>4, <1>5, <2>1, InductionOnNat
<1>7. Closed(N) \/ Cardinality(below(N)) >= N
  <2>1. N \in T
    <3> HIDE DEF T
    <3> QED BY <1>1, <1>6
  <2> HIDE DEF below, Closed
  <2> QED BY <1>1, <2>1
<1>8. f[N] \in SUBSET (DOMAIN B \cup {Root})
  <2>1. N \in 0..N
    BY <1>1
  <2> QED BY <1>2, <2>1 DEF Climbs
<1>9. Closed(N)
  <2>1. CASE Cardinality(below(N)) >= N
    <3>1. /\ below(N) \in SUBSET DOMAIN B /\ Cardinality(below(N)) \in Nat
          /\ Cardinality(below(N)) <= N
          /\ N = Cardinality(below(N)) => DOMAIN B = below(N)
      <4> HIDE DEF below
      <4> QED BY <1>1, <1>3, FS_Subset DEF N
    <3>2. DOMAIN B = below(N)
      <4> HIDE DEF below
      <4> QED BY <1>1, <2>1, <3>1
    <3> QED BY <1>8, <3>2 DEF ClosedUpwards
  <2> QED BY <1>7, <2>1
<1>10. b \in f[N]
  <2> DEFINE U == {X \in SUBSET (DOMAIN B \cup {Root}) : b \in X}
  <2>1. f[0] \in U
    BY <1>2 DEF Climbs
  <2>2. ASSUME NEW i \in 1..N, f[i-1] \in U PROVE f[i] \in U
    <3>1. i \in 0..N
      BY <1>1
    <3> QED BY <1>2, <2>2, <3>1 DEF Climbs
  <2>3. f[N] \in U
    <3> HIDE DEF U
    <3> QED BY <1>1, <2>1, <2>2, RecursionStays
  <2> QED BY <2>3
<1>11. ASSUME NEW S, b \in S, ClosedUpwards(B, S) PROVE f[N] \subseteq S
  <2> DEFINE U == SUBSET S
  <2>1. f[0] \in U
    BY <1>2, <1>11 DEF Climbs
  <2>2. ASSUME NEW i \in 1..N, f[i-1] \in U PROVE f[i] \in U
    BY <1>2, <1>11, <2>2 DEF Climbs, ClosedUpwards
  <2>3. f[N] \in U
    <3> HIDE DEF U
    <3> QED BY <1>1, <2>1, <2>2, RecursionStays
  <2> QED BY <2>3
<1> QED BY <1>2, <1>8, <1>9, <1>10, <1>11

\* What is above something that is above b is above b; above a block is what is above its
\* parent, and the block; above the root is the root.
LEMMA AboveGoesUp ==
  ASSUME NEW B, IsTree(B), NEW b \in DOMAIN B \cup {Root}
  PROVE  /\ \A c \in Above(B, b) : Above(B, c) \subseteq Above(B, b)
         /\ b # Root => /\ B[b].parent \in Above(B, b)
                        /\ Above(B, b) \subseteq {b} \cup Above(B, B[b].parent)
         /\ b = Root => Above(B, b) = {Root}
<1>1. \A c \in Above(B, b) : Above(B, c) \subseteq Above(B, b)
  BY AboveIsClosed
<1>2. ASSUME b # Root
      PROVE  B[b].parent \in Above(B, b) /\ Above(B, b) \subseteq {b} \cup Above(B, B[b].parent)
  <2>1. B[b].parent \in DOMAIN B \cup {Root}
    BY <1>2 DEF IsTree
  <2>2. B[b].parent \in Above(B, b)
    BY <1>2, AboveIsClosed DEF ClosedUpwards
  <2> DEFINE p == B[b].parent
             T == {b} \cup Above(B, p)
  <2>3. p \in Above(B, p) /\ ClosedUpwards(B, Above(B, p))
    <3> HIDE DEF p
    <3> QED BY <2>1, AboveIsClosed DEF p
  <2>4. b \in T /\ ClosedUpwards(B, T)
    BY <2>3 DEF ClosedUpwards
  <2>5. Above(B, b) \subseteq T
    <3> HIDE DEF T
    <3> QED BY <2>4, AboveIsClosed
  <2> QED BY <2>2, <2>5
<1>3. ASSUME b = Root PROVE Above(B, b) = {Root}
  <2>1. ClosedUpwards(B, {Root})
    BY DEF ClosedUpwards
  <2> QED BY <1>3, <2>1, AboveIsClosed
<1> QED BY <1>1, <1>2, <1>3

\* Nothing above what is under the root has it for its parent.
LEMMA RootedIsUnderNoCircle ==
  ASSUME NEW B, IsTree(B), NEW b \in DOMAIN B \cup {Root}, Rooted(B, b),
         NEW c \in Above(B, b) \ {Root}
  PROVE  B[c].parent # b
<1> SUFFICES ASSUME B[c].parent = b PROVE FALSE
  OBVIOUS
<1>1. b # Root
  BY AboveGoesUp
<1> DEFINE T == {x \in Above(B, b) : b \in Above(B, x)}
<1>2. Above(B, b) \subseteq DOMAIN B \cup {Root} /\ b \in Above(B, b) /\ ClosedUpwards(B, Above(B, b))
  BY AboveIsClosed
<1>3. ASSUME NEW x \in T \ {Root} PROVE b \in Above(B, B[x].parent)
  <2>1. x \in DOMAIN B /\ b \in {x} \cup Above(B, B[x].parent)
    BY <1>2, <1>3, AboveGoesUp
  <2>2. CASE x = b
    <3>1. B[b].parent \in DOMAIN B \cup {Root}
      BY <1>1 DEF IsTree
    <3>2. CASE c = b
      <4>1. B[b].parent = b
        BY <3>2
      <4> QED BY <1>2, <2>2, <4>1, Zenon
    <3>3. CASE c # b
      <4>1. c \in Above(B, B[b].parent)
        BY <1>1, <3>3, AboveGoesUp
      <4>2. ClosedUpwards(B, Above(B, B[b].parent))
        <5> DEFINE p == B[b].parent
        <5> HIDE DEF p
        <5> QED BY <3>1, AboveIsClosed DEF p
      <4> QED BY <2>2, <4>1, <4>2 DEF ClosedUpwards
    <3> QED BY <3>2, <3>3
  <2> QED BY <2>1, <2>2
<1>4. b \in T /\ ClosedUpwards(B, T)
  BY <1>2, <1>3 DEF ClosedUpwards
<1>5. Root \in T
  <2> HIDE DEF T
  <2> QED BY <1>4, AboveIsClosed DEF Rooted
<1>6. Above(B, Root) = {Root}
  BY AboveGoesUp
<1> QED BY <1>1, <1>5, <1>6

\* Two blocks with the same parent, which is under the root, are not above the same block.
LEMMA WaysPart ==
  ASSUME NEW B, IsTree(B), NEW b \in DOMAIN B \cup {Root}, Rooted(B, b),
         NEW c \in DOMAIN B, NEW d \in DOMAIN B, c # d, B[c].parent = b, B[d].parent = b,
         NEW x \in DOMAIN B, c \in Above(B, x)
  PROVE  d \notin Above(B, x)
<1> SUFFICES ASSUME d \in Above(B, x) PROVE FALSE
  OBVIOUS
<1>1. c # Root /\ d # Root
  BY DEF IsTree, IsBook
<1>2. \A y \in {c, d} : Above(B, y) \subseteq {y} \cup Above(B, b)
  BY <1>1, AboveGoesUp
<1>3. c \notin Above(B, b) /\ d \notin Above(B, b)
  BY <1>1, RootedIsUnderNoCircle
<1>4. c \notin Above(B, d) /\ d \notin Above(B, c)
  BY <1>2, <1>3
<1> DEFINE T == {z \in Above(B, x) : c \in Above(B, z) \/ z \in Above(B, c)}
<1>5. /\ Above(B, x) \subseteq DOMAIN B \cup {Root} /\ x \in Above(B, x)
      /\ ClosedUpwards(B, Above(B, x)) /\ ClosedUpwards(B, Above(B, c)) /\ c \in Above(B, c)
  BY AboveIsClosed
<1>6. ASSUME NEW z \in T \ {Root} PROVE B[z].parent \in T
  <2>1. z \in DOMAIN B /\ B[z].parent \in Above(B, x)
    BY <1>5 DEF ClosedUpwards
  <2>2. CASE z \in Above(B, c)
    BY <1>5, <2>1, <2>2 DEF ClosedUpwards
  <2>3. CASE c \in Above(B, z) /\ z # c
    <3>1. Above(B, z) \subseteq {z} \cup Above(B, B[z].parent)
      BY <1>6, <2>1, AboveGoesUp
    <3> QED BY <2>1, <2>3, <3>1
  <2> QED BY <1>5, <2>2, <2>3
<1>7. Above(B, x) \subseteq T
  <2>1. x \in T /\ ClosedUpwards(B, T)
    BY <1>5, <1>6 DEF ClosedUpwards
  <2> HIDE DEF T
  <2> QED BY <2>1, AboveIsClosed
<1> QED BY <1>4, <1>7

----------------------------------------------------------------------------
(* WorkViews: the reading order *)

LEMMA ChildrenAreSorted ==
  ASSUME NEW B, IsTree(B), NEW b \in DOMAIN B \cup {Root}
  PROVE  /\ Children(B, b) \in Seq(DOMAIN B)
         /\ \A i \in DOMAIN Children(B, b) : B[Children(B, b)[i]].parent = b
         /\ \A i, j \in DOMAIN Children(B, b) :
              i < j => /\ Children(B, b)[i] # Children(B, b)[j]
                       /\ SiblingBefore(B, Children(B, b)[i], Children(B, b)[j])
<1> DEFINE S == {c \in DOMAIN B : B[c].parent = b}
           R == {p \in S \X S : SiblingBefore(B, p[1], p[2])}
           q == SortedBy(S, R)
<1>1. /\ S \in SUBSET DOMAIN B /\ IsFiniteSet(DOMAIN B)
      /\ \A c \in S : c \in Int /\ B[c].position \in Int /\ B[c].parent = b
  BY DEF IsTree, IsBook
<1>2. \A c, d \in S : <<c, d>> \in R <=> SiblingBefore(B, c, d)
  OBVIOUS
<1>3. Children(B, b) = q
  BY DEF Children
<1> HIDE DEF S, R
<1>4. Orders(R, S)
  BY <1>1, <1>2 DEF Orders, SiblingBefore
<1>5. IsFiniteSet(S)
  BY <1>1, FS_Subset
<1>6. /\ q \in Seq(S)
      /\ \A i, j \in 1..Len(q) : (i < j => <<q[i], q[j]>> \in R) /\ (i # j => q[i] # q[j])
  BY <1>4, <1>5, SortedBySorts
<1> HIDE DEF q
<1>7. DOMAIN q = 1..Len(q) /\ \A i \in DOMAIN q : q[i] \in S
  BY <1>6
<1>8. ASSUME NEW i \in DOMAIN q, NEW j \in DOMAIN q, i < j
      PROVE  q[i] # q[j] /\ SiblingBefore(B, q[i], q[j])
  <2>1. i # j
    BY <1>7, <1>8
  <2>2. q[i] # q[j] /\ <<q[i], q[j]>> \in R
    BY <1>6, <1>7, <1>8, <2>1, Zenon
  <2> QED BY <1>2, <1>7, <2>2, Zenon
<1>9. q \in Seq(DOMAIN B)
  BY <1>1, <1>6
<1> QED BY <1>1, <1>3, <1>7, <1>8, <1>9

\* What is read under b, where g says what is read from each block under it.
Under(B, g, b) == FlattenSeq([i \in DOMAIN Children(B, b) |-> g[Children(B, b)[i]]])

\* f says what is read from each block, so many levels down.
Reads(f, B, n) ==
  /\ f[0] = [b \in DOMAIN B |-> <<>>]
  /\ \A i \in 1..n : f[i] = [b \in DOMAIN B |-> <<b>> \o Under(B, f[i-1], b)]

LEMMA UnderType ==
  ASSUME NEW B, IsTree(B), NEW g \in [DOMAIN B -> Seq(DOMAIN B)], NEW b \in DOMAIN B \cup {Root}
  PROVE  /\ [i \in DOMAIN Children(B, b) |-> g[Children(B, b)[i]]] \in Seq(Seq(DOMAIN B))
         /\ Len([i \in DOMAIN Children(B, b) |-> g[Children(B, b)[i]]]) = Len(Children(B, b))
         /\ Under(B, g, b) \in Seq(DOMAIN B)
<1> DEFINE q == Children(B, b)
           ss == [i \in DOMAIN q |-> g[q[i]]]
<1>1. q \in Seq(DOMAIN B)
  BY ChildrenAreSorted
<1> HIDE DEF q
<1>2. DOMAIN q = 1..Len(q) /\ Len(q) \in Nat /\ \A i \in 1..Len(q) : q[i] \in DOMAIN B
  BY <1>1
<1>3. ss \in Seq(Seq(DOMAIN B)) /\ Len(ss) = Len(q)
  BY <1>2
<1>4. FlattenSeq(ss) \in Seq(DOMAIN B)
  <2> HIDE DEF ss
  <2> QED BY <1>3, FlattenSeqType
<1> QED BY <1>3, <1>4 DEF Under, q

LEMMA VisitReads ==
  ASSUME NEW B, IsTree(B), NEW N \in Nat
  PROVE  \E f : Reads(f, B, N) /\ Visit(B, N) = f[N]
<1> DEFINE D == DOMAIN B
           V == [D -> Seq(D)]
           Step(g) == [b \in D |-> <<b>> \o Under(B, g, b)]
           base == [b \in D |-> <<>>]
           P(f) == f = [n \in 0..N |->
             [b \in DOMAIN B |->
                IF n = 0 THEN <<>>
                ELSE <<b>> \o FlattenSeq([i \in DOMAIN Children(B, b) |-> f[n-1][Children(B, b)[i]]])]]
           F == CHOOSE f : P(f)
<1>1. ASSUME NEW g \in V PROVE Step(g) \in V
  <2> SUFFICES ASSUME NEW b \in D PROVE <<b>> \o Under(B, g, b) \in Seq(D)
    OBVIOUS
  <2>1. Under(B, g, b) \in Seq(D)
    BY UnderType
  <2> QED BY <2>1, OneInFront
<1>2. base \in V
  OBVIOUS
<1>3. \E f : P(f)
  <2> DEFINE step == [n \in 1..N |-> [g \in V |-> Step(g)]]
  <2>1. step \in [1..N -> [V -> V]]
    <3> HIDE DEF Step, V
    <3> QED BY <1>1
  <2>2. PICK f \in [0..N -> V] : Recurs(f, N, base, step)
    <3> HIDE DEF step, V, P, F, Step, base
    <3> QED BY <1>2, <2>1, RecursionExists
  <2>3. ASSUME NEW n \in 1..N PROVE f[n] = Step(f[n-1])
    <3>1. n - 1 \in 0..N
      OBVIOUS
    <3>2. f[n-1] \in V
      BY <3>1
    <3> HIDE DEF V, Step
    <3> QED BY <2>2, <3>2 DEF Recurs
  <2>4. f[0] = base
    BY <2>2 DEF Recurs
  <2> DEFINE Value(n) == [b \in DOMAIN B |->
                IF n = 0 THEN <<>>
                ELSE <<b>> \o FlattenSeq([i \in DOMAIN Children(B, b) |-> f[n-1][Children(B, b)[i]]])]
  <2>5. ASSUME NEW n \in 0..N PROVE f[n] = Value(n)
    <3>1. CASE n = 0
      BY <2>4, <3>1
    <3>2. CASE n # 0
      <4>1. f[n] = Step(f[n-1])
        <5>1. n \in 1..N
          BY <3>2
        <5> HIDE DEF Step
        <5> QED BY <2>3, <5>1
      <4>2. Value(n) = Step(f[n-1])
        BY <3>2, Zenon DEF Under
      <4> QED BY <4>1, <4>2
    <3> QED BY <3>1, <3>2
  <2>6. f = [n \in 0..N |-> Value(n)]
    <3> HIDE DEF Value, V
    <3> QED BY <2>5
  <2> QED BY <2>6, Zenon
<1>4. P(F)
  <2> HIDE DEF P
  <2> QED BY <1>3
<1>5. Visit(B, N) = F[N]
  BY DEF Visit
<1>6. Reads(F, B, N)
  <2> HIDE DEF F
  <2>1. F[0] = base
    <3>1. 0 \in 0..N
      OBVIOUS
    <3> QED BY <1>4, <3>1, Zenon
  <2>2. ASSUME NEW n \in 1..N PROVE F[n] = Step(F[n-1])
    <3>1. n \in 0..N /\ n # 0
      OBVIOUS
    <3>2. F[n] = [b \in DOMAIN B |->
                IF n = 0 THEN <<>>
                ELSE <<b>> \o FlattenSeq([i \in DOMAIN Children(B, b) |-> F[n-1][Children(B, b)[i]]])]
      BY <1>4, <3>1, Zenon
    <3> QED BY <3>1, <3>2, Zenon DEF Under
  <2> QED BY <2>1, <2>2 DEF Reads
<1> HIDE DEF F
<1> QED BY <1>5, <1>6

\* The pairs of different blocks of which the first is read first.
InOrder(B) == {p \in (DOMAIN B) \X (DOMAIN B) : p[1] # p[2] /\ ReadBefore(B, p[1], p[2])}

LEMMA InOrderPairs ==
  ASSUME NEW B, NEW x \in DOMAIN B, NEW y \in DOMAIN B, x # y, ReadBefore(B, x, y)
  PROVE  <<x, y>> \in InOrder(B)
BY DEF InOrder

\* s reads the blocks under b in order.
ReadsFrom(s, B, b) ==
  /\ s \in Seq(DOMAIN B) /\ Ascends(s, InOrder(B))
  /\ \A x \in Range(s) : b \in Above(B, x)

\* What is read in order from each child is read in order from all of them.
LEMMA UnderReadsInOrder ==
  ASSUME NEW B, IsTree(B), NEW g \in [DOMAIN B -> Seq(DOMAIN B)],
         \A c \in DOMAIN B : Rooted(B, c) => ReadsFrom(g[c], B, c),
         NEW b \in DOMAIN B \cup {Root}, Rooted(B, b)
  PROVE  ReadsFrom(Under(B, g, b), B, b) /\ b \notin Range(Under(B, g, b))
<1> DEFINE q == Children(B, b)
           ss == [i \in DOMAIN q |-> g[q[i]]]
           R == InOrder(B)
<1>1. /\ q \in Seq(DOMAIN B) /\ DOMAIN q = 1..Len(q)
      /\ \A i \in DOMAIN q : q[i] \in DOMAIN B /\ B[q[i]].parent = b
      /\ \A i, j \in DOMAIN q : i < j => q[i] # q[j] /\ SiblingBefore(B, q[i], q[j])
  <2>1. q \in Seq(DOMAIN B) /\ \A i \in DOMAIN q : B[q[i]].parent = b
    BY ChildrenAreSorted
  <2>2. \A i, j \in DOMAIN q : i < j => q[i] # q[j] /\ SiblingBefore(B, q[i], q[j])
    BY ChildrenAreSorted
  <2> HIDE DEF q
  <2> QED BY <2>1, <2>2
<1>2. /\ ss \in Seq(Seq(DOMAIN B)) /\ Len(ss) = Len(q) /\ Under(B, g, b) \in Seq(DOMAIN B)
      /\ Under(B, g, b) = FlattenSeq(ss)
  BY UnderType DEF Under
<1> HIDE DEF q, R
<1>3. Root \notin DOMAIN B
  BY DEF IsTree, IsBook
<1>4. ASSUME NEW i \in DOMAIN q
      PROVE  /\ ReadsFrom(ss[i], B, q[i]) /\ b \in Above(B, q[i]) /\ q[i] \in DOMAIN B
             /\ \A x \in Range(ss[i]) : /\ x \in DOMAIN B /\ q[i] \in Above(B, x)
                                        /\ b \in Above(B, x) /\ x # b
  <2>1. q[i] \in DOMAIN B /\ q[i] # Root /\ B[q[i]].parent = b
    BY <1>1, <1>3
  <2>2. b \in Above(B, q[i])
    BY <2>1, AboveGoesUp
  <2>3. Rooted(B, q[i])
    BY <2>1, <2>2, AboveGoesUp DEF Rooted
  <2>4. ReadsFrom(ss[i], B, q[i])
    BY <2>1, <2>3
  <2>5. ASSUME NEW x \in Range(ss[i])
        PROVE  x \in DOMAIN B /\ q[i] \in Above(B, x) /\ b \in Above(B, x) /\ x # b
    <3>1. x \in DOMAIN B /\ q[i] \in Above(B, x)
      BY <2>4, <2>5 DEF ReadsFrom, Range
    <3>2. b \in Above(B, x)
      BY <2>2, <3>1, AboveGoesUp
    <3>3. x # b
      BY <2>1, <3>1, RootedIsUnderNoCircle
    <3> QED BY <3>1, <3>2, <3>3
  <2> HIDE DEF ss
  <2> QED BY <2>1, <2>2, <2>4, <2>5
<1> HIDE DEF ss
<1>5. ASSUME NEW i \in DOMAIN q, NEW j \in DOMAIN q, i < j,
             NEW x \in Range(ss[i]), NEW y \in Range(ss[j])
      PROVE  <<x, y>> \in R
  <2>1. /\ x \in DOMAIN B /\ y \in DOMAIN B /\ q[i] \in Above(B, x) /\ q[j] \in Above(B, y)
        /\ q[i] \in DOMAIN B /\ q[j] \in DOMAIN B /\ B[q[i]].parent = b /\ B[q[j]].parent = b
        /\ q[i] # q[j] /\ SiblingBefore(B, q[i], q[j])
    BY <1>1, <1>4, <1>5
  <2>2. q[j] \notin Above(B, x) /\ q[i] \notin Above(B, y)
    BY <2>1, WaysPart
  <2>3. x # y /\ ReadBefore(B, x, y)
    BY <2>1, <2>2 DEF ReadBefore
  <2> QED BY <2>1, <2>3, InOrderPairs, Zenon DEF R
<1>6. Ascends(FlattenSeq(ss), R)
  <2>1. \A i \in 1..Len(ss) : Ascends(ss[i], R)
    BY <1>1, <1>2, <1>4 DEF ReadsFrom, R
  <2>2. \A i, j \in 1..Len(ss) :
          i < j => \A x \in Range(ss[i]), y \in Range(ss[j]) : <<x, y>> \in R
    BY <1>1, <1>2, <1>5
  <2> QED BY <1>2, <2>1, <2>2, FlattenSeqAscends
<1>7. ASSUME NEW x \in Range(FlattenSeq(ss)) PROVE b \in Above(B, x) /\ x # b
  <2>1. PICK i \in 1..Len(ss) : x \in Range(ss[i])
    BY <1>2, FlattenSeqElements
  <2> QED BY <1>1, <1>2, <1>4, <2>1
<1> QED BY <1>2, <1>6, <1>7 DEF ReadsFrom, R

\* Down to whatever level, what is visited from a block is read in order.
LEMMA VisitReadsInOrder ==
  ASSUME NEW B, IsTree(B), NEW N \in Nat
  PROVE  /\ Visit(B, N) \in [DOMAIN B -> Seq(DOMAIN B)]
         /\ \A c \in DOMAIN B : Rooted(B, c) => ReadsFrom(Visit(B, N)[c], B, c)
<1> DEFINE D == DOMAIN B
           W == {g \in [D -> Seq(D)] : \A c \in D : Rooted(B, c) => ReadsFrom(g[c], B, c)}
<1>1. PICK f : Reads(f, B, N) /\ Visit(B, N) = f[N]
  BY VisitReads
<1>2. f[0] \in W
  <2>1. f[0] = [b \in D |-> <<>>]
    BY <1>1 DEF Reads
  <2>2. ASSUME NEW c \in D PROVE ReadsFrom(<<>>, B, c)
    <3>1. DOMAIN <<>> = {} /\ <<>> \in Seq(D)
      OBVIOUS
    <3> QED BY <3>1 DEF ReadsFrom, Ascends, Range
  <2> QED BY <2>1, <2>2
<1>3. ASSUME NEW i \in 1..N, f[i-1] \in W PROVE f[i] \in W
  <2> DEFINE g == f[i-1]
  <2>1. /\ g \in [D -> Seq(D)]
        /\ \A c \in D : Rooted(B, c) => ReadsFrom(g[c], B, c)
        /\ f[i] = [b \in D |-> <<b>> \o Under(B, g, b)]
    BY <1>1, <1>3 DEF Reads
  <2> HIDE DEF g
  <2>2. ASSUME NEW b \in D PROVE Under(B, g, b) \in Seq(D) /\ <<b>> \o Under(B, g, b) \in Seq(D)
    <3>1. Under(B, g, b) \in Seq(D)
      BY <2>1, UnderType
    <3> QED BY <3>1, OneInFront
  <2>3. ASSUME NEW b \in D, Rooted(B, b) PROVE ReadsFrom(<<b>> \o Under(B, g, b), B, b)
    <3> DEFINE u == Under(B, g, b)
    <3>1. ReadsFrom(u, B, b) /\ b \notin Range(u)
      BY <2>1, <2>3, UnderReadsInOrder
    <3> HIDE DEF u
    <3>2. u \in Seq(D) /\ Ascends(u, InOrder(B)) /\ \A x \in Range(u) : x \in D /\ b \in Above(B, x)
      BY <3>1 DEF ReadsFrom, Range
    <3>3. <<b>> \in Seq(D) /\ Range(<<b>>) = {b} /\ Ascends(<<b>>, InOrder(B))
      BY DEF Range, Ascends
    <3>4. \A x \in Range(<<b>>), y \in Range(u) : <<x, y>> \in InOrder(B)
      <4> SUFFICES ASSUME NEW y \in Range(u) PROVE <<b, y>> \in InOrder(B)
        BY <3>3
      <4>1. y \in D /\ b # y /\ ReadBefore(B, b, y)
        BY <3>1, <3>2 DEF ReadBefore
      <4> QED BY <4>1, InOrderPairs, Zenon
    <3>5. Ascends(<<b>> \o u, InOrder(B))
      BY <3>2, <3>3, <3>4, ConcatAscends
    <3>6. Range(<<b>> \o u) = {b} \cup Range(u)
      <4> DEFINE one == <<b>>
      <4>1. one \in Seq(D) /\ Range(one) = {b}
        BY <3>3
      <4> HIDE DEF one
      <4>2. Range(one \o u) = Range(one) \cup Range(u)
        BY <3>2, <4>1, RangeOfConcat
      <4> QED BY <4>1, <4>2 DEF one
    <3>7. b \in Above(B, b)
      BY AboveIsClosed
    <3>8. <<b>> \o u \in Seq(D)
      BY <3>2, OneInFront
    <3> QED BY <3>2, <3>5, <3>6, <3>7, <3>8 DEF ReadsFrom, u
  <2> QED BY <2>1, <2>2, <2>3
<1>4. f[N] \in W
  <2> HIDE DEF W
  <2> QED BY <1>2, <1>3, RecursionStays
<1> QED BY <1>1, <1>4

\* A reading order that is as long as there are blocks has each of them once, in order: no
\* block is missed, though not all may be under the root.
LEMMA ReadingOrderIsReading ==
  ASSUME NEW B, IsTree(B), Len(ReadingOrder(B)) = Cardinality(DOMAIN B)
  PROVE  InReadingOrder(ReadingOrder(B), B)
<1> DEFINE D == DOMAIN B
           N == Cardinality(D)
           q == ReadingOrder(B)
           g == Visit(B, N)
<1>1. N \in Nat /\ IsFiniteSet(D)
  BY FS_CardinalityType DEF IsTree, IsBook
<1>2. q = Under(B, g, Root)
  BY DEF ReadingOrder, Under
<1>3. ReadsFrom(q, B, Root)
  <2>1. Rooted(B, Root)
    BY AboveIsClosed DEF Rooted
  <2>2. g \in [D -> Seq(D)] /\ \A c \in D : Rooted(B, c) => ReadsFrom(g[c], B, c)
    <3> HIDE DEF N
    <3> QED BY <1>1, VisitReadsInOrder
  <2> HIDE DEF g, q
  <2> QED BY <1>2, <2>1, <2>2, UnderReadsInOrder
<1> HIDE DEF q, g
<1>4. q \in Seq(D) /\ Len(q) = N /\ DOMAIN q = 1..N /\ q \in [1..N -> D]
  BY <1>3 DEF ReadsFrom, q
<1> HIDE DEF N
<1>5. \A i, j \in DOMAIN q : i < j => q[i] # q[j] /\ ReadBefore(B, q[i], q[j])
  BY <1>3 DEF ReadsFrom, Ascends, InOrder
<1>6. q \in Injection(1..N, D)
  BY <1>1, <1>4, <1>5 DEF Injection, IsInjective
<1>7. Cardinality(1..N) = Cardinality(D)
  BY <1>1, FS_Interval DEF N
<1>8. q \in Surjection(1..N, D)
  BY <1>1, <1>6, <1>7, FS_Injection
<1>9. {q[i] : i \in DOMAIN q} = D
  BY <1>4, <1>8 DEF Surjection
<1> QED BY <1>5, <1>9 DEF InReadingOrder, q

----------------------------------------------------------------------------
(* WorkViews: the context of an operation *)

\* What a query is answered with, of the blocks B: no more than were asked for, as they
\* stand in B, and none left out that scores better than one that is in.
Answers(c, B) ==
  /\ \A i \in DOMAIN c.refs : c.blocks[i] = B[c.refs[i]]
  /\ Len(c.refs) <= c.query.limit
  /\ \A b \in DOMAIN B :
       \/ b \in {c.refs[i] : i \in DOMAIN c.refs}
       \/ b \notin c.query.targets /\ B[b].content \notin c.query.words
       \/ /\ Len(c.refs) = c.query.limit
          /\ \A i \in DOMAIN c.refs : b \in c.query.targets => c.refs[i] \in c.query.targets

\* What was made of an earlier revision says so; the rest is of the blocks as they are.
ViewsInv ==
  /\ manuscript = [blocks |-> Blocks, version |-> manuscript.version,
                    revision |-> manuscript.revision, published |-> manuscript.published]
  /\ IsBook(Blocks) /\ manuscript.revision \in Nat
  /\ memory # Absent =>
       /\ memory.revision \in Nat /\ memory.revision <= manuscript.revision
       /\ memory.revision = manuscript.revision => memory.refs = DOMAIN Blocks
  /\ context # Absent =>
       /\ context.revision \in Nat /\ context.revision <= manuscript.revision
       /\ context.revision = manuscript.revision => Answers(context, Blocks)

\* A score is two numbers: whether the block is a target, and whether it has a word.
LEMMA Scores ==
  ASSUME NEW q \in Query, NEW b
  PROVE  /\ Score(q, b) = <<IF b \in q.targets THEN 1 ELSE 0,
                            IF Blocks[b].content \in q.words THEN 1 ELSE 0>>
         /\ Score(q, b)[1] \in 0..1 /\ Score(q, b)[2] \in 0..1
<1> DEFINE W == q.words \cap {Blocks[b].content}
<1>1. CASE Blocks[b].content \in q.words
  <2>1. W = {Blocks[b].content}
    BY <1>1
  <2>2. Cardinality(W) = 1
    BY <2>1, FS_Singleton
  <2> HIDE DEF W
  <2>3. Score(q, b) = <<IF b \in q.targets THEN 1 ELSE 0, Cardinality(W)>>
    BY DEF Score, W
  <2> QED BY <1>1, <2>2, <2>3
<1>2. CASE Blocks[b].content \notin q.words
  <2>1. W = {}
    BY <1>2
  <2>2. Cardinality(W) = 0
    BY <2>1, FS_EmptySet
  <2> HIDE DEF W
  <2>3. Score(q, b) = <<IF b \in q.targets THEN 1 ELSE 0, Cardinality(W)>>
    BY DEF Score, W
  <2> QED BY <1>2, <2>2, <2>3
<1> QED BY <1>1, <1>2

\* Retrieval lists what scores, the targets first, as many as the limit allows.
LEMMA RetrievesTheBest ==
  ASSUME ViewsInv, memory.refs = DOMAIN Blocks, NEW q \in Query
  PROVE  /\ Retrieve(q) \in Seq(DOMAIN Blocks) /\ Len(Retrieve(q)) <= q.limit
         /\ \A b \in DOMAIN Blocks :
              \/ b \in {Retrieve(q)[i] : i \in DOMAIN Retrieve(q)}
              \/ b \notin q.targets /\ Blocks[b].content \notin q.words
              \/ /\ Len(Retrieve(q)) = q.limit
                 /\ \A i \in DOMAIN Retrieve(q) : b \in q.targets => Retrieve(q)[i] \in q.targets
<1> DEFINE found == {b \in memory.refs : Score(q, b) # <<0, 0>>}
           R == {p \in found \X found : Better(q, p[1], p[2])}
           sorted == SortedBy(found, R)
           limit == IF Len(sorted) < q.limit THEN Len(sorted) ELSE q.limit
<1>1. found \in SUBSET DOMAIN Blocks /\ DOMAIN Blocks \subseteq Int /\ IsFiniteSet(DOMAIN Blocks)
  BY DEF ViewsInv, IsBook
<1>2. IsFiniteSet(found)
  <2> HIDE DEF found
  <2> QED BY <1>1, FS_Subset
<1>3. \A b, c \in found : <<b, c>> \in R <=> Better(q, b, c)
  OBVIOUS
<1>4. \A b \in DOMAIN Blocks :
        b \notin found <=> b \notin q.targets /\ Blocks[b].content \notin q.words
  <2> SUFFICES ASSUME NEW b \in DOMAIN Blocks
               PROVE  Score(q, b) = <<0, 0>> <=> b \notin q.targets /\ Blocks[b].content \notin q.words
    OBVIOUS
  <2> QED BY Scores
<1> HIDE DEF found, R
<1>5. Orders(R, found)
  <2> DEFINE m(b) == Score(q, b)[1]
             n(b) == Score(q, b)[2]
  <2>1. \A b \in found : b \in Int /\ m(b) \in 0..1 /\ n(b) \in 0..1
    BY <1>1, Scores
  <2>2. \A b, c \in found : Score(q, b) = Score(q, c) <=> m(b) = m(c) /\ n(b) = n(c)
    BY Scores
  <2>3. \A b, c \in found :
          <<b, c>> \in R <=> \/ m(b) > m(c)
                             \/ m(b) = m(c) /\ n(b) > n(c)
                             \/ m(b) = m(c) /\ n(b) = n(c) /\ b < c
    BY <1>3, <2>2 DEF Better
  <2> HIDE DEF m, n
  <2> QED BY <2>1, <2>3 DEF Orders
<1>6. /\ sorted \in Seq(found) /\ Len(sorted) \in Nat
      /\ \A b \in found : \E i \in 1..Len(sorted) : sorted[i] = b
      /\ \A i, j \in 1..Len(sorted) : i < j => <<sorted[i], sorted[j]>> \in R
  BY <1>2, <1>5, SortedBySorts
<1>7. Retrieve(q) = SubSeq(sorted, 1, limit)
  BY DEF Retrieve, found, R
<1>8. q.limit \in Nat
  BY ViewsAssumption
<1> HIDE DEF sorted
<1>9. /\ limit \in Nat /\ limit <= Len(sorted) /\ limit <= q.limit
      /\ limit = Len(sorted) \/ limit = q.limit
  BY <1>6, <1>8
<1> HIDE DEF limit
<1>10. /\ Retrieve(q) \in Seq(found) /\ Len(Retrieve(q)) = limit
       /\ DOMAIN Retrieve(q) = 1..limit /\ \A i \in 1..limit : Retrieve(q)[i] = sorted[i]
  BY <1>6, <1>7, <1>9
<1>11. ASSUME NEW b \in found, b \notin {Retrieve(q)[i] : i \in DOMAIN Retrieve(q)}
       PROVE  /\ limit = q.limit
              /\ b \in q.targets => \A i \in 1..limit : sorted[i] \in q.targets
  <2>1. PICK j \in 1..Len(sorted) : sorted[j] = b
    BY <1>6
  <2>2. limit < j
    BY <1>9, <1>10, <1>11, <2>1
  <2>3. ASSUME b \in q.targets, NEW i \in 1..limit PROVE sorted[i] \in q.targets
    <3>1. i \in 1..Len(sorted) /\ i < j /\ sorted[i] \in found
      BY <1>6, <1>9, <2>1, <2>2
    <3>2. Better(q, sorted[i], b)
      BY <1>3, <1>6, <2>1, <3>1
    <3>3. Score(q, b)[1] = 1 /\ Score(q, b)[2] \in 0..1
      BY <2>3, Scores
    <3>4. Score(q, sorted[i])[1] \in 0..1
      BY Scores
    <3>5. Score(q, sorted[i])[1] >= Score(q, b)[1]
      BY <3>2, <3>3, <3>4 DEF Better
    <3>6. Score(q, sorted[i])[1] = 1
      BY <3>3, <3>4, <3>5
    <3> QED BY <3>6, Scores
  <2> QED BY <1>6, <1>9, <2>1, <2>2, <2>3
<1>12. found \subseteq DOMAIN Blocks
  BY <1>1
<1>13. Retrieve(q) \in Seq(DOMAIN Blocks)
  BY <1>10, <1>12
<1> QED BY <1>4, <1>9, <1>10, <1>11, <1>13

LEMMA PreparedContextAnswers ==
  ASSUME ViewsInv, Prepare
  PROVE  Answers(context', Blocks) /\ context'.revision = manuscript.revision
<1>1. memory.refs = DOMAIN Blocks
  BY DEF Prepare, IsStale, ViewsInv
<1>2. PICK q \in Query :
        context' = [refs |-> Retrieve(q), query |-> q, revision |-> manuscript.revision,
                    blocks |-> [i \in DOMAIN Retrieve(q) |-> Blocks[Retrieve(q)[i]]]]
  BY DEF Prepare
<1>3. context'.refs = Retrieve(q) /\ context'.query = q /\ context'.revision = manuscript.revision
      /\ context'.blocks = [i \in DOMAIN Retrieve(q) |-> Blocks[Retrieve(q)[i]]]
  BY <1>2
<1> QED BY <1>1, <1>3, RetrievesTheBest DEF Answers

\* A command on the work leaves the views alone and leaves a book; one that leaves the
\* revision as it is leaves the blocks as they are.
LEMMA CommandsChangeTheRevision ==
  ASSUME ViewsInv, MoveBlock \/ EditContent \/ RecordEvent
  PROVE  /\ UNCHANGED <<session, approval, snapshot, package, memory, context, used>>
         /\ IsBook(manuscript'.blocks)
         /\ \/ manuscript'.revision = manuscript.revision + 1
            \/ manuscript'.revision = manuscript.revision /\ manuscript'.blocks = Blocks
         /\ manuscript' = [blocks |-> manuscript'.blocks, version |-> manuscript'.version,
                           revision |-> manuscript'.revision, published |-> manuscript'.published]
<1> DEFINE Block == [parent : Int, position : Int, content : STRING, approved : BOOLEAN]
<1>1. /\ DOMAIN Blocks \subseteq Int \ {Root} /\ IsFiniteSet(DOMAIN Blocks)
      /\ Blocks \in [DOMAIN Blocks -> Block]
  BY DEF ViewsInv, IsBook
<1>2. ASSUME NEW B \in [DOMAIN Blocks -> Block] PROVE IsBook(B)
  BY <1>1 DEF IsBook
<1>3. ASSUME NEW B, NEW revision, Becomes(B, revision)
      PROVE  /\ UNCHANGED <<session, approval, snapshot, package, memory, context, used>>
             /\ manuscript'.blocks = B /\ manuscript'.revision = revision
             /\ manuscript' = [blocks |-> B, version |-> manuscript'.version,
                               revision |-> revision, published |-> manuscript'.published]
  <2>1. manuscript' = [manuscript EXCEPT !.blocks = B, !.version = @ + 1, !.revision = revision]
    BY <1>3 DEF Becomes
  <2>2. manuscript' = [blocks |-> B, version |-> manuscript.version + 1,
                       revision |-> revision, published |-> manuscript.published]
    BY <2>1 DEF ViewsInv
  <2> QED BY <1>3, <2>2 DEF Becomes
<1>4. CASE MoveBlock
  <2>1. PICK b \in DOMAIN Blocks, parent \in DOMAIN Blocks \cup {Root}, position \in {0, 1} :
          Becomes([Blocks EXCEPT ![b].parent = parent, ![b].position = position], manuscript.revision + 1)
    BY <1>4 DEF MoveBlock
  <2>2. [Blocks EXCEPT ![b].parent = parent, ![b].position = position] \in [DOMAIN Blocks -> Block]
    <3>1. parent \in Int /\ position \in Int
      BY <1>1 DEF Root
    <3> QED BY <1>1, <3>1
  <2> QED BY <1>2, <1>3, <2>1, <2>2
<1>5. CASE EditContent
  <2>1. PICK b \in DOMAIN Blocks, text \in Wording :
          Becomes([Blocks EXCEPT ![b].content = text], manuscript.revision + 1)
    BY <1>5 DEF EditContent
  <2>2. [Blocks EXCEPT ![b].content = text] \in [DOMAIN Blocks -> Block]
    BY <1>1, ViewsAssumption
  <2> QED BY <1>2, <1>3, <2>1, <2>2
<1>6. CASE RecordEvent
  <2>1. Becomes(Blocks, manuscript.revision)
    BY <1>6 DEF RecordEvent
  <2> QED BY <1>3, <2>1 DEF ViewsInv
<1> QED BY <1>4, <1>5, <1>6

LEMMA StepsKeepViewsInv ==
  ASSUME ViewsInv, [ViewsNext]_viewVars
  PROVE  ViewsInv'
<1>1. CASE UNCHANGED <<manuscript, memory, context>>
  BY <1>1 DEF ViewsInv, Blocks, Answers
<1>2. CASE Remember
  <2>1. /\ UNCHANGED <<manuscript, context>>
        /\ memory'.refs = DOMAIN Blocks /\ memory'.revision = manuscript.revision
    BY <1>2 DEF Remember
  <2> QED BY <2>1 DEF ViewsInv, Blocks, Answers
<1>3. CASE Prepare
  <2>1. UNCHANGED <<manuscript, memory>>
    BY <1>3 DEF Prepare
  <2>2. Answers(context', Blocks)
    BY <1>3, PreparedContextAnswers
  <2>3. context'.revision = manuscript.revision
    BY <1>3, PreparedContextAnswers
  <2> QED BY <2>1, <2>2, <2>3 DEF ViewsInv, Blocks, Answers
<1>4. CASE MoveBlock \/ EditContent \/ RecordEvent
  <2>1. /\ UNCHANGED <<memory, context>> /\ IsBook(manuscript'.blocks)
        /\ \/ manuscript'.revision = manuscript.revision + 1
           \/ manuscript'.revision = manuscript.revision /\ manuscript'.blocks = Blocks
    BY <1>4, CommandsChangeTheRevision
  <2>2. manuscript' = [blocks |-> manuscript'.blocks, version |-> manuscript'.version,
                       revision |-> manuscript'.revision, published |-> manuscript'.published]
    BY <1>4, CommandsChangeTheRevision
  <2>3. CASE manuscript'.revision = manuscript.revision + 1
    BY <2>1, <2>2, <2>3 DEF ViewsInv, Blocks
  <2>4. CASE manuscript'.revision = manuscript.revision /\ manuscript'.blocks = Blocks
    BY <2>1, <2>2, <2>4 DEF ViewsInv, Blocks, Answers
  <2> QED BY <2>1, <2>3, <2>4
<1> QED BY <1>1, <1>2, <1>3, <1>4 DEF ViewsNext, viewVars, ApproveEdition, ProjectEdition,
      Compile, Damage, Operate

\* An operation runs with what its query asks for of the very work it runs on
\* (the staleness checks of SemanticContextService.prepare and of the operation).
THEOREM ContextsStayCurrent == ViewsSpec => []ContextIsCurrent
<1>1. ViewsInit => ViewsInv /\ ContextIsCurrent
  <2> SUFFICES ASSUME ViewsInit PROVE ViewsInv /\ ContextIsCurrent
    OBVIOUS
  <2>1. PICK book \in Book : manuscript = [blocks |-> book.blocks, published |-> book.published,
                                           version |-> 1, revision |-> 1]
    BY DEF ViewsInit
  <2>2. memory = Absent /\ context = Absent /\ used = Absent
    BY DEF ViewsInit
  <2>3. IsBook(book.blocks)
    BY ViewsAssumption
  <2> QED BY <2>1, <2>2, <2>3 DEF ViewsInv, ContextIsCurrent, Blocks
<1>2. ASSUME ViewsInv, ContextIsCurrent, [ViewsNext]_viewVars PROVE ContextIsCurrent'
  <2>1. CASE UNCHANGED used
    BY <1>2, <2>1 DEF ContextIsCurrent
  <2>2. CASE Operate
    <3>1. Answers(context, Blocks)
      BY <1>2, <2>2 DEF Operate, IsStale, ViewsInv
    <3>2. used'.context = context /\ used'.blocks = Blocks
      BY <2>2 DEF Operate
    <3>3. Answers(used'.context, used'.blocks)
      BY <3>1, <3>2
    <3> QED BY <3>3 DEF ContextIsCurrent, Answers
  <2> QED BY <1>2, <2>1, <2>2 DEF ViewsNext, viewVars, ApproveEdition, ProjectEdition,
        Compile, Damage, Remember, Prepare, MoveBlock, EditContent, RecordEvent, Becomes
<1>3. ASSUME ViewsInv, [ViewsNext]_viewVars PROVE ViewsInv'
  BY <1>3, StepsKeepViewsInv
<1> QED BY <1>1, <1>2, <1>3, PTL DEF ViewsSpec

----------------------------------------------------------------------------
(* WorkViews: the edition *)

\* An edition of the revision the work has is the work in reading order; a package bears
\* the checksums of its edition, however its other fields were damaged.
EditionInv ==
  /\ snapshot # Absent =>
       /\ snapshot.revision \in Nat /\ snapshot.revision <= manuscript.revision
       /\ snapshot.revision = manuscript.revision =>
            LET B == Publishable(snapshot.exact) IN
            /\ InReadingOrder(snapshot.order, B)
            /\ snapshot.blocks = [i \in DOMAIN snapshot.order |-> B[snapshot.order[i]]]
  /\ package # Absent =>
       /\ snapshot # Absent
       /\ package = [manifest |-> package.manifest, blocks |-> package.blocks,
                     checksums |-> package.checksums]
       /\ package.checksums = Checksums(ManifestOf(snapshot),
                                        ContentOf(snapshot.order, snapshot.blocks))

LEMMA ProjectedIsTheWork ==
  ASSUME ViewsInv, ProjectEdition
  PROVE  /\ snapshot'.revision = manuscript.revision
         /\ InReadingOrder(snapshot'.order, Publishable(snapshot'.exact))
         /\ snapshot'.blocks =
              [i \in DOMAIN snapshot'.order |-> Publishable(snapshot'.exact)[snapshot'.order[i]]]
<1> DEFINE exact == Authorizes(approval)
           B == Publishable(exact)
<1>1. /\ Complete(B) /\ Len(ReadingOrder(B)) = Cardinality(DOMAIN B)
      /\ snapshot' = [order |-> ReadingOrder(B),
                      blocks |-> [i \in DOMAIN ReadingOrder(B) |-> B[ReadingOrder(B)[i]]],
                      exact |-> exact, revision |-> manuscript.revision]
  BY DEF ProjectEdition
<1>2. IsBook(B)
  <2> DEFINE S == {c \in DOMAIN Blocks : exact \/ Blocks[c].approved}
  <2>1. IsBook(Blocks) /\ S \in SUBSET DOMAIN Blocks
    BY DEF ViewsInv
  <2>2. B = [b \in S |-> Blocks[b]]
    BY DEF Publishable
  <2>3. IsFiniteSet(S)
    <3> HIDE DEF S
    <3> QED BY <2>1, FS_Subset DEF IsBook
  <2> HIDE DEF S, B
  <2> QED BY <2>1, <2>2, <2>3 DEF IsBook
<1> HIDE DEF B
<1>3. IsTree(B)
  BY <1>1, <1>2 DEF IsTree, Complete
<1>4. InReadingOrder(ReadingOrder(B), B)
  BY <1>1, <1>3, ReadingOrderIsReading
<1>5. /\ snapshot'.order = ReadingOrder(B) /\ snapshot'.exact = exact
      /\ snapshot'.revision = manuscript.revision
      /\ snapshot'.blocks = [i \in DOMAIN ReadingOrder(B) |-> B[ReadingOrder(B)[i]]]
  BY <1>1
<1>6. Publishable(snapshot'.exact) = B
  BY <1>5 DEF B
<1> QED BY <1>4, <1>5, <1>6

LEMMA StepsKeepEditionInv ==
  ASSUME ViewsInv, EditionInv, [ViewsNext]_viewVars
  PROVE  EditionInv'
<1>1. CASE UNCHANGED <<manuscript, snapshot, package>>
  BY <1>1 DEF EditionInv, Publishable, Blocks
<1>2. CASE ProjectEdition
  <2>1. UNCHANGED <<manuscript, package>> /\ snapshot = Absent
    BY <1>2 DEF ProjectEdition
  <2>2. package' = Absent
    BY <2>1 DEF EditionInv
  <2>3. /\ snapshot'.revision = manuscript.revision
        /\ InReadingOrder(snapshot'.order, Publishable(snapshot'.exact))
        /\ snapshot'.blocks =
             [i \in DOMAIN snapshot'.order |-> Publishable(snapshot'.exact)[snapshot'.order[i]]]
    BY <1>2, ProjectedIsTheWork
  <2>4. manuscript.revision \in Nat
    BY DEF ViewsInv
  <2> QED BY <2>1, <2>2, <2>3, <2>4 DEF EditionInv, Publishable, Blocks
<1>3. CASE Compile
  <2>1. UNCHANGED <<manuscript, snapshot>> /\ snapshot # Absent
    BY <1>3 DEF Compile
  <2>2. package' = [manifest |-> ManifestOf(snapshot), blocks |-> snapshot.blocks,
                    checksums |-> Checksums(ManifestOf(snapshot),
                                            ContentOf(snapshot.order, snapshot.blocks))]
    BY <1>3 DEF Compile
  <2>3. /\ package' = [manifest |-> package'.manifest, blocks |-> package'.blocks,
                       checksums |-> package'.checksums]
        /\ package'.checksums = Checksums(ManifestOf(snapshot),
                                          ContentOf(snapshot.order, snapshot.blocks))
    BY <2>2
  <2>4. ManifestOf(snapshot)' = ManifestOf(snapshot)
    BY <2>1 DEF ManifestOf
  <2>5. /\ snapshot' # Absent
        /\ package'.checksums = Checksums(ManifestOf(snapshot'),
                                          ContentOf(snapshot'.order, snapshot'.blocks))
    BY <2>1, <2>3
  <2> QED BY <2>1, <2>3, <2>5 DEF EditionInv, Publishable, Blocks
<1>4. CASE Damage
  <2>1. UNCHANGED <<manuscript, snapshot>> /\ package # Absent
    BY <1>4 DEF Damage
  <2>2. package = [manifest |-> package.manifest, blocks |-> package.blocks,
                   checksums |-> package.checksums]
    BY <2>1 DEF EditionInv
  <2>3. /\ package'.checksums = package.checksums
        /\ package' = [manifest |-> package'.manifest, blocks |-> package'.blocks,
                       checksums |-> package'.checksums]
    <3>1. CASE \E i \in DOMAIN package.blocks, text \in Wording :
                 package' = [package EXCEPT !.blocks[i].content = text]
      BY <2>2, <3>1
    <3>2. CASE \E i \in 2..Len(package.blocks) :
                 package' = [package EXCEPT !.blocks = Swapped(@, i),
                                            !.manifest.order = Swapped(@, i)]
      BY <2>2, <3>2
    <3> QED BY <1>4, <3>1, <3>2 DEF Damage
  <2>4. /\ snapshot' # Absent
        /\ package'.checksums = Checksums(ManifestOf(snapshot'),
                                          ContentOf(snapshot'.order, snapshot'.blocks))
    BY <2>1, <2>3 DEF EditionInv
  <2> QED BY <2>1, <2>3, <2>4 DEF EditionInv, Publishable, Blocks
<1>5. CASE MoveBlock \/ EditContent \/ RecordEvent
  <2>1. /\ UNCHANGED <<snapshot, package>>
        /\ \/ manuscript'.revision = manuscript.revision + 1
           \/ manuscript'.revision = manuscript.revision /\ manuscript'.blocks = Blocks
    BY <1>5, CommandsChangeTheRevision
  <2>2. manuscript.revision \in Nat
    BY DEF ViewsInv
  <2>3. CASE manuscript'.revision = manuscript.revision + 1
    BY <2>1, <2>2, <2>3 DEF EditionInv
  <2>4. CASE manuscript'.revision = manuscript.revision /\ manuscript'.blocks = Blocks
    BY <2>1, <2>4 DEF EditionInv, Publishable, Blocks
  <2> QED BY <2>1, <2>3, <2>4
<1> QED BY <1>1, <1>2, <1>3, <1>4, <1>5 DEF ViewsNext, viewVars, ApproveEdition, Remember,
      Prepare, Operate

\* A copy of the package that verifies, of an edition that is not out of date, is the work
\* in reading order: what EditionProjector.project laid out and AppBookCompiler.compile
\* signed, with no block lost, changed, moved or left behind since.
THEOREM VerifiedEditionsAreTheWork == ViewsSpec => []VerifiedEditionIsTheWork
<1>1. ViewsInit => ViewsInv /\ EditionInv
  <2> SUFFICES ASSUME ViewsInit PROVE ViewsInv /\ EditionInv
    OBVIOUS
  <2>1. PICK book \in Book : manuscript = [blocks |-> book.blocks, published |-> book.published,
                                           version |-> 1, revision |-> 1]
    BY DEF ViewsInit
  <2>2. memory = Absent /\ context = Absent /\ snapshot = Absent /\ package = Absent
    BY DEF ViewsInit
  <2>3. IsBook(book.blocks)
    BY ViewsAssumption
  <2> QED BY <2>1, <2>2, <2>3 DEF ViewsInv, EditionInv, Blocks
<1>2. ASSUME EditionInv PROVE VerifiedEditionIsTheWork
  <2> SUFFICES ASSUME package # Absent, VerifyIntegrity(package), ~IsStale(package.manifest)
               PROVE  LET B == Publishable(snapshot.exact)  order == package.manifest.order IN
                      /\ InReadingOrder(order, B)
                      /\ package.blocks = [i \in DOMAIN order |-> B[order[i]]]
    BY DEF VerifiedEditionIsTheWork
  <2>1. Checksums(package.manifest, ContentOf(package.manifest.order, package.blocks))
          = Checksums(ManifestOf(snapshot), ContentOf(snapshot.order, snapshot.blocks))
    BY <1>2 DEF EditionInv, VerifyIntegrity
  <2>2. /\ package.manifest = ManifestOf(snapshot)
        /\ ContentOf(package.manifest.order, package.blocks)
             = ContentOf(snapshot.order, snapshot.blocks)
    <3> DEFINE read == ContentOf(package.manifest.order, package.blocks)
               signed == ContentOf(snapshot.order, snapshot.blocks)
               manifest == ManifestOf(snapshot)
    <3>1. Checksums(package.manifest, read) = Checksums(manifest, signed)
      BY <2>1
    <3> HIDE DEF read, signed, manifest
    <3>2. /\ Checksums(package.manifest, read).base.manifest = package.manifest
          /\ Checksums(package.manifest, read).base.content = read
          /\ Checksums(manifest, signed).base.manifest = manifest
          /\ Checksums(manifest, signed).base.content = signed
      BY DEF Checksums
    <3>3. package.manifest = manifest /\ read = signed
      BY <3>1, <3>2, Zenon
    <3> QED BY <3>3 DEF read, signed, manifest
  <2>3. package.manifest.order = snapshot.order /\ package.blocks = snapshot.blocks
    <3>1. /\ ContentOf(package.manifest.order, package.blocks).order = package.manifest.order
          /\ ContentOf(package.manifest.order, package.blocks).blocks = package.blocks
          /\ ContentOf(snapshot.order, snapshot.blocks).order = snapshot.order
          /\ ContentOf(snapshot.order, snapshot.blocks).blocks = snapshot.blocks
      BY DEF ContentOf
    <3> QED BY <2>2, <3>1, Zenon
  <2>4. snapshot.revision = manuscript.revision
    BY <2>2 DEF ManifestOf, IsStale
  <2>5. snapshot # Absent
    BY <1>2 DEF EditionInv
  <2> QED BY <1>2, <2>3, <2>4, <2>5 DEF EditionInv
<1>3. ASSUME ViewsInv, EditionInv, [ViewsNext]_viewVars PROVE ViewsInv' /\ EditionInv'
  BY <1>3, StepsKeepViewsInv, StepsKeepEditionInv
<1> QED BY <1>1, <1>2, <1>3, PTL DEF ViewsSpec

----------------------------------------------------------------------------
(* Reviewers: str.count finds as many occurrences as there is room for *)

\* f[i] is what is counted from place i on.
CountsFrom(f, phrase, text) ==
  /\ f \in [1..(Len(text) + Len(phrase)) -> Nat]
  /\ \A i \in 1..(Len(text) + Len(phrase)) :
       f[i] = IF i > Len(text) THEN 0
              ELSE IF OccursAt(phrase, text, i) THEN 1 + f[i + Len(phrase)]
              ELSE f[i + 1]

LEMMA CountIsCounted ==
  ASSUME NEW phrase \in Phrase, NEW text \in Seq(Token)
  PROVE  \E f : CountsFrom(f, phrase, text) /\ Count(phrase, text) = f[1]
<1> DEFINE L == Len(text)
           M == Len(text) + Len(phrase)
           Eq(f, i) == IF i > Len(text) THEN 0
                       ELSE IF OccursAt(phrase, text, i) THEN 1 + f[i + Len(phrase)]
                       ELSE f[i + 1]
           Value(f) == [i \in 1..M |-> Eq(f, i)]
           P(f) == f = Value(f)
           F == CHOOSE f : P(f)
           T == {k \in Nat : k <= L => \E f \in [1..M -> Nat] : \A i \in (L - k + 1)..M : f[i] = Eq(f, i)}
<1>1. L \in Nat /\ Len(phrase) \in Nat \ {0} /\ M = L + Len(phrase)
  BY DEF Phrase
<1> HIDE DEF L, M
<1>2. 0 \in T
  <2> DEFINE f == [i \in 1..M |-> 0]
  <2>1. f \in [1..M -> Nat]
    OBVIOUS
  <2>2. ASSUME NEW i \in (L - 0 + 1)..M PROVE f[i] = Eq(f, i)
    <3>1. i \in 1..M /\ i > Len(text)
      BY <1>1 DEF L
    <3> QED BY <3>1
  <2> HIDE DEF f, Eq
  <2> QED BY <2>1, <2>2
<1>3. ASSUME NEW k \in T PROVE k + 1 \in T
  <2> SUFFICES ASSUME k + 1 <= L
               PROVE  \E g \in [1..M -> Nat] : \A i \in (L - (k + 1) + 1)..M : g[i] = Eq(g, i)
    <3> HIDE DEF Eq
    <3> QED OBVIOUS
  <2>1. k \in Nat /\ k <= L
    BY <1>1
  <2>2. PICK f \in [1..M -> Nat] : \A i \in (L - k + 1)..M : f[i] = Eq(f, i)
    <3> HIDE DEF Eq
    <3> QED BY <2>1
  <2> DEFINE n == L - k
             g == [f EXCEPT ![n] = Eq(f, n)]
  <2>3. /\ n \in 1..L /\ n \in 1..M /\ n + 1 \in 1..M /\ n + Len(phrase) \in 1..M
        /\ L - (k + 1) + 1 = n /\ L - k + 1 = n + 1
    BY <1>1, <2>1
  <2> HIDE DEF n
  <2>4. Eq(f, n) \in Nat
    BY <2>3 DEF L
  <2>5. g \in [1..M -> Nat]
    <3> HIDE DEF Eq
    <3> QED BY <2>4
  <2>6. ASSUME NEW i \in n..M PROVE g[i] = Eq(g, i)
    <3>1. i \in 1..M /\ (i <= L => i + 1 \in 1..M /\ i + 1 # n
                                  /\ i + Len(phrase) \in 1..M /\ i + Len(phrase) # n)
      BY <1>1, <2>3
    <3>2. Eq(g, i) = Eq(f, i)
      <4>1. CASE i > L
        BY <4>1 DEF L
      <4>2. CASE i <= L
        <5>1. g[i + 1] = f[i + 1] /\ g[i + Len(phrase)] = f[i + Len(phrase)]
          <6> HIDE DEF Eq
          <6> QED BY <3>1, <4>2
        <5> HIDE DEF g
        <5> QED BY <5>1
      <4> QED BY <1>1, <2>3, <4>1, <4>2
    <3>3. g[i] = Eq(f, i)
      <4> HIDE DEF Eq
      <4>1. CASE i = n
        BY <3>1, <4>1
      <4>2. CASE i # n
        <5>1. i \in (L - k + 1)..M
          BY <2>3, <4>2
        <5> QED BY <2>2, <3>1, <4>2, <5>1
      <4> QED BY <4>1, <4>2
    <3> QED BY <3>2, <3>3
  <2> HIDE DEF g, Eq
  <2> QED BY <2>3, <2>5, <2>6
<1>4. T = Nat
  <2>1. T \in SUBSET Nat
    OBVIOUS
  <2> HIDE DEF T
  <2> QED BY <1>2, <1>3, <2>1, InductionOnNat
<1>5. PICK h \in [1..M -> Nat] : \A i \in 1..M : h[i] = Eq(h, i)
  <2>1. L \in T /\ L - L + 1 = 1
    <3> HIDE DEF T
    <3> QED BY <1>1, <1>4
  <2> HIDE DEF Eq
  <2> QED BY <1>1, <2>1
<1>6. \E f \in [1..M -> Nat] : P(f)
  <2> HIDE DEF Eq
  <2> QED BY <1>5
<1>7. P(F)
  <2> HIDE DEF P
  <2> QED BY <1>6
<1>8. Count(phrase, text) = F[1]
  BY DEF Count, M
<1> HIDE DEF F
<1>9. ASSUME NEW i \in 1..M PROVE F[i] = Eq(F, i)
  <2> HIDE DEF Eq
  <2> QED BY <1>7
<1>10. \A i \in 1..M : F[i] \in Nat
  <2> DEFINE U == {k \in Nat : \A i \in 1..M : i >= M - k => F[i] \in Nat}
  <2>1. M \in Nat
    BY <1>1
  <2>2. ASSUME NEW i \in 1..M, \A j \in 1..M : j > i => F[j] \in Nat PROVE F[i] \in Nat
    <3>1. i <= L => /\ i + 1 \in 1..M /\ i + 1 > i
                    /\ i + Len(phrase) \in 1..M /\ i + Len(phrase) > i
      BY <1>1
    <3>2. F[i] = Eq(F, i)
      <4> HIDE DEF Eq
      <4> QED BY <1>9
    <3>3. CASE i > L
      BY <3>2, <3>3 DEF L
    <3>4. CASE i <= L
      <4>1. F[i + 1] \in Nat /\ F[i + Len(phrase)] \in Nat
        <5> HIDE DEF Eq
        <5> QED BY <2>2, <3>1, <3>4
      <4>2. F[i] = 0 \/ F[i] = 1 + F[i + Len(phrase)] \/ F[i] = F[i + 1]
        BY <3>2
      <4> HIDE DEF Eq
      <4> QED BY <4>1, <4>2
    <3> HIDE DEF Eq
    <3> QED BY <1>1, <3>3, <3>4
  <2>3. 0 \in U
    <3> HIDE DEF Eq
    <3>1. ASSUME NEW i \in 1..M, i >= M - 0 PROVE F[i] \in Nat
      <4>1. \A j \in 1..M : ~(j > i)
        BY <2>1, <3>1
      <4> QED BY <2>2, <4>1
    <3> QED BY <3>1
  <2>4. ASSUME NEW k \in U PROVE k + 1 \in U
    <3> HIDE DEF Eq
    <3>1. k \in Nat /\ \A i \in 1..M : i >= M - k => F[i] \in Nat
      OBVIOUS
    <3>2. ASSUME NEW i \in 1..M, i >= M - (k + 1) PROVE F[i] \in Nat
      <4>1. \A j \in 1..M : j > i => j >= M - k
        BY <2>1, <3>1, <3>2
      <4> HIDE DEF U
      <4> QED BY <2>2, <3>1, <4>1
    <3> QED BY <3>1, <3>2
  <2>5. U = Nat
    <3>1. U \in SUBSET Nat
      OBVIOUS
    <3> HIDE DEF U
    <3> QED BY <2>3, <2>4, <3>1, InductionOnNat
  <2>6. M \in U
    <3> HIDE DEF U
    <3> QED BY <2>1, <2>5
  <2> HIDE DEF Eq
  <2> QED BY <2>1, <2>6
<1>11. F \in [1..M -> Nat]
  <2>1. F = [i \in 1..M |-> Eq(F, i)]
    <3> HIDE DEF Eq
    <3> QED BY <1>7
  <2>2. \A i \in 1..M : Eq(F, i) \in Nat
    <3> HIDE DEF Eq
    <3> QED BY <1>9, <1>10
  <2> HIDE DEF Eq
  <2> QED BY <2>1, <2>2
<1> QED BY <1>8, <1>9, <1>11 DEF CountsFrom, M

\* Picks of occurrences from place i on that do not overlap.
Picks(phrase, text, i) ==
  {O \in SUBSET Occurrences(phrase, text) :
     /\ \A m, n \in O : m < n => n >= m + Len(phrase)
     /\ \A m \in O : m >= i}

IsMost(x, phrase, text, i) ==
  /\ \E O \in Picks(phrase, text, i) : Cardinality(O) = x
  /\ \A O \in Picks(phrase, text, i) : Cardinality(O) <= x

LEMMA PicksAreFinite ==
  ASSUME NEW phrase \in Phrase, NEW text \in Seq(Token), NEW i \in Nat,
         NEW O \in Picks(phrase, text, i)
  PROVE  /\ IsFiniteSet(O) /\ Cardinality(O) \in Nat
         /\ \A m \in O : m \in 1..Len(text) /\ m >= i /\ OccursAt(phrase, text, m)
<1>1. Len(text) \in Nat /\ DOMAIN text = 1..Len(text)
  OBVIOUS
<1>2. O \in SUBSET (1..Len(text))
  BY <1>1 DEF Picks, Occurrences
<1>3. IsFiniteSet(1..Len(text))
  BY <1>1, FS_Interval
<1>4. IsFiniteSet(O) /\ Cardinality(O) \in Nat
  BY <1>2, <1>3, FS_Subset, FS_CardinalityType
<1> QED BY <1>2, <1>4 DEF Picks, Occurrences

\* Where an occurrence starts it is best taken: of those that start before its end a choice
\* has one at most.
LEMMA TakingIsBest ==
  ASSUME NEW phrase \in Phrase, NEW text \in Seq(Token), NEW i \in 1..Len(text), NEW x \in Nat,
         OccursAt(phrase, text, i), IsMost(x, phrase, text, i + Len(phrase))
  PROVE  IsMost(x + 1, phrase, text, i)
<1>1. Len(phrase) \in Nat \ {0} /\ i \in Nat /\ i + Len(phrase) \in Nat /\ i \in DOMAIN text
  BY DEF Phrase
<1>2. \E O \in Picks(phrase, text, i) : Cardinality(O) = x + 1
  <2>1. PICK O \in Picks(phrase, text, i + Len(phrase)) : Cardinality(O) = x
    BY DEF IsMost
  <2>2. IsFiniteSet(O) /\ \A m \in O : m \in 1..Len(text) /\ m >= i + Len(phrase)
    BY <1>1, PicksAreFinite
  <2> DEFINE Q == O \cup {i}
  <2>3. i \notin O
    BY <1>1, <2>2
  <2>4. Cardinality(Q) = x + 1
    BY <2>1, <2>2, <2>3, FS_AddElement
  <2>5. Q \in SUBSET Occurrences(phrase, text)
    BY <1>1 DEF Picks, Occurrences
  <2>6. ASSUME NEW m \in Q, NEW n \in Q, m < n PROVE n >= m + Len(phrase)
    <3>1. CASE m = i
      BY <1>1, <2>2, <2>6, <3>1
    <3>2. CASE m # i
      <4>1. m \in O /\ n # i
        BY <1>1, <2>2, <2>6, <3>2
      <4> QED BY <2>6, <4>1 DEF Picks
    <3> QED BY <3>1, <3>2
  <2>7. \A m \in Q : m >= i
    BY <1>1, <2>2
  <2> HIDE DEF Q
  <2>8. Q \in Picks(phrase, text, i)
    BY <2>5, <2>6, <2>7 DEF Picks
  <2> QED BY <2>4, <2>8
<1>3. ASSUME NEW O \in Picks(phrase, text, i) PROVE Cardinality(O) <= x + 1
  <2> DEFINE Q == {m \in O : m >= i + Len(phrase)}
  <2>1. /\ IsFiniteSet(O) /\ Cardinality(O) \in Nat
        /\ \A m \in O : m \in 1..Len(text) /\ m >= i
    BY <1>1, PicksAreFinite
  <2>2. Q \in Picks(phrase, text, i + Len(phrase))
    BY DEF Picks
  <2>3. IsFiniteSet(Q) /\ Cardinality(Q) \in Nat /\ Cardinality(Q) <= x
    <3> HIDE DEF Q
    <3> QED BY <1>1, <2>2, PicksAreFinite DEF IsMost
  <2>4. CASE O = Q
    <3> HIDE DEF Q
    <3> QED BY <2>3, <2>4
  <2>5. CASE O # Q
    <3>1. PICK m \in O : m \notin Q
      BY <2>5
    <3>2. ASSUME NEW n \in O, n # m PROVE n \in Q
      <4>1. /\ m < n => n >= m + Len(phrase)
            /\ n < m => m >= n + Len(phrase)
        BY DEF Picks
      <4>2. ~(m >= i + Len(phrase))
        BY <3>1
      <4>3. n >= i + Len(phrase)
        <5> HIDE DEF Q
        <5> QED BY <1>1, <2>1, <3>2, <4>1, <4>2
      <4> QED BY <4>3
    <3>3. O = Q \cup {m}
      BY <3>2
    <3> HIDE DEF Q
    <3>4. Cardinality(O) = Cardinality(Q) \/ Cardinality(O) = Cardinality(Q) + 1
      BY <2>3, <3>3, FS_AddElement
    <3> QED BY <2>3, <3>4
  <2> QED BY <2>4, <2>5
<1> QED BY <1>2, <1>3 DEF IsMost

\* Where none starts there is nothing to choose.
LEMMA PassingIsBest ==
  ASSUME NEW phrase \in Phrase, NEW text \in Seq(Token), NEW i \in 1..Len(text), NEW x \in Nat,
         ~OccursAt(phrase, text, i), IsMost(x, phrase, text, i + 1)
  PROVE  IsMost(x, phrase, text, i)
<1>1. Picks(phrase, text, i) = Picks(phrase, text, i + 1)
  <2>1. ASSUME NEW O \in SUBSET Occurrences(phrase, text)
        PROVE  (\A m \in O : m >= i) <=> (\A m \in O : m >= i + 1)
    <3>1. \A m \in O : m \in 1..Len(text) /\ OccursAt(phrase, text, m)
      BY DEF Occurrences
    <3>2. \A m \in O : m \in Int /\ m # i
      BY <3>1
    <3> QED BY <3>2
  <2> QED BY <2>1 DEF Picks
<1> QED BY <1>1 DEF IsMost

\* str.count, which takes each occurrence it can, counts as many as do not overlap.
LEMMA CountIsDisjoint ==
  ASSUME NEW phrase \in Phrase, NEW text \in Seq(Token)
  PROVE  Count(phrase, text) \in Nat /\ Count(phrase, text) = Disjoint(phrase, text)
<1> DEFINE M == Len(text) + Len(phrase)
<1>1. Len(text) \in Nat /\ Len(phrase) \in Nat \ {0} /\ M \in Nat
  BY DEF Phrase
<1>2. PICK f : CountsFrom(f, phrase, text) /\ Count(phrase, text) = f[1]
  BY CountIsCounted
<1>3. /\ f \in [1..M -> Nat]
      /\ \A i \in 1..M : f[i] = IF i > Len(text) THEN 0
                                ELSE IF OccursAt(phrase, text, i) THEN 1 + f[i + Len(phrase)]
                                ELSE f[i + 1]
  BY <1>2 DEF CountsFrom
<1>4. M = Len(text) + Len(phrase)
  OBVIOUS
<1> HIDE DEF M
<1> DEFINE Best(i) == IsMost(f[i], phrase, text, i)
           T == {k \in Nat : \A i \in 1..M : i >= M - k => Best(i)}
<1>5. ASSUME NEW i \in 1..M, i > Len(text) PROVE Best(i)
  <2>1. f[i] = 0
    BY <1>3, <1>5
  <2>2. ASSUME NEW O \in Picks(phrase, text, i) PROVE O = {}
    <3>1. \A m \in O : m \in 1..Len(text) /\ m >= i
      BY PicksAreFinite
    <3> QED BY <1>1, <1>5, <3>1
  <2>3. {} \in Picks(phrase, text, i)
    BY DEF Picks
  <2>4. Cardinality({}) = 0
    BY FS_EmptySet
  <2>5. \A O \in Picks(phrase, text, i) : Cardinality(O) = 0
    BY <2>2, <2>4, Zenon
  <2> QED BY <2>1, <2>3, <2>5 DEF IsMost
<1>6. ASSUME NEW i \in 1..M, \A j \in 1..M : j > i => Best(j) PROVE Best(i)
  <2>1. CASE i > Len(text)
    BY <1>5, <2>1
  <2>2. CASE i <= Len(text)
    <3>1. /\ i \in 1..Len(text) /\ i + 1 \in 1..M /\ i + Len(phrase) \in 1..M
          /\ i + 1 > i /\ i + Len(phrase) > i /\ ~(i > Len(text))
      BY <1>1, <1>4, <2>2
    <3>2. IsMost(f[i + 1], phrase, text, i + 1)
          /\ IsMost(f[i + Len(phrase)], phrase, text, i + Len(phrase))
      BY <1>6, <3>1
    <3>3. f[i + 1] \in Nat /\ f[i + Len(phrase)] \in Nat
      BY <1>3, <3>1
    <3>4. CASE OccursAt(phrase, text, i)
      <4>1. f[i] = f[i + Len(phrase)] + 1
        BY <1>3, <3>1, <3>3, <3>4
      <4> QED BY <3>1, <3>2, <3>3, <3>4, <4>1, TakingIsBest
    <3>5. CASE ~OccursAt(phrase, text, i)
      <4>1. f[i] = f[i + 1]
        BY <1>3, <3>1, <3>5
      <4> QED BY <3>1, <3>2, <3>3, <3>5, <4>1, PassingIsBest
    <3> QED BY <3>4, <3>5
  <2> QED BY <1>1, <2>1, <2>2
<1> HIDE DEF Best
<1>7. 0 \in T
  <2>1. ASSUME NEW i \in 1..M, i >= M - 0 PROVE Best(i)
    <3>1. \A j \in 1..M : ~(j > i)
      BY <1>1, <2>1
    <3> QED BY <1>6, <3>1
  <2> QED BY <2>1
<1>8. ASSUME NEW k \in T PROVE k + 1 \in T
  <2>1. k \in Nat /\ \A i \in 1..M : i >= M - k => Best(i)
    OBVIOUS
  <2>2. ASSUME NEW i \in 1..M, i >= M - (k + 1) PROVE Best(i)
    <3>1. \A j \in 1..M : j > i => j >= M - k
      BY <1>1, <2>1, <2>2
    <3> HIDE DEF T
    <3> QED BY <1>6, <2>1, <3>1
  <2> QED BY <2>1, <2>2
<1>9. T = Nat
  <2>1. T \in SUBSET Nat
    OBVIOUS
  <2> HIDE DEF T
  <2> QED BY <1>7, <1>8, <2>1, InductionOnNat
<1>10. Best(1)
  <2>1. M \in T
    <3> HIDE DEF T
    <3> QED BY <1>1, <1>9
  <2>2. 1 \in 1..M
    BY <1>1, <1>4
  <2> QED BY <1>1, <2>1, <2>2
<1> DEFINE S == {Cardinality(O) : O \in
                   {P \in SUBSET Occurrences(phrase, text) :
                      \A i, j \in P : i < j => j >= i + Len(phrase)}}
<1>11. S = {Cardinality(O) : O \in Picks(phrase, text, 1)}
  <2>1. ASSUME NEW O \in SUBSET Occurrences(phrase, text) PROVE \A m \in O : m >= 1
    <3>1. \A m \in O : m \in 1..Len(text)
      BY DEF Occurrences
    <3> QED BY <3>1
  <2>2. Picks(phrase, text, 1) = {P \in SUBSET Occurrences(phrase, text) :
                                      \A i, j \in P : i < j => j >= i + Len(phrase)}
    BY <2>1 DEF Picks
  <2> QED BY <2>2, Zenon
<1>12. \A O \in Picks(phrase, text, 1) : Cardinality(O) \in Nat
  BY PicksAreFinite
<1>13. f[1] \in Nat
  BY <1>1, <1>3, <1>4
<1>14. f[1] \in S /\ \A y \in S : y \in Nat /\ f[1] >= y
  <2>1. IsMost(f[1], phrase, text, 1)
    BY <1>10 DEF Best
  <2> HIDE DEF S
  <2> QED BY <1>11, <1>12, <1>13, <2>1 DEF IsMost
<1>15. Disjoint(phrase, text) = Max(S)
  BY DEF Disjoint
<1>16. Max(S) = f[1]
  <2> HIDE DEF S
  <2>1. Max(S) \in S /\ \A y \in S : Max(S) >= y
    BY <1>14 DEF Max
  <2> QED BY <1>13, <1>14, <2>1
<1> QED BY <1>2, <1>13, <1>15, <1>16

----------------------------------------------------------------------------
(* Reviewers: the longest run *)

RunState == [best : Nat \X Nat, start : Nat, length : Nat]
NoRun == [best |-> <<0, 0>>, start |-> 0, length |-> 0]

\* One turn of the loop of _longest_run, at place i, from 1.
Turn(r, i, matched) ==
  LET start == IF r.length = 0 THEN i - 1 ELSE r.start
  IN IF ~matched THEN [r EXCEPT !.length = 0]
     ELSE [best |-> IF r.length + 1 > r.best[2] THEN <<start, r.length + 1>> ELSE r.best,
           start |-> start, length |-> r.length + 1]

Turns(f, matches) ==
  f[0] = NoRun /\ \A i \in 1..Len(matches) : f[i] = Turn(f[i-1], i, matches[i])

LEMMA TurnType ==
  ASSUME NEW r \in RunState, NEW i \in Nat \ {0}, NEW m \in BOOLEAN
  PROVE  /\ Turn(r, i, m) \in RunState
         /\ ~m => /\ Turn(r, i, m).best = r.best /\ Turn(r, i, m).length = 0
         /\ m => /\ Turn(r, i, m).length = r.length + 1
                 /\ Turn(r, i, m).start = (IF r.length = 0 THEN i - 1 ELSE r.start)
                 /\ Turn(r, i, m).best = (IF r.length + 1 > r.best[2]
                                          THEN <<IF r.length = 0 THEN i - 1 ELSE r.start, r.length + 1>>
                                          ELSE r.best)
<1>1. PICK b \in Nat, c \in Nat, s \in Nat, l \in Nat :
        r = [best |-> <<b, c>>, start |-> s, length |-> l]
  BY DEF RunState
<1>2. /\ r.best = <<b, c>> /\ r.best[2] = c /\ r.start = s /\ r.length = l
  BY <1>1
<1> DEFINE start == IF l = 0 THEN i - 1 ELSE s
<1>3. start \in Nat
  OBVIOUS
<1>4. CASE ~m
  <2>1. Turn(r, i, m) = [best |-> <<b, c>>, start |-> s, length |-> 0]
    BY <1>1, <1>4 DEF Turn
  <2> QED BY <1>2, <1>4, <2>1 DEF RunState
<1>5. CASE m /\ l + 1 > c
  <2>1. Turn(r, i, m) = [best |-> <<start, l + 1>>, start |-> start, length |-> l + 1]
    BY <1>2, <1>5 DEF Turn
  <2> HIDE DEF start
  <2>2. Turn(r, i, m) \in RunState
    BY <1>3, <2>1 DEF RunState
  <2>3. /\ Turn(r, i, m).best = <<start, l + 1>> /\ Turn(r, i, m).start = start
        /\ Turn(r, i, m).length = l + 1
    BY <2>1
  <2> QED BY <1>2, <1>5, <2>2, <2>3 DEF start
<1>6. CASE m /\ ~(l + 1 > c)
  <2>1. Turn(r, i, m) = [best |-> <<b, c>>, start |-> start, length |-> l + 1]
    BY <1>2, <1>6 DEF Turn
  <2> HIDE DEF start
  <2>2. Turn(r, i, m) \in RunState
    BY <1>3, <2>1 DEF RunState
  <2>3. /\ Turn(r, i, m).best = <<b, c>> /\ Turn(r, i, m).start = start
        /\ Turn(r, i, m).length = l + 1
    BY <2>1
  <2> QED BY <1>2, <1>6, <2>2, <2>3 DEF start
<1> QED BY <1>4, <1>5, <1>6

LEMMA LongestRunTurns ==
  ASSUME NEW matches \in Seq(BOOLEAN)
  PROVE  \E f : Turns(f, matches) /\ LongestRun(matches) = f[Len(matches)].best
<1> DEFINE N == Len(matches)
           Value(f, i) == IF i = 0 THEN NoRun ELSE Turn(f[i-1], i, matches[i])
           P(f) == f = [i \in 0..N |->
             IF i = 0 THEN [best |-> <<0, 0>>, start |-> 0, length |-> 0]
             ELSE LET r == f[i-1]
                      start == IF r.length = 0 THEN i - 1 ELSE r.start
                  IN IF ~matches[i] THEN [r EXCEPT !.length = 0]
                     ELSE [best |-> IF r.length + 1 > r.best[2] THEN <<start, r.length + 1>>
                                    ELSE r.best,
                           start |-> start, length |-> r.length + 1]]
           F == CHOOSE f : P(f)
<1>1. N \in Nat /\ \A i \in 1..N : matches[i] \in BOOLEAN
  OBVIOUS
<1>2. NoRun \in RunState
  BY DEF NoRun, RunState
<1>3. LongestRun(matches) = F[N].best
  BY DEF LongestRun
<1> HIDE DEF N
<1>4. \A f : P(f) <=> f = [i \in 0..N |-> Value(f, i)]
  BY DEF NoRun, Turn
<1> HIDE DEF P
<1>5. \E f : f = [i \in 0..N |-> Value(f, i)]
  <2> DEFINE step == [i \in 1..N |-> [r \in RunState |-> Turn(r, i, matches[i])]]
  <2>1. step \in [1..N -> [RunState -> RunState]]
    <3> SUFFICES ASSUME NEW i \in 1..N, NEW r \in RunState
                 PROVE  Turn(r, i, matches[i]) \in RunState
      OBVIOUS
    <3>1. i \in Nat \ {0} /\ matches[i] \in BOOLEAN
      BY <1>1
    <3> QED BY <3>1, TurnType
  <2>2. PICK f \in [0..N -> RunState] : Recurs(f, N, NoRun, step)
    <3> HIDE DEF step
    <3> QED BY <1>1, <1>2, <2>1, RecursionExists
  <2>3. ASSUME NEW i \in 0..N PROVE f[i] = Value(f, i)
    <3>1. CASE i = 0
      BY <2>2, <3>1 DEF Recurs
    <3>2. CASE i # 0
      <4>1. i \in 1..N /\ i - 1 \in 0..N /\ f[i-1] \in RunState
        BY <1>1, <3>2
      <4>2. f[i] = step[i][f[i-1]]
        BY <2>2, <4>1 DEF Recurs
      <4> QED BY <3>2, <4>1, <4>2
    <3> QED BY <3>1, <3>2
  <2>4. f = [i \in 0..N |-> Value(f, i)]
    <3> HIDE DEF Value
    <3> QED BY <2>3
  <2> QED BY <2>4
<1>6. P(F)
  <2>1. \E f : P(f)
    BY <1>4, <1>5
  <2> QED BY <2>1
<1> HIDE DEF F
<1>7. Turns(F, matches)
  <2>1. F = [i \in 0..N |-> Value(F, i)]
    BY <1>4, <1>6
  <2>2. ASSUME NEW i \in 0..N PROVE F[i] = Value(F, i)
    <3> HIDE DEF Value
    <3> QED BY <2>1
  <2>3. F[0] = NoRun
    <3>1. 0 \in 0..N
      BY <1>1
    <3> QED BY <2>2, <3>1
  <2>4. ASSUME NEW i \in 1..N PROVE F[i] = Turn(F[i-1], i, matches[i])
    <3>1. i \in 0..N /\ i # 0
      BY <1>1
    <3> QED BY <2>2, <3>1
  <2> QED BY <2>3, <2>4 DEF Turns, N
<1> QED BY <1>3, <1>7 DEF N

\* n places from s on, the first of them s + 1, at all of which there is a match.
IsRun(matches, s, n) ==
  s \in Nat /\ n \in Nat \ {0} /\ \A k \in (s + 1)..(s + n) : matches[k]

\* After i turns: the run that goes on, and the first of the longest so far.
Kept(r, matches, i) ==
  /\ r \in RunState
  /\ r.length # 0 => r.start + r.length = i
  /\ \A s \in 0..(i - 1) :
       (\A k \in (s + 1)..i : matches[k]) <=> r.length # 0 /\ s >= r.start
  /\ IF r.best[2] = 0 THEN r.best[1] = 0
     ELSE r.best[1] + r.best[2] <= i /\ IsRun(matches, r.best[1], r.best[2])
  /\ \A s, n \in Nat :
       IsRun(matches, s, n) /\ s + n <= i
         => n < r.best[2] \/ (n = r.best[2] /\ s >= r.best[1])

LEMMA TurnKeeps ==
  ASSUME NEW matches \in Seq(BOOLEAN), NEW i \in 1..Len(matches), NEW r, Kept(r, matches, i - 1)
  PROVE  Kept(Turn(r, i, matches[i]), matches, i)
<1> DEFINE t == Turn(r, i, matches[i])
           m == matches[i]
           on(s) == \A k \in (s + 1)..i : matches[k]
<1>1. i \in Nat \ {0} /\ m \in BOOLEAN /\ r \in RunState
  BY DEF Kept
<1>2. /\ t \in RunState
      /\ ~m => t.best = r.best /\ t.length = 0
      /\ m => /\ t.length = r.length + 1
              /\ t.start = (IF r.length = 0 THEN i - 1 ELSE r.start)
              /\ t.best = (IF r.length + 1 > r.best[2]
                           THEN <<IF r.length = 0 THEN i - 1 ELSE r.start, r.length + 1>>
                           ELSE r.best)
  BY <1>1, TurnType
<1>3. /\ r.length \in Nat /\ r.start \in Nat /\ r.best[1] \in Nat /\ r.best[2] \in Nat
      /\ t.length \in Nat /\ t.start \in Nat /\ t.best[1] \in Nat /\ t.best[2] \in Nat
  BY <1>1, <1>2 DEF RunState
<1>4. /\ r.length # 0 => r.start + r.length = i - 1
      /\ \A s \in 0..(i - 2) :
           (\A k \in (s + 1)..(i - 1) : matches[k]) <=> r.length # 0 /\ s >= r.start
      /\ IF r.best[2] = 0 THEN r.best[1] = 0
         ELSE r.best[1] + r.best[2] <= i - 1 /\ IsRun(matches, r.best[1], r.best[2])
      /\ \A s, n \in Nat :
           IsRun(matches, s, n) /\ s + n <= i - 1
             => n < r.best[2] \/ (n = r.best[2] /\ s >= r.best[1])
  BY <1>1 DEF Kept
<1> HIDE DEF t
<1>5. t.length # 0 => t.start + t.length = i
  <2>1. CASE ~m
    BY <1>2, <2>1
  <2>2. CASE m /\ r.length = 0
    <3>1. t.start = i - 1 /\ t.length = 0 + 1
      BY <1>2, <2>2
    <3> QED BY <1>1, <3>1
  <2>3. CASE m /\ r.length # 0
    <3>1. t.start = r.start /\ t.length = r.length + 1 /\ r.start + r.length = i - 1
      BY <1>2, <1>4, <2>3
    <3> QED BY <1>1, <1>3, <3>1
  <2> QED BY <1>1, <2>1, <2>2, <2>3
<1>6. ASSUME NEW s \in 0..(i - 1) PROVE on(s) <=> t.length # 0 /\ s >= t.start
  <2>1. CASE ~m
    <3>1. i \in (s + 1)..i
      BY <1>1
    <3> QED BY <1>2, <2>1, <3>1
  <2>2. CASE m /\ s = i - 1
    <3>1. \A k \in (s + 1)..i : k = i
      BY <1>1, <2>2
    <3>2. t.length # 0 /\ s >= t.start
      BY <1>1, <1>2, <1>3, <1>4, <2>2
    <3> QED BY <2>2, <3>1, <3>2
  <2>3. CASE m /\ s # i - 1
    <3>1. s \in 0..(i - 2)
      BY <1>1, <2>3
    <3>2. on(s) <=> \A k \in (s + 1)..(i - 1) : matches[k]
      <4>1. \A k : k \in (s + 1)..i <=> k \in (s + 1)..(i - 1) \/ k = i
        BY <1>1, <3>1
      <4> QED BY <2>3, <4>1
    <3>3. on(s) <=> r.length # 0 /\ s >= r.start
      BY <1>4, <3>1, <3>2
    <3>4. t.length # 0 /\ t.start = IF r.length = 0 THEN i - 1 ELSE r.start
      BY <1>2, <1>3, <2>3
    <3> HIDE DEF on
    <3> QED BY <1>1, <1>3, <3>1, <3>3, <3>4
  <2> QED BY <2>1, <2>2, <2>3
<1>7. ASSUME NEW s \in Nat, NEW n \in Nat, IsRun(matches, s, n), s + n = i
      PROVE  n <= t.length /\ s >= t.start /\ m
  <2>1. s \in 0..(i - 1) /\ n \in Nat \ {0} /\ on(s)
    BY <1>1, <1>7 DEF IsRun
  <2>2. t.length # 0 /\ s >= t.start
    <3> HIDE DEF on
    <3> QED BY <1>6, <2>1
  <2>3. m
    BY <1>1, <2>1
  <2> QED BY <1>1, <1>3, <1>5, <1>7, <2>2, <2>3
<1>8. ASSUME NEW s \in Nat, NEW n \in Nat, IsRun(matches, s, n), s + n <= i
      PROVE  n < t.best[2] \/ (n = t.best[2] /\ s >= t.best[1])
  <2>1. t.best = r.best \/ t.best[2] > r.best[2]
    BY <1>2, <1>3
  <2>2. CASE s + n <= i - 1
    <3>1. n < r.best[2] \/ (n = r.best[2] /\ s >= r.best[1])
      BY <1>4, <1>8, <2>2
    <3> QED BY <1>3, <2>1, <3>1
  <2>3. CASE s + n = i
    <3>1. n <= t.length /\ s >= t.start /\ m
      BY <1>7, <1>8, <2>3
    <3>2. CASE r.length + 1 > r.best[2]
      <4>1. t.best[1] = t.start /\ t.best[2] = t.length
        BY <1>2, <3>1, <3>2
      <4> QED BY <1>3, <3>1, <4>1
    <3>3. CASE ~(r.length + 1 > r.best[2])
      <4>1. t.best = r.best /\ t.length = r.length + 1 /\ r.best[2] # 0
        BY <1>2, <1>3, <3>1, <3>3
      <4>2. r.best[1] + r.best[2] <= i - 1
        BY <1>4, <4>1
      <4>3. n <= r.best[2] /\ t.best[1] = r.best[1] /\ t.best[2] = r.best[2]
        BY <1>3, <3>1, <3>3, <4>1
      <4>4. n = r.best[2] => s >= r.best[1]
        BY <1>1, <1>3, <2>3, <4>2
      <4> QED BY <1>3, <4>3, <4>4
    <3> QED BY <3>2, <3>3
  <2> QED BY <1>1, <1>8, <2>2, <2>3
<1>9. IF t.best[2] = 0 THEN t.best[1] = 0
      ELSE t.best[1] + t.best[2] <= i /\ IsRun(matches, t.best[1], t.best[2])
  <2>1. CASE t.best = r.best
    BY <1>1, <1>3, <1>4, <2>1
  <2>2. CASE t.best # r.best
    <3>1. /\ m /\ t.best[1] = t.start /\ t.best[2] = t.length /\ t.length # 0
      BY <1>1, <1>2, <1>3, <2>2
    <3>2. t.start \in 0..(i - 1)
      BY <1>1, <1>3, <1>5, <3>1
    <3>3. on(t.start)
      <4> HIDE DEF on
      <4> QED BY <1>3, <1>6, <3>1, <3>2
    <3> QED BY <1>1, <1>3, <1>5, <3>1, <3>3 DEF IsRun
  <2> QED BY <2>1, <2>2
<1> QED BY <1>2, <1>5, <1>6, <1>8, <1>9 DEF Kept, t

\* _longest_run finds the first of the longest runs; there is none only without a match.
LEMMA LongestRunIsLongest ==
  ASSUME NEW matches \in Seq(BOOLEAN)
  PROVE  /\ IsLongestRun(LongestRun(matches), matches)
         /\ LongestRun(matches)[2] \in Nat
         /\ \A n \in Nat \ {0} :
              LongestRun(matches)[2] >= n <=>
                \E s \in 0..Len(matches) :
                  s + n <= Len(matches) /\ \A i \in (s+1)..(s+n) : matches[i]
<1> DEFINE N == Len(matches)
           run == LongestRun(matches)
<1>1. N \in Nat
  OBVIOUS
<1>2. PICK f : Turns(f, matches) /\ run = f[N].best
  BY LongestRunTurns
<1> HIDE DEF run
<1> DEFINE T == {i \in Nat : i <= N => Kept(f[i], matches, i)}
<1>3. 0 \in T
  <2>1. Kept(NoRun, matches, 0)
    <3>1. NoRun \in RunState /\ NoRun.length = 0 /\ NoRun.best[1] = 0 /\ NoRun.best[2] = 0
      BY DEF NoRun, RunState
    <3>2. \A s \in 0..(0 - 1) : FALSE
      OBVIOUS
    <3>3. \A s, n \in Nat : ~(IsRun(matches, s, n) /\ s + n <= 0)
      BY DEF IsRun
    <3> QED BY <3>1, <3>2, <3>3 DEF Kept
  <2> QED BY <1>2, <2>1 DEF Turns
<1>4. ASSUME NEW i \in T PROVE i + 1 \in T
  <2> SUFFICES ASSUME i + 1 <= N PROVE Kept(f[i + 1], matches, i + 1)
    OBVIOUS
  <2>1. i \in Nat /\ i + 1 \in 1..N /\ (i + 1) - 1 = i /\ Kept(f[i], matches, i)
    BY <1>1
  <2>2. f[i + 1] = Turn(f[i], i + 1, matches[i + 1])
    BY <1>2, <2>1 DEF Turns
  <2> QED BY <2>1, <2>2, TurnKeeps
<1>5. T = Nat
  <2>1. T \in SUBSET Nat
    OBVIOUS
  <2> HIDE DEF T
  <2> QED BY <1>3, <1>4, <2>1, InductionOnNat
<1>6. Kept(f[N], matches, N)
  <2>1. N \in T
    <3> HIDE DEF T
    <3> QED BY <1>1, <1>5
  <2> QED BY <1>1, <2>1
<1>7. /\ run \in Nat \X Nat
      /\ IF run[2] = 0 THEN run[1] = 0
         ELSE run[1] + run[2] <= N /\ IsRun(matches, run[1], run[2])
      /\ \A s, n \in Nat :
           IsRun(matches, s, n) /\ s + n <= N => n < run[2] \/ (n = run[2] /\ s >= run[1])
  BY <1>2, <1>6 DEF Kept, RunState
<1>8. run = <<run[1], run[2]>> /\ run[1] \in Nat /\ run[2] \in Nat
  BY <1>7
<1> DEFINE runs == {q \in (0..N) \X (1..N) :
                      q[1] + q[2] <= N /\ \A i \in (q[1] + 1)..(q[1] + q[2]) : matches[i]}
<1>9. ASSUME NEW q \in runs
      PROVE  q[1] \in Nat /\ q[2] \in Nat \ {0} /\ q[1] + q[2] <= N /\ IsRun(matches, q[1], q[2])
  BY <1>1 DEF IsRun
<1>10. ASSUME run[2] # 0 PROVE run \in runs
  <2>1. run[1] + run[2] <= N /\ IsRun(matches, run[1], run[2])
    BY <1>7, <1>10
  <2>2. run[1] \in 0..N /\ run[2] \in 1..N
    BY <1>1, <1>8, <1>10, <2>1
  <2>3. run \in (0..N) \X (1..N)
    BY <1>8, <2>2
  <2> QED BY <2>1, <2>3 DEF IsRun
<1>11. \A q \in runs : q[2] < run[2] \/ (q[2] = run[2] /\ q[1] >= run[1])
  <2> HIDE DEF runs
  <2> QED BY <1>7, <1>9
<1>12. runs # {} => run[2] # 0
  <2> HIDE DEF runs
  <2> QED BY <1>8, <1>9, <1>11
<1>13. run[2] = 0 => run = <<0, 0>>
  BY <1>7, <1>8
<1>14. IsLongestRun(run, matches)
  <2>1. IF runs = {} THEN run = <<0, 0>>
        ELSE run \in runs /\ \A q \in runs : q[2] < run[2] \/ (q[2] = run[2] /\ q[1] >= run[1])
    <3> HIDE DEF runs
    <3> QED BY <1>10, <1>11, <1>12, <1>13
  <2> QED BY <2>1 DEF IsLongestRun
<1>15. ASSUME NEW n \in Nat \ {0}
       PROVE  run[2] >= n <=>
                \E s \in 0..N : s + n <= N /\ \A i \in (s+1)..(s+n) : matches[i]
  <2>1. ASSUME run[2] >= n
        PROVE  \E s \in 0..N : s + n <= N /\ \A i \in (s+1)..(s+n) : matches[i]
    <3>1. run[2] # 0 /\ run[1] + run[2] <= N /\ \A i \in (run[1] + 1)..(run[1] + run[2]) : matches[i]
      BY <1>7, <1>8, <2>1 DEF IsRun
    <3>2. run[1] \in 0..N /\ run[1] + n <= N
      BY <1>1, <1>8, <2>1, <3>1
    <3>3. \A i \in (run[1] + 1)..(run[1] + n) : i \in (run[1] + 1)..(run[1] + run[2])
      BY <1>8, <2>1
    <3> QED BY <3>1, <3>2, <3>3
  <2>2. ASSUME NEW s \in 0..N, s + n <= N, \A i \in (s+1)..(s+n) : matches[i]
        PROVE  run[2] >= n
    <3>1. s \in Nat /\ IsRun(matches, s, n)
      BY <1>1, <2>2 DEF IsRun
    <3> QED BY <1>7, <1>8, <2>2, <3>1
  <2> QED BY <2>1, <2>2
<1> QED BY <1>8, <1>14, <1>15 DEF run

----------------------------------------------------------------------------
(* Reviewers: lines *)

LEMMA MinOfNats ==
  ASSUME NEW S \in SUBSET Nat, S # {}
  PROVE  Min(S) \in S /\ \A y \in S : Min(S) <= y
<1>1. \E x \in S : \A y \in S : x <= y
  BY LeastNat
<1> QED BY <1>1 DEF Min

LEMMA MaxOfSome ==
  ASSUME NEW S \in SUBSET Nat, S # {}, NEW n \in Nat, \A x \in S : x <= n
  PROVE  Max(S) \in S /\ \A y \in S : Max(S) >= y
<1> DEFINE T == {n - x : x \in S}
<1>1. T \in SUBSET Nat /\ T # {}
  <2>1. \A x \in S : x \in Nat /\ x <= n
    OBVIOUS
  <2>2. \A x \in S : n - x \in Nat
    BY <2>1
  <2>3. PICK x : x \in S
    OBVIOUS
  <2> QED BY <2>2, <2>3
<1>2. PICK t \in T : \A y \in T : t <= y
  <2> HIDE DEF T
  <2> QED BY <1>1, LeastNat
<1>3. PICK x \in S : t = n - x
  BY <1>2
<1>4. ASSUME NEW y \in S PROVE x >= y
  <2>1. n - y \in T
    OBVIOUS
  <2>2. n - x <= n - y
    BY <1>2, <1>3, <2>1
  <2> QED BY <2>2
<1> QED BY <1>4 DEF Max

\* A stretch of text, from i to e, between two marks or the ends of the text.
Stretch(mark, text, i, e) ==
  /\ i \in 1..Len(text) /\ e \in i..Len(text)
  /\ i = 1 \/ text[i-1] = mark
  /\ \A k \in i..e : text[k] # mark
  /\ e + 1 > Len(text) \/ text[e + 1] = mark

LEMMA StretchFrom ==
  ASSUME NEW text \in Seq(Token), NEW mark, NEW i \in 1..Len(text), text[i] # mark,
         i = 1 \/ text[i-1] = mark
  PROVE  Stretch(mark, text, i, Max({j \in i..Len(text) : \A k \in i..j : text[k] # mark}))
<1> DEFINE E == {j \in i..Len(text) : \A k \in i..j : text[k] # mark}
           e == Max(E)
<1>1. Len(text) \in Nat /\ i \in Nat
  OBVIOUS
<1>2. i \in E
  <2>1. \A k \in i..i : k = i
    BY <1>1
  <2> QED BY <1>1, <2>1
<1>3. E \in SUBSET Nat /\ E # {} /\ \A x \in E : x <= Len(text)
  BY <1>1, <1>2
<1>4. e \in E /\ \A y \in E : e >= y
  <2> HIDE DEF E
  <2> QED BY <1>1, <1>3, MaxOfSome
<1> HIDE DEF e
<1>5. e \in i..Len(text) /\ \A k \in i..e : text[k] # mark
  BY <1>4
<1>6. ASSUME e + 1 <= Len(text), text[e + 1] # mark PROVE FALSE
  <2>1. e + 1 \in i..Len(text) /\ \A k \in i..(e + 1) : k \in i..e \/ k = e + 1
    BY <1>1, <1>5, <1>6
  <2>2. e + 1 \in E
    BY <1>5, <1>6, <2>1
  <2> HIDE DEF E
  <2> QED BY <1>1, <1>4, <1>5, <2>2
<1>7. e + 1 > Len(text) \/ text[e + 1] = mark
  <2>1. e \in Nat
    BY <1>1, <1>5
  <2> QED BY <1>1, <1>6, <2>1
<1> QED BY <1>5, <1>7 DEF Stretch, e

LEMMA ParagraphsAreLines ==
  ASSUME NEW text \in Seq(Token)
  PROVE  /\ DOMAIN Paragraphs(text) =
              {i \in DOMAIN text : text[i] # Break /\ (i = 1 \/ text[i-1] = Break)}
         /\ \A i \in DOMAIN Paragraphs(text) :
              \E e : Stretch(Break, text, i, e) /\ Paragraphs(text)[i] = SubSeq(text, i, e)
<1> DEFINE starts == {i \in DOMAIN text : text[i] # Break /\ (i = 1 \/ text[i-1] = Break)}
           end(i) == Max({j \in i..Len(text) : \A k \in i..j : text[k] # Break})
<1>1. DOMAIN text = 1..Len(text)
  OBVIOUS
<1>2. Paragraphs(text) = [i \in starts |-> SubSeq(text, i, end(i))]
  BY DEF Paragraphs
<1>3. ASSUME NEW i \in starts PROVE Stretch(Break, text, i, end(i))
  BY <1>1, StretchFrom
<1> HIDE DEF end
<1> QED BY <1>2, <1>3

\* From where a stretch starts there is one.
LEMMA StretchEndsOnce ==
  ASSUME NEW text \in Seq(Token), NEW mark, NEW i, NEW d, NEW e,
         Stretch(mark, text, i, d), Stretch(mark, text, i, e)
  PROVE  d = e
<1>1. /\ i \in 1..Len(text) /\ d \in i..Len(text) /\ e \in i..Len(text) /\ Len(text) \in Nat
      /\ \A k \in i..d : text[k] # mark
      /\ \A k \in i..e : text[k] # mark
      /\ d + 1 > Len(text) \/ text[d + 1] = mark
      /\ e + 1 > Len(text) \/ text[e + 1] = mark
  BY DEF Stretch
<1>2. CASE d < e
  <2>1. d + 1 \in i..e /\ ~(d + 1 > Len(text))
    BY <1>1, <1>2
  <2> QED BY <1>1, <2>1
<1>3. CASE e < d
  <2>1. e + 1 \in i..d /\ ~(e + 1 > Len(text))
    BY <1>1, <1>3
  <2> QED BY <1>1, <2>1
<1> QED BY <1>1, <1>2, <1>3

\* A stretch between two line ends is a line.
LEMMA StretchIsLine ==
  ASSUME NEW text \in Seq(Token), NEW i \in Nat, NEW e \in Nat
  PROVE  Stretch(Break, text, i, e) <=> /\ i \in DOMAIN text /\ e \in DOMAIN text
                                        /\ LineAt(text, i, e)
<1>1. Len(text) \in Nat /\ DOMAIN text = 1..Len(text)
  OBVIOUS
<1>2. e <= Len(text) => (e + 1 > Len(text) <=> e = Len(text))
  <2>1. \A l \in Nat : e <= l => (e + 1 > l <=> e = l)
    OBVIOUS
  <2> QED BY <1>1, <2>1
<1>3. ASSUME Stretch(Break, text, i, e)
      PROVE  i \in DOMAIN text /\ e \in DOMAIN text /\ LineAt(text, i, e)
  <2>1. i \in 1..Len(text) /\ e \in i..Len(text) /\ i <= e /\ e \in 1..Len(text) /\ e <= Len(text)
    BY <1>1, <1>3 DEF Stretch
  <2> QED BY <1>1, <1>2, <1>3, <2>1 DEF Stretch, LineAt
<1>4. ASSUME i \in DOMAIN text, e \in DOMAIN text, LineAt(text, i, e)
      PROVE  Stretch(Break, text, i, e)
  <2>1. i \in 1..Len(text) /\ e \in 1..Len(text) /\ i <= e
    BY <1>1, <1>4 DEF LineAt
  <2>2. e \in i..Len(text) /\ e <= Len(text)
    BY <1>1, <2>1
  <2> QED BY <1>1, <1>2, <1>4, <2>1, <2>2 DEF Stretch, LineAt
<1> QED BY <1>3, <1>4

\* The paragraphs are the lines that are not blank, each where it starts.
LEMMA LinesOfText ==
  ASSUME NEW text \in Seq(Token)
  PROVE  /\ {Paragraphs(text)[i] : i \in DOMAIN Paragraphs(text)} = Lines(text)
         /\ \A p : {i \in DOMAIN Paragraphs(text) : Paragraphs(text)[i] = p} = LinesThatSay(p, text)
<1>1. Len(text) \in Nat /\ DOMAIN text = 1..Len(text)
  OBVIOUS
<1>2. ASSUME NEW i \in DOMAIN Paragraphs(text)
      PROVE  /\ i \in DOMAIN text
             /\ \E e \in DOMAIN text : LineAt(text, i, e) /\ Paragraphs(text)[i] = SubSeq(text, i, e)
  <2>1. PICK e : Stretch(Break, text, i, e) /\ Paragraphs(text)[i] = SubSeq(text, i, e)
    BY <1>2, ParagraphsAreLines
  <2>2. i \in Nat /\ e \in Nat
    BY <1>1, <2>1 DEF Stretch
  <2> QED BY <2>1, <2>2, StretchIsLine
<1>3. ASSUME NEW i \in DOMAIN text, NEW e \in DOMAIN text, LineAt(text, i, e)
      PROVE  i \in DOMAIN Paragraphs(text) /\ Paragraphs(text)[i] = SubSeq(text, i, e)
  <2>1. i \in Nat /\ e \in Nat /\ i \in i..e
    BY <1>1, <1>3 DEF LineAt
  <2>2. Stretch(Break, text, i, e)
    BY <1>3, <2>1, StretchIsLine
  <2>3. i \in DOMAIN Paragraphs(text)
    BY <1>3, <2>1, ParagraphsAreLines DEF LineAt
  <2>4. PICK c : Stretch(Break, text, i, c) /\ Paragraphs(text)[i] = SubSeq(text, i, c)
    BY <2>3, ParagraphsAreLines
  <2>5. c = e
    BY <2>2, <2>4, StretchEndsOnce
  <2> QED BY <2>3, <2>4, <2>5
<1>4. ASSUME NEW p
      PROVE  {i \in DOMAIN Paragraphs(text) : Paragraphs(text)[i] = p} = LinesThatSay(p, text)
  <2>1. \A i : i \in DOMAIN Paragraphs(text) /\ Paragraphs(text)[i] = p => i \in LinesThatSay(p, text)
    BY <1>2 DEF LinesThatSay
  <2>2. \A i \in LinesThatSay(p, text) : i \in DOMAIN Paragraphs(text) /\ Paragraphs(text)[i] = p
    BY <1>3 DEF LinesThatSay
  <2> QED BY <2>1, <2>2
<1> DEFINE D == DOMAIN text
           at == {d \in D \X D : LineAt(text, d[1], d[2])}
<1>5. ASSUME NEW i \in DOMAIN Paragraphs(text) PROVE Paragraphs(text)[i] \in Lines(text)
  <2>1. PICK e \in D : LineAt(text, i, e) /\ Paragraphs(text)[i] = SubSeq(text, i, e)
    BY <1>2
  <2>2. PICK d \in D \X D : d = <<i, e>>
    <3>1. i \in D
      BY <1>2
    <3> HIDE DEF D
    <3> QED BY <2>1, <3>1
  <2>3. d[1] = i /\ d[2] = e
    BY <2>2
  <2>4. d \in at
    BY <2>1, <2>2, <2>3
  <2>5. Lines(text) = {SubSeq(text, c[1], c[2]) : c \in at}
    BY Zenon DEF Lines
  <2> HIDE DEF at
  <2> QED BY <2>1, <2>3, <2>4, <2>5
<1>6. ASSUME NEW q \in Lines(text) PROVE \E i \in DOMAIN Paragraphs(text) : q = Paragraphs(text)[i]
  <2>1. PICK d \in at : q = SubSeq(text, d[1], d[2])
    <3>1. Lines(text) = {SubSeq(text, c[1], c[2]) : c \in at}
      BY Zenon DEF Lines
    <3> HIDE DEF at
    <3> QED BY <1>6, <3>1
  <2>2. d \in D \X D /\ LineAt(text, d[1], d[2])
    OBVIOUS
  <2>3. d[1] \in D /\ d[2] \in D
    <3> HIDE DEF D
    <3> QED BY <2>2
  <2> QED BY <1>3, <2>1, <2>2, <2>3
<1> QED BY <1>4, <1>5, <1>6

----------------------------------------------------------------------------
(* Reviewers: what is found *)

LEMMA ReviewOfKind ==
  ASSUME NEW r, NEW text
  PROVE  /\ r.kind = "repeated_phrase" => ReviewOf(r, text) = RepeatedPhrase(r, text)
         /\ r.kind = "cross_block" => ReviewOf(r, text) = CrossBlockRepetition(r, text)
         /\ r.kind = "continuity" => ReviewOf(r, text) = Continuity(r, text)
         /\ r.kind = "structural" => ReviewOf(r, text) = Structural(r, text)
         /\ r.kind = "rhythm" => ReviewOf(r, text) = Rhythm(r, text)
BY DEF ReviewOf

LEMMA FindingFields ==
  ASSUME NEW b, NEW kind, NEW evidence
  PROVE  /\ Finding(b, kind, evidence).target = b
         /\ Finding(b, kind, evidence).kind = kind
         /\ Finding(b, kind, evidence).evidence = evidence
BY DEF Finding

\* The state a rule speaks of is established somewhere, and contradicted only after.
Contradicted(r, text) ==
  \E i \in DOMAIN text :
    /\ \E m \in r.established : OccursAt(m, text, i)
    /\ \A m \in r.conflicting : \A j \in 1..i : ~OccursAt(m, text, j)
    /\ \E m \in r.conflicting : Occurrences(m, text) # {}

Reported(found, kind, b) == \E f \in found : f.kind = kind /\ f.target = b

LEMMA ContinuityIsFound ==
  ASSUME NEW r, r.established \cup r.conflicting \subseteq Phrase, NEW text \in Seq(Seq(Token)),
         NEW b \in DOMAIN text
  PROVE  Reported(Continuity(r, text), "continuity", b) <=> Contradicted(r, text[b])
<1> DEFINE established == FirstOf(r.established, text[b])
           conflicts == FirstOf(r.conflicting, text[b])
<1>1. Reported(Continuity(r, text), "continuity", b)
        <=> established # {} /\ conflicts # {} /\ Min(established) < Min(conflicts)
  <2> DEFINE amiss(c) == LET e == FirstOf(r.established, text[c])
                             d == FirstOf(r.conflicting, text[c])
                         IN e # {} /\ d # {} /\ Min(e) < Min(d)
  <2>1. Continuity(r, text) = {Finding(c, "continuity", r.rule) : c \in {c \in DOMAIN text : amiss(c)}}
    BY DEF Continuity
  <2>2. amiss(b) <=> established # {} /\ conflicts # {} /\ Min(established) < Min(conflicts)
    OBVIOUS
  <2> HIDE DEF amiss
  <2>3. Reported(Continuity(r, text), "continuity", b) <=> amiss(b)
    <3>1. ASSUME NEW f \in Continuity(r, text), f.target = b PROVE amiss(b)
      <4>1. PICK c \in DOMAIN text : amiss(c) /\ f = Finding(c, "continuity", r.rule)
        BY <2>1, <3>1
      <4>2. f.target = c
        BY <4>1, FindingFields
      <4> QED BY <3>1, <4>1, <4>2
    <3>2. ASSUME amiss(b) PROVE \E f \in Continuity(r, text) : f.kind = "continuity" /\ f.target = b
      <4>1. Finding(b, "continuity", r.rule) \in Continuity(r, text)
        BY <2>1, <3>2
      <4>2. Finding(b, "continuity", r.rule).target = b /\ Finding(b, "continuity", r.rule).kind = "continuity"
        BY FindingFields
      <4> QED BY <4>1, <4>2
    <3> QED BY <3>1, <3>2 DEF Reported
  <2> QED BY <2>2, <2>3
<1>2. text[b] \in Seq(Token) /\ Len(text[b]) \in Nat /\ DOMAIN text[b] = 1..Len(text[b])
  OBVIOUS
<1>3. /\ \A i : i \in established <=> i \in DOMAIN text[b] /\ \E m \in r.established : OccursAt(m, text[b], i)
      /\ \A i : i \in conflicts <=> i \in DOMAIN text[b] /\ \E m \in r.conflicting : OccursAt(m, text[b], i)
      /\ conflicts # {} <=> \E m \in r.conflicting : Occurrences(m, text[b]) # {}
  BY DEF FirstOf, Occurrences
<1> HIDE DEF established, conflicts
<1>4. established \in SUBSET Nat /\ conflicts \in SUBSET Nat
  BY <1>2, <1>3
<1>5. ASSUME established # {}, conflicts # {}, Min(established) < Min(conflicts)
      PROVE  \E i \in DOMAIN text[b] :
               /\ \E m \in r.established : OccursAt(m, text[b], i)
               /\ \A m \in r.conflicting : \A j \in 1..i : ~OccursAt(m, text[b], j)
               /\ \E m \in r.conflicting : Occurrences(m, text[b]) # {}
  <2> DEFINE i == Min(established)
  <2>1. i \in established /\ Min(conflicts) \in Nat /\ \A y \in conflicts : Min(conflicts) <= y
    BY <1>4, <1>5, MinOfNats
  <2>2. i < Min(conflicts)
    BY <1>5
  <2> HIDE DEF i
  <2>3. i \in 1..Len(text[b])
    BY <1>2, <1>3, <2>1
  <2>4. ASSUME NEW m \in r.conflicting, NEW j \in 1..i, OccursAt(m, text[b], j) PROVE FALSE
    <3>1. j \in conflicts
      <4>1. j \in DOMAIN text[b]
        BY <1>2, <2>3
      <4> QED BY <1>3, <2>4, <4>1
    <3>2. j \in Nat /\ j <= i /\ i \in Nat
      BY <1>2, <2>3
    <3>3. Min(conflicts) <= j
      BY <2>1, <3>1
    <3> HIDE DEF established, conflicts
    <3> QED BY <2>1, <2>2, <3>2, <3>3
  <2> QED BY <1>2, <1>3, <1>5, <2>1, <2>3, <2>4
<1>6. ASSUME NEW i \in DOMAIN text[b],
             \E m \in r.established : OccursAt(m, text[b], i),
             \A m \in r.conflicting : \A j \in 1..i : ~OccursAt(m, text[b], j),
             \E m \in r.conflicting : Occurrences(m, text[b]) # {}
      PROVE  established # {} /\ conflicts # {} /\ Min(established) < Min(conflicts)
  <2>1. i \in established /\ conflicts # {}
    BY <1>3, <1>6
  <2>2. Min(established) \in Nat /\ Min(established) <= i /\ Min(conflicts) \in conflicts
    BY <1>4, <2>1, MinOfNats
  <2>3. ~(Min(conflicts) <= i)
    <3> DEFINE j == Min(conflicts)
    <3>1. j \in 1..Len(text[b]) /\ \E m \in r.conflicting : OccursAt(m, text[b], j)
      BY <1>2, <1>3, <2>2
    <3> HIDE DEF j
    <3>2. j \notin 1..i
      BY <1>6, <3>1
    <3> QED BY <1>2, <3>1, <3>2 DEF j
  <2>4. i \in Nat
    BY <1>2
  <2>5. Min(conflicts) \in Nat
    BY <1>4, <2>2
  <2>6. Min(established) < Min(conflicts)
    BY <2>2, <2>3, <2>4, <2>5
  <2> QED BY <2>1, <2>6
<1> QED BY <1>1, <1>5, <1>6 DEF Contradicted

\* The words of a stretch are the tokens that are not line ends, in their order.
LEMMA WordsAreRead ==
  ASSUME NEW s \in Seq(Token)
  PROVE  /\ Words(s) \in Seq(Token)
         /\ Len(Words(s)) = Cardinality({k \in 1..Len(s) : s[k] # Break})
         /\ \A k \in 1..Len(s) : s[k] # Break =>
              Words(s)[Cardinality({m \in 1..k : s[m] # Break})] = s[k]
<1> DEFINE ss == [k \in 1..Len(s) |-> IF s[k] = Break THEN <<>> ELSE <<s[k]>>]
           N == Len(s)
           W(n) == {k \in 1..n : s[k] # Break}
           c(n) == Cardinality(W(n))
<1>1. N \in Nat /\ DOMAIN s = 1..N /\ \A k \in 1..N : s[k] \in Token
  OBVIOUS
<1>2. ss \in Seq(Seq(Token)) /\ Len(ss) = N /\ Words(s) = FlattenSeq(ss)
  <2>1. \A k \in 1..N : ss[k] \in Seq(Token)
    BY <1>1
  <2>2. Words(s) = FlattenSeq(ss)
    BY <1>1 DEF Words
  <2> HIDE DEF N
  <2> QED BY <1>1, <2>1, <2>2
<1>3. \A n \in 0..N : IsFiniteSet(W(n)) /\ c(n) \in Nat /\ \A k \in 0..n : c(k) <= c(n)
  <2> SUFFICES ASSUME NEW n \in 0..N
               PROVE  IsFiniteSet(W(n)) /\ c(n) \in Nat /\ \A k \in 0..n : c(k) <= c(n)
    OBVIOUS
  <2>1. IsFiniteSet(1..n) /\ W(n) \in SUBSET (1..n)
    BY <1>1, FS_Interval
  <2>2. IsFiniteSet(W(n))
    BY <2>1, FS_Subset
  <2>3. \A k \in 0..n : W(k) \in SUBSET W(n)
    BY <1>1
  <2> HIDE DEF W
  <2> QED BY <2>2, <2>3, FS_Subset, FS_CardinalityType
<1>4. \A n \in 0..(N-1) : c(n + 1) = IF s[n + 1] = Break THEN c(n) ELSE c(n) + 1
  <2> SUFFICES ASSUME NEW n \in 0..(N-1)
               PROVE  c(n + 1) = IF s[n + 1] = Break THEN c(n) ELSE c(n) + 1
    OBVIOUS
  <2>1. W(n + 1) = (IF s[n + 1] = Break THEN W(n) ELSE W(n) \cup {n + 1}) /\ n + 1 \notin W(n)
    BY <1>1
  <2>2. n \in 0..N
    BY <1>1
  <2>3. IsFiniteSet(W(n))
    BY <1>3, <2>2
  <2> HIDE DEF W
  <2> QED BY <2>1, <2>3, FS_AddElement
<1>5. c(0) = 0
  <2>1. W(0) = {}
    OBVIOUS
  <2> QED BY <2>1, FS_EmptySet
<1>6. CASE s = <<>>
  <2>1. N = 0 /\ ss = <<>>
    BY <1>2, <1>6
  <2>2. FlattenSeq(<<>>) = <<>>
    BY DEF FlattenSeq
  <2>3. <<>> \in Seq(Token) /\ Len(<<>>) = 0
    OBVIOUS
  <2>4. Words(s) = <<>> /\ Cardinality(W(0)) = 0
    BY <1>2, <1>5, <2>1, <2>2
  <2>5. \A k \in 1..Len(s) : FALSE
    BY <2>1
  <2> QED BY <2>1, <2>3, <2>4, <2>5
<1>7. CASE s # <<>>
  <2>1. N >= 1 /\ ss # <<>>
    BY <1>1, <1>2, <1>7
  <2>2. PICK f : Flattens(f, ss, N) /\ FlattenSeq(ss) = f[N]
    BY <1>2, <2>1, FlattenSeqIsLast
  <2> HIDE DEF ss, W, c
  <2> DEFINE p(n) == IF n = 0 THEN <<>> ELSE f[n]
             Good(n) == /\ p(n) \in Seq(Token) /\ Len(p(n)) = c(n)
                        /\ \A k \in 1..n : s[k] # Break => p(n)[c(k)] = s[k]
             T == {n \in Nat : n <= N => Good(n)}
  <2>3. \A n \in 0..(N-1) : p(n + 1) = IF n = 0 THEN ss[1] ELSE p(n) \o ss[n + 1]
    <3>1. ASSUME NEW n \in 0..(N-1)
          PROVE  /\ n + 1 \in 1..N /\ n + 1 # 0 /\ (n + 1) - 1 = n /\ (n + 1 = 1 <=> n = 0)
                 /\ f[n + 1] = IF n + 1 = 1 THEN ss[n + 1] ELSE f[(n + 1) - 1] \o ss[n + 1]
      <4>1. n + 1 \in 1..N /\ n + 1 # 0 /\ (n + 1) - 1 = n /\ (n + 1 = 1 <=> n = 0)
        BY <1>1
      <4>2. \A i \in 1..N : f[i] = IF i = 1 THEN ss[i] ELSE f[i-1] \o ss[i]
        BY <2>2 DEF Flattens
      <4> QED BY <4>1, <4>2
    <3> HIDE DEF N
    <3> QED BY <3>1
  <2>4. 0 \in T
    BY <1>5
  <2>5. ASSUME NEW n \in T PROVE n + 1 \in T
    <3> SUFFICES ASSUME n + 1 <= N PROVE Good(n + 1)
      OBVIOUS
    <3>1. n \in 0..(N-1) /\ n \in 0..N /\ n + 1 \in 1..N /\ Good(n)
      BY <1>1
    <3> DEFINE q == p(n)
               x == ss[n + 1]
    <3>2. q \in Seq(Token) /\ Len(q) = c(n) /\ \A k \in 1..n : s[k] # Break => q[c(k)] = s[k]
      BY <3>1
    <3>3. x = IF s[n + 1] = Break THEN <<>> ELSE <<s[n + 1]>>
      BY <3>1 DEF ss
    <3>4. x \in Seq(Token) /\ c(n + 1) = c(n) + Len(x) /\ c(n) \in Nat
      BY <1>1, <1>3, <1>4, <3>1, <3>3
    <3>5. p(n + 1) = q \o x
      <4>1. CASE n = 0
        <5>1. q = <<>> /\ p(n + 1) = x
          BY <2>3, <3>1, <4>1
        <5>2. \A y \in Seq(Token) : <<>> \o y = y
          OBVIOUS
        <5> HIDE DEF q, x, p
        <5> QED BY <3>4, <5>1, <5>2
      <4>2. CASE n # 0
        BY <2>3, <3>1, <4>2
      <4> QED BY <4>1, <4>2
    <3> HIDE DEF q, x, p
    <3>6. /\ p(n + 1) \in Seq(Token) /\ Len(p(n + 1)) = c(n + 1)
          /\ \A k \in 1..Len(q) : p(n + 1)[k] = q[k]
          /\ s[n + 1] # Break => p(n + 1)[c(n) + 1] = s[n + 1]
      <4>1. /\ q \o x \in Seq(Token) /\ Len(q \o x) = Len(q) + Len(x)
            /\ \A k \in 1..Len(q) : (q \o x)[k] = q[k]
            /\ \A k \in 1..Len(x) : (q \o x)[Len(q) + k] = x[k]
        BY <3>2, <3>4
      <4>2. ASSUME s[n + 1] # Break PROVE (q \o x)[c(n) + 1] = s[n + 1]
        <5>1. x = <<s[n + 1]>>
          BY <3>3, <4>2
        <5>2. Len(x) = 1 /\ x[1] = s[n + 1]
          BY <5>1
        <5> QED BY <3>2, <4>1, <5>2
      <4> QED BY <3>2, <3>4, <3>5, <4>1, <4>2
    <3>7. ASSUME NEW k \in 1..(n + 1), s[k] # Break PROVE p(n + 1)[c(k)] = s[k]
      <4>1. CASE k = n + 1
        BY <1>4, <3>1, <3>6, <3>7, <4>1
      <4>2. CASE k \in 1..n
        <5>1. k \in 0..n /\ k - 1 \in 0..(N-1) /\ k - 1 \in 0..N /\ (k - 1) + 1 = k
          BY <1>1, <3>1, <4>2
        <5>2. c(k) = c(k - 1) + 1 /\ c(k - 1) \in Nat /\ c(k) <= c(n)
          BY <1>3, <1>4, <3>1, <3>7, <5>1
        <5>3. c(k) \in 1..Len(q)
          BY <3>2, <3>4, <5>2
        <5> QED BY <3>2, <3>6, <3>7, <4>2, <5>3
      <4>3. n \in Nat
        BY <3>1
      <4> QED BY <4>1, <4>2, <4>3
    <3> QED BY <3>6, <3>7
  <2>6. T = Nat
    <3> HIDE DEF Good
    <3>1. T \in SUBSET Nat
      OBVIOUS
    <3> HIDE DEF T
    <3> QED BY <2>4, <2>5, <3>1, InductionOnNat
  <2>7. Good(N)
    <3> HIDE DEF Good
    <3> QED BY <1>1, <2>6
  <2>8. p(N) = Words(s)
    BY <1>1, <1>2, <2>1, <2>2
  <2> HIDE DEF p
  <2> QED BY <2>7, <2>8 DEF W, c
<1> QED BY <1>6, <1>7

\* A set of numbers has as many when all are moved.
LEMMA MovedSet ==
  ASSUME NEW A \in SUBSET Int, NEW d \in Int, IsFiniteSet(A), NEW B, B = {a + d : a \in A}
  PROVE  Cardinality(B) = Cardinality(A)
<1> DEFINE f == [a \in A |-> a + d]
<1>1. f \in Bijection(A, B)
  <2>1. f \in [A -> B] /\ \A b \in B : \E a \in A : f[a] = b
    OBVIOUS
  <2>2. \A x, y \in A : f[x] = f[y] => x = y
    OBVIOUS
  <2> HIDE DEF f
  <2> QED BY <2>1, <2>2 DEF Bijection, Injection, Surjection, IsInjective
<1> HIDE DEF f
<1>2. ExistsBijection(A, B)
  BY <1>1 DEF ExistsBijection
<1> QED BY <1>2, FS_Bijection

\* The words of a stretch, by their places in the text.
LEMMA WordsOfStretch ==
  ASSUME NEW text \in Seq(Token), NEW s, NEW e, Stretch(Stop, text, s, e)
  PROVE  LET read == Words(SubSeq(text, s, e))
             W == {i \in s..e : text[i] # Break}
         IN /\ Len(read) = Cardinality(W)
            /\ \A i \in W : read[Cardinality({j \in W : j <= i})] = text[i]
<1> DEFINE q == SubSeq(text, s, e)
           W == {i \in s..e : text[i] # Break}
           V(n) == {k \in 1..n : q[k] # Break}
           n == e - s + 1
<1>1. s \in 1..Len(text) /\ e \in s..Len(text) /\ Len(text) \in Nat
  BY DEF Stretch
<1>2. q \in Seq(Token) /\ Len(q) = n /\ \A k \in 1..n : q[k] = text[s + k - 1]
  BY <1>1
<1> HIDE DEF q
<1>3. ASSUME NEW i \in s..e
      PROVE  /\ i - s + 1 \in 1..n /\ q[i - s + 1] = text[i]
             /\ Cardinality({j \in W : j <= i}) = Cardinality(V(i - s + 1))
  <2>1. i - s + 1 \in 1..n /\ s + (i - s + 1) - 1 = i
    BY <1>1, <1>3
  <2> DEFINE A == V(i - s + 1)
             B == {j \in W : j <= i}
  <2>2. A \in SUBSET Int /\ A \in SUBSET (1..n)
    BY <1>1, <2>1
  <2>3. B = {a + (s - 1) : a \in A}
    <3>1. ASSUME NEW a \in A PROVE a + (s - 1) \in B
      <4>1. a \in 1..(i - s + 1) /\ q[a] # Break /\ a \in 1..n
        BY <2>2, <3>1
      <4>2. s + a - 1 = a + (s - 1) /\ a + (s - 1) \in s..e /\ a + (s - 1) <= i
        BY <1>1, <2>1, <4>1
      <4> QED BY <1>2, <4>1, <4>2
    <3>2. ASSUME NEW j \in B PROVE \E a \in A : j = a + (s - 1)
      <4>1. j \in s..e /\ text[j] # Break /\ j <= i
        BY <3>2
      <4>2. j - s + 1 \in 1..n /\ j - s + 1 \in 1..(i - s + 1) /\ s + (j - s + 1) - 1 = j
            /\ j = (j - s + 1) + (s - 1)
        BY <1>1, <1>3, <4>1
      <4>3. j - s + 1 \in A
        BY <1>2, <4>1, <4>2
      <4> QED BY <4>2, <4>3
    <3> HIDE DEF A, B
    <3> QED BY <3>1, <3>2
  <2>4. IsFiniteSet(A)
    <3>1. IsFiniteSet(1..n)
      BY <1>1, FS_Interval
    <3> HIDE DEF A
    <3> QED BY <2>2, <3>1, FS_Subset
  <2>5. Cardinality(B) = Cardinality(A)
    <3>1. s - 1 \in Int
      BY <1>1
    <3> HIDE DEF A, B
    <3> QED BY <2>2, <2>3, <2>4, <3>1, MovedSet
  <2> QED BY <1>2, <2>1, <2>5
<1>4. Len(Words(q)) = Cardinality(V(n))
  BY <1>2, WordsAreRead
<1>5. \A k \in 1..n : q[k] # Break => Words(q)[Cardinality(V(k))] = q[k]
  BY <1>2, WordsAreRead
<1>6. Cardinality(W) = Cardinality(V(n))
  <2>1. e \in s..e /\ e - s + 1 = n
    BY <1>1
  <2>2. {j \in W : j <= e} = W
    BY <1>1
  <2> HIDE DEF W, V
  <2> QED BY <1>3, <2>1, <2>2
<1>7. ASSUME NEW i \in W PROVE Words(q)[Cardinality({j \in W : j <= i})] = text[i]
  <2>1. i \in s..e /\ text[i] # Break
    OBVIOUS
  <2> HIDE DEF W, V, n
  <2> QED BY <1>3, <1>5, <2>1
<1> QED BY <1>4, <1>6, <1>7 DEF q

\* The parts of Sentences.
SentenceStarts(text) == {i \in DOMAIN text : text[i] # Stop /\ (i = 1 \/ text[i-1] = Stop)}
SentenceEnd(text, i) == Max({j \in i..Len(text) : \A k \in i..j : text[k] # Stop})
KeptStarts(text) ==
  {i \in SentenceStarts(text) :
     (\A k \in i..SentenceEnd(text, i) : text[k] = Break) => i # 1 /\ SentenceEnd(text, i) # Len(text)}
Place(K, n) == CHOOSE i \in K : Cardinality({j \in K : j <= i}) = n

\* The places of a set of numbers, by how many are not above them, list it in order.
LEMMA PlacesAscend ==
  ASSUME NEW K \in SUBSET Nat, IsFiniteSet(K)
  PROVE  /\ Cardinality(K) \in Nat
         /\ \A n \in 1..Cardinality(K) : Place(K, n) \in K
         /\ \A m, n \in 1..Cardinality(K) : m < n => Place(K, m) < Place(K, n)
         /\ \A i \in K : \E n \in 1..Cardinality(K) : Place(K, n) = i
<1> DEFINE R == {e \in K \X K : e[1] < e[2]}
           q == SortedBy(K, R)
           N == Cardinality(K)
           c(i) == Cardinality({j \in K : j <= i})
<1>1. \A x, y \in K : <<x, y>> \in R <=> x < y
  OBVIOUS
<1> HIDE DEF R
<1>2. Orders(R, K)
  <2>1. \A x \in K : ~(x < x)
    OBVIOUS
  <2>2. \A x, y, z \in K : x < y /\ y < z => x < z
    OBVIOUS
  <2>3. \A x, y \in K : x = y \/ x < y \/ y < x
    OBVIOUS
  <2> QED BY <1>1, <2>1, <2>2, <2>3 DEF Orders
<1>3. /\ N \in Nat /\ q \in Seq(K) /\ Len(q) = N
      /\ \A x \in K : \E i \in 1..Len(q) : q[i] = x
      /\ \A i, j \in 1..Len(q) : i < j => <<q[i], q[j]>> \in R
      /\ \A i \in 1..Len(q) : Rank(K, R, q[i]) = i - 1
  BY <1>2, SortedBySorts
<1> HIDE DEF q
<1>4. \A i \in K : c(i) = Rank(K, R, i) + 1 /\ Rank(K, R, i) \in Nat
  <2> SUFFICES ASSUME NEW i \in K PROVE c(i) = Rank(K, R, i) + 1 /\ Rank(K, R, i) \in Nat
    OBVIOUS
  <2> DEFINE A == {y \in K : <<y, i>> \in R}
             B == {j \in K : j <= i}
  <2>1. i \notin A
    BY <1>1
  <2>2. B = A \cup {i}
    <3>1. \A j \in K : j <= i <=> j < i \/ j = i
      OBVIOUS
    <3> QED BY <1>1, <3>1
  <2>3. A \in SUBSET K
    OBVIOUS
  <2>4. Rank(K, R, i) = Cardinality(A)
    BY DEF Rank
  <2> HIDE DEF A, B
  <2>5. IsFiniteSet(A)
    BY <2>3, FS_Subset
  <2>6. Cardinality(B) = Cardinality(A) + 1 /\ Cardinality(A) \in Nat
    BY <2>1, <2>2, <2>5, FS_AddElement, FS_CardinalityType
  <2> QED BY <2>4, <2>6 DEF B
<1>8. \A n \in 1..N : q[n] \in K /\ c(q[n]) = n
  <2> SUFFICES ASSUME NEW n \in 1..N PROVE q[n] \in K /\ c(q[n]) = n
    OBVIOUS
  <2> HIDE DEF c
  <2>1. n \in 1..Len(q) /\ n - 1 + 1 = n
    BY <1>3
  <2>2. q[n] \in K
    BY <1>3, <2>1
  <2>3. Rank(K, R, q[n]) = n - 1
    BY <1>3, <2>1
  <2>4. c(q[n]) = Rank(K, R, q[n]) + 1
    BY <1>4, <2>2
  <2> QED BY <2>1, <2>2, <2>3, <2>4
<1>5. ASSUME NEW n \in 1..N PROVE Place(K, n) = q[n]
  <2>1. q[n] \in K /\ c(q[n]) = n
    BY <1>8
  <2> DEFINE P(i) == Cardinality({j \in K : j <= i}) = n
  <2>2. \E i \in K : P(i)
    BY <2>1
  <2>3. Place(K, n) \in K /\ P(Place(K, n))
    <3> DEFINE x == CHOOSE i \in K : P(i)
    <3>1. x \in K /\ P(x)
      <4> HIDE DEF P
      <4> QED BY <2>2
    <3>2. Place(K, n) = x
      BY DEF Place
    <3> HIDE DEF x
    <3> QED BY <3>1, <3>2
  <2>4. PICK m \in 1..N : q[m] = Place(K, n)
    BY <1>3, <2>3
  <2>5. c(q[m]) = m
    BY <1>8
  <2>6. c(q[m]) = n
    BY <2>3, <2>4
  <2> HIDE DEF c
  <2> QED BY <2>4, <2>5, <2>6
<1>6. \A m, n \in 1..N : m < n => q[m] < q[n] /\ q[m] \in K
  <2>1. \A m \in 1..N : q[m] \in K
    BY <1>3
  <2> QED BY <1>1, <1>3, <2>1
<1> HIDE DEF N
<1> QED BY <1>3, <1>5, <1>6 DEF N

\* A sentence is a stretch between two stops, and all of it has its number, which is
\* below those of the sentences after it.
LEMMA NumbersGrow ==
  ASSUME NEW text \in Seq(Token)
  PROVE  /\ \A i \in DOMAIN text : SentenceOf(text, i) \in Nat
         /\ \A s, e : Stretch(Stop, text, s, e) =>
              /\ \A i \in s..e : SentenceOf(text, i) = SentenceOf(text, s)
              /\ \A i \in 1..(s - 1) : SentenceOf(text, i) < SentenceOf(text, s)
<1> DEFINE S(i) == {j \in 2..i : text[j] # Stop /\ text[j-1] = Stop}
<1>1. \A i : SentenceOf(text, i) = Cardinality(S(i))
  BY DEF SentenceOf
<1>2. Len(text) \in Nat /\ DOMAIN text = 1..Len(text)
  OBVIOUS
<1>3. ASSUME NEW i \in DOMAIN text PROVE IsFiniteSet(S(i)) /\ Cardinality(S(i)) \in Nat
  <2>1. S(i) \in SUBSET (2..i) /\ IsFiniteSet(2..i)
    BY <1>2, FS_Interval
  <2> HIDE DEF S
  <2> QED BY <2>1, FS_Subset, FS_CardinalityType
<1>4. ASSUME NEW s, NEW e, Stretch(Stop, text, s, e), NEW i \in s..e
      PROVE  S(i) = S(s)
  <2>1. s \in 1..Len(text) /\ e \in s..Len(text) /\ \A k \in s..e : text[k] # Stop
    BY <1>4 DEF Stretch
  <2>2. ASSUME NEW j \in S(i) PROVE j \in 2..s
    <3>1. j \in 2..i /\ text[j-1] = Stop
      BY <2>2
    <3>2. j - 1 \notin s..e
      BY <2>1, <3>1
    <3> QED BY <1>2, <1>4, <2>1, <3>1, <3>2
  <2>3. \A j \in 2..s : j \in 2..i
    BY <1>2, <1>4, <2>1
  <2> QED BY <2>2, <2>3
<1>5. ASSUME NEW s, NEW e, Stretch(Stop, text, s, e), NEW i \in 1..(s - 1)
      PROVE  Cardinality(S(i)) < Cardinality(S(s))
  <2>1. s \in 1..Len(text) /\ text[s] # Stop /\ (s = 1 \/ text[s-1] = Stop)
    <3>1. s \in 1..Len(text) /\ e \in s..Len(text) /\ (s = 1 \/ text[s-1] = Stop)
          /\ \A k \in s..e : text[k] # Stop
      BY <1>5 DEF Stretch
    <3>2. s \in s..e
      BY <1>2, <3>1
    <3> QED BY <3>1, <3>2
  <2>2. s \in 2..s /\ s # 1 /\ i \in DOMAIN text /\ s \in DOMAIN text /\ i < s
    BY <1>2, <1>5, <2>1
  <2>3. s \in S(s)
    BY <2>1, <2>2
  <2>4. s \notin S(i)
    BY <1>2, <2>2
  <2>5. S(i) \in SUBSET S(s)
    BY <1>2, <2>2
  <2>6. IsFiniteSet(S(s)) /\ Cardinality(S(s)) \in Nat /\ Cardinality(S(i)) \in Nat
    BY <1>3, <2>2
  <2> HIDE DEF S
  <2>7. Cardinality(S(i)) <= Cardinality(S(s)) /\ (Cardinality(S(s)) = Cardinality(S(i)) => S(s) = S(i))
    BY <2>5, <2>6, FS_Subset
  <2> QED BY <2>3, <2>4, <2>6, <2>7
<1> HIDE DEF S
<1>6. \A i \in DOMAIN text : SentenceOf(text, i) \in Nat
  BY <1>1, <1>3
<1>7. ASSUME NEW s, NEW e, Stretch(Stop, text, s, e)
      PROVE  /\ \A i \in s..e : SentenceOf(text, i) = SentenceOf(text, s)
             /\ \A i \in 1..(s - 1) : SentenceOf(text, i) < SentenceOf(text, s)
  BY <1>1, <1>4, <1>5, <1>7
<1> QED BY <1>6, <1>7

\* What is not a stop stands in a sentence.
LEMMA SentenceAround ==
  ASSUME NEW text \in Seq(Token), NEW i \in DOMAIN text, text[i] # Stop
  PROVE  \E s, e : Stretch(Stop, text, s, e) /\ i \in s..e
<1> DEFINE A == {a \in 1..i : \A k \in a..i : text[k] # Stop}
<1>1. Len(text) \in Nat /\ i \in 1..Len(text)
  OBVIOUS
<1>2. A \subseteq Nat /\ i \in A
  <2>1. \A k \in i..i : k = i
    BY <1>1
  <2> QED BY <1>1, <2>1
<1>3. PICK s \in A : \A a \in A : s <= a
  <2> HIDE DEF A
  <2> QED BY <1>2, LeastNat
<1>4. s \in 1..i /\ \A k \in s..i : text[k] # Stop
  BY <1>3
<1>5. s = 1 \/ text[s-1] = Stop
  <2> SUFFICES ASSUME s # 1, text[s-1] # Stop PROVE FALSE
    OBVIOUS
  <2>1. s - 1 \in 1..i /\ \A k \in (s-1)..i : k = s - 1 \/ k \in s..i
    BY <1>1, <1>4
  <2>2. s - 1 \in A
    BY <1>4, <2>1
  <2> QED BY <1>1, <1>3, <1>4, <2>2
<1>6. s \in 1..Len(text) /\ text[s] # Stop
  <2>1. s \in 1..Len(text) /\ s \in s..i
    BY <1>1, <1>4
  <2> QED BY <1>4, <2>1
<1> DEFINE e == Max({j \in s..Len(text) : \A k \in s..j : text[k] # Stop})
<1>7. Stretch(Stop, text, s, e)
  BY <1>5, <1>6, StretchFrom
<1> HIDE DEF e
<1>8. e \in s..Len(text) /\ (e + 1 > Len(text) \/ text[e + 1] = Stop)
  BY <1>7 DEF Stretch
<1>9. i <= e
  <2> SUFFICES ASSUME ~(i <= e) PROVE FALSE
    OBVIOUS
  <2>1. e + 1 \in s..i /\ ~(e + 1 > Len(text))
    BY <1>1, <1>4, <1>8
  <2> QED BY <1>4, <1>8, <2>1
<1>10. i \in s..e
  BY <1>1, <1>4, <1>8, <1>9
<1> QED BY <1>7, <1>10

\* The words that have the number of a sentence are those in it.
LEMMA WordsOfNumber ==
  ASSUME NEW text \in Seq(Token), NEW s, NEW e, Stretch(Stop, text, s, e)
  PROVE  WordsOfSentence(text, SentenceOf(text, s)) = {i \in s..e : text[i] # Break}
<1>1. s \in 1..Len(text) /\ e \in s..Len(text) /\ Len(text) \in Nat /\ DOMAIN text = 1..Len(text)
      /\ \A k \in s..e : text[k] # Stop
  BY DEF Stretch
<1>2. \A i \in DOMAIN text : (text[i] \in Nat <=> text[i] # Stop /\ text[i] # Break)
  BY ReviewersAssumption DEF Token
<1>3. ASSUME NEW i \in DOMAIN text, text[i] \in Nat, SentenceOf(text, i) = SentenceOf(text, s)
      PROVE  i \in s..e
  <2>1. PICK a, b : Stretch(Stop, text, a, b) /\ i \in a..b
    BY <1>2, <1>3, SentenceAround
  <2>2. SentenceOf(text, a) = SentenceOf(text, s)
    BY <1>3, <2>1, NumbersGrow
  <2>3. a \in 1..Len(text)
    BY <2>1 DEF Stretch
  <2>4. SentenceOf(text, a) \in Nat
    BY <1>1, <2>3, NumbersGrow
  <2>5. ~(a < s)
    <3>1. ASSUME a < s PROVE FALSE
      <4>1. a \in 1..(s - 1)
        BY <1>1, <2>3, <3>1
      <4>2. SentenceOf(text, a) < SentenceOf(text, s)
        BY <4>1, NumbersGrow
      <4> QED BY <2>2, <2>4, <4>2
    <3> QED BY <3>1
  <2>6. ~(s < a)
    <3>1. ASSUME s < a PROVE FALSE
      <4>1. s \in 1..(a - 1)
        BY <1>1, <2>3, <3>1
      <4>2. SentenceOf(text, s) < SentenceOf(text, a)
        BY <2>1, <4>1, NumbersGrow
      <4> QED BY <2>2, <2>4, <4>2
    <3> QED BY <3>1
  <2>7. a = s
    BY <1>1, <2>3, <2>5, <2>6
  <2>8. b = e
    BY <2>1, <2>7, StretchEndsOnce
  <2> QED BY <2>1, <2>7, <2>8
<1>4. ASSUME NEW i \in s..e, text[i] # Break
      PROVE  i \in DOMAIN text /\ text[i] \in Nat /\ SentenceOf(text, i) = SentenceOf(text, s)
  <2>1. i \in DOMAIN text
    BY <1>1
  <2> QED BY <1>1, <1>2, <1>4, <2>1, NumbersGrow
<1> QED BY <1>2, <1>3, <1>4 DEF WordsOfSentence

LEMMA SentencesArePlaced ==
  ASSUME NEW text \in Seq(Token)
  PROVE  /\ IsFiniteSet(KeptStarts(text)) /\ KeptStarts(text) \in SUBSET Nat
         /\ Sentences(text) = [n \in 1..Cardinality(KeptStarts(text)) |->
              Words(SubSeq(text, Place(KeptStarts(text), n), SentenceEnd(text, Place(KeptStarts(text), n))))]
         /\ \A s \in KeptStarts(text) : Stretch(Stop, text, s, SentenceEnd(text, s))
         /\ \A s, e : Stretch(Stop, text, s, e) /\ (\E i \in s..e : text[i] # Break) => s \in KeptStarts(text)
<1>1. Len(text) \in Nat /\ DOMAIN text = 1..Len(text)
  OBVIOUS
<1>2. KeptStarts(text) \in SUBSET (1..Len(text)) /\ KeptStarts(text) \in SUBSET SentenceStarts(text)
  BY <1>1 DEF KeptStarts, SentenceStarts
<1>3. IsFiniteSet(KeptStarts(text)) /\ KeptStarts(text) \in SUBSET Nat
  <2>1. IsFiniteSet(1..Len(text)) /\ 1..Len(text) \in SUBSET Nat
    BY <1>1, FS_Interval
  <2> QED BY <1>2, <2>1, FS_Subset
<1>4. Sentences(text) = [n \in 1..Cardinality(KeptStarts(text)) |->
        Words(SubSeq(text, Place(KeptStarts(text), n), SentenceEnd(text, Place(KeptStarts(text), n))))]
  BY Zenon DEF Sentences, KeptStarts, SentenceStarts, SentenceEnd, Place
<1>5. \A s \in SentenceStarts(text) : Stretch(Stop, text, s, SentenceEnd(text, s))
  BY <1>1, StretchFrom DEF SentenceStarts, SentenceEnd
<1>6. ASSUME NEW s, NEW e, Stretch(Stop, text, s, e), NEW i \in s..e, text[i] # Break
      PROVE  s \in KeptStarts(text)
  <2>1. s \in 1..Len(text) /\ e \in s..Len(text) /\ (s = 1 \/ text[s-1] = Stop)
        /\ \A k \in s..e : text[k] # Stop
    BY <1>6 DEF Stretch
  <2>2. s \in s..e
    BY <1>1, <2>1
  <2>3. s \in SentenceStarts(text)
    BY <1>1, <2>1, <2>2 DEF SentenceStarts
  <2>4. SentenceEnd(text, s) = e
    BY <1>5, <1>6, <2>3, StretchEndsOnce
  <2> QED BY <1>6, <2>3, <2>4 DEF KeptStarts
<1> QED BY <1>2, <1>3, <1>4, <1>5, <1>6

\* What SentencesAreRead says of one text.
SentencesAreIn(text) ==
  LET read == Sentences(text)
      spoken == {n \in DOMAIN read : read[n] # <<>>}
      numbers == {SentenceOf(text, i) : i \in {j \in DOMAIN text : text[j] \in Nat}}
  IN \E number \in Bijection(spoken, numbers) :
       /\ \A m, n \in spoken : m < n => number[m] < number[n]
       /\ \A n \in spoken : LET W == WordsOfSentence(text, number[n]) IN
            /\ Len(read[n]) = Cardinality(W)
            /\ \A i \in W : read[n][Cardinality({j \in W : j <= i})] = text[i]

LEMMA SentencesAreOfTheText ==
  ASSUME NEW text \in Seq(Token)
  PROVE  SentencesAreIn(text)
<1> DEFINE K == KeptStarts(text)
           N == Cardinality(K)
           place(n) == Place(K, n)
           end(n) == SentenceEnd(text, place(n))
           read == Sentences(text)
           W(n) == {i \in place(n)..end(n) : text[i] # Break}
           spoken == {n \in DOMAIN read : read[n] # <<>>}
           numbers == {SentenceOf(text, i) : i \in {j \in DOMAIN text : text[j] \in Nat}}
           number == [n \in spoken |-> SentenceOf(text, place(n))]
<1>1. /\ IsFiniteSet(K) /\ K \in SUBSET Nat
      /\ read = [n \in 1..N |-> Words(SubSeq(text, place(n), end(n)))]
      /\ \A s \in K : Stretch(Stop, text, s, SentenceEnd(text, s))
      /\ \A s, e : Stretch(Stop, text, s, e) /\ (\E i \in s..e : text[i] # Break) => s \in K
  BY SentencesArePlaced
<1> HIDE DEF K, read
<1>2. /\ N \in Nat /\ \A n \in 1..N : place(n) \in K
      /\ \A m, n \in 1..N : m < n => place(m) < place(n)
      /\ \A i \in K : \E n \in 1..N : place(n) = i
  BY <1>1, PlacesAscend
<1> HIDE DEF place, N
<1>3. \A n \in 1..N : Stretch(Stop, text, place(n), end(n))
  BY <1>1, <1>2
<1> HIDE DEF end
<1>4. ASSUME NEW n \in 1..N
      PROVE  /\ Len(read[n]) = Cardinality(W(n))
             /\ \A i \in W(n) : read[n][Cardinality({j \in W(n) : j <= i})] = text[i]
             /\ W(n) = WordsOfSentence(text, SentenceOf(text, place(n)))
             /\ IsFiniteSet(W(n)) /\ place(n) \in DOMAIN text
  <2>1. Stretch(Stop, text, place(n), end(n)) /\ read[n] = Words(SubSeq(text, place(n), end(n)))
    BY <1>1, <1>3
  <2>2. place(n) \in 1..Len(text) /\ end(n) \in place(n)..Len(text) /\ Len(text) \in Nat
    BY <2>1 DEF Stretch
  <2>3. IsFiniteSet(place(n)..end(n))
    BY <2>2, FS_Interval
  <2>4. W(n) \in SUBSET (place(n)..end(n))
    OBVIOUS
  <2>5. IsFiniteSet(W(n))
    <3> HIDE DEF W
    <3> QED BY <2>3, <2>4, FS_Subset
  <2>6. ASSUME NEW s, NEW e, Stretch(Stop, text, s, e)
        PROVE  /\ Len(Words(SubSeq(text, s, e))) = Cardinality({i \in s..e : text[i] # Break})
               /\ \A i \in {j \in s..e : text[j] # Break} :
                    Words(SubSeq(text, s, e))
                      [Cardinality({j \in {k \in s..e : text[k] # Break} : j <= i})] = text[i]
    BY <2>6, WordsOfStretch
  <2>7. /\ Len(Words(SubSeq(text, place(n), end(n)))) = Cardinality(W(n))
        /\ \A i \in W(n) :
             Words(SubSeq(text, place(n), end(n)))[Cardinality({j \in W(n) : j <= i})] = text[i]
    BY <2>1, <2>6
  <2>8. W(n) = WordsOfSentence(text, SentenceOf(text, place(n)))
    BY <2>1, WordsOfNumber
  <2> HIDE DEF W
  <2> QED BY <2>1, <2>2, <2>5, <2>7, <2>8
<1>5. \A n : n \in spoken <=> n \in 1..N /\ W(n) # {}
  <2>1. DOMAIN read = 1..N
    BY <1>1
  <2>2. ASSUME NEW n \in 1..N PROVE read[n] = <<>> <=> W(n) = {}
    <3>1. read[n] \in Seq(Token)
      <4>1. read[n] = Words(SubSeq(text, place(n), end(n)))
        BY <1>1
      <4>2. SubSeq(text, place(n), end(n)) \in Seq(Token)
        <5>1. place(n) \in 1..Len(text) /\ end(n) \in place(n)..Len(text) /\ Len(text) \in Nat
          BY <1>3 DEF Stretch
        <5> QED BY <5>1
      <4> QED BY <4>1, <4>2, WordsAreRead
    <3>2. read[n] = <<>> <=> Len(read[n]) = 0
      BY <3>1
    <3>3. Cardinality(W(n)) = 0 <=> W(n) = {}
      <4>1. IsFiniteSet(W(n))
        BY <1>4
      <4> HIDE DEF W
      <4> QED BY <4>1, FS_EmptySet
    <3>4. Len(read[n]) = Cardinality(W(n))
      BY <1>4
    <3> HIDE DEF W
    <3> QED BY <3>2, <3>3, <3>4
  <2> HIDE DEF W
  <2> QED BY <2>1, <2>2
<1>6. ASSUME NEW m \in spoken, NEW n \in spoken, m < n PROVE number[m] < number[n]
  <2>1. m \in 1..N /\ n \in 1..N
    BY <1>5
  <2>2. place(m) < place(n) /\ place(m) \in DOMAIN text /\ place(n) \in DOMAIN text
    BY <1>2, <1>4, <1>6, <2>1
  <2>3. place(m) \in 1..(place(n) - 1)
    BY <2>2
  <2>4. SentenceOf(text, place(m)) < SentenceOf(text, place(n))
    BY <1>3, <2>1, <2>3, NumbersGrow
  <2> HIDE DEF spoken
  <2> QED BY <2>4
<1>7. ASSUME NEW n \in spoken PROVE number[n] \in numbers
  <2>1. n \in 1..N /\ W(n) # {}
    BY <1>5
  <2>2. PICK i : i \in WordsOfSentence(text, SentenceOf(text, place(n)))
    <3>1. W(n) = WordsOfSentence(text, SentenceOf(text, place(n)))
      BY <1>4, <2>1
    <3> HIDE DEF W
    <3> QED BY <2>1, <3>1
  <2>3. i \in DOMAIN text /\ text[i] \in Nat /\ SentenceOf(text, i) = SentenceOf(text, place(n))
    BY <2>2 DEF WordsOfSentence
  <2> HIDE DEF spoken
  <2> QED BY <2>3
<1>8. ASSUME NEW k \in numbers PROVE \E n \in spoken : number[n] = k
  <2>1. PICK i \in DOMAIN text : text[i] \in Nat /\ k = SentenceOf(text, i)
    BY <1>8
  <2>2. text[i] # Stop /\ text[i] # Break
    BY <2>1, ReviewersAssumption
  <2>3. PICK s, e : Stretch(Stop, text, s, e) /\ i \in s..e
    BY <2>2, SentenceAround
  <2>4. s \in K /\ k = SentenceOf(text, s)
    BY <1>1, <2>1, <2>2, <2>3, NumbersGrow
  <2>5. PICK n \in 1..N : place(n) = s
    BY <1>2, <2>4
  <2>6. end(n) = e
    BY <1>3, <2>3, <2>5, StretchEndsOnce
  <2>7. W(n) # {}
    BY <2>2, <2>3, <2>5, <2>6
  <2>8. n \in spoken
    <3> HIDE DEF W, spoken
    <3> QED BY <1>5, <2>7
  <2> HIDE DEF spoken
  <2> QED BY <2>4, <2>5, <2>8
<1>9. number \in Bijection(spoken, numbers)
  <2>1. \A n \in spoken : n \in Int
    BY <1>2, <1>5
  <2>2. \A n \in spoken : number[n] \in Int
    <3> SUFFICES ASSUME NEW n \in spoken PROVE number[n] \in Int
      OBVIOUS
    <3>1. n \in 1..N
      BY <1>5
    <3>2. SentenceOf(text, place(n)) \in Nat
      BY <1>4, <3>1, NumbersGrow
    <3> HIDE DEF spoken
    <3> QED BY <3>2
  <2>3. number = [n \in spoken |-> number[n]]
    OBVIOUS
  <2> HIDE DEF spoken, numbers, number
  <2>4. \A m, n \in spoken : m # n => number[m] # number[n]
    BY <1>6, <2>1, <2>2
  <2>5. number \in [spoken -> numbers]
    BY <1>7, <2>3
  <2> QED BY <1>8, <2>4, <2>5 DEF Bijection, Injection, Surjection, IsInjective
<1>10. ASSUME NEW n \in spoken
       PROVE  LET V == WordsOfSentence(text, number[n]) IN
              /\ Len(read[n]) = Cardinality(V)
              /\ \A i \in V : read[n][Cardinality({j \in V : j <= i})] = text[i]
  <2>1. n \in 1..N
    BY <1>5
  <2>2. number[n] = SentenceOf(text, place(n))
    <3> HIDE DEF spoken
    <3> QED OBVIOUS
  <2>3. W(n) = WordsOfSentence(text, number[n])
    BY <1>4, <2>1, <2>2
  <2>4. /\ Len(read[n]) = Cardinality(W(n))
        /\ \A i \in W(n) : read[n][Cardinality({j \in W(n) : j <= i})] = text[i]
    BY <1>4, <2>1
  <2> HIDE DEF W, spoken, number
  <2> QED BY <2>3, <2>4
<1> HIDE DEF number
<1> QED BY <1>6, <1>9, <1>10, Zenon DEF SentencesAreIn, read

LEMMA SentencesAreSome ==
  ASSUME NEW text \in Seq(Token)
  PROVE  \E n \in Nat : DOMAIN Sentences(text) = 1..n
<1> DEFINE starts == {i \in DOMAIN text : text[i] # Stop /\ (i = 1 \/ text[i-1] = Stop)}
           end(i) == Max({j \in i..Len(text) : \A k \in i..j : text[k] # Stop})
           blank(i) == \A k \in i..end(i) : text[k] = Break
           kept == {i \in starts : blank(i) => i # 1 /\ end(i) # Len(text)}
<1>1. kept \in SUBSET (1..Len(text)) /\ Len(text) \in Nat
  <2> HIDE DEF blank, end
  <2> QED OBVIOUS
<1>2. DOMAIN Sentences(text) = 1..Cardinality(kept)
  BY DEF Sentences
<1> HIDE DEF kept
<1>3. IsFiniteSet(1..Len(text))
  BY <1>1, FS_Interval
<1>4. Cardinality(kept) \in Nat
  BY <1>1, <1>3, FS_Subset, FS_CardinalityType
<1> QED BY <1>2, <1>4

WordsEach(text) == [i \in DOMAIN Sentences(text) |-> Len(Sentences(text)[i])]
Shorts(r, text) == [i \in DOMAIN WordsEach(text) |-> WordsEach(text)[i] \in 1..r.short]
Longs(r, text) == [i \in DOMAIN WordsEach(text) |-> WordsEach(text)[i] >= r.long]

\* What a rhythm finding of one of the two kinds of runs is made of.
LEMMA RhythmFindings ==
  ASSUME NEW r, NEW text, NEW b \in DOMAIN text, NEW f, f.target = b
  PROVE  /\ f.kind = "short_sentence_run" =>
              (f \in Rhythm(r, text) <=>
                 /\ Sentences(text[b]) # <<>>
                 /\ f \in Run("short_sentence_run", b, Shorts(r, text[b]), r.shortRun))
         /\ f.kind = "long_sentence_run" =>
              (f \in Rhythm(r, text) <=>
                 /\ Sentences(text[b]) # <<>>
                 /\ f \in Run("long_sentence_run", b, Longs(r, text[b]), r.longRun))
<1>1. \A kind, c, matches, minimum : \A g \in Run(kind, c, matches, minimum) :
         g.kind = kind /\ g.target = c
  BY FindingFields DEF Run
<1>2. \A c : \A g \in RhythmOf(r, c, text[c]) : g.target = c
  BY <1>1, FindingFields DEF RhythmOf
<1>3. f \in Rhythm(r, text) <=> f \in RhythmOf(r, b, text[b])
  BY <1>2 DEF Rhythm
<1> DEFINE short == Run("short_sentence_run", b, Shorts(r, text[b]), r.shortRun)
           long == Run("long_sentence_run", b, Longs(r, text[b]), r.longRun)
<1>4. \E u, v : /\ RhythmOf(r, b, text[b]) = IF Sentences(text[b]) = <<>> THEN {}
                                           ELSE short \cup long \cup u \cup v
                /\ \A g \in u : g.kind = "uniform_sentence_length"
                /\ \A g \in v : g.kind = "repeated_opening"
  <2> DEFINE sentences == Sentences(text[b])
             lengths == [i \in DOMAIN sentences |-> Len(sentences[i])]
             all == {lengths[i] : i \in DOMAIN lengths}
             opened == {i \in DOMAIN sentences : lengths[i] >= r.opening}
             opening(i) == SubSeq(sentences[i], 1, r.opening)
             times(o) == Cardinality({i \in opened : opening(i) = o})
             openings == {o \in {opening(i) : i \in opened} : times(o) >= r.openings}
             u == IF Len(lengths) >= r.uniform /\ Max(all) - Min(all) <= r.range
                  THEN {Finding(b, "uniform_sentence_length", lengths)} ELSE {}
             v == IF openings = {} THEN {}
                  ELSE {Finding(b, "repeated_opening", Max({times(o) : o \in openings}))}
  <2>1. RhythmOf(r, b, text[b]) = IF sentences = <<>> THEN {} ELSE short \cup long \cup u \cup v
    BY Zenon DEF RhythmOf, Shorts, Longs, WordsEach
  <2>2. \A g \in u : g.kind = "uniform_sentence_length"
    BY FindingFields
  <2>3. \A g \in v : g.kind = "repeated_opening"
    BY FindingFields
  <2> HIDE DEF u, v, short, long
  <2> QED BY <2>1, <2>2, <2>3
<1>5. /\ \A g \in short : g.kind = "short_sentence_run"
      /\ \A g \in long : g.kind = "long_sentence_run"
  BY <1>1
<1> HIDE DEF short, long
<1>6. /\ f.kind = "short_sentence_run" =>
           (f \in Rhythm(r, text) <=> Sentences(text[b]) # <<>> /\ f \in short)
      /\ f.kind = "long_sentence_run" =>
           (f \in Rhythm(r, text) <=> Sentences(text[b]) # <<>> /\ f \in long)
  BY <1>3, <1>4, <1>5
<1> QED BY <1>6 DEF short, long

\* A run is found where there is one that is long enough, and what is found is the longest.
LEMMA RunIsFound ==
  ASSUME NEW matches \in Seq(BOOLEAN), NEW minimum \in Nat \ {0}, NEW kind, NEW b
  PROVE  /\ \A f \in Run(kind, b, matches, minimum) :
              f.kind = kind /\ f.target = b /\ IsLongestRun(f.evidence, matches)
         /\ Run(kind, b, matches, minimum) # {} <=>
              \E s \in 0..Len(matches) :
                s + minimum <= Len(matches) /\ \A i \in (s+1)..(s+minimum) : matches[i]
<1>1. IsLongestRun(LongestRun(matches), matches)
  BY LongestRunIsLongest
<1>2. LongestRun(matches)[2] >= minimum <=>
        \E s \in 0..Len(matches) :
          s + minimum <= Len(matches) /\ \A i \in (s+1)..(s+minimum) : matches[i]
  BY LongestRunIsLongest
<1>3. \A f \in Run(kind, b, matches, minimum) : f = Finding(b, kind, LongestRun(matches))
  BY DEF Run
<1>4. Run(kind, b, matches, minimum) # {} <=> LongestRun(matches)[2] >= minimum
  BY DEF Run
<1> DEFINE S == Run(kind, b, matches, minimum)
<1>5. \A f \in S : f.kind = kind /\ f.target = b /\ IsLongestRun(f.evidence, matches)
  <2> SUFFICES ASSUME NEW f \in S
               PROVE  f.kind = kind /\ f.target = b /\ IsLongestRun(f.evidence, matches)
    OBVIOUS
  <2>1. f.kind = kind /\ f.target = b /\ f.evidence = LongestRun(matches)
    BY <1>3, FindingFields
  <2> QED BY <1>1, <2>1
<1> HIDE DEF S
<1>6. S # {} <=> LongestRun(matches)[2] >= minimum
  BY <1>4 DEF S
<1> QED BY <1>2, <1>5, <1>6, Zenon DEF S

\* The findings so far are those of the reviewers that have run.
ReviewInv ==
  /\ content \in Text /\ done \in 0..Len(Engine)
  /\ findings = UNION {{[reviewer |-> n, finding |-> f] : f \in ReviewOf(Engine[n], content)} :
                         n \in 1..done}

LEMMA FindingsOfReviewers ==
  ASSUME ReviewInv, NEW n \in 1..done
  PROVE  FoundBy(n) = ReviewOf(Engine[n], content) /\ Engine[n] \in Range(Engine)
<1>1. \A g : g \in findings <=>
        \E m \in 1..done : \E f \in ReviewOf(Engine[m], content) : g = [reviewer |-> m, finding |-> f]
  BY DEF ReviewInv
<1>2. ASSUME NEW f \in FoundBy(n) PROVE f \in ReviewOf(Engine[n], content)
  <2>1. PICK g \in findings : g.reviewer = n /\ g.finding = f
    BY DEF FoundBy
  <2>2. PICK m \in 1..done : \E h \in ReviewOf(Engine[m], content) : g = [reviewer |-> m, finding |-> h]
    BY <1>1, <2>1
  <2> QED BY <2>1, <2>2
<1>3. ASSUME NEW f \in ReviewOf(Engine[n], content) PROVE f \in FoundBy(n)
  <2>1. [reviewer |-> n, finding |-> f] \in findings
    BY <1>1, <1>3
  <2> QED BY <2>1 DEF FoundBy
<1>4. n \in DOMAIN Engine
  BY ReviewersAssumption DEF ReviewInv
<1> QED BY <1>2, <1>3, <1>4 DEF Range

LEMMA RunsOfTheText ==
  ASSUME ReviewInv, NEW n \in Uses("rhythm"), NEW b \in DOMAIN content
  PROVE  LET r == Engine[n]
             counts == [i \in DOMAIN Sentences(content[b]) |-> Len(Sentences(content[b])[i])]
         IN /\ RunIsReported(n, "short_sentence_run", b, [i \in DOMAIN counts |-> counts[i] \in 1..r.short],
                             r.shortRun)
            /\ RunIsReported(n, "long_sentence_run", b, [i \in DOMAIN counts |-> counts[i] >= r.long],
                             r.longRun)
<1> DEFINE r == Engine[n]
           short == Shorts(r, content[b])
           long == Longs(r, content[b])
<1>1. n \in 1..done /\ r.kind = "rhythm"
  BY DEF Uses
<1>2. FoundBy(n) = Rhythm(r, content) /\ r \in Range(Engine)
  BY <1>1, FindingsOfReviewers, ReviewOfKind
<1>3. r.shortRun \in Nat \ {0} /\ r.longRun \in Nat \ {0}
  BY <1>1, <1>2, ReviewersAssumption
<1>4. content[b] \in Seq(Token)
  BY ReviewersAssumption DEF ReviewInv
<1>5. PICK k \in Nat : DOMAIN Sentences(content[b]) = 1..k
  BY <1>4, SentencesAreSome
<1>6. short \in Seq(BOOLEAN) /\ long \in Seq(BOOLEAN) /\ Len(short) = k /\ Len(long) = k
  <2> DEFINE counts == WordsEach(content[b])
  <2>1. DOMAIN counts = 1..k
    BY <1>5 DEF WordsEach
  <2> HIDE DEF counts
  <2>2. /\ short = [i \in DOMAIN counts |-> counts[i] \in 1..r.short]
        /\ long = [i \in DOMAIN counts |-> counts[i] >= r.long]
    BY Zenon DEF Shorts, Longs, counts
  <2>3. short \in [1..k -> BOOLEAN] /\ long \in [1..k -> BOOLEAN]
    BY <2>1, <2>2
  <2> HIDE DEF short, long
  <2> QED BY <1>5, <2>3
<1>7. Sentences(content[b]) = <<>> => k = 0
  BY <1>5
<1> HIDE DEF r, short, long
<1>8. ASSUME NEW kind, NEW matches \in Seq(BOOLEAN), NEW minimum \in Nat \ {0}, Len(matches) = k,
             \A f : f.target = b /\ f.kind = kind =>
               (f \in FoundBy(n) <=> Sentences(content[b]) # <<>> /\ f \in Run(kind, b, matches, minimum))
      PROVE  RunIsReported(n, kind, b, matches, minimum)
  <2>1. /\ \A f \in Run(kind, b, matches, minimum) :
             f.kind = kind /\ f.target = b /\ IsLongestRun(f.evidence, matches)
        /\ Run(kind, b, matches, minimum) # {} <=>
             \E s \in 0..Len(matches) :
               s + minimum <= Len(matches) /\ \A i \in (s+1)..(s+minimum) : matches[i]
    BY <1>8, RunIsFound
  <2>2. Sentences(content[b]) = <<>> =>
          ~\E s \in 0..Len(matches) :
             s + minimum <= Len(matches) /\ \A i \in (s+1)..(s+minimum) : matches[i]
    BY <1>7, <1>8
  <2>3. On(n, kind, b) <=> Sentences(content[b]) # <<>> /\ Run(kind, b, matches, minimum) # {}
    BY <1>8, <2>1 DEF On
  <2>4. \A f \in FoundBy(n) : f.kind = kind /\ f.target = b => IsLongestRun(f.evidence, matches)
    BY <1>8, <2>1
  <2>5. On(n, kind, b) <=>
          \E s \in 0..Len(matches) :
            s + minimum <= Len(matches) /\ \A i \in (s+1)..(s+minimum) : matches[i]
    BY <2>1, <2>2, <2>3, Zenon
  <2> QED BY <2>4, <2>5 DEF RunIsReported
<1>9. \A f : f.target = b /\ f.kind = "short_sentence_run" =>
        (f \in FoundBy(n) <=> /\ Sentences(content[b]) # <<>>
                              /\ f \in Run("short_sentence_run", b, short, r.shortRun))
  <2> SUFFICES ASSUME NEW f, f.target = b, f.kind = "short_sentence_run"
               PROVE  f \in FoundBy(n) <=> /\ Sentences(content[b]) # <<>>
                                          /\ f \in Run("short_sentence_run", b, short, r.shortRun)
    OBVIOUS
  <2>2. f \in Rhythm(r, content) <=>
          /\ Sentences(content[b]) # <<>>
          /\ f \in Run("short_sentence_run", b, short, r.shortRun)
    BY RhythmFindings DEF short
  <2> QED BY <1>2, <2>2
<1>10. \A f : f.target = b /\ f.kind = "long_sentence_run" =>
        (f \in FoundBy(n) <=> /\ Sentences(content[b]) # <<>>
                              /\ f \in Run("long_sentence_run", b, long, r.longRun))
  <2> SUFFICES ASSUME NEW f, f.target = b, f.kind = "long_sentence_run"
               PROVE  f \in FoundBy(n) <=> /\ Sentences(content[b]) # <<>>
                                          /\ f \in Run("long_sentence_run", b, long, r.longRun)
    OBVIOUS
  <2>2. f \in Rhythm(r, content) <=>
          /\ Sentences(content[b]) # <<>>
          /\ f \in Run("long_sentence_run", b, long, r.longRun)
    BY RhythmFindings DEF long
  <2> QED BY <1>2, <2>2
<1>11. RunIsReported(n, "short_sentence_run", b, short, r.shortRun)
  BY <1>3, <1>6, <1>8, <1>9
<1>12. RunIsReported(n, "long_sentence_run", b, long, r.longRun)
  BY <1>3, <1>6, <1>8, <1>10
<1> QED BY <1>11, <1>12, Zenon DEF r, short, long, Shorts, Longs, WordsEach

LEMMA SpreadOfTheText ==
  ASSUME ReviewInv, NEW n \in Uses("cross_block"), NEW p \in Engine[n].phrases
  PROVE  LET times == [b \in {c \in DOMAIN content : Disjoint(p, content[c]) > 0} |->
                         Disjoint(p, content[b])] IN
         /\ (\E f \in FoundBy(n) : f.evidence[1] = p)
              <=> Cardinality(DOMAIN times) >= Engine[n].blocks /\ SumFunction(times) >= Engine[n].minimum
         /\ \A f \in FoundBy(n) : f.evidence[1] = p =>
              /\ f.evidence[2] = times
              /\ f.target \in DOMAIN times /\ \A b \in DOMAIN times : f.target <= b
<1> DEFINE r == Engine[n]
           times == [b \in {c \in DOMAIN content : Disjoint(p, content[c]) > 0} |->
                       Disjoint(p, content[b])]
           enough(d) == SumFunction(d) >= r.minimum /\ Cardinality(DOMAIN d) >= r.blocks
           of(q) == Distribution(q, content)
           found(q) == Finding(Min(DOMAIN of(q)), "cross_block_repetition", <<q, of(q)>>)
<1>1. n \in 1..done /\ r.kind = "cross_block"
  BY DEF Uses
<1>2. FoundBy(n) = CrossBlockRepetition(r, content) /\ r \in Range(Engine)
  BY <1>1, FindingsOfReviewers, ReviewOfKind
<1>3. p \in Phrase /\ r.blocks \in Nat \ {0}
  BY <1>1, <1>2, ReviewersAssumption
<1>4. DOMAIN content \in SUBSET Nat /\ \A b \in DOMAIN content : content[b] \in Seq(Token)
  <2>1. content \in Seq(Seq(Token))
    BY ReviewersAssumption DEF ReviewInv
  <2> QED BY <2>1
<1>5. of(p) = times
  <2>1. \A b \in DOMAIN content : Count(p, content[b]) = Disjoint(p, content[b])
    BY <1>3, <1>4, CountIsDisjoint
  <2> QED BY <2>1 DEF Distribution
<1>6. FoundBy(n) = {found(q) : q \in {q \in r.phrases : enough(of(q))}}
  BY <1>2, Zenon DEF CrossBlockRepetition
<1>7. DOMAIN times \in SUBSET Nat
  BY <1>4
<1> HIDE DEF times, of
<1>8. \A q : found(q).evidence = <<q, of(q)>> /\ found(q).target = Min(DOMAIN of(q))
  BY FindingFields
<1> HIDE DEF found, enough, r
<1>9. \A f \in FoundBy(n) : f.evidence[1] = p => f = found(p) /\ enough(of(p))
  <2> SUFFICES ASSUME NEW f \in FoundBy(n), f.evidence[1] = p PROVE f = found(p) /\ enough(of(p))
    OBVIOUS
  <2>1. PICK q \in r.phrases : enough(of(q)) /\ f = found(q)
    BY <1>6
  <2>2. f.evidence[1] = q
    BY <1>8, <2>1
  <2> QED BY <2>1, <2>2
<1>10. (\E f \in FoundBy(n) : f.evidence[1] = p) <=> enough(times)
  <2>1. ASSUME enough(times) PROVE \E f \in FoundBy(n) : f.evidence[1] = p
    <3>1. found(p) \in FoundBy(n)
      BY <1>5, <1>6, <2>1 DEF r
    <3>2. found(p).evidence[1] = p
      BY <1>8
    <3> QED BY <3>1, <3>2
  <2> QED BY <1>5, <1>9, <2>1
<1>11. ASSUME NEW f \in FoundBy(n), f.evidence[1] = p
       PROVE  /\ f.evidence[2] = times
              /\ f.target \in DOMAIN times /\ \A b \in DOMAIN times : f.target <= b
  <2>1. f = found(p) /\ enough(times)
    BY <1>5, <1>9, <1>11
  <2>2. f.evidence[2] = times /\ f.target = Min(DOMAIN times)
    BY <1>5, <1>8, <2>1
  <2>3. Cardinality(DOMAIN times) >= r.blocks
    BY <2>1 DEF enough
  <2>4. DOMAIN times # {}
    <3>1. Cardinality({}) = 0 /\ ~(0 >= r.blocks)
      BY <1>3, FS_EmptySet DEF r
    <3> QED BY <2>3, <3>1
  <2> QED BY <1>7, <2>2, <2>4, MinOfNats
<1>12. enough(times) <=> Cardinality(DOMAIN times) >= Engine[n].blocks /\ SumFunction(times) >= Engine[n].minimum
  BY Zenon DEF enough, r
<1> QED BY <1>10, <1>11, <1>12, Zenon DEF times

\* What the structural reviewer reports of a block.
LEMMA StructuralFindings ==
  ASSUME ReviewInv, NEW n \in Uses("structural"), NEW b \in DOMAIN content
  PROVE  LET text == content[b]
             times(p) == Cardinality({i \in DOMAIN Paragraphs(text) : Paragraphs(text)[i] = p})
         IN /\ Evidence(n, "duplicate_paragraph", b) =
                 {<<p, times(p)>> :
                    p \in {q \in {Paragraphs(text)[i] : i \in DOMAIN Paragraphs(text)} : times(q) >= 2}}
            /\ Evidence(n, "thematic_reiteration", b) =
                 {<<p, Count(p, text)>> :
                    p \in {q \in Engine[n].phrases : Count(q, text) >= Engine[n].minimum}}
<1> DEFINE lines(c) == Paragraphs(content[c])
           times(c, p) == Cardinality({i \in DOMAIN lines(c) : lines(c)[i] = p})
           repeated(c) == {p \in {lines(c)[i] : i \in DOMAIN lines(c)} : times(c, p) >= 2}
           count(c, p) == Count(p, content[c])
           themes(c) == {q \in Engine[n].phrases : count(c, q) >= Engine[n].minimum}
           line(c, p) == Finding(c, "duplicate_paragraph", <<p, times(c, p)>>)
           theme(c, p) == Finding(c, "thematic_reiteration", <<p, count(c, p)>>)
<1>1. n \in 1..done /\ Engine[n].kind = "structural"
  BY DEF Uses
<1>2. FoundBy(n) = Structural(Engine[n], content)
  BY <1>1, FindingsOfReviewers, ReviewOfKind
<1>3. Structural(Engine[n], content) =
        UNION {{line(c, p) : p \in repeated(c)} \cup {theme(c, p) : p \in themes(c)} :
                 c \in DOMAIN content}
  BY Zenon DEF Structural
<1>4. \A c, p : /\ line(c, p).target = c /\ line(c, p).kind = "duplicate_paragraph"
                /\ line(c, p).evidence = <<p, times(c, p)>>
                /\ theme(c, p).target = c /\ theme(c, p).kind = "thematic_reiteration"
                /\ theme(c, p).evidence = <<p, count(c, p)>>
  BY FindingFields
<1> HIDE DEF line, theme, repeated, themes, times, count
<1>5. \A f : f \in FoundBy(n) <=>
        \E c \in DOMAIN content : \/ \E p \in repeated(c) : f = line(c, p)
                                 \/ \E p \in themes(c) : f = theme(c, p)
  BY <1>2, <1>3
<1>6. Evidence(n, "duplicate_paragraph", b) = {<<p, times(b, p)>> : p \in repeated(b)}
  <2>1. ASSUME NEW x \in Evidence(n, "duplicate_paragraph", b)
        PROVE  x \in {<<p, times(b, p)>> : p \in repeated(b)}
    <3>1. PICK f \in FoundBy(n) : f.kind = "duplicate_paragraph" /\ f.target = b /\ x = f.evidence
      BY DEF Evidence
    <3>2. PICK p \in repeated(b) : f = line(b, p)
      BY <1>4, <1>5, <3>1
    <3>3. x = <<p, times(b, p)>>
      BY <1>4, <3>1, <3>2
    <3> QED BY <3>3
  <2>2. ASSUME NEW p \in repeated(b) PROVE <<p, times(b, p)>> \in Evidence(n, "duplicate_paragraph", b)
    <3>1. PICK f \in FoundBy(n) : f = line(b, p)
      BY <1>5, <2>2
    <3>2. f.target = b /\ f.kind = "duplicate_paragraph" /\ f.evidence = <<p, times(b, p)>>
      BY <1>4, <3>1
    <3> QED BY <3>2 DEF Evidence
  <2> QED BY <2>1, <2>2
<1>7. Evidence(n, "thematic_reiteration", b) = {<<p, count(b, p)>> : p \in themes(b)}
  <2>1. ASSUME NEW x \in Evidence(n, "thematic_reiteration", b)
        PROVE  x \in {<<p, count(b, p)>> : p \in themes(b)}
    <3>1. PICK f \in FoundBy(n) : f.kind = "thematic_reiteration" /\ f.target = b /\ x = f.evidence
      BY DEF Evidence
    <3>2. PICK p \in themes(b) : f = theme(b, p)
      BY <1>4, <1>5, <3>1
    <3>3. x = <<p, count(b, p)>>
      BY <1>4, <3>1, <3>2
    <3> QED BY <3>3
  <2>2. ASSUME NEW p \in themes(b) PROVE <<p, count(b, p)>> \in Evidence(n, "thematic_reiteration", b)
    <3>1. PICK f \in FoundBy(n) : f = theme(b, p)
      BY <1>5, <2>2
    <3>2. f.target = b /\ f.kind = "thematic_reiteration" /\ f.evidence = <<p, count(b, p)>>
      BY <1>4, <3>1
    <3> QED BY <3>2 DEF Evidence
  <2> QED BY <2>1, <2>2
<1> QED BY <1>6, <1>7, Zenon DEF repeated, themes, times, count

\* The repeated paragraphs are the lines that several places say.
LEMMA LinesOfStructure ==
  ASSUME ReviewInv, NEW n \in Uses("structural"), NEW b \in DOMAIN content
  PROVE  LET times(p) == Cardinality(LinesThatSay(p, content[b])) IN
         Evidence(n, "duplicate_paragraph", b)
           = {<<p, times(p)>> : p \in {q \in Lines(content[b]) : times(q) >= 2}}
<1> DEFINE text == content[b]
           times(p) == Cardinality({i \in DOMAIN Paragraphs(text) : Paragraphs(text)[i] = p})
           said(p) == Cardinality(LinesThatSay(p, text))
           all == {Paragraphs(text)[i] : i \in DOMAIN Paragraphs(text)}
<1>1. content[b] \in Seq(Token)
  BY ReviewersAssumption DEF ReviewInv
<1>2. all = Lines(text) /\ \A p : times(p) = said(p)
  <2>1. \A p : {i \in DOMAIN Paragraphs(text) : Paragraphs(text)[i] = p} = LinesThatSay(p, text)
    BY <1>1, LinesOfText
  <2>2. all = Lines(text)
    BY <1>1, LinesOfText
  <2> QED BY <2>1, <2>2
<1>3. Evidence(n, "duplicate_paragraph", b) = {<<p, times(p)>> : p \in {q \in all : times(q) >= 2}}
  BY StructuralFindings
<1> HIDE DEF text, times, said, all
<1>4. {<<p, times(p)>> : p \in {q \in all : times(q) >= 2}}
        = {<<p, said(p)>> : p \in {q \in Lines(text) : said(q) >= 2}}
  BY <1>2
<1> QED BY <1>3, <1>4, Zenon DEF text, said

\* The themes are counted as what stands without overlap.
LEMMA ThemesOfStructure ==
  ASSUME ReviewInv, NEW n \in Uses("structural"), NEW b \in DOMAIN content
  PROVE  LET times(p) == Disjoint(p, content[b]) IN
         Evidence(n, "thematic_reiteration", b)
           = {<<p, times(p)>> : p \in {q \in Engine[n].phrases : times(q) >= Engine[n].minimum}}
<1> DEFINE text == content[b]
           P == Engine[n].phrases
           m == Engine[n].minimum
           count(p) == Count(p, text)
           room(p) == Disjoint(p, text)
<1>1. n \in 1..done /\ Engine[n].kind = "structural" /\ content[b] \in Seq(Token)
  BY ReviewersAssumption DEF Uses, ReviewInv
<1>2. P \subseteq Phrase
  BY <1>1, FindingsOfReviewers, ReviewersAssumption
<1>3. \A p \in P : count(p) = room(p)
  BY <1>1, <1>2, CountIsDisjoint
<1>4. Evidence(n, "thematic_reiteration", b) = {<<p, count(p)>> : p \in {q \in P : count(q) >= m}}
  BY StructuralFindings
<1> HIDE DEF text, P, m, count, room
<1>5. {<<p, count(p)>> : p \in {q \in P : count(q) >= m}}
        = {<<p, room(p)>> : p \in {q \in P : room(q) >= m}}
  BY <1>3
<1> QED BY <1>4, <1>5, Zenon DEF text, P, m, room

LEMMA FindingsAreOfTheText == ReviewInv => FindingsMatchTheText
<1> SUFFICES ASSUME ReviewInv PROVE FindingsMatchTheText
  OBVIOUS
<1>1. /\ content \in Seq(Seq(Token)) /\ \A b \in DOMAIN content : content[b] \in Seq(Token)
  BY ReviewersAssumption DEF ReviewInv
<1>2. RepetitionsAreCounted
  <2> SUFFICES ASSUME NEW n \in Uses("repeated_phrase"), NEW b \in DOMAIN content
               PROVE  On(n, "repeated_phrase", b)
                        <=> Disjoint(Engine[n].phrase, content[b]) >= Engine[n].minimum
    BY DEF RepetitionsAreCounted
  <2>1. n \in 1..done /\ Engine[n].kind = "repeated_phrase"
    BY DEF Uses
  <2>2. FoundBy(n) = RepeatedPhrase(Engine[n], content) /\ Engine[n].phrase \in Phrase
    BY <2>1, FindingsOfReviewers, ReviewOfKind, ReviewersAssumption
  <2>3. On(n, "repeated_phrase", b) <=> Count(Engine[n].phrase, content[b]) >= Engine[n].minimum
    BY <2>2, FindingFields DEF On, RepeatedPhrase
  <2> QED BY <1>1, <2>2, <2>3, CountIsDisjoint
<1>3. ContradictionsFollow
  <2> SUFFICES ASSUME NEW n \in Uses("continuity"), NEW b \in DOMAIN content
               PROVE  On(n, "continuity", b) <=>
                        \E i \in DOMAIN content[b] :
                          /\ \E m \in Engine[n].established : OccursAt(m, content[b], i)
                          /\ \A m \in Engine[n].conflicting : \A j \in 1..i : ~OccursAt(m, content[b], j)
                          /\ \E m \in Engine[n].conflicting : Occurrences(m, content[b]) # {}
    BY DEF ContradictionsFollow
  <2>1. n \in 1..done /\ Engine[n].kind = "continuity"
    BY DEF Uses
  <2>2. /\ FoundBy(n) = Continuity(Engine[n], content)
        /\ Engine[n].established \cup Engine[n].conflicting \subseteq Phrase
    BY <2>1, FindingsOfReviewers, ReviewOfKind, ReviewersAssumption
  <2>3. On(n, "continuity", b) <=> Reported(Continuity(Engine[n], content), "continuity", b)
    BY <2>2 DEF On, Reported
  <2>4. content[b] \in Seq(Token)
    BY <1>1
  <2> DEFINE r == Engine[n]
  <2>5. r.established \cup r.conflicting \subseteq Phrase
    BY <2>2
  <2>6. Reported(Continuity(r, content), "continuity", b) <=> Contradicted(r, content[b])
    <3> HIDE DEF r
    <3> QED BY <1>1, <2>5, ContinuityIsFound
  <2> QED BY <2>3, <2>6 DEF Contradicted
<1>4. RunsAreReported
  BY RunsOfTheText DEF RunsAreReported
<1>5. LinesAreCounted
  BY LinesOfStructure DEF LinesAreCounted
<1>8. ThemesAreCounted
  BY ThemesOfStructure DEF ThemesAreCounted
<1>6. RepetitionsAreSpread
  BY SpreadOfTheText DEF RepetitionsAreSpread
<1>7. SentencesAreRead
  BY <1>1, SentencesAreOfTheText, Zenon DEF SentencesAreRead, SentencesAreIn
<1> QED BY <1>2, <1>3, <1>4, <1>5, <1>6, <1>7, <1>8 DEF FindingsMatchTheText

\* A reviewer's findings are what is in the text, whatever the text and the thresholds: it
\* counts as many occurrences as there is room for, in a block and over several, orders a
\* contradiction, covers the first of the longest runs and counts themes and whole lines
\* (str.count, sum, str.find, _longest_run and the dictionary of paragraphs of
\* domain/reviews.py).
THEOREM ReviewersAreExact == ReviewSpec => []FindingsMatchTheText
<1>1. ReviewInit => ReviewInv
  BY ReviewersAssumption DEF ReviewInit, ReviewInv
<1>2. ASSUME ReviewInv, [RunReviewer]_reviewVars PROVE ReviewInv'
  <2>1. CASE RunReviewer
    <3>1. /\ done < Len(Engine) /\ done' = done + 1 /\ content' = content
          /\ findings' = findings \cup
               {[reviewer |-> done + 1, finding |-> f] : f \in ReviewOf(Engine[done + 1], content)}
      BY <2>1 DEF RunReviewer
    <3>2. Len(Engine) \in Nat /\ done \in 0..Len(Engine) /\ content \in Text
      BY <1>2, ReviewersAssumption DEF ReviewInv
    <3>3. done' \in 0..Len(Engine) /\ \A n : n \in 1..done' <=> n \in 1..done \/ n = done + 1
      BY <3>1, <3>2
    <3> DEFINE of(n) == {[reviewer |-> n, finding |-> f] : f \in ReviewOf(Engine[n], content)}
    <3>4. findings = UNION {of(n) : n \in 1..done} /\ findings' = findings \cup of(done + 1)
      BY <1>2, <3>1 DEF ReviewInv
    <3>5. findings' = UNION {of(n) : n \in 1..done'}
      <4> HIDE DEF of
      <4> QED BY <3>3, <3>4
    <3> QED BY <3>1, <3>2, <3>3, <3>5 DEF ReviewInv
  <2>2. CASE UNCHANGED reviewVars
    BY <1>2, <2>2 DEF ReviewInv, reviewVars
  <2> QED BY <1>2, <2>1, <2>2
<1> QED BY <1>1, <1>2, FindingsAreOfTheText, PTL DEF ReviewSpec

=============================================================================
