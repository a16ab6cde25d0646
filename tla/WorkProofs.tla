----------------------------- MODULE WorkProofs -----------------------------
(***************************************************************************)
(* What a replay gives, for any stream of events and any sets of blocks,   *)
(* contents and resources; what findings and decisions a stream may hold;  *)
(* and what the commits of patches and edits do to the blocks and to the   *)
(* dependencies.                                                           *)
(*                                                                         *)
(* Replay, the validation of a patch, the walk over dependents and the     *)
(* walk up the parents are recursive functions: for each there is a lemma  *)
(* that gives its values one by one (ReplayIsWalk, ValidatedIsWalk,        *)
(* DependentsAreMet, UpwardsIsWalk), from RecursionExists.                 *)
(***************************************************************************)
EXTENDS EditorialStream, SequenceLemmas, FiniteSetTheorems

----------------------------------------------------------------------------
(* Graphs *)

Graph == UNION {[D -> Block] : D \in SUBSET BlockId}

\* Every block hangs under one of the graph and has a text.
Sound(g) == \A b \in DOMAIN g : ParentIn(g, g[b]) /\ g[b].content \notin Blank

SoundGraph == {g \in Graph : Sound(g)}

LEMMA GraphElements ==
  ASSUME NEW g \in Graph
  PROVE  /\ DOMAIN g \subseteq BlockId
         /\ g \in [DOMAIN g -> Block]
         /\ \A b \in DOMAIN g : g[b] \in Block
BY DEF Graph

LEMMA GraphsAreGraphs == \A g \in Graph : IsGraph(g)
BY DEF Graph, IsGraph

LEMMA PutGraph ==
  ASSUME NEW g \in Graph, NEW b \in BlockId, NEW block \in Block
  PROVE  Put(g, b, block) \in Graph
<1>1. Put(g, b, block) \in [DOMAIN g \cup {b} -> Block]
  BY GraphElements DEF Put
<1>2. DOMAIN g \cup {b} \in SUBSET BlockId
  BY GraphElements
<1> QED BY <1>1, <1>2 DEF Graph

LEMMA WithoutGraph ==
  ASSUME NEW g \in Graph, NEW b
  PROVE  Without(g, b) \in Graph
<1>1. Without(g, b) \in [DOMAIN g \ {b} -> Block]
  BY GraphElements DEF Without
<1>2. DOMAIN g \ {b} \in SUBSET BlockId
  BY GraphElements
<1> QED BY <1>1, <1>2 DEF Graph

LEMMA MovedIsBlock ==
  ASSUME NEW block \in Block, NEW place \in Place
  PROVE  MovedTo(block, place) \in Block
BY DEF MovedTo, Block, Place

\* A block put under a parent of the graph orphans nothing.
LEMMA PutSound ==
  ASSUME NEW g \in SoundGraph, NEW b \in BlockId, NEW block \in Block,
         ParentIn(g, block), block.content \notin Blank
  PROVE  Put(g, b, block) \in SoundGraph
<1> DEFINE h == Put(g, b, block)
<1>1. DOMAIN h = DOMAIN g \cup {b}
      /\ \A x \in DOMAIN h : h[x] = IF x = b THEN block ELSE g[x]
  BY DEF Put
<1>2. h \in Graph
  BY PutGraph DEF SoundGraph
<1>3. ASSUME NEW x \in DOMAIN h PROVE ParentIn(h, h[x]) /\ h[x].content \notin Blank
  <2>1. CASE x = b
    BY <1>1, <2>1 DEF ParentIn
  <2>2. CASE x # b
    <3>1. x \in DOMAIN g /\ h[x] = g[x]
      BY <1>1, <2>2
    <3>2. ParentIn(g, g[x]) /\ g[x].content \notin Blank
      BY <3>1 DEF SoundGraph, Sound
    <3> QED BY <1>1, <3>1, <3>2 DEF ParentIn
  <2> QED BY <2>1, <2>2
<1> QED BY <1>2, <1>3 DEF SoundGraph, Sound

\* A leaf taken out orphans nothing: CanDelete asks for no children.
LEMMA WithoutSound ==
  ASSUME NEW g \in SoundGraph, NEW b, CanDelete(g, b), b # None
  PROVE  Without(g, b) \in SoundGraph
<1> DEFINE h == Without(g, b)
<1>1. DOMAIN h = DOMAIN g \ {b} /\ \A x \in DOMAIN h : h[x] = g[x]
  BY DEF Without
<1>2. h \in Graph
  BY WithoutGraph DEF SoundGraph
<1>3. ASSUME NEW x \in DOMAIN h PROVE ParentIn(h, h[x]) /\ h[x].content \notin Blank
  <2>1. x \in DOMAIN g /\ h[x] = g[x]
    BY <1>1
  <2>2. ParentIn(g, g[x]) /\ g[x].content \notin Blank
    BY <2>1 DEF SoundGraph, Sound
  <2>3. g[x].parent # b
    BY <2>1 DEF CanDelete, Children
  <2> QED BY <1>1, <2>1, <2>2, <2>3 DEF ParentIn
<1> QED BY <1>2, <1>3 DEF SoundGraph, Sound

----------------------------------------------------------------------------
(* Replay *)

SoundWork ==
  {w \in [version : Nat, manuscript : Nat, blocks : SoundGraph, deps : SUBSET Dependency] :
     w.manuscript \in 1..w.version}

LEMMA SoundWorksAreWorks ==
  ASSUME NEW w \in SoundWork
  PROVE  IsWork(w) /\ w.blocks \in Graph /\ Sound(w.blocks)
BY GraphsAreGraphs DEF SoundWork, IsWork, SoundGraph

\* A block of the ids is not None.
LEMMA IdsAreSome == \A b \in BlockId : b # None
BY WorkAssumption

LEMMA BlocksAfterSound ==
  ASSUME NEW w \in SoundWork, NEW e \in Event, Applies(w, e)
  PROVE  BlocksAfter(w.blocks, e) \in SoundGraph
<1> DEFINE g == w.blocks
<1>1. g \in SoundGraph /\ g \in Graph
  BY DEF SoundWork, SoundGraph
<1> HIDE DEF g
<1>2. CASE e.type \in {"added", "edited"}
  <2>1. e.id \in BlockId /\ e.block \in Block
    BY <1>2 DEF Event
  <2>2. ParentIn(g, e.block) /\ e.block.content \notin Blank
    BY <1>2 DEF Applies, CanAdd, CanEdit, g
  <2>3. BlocksAfter(g, e) = Put(g, e.id, e.block)
    BY <1>2 DEF BlocksAfter
  <2> QED BY <1>1, <2>1, <2>2, <2>3, PutSound DEF g
<1>3. CASE e.type = "deleted"
  <2>1. e.id \in BlockId
    BY <1>3 DEF Event
  <2>2. CanDelete(g, e.id)
    BY <1>3 DEF Applies, g
  <2>3. BlocksAfter(g, e) = Without(g, e.id)
    BY <1>3 DEF BlocksAfter
  <2> QED BY <1>1, <2>1, <2>2, <2>3, WithoutSound, IdsAreSome DEF g
<1>4. CASE e.type = "moved"
  <2>1. e.id \in BlockId /\ e.after \in Place
    BY <1>4 DEF Event
  <2>2. CanMove(g, e.id, e.after)
    BY <1>4 DEF Applies, g
  <2>3. CanEdit(g, e.id, MovedTo(g[e.id], e.after))
    BY <2>2 DEF CanMove
  <2>4. MovedTo(g[e.id], e.after) \in Block
    BY <1>1, <2>1, <2>3, GraphElements, MovedIsBlock DEF CanEdit
  <2>5. BlocksAfter(g, e) = Put(g, e.id, MovedTo(g[e.id], e.after))
    BY <1>4 DEF BlocksAfter
  <2> QED BY <1>1, <2>1, <2>3, <2>4, <2>5, PutSound DEF CanEdit, g
<1>5. CASE e.type \notin {"added", "edited", "deleted", "moved"}
  <2>1. BlocksAfter(g, e) = g
    BY <1>5 DEF BlocksAfter
  <2> QED BY <1>1, <2>1 DEF g
<1> QED BY <1>2, <1>3, <1>4, <1>5

LEMMA DepsAfterType ==
  ASSUME NEW deps \in SUBSET Dependency, NEW e \in Event
  PROVE  DepsAfter(deps, e) \in SUBSET Dependency
<1>1. CASE e.type = "registered"
  <2>1. e.source \in Resource /\ e.dependent \in Resource
    BY <1>1 DEF Event
  <2>2. [source |-> e.source, dependent |-> e.dependent, stale |-> FALSE] \in Dependency
    BY <2>1 DEF Dependency
  <2> QED BY <1>1, <2>2 DEF DepsAfter
<1>2. CASE e.type = "invalidated"
  <2>1. ASSUME NEW d \in deps
        PROVE  [d EXCEPT !.stale = @ \/ d.dependent = e.dependent] \in Dependency
    <3>1. d \in Dependency
      OBVIOUS
    <3> QED BY <3>1, Zenon DEF Dependency
  <2>2. MarkStale(deps, e.dependent) \in SUBSET Dependency
    BY <2>1 DEF MarkStale
  <2> QED BY <1>2, <2>2 DEF DepsAfter
<1>3. CASE e.type \notin {"registered", "invalidated"}
  BY <1>3 DEF DepsAfter
<1> QED BY <1>1, <1>2, <1>3

\* An event that applies keeps a work sound.
LEMMA ApplySound ==
  ASSUME NEW w \in SoundWork, NEW e \in Event, Applies(w, e)
  PROVE  Apply(w, e) \in SoundWork
<1>1. BlocksAfter(w.blocks, e) \in SoundGraph
  BY BlocksAfterSound
<1>2. w.version \in Nat /\ w.manuscript \in 1..w.version /\ w.deps \in SUBSET Dependency
  BY DEF SoundWork
<1>3. DepsAfter(w.deps, e) \in SUBSET Dependency
  BY <1>2, DepsAfterType
<1> QED BY <1>1, <1>2, <1>3 DEF Apply, SoundWork

LEMMA NewWorkSound == NewWork \in SoundWork
<1>1. <<>> \in [{} -> Block] /\ DOMAIN <<>> = {}
  OBVIOUS
<1>2. <<>> \in SoundGraph
  BY <1>1 DEF SoundGraph, Graph, Sound
<1> QED BY <1>2 DEF NewWork, SoundWork

\* One step of a replay, and all its states: f[n] is the work after n events.
ReplayStep(events, n, w) ==
  IF n = 1 THEN IF events[1].type = "created" THEN NewWork ELSE None
  ELSE IF w # None /\ Applies(w, events[n]) THEN Apply(w, events[n]) ELSE None

IsReplay(f, events) ==
  /\ f \in [0..Len(events) -> SoundWork \cup {None}]
  /\ f[0] = None
  /\ \A n \in 1..Len(events) : f[n] = ReplayStep(events, n, f[n-1])

\* A replay of any events has its states, each a sound work or None.
LEMMA ReplayIsWalk ==
  ASSUME NEW events \in Seq(Event)
  PROVE  \E f : IsReplay(f, events) /\ Replay(events) = f[Len(events)]
<1> DEFINE N == Len(events)
           V == SoundWork \cup {None}
           Step(n, w) == ReplayStep(events, n, w)
           P(f) == f = [n \in 0..N |->
             IF n = 0 THEN None
             ELSE IF n = 1 THEN IF events[1].type = "created" THEN NewWork ELSE None
             ELSE LET w == f[n-1] IN
                  IF w # None /\ Applies(w, events[n]) THEN Apply(w, events[n]) ELSE None]
           F == CHOOSE f : P(f)
<1>1. N \in Nat /\ \A n \in 1..N : events[n] \in Event
  OBVIOUS
<1> HIDE DEF N
<1>2. ASSUME NEW n \in 1..N, NEW w \in V PROVE Step(n, w) \in V
  <2>1. w # None /\ Applies(w, events[n]) => Apply(w, events[n]) \in SoundWork
    BY <1>1, ApplySound
  <2> QED BY <2>1, NewWorkSound DEF ReplayStep
<1>3. \E f : P(f)
  <2> DEFINE step == [n \in 1..N |-> [w \in V |-> Step(n, w)]]
  <2>1. step \in [1..N -> [V -> V]]
    <3> HIDE DEF Step, V
    <3> QED BY <1>2
  <2>2. None \in V
    OBVIOUS
  <2>3. PICK f \in [0..N -> V] : Recurs(f, N, None, step)
    <3> HIDE DEF step, V, P, F, Step
    <3> QED BY <1>1, <2>1, <2>2, RecursionExists
  <2>4. ASSUME NEW n \in 1..N PROVE f[n] = Step(n, f[n-1])
    <3>1. n - 1 \in 0..N
      BY <1>1
    <3>2. f[n-1] \in V
      BY <3>1
    <3> HIDE DEF V, Step
    <3> QED BY <2>3, <3>2 DEF Recurs
  <2>5. \A n \in 0..N : n # 0 => n \in 1..N
    BY <1>1
  <2>6. P(f)
    BY <2>3, <2>4, <2>5 DEF Recurs, ReplayStep
  <2> QED BY <2>6
<1>4. P(F)
  <2> HIDE DEF P
  <2> QED BY <1>3
<1>5. Replay(events) = F[N]
  BY DEF Replay, N
<1>6. F[0] = None
  <2> HIDE DEF F
  <2> QED BY <1>1, <1>4
<1>7. ASSUME NEW n \in 1..N PROVE F[n] = Step(n, F[n-1])
  <2>1. n \in 0..N /\ n # 0
    BY <1>1
  <2> HIDE DEF F
  <2> QED BY <1>4, <2>1 DEF ReplayStep
<1>8. ASSUME NEW n \in 1..N, F[n-1] \in V PROVE F[n] \in V
  <2> HIDE DEF F, V, Step
  <2> QED BY <1>2, <1>7, <1>8
<1>9. ASSUME NEW m \in 0..N PROVE F[m] \in V
  <2>1. m \in Nat /\ F[0] \in V /\ \A n \in 1..m : n \in 1..N
    BY <1>1, <1>6
  <2> HIDE DEF F, V
  <2> QED BY <1>8, <2>1, RecursionStays
<1>10. F \in [0..N -> V]
  <2>1. F = [n \in 0..N |-> F[n]]
    <3> HIDE DEF F
    <3> QED BY <1>4
  <2> HIDE DEF F, V
  <2> QED BY <1>9, <2>1
<1>11. IsReplay(F, events)
  <2> HIDE DEF F, P
  <2> QED BY <1>6, <1>7, <1>10 DEF IsReplay, N
<1> QED BY <1>5, <1>11 DEF N

LEMMA ReplaySound ==
  ASSUME NEW events \in Seq(Event)
  PROVE  Replay(events) \in SoundWork \cup {None}
<1>1. PICK f : IsReplay(f, events) /\ Replay(events) = f[Len(events)]
  BY ReplayIsWalk
<1>2. Len(events) \in 0..Len(events)
  OBVIOUS
<1> QED BY <1>1, <1>2 DEF IsReplay

\* The states of two replays are the same as long as the events are.
LEMMA ReplaysAgree ==
  ASSUME NEW events \in Seq(Event), NEW more \in Seq(Event), NEW f, NEW g,
         IsReplay(f, events), IsReplay(g, more),
         NEW n \in Nat, n <= Len(events), n <= Len(more),
         \A i \in 1..n : events[i] = more[i]
  PROVE  \A i \in 0..n : f[i] = g[i]
<1> DEFINE T == {i \in Nat : i <= n => f[i] = g[i]}
<1>1. 0 \in T
  BY DEF IsReplay
<1>2. ASSUME NEW i \in T PROVE i + 1 \in T
  <2> SUFFICES ASSUME i + 1 <= n PROVE f[i + 1] = g[i + 1]
    OBVIOUS
  <2>1. /\ i + 1 \in 1..Len(events) /\ i + 1 \in 1..Len(more) /\ (i + 1) - 1 = i
        /\ f[i] = g[i] /\ events[i + 1] = more[i + 1] /\ events[1] = more[1]
    OBVIOUS
  <2>2. f[i + 1] = ReplayStep(events, i + 1, f[i]) /\ g[i + 1] = ReplayStep(more, i + 1, g[i])
    BY <2>1 DEF IsReplay
  <2>3. ReplayStep(events, i + 1, f[i]) = ReplayStep(more, i + 1, g[i])
    BY <2>1 DEF ReplayStep
  <2> QED BY <2>2, <2>3
<1>3. T = Nat
  <2>1. T \in SUBSET Nat
    OBVIOUS
  <2> HIDE DEF T
  <2> QED BY <1>1, <1>2, <2>1, InductionOnNat
<1>4. ASSUME NEW i \in 0..n PROVE f[i] = g[i]
  <2>1. i \in T /\ i <= n
    <3> HIDE DEF T
    <3> QED BY <1>3
  <2> QED BY <2>1
<1> QED BY <1>4

\* The state after n events is the replay of the first n.
LEMMA ReplayOfPrefix ==
  ASSUME NEW events \in Seq(Event), NEW f, IsReplay(f, events), NEW n \in 0..Len(events)
  PROVE  Replay(SubSeq(events, 1, n)) = f[n]
<1> DEFINE es == SubSeq(events, 1, n)
<1>1. es \in Seq(Event) /\ Len(es) = n /\ \A i \in 1..n : es[i] = events[i]
  OBVIOUS
<1> HIDE DEF es
<1>2. PICK g : IsReplay(g, es) /\ Replay(es) = g[Len(es)]
  BY <1>1, ReplayIsWalk
<1>3. g[n] = f[n]
  <2>1. n \in Nat /\ n <= Len(events) /\ n \in 0..n
    OBVIOUS
  <2> QED BY <1>1, <1>2, <2>1, ReplaysAgree
<1> QED BY <1>1, <1>2, <1>3 DEF es

\* The manuscript's revision only grows, and with every material event.
LEMMA RevisionsGrow ==
  ASSUME NEW events \in Seq(Event), NEW f, IsReplay(f, events),
         NEW n \in 1..Len(events), n # 1, f[n] # None
  PROVE  /\ f[n-1] # None /\ Applies(f[n-1], events[n]) /\ f[n] = Apply(f[n-1], events[n])
         /\ f[n-1] \in SoundWork /\ f[n-1].manuscript \in Nat /\ f[n].manuscript \in Nat
         /\ f[n-1].manuscript <= f[n].manuscript
         /\ events[n].type \in Material => f[n-1].manuscript < f[n].manuscript
<1>1. f[n] = ReplayStep(events, n, f[n-1]) /\ n - 1 \in 0..Len(events)
  BY DEF IsReplay
<1>2. f[n-1] # None /\ Applies(f[n-1], events[n]) /\ f[n] = Apply(f[n-1], events[n])
  BY <1>1 DEF ReplayStep
<1>3. f[n-1] \in SoundWork
  BY <1>1, <1>2 DEF IsReplay
<1>4. f[n-1].manuscript \in Nat
  BY <1>3 DEF SoundWork
<1>5. f[n].manuscript = f[n-1].manuscript + (IF events[n].type \in Material THEN 1 ELSE 0)
  BY <1>2 DEF Apply
<1> QED BY <1>2, <1>3, <1>4, <1>5

\* Between two states with one revision there is no material event.
LEMMA SameRevisionSameText ==
  ASSUME NEW events \in Seq(Event), NEW f, IsReplay(f, events),
         NEW a \in 1..Len(events), NEW b \in a..Len(events),
         f[a] # None, f[b] # None, f[a].manuscript = f[b].manuscript
  PROVE  \A m \in (a + 1)..b : events[m].type \notin Material
<1>1. ASSUME NEW m \in a..b PROVE f[m] # None
  <2> DEFINE T == {i \in Nat : i <= b - a => f[b - i] # None}
  <2>1. 0 \in T
    OBVIOUS
  <2>2. ASSUME NEW i \in T PROVE i + 1 \in T
    <3> SUFFICES ASSUME i + 1 <= b - a PROVE f[b - (i + 1)] # None
      OBVIOUS
    <3>1. /\ b - i \in 1..Len(events) /\ b - i # 1 /\ (b - i) - 1 = b - (i + 1)
          /\ f[b - i] # None
      OBVIOUS
    <3> QED BY <3>1, RevisionsGrow
  <2>3. T = Nat
    <3>1. T \in SUBSET Nat
      OBVIOUS
    <3> HIDE DEF T
    <3> QED BY <2>1, <2>2, <3>1, InductionOnNat
  <2>4. b - m \in T /\ b - m <= b - a /\ b - (b - m) = m
    <3> HIDE DEF T
    <3> QED BY <2>3
  <2> QED BY <2>4
<1>2. ASSUME NEW m \in (a + 1)..b
      PROVE  /\ m \in 1..Len(events) /\ m # 1 /\ f[m] # None
             /\ f[m].manuscript \in Nat /\ f[m-1].manuscript \in Nat
             /\ f[m-1].manuscript <= f[m].manuscript
             /\ events[m].type \in Material => f[m-1].manuscript < f[m].manuscript
  <2>1. m \in a..b /\ m \in 1..Len(events) /\ m # 1
    OBVIOUS
  <2> QED BY <1>1, <2>1, RevisionsGrow
<1>3. ASSUME NEW i \in a..b
      PROVE  \A m \in i..b : f[i].manuscript <= f[m].manuscript
  <2> DEFINE T == {k \in Nat : i + k <= b => f[i].manuscript <= f[i + k].manuscript}
  <2>1. f[i].manuscript \in Nat
    <3>1. i \in 0..Len(events) /\ f[i] # None
      BY <1>1
    <3>2. f[i] \in SoundWork
      BY <3>1 DEF IsReplay
    <3> QED BY <3>2 DEF SoundWork
  <2>2. 0 \in T
    BY <2>1
  <2>3. ASSUME NEW k \in T PROVE k + 1 \in T
    <3> SUFFICES ASSUME i + (k + 1) <= b PROVE f[i].manuscript <= f[i + (k + 1)].manuscript
      OBVIOUS
    <3>1. /\ i + (k + 1) \in (a + 1)..b /\ (i + (k + 1)) - 1 = i + k
          /\ f[i].manuscript <= f[i + k].manuscript
      OBVIOUS
    <3>2. /\ f[i + k].manuscript \in Nat /\ f[i + (k + 1)].manuscript \in Nat
          /\ f[i + k].manuscript <= f[i + (k + 1)].manuscript
      BY <1>2, <3>1
    <3> QED BY <2>1, <3>1, <3>2
  <2>4. T = Nat
    <3>1. T \in SUBSET Nat
      OBVIOUS
    <3> HIDE DEF T
    <3> QED BY <2>2, <2>3, <3>1, InductionOnNat
  <2>5. ASSUME NEW m \in i..b PROVE f[i].manuscript <= f[m].manuscript
    <3>1. m - i \in T /\ i + (m - i) = m /\ m <= b
      <4> HIDE DEF T
      <4> QED BY <2>4
    <3> QED BY <3>1
  <2> QED BY <2>5
<1>4. ASSUME NEW m \in (a + 1)..b, events[m].type \in Material PROVE FALSE
  <2>1. /\ a \in a..b /\ m - 1 \in a..b /\ m \in a..b /\ b \in m..b /\ m - 1 \in a..b
    OBVIOUS
  <2>2. f[a].manuscript <= f[m-1].manuscript /\ f[m].manuscript <= f[b].manuscript
    BY <1>3, <2>1
  <2>3. f[m-1].manuscript < f[m].manuscript /\ f[m].manuscript \in Nat /\ f[m-1].manuscript \in Nat
    BY <1>2, <1>4
  <2>4. f[a].manuscript \in Nat
    <3>1. a \in 0..Len(events)
      OBVIOUS
    <3>2. f[a] \in SoundWork
      BY <3>1 DEF IsReplay
    <3> QED BY <3>2 DEF SoundWork
  <2> QED BY <2>2, <2>3, <2>4
<1> QED BY <1>4

----------------------------------------------------------------------------
(* The events of the handlers *)

LEMMA DependencyIsFinite == IsFiniteSet(Dependency)
<1> DEFINE T == (Resource \X Resource) \X BOOLEAN
           f == [t \in T |-> [source |-> t[1][1], dependent |-> t[1][2], stale |-> t[2]]]
<1>1. IsFiniteSet(T)
  <2>1. IsFiniteSet(Resource)
    BY WorkAssumption
  <2>2. IsFiniteSet({TRUE} \cup {FALSE})
    BY FS_Singleton, FS_Union, Zenon
  <2>3. BOOLEAN = {TRUE} \cup {FALSE}
    BY Zenon
  <2>4. IsFiniteSet(Resource \X Resource) /\ IsFiniteSet(BOOLEAN)
    BY <2>1, <2>2, <2>3, FS_Product, Zenon
  <2> QED BY <2>4, FS_Product, Zenon
<1>2. f \in [T -> Dependency]
  BY DEF Dependency
<1>3. ASSUME NEW d \in Dependency PROVE \E t \in T : f[t] = d
  <2>1. /\ d.source \in Resource /\ d.dependent \in Resource /\ d.stale \in BOOLEAN
        /\ d = [source |-> d.source, dependent |-> d.dependent, stale |-> d.stale]
    BY DEF Dependency
  <2>2. <<<<d.source, d.dependent>>, d.stale>> \in T
    BY <2>1
  <2>3. f[<<<<d.source, d.dependent>>, d.stale>>]
          = [source |-> d.source, dependent |-> d.dependent, stale |-> d.stale]
    BY <2>2
  <2> QED BY <2>1, <2>2, <2>3
<1>4. f \in Surjection(T, Dependency)
  <2> HIDE DEF f, T
  <2> QED BY <1>2, <1>3 DEF Surjection
<1> HIDE DEF f, T
<1> QED BY <1>1, <1>4, FS_Surjection

\* f are the resources met from r, round by round.
Meets(f, deps, r, n) ==
  /\ f[0] = {r}
  /\ \A i \in 0..n : f[i] \in SUBSET Resource
  /\ \A i \in 1..n :
       f[i] = f[i-1] \cup {d.dependent : d \in {x \in deps : x.source \in f[i-1]}}

\* The rounds of the walk over the dependents.
LEMMA DependentsAreMet ==
  ASSUME NEW deps \in SUBSET Dependency, NEW r \in Resource
  PROVE  \E f : /\ Meets(f, deps, r, Cardinality(deps))
               /\ TransitiveDependents(deps, r) = f[Cardinality(deps)] \ {r}
<1> DEFINE N == Cardinality(deps)
           V == SUBSET Resource
           Step(known) == known \cup {d.dependent : d \in {x \in deps : x.source \in known}}
           P(f) == f = [n \in 0..N |->
             IF n = 0 THEN {r}
             ELSE LET known == f[n-1] IN
                  known \cup {d.dependent : d \in {x \in deps : x.source \in known}}]
           F == CHOOSE f : P(f)
<1>1. N \in Nat
  BY DependencyIsFinite, FS_Subset, FS_CardinalityType
<1> HIDE DEF N
<1>2. ASSUME NEW known \in V PROVE Step(known) \in V
  BY DEF Dependency
<1>3. \E f : P(f)
  <2> DEFINE step == [n \in 1..N |-> [known \in V |-> Step(known)]]
  <2>1. step \in [1..N -> [V -> V]]
    <3> HIDE DEF Step, V
    <3> QED BY <1>2
  <2>2. {r} \in V
    OBVIOUS
  <2>3. PICK f \in [0..N -> V] : Recurs(f, N, {r}, step)
    <3> HIDE DEF step, V, P, F, Step
    <3> QED BY <1>1, <2>1, <2>2, RecursionExists
  <2>4. ASSUME NEW n \in 1..N PROVE f[n] = Step(f[n-1])
    <3>1. n - 1 \in 0..N
      BY <1>1
    <3>2. f[n-1] \in V
      BY <3>1
    <3> HIDE DEF V, Step
    <3> QED BY <2>3, <3>2 DEF Recurs
  <2>5. \A n \in 0..N : n # 0 => n \in 1..N
    BY <1>1
  <2>6. P(f)
    BY <2>3, <2>4, <2>5 DEF Recurs
  <2> QED BY <2>6
<1>4. P(F)
  <2> HIDE DEF P
  <2> QED BY <1>3
<1>5. TransitiveDependents(deps, r) = F[N] \ {r}
  BY DEF TransitiveDependents, N
<1>6. F[0] = {r}
  <2> HIDE DEF F
  <2> QED BY <1>1, <1>4
<1>7. ASSUME NEW n \in 1..N PROVE F[n] = Step(F[n-1])
  <2>1. n \in 0..N /\ n # 0
    BY <1>1
  <2> HIDE DEF F
  <2> QED BY <1>4, <2>1
<1>8. ASSUME NEW m \in 0..N PROVE F[m] \in V
  <2>1. m \in Nat /\ F[0] \in V /\ \A n \in 1..m : n \in 1..N
    <3> HIDE DEF F
    <3> QED BY <1>1, <1>6
  <2>2. ASSUME NEW n \in 1..N, F[n-1] \in V PROVE F[n] \in V
    <3> HIDE DEF F, V, Step
    <3> QED BY <1>2, <1>7, <2>2
  <2> HIDE DEF F, V
  <2> QED BY <2>1, <2>2, RecursionStays
<1>9. Meets(F, deps, r, N)
  <2> HIDE DEF F
  <2> QED BY <1>6, <1>7, <1>8 DEF Meets
<1> HIDE DEF F
<1> QED BY <1>5, <1>9 DEF N

LEMMA CountingDependencies ==
  ASSUME NEW deps \in SUBSET Dependency
  PROVE  IsFiniteSet(deps) /\ Cardinality(deps) \in Nat
BY DependencyIsFinite, FS_Subset, FS_CardinalityType

\* What depends on a resource are resources.
LEMMA DependentsAreResources ==
  ASSUME NEW deps \in SUBSET Dependency, NEW r \in Resource
  PROVE  TransitiveDependents(deps, r) \in SUBSET Resource
<1>1. Cardinality(deps) \in 0..Cardinality(deps)
  BY CountingDependencies
<1> QED BY <1>1, DependentsAreMet DEF Meets

\* There are rounds enough: with every dependency of which a resource is met there is the
\* dependent, since a round that meets something new uses up a dependency.
LEMMA DependentsAreClosed ==
  ASSUME NEW deps \in SUBSET Dependency, NEW r \in Resource,
         NEW S, S = TransitiveDependents(deps, r) \cup {r}
  PROVE  S \in SUBSET Resource /\ \A d \in deps : d.source \in S => d.dependent \in S
<1> DEFINE N == Cardinality(deps)
<1>1. N \in Nat /\ IsFiniteSet(deps)
  BY CountingDependencies
<1>2. PICK f : Meets(f, deps, r, N) /\ TransitiveDependents(deps, r) = f[N] \ {r}
  BY DependentsAreMet
<1> DEFINE Closed(n) == \A d \in deps : d.source \in f[n] => d.dependent \in f[n]
           used(n) == {d \in deps : d.dependent \in f[n]}
           T == {n \in Nat : n <= N => Closed(n) \/ Cardinality(used(n)) >= n}
<1>3. ASSUME NEW n \in Nat
      PROVE  IsFiniteSet(used(n)) /\ Cardinality(used(n)) \in Nat /\ used(n) \in SUBSET deps
  BY <1>1, FS_Subset, FS_CardinalityType
<1> HIDE DEF N
<1>4. 0 \in T
  <2> HIDE DEF used, Closed
  <2> QED BY <1>3
<1>5. ASSUME NEW n \in T PROVE n + 1 \in T
  <2> SUFFICES ASSUME n + 1 <= N PROVE Closed(n + 1) \/ Cardinality(used(n + 1)) >= n + 1
    <3> HIDE DEF used, Closed
    <3> QED OBVIOUS
  <2>1. n \in Nat /\ n + 1 \in 1..N /\ (n + 1) - 1 = n
    BY <1>1
  <2>2. f[n + 1] = f[n] \cup {d.dependent : d \in {x \in deps : x.source \in f[n]}}
    BY <1>2, <2>1 DEF Meets
  <2>3. Closed(n) \/ Cardinality(used(n)) >= n
    <3> HIDE DEF used, Closed
    <3> QED BY <1>1, <2>1
  <2>4. CASE Closed(n)
    <3>1. f[n + 1] = f[n]
      BY <2>2, <2>4
    <3> QED BY <2>4, <3>1
  <2>5. CASE ~Closed(n) /\ Cardinality(used(n)) >= n
    <3>1. PICK d \in deps : d.source \in f[n] /\ d.dependent \notin f[n]
      BY <2>5
    <3>2. d \in used(n + 1) /\ d \notin used(n) /\ used(n) \in SUBSET used(n + 1)
      BY <2>2, <3>1
    <3> HIDE DEF used
    <3>3. /\ IsFiniteSet(used(n + 1))
          /\ Cardinality(used(n)) \in Nat /\ Cardinality(used(n + 1)) \in Nat
      BY <1>3, <2>1
    <3>4. /\ Cardinality(used(n)) <= Cardinality(used(n + 1))
          /\ Cardinality(used(n + 1)) = Cardinality(used(n)) => used(n + 1) = used(n)
      BY <3>2, <3>3, FS_Subset
    <3> QED BY <2>1, <2>5, <3>2, <3>3, <3>4
  <2> QED BY <2>3, <2>4, <2>5
<1>6. T = Nat
  <2>1. T \in SUBSET Nat
    OBVIOUS
  <2> HIDE DEF T
  <2> QED BY <1>4, <1>5, <2>1, InductionOnNat
<1>7. Closed(N) \/ Cardinality(used(N)) >= N
  <2>1. N \in T
    <3> HIDE DEF T
    <3> QED BY <1>1, <1>6
  <2> HIDE DEF used, Closed
  <2> QED BY <1>1, <2>1
<1>8. Closed(N)
  <2>1. CASE Cardinality(used(N)) >= N
    <3>1. /\ used(N) \in SUBSET deps /\ Cardinality(used(N)) \in Nat
          /\ Cardinality(used(N)) <= N
          /\ N = Cardinality(used(N)) => deps = used(N)
      <4> HIDE DEF used
      <4> QED BY <1>1, <1>3, FS_Subset DEF N
    <3>2. deps = used(N)
      <4> HIDE DEF used
      <4> QED BY <1>1, <2>1, <3>1
    <3> QED BY <3>2
  <2> QED BY <1>7, <2>1
<1>9. S = f[N]
  <2>1. r \in f[N]
    <3> DEFINE U == {X \in SUBSET Resource : r \in X}
    <3>1. f[0] \in U
      BY <1>2 DEF Meets
    <3>2. ASSUME NEW i \in 1..N, f[i-1] \in U PROVE f[i] \in U
      <4>1. i \in 0..N
        BY <1>1
      <4> QED BY <1>2, <3>2, <4>1 DEF Meets
    <3>3. f[N] \in U
      <4> HIDE DEF U
      <4> QED BY <1>1, <3>1, <3>2, RecursionStays
    <3> QED BY <3>3
  <2> QED BY <1>2, <2>1
<1>10. f[N] \in SUBSET Resource
  <2>1. N \in 0..N
    BY <1>1
  <2> QED BY <1>2, <2>1 DEF Meets
<1> QED BY <1>8, <1>9, <1>10

LEMMA SetToSeqType ==
  ASSUME NEW S, IsFiniteSet(S)
  PROVE  SetToSeq(S) \in Seq(S)
<1>1. Cardinality(S) \in Nat /\ ExistsBijection(1..Cardinality(S), S)
  BY FS_CardinalityType
<1>2. \E f \in [1..Cardinality(S) -> S] : IsInjective(f)
  BY <1>1 DEF ExistsBijection, Bijection, Injection
<1>3. SetToSeq(S) \in [1..Cardinality(S) -> S]
  BY <1>2 DEF SetToSeq
<1> QED BY <1>1, <1>3

\* What a change of the blocks or of the dependencies yields says nothing of findings.
QuietEvent == {e \in Event : e.type \notin {"recorded", "decided"}}

LEMMA InvalidationsType ==
  ASSUME NEW w \in SoundWork, NEW b \in BlockId
  PROVE  Invalidations(w, b) \in Seq(QuietEvent)
<1> DEFINE S == TransitiveDependents(w.deps, b)
           rs == SetToSeq(S)
<1>1. S \in SUBSET Resource
  <2>1. w.deps \in SUBSET Dependency /\ b \in Resource
    BY WorkAssumption DEF SoundWork
  <2> QED BY <2>1, DependentsAreResources
<1>2. IsFiniteSet(S)
  BY <1>1, WorkAssumption, FS_Subset
<1>3. rs \in Seq(S)
  <2> HIDE DEF S
  <2> QED BY <1>2, SetToSeqType
<1> HIDE DEF rs, S
<1>4. rs \in Seq(Resource)
  BY <1>1, <1>3
<1>5. \A i \in DOMAIN rs : Invalidated(rs[i]) \in QuietEvent
  BY <1>4 DEF Invalidated, Event, QuietEvent
<1>6. [i \in DOMAIN rs |-> Invalidated(rs[i])] \in Seq(QuietEvent)
  BY <1>4, <1>5
<1> QED BY <1>6 DEF Invalidations, rs, S

\* An operation that fits the snapshot and the graph keeps it a graph.
LEMMA PerformedGraph ==
  ASSUME NEW w \in SoundWork, NEW g \in Graph, NEW o \in Operation,
         FitsSnapshot(w, o), FitsGraph(w, g, o)
  PROVE  Performed(w, g, o) \in Graph
<1>1. w.blocks \in Graph
  BY SoundWorksAreWorks
<1>2. CASE o.op = "insert"
  <2>1. o.id \in BlockId /\ o.block \in Block
    BY <1>2 DEF Operation
  <2> QED BY <1>2, <2>1, PutGraph DEF Performed
<1>3. CASE o.op = "delete"
  BY <1>3, WithoutGraph DEF Performed
<1>4. CASE o.op = "move"
  <2>1. o.id \in BlockId /\ o.after \in Place
    BY <1>4 DEF Operation
  <2>2. o.id \in DOMAIN g
    BY <1>4 DEF FitsGraph, CanMove
  <2>3. MovedTo(g[o.id], o.after) \in Block
    BY <2>1, <2>2, GraphElements, MovedIsBlock
  <2> QED BY <1>4, <2>1, <2>3, PutGraph DEF Performed
<1>5. CASE o.op = "replace"
  <2>1. o.id \in BlockId /\ o.after \in Content
    BY <1>5 DEF Operation
  <2>2. o.id \in DOMAIN w.blocks
    BY <1>5 DEF FitsSnapshot
  <2>3. w.blocks[o.id] \in Block
    BY <1>1, <2>2, GraphElements
  <2>4. Rewritten(w.blocks, o) \in Block
    BY <2>1, <2>3 DEF Rewritten, Block
  <2> QED BY <1>5, <2>1, <2>4, PutGraph DEF Performed
<1> QED BY <1>2, <1>3, <1>4, <1>5 DEF Operation

\* f are the graphs that the operations make of the snapshot, one after the other.
Validates(f, w, ops) ==
  /\ f[0] = w.blocks
  /\ \A n \in 0..Len(ops) : f[n] \in Graph
  /\ \A n \in 1..Len(ops) : /\ FitsSnapshot(w, ops[n]) /\ FitsGraph(w, f[n-1], ops[n])
                            /\ f[n] = Performed(w, f[n-1], ops[n])

\* The graphs of a patch that is accepted.
LEMMA ValidatedIsWalk ==
  ASSUME NEW w \in SoundWork, NEW ops \in Seq(Operation), ValidatedGraph(w, ops) # None
  PROVE  \E f : Validates(f, w, ops) /\ ValidatedGraph(w, ops) = f[Len(ops)]
<1> DEFINE N == Len(ops)
           V == Graph \cup {None}
           Step(n, g) ==
             IF g # None /\ FitsSnapshot(w, ops[n]) /\ FitsGraph(w, g, ops[n])
             THEN Performed(w, g, ops[n])
             ELSE None
           P(f) == f = [n \in 0..N |->
             IF n = 0 THEN w.blocks
             ELSE LET g == f[n-1] IN
                  IF g # None /\ FitsSnapshot(w, ops[n]) /\ FitsGraph(w, g, ops[n])
                  THEN Performed(w, g, ops[n])
                  ELSE None]
           F == CHOOSE f : P(f)
<1>1. N \in Nat /\ \A n \in 1..N : ops[n] \in Operation
  OBVIOUS
<1> HIDE DEF N
<1>2. ASSUME NEW n \in 1..N, NEW g \in V PROVE Step(n, g) \in V
  BY <1>1, PerformedGraph
<1>3. \E f : P(f)
  <2> DEFINE step == [n \in 1..N |-> [g \in V |-> Step(n, g)]]
  <2>1. step \in [1..N -> [V -> V]]
    <3> HIDE DEF Step, V
    <3> QED BY <1>2
  <2>2. w.blocks \in V
    BY SoundWorksAreWorks
  <2>3. PICK f \in [0..N -> V] : Recurs(f, N, w.blocks, step)
    <3> HIDE DEF step, V, P, F, Step
    <3> QED BY <1>1, <2>1, <2>2, RecursionExists
  <2>4. ASSUME NEW n \in 1..N PROVE f[n] = Step(n, f[n-1])
    <3>1. n - 1 \in 0..N
      BY <1>1
    <3>2. f[n-1] \in V
      BY <3>1
    <3> HIDE DEF V, Step
    <3> QED BY <2>3, <3>2 DEF Recurs
  <2>5. \A n \in 0..N : n # 0 => n \in 1..N
    BY <1>1
  <2>6. P(f)
    BY <2>3, <2>4, <2>5 DEF Recurs
  <2> QED BY <2>6
<1>4. P(F)
  <2> HIDE DEF P
  <2> QED BY <1>3
<1>5. F[N] # None /\ ValidatedGraph(w, ops) = F[N]
  BY DEF ValidatedGraph, N
<1>6. F[0] = w.blocks
  <2> HIDE DEF F
  <2> QED BY <1>1, <1>4
<1>7. ASSUME NEW n \in 1..N PROVE F[n] = Step(n, F[n-1])
  <2>1. n \in 0..N /\ n # 0
    BY <1>1
  <2> HIDE DEF F
  <2> QED BY <1>4, <2>1
<1>8. ASSUME NEW n \in 0..N PROVE F[n] \in V
  <2>1. n \in Nat /\ \A m \in 1..n : m \in 1..N
    BY <1>1
  <2>2. F[0] \in V
    <3> HIDE DEF F
    <3> QED BY <1>6, SoundWorksAreWorks
  <2>3. ASSUME NEW m \in 1..n, F[m-1] \in V PROVE F[m] \in V
    <3> HIDE DEF F, V, Step
    <3> QED BY <1>2, <1>7, <2>1, <2>3
  <2> HIDE DEF F, V
  <2> QED BY <2>1, <2>2, <2>3, RecursionStays
<1>9. ASSUME NEW n \in 1..N, F[n] # None
      PROVE  /\ F[n-1] # None /\ FitsSnapshot(w, ops[n]) /\ FitsGraph(w, F[n-1], ops[n])
             /\ F[n] = Performed(w, F[n-1], ops[n])
  <2> HIDE DEF F
  <2> QED BY <1>7, <1>9
<1> HIDE DEF F, P, Step
<1> DEFINE T == {m \in Nat : m <= N => F[N - m] # None}
<1>10. T = Nat
  <2>1. 0 \in T
    BY <1>1, <1>5
  <2>2. ASSUME NEW m \in T PROVE m + 1 \in T
    <3> SUFFICES ASSUME m + 1 <= N PROVE F[N - (m + 1)] # None
      OBVIOUS
    <3>1. N - m \in 1..N /\ (N - m) - 1 = N - (m + 1) /\ F[N - m] # None
      BY <1>1
    <3> QED BY <1>9, <3>1
  <2>3. T \in SUBSET Nat
    OBVIOUS
  <2> HIDE DEF T
  <2> QED BY <2>1, <2>2, <2>3, InductionOnNat
<1>11. ASSUME NEW n \in 0..N PROVE F[n] # None
  <2>1. N - n \in Nat /\ N - n <= N /\ N - (N - n) = n
    BY <1>1
  <2>2. N - n \in T
    <3> HIDE DEF T
    <3> QED BY <1>10, <2>1
  <2> QED BY <2>1, <2>2
<1>12. Validates(F, w, ops)
  <2>1. \A n \in 0..N : F[n] \in Graph
    BY <1>8, <1>11
  <2>2. \A n \in 1..N : n \in 0..N
    BY <1>1
  <2> QED BY <1>6, <1>9, <1>11, <2>1, <2>2 DEF Validates, N
<1> QED BY <1>5, <1>12 DEF N

\* The events of an operation: one at least, all of them events.
LEMMA OperationEventsType ==
  ASSUME NEW w \in SoundWork, NEW o \in Operation, FitsSnapshot(w, o)
  PROVE  OperationEvents(w, o) \in Seq(QuietEvent) /\ OperationEvents(w, o) # <<>>
<1>1. w.blocks \in Graph
  BY SoundWorksAreWorks
<1>2. o.id \in BlockId
  BY DEF Operation
<1> DEFINE rest == Invalidations(w, o.id)
<1>3. rest \in Seq(QuietEvent)
  BY <1>2, InvalidationsType
<1> HIDE DEF rest
<1>4. ASSUME NEW e \in QuietEvent
      PROVE  /\ <<e>> \in Seq(QuietEvent) /\ <<e>> # <<>>
             /\ <<e>> \o rest \in Seq(QuietEvent) /\ <<e>> \o rest # <<>>
  BY <1>3
<1>5. CASE o.op = "insert"
  <2>1. Added(o.id, o.block) \in QuietEvent
    BY <1>5 DEF Operation, Added, Event, QuietEvent
  <2> QED BY <1>4, <1>5, <2>1 DEF OperationEvents
<1>6. CASE o.op = "delete"
  <2>1. w.blocks[o.id] \in Block
    BY <1>1, <1>6, GraphElements DEF FitsSnapshot, CanDelete
  <2>2. Deleted(o.id, w.blocks[o.id]) \in QuietEvent
    BY <1>2, <2>1 DEF Deleted, Event, QuietEvent
  <2> QED BY <1>4, <1>6, <2>2 DEF OperationEvents
<1>7. CASE o.op = "move"
  <2>1. Moved(o.id, o.before, o.after) \in QuietEvent
    BY <1>7 DEF Operation, Moved, Event, QuietEvent
  <2>2. OperationEvents(w, o) = <<Moved(o.id, o.before, o.after)>> \o rest
    BY <1>7 DEF OperationEvents, rest
  <2> QED BY <1>4, <2>1, <2>2
<1>8. CASE o.op = "replace"
  <2>1. o.after \in Content
    BY <1>8 DEF Operation
  <2>2. w.blocks[o.id] \in Block
    BY <1>1, <1>8, GraphElements DEF FitsSnapshot
  <2>3. Edited(o.id, Rewritten(w.blocks, o)) \in QuietEvent
    BY <1>2, <2>1, <2>2 DEF Rewritten, Block, Edited, Event, QuietEvent
  <2>4. OperationEvents(w, o) = <<Edited(o.id, Rewritten(w.blocks, o))>> \o rest
    BY <1>8 DEF OperationEvents, rest
  <2> QED BY <1>4, <2>3, <2>4
<1> QED BY <1>5, <1>6, <1>7, <1>8 DEF Operation

\* A flattened sequence is not empty when its first element is not.
LEMMA FlattenSeqSome ==
  ASSUME NEW E, NEW ss \in Seq(Seq(E)), ss # <<>>, ss[1] # <<>>
  PROVE  FlattenSeq(ss) # <<>>
<1> DEFINE N == Len(ss)
           V == {q \in Seq(E) : q # <<>>}
<1>1. PICK f : Flattens(f, ss, N) /\ FlattenSeq(ss) = f[N]
  BY FlattenSeqIsLast
<1>2. N \in Nat /\ N >= 1 /\ \A i \in 1..N : ss[i] \in Seq(E)
  OBVIOUS
<1> HIDE DEF N
<1>3. f[1] \in V
  <2>1. f[1] = ss[1]
    BY <1>1, <1>2 DEF Flattens
  <2> QED BY <1>2, <2>1
<1>4. ASSUME NEW i \in 1..N, i # 1, f[i-1] \in V PROVE f[i] \in V
  <2>1. f[i] = f[i-1] \o ss[i]
    BY <1>1, <1>4 DEF Flattens
  <2> QED BY <1>2, <1>4, <2>1
<1> DEFINE g == [i \in 0..(N - 1) |-> f[i + 1]]
<1>5. g[0] \in V
  BY <1>2, <1>3
<1>6. ASSUME NEW i \in 1..(N - 1), g[i-1] \in V PROVE g[i] \in V
  <2>1. i + 1 \in 1..N /\ i + 1 # 1 /\ (i + 1) - 1 = i /\ i \in 0..(N - 1) /\ i - 1 \in 0..(N - 1)
        /\ (i - 1) + 1 = i
    BY <1>2
  <2>2. g[i] = f[i + 1] /\ g[i-1] = f[i]
    BY <2>1
  <2> HIDE DEF V, g
  <2> QED BY <1>4, <1>6, <2>1, <2>2
<1>7. g[N - 1] \in V
  <2>1. N - 1 \in Nat
    BY <1>2
  <2> HIDE DEF g, V
  <2> QED BY <1>5, <1>6, <2>1, RecursionStays
<1>8. g[N - 1] = f[N]
  BY <1>2
<1> QED BY <1>1, <1>7, <1>8

LEMMA PatchEventsType ==
  ASSUME NEW w \in SoundWork, NEW ops \in Patch, ValidatedGraph(w, ops) # None
  PROVE  PatchEvents(w, ops) \in Seq(QuietEvent) /\ PatchEvents(w, ops) # <<>>
<1> DEFINE ss == [i \in DOMAIN ops |-> OperationEvents(w, ops[i])]
<1>1. ops \in Seq(Operation) /\ ops # <<>>
  BY StreamAssumption DEF IsPatch
<1>2. ASSUME NEW i \in 1..Len(ops)
      PROVE  OperationEvents(w, ops[i]) \in Seq(QuietEvent) /\ OperationEvents(w, ops[i]) # <<>>
  <2>1. ops[i] \in Operation /\ FitsSnapshot(w, ops[i])
    BY <1>1, ValidatedIsWalk DEF Validates
  <2> QED BY <2>1, OperationEventsType
<1>3. ss \in Seq(Seq(QuietEvent)) /\ ss # <<>> /\ ss[1] # <<>>
  <2>1. DOMAIN ops = 1..Len(ops) /\ Len(ops) \in Nat /\ Len(ops) >= 1
    BY <1>1
  <2> QED BY <1>2, <2>1
<1>4. FlattenSeq(ss) \in Seq(QuietEvent) /\ FlattenSeq(ss) # <<>>
  <2> HIDE DEF ss
  <2> QED BY <1>3, FlattenSeqType, FlattenSeqSome
<1> QED BY <1>4 DEF PatchEvents

LEMMA QuietEventsAreEvents == \A q \in Seq(QuietEvent) : q \in Seq(Event)
BY DEF QuietEvent

----------------------------------------------------------------------------
(* The streams *)

StoredCommit ==
  [events : Seq(Event), source : Branch \cup {None}, patch : Patch \cup {<<>>}]

\* The inductive invariant: whatever is in the streams are events.  Nothing is
\* said of what they replay to, since authors may submit any block.
StreamsHoldEvents ==
  /\ stream \in [Branch -> Seq(StoredCommit)]
  /\ \A s \in Branch : \A n \in DOMAIN stream[s] : stream[s][n].events # <<>>

LEMMA EventsUpToType ==
  ASSUME StreamsHoldEvents, NEW s \in Branch, NEW n \in 0..Len(stream[s])
  PROVE  EventsUpTo(s, n) \in Seq(Event)
<1> DEFINE ss == [i \in 1..n |-> stream[s][i].events]
<1>1. stream[s] \in Seq(StoredCommit)
  BY DEF StreamsHoldEvents
<1>2. ASSUME NEW i \in 1..n PROVE stream[s][i].events \in Seq(Event)
  <2>1. stream[s][i] \in StoredCommit
    BY <1>1
  <2> QED BY <2>1 DEF StoredCommit
<1>3. ss \in Seq(Seq(Event))
  <2>1. n \in Nat
    BY <1>1
  <2> QED BY <1>2, <2>1
<1> QED
  <2> HIDE DEF ss
  <2>1. FlattenSeq(ss) \in Seq(Event)
    BY <1>3, FlattenSeqType
  <2> QED BY <2>1 DEF EventsUpTo, ss

LEMMA EventsType ==
  ASSUME StreamsHoldEvents, NEW s \in Branch
  PROVE  Events(s) \in Seq(Event)
<1>1. stream[s] \in Seq(StoredCommit)
  BY DEF StreamsHoldEvents
<1>2. Len(stream[s]) \in 0..Len(stream[s])
  BY <1>1
<1> QED BY <1>2, EventsUpToType DEF Events

LEMMA StatesAreSound ==
  ASSUME StreamsHoldEvents, NEW s \in Branch, NEW n \in 0..Len(stream[s])
  PROVE  StateAfter(s, n) \in SoundWork \cup {None}
BY EventsUpToType, ReplaySound DEF StateAfter

LEMMA CurrentIsSound ==
  ASSUME StreamsHoldEvents, NEW s \in Branch
  PROVE  Current(s) \in SoundWork \cup {None}
<1>1. stream[s] \in Seq(StoredCommit)
  BY DEF StreamsHoldEvents
<1>2. Len(stream[s]) \in 0..Len(stream[s])
  BY <1>1
<1> QED BY <1>2, StatesAreSound DEF Current

LEMMA CommitKeeps ==
  ASSUME StreamsHoldEvents, NEW s \in Branch,
         NEW events \in Seq(Event), events # <<>>,
         NEW source \in Branch \cup {None}, NEW patch \in Patch \cup {<<>>},
         Commit(s, events, source, patch)
  PROVE  StreamsHoldEvents'
<1> DEFINE c == [events |-> events, source |-> source, patch |-> patch]
<1>1. c \in StoredCommit
  BY DEF StoredCommit
<1>2. stream' = [stream EXCEPT ![s] = Append(@, c)]
  BY DEF Commit
<1>3. stream \in [Branch -> Seq(StoredCommit)]
  BY DEF StreamsHoldEvents
<1>4. c.events # <<>>
  OBVIOUS
<1> HIDE DEF c
<1>5. stream' \in [Branch -> Seq(StoredCommit)]
  BY <1>1, <1>2, <1>3
<1>6. ASSUME NEW t \in Branch, NEW n \in DOMAIN stream'[t]
      PROVE  stream'[t][n].events # <<>>
  <2>1. CASE t # s
    <3>1. stream'[t] = stream[t]
      BY <1>2, <1>3, <2>1
    <3> QED BY <3>1 DEF StreamsHoldEvents
  <2>2. CASE t = s
    <3>1. stream[s] \in Seq(StoredCommit) /\ stream'[t] = Append(stream[s], c)
      BY <1>2, <1>3, <2>2
    <3>2. (n \in DOMAIN stream[s] /\ stream'[t][n] = stream[s][n]) \/ stream'[t][n] = c
      BY <1>1, <3>1
    <3> QED BY <1>4, <3>2 DEF StreamsHoldEvents
  <2> QED BY <2>1, <2>2
<1> QED BY <1>5, <1>6 DEF StreamsHoldEvents

\* A commit of one event.
LEMMA PersistKeeps ==
  ASSUME StreamsHoldEvents, NEW s \in Branch, NEW e \in Event, Persist(s, <<e>>)
  PROVE  StreamsHoldEvents'
<1>1. <<e>> \in Seq(Event) /\ <<e>> # <<>>
  OBVIOUS
<1> QED BY <1>1, CommitKeeps DEF Persist

LEMMA InitHolds == Init => StreamsHoldEvents
<1>1. <<>> \in Seq(StoredCommit) /\ DOMAIN <<>> = {}
  OBVIOUS
<1> QED BY <1>1 DEF Init, StreamsHoldEvents

LEMMA NextKeeps == StreamsHoldEvents /\ [Next]_stream => StreamsHoldEvents'
<1> SUFFICES ASSUME StreamsHoldEvents, [Next]_stream PROVE StreamsHoldEvents'
  OBVIOUS
<1>1. CASE UNCHANGED stream
  BY <1>1 DEF StreamsHoldEvents
<1>2. ASSUME NEW s \in Branch, CreateWork(s) PROVE StreamsHoldEvents'
  <2>1. Created \in Event
    BY DEF Created, Event
  <2> QED BY <1>2, <2>1, PersistKeeps DEF CreateWork
<1>3. ASSUME NEW s \in Branch, NEW d \in Draft, AddContentBlock(s, d.id, d.block)
      PROVE  StreamsHoldEvents'
  <2>1. Added(d.id, d.block) \in Event
    BY StreamAssumption DEF Added, Event
  <2> QED BY <1>3, <2>1, PersistKeeps DEF AddContentBlock
<1>4. ASSUME NEW s \in Branch, NEW d \in Draft, EditContentBlock(s, d.id, d.block)
      PROVE  StreamsHoldEvents'
  <2> DEFINE first == Edited(d.id, d.block)
             rest == Invalidations(Current(s), d.id)
  <2>1. first \in Event
    BY StreamAssumption DEF Edited, Event
  <2>2. Current(s) \in SoundWork
    BY <1>4, CurrentIsSound DEF EditContentBlock
  <2>3. rest \in Seq(Event)
    BY <2>2, StreamAssumption, InvalidationsType, QuietEventsAreEvents
  <2>4. Commit(s, <<first>> \o rest, None, <<>>)
    BY <1>4 DEF EditContentBlock, Persist
  <2> HIDE DEF first, rest
  <2>5. <<first>> \o rest \in Seq(Event) /\ <<first>> \o rest # <<>>
    BY <2>1, <2>3
  <2> QED BY <2>4, <2>5, CommitKeeps
<1>5. ASSUME NEW s \in Branch, NEW link \in Link, RegisterDependency(s, link[1], link[2])
      PROVE  StreamsHoldEvents'
  <2>1. Registered(link[1], link[2]) \in Event
    BY StreamAssumption DEF Registered, Event
  <2> QED BY <1>5, <2>1, PersistKeeps DEF RegisterDependency
<1>6. ASSUME NEW s \in Branch, NEW ops \in Patch, ApplyApprovedPatch(s, ops)
      PROVE  StreamsHoldEvents'
  <2> DEFINE w == Current(s)
  <2>1. w \in SoundWork /\ ValidatedGraph(w, ops) # None
        /\ Commit(s, PatchEvents(w, ops), None, ops)
    BY <1>6, CurrentIsSound DEF ApplyApprovedPatch
  <2> HIDE DEF w
  <2>2. PatchEvents(w, ops) \in Seq(Event) /\ PatchEvents(w, ops) # <<>>
    BY <2>1, PatchEventsType, QuietEventsAreEvents
  <2> QED BY <2>1, <2>2, CommitKeeps
<1>7. ASSUME NEW s \in Branch, NEW f \in Finding, NEW revision \in 1..MaxVersion,
             RecordReviewFinding(s, f, revision)
      PROVE  StreamsHoldEvents'
  <2>1. revision \in Nat
    BY StreamAssumption
  <2>2. Recorded(f, revision) \in Event
    BY <2>1 DEF Recorded, Event
  <2> QED BY <1>7, <2>2, PersistKeeps DEF RecordReviewFinding
<1>8. ASSUME NEW s \in Branch, NEW f \in Finding, DecideReviewFinding(s, f)
      PROVE  StreamsHoldEvents'
  <2>1. PICK e \in RecordedIn(Events(s)) : Persist(s, <<Decided(f, e.revision)>>)
    BY <1>8 DEF DecideReviewFinding
  <2>2. e \in Event /\ e.type = "recorded"
    BY EventsType DEF RecordedIn, Range
  <2>3. e.revision \in Nat
    BY <2>2 DEF Event
  <2>4. Decided(f, e.revision) \in Event
    BY <2>3 DEF Decided, Event
  <2> QED BY <2>1, <2>4, PersistKeeps
<1>9. ASSUME NEW s \in Branch, NEW source \in Branch, NEW cutoff \in 0..MaxVersion,
             CreateBranch(s, source, cutoff)
      PROVE  StreamsHoldEvents'
  <2> DEFINE es == Events(source)
  <2>1. es \in Seq(Event)
    BY EventsType
  <2>2. cutoff \in Nat /\ cutoff >= 1 /\ cutoff <= Len(es)
        /\ Commit(s, SubSeq(es, 1, cutoff), source, <<>>)
    BY <1>9, StreamAssumption DEF CreateBranch
  <2> HIDE DEF es
  <2>3. SubSeq(es, 1, cutoff) \in Seq(Event) /\ SubSeq(es, 1, cutoff) # <<>>
    BY <2>1, <2>2
  <2> QED BY <2>2, <2>3, CommitKeeps
<1> QED BY <1>1, <1>2, <1>3, <1>4, <1>5, <1>6, <1>7, <1>8, <1>9 DEF Next

LEMMA StreamsStay == Spec => []StreamsHoldEvents
BY InitHolds, NextKeeps, PTL DEF Spec

----------------------------------------------------------------------------
(* What the handlers append *)

\* A commit makes its stream longer by its events, and no other stream.
LEMMA CommitEvents ==
  ASSUME StreamsHoldEvents, NEW s \in Branch, NEW events \in Seq(Event),
         NEW source \in Branch \cup {None}, NEW patch \in Patch \cup {<<>>},
         Commit(s, events, source, patch), NEW t \in Branch
  PROVE  Events(t)' = IF t = s THEN Events(s) \o events ELSE Events(t)
<1> DEFINE c == [events |-> events, source |-> source, patch |-> patch]
           lists(q) == [i \in 1..Len(q) |-> q[i].events]
<1>1. /\ stream' = [stream EXCEPT ![s] = Append(stream[s], c)]
      /\ stream \in [Branch -> Seq(StoredCommit)]
  BY DEF Commit, StreamsHoldEvents
<1>2. Events(t) = FlattenSeq(lists(stream[t])) /\ Events(t)' = FlattenSeq(lists(stream'[t]))
  BY DEF Events, EventsUpTo
<1>3. CASE t # s
  <2>1. stream'[t] = stream[t]
    BY <1>1, <1>3
  <2> QED BY <1>2, <1>3, <2>1
<1>4. CASE t = s
  <2>1. stream'[t] = Append(stream[s], c) /\ stream[s] \in Seq(StoredCommit) /\ c.events = events
    BY <1>1, <1>4
  <2> HIDE DEF c
  <2>2. ASSUME NEW i \in 1..Len(stream[s]) PROVE stream[s][i].events \in Seq(Event)
    <3>1. stream[s][i] \in StoredCommit
      BY <2>1
    <3> QED BY <3>1 DEF StoredCommit
  <2>3. lists(stream[s]) \in Seq(Seq(Event))
    BY <2>1, <2>2
  <2>4. lists(Append(stream[s], c)) = Append(lists(stream[s]), events)
    BY <2>1
  <2>5. FlattenSeq(Append(lists(stream[s]), events)) = FlattenSeq(lists(stream[s])) \o events
    <3> HIDE DEF lists
    <3> QED BY <2>3, FlattenSeqAppend
  <2> QED BY <1>2, <1>4, <2>1, <2>4, <2>5
<1> QED BY <1>3, <1>4

----------------------------------------------------------------------------
(* Findings and decisions *)

\* What a stream says of findings: each event was made for the revision that the
\* events before it replay to, no finding is recorded or decided twice, and a
\* decision comes after a finding of its revision.
Dated(es) ==
  \A j \in DOMAIN es : es[j].type \in {"recorded", "decided"} =>
    LET w == Replay(SubSeq(es, 1, j - 1)) IN w # None /\ es[j].revision = w.manuscript
Once(es) ==
  \A i, j \in DOMAIN es :
    es[i].type \in {"recorded", "decided"} /\ es[i].type = es[j].type
      /\ es[i].finding = es[j].finding => i = j
DecidedAsFound(es) ==
  \A k \in DOMAIN es : es[k].type = "decided" =>
    \E j \in 1..(k - 1) :
      /\ es[j].type = "recorded" /\ es[j].finding = es[k].finding
      /\ es[j].revision = es[k].revision

History(es) == Dated(es) /\ Once(es) /\ DecidedAsFound(es)

\* Any beginning of a history is one: what CreateBranch copies.
LEMMA HistoryOfPrefix ==
  ASSUME NEW es \in Seq(Event), History(es), NEW n \in 0..Len(es)
  PROVE  History(SubSeq(es, 1, n))
<1> DEFINE p == SubSeq(es, 1, n)
<1>1. /\ DOMAIN p = 1..n /\ n \in Nat /\ DOMAIN es = 1..Len(es) /\ n <= Len(es)
      /\ \A i \in 1..n : p[i] = es[i] /\ i \in DOMAIN es
  OBVIOUS
<1>2. ASSUME NEW j \in 1..n PROVE SubSeq(p, 1, j - 1) = SubSeq(es, 1, j - 1)
  OBVIOUS
<1> HIDE DEF p
<1>3. Dated(p)
  BY <1>1, <1>2 DEF Dated, History
<1>4. Once(p)
  BY <1>1 DEF Once, History
<1>5. DecidedAsFound(p)
  <2> SUFFICES ASSUME NEW k \in DOMAIN p, p[k].type = "decided"
               PROVE  \E j \in 1..(k - 1) :
                        /\ p[j].type = "recorded" /\ p[j].finding = p[k].finding
                        /\ p[j].revision = p[k].revision
    BY DEF DecidedAsFound
  <2>1. k \in DOMAIN es /\ p[k] = es[k] /\ k \in 1..n
    BY <1>1
  <2>2. PICK j \in 1..(k - 1) :
          /\ es[j].type = "recorded" /\ es[j].finding = es[k].finding
          /\ es[j].revision = es[k].revision
    BY <2>1 DEF DecidedAsFound, History
  <2>3. j \in 1..n
    BY <2>1
  <2> QED BY <1>1, <2>1, <2>2, <2>3
<1> QED BY <1>3, <1>4, <1>5 DEF History, p

\* A history goes on with quiet events.
LEMMA HistoryGoesOn ==
  ASSUME NEW es \in Seq(Event), History(es), NEW q \in Seq(QuietEvent)
  PROVE  History(es \o q)
<1> DEFINE t == es \o q
           n == Len(es)
<1>1. /\ DOMAIN t = 1..(n + Len(q)) /\ n \in Nat /\ Len(q) \in Nat /\ DOMAIN es = 1..n
      /\ \A i \in 1..n : t[i] = es[i]
  OBVIOUS
<1>2. ASSUME NEW i \in DOMAIN t, t[i].type \in {"recorded", "decided"} PROVE i \in 1..n
  <2> SUFFICES ASSUME i \notin 1..n PROVE FALSE
    OBVIOUS
  <2>1. t[i] = q[i - n] /\ i - n \in 1..Len(q)
    BY <1>1
  <2>2. q[i - n] \in QuietEvent
    BY <2>1
  <2> QED BY <1>2, <2>1, <2>2 DEF QuietEvent
<1>3. ASSUME NEW j \in 1..n PROVE SubSeq(t, 1, j - 1) = SubSeq(es, 1, j - 1)
  OBVIOUS
<1> HIDE DEF t
<1>4. Dated(t)
  BY <1>1, <1>2, <1>3 DEF Dated, History
<1>5. Once(t)
  <2> SUFFICES ASSUME NEW i \in DOMAIN t, NEW j \in DOMAIN t,
                      t[i].type \in {"recorded", "decided"}, t[i].type = t[j].type,
                      t[i].finding = t[j].finding
               PROVE  i = j
    BY DEF Once
  <2>1. i \in 1..n /\ j \in 1..n
    BY <1>2
  <2> QED BY <1>1, <2>1 DEF Once, History
<1>6. DecidedAsFound(t)
  <2> SUFFICES ASSUME NEW k \in DOMAIN t, t[k].type = "decided"
               PROVE  \E j \in 1..(k - 1) :
                        /\ t[j].type = "recorded" /\ t[j].finding = t[k].finding
                        /\ t[j].revision = t[k].revision
    BY DEF DecidedAsFound
  <2>1. k \in DOMAIN es /\ t[k] = es[k]
    BY <1>1, <1>2
  <2>2. PICK j \in 1..(k - 1) :
          /\ es[j].type = "recorded" /\ es[j].finding = es[k].finding
          /\ es[j].revision = es[k].revision
    BY <2>1 DEF DecidedAsFound, History
  <2>3. j \in 1..n
    BY <1>1, <2>1
  <2> QED BY <1>1, <2>1, <2>2, <2>3
<1> QED BY <1>4, <1>5, <1>6 DEF History, t

\* And with a finding or a decision for the current revision, which no other event
\* of its kind is about; a decision needs its finding.
LEMMA HistoryGrows ==
  ASSUME NEW es \in Seq(Event), History(es), NEW e \in Event,
         e.type \in {"recorded", "decided"},
         Replay(es) # None, e.revision = Replay(es).manuscript,
         \A i \in DOMAIN es : ~(es[i].type = e.type /\ es[i].finding = e.finding),
         e.type = "decided" =>
           \E i \in DOMAIN es : /\ es[i].type = "recorded" /\ es[i].finding = e.finding
                                /\ es[i].revision = e.revision
  PROVE  History(es \o <<e>>)
<1> DEFINE t == es \o <<e>>
           n == Len(es)
<1>1. /\ DOMAIN t = 1..(n + 1) /\ n \in Nat /\ DOMAIN es = 1..n
      /\ t[n + 1] = e /\ \A i \in 1..n : t[i] = es[i]
  OBVIOUS
<1>2. ASSUME NEW j \in 1..n PROVE SubSeq(t, 1, j - 1) = SubSeq(es, 1, j - 1)
  OBVIOUS
<1>3. SubSeq(t, 1, (n + 1) - 1) = es
  OBVIOUS
<1> HIDE DEF t
<1>4. Dated(t)
  <2> SUFFICES ASSUME NEW j \in DOMAIN t, t[j].type \in {"recorded", "decided"}
               PROVE  /\ Replay(SubSeq(t, 1, j - 1)) # None
                      /\ t[j].revision = Replay(SubSeq(t, 1, j - 1)).manuscript
    BY DEF Dated
  <2>1. CASE j = n + 1
    BY <1>1, <1>3, <2>1
  <2>2. CASE j \in 1..n
    BY <1>1, <1>2, <2>2 DEF Dated, History
  <2> QED BY <1>1, <2>1, <2>2
<1>5. Once(t)
  <2> SUFFICES ASSUME NEW i \in DOMAIN t, NEW j \in DOMAIN t,
                      t[i].type \in {"recorded", "decided"}, t[i].type = t[j].type,
                      t[i].finding = t[j].finding
               PROVE  i = j
    BY DEF Once
  <2>1. CASE i \in 1..n /\ j \in 1..n
    BY <1>1, <2>1 DEF Once, History
  <2>2. CASE i = n + 1 \/ j = n + 1
    BY <1>1, <2>2
  <2> QED BY <1>1, <2>1, <2>2
<1>6. DecidedAsFound(t)
  <2> SUFFICES ASSUME NEW k \in DOMAIN t, t[k].type = "decided"
               PROVE  \E j \in 1..(k - 1) :
                        /\ t[j].type = "recorded" /\ t[j].finding = t[k].finding
                        /\ t[j].revision = t[k].revision
    BY DEF DecidedAsFound
  <2>1. CASE k \in 1..n
    <3>1. PICK j \in 1..(k - 1) :
            /\ es[j].type = "recorded" /\ es[j].finding = es[k].finding
            /\ es[j].revision = es[k].revision
      BY <1>1, <2>1 DEF DecidedAsFound, History
    <3> QED BY <1>1, <2>1, <3>1
  <2>2. CASE k = n + 1
    <3>1. PICK j \in 1..n :
            /\ es[j].type = "recorded" /\ es[j].finding = e.finding
            /\ es[j].revision = e.revision
      BY <1>1, <2>2
    <3> QED BY <1>1, <2>2, <3>1
  <2> QED BY <1>1, <2>1, <2>2
<1> QED BY <1>4, <1>5, <1>6 DEF History, t

\* What a history means: between a finding and its decision no material event.
LEMMA HistoryMeaning ==
  ASSUME NEW es \in Seq(Event), History(es), NEW k \in DOMAIN es, es[k].type = "decided"
  PROVE  /\ \A m \in DOMAIN es :
              es[m].type = "decided" /\ es[m].finding = es[k].finding => m = k
         /\ \E j \in 1..k-1 :
              /\ es[j].type = "recorded" /\ es[j].finding = es[k].finding
              /\ \A m \in j..k : es[m].type \notin Material
<1>1. \A m \in DOMAIN es : es[m].type = "decided" /\ es[m].finding = es[k].finding => m = k
  BY DEF History, Once
<1>2. PICK j \in 1..(k - 1) :
        /\ es[j].type = "recorded" /\ es[j].finding = es[k].finding
        /\ es[j].revision = es[k].revision
  BY DEF History, DecidedAsFound
<1>3. k \in 1..Len(es) /\ j \in DOMAIN es
  OBVIOUS
<1>4. PICK f : IsReplay(f, es)
  BY ReplayIsWalk
<1>5. /\ Replay(SubSeq(es, 1, k - 1)) = f[k - 1] /\ Replay(SubSeq(es, 1, j - 1)) = f[j - 1]
  <2>1. k - 1 \in 0..Len(es) /\ j - 1 \in 0..Len(es)
    BY <1>3
  <2> QED BY <1>4, <2>1, ReplayOfPrefix
<1>6. /\ f[k - 1] # None /\ f[j - 1] # None
      /\ f[j - 1].manuscript = es[j].revision /\ f[k - 1].manuscript = es[k].revision
  BY <1>2, <1>3, <1>5 DEF History, Dated
<1>7. j - 1 \in 1..Len(es) /\ k - 1 \in (j - 1)..Len(es)
  <2>1. j - 1 # 0
    BY <1>4, <1>6 DEF IsReplay
  <2> QED BY <1>3, <2>1
<1>8. \A m \in ((j - 1) + 1)..(k - 1) : es[m].type \notin Material
  BY <1>2, <1>4, <1>6, <1>7, SameRevisionSameText
<1>9. \A m \in j..k : m = k \/ m \in ((j - 1) + 1)..(k - 1)
  BY <1>3
<1>10. \A m \in j..k : es[m].type \notin Material
  BY <1>8, <1>9 DEF Material
<1> QED BY <1>1, <1>2, <1>10

\* The inductive invariant of the decisions.
HistoriesHold == StreamsHoldEvents /\ \A s \in Branch : History(Events(s))

\* A commit that leaves its stream a history leaves them all.
LEMMA CommitHistory ==
  ASSUME HistoriesHold, NEW s \in Branch, NEW events \in Seq(Event),
         NEW source \in Branch \cup {None}, NEW patch \in Patch \cup {<<>>},
         Commit(s, events, source, patch), History(Events(s) \o events)
  PROVE  \A t \in Branch : History(Events(t)')
<1> SUFFICES ASSUME NEW t \in Branch PROVE History(Events(t)')
  OBVIOUS
<1>1. Events(t)' = IF t = s THEN Events(s) \o events ELSE Events(t)
  BY CommitEvents DEF HistoriesHold
<1>2. History(Events(t)) /\ History(Events(s) \o events)
  BY DEF HistoriesHold
<1>3. Events(t)' = Events(t) \/ Events(t)' = Events(s) \o events
  BY <1>1
<1> HIDE DEF History, Events
<1>4. CASE Events(t)' = Events(t)
  BY <1>2, <1>4
<1>5. CASE Events(t)' = Events(s) \o events
  BY <1>2, <1>5
<1> QED BY <1>3, <1>4, <1>5

LEMMA QuietCommitHistory ==
  ASSUME HistoriesHold, NEW s \in Branch, NEW events \in Seq(QuietEvent),
         NEW patch \in Patch \cup {<<>>}, Commit(s, events, None, patch)
  PROVE  \A t \in Branch : History(Events(t)')
<1>1. Events(s) \in Seq(Event) /\ History(Events(s)) /\ events \in Seq(Event)
  BY EventsType, QuietEventsAreEvents DEF HistoriesHold
<1>2. History(Events(s) \o events)
  BY <1>1, HistoryGoesOn
<1> QED BY <1>1, <1>2, CommitHistory

LEMMA QuietPersistHistory ==
  ASSUME HistoriesHold, NEW s \in Branch, NEW e \in QuietEvent, Persist(s, <<e>>)
  PROVE  \A t \in Branch : History(Events(t)')
<1>1. <<e>> \in Seq(QuietEvent)
  OBVIOUS
<1> QED BY <1>1, QuietCommitHistory DEF Persist

LEMMA HistoriesInit == Init => HistoriesHold
<1> SUFFICES ASSUME Init, NEW s \in Branch PROVE History(Events(s))
  BY InitHolds DEF HistoriesHold
<1>1. Events(s) = <<>>
  <2>1. Len(stream[s]) = 0
    BY DEF Init
  <2>2. [i \in 1..Len(stream[s]) |-> stream[s][i].events] = <<>>
    BY <2>1
  <2> QED BY <2>2 DEF Events, EventsUpTo, FlattenSeq
<1>2. DOMAIN Events(s) = {}
  BY <1>1
<1> HIDE DEF Events
<1> QED BY <1>2 DEF History, Dated, Once, DecidedAsFound

LEMMA HistoriesStep ==
  ASSUME HistoriesHold, [Next]_stream
  PROVE  \A t \in Branch : History(Events(t)')
<1>1. CASE UNCHANGED stream
  <2> SUFFICES ASSUME NEW t \in Branch PROVE History(Events(t)')
    OBVIOUS
  <2>1. Events(t)' = Events(t)
    BY <1>1 DEF Events, EventsUpTo
  <2> QED BY <2>1 DEF HistoriesHold
<1>2. ASSUME NEW s \in Branch, CreateWork(s) PROVE \A t \in Branch : History(Events(t)')
  <2>1. Created \in QuietEvent
    BY DEF Created, Event, QuietEvent
  <2> QED BY <1>2, <2>1, QuietPersistHistory DEF CreateWork
<1>3. ASSUME NEW s \in Branch, NEW d \in Draft, AddContentBlock(s, d.id, d.block)
      PROVE  \A t \in Branch : History(Events(t)')
  <2>1. Added(d.id, d.block) \in QuietEvent
    BY StreamAssumption DEF Added, Event, QuietEvent
  <2> QED BY <1>3, <2>1, QuietPersistHistory DEF AddContentBlock
<1>4. ASSUME NEW s \in Branch, NEW d \in Draft, EditContentBlock(s, d.id, d.block)
      PROVE  \A t \in Branch : History(Events(t)')
  <2> DEFINE first == Edited(d.id, d.block)
             rest == Invalidations(Current(s), d.id)
  <2>1. first \in QuietEvent
    BY StreamAssumption DEF Edited, Event, QuietEvent
  <2>2. Current(s) \in SoundWork
    BY <1>4, CurrentIsSound DEF EditContentBlock, HistoriesHold
  <2>3. rest \in Seq(QuietEvent)
    BY <2>2, StreamAssumption, InvalidationsType
  <2>4. Commit(s, <<first>> \o rest, None, <<>>)
    BY <1>4 DEF EditContentBlock, Persist
  <2> HIDE DEF first, rest
  <2>5. <<first>> \o rest \in Seq(QuietEvent)
    BY <2>1, <2>3
  <2> QED BY <2>4, <2>5, QuietCommitHistory
<1>5. ASSUME NEW s \in Branch, NEW link \in Link, RegisterDependency(s, link[1], link[2])
      PROVE  \A t \in Branch : History(Events(t)')
  <2>1. Registered(link[1], link[2]) \in QuietEvent
    BY StreamAssumption DEF Registered, Event, QuietEvent
  <2> QED BY <1>5, <2>1, QuietPersistHistory DEF RegisterDependency
<1>6. ASSUME NEW s \in Branch, NEW ops \in Patch, ApplyApprovedPatch(s, ops)
      PROVE  \A t \in Branch : History(Events(t)')
  <2> DEFINE w == Current(s)
  <2>1. w \in SoundWork /\ ValidatedGraph(w, ops) # None
        /\ Commit(s, PatchEvents(w, ops), None, ops)
    BY <1>6, CurrentIsSound DEF ApplyApprovedPatch, HistoriesHold
  <2> HIDE DEF w
  <2>2. PatchEvents(w, ops) \in Seq(QuietEvent)
    BY <2>1, PatchEventsType
  <2> QED BY <2>1, <2>2, QuietCommitHistory
<1>7. ASSUME NEW s \in Branch, NEW f \in Finding, NEW revision \in 1..MaxVersion,
             RecordReviewFinding(s, f, revision)
      PROVE  \A t \in Branch : History(Events(t)')
  <2> DEFINE es == Events(s)
             e == Recorded(f, revision)
  <2>1. es \in Seq(Event) /\ History(es)
    BY EventsType DEF HistoriesHold
  <2>2. /\ Replay(es) # None /\ revision = Replay(es).manuscript
        /\ \A x \in RecordedIn(es) : x.finding # f
        /\ Commit(s, <<e>>, None, <<>>)
    BY <1>7 DEF RecordReviewFinding, Current, StateAfter, Events, Persist
  <2>3. e \in Event /\ e.type = "recorded" /\ e.finding = f /\ e.revision = revision
    BY StreamAssumption DEF Recorded, Event
  <2> HIDE DEF e, es
  <2>4. \A i \in DOMAIN es : ~(es[i].type = "recorded" /\ es[i].finding = f)
    BY <2>2 DEF RecordedIn, Range
  <2>5. History(es \o <<e>>)
    BY <2>1, <2>2, <2>3, <2>4, HistoryGrows
  <2>6. <<e>> \in Seq(Event)
    BY <2>3
  <2> QED BY <2>2, <2>5, <2>6, CommitHistory DEF es
<1>8. ASSUME NEW s \in Branch, NEW f \in Finding, DecideReviewFinding(s, f)
      PROVE  \A t \in Branch : History(Events(t)')
  <2> DEFINE es == Events(s)
  <2>1. es \in Seq(Event) /\ History(es)
    BY EventsType DEF HistoriesHold
  <2>2. PICK x \in RecordedIn(es) :
          /\ x.finding = f /\ x.revision = Current(s).manuscript
          /\ Commit(s, <<Decided(f, x.revision)>>, None, <<>>)
    BY <1>8 DEF DecideReviewFinding, Persist
  <2>3. Replay(es) # None /\ x.revision = Replay(es).manuscript /\ f \notin DecidedIn(es)
    BY <1>8, <2>2 DEF DecideReviewFinding, Current, StateAfter, Events
  <2> DEFINE e == Decided(f, x.revision)
  <2> HIDE DEF es
  <2>4. PICK i \in DOMAIN es : es[i] = x /\ x.type = "recorded" /\ x \in Event
    BY <2>1 DEF RecordedIn, Range
  <2>5. e \in Event /\ e.type = "decided" /\ e.finding = f /\ e.revision = x.revision
    <3>1. x.revision \in Nat
      BY <2>4 DEF Event
    <3> QED BY <3>1 DEF Decided, Event
  <2>6. Commit(s, <<e>>, None, <<>>)
    BY <2>2
  <2> HIDE DEF e
  <2>7. \A j \in DOMAIN es : ~(es[j].type = "decided" /\ es[j].finding = f)
    BY <2>3 DEF DecidedIn, Range
  <2>8. History(es \o <<e>>)
    BY <2>1, <2>2, <2>3, <2>4, <2>5, <2>7, HistoryGrows
  <2>9. <<e>> \in Seq(Event)
    BY <2>5
  <2> QED BY <2>6, <2>8, <2>9, CommitHistory DEF es
<1>9. ASSUME NEW s \in Branch, NEW source \in Branch, NEW cutoff \in 0..MaxVersion,
             CreateBranch(s, source, cutoff)
      PROVE  \A t \in Branch : History(Events(t)')
  <2> DEFINE es == Events(source)
  <2>1. es \in Seq(Event) /\ History(es)
    BY EventsType DEF HistoriesHold
  <2>2. cutoff \in 0..Len(es) /\ Commit(s, SubSeq(es, 1, cutoff), source, <<>>)
    BY <1>9, <2>1, StreamAssumption DEF CreateBranch
  <2>3. Events(s) = <<>>
    <3>1. [i \in 1..Len(stream[s]) |-> stream[s][i].events] = <<>>
      BY <1>9 DEF CreateBranch
    <3> QED BY <3>1 DEF Events, EventsUpTo, FlattenSeq
  <2> HIDE DEF es
  <2>4. SubSeq(es, 1, cutoff) \in Seq(Event) /\ History(SubSeq(es, 1, cutoff))
    BY <2>1, <2>2, HistoryOfPrefix
  <2>5. Events(s) \o SubSeq(es, 1, cutoff) = SubSeq(es, 1, cutoff)
    BY <2>3, <2>4
  <2> QED BY <2>2, <2>4, <2>5, CommitHistory
<1> QED BY <1>1, <1>2, <1>3, <1>4, <1>5, <1>6, <1>7, <1>8, <1>9 DEF Next

LEMMA HistoriesStay == Spec => []HistoriesHold
<1>1. HistoriesHold /\ [Next]_stream => HistoriesHold'
  <2> SUFFICES ASSUME HistoriesHold, [Next]_stream PROVE HistoriesHold'
    OBVIOUS
  <2>1. StreamsHoldEvents'
    BY NextKeeps DEF HistoriesHold
  <2>2. \A t \in Branch : History(Events(t)')
    BY HistoriesStep
  <2> QED BY <2>1, <2>2 DEF HistoriesHold, History, Dated, Once, DecidedAsFound
<1> QED BY <1>1, HistoriesInit, PTL DEF Spec

----------------------------------------------------------------------------
(* Replays that go on *)

LEMMA NoneIsNoWork == None \notin Graph /\ None \notin SoundWork
<1>1. None \notin Graph
  BY WorkAssumption DEF Graph
<1>2. ASSUME NEW w \in SoundWork PROVE w # None
  <2>1. w.blocks \in Graph
    BY SoundWorksAreWorks
  <2>2. PICK ids \in SUBSET BlockId : w.blocks \in [ids -> Block]
    BY <2>1 DEF Graph
  <2>3. w \in [version : Nat, manuscript : Nat, blocks : [ids -> Block], deps : SUBSET Dependency]
    BY <2>2 DEF SoundWork
  <2> QED BY <2>3, WorkAssumption
<1> QED BY <1>1, <1>2

\* h are the works that the events q make of w, one after the other.
GoesOn(h, w, q) ==
  /\ h[0] = w
  /\ \A i \in 0..Len(q) : h[i] \in SoundWork \cup {None}
  /\ \A i \in 1..Len(q) :
       /\ h[i-1] # None /\ Applies(h[i-1], q[i]) => h[i] # None /\ h[i] = Apply(h[i-1], q[i])
       /\ ~(h[i-1] # None /\ Applies(h[i-1], q[i])) => h[i] = None

\* More events go on from the work that those before gave.
LEMMA ReplayGoesOn ==
  ASSUME NEW es \in Seq(Event), Replay(es) # None, NEW q \in Seq(Event)
  PROVE  \E h : GoesOn(h, Replay(es), q) /\ Replay(es \o q) = h[Len(q)]
<1> DEFINE t == es \o q
           m == Len(es)
           n == Len(q)
<1>1. /\ t \in Seq(Event) /\ Len(t) = m + n /\ m \in Nat /\ n \in Nat
      /\ \A i \in (m + 1)..(m + n) : t[i] = q[i - m]
      /\ SubSeq(t, 1, m) = es
  <2>1. /\ t \in Seq(Event) /\ Len(t) = m + n /\ m \in Nat /\ n \in Nat
        /\ \A i \in 1..m : t[i] = es[i]
        /\ \A i \in (m + 1)..(m + n) : t[i] = q[i - m]
    BY ConcatElements
  <2> HIDE DEF t
  <2>2. SubSeq(t, 1, m) = es
    BY <2>1
  <2> QED BY <2>1, <2>2
<1> HIDE DEF t, m, n
<1>2. PICK f : IsReplay(f, t) /\ Replay(t) = f[Len(t)]
  BY <1>1, ReplayIsWalk
<1>3. f[m] = Replay(es)
  <2>1. m \in 0..Len(t)
    BY <1>1
  <2> QED BY <1>1, <1>2, <2>1, ReplayOfPrefix
<1>4. m # 0
  BY <1>2, <1>3 DEF IsReplay
<1> DEFINE h == [i \in 0..n |-> f[m + i]]
<1>5. h[0] = Replay(es) /\ Replay(t) = h[n]
  BY <1>1, <1>2, <1>3
<1>6. ASSUME NEW i \in 0..n PROVE h[i] \in SoundWork \cup {None}
  <2>1. m + i \in 0..Len(t)
    BY <1>1
  <2> QED BY <1>2, <2>1 DEF IsReplay
<1>7. ASSUME NEW i \in 1..n
      PROVE  h[i] = IF h[i-1] # None /\ Applies(h[i-1], q[i]) THEN Apply(h[i-1], q[i]) ELSE None
  <2>1. /\ m + i \in 1..Len(t) /\ m + i # 1 /\ (m + i) - 1 = m + (i - 1) /\ i \in 0..n
        /\ i - 1 \in 0..n /\ m + i \in (m + 1)..(m + n) /\ (m + i) - m = i
    BY <1>1, <1>4
  <2>2. f[m + i] = ReplayStep(t, m + i, f[(m + i) - 1]) /\ t[m + i] = q[i]
    BY <1>1, <1>2, <2>1 DEF IsReplay
  <2>3. h[i] = f[m + i] /\ h[i-1] = f[(m + i) - 1]
    BY <2>1
  <2> HIDE DEF h
  <2> QED BY <2>1, <2>2, <2>3 DEF ReplayStep
<1> HIDE DEF h
<1>8. ASSUME NEW i \in 1..n, h[i-1] # None, Applies(h[i-1], q[i]) PROVE Apply(h[i-1], q[i]) # None
  <2>1. i - 1 \in 0..n /\ q[i] \in Event
    BY <1>1 DEF n
  <2>2. h[i-1] \in SoundWork
    BY <1>6, <1>8, <2>1
  <2> QED BY <1>8, <2>1, <2>2, ApplySound, NoneIsNoWork
<1>9. GoesOn(h, Replay(es), q)
  BY <1>5, <1>6, <1>7, <1>8 DEF GoesOn, n
<1> QED BY <1>5, <1>9 DEF n, t

\* No event brings back a work that was lost.
LEMMA LostWorksStayLost ==
  ASSUME NEW q \in Seq(Event), NEW w, NEW h, GoesOn(h, w, q), h[Len(q)] # None
  PROVE  \A i \in 0..Len(q) : h[i] # None
<1> DEFINE N == Len(q)
           T == {m \in Nat : m <= N => h[N - m] # None}
<1>1. N \in Nat /\ h[N] # None
  OBVIOUS
<1>2. ASSUME NEW i \in 1..N, h[i] # None PROVE h[i-1] # None
  BY <1>2 DEF GoesOn
<1> HIDE DEF N
<1>3. T = Nat
  <2>1. 0 \in T
    BY <1>1
  <2>2. ASSUME NEW m \in T PROVE m + 1 \in T
    <3> SUFFICES ASSUME m + 1 <= N PROVE h[N - (m + 1)] # None
      OBVIOUS
    <3>1. N - m \in 1..N /\ (N - m) - 1 = N - (m + 1) /\ h[N - m] # None
      BY <1>1
    <3> QED BY <1>2, <3>1
  <2>3. T \in SUBSET Nat
    OBVIOUS
  <2> HIDE DEF T
  <2> QED BY <2>1, <2>2, <2>3, InductionOnNat
<1>4. ASSUME NEW i \in 0..N PROVE h[i] # None
  <2>1. N - i \in Nat /\ N - i <= N /\ N - (N - i) = i
    BY <1>1
  <2>2. N - i \in T
    <3> HIDE DEF T
    <3> QED BY <1>3, <2>1
  <2> QED BY <2>1, <2>2
<1> QED BY <1>4 DEF N

\* One event more.
LEMMA ReplayOneMore ==
  ASSUME NEW es \in Seq(Event), Replay(es) # None, NEW e \in Event, Applies(Replay(es), e)
  PROVE  Replay(es \o <<e>>) # None /\ Replay(es \o <<e>>) = Apply(Replay(es), e)
<1>1. <<e>> \in Seq(Event) /\ Len(<<e>>) = 1 /\ <<e>>[1] = e
  OBVIOUS
<1>2. PICK h : GoesOn(h, Replay(es), <<e>>) /\ Replay(es \o <<e>>) = h[Len(<<e>>)]
  BY <1>1, ReplayGoesOn
<1>3. 1 \in 1..Len(<<e>>) /\ 1 - 1 = 0
  BY <1>1
<1>4. h[0] = Replay(es)
  BY <1>2 DEF GoesOn
<1>5. h[1] # None /\ h[1] = Apply(h[0], e)
  BY <1>1, <1>2, <1>3, <1>4 DEF GoesOn
<1> QED BY <1>1, <1>2, <1>4, <1>5

\* Invalidations always apply and leave the blocks alone.
LEMMA ReplayInvalidations ==
  ASSUME NEW es \in Seq(Event), Replay(es) # None, NEW q \in Seq(Event),
         \A i \in 1..Len(q) : q[i].type = "invalidated"
  PROVE  Replay(es \o q) # None /\ Replay(es \o q).blocks = Replay(es).blocks
<1> DEFINE w == Replay(es)
           n == Len(q)
<1>1. PICK h : GoesOn(h, w, q) /\ Replay(es \o q) = h[n]
  BY ReplayGoesOn
<1> HIDE DEF w, n
<1> DEFINE T == {i \in Nat : i <= n => h[i] # None /\ h[i].blocks = w.blocks}
<1>2. 0 \in T
  BY <1>1 DEF GoesOn, w
<1>3. ASSUME NEW i \in T PROVE i + 1 \in T
  <2> SUFFICES ASSUME i + 1 <= n PROVE h[i + 1] # None /\ h[i + 1].blocks = w.blocks
    OBVIOUS
  <2>1. n \in Nat
    BY DEF n
  <2>2. i + 1 \in 1..n /\ (i + 1) - 1 = i /\ h[i] # None /\ h[i].blocks = w.blocks
    BY <2>1
  <2>3. q[i + 1].type = "invalidated"
    BY <2>2 DEF n
  <2>4. Applies(h[i], q[i + 1])
    BY <2>3 DEF Applies
  <2>5. h[i + 1] # None /\ h[i + 1] = Apply(h[i], q[i + 1])
    BY <1>1, <2>2, <2>4 DEF GoesOn, n
  <2>6. h[i + 1].blocks = h[i].blocks
    BY <2>3, <2>5 DEF Apply, BlocksAfter
  <2> QED BY <2>2, <2>5, <2>6
<1>4. T = Nat
  <2>1. T \in SUBSET Nat
    OBVIOUS
  <2> HIDE DEF T
  <2> QED BY <1>2, <1>3, <2>1, InductionOnNat
<1>5. n \in T /\ n \in Nat
  <2>1. n \in Nat
    BY DEF n
  <2> HIDE DEF T
  <2> QED BY <1>4, <2>1
<1> QED BY <1>1, <1>5 DEF w

----------------------------------------------------------------------------
(* Patches: from the operations to the work *)

\* Neither graph has b, or both have the same block.
SameBlock(g, h, b) ==
  /\ b \in DOMAIN g <=> b \in DOMAIN h
  /\ b \in DOMAIN g => g[b] = h[b]

\* No operation after the m-th up to the n-th names b.
Unnamed(ops, m, n, b) == \A i \in (m + 1)..n : ops[i].id # b

\* The first event of an operation.
FirstEvent(w, o) ==
  CASE o.op = "insert"  -> Added(o.id, o.block)
    [] o.op = "delete"  -> Deleted(o.id, w.blocks[o.id])
    [] o.op = "move"    -> Moved(o.id, o.before, o.after)
    [] o.op = "replace" -> Edited(o.id, Rewritten(w.blocks, o))

\* A block is left alone by the operations on others.
LEMMA PerformedElsewhere ==
  ASSUME NEW w, NEW g, NEW o \in Operation, NEW b, b # o.id
  PROVE  SameBlock(Performed(w, g, o), g, b)
BY DEF SameBlock, Performed, Put, Without, Operation

\* What an operation makes of its block.
LEMMA PerformedHere ==
  ASSUME NEW w, NEW g, NEW o \in Operation
  PROVE  /\ o.op = "delete" => o.id \notin DOMAIN Performed(w, g, o)
         /\ o.op # "delete" => o.id \in DOMAIN Performed(w, g, o)
         /\ o.op = "insert" => Performed(w, g, o)[o.id] = o.block
         /\ o.op = "move" => Performed(w, g, o)[o.id] = MovedTo(g[o.id], o.after)
         /\ o.op = "replace" => Performed(w, g, o)[o.id] = Rewritten(w.blocks, o)
BY DEF Performed, Put, Without, Operation

\* A block stays as it is while no operation names it.
LEMMA NotNamed ==
  ASSUME NEW w, NEW ops, IsPatch(ops), NEW f, Validates(f, w, ops),
         NEW m \in 0..Len(ops), NEW n \in m..Len(ops),
         NEW b, Unnamed(ops, m, n, b)
  PROVE  SameBlock(f[n], f[m], b)
<1> DEFINE Same(i) == SameBlock(f[i], f[m], b)
           T == {i \in Nat : i <= n - m => Same(m + i)}
<1>1. /\ Len(ops) \in Nat /\ m \in Nat /\ n \in Nat /\ m <= n /\ n <= Len(ops)
      /\ \A i \in 1..Len(ops) : ops[i] \in Operation
  BY DEF IsPatch
<1>2. 0 \in T
  <2>1. m + 0 = m
    BY <1>1
  <2> QED BY <2>1 DEF SameBlock
<1>3. ASSUME NEW i \in T PROVE i + 1 \in T
  <2> SUFFICES ASSUME i + 1 <= n - m PROVE Same(m + (i + 1))
    <3> HIDE DEF Same
    <3> QED OBVIOUS
  <2> DEFINE k == m + (i + 1)
  <2>1. k \in (m + 1)..n /\ k \in 1..Len(ops) /\ k - 1 = m + i
    BY <1>1
  <2>2. Same(m + i)
    <3> HIDE DEF Same
    <3> QED BY <1>1
  <2> HIDE DEF k
  <2>3. f[k] = Performed(w, f[k-1], ops[k]) /\ b # ops[k].id /\ ops[k] \in Operation
    BY <1>1, <2>1 DEF Validates, Unnamed
  <2>4. Same(k)
    <3>1. SameBlock(f[k], f[k-1], b)
      BY <2>3, PerformedElsewhere
    <3> QED BY <2>1, <2>2, <3>1 DEF SameBlock
  <2> QED BY <2>4 DEF k
<1>4. T = Nat
  <2>1. T \in SUBSET Nat
    OBVIOUS
  <2> HIDE DEF T
  <2> QED BY <1>2, <1>3, <2>1, InductionOnNat
<1>5. Same(n)
  <2>1. n - m \in T /\ n - m \in Nat /\ m + (n - m) = n
    <3> HIDE DEF T
    <3> QED BY <1>1, <1>4
  <2> HIDE DEF Same
  <2> QED BY <1>1, <2>1
<1> QED BY <1>5

\* No operation before it names its block.
LEMMA NotYetNamed ==
  ASSUME NEW w, NEW ops, IsPatch(ops), NEW f, Validates(f, w, ops), NEW k \in 1..Len(ops)
  PROVE  SameBlock(f[k-1], w.blocks, ops[k].id)
<1>1. Len(ops) \in Nat /\ k - 1 \in 0..Len(ops) /\ 0 \in 0..Len(ops) /\ f[0] = w.blocks
  BY DEF IsPatch, Validates
<1>2. Unnamed(ops, 0, k - 1, ops[k].id)
  <2>1. \A i \in 1..Len(ops) : ops[i].id = ops[k].id => i = k
    BY DEF IsPatch
  <2>2. \A i \in (0 + 1)..(k - 1) : i \in 1..Len(ops) /\ i # k
    BY <1>1
  <2> QED BY <2>1, <2>2 DEF Unnamed
<1> QED BY <1>1, <1>2, NotNamed

\* The event of an operation applies to the work that has the graph so far, and makes the
\* graph of the operation.
LEMMA OperationApplies ==
  ASSUME NEW w \in SoundWork, NEW o \in Operation, NEW v, NEW g \in Graph, v.blocks = g,
         FitsSnapshot(w, o), FitsGraph(w, g, o),
         SameBlock(g, w.blocks, o.id)
  PROVE  /\ Applies(v, FirstEvent(w, o))
         /\ Apply(v, FirstEvent(w, o)).blocks = Performed(w, g, o)
<1> DEFINE e == FirstEvent(w, o)
<1>0. o.id \in DOMAIN g => o.id \in DOMAIN w.blocks /\ g[o.id] = w.blocks[o.id]
  BY DEF SameBlock
<1>1. CASE o.op = "insert"
  <2>1. e = Added(o.id, o.block) /\ CanAdd(g, o.id, o.block)
    BY <1>1 DEF FitsGraph, FirstEvent
  <2> QED BY <1>1, <2>1 DEF Added, Applies, Apply, BlocksAfter, Performed, e
<1>2. CASE o.op = "delete"
  <2>1. e = Deleted(o.id, w.blocks[o.id]) /\ CanDelete(g, o.id)
    BY <1>2 DEF FitsGraph, FirstEvent
  <2>2. g[o.id] = w.blocks[o.id]
    BY <1>0, <2>1 DEF CanDelete
  <2> QED BY <1>2, <2>1, <2>2 DEF Deleted, Applies, Apply, BlocksAfter, Performed, e
<1>3. CASE o.op = "move"
  <2>1. e = Moved(o.id, o.before, o.after) /\ CanMove(g, o.id, o.after)
        /\ PlaceOf(w.blocks[o.id]) = o.before
    BY <1>3 DEF FitsGraph, FitsSnapshot, FirstEvent
  <2>2. g[o.id] = w.blocks[o.id]
    BY <1>0, <2>1 DEF CanMove
  <2> QED BY <1>3, <2>1, <2>2 DEF Moved, Applies, Apply, BlocksAfter, Performed, e
<1>4. CASE o.op = "replace"
  <2>1. e = Edited(o.id, Rewritten(w.blocks, o)) /\ CanEdit(g, o.id, Rewritten(w.blocks, o))
    BY <1>4 DEF FitsGraph, FirstEvent
  <2> QED BY <1>4, <2>1 DEF Edited, Applies, Apply, BlocksAfter, Performed, e
<1> QED BY <1>1, <1>2, <1>3, <1>4 DEF Operation

\* Invalidations are events that invalidate.
LEMMA InvalidationsInvalidate ==
  ASSUME NEW w \in SoundWork, NEW b \in BlockId
  PROVE  /\ Invalidations(w, b) \in Seq(Event)
         /\ \A i \in 1..Len(Invalidations(w, b)) : Invalidations(w, b)[i].type = "invalidated"
<1> DEFINE q == Invalidations(w, b)
           rs == SetToSeq(TransitiveDependents(w.deps, b))
<1>1. q \in Seq(Event)
  BY InvalidationsType, QuietEventsAreEvents
<1>2. q = [i \in DOMAIN rs |-> Invalidated(rs[i])]
  BY DEF Invalidations
<1> HIDE DEF q, rs
<1>3. ASSUME NEW i \in 1..Len(q) PROVE q[i].type = "invalidated"
  <2>1. i \in DOMAIN q
    BY <1>1
  <2> QED BY <1>2, <2>1 DEF Invalidated
<1> QED BY <1>1, <1>3 DEF q

\* The events of an operation replay to its graph.
LEMMA OperationReplays ==
  ASSUME NEW es \in Seq(Event), Replay(es) # None, NEW w \in SoundWork, NEW o \in Operation,
         NEW g, g = Replay(es).blocks, FitsSnapshot(w, o), FitsGraph(w, g, o),
         SameBlock(g, w.blocks, o.id)
  PROVE  /\ Replay(es \o OperationEvents(w, o)) # None
         /\ Replay(es \o OperationEvents(w, o)).blocks = Performed(w, g, o)
<1> DEFINE first == FirstEvent(w, o)
           rest == Invalidations(w, o.id)
<1>1. Replay(es) \in SoundWork /\ g \in Graph /\ o.id \in BlockId
  BY ReplaySound, SoundWorksAreWorks DEF Operation
<1>2. Applies(Replay(es), first) /\ Apply(Replay(es), first).blocks = Performed(w, g, o)
  BY <1>1, OperationApplies
<1>3. /\ rest \in Seq(Event)
      /\ \A i \in 1..Len(rest) : rest[i].type = "invalidated"
  BY <1>1, InvalidationsInvalidate
<1>4. OperationEvents(w, o) = <<first>> \/ OperationEvents(w, o) = <<first>> \o rest
  <2> HIDE DEF rest
  <2>1. CASE o.op = "insert"
    BY <2>1 DEF OperationEvents, FirstEvent
  <2>2. CASE o.op = "delete"
    BY <2>2 DEF OperationEvents, FirstEvent
  <2>3. CASE o.op = "move"
    BY <2>3 DEF OperationEvents, FirstEvent, rest
  <2>4. CASE o.op = "replace"
    BY <2>4 DEF OperationEvents, FirstEvent, rest
  <2> QED BY <2>1, <2>2, <2>3, <2>4 DEF Operation
<1> HIDE DEF first, rest
<1>5. first \in Event
  <2>1. OperationEvents(w, o) \in Seq(Event) /\ OperationEvents(w, o) # <<>>
    BY OperationEventsType, QuietEventsAreEvents
  <2>2. OperationEvents(w, o)[1] \in Event
    BY <2>1
  <2>3. OperationEvents(w, o)[1] = first
    BY <1>3, <1>4
  <2> QED BY <2>2, <2>3
<1>6. Replay(es \o <<first>>) # None /\ Replay(es \o <<first>>) = Apply(Replay(es), first)
  BY <1>2, <1>5, ReplayOneMore
<1>7. es \o <<first>> \in Seq(Event)
  BY <1>5
<1>8. /\ Replay((es \o <<first>>) \o rest) # None
      /\ Replay((es \o <<first>>) \o rest).blocks = Replay(es \o <<first>>).blocks
  BY <1>3, <1>6, <1>7, ReplayInvalidations
<1>9. (es \o <<first>>) \o rest = es \o (<<first>> \o rest)
  BY <1>3, <1>5
<1> QED BY <1>2, <1>4, <1>6, <1>8, <1>9

\* The events of a patch replay to the graph that was validated.
LEMMA PatchReplays ==
  ASSUME NEW es \in Seq(Event), Replay(es) # None, NEW ops, IsPatch(ops),
         NEW f, Validates(f, Replay(es), ops)
  PROVE  /\ PatchEvents(Replay(es), ops) \in Seq(Event)
         /\ Replay(es \o PatchEvents(Replay(es), ops)) # None
         /\ Replay(es \o PatchEvents(Replay(es), ops)).blocks = f[Len(ops)]
<1> DEFINE w == Replay(es)
           N == Len(ops)
           ss == [i \in DOMAIN ops |-> OperationEvents(w, ops[i])]
<1>1. w \in SoundWork
  BY ReplaySound
<1>2. ops \in Seq(Operation) /\ ops # <<>> /\ N \in Nat /\ N # 0 /\ DOMAIN ops = 1..N
      /\ \A i \in 1..N : ops[i] \in Operation
  BY DEF IsPatch
<1>3. ASSUME NEW i \in 1..N PROVE OperationEvents(w, ops[i]) \in Seq(Event)
  <2>1. FitsSnapshot(w, ops[i])
    BY DEF Validates
  <2> QED BY <1>1, <1>2, <2>1, OperationEventsType, QuietEventsAreEvents
<1> HIDE DEF N
<1>4. ss \in Seq(Seq(Event)) /\ Len(ss) = N /\ ss # <<>>
      /\ \A i \in 1..N : ss[i] = OperationEvents(w, ops[i]) /\ ss[i] \in Seq(Event)
  <2> HIDE DEF w
  <2> QED BY <1>2, <1>3
<1>5. PatchEvents(w, ops) = FlattenSeq(ss)
  BY DEF PatchEvents
<1> HIDE DEF ss, w
<1>6. PICK F : Flattens(F, ss, N) /\ FlattenSeq(ss) = F[N]
  BY <1>4, FlattenSeqIsLast
<1> DEFINE pre(n) == IF n = 0 THEN <<>> ELSE F[n]
           Good(n) == /\ pre(n) \in Seq(Event)
                      /\ Replay(es \o pre(n)) # None /\ Replay(es \o pre(n)).blocks = f[n]
           T == {n \in Nat : n <= N => Good(n)}
<1>7. 0 \in T
  <2>1. es \o <<>> = es /\ <<>> \in Seq(Event)
    OBVIOUS
  <2> QED BY <2>1 DEF Validates, w
<1>8. ASSUME NEW n \in T PROVE n + 1 \in T
  <2> SUFFICES ASSUME n + 1 <= N PROVE Good(n + 1)
    <3> HIDE DEF Good
    <3> QED OBVIOUS
  <2>1. /\ n \in Nat /\ n + 1 \in 1..N /\ (n + 1) - 1 = n /\ n \in 0..N /\ n + 1 # 0
        /\ (n + 1 = 1 <=> n = 0)
    BY <1>2
  <2>2. Good(n)
    <3> HIDE DEF Good
    <3> QED BY <2>1
  <2>3. pre(n + 1) = pre(n) \o ss[n + 1]
    <3>1. F[n + 1] = IF n + 1 = 1 THEN ss[n + 1] ELSE F[(n + 1) - 1] \o ss[n + 1]
      BY <1>6, <2>1 DEF Flattens
    <3>2. ss[n + 1] \in Seq(Event)
      BY <1>4, <2>1
    <3>3. <<>> \o ss[n + 1] = ss[n + 1]
      BY <3>2
    <3> QED BY <2>1, <3>1, <3>3
  <2> DEFINE p == pre(n)  o == ops[n + 1]  g == f[n]
  <2>4. p \in Seq(Event) /\ Replay(es \o p) # None /\ Replay(es \o p).blocks = g
    BY <2>2
  <2>5. /\ o \in Operation /\ FitsSnapshot(w, o) /\ FitsGraph(w, g, o)
        /\ f[n + 1] = Performed(w, g, o) /\ ss[n + 1] = OperationEvents(w, o)
    BY <1>2, <1>4, <2>1 DEF Validates, w, N
  <2>6. SameBlock(g, w.blocks, o.id)
    <3>1. Validates(f, w, ops) /\ n + 1 \in 1..Len(ops)
      BY <2>1 DEF N, w
    <3>2. SameBlock(f[(n + 1) - 1], w.blocks, ops[n + 1].id)
      BY <3>1, NotYetNamed
    <3> QED BY <2>1, <3>2
  <2> HIDE DEF p, o, g
  <2>7. es \o p \in Seq(Event)
    BY <2>4
  <2>8. /\ Replay((es \o p) \o OperationEvents(w, o)) # None
        /\ Replay((es \o p) \o OperationEvents(w, o)).blocks = Performed(w, g, o)
    BY <1>1, <2>4, <2>5, <2>6, <2>7, OperationReplays
  <2>9. /\ (es \o p) \o OperationEvents(w, o) = es \o (p \o OperationEvents(w, o))
        /\ p \o OperationEvents(w, o) \in Seq(Event)
    <3>1. OperationEvents(w, o) \in Seq(Event)
      BY <1>4, <2>1, <2>5
    <3> QED BY <2>4, <3>1
  <2>10. pre(n + 1) = p \o OperationEvents(w, o)
    BY <2>3, <2>5 DEF p
  <2> QED BY <2>5, <2>8, <2>9, <2>10
<1>9. T = Nat
  <2>1. T \in SUBSET Nat
    OBVIOUS
  <2> HIDE DEF T
  <2> QED BY <1>7, <1>8, <2>1, InductionOnNat
<1>10. Good(N)
  <2>1. N \in T
    <3> HIDE DEF T
    <3> QED BY <1>2, <1>9
  <2> HIDE DEF Good
  <2> QED BY <1>2, <2>1
<1> QED BY <1>2, <1>5, <1>6, <1>10 DEF N, w

\* What becomes of the block an operation names, however many operations there are.
LEMMA NamedBlocks ==
  ASSUME NEW w \in SoundWork, NEW ops, IsPatch(ops), NEW f, Validates(f, w, ops),
         NEW k \in 1..Len(ops), NEW o, o = ops[k], NEW h, h = f[Len(ops)]
  PROVE  /\ o.op = "insert" => o.id \in DOMAIN h /\ h[o.id] = o.block
         /\ o.op = "delete" => o.id \notin DOMAIN h
         /\ o.op = "move" => /\ o.id \in DOMAIN w.blocks /\ o.id \in DOMAIN h
                             /\ h[o.id] = MovedTo(w.blocks[o.id], o.after)
         /\ o.op = "replace" => /\ o.id \in DOMAIN w.blocks /\ o.id \in DOMAIN h
                                /\ h[o.id] = [w.blocks[o.id] EXCEPT !.content = o.after]
<1> DEFINE g == f[k-1]
<1>1. /\ Len(ops) \in Nat /\ k \in Nat /\ k >= 1 /\ k <= Len(ops) /\ o \in Operation
      /\ k - 1 \in 0..Len(ops) /\ k \in 0..Len(ops) /\ 0 \in 0..Len(ops)
      /\ k - 1 \in 0..Len(ops) /\ Len(ops) \in k..Len(ops)
  BY DEF IsPatch
<1>2. /\ f[0] = w.blocks /\ f[k] = Performed(w, g, o)
      /\ FitsSnapshot(w, o) /\ FitsGraph(w, g, o)
  BY DEF Validates
<1>3. Unnamed(ops, k, Len(ops), o.id)
  <2>1. \A i \in 1..Len(ops) : ops[i].id = o.id => i = k
    BY <1>1 DEF IsPatch
  <2>2. \A i \in (k + 1)..Len(ops) : i \in 1..Len(ops) /\ i # k
    BY <1>1
  <2> QED BY <2>1, <2>2 DEF Unnamed
<1>4. SameBlock(g, w.blocks, o.id)
  BY NotYetNamed
<1>5. SameBlock(h, f[k], o.id)
  BY <1>1, <1>3, NotNamed
<1> HIDE DEF g
<1>6. /\ o.op = "delete" => o.id \notin DOMAIN f[k]
      /\ o.op # "delete" => o.id \in DOMAIN f[k]
      /\ o.op = "insert" => f[k][o.id] = o.block
      /\ o.op = "move" => f[k][o.id] = MovedTo(g[o.id], o.after)
      /\ o.op = "replace" => f[k][o.id] = Rewritten(w.blocks, o)
  BY <1>1, <1>2, PerformedHere
<1>7. o.op = "move" => o.id \in DOMAIN g
  BY <1>2 DEF FitsGraph, CanMove
<1>8. o.op = "replace" => o.id \in DOMAIN w.blocks
  BY <1>2 DEF FitsSnapshot
<1> QED BY <1>4, <1>5, <1>6, <1>7, <1>8 DEF SameBlock, Rewritten

\* The last graph of a patch is what the patch means.
LEMMA ValidatedIsIntended ==
  ASSUME NEW w \in SoundWork, NEW ops, IsPatch(ops), NEW f, Validates(f, w, ops)
  PROVE  f[Len(ops)] = Intended(w.blocks, ops)
<1> DEFINE N == Len(ops)
           h == f[N]
           G == w.blocks
           named(op) == {i \in DOMAIN ops : ops[i].op = op}
           ids(op)   == {ops[i].id : i \in named(op)}
           of(b)     == CHOOSE i \in DOMAIN ops : ops[i].id = b
           Value(b)  == CASE b \in ids("insert")  -> ops[of(b)].block
                          [] b \in ids("move")    -> MovedTo(G[b], ops[of(b)].after)
                          [] b \in ids("replace") -> [G[b] EXCEPT !.content = ops[of(b)].after]
                          [] OTHER                -> G[b]
<1>1. /\ N \in Nat /\ DOMAIN ops = 1..N /\ \A i \in 1..N : ops[i] \in Operation
      /\ \A i, j \in 1..N : ops[i].id = ops[j].id => i = j
  BY DEF IsPatch
<1>2. ASSUME NEW k \in 1..N, NEW op PROVE ops[k].id \in ids(op) <=> ops[k].op = op
  BY <1>1
<1>3. ASSUME NEW k \in 1..N PROVE of(ops[k].id) = k
  BY <1>1
<1>4. ASSUME NEW b, \A k \in 1..N : ops[k].id # b
      PROVE  SameBlock(h, G, b) /\ \A op : b \notin ids(op)
  <2>1. Unnamed(ops, 0, N, b) /\ 0 \in 0..N /\ N \in 0..N
    BY <1>1, <1>4 DEF Unnamed
  <2>2. f[0] = G
    BY DEF Validates
  <2>3. SameBlock(f[N], f[0], b)
    <3> HIDE DEF G
    <3> QED BY <2>1, NotNamed DEF N
  <2> QED BY <1>1, <1>4, <2>2, <2>3
<1>5. ASSUME NEW k \in 1..N
      PROVE  /\ ops[k].op = "insert" => ops[k].id \in DOMAIN h /\ h[ops[k].id] = ops[k].block
             /\ ops[k].op = "delete" => ops[k].id \notin DOMAIN h
             /\ ops[k].op = "move" => /\ ops[k].id \in DOMAIN G /\ ops[k].id \in DOMAIN h
                                      /\ h[ops[k].id] = MovedTo(G[ops[k].id], ops[k].after)
             /\ ops[k].op = "replace" =>
                  /\ ops[k].id \in DOMAIN G /\ ops[k].id \in DOMAIN h
                  /\ h[ops[k].id] = [G[ops[k].id] EXCEPT !.content = ops[k].after]
  BY NamedBlocks
<1>6. Intended(G, ops) = [b \in (DOMAIN G \cup ids("insert")) \ ids("delete") |-> Value(b)]
  BY DEF Intended
<1>7. h \in Graph
  BY <1>1 DEF Validates
<1> HIDE DEF N, h, G, ids, of
<1>8. ASSUME NEW b
      PROVE  /\ b \in DOMAIN h <=> b \in (DOMAIN G \cup ids("insert")) \ ids("delete")
             /\ b \in DOMAIN h => h[b] = Value(b)
  <2>1. CASE \A k \in 1..N : ops[k].id # b
    BY <1>4, <2>1 DEF SameBlock
  <2>2. ASSUME NEW k \in 1..N, ops[k].id = b
        PROVE  /\ b \in DOMAIN h <=> b \in (DOMAIN G \cup ids("insert")) \ ids("delete")
               /\ b \in DOMAIN h => h[b] = Value(b)
    <3>1. ops[k] \in Operation /\ of(b) = k /\ \A op : b \in ids(op) <=> ops[k].op = op
      BY <1>1, <1>2, <1>3, <2>2
    <3>2. ops[k].op \in {"insert", "delete", "move", "replace"}
      BY <3>1 DEF Operation
    <3> QED BY <1>5, <2>2, <3>1, <3>2
  <2> QED BY <2>1, <2>2
<1>9. h = [b \in DOMAIN h |-> h[b]]
  BY <1>7, GraphElements
<1>10. DOMAIN h = (DOMAIN G \cup ids("insert")) \ ids("delete")
  <2> HIDE DEF Value
  <2> QED BY <1>8
<1>11. h = [b \in (DOMAIN G \cup ids("insert")) \ ids("delete") |-> Value(b)]
  <2> HIDE DEF Value
  <2> QED BY <1>8, <1>9, <1>10
<1> QED BY <1>6, <1>11 DEF h, G, N

----------------------------------------------------------------------------
(* What the commits are *)

\* The events of the first n commits.
Upto(q, n) == FlattenSeq([i \in 1..n |-> q[i].events])

LEMMA UptoOneMore ==
  ASSUME NEW q \in Seq(StoredCommit), NEW n \in 1..Len(q)
  PROVE  /\ Upto(q, n - 1) \in Seq(Event) /\ q[n].events \in Seq(Event)
         /\ Upto(q, n) = Upto(q, n - 1) \o q[n].events
<1> DEFINE ss == [i \in 1..(n-1) |-> q[i].events]
<1>1. ASSUME NEW i \in 1..n PROVE q[i].events \in Seq(Event)
  <2>1. q[i] \in StoredCommit
    OBVIOUS
  <2> QED BY <2>1 DEF StoredCommit
<1>2. ss \in Seq(Seq(Event)) /\ q[n].events \in Seq(Event)
  <2>1. n \in 1..n /\ \A i \in 1..(n-1) : i \in 1..n
    OBVIOUS
  <2> QED BY <1>1, <2>1
<1>3. [i \in 1..n |-> q[i].events] = Append(ss, q[n].events)
  OBVIOUS
<1>4. FlattenSeq(ss) \in Seq(Event)
      /\ FlattenSeq(Append(ss, q[n].events)) = FlattenSeq(ss) \o q[n].events
  <2> HIDE DEF ss
  <2> QED BY <1>2, FlattenSeqType, FlattenSeqAppend
<1> QED BY <1>2, <1>3, <1>4 DEF Upto

\* A commit that applies a patch: it was validated on the work it was made from.
PatchValidated(w, c) ==
  c.patch # <<>> =>
    /\ IsPatch(c.patch) /\ w # None
    /\ ValidatedGraph(w, c.patch) # None /\ c.events = PatchEvents(w, c.patch)

\* A commit of a handler that edits or moves a block: it invalidates what depends on the
\* block, and registers nothing.
DependentsInvalidated(w, c) ==
  c.source = None =>
    \A x \in Range(c.events) : x.type \in {"edited", "moved"} =>
      /\ w # None
      /\ \A e \in Range(c.events) : e.type # "registered"
      /\ \A r \in TransitiveDependents(w.deps, x.id) : Invalidated(r) \in Range(c.events)

\* All the commits of a stream, each with the work it was made from.
Explained(q) ==
  \A n \in DOMAIN q : LET w == Replay(Upto(q, n - 1)) IN
    PatchValidated(w, q[n]) /\ DependentsInvalidated(w, q[n])

LEMMA ExplainedGrows ==
  ASSUME NEW q \in Seq(StoredCommit), Explained(q), NEW c \in StoredCommit,
         NEW w, w = Replay(Upto(q, Len(q))), PatchValidated(w, c), DependentsInvalidated(w, c)
  PROVE  Explained(Append(q, c))
<1> DEFINE t == Append(q, c)
<1>1. DOMAIN t = 1..(Len(q) + 1) /\ t[Len(q) + 1] = c /\ Len(q) \in Nat
      /\ \A i \in 1..Len(q) : t[i] = q[i]
  OBVIOUS
<1> HIDE DEF t
<1>2. ASSUME NEW n \in DOMAIN t PROVE Upto(t, n - 1) = Upto(q, n - 1)
  <2>1. \A i \in 1..(n-1) : i \in 1..Len(q)
    BY <1>1
  <2>2. [i \in 1..(n-1) |-> t[i].events] = [i \in 1..(n-1) |-> q[i].events]
    BY <1>1, <2>1
  <2> QED BY <2>2 DEF Upto
<1>3. ASSUME NEW n \in DOMAIN t
      PROVE  LET v == Replay(Upto(t, n - 1)) IN
             PatchValidated(v, t[n]) /\ DependentsInvalidated(v, t[n])
  <2>1. CASE n \in 1..Len(q)
    <3>1. t[n] = q[n] /\ n \in DOMAIN q
      BY <1>1, <2>1
    <3> QED BY <1>2, <3>1 DEF Explained
  <2>2. CASE n = Len(q) + 1
    <3>1. n - 1 = Len(q) /\ t[n] = c
      BY <1>1, <2>2
    <3> QED BY <1>2, <3>1
  <2> QED BY <1>1, <2>1, <2>2
<1> QED BY <1>3 DEF Explained, t

\* The inductive invariant of what commits do to the work.
CommitsAreExplained == StreamsHoldEvents /\ \A s \in Branch : Explained(stream[s])

\* What a handler has to see to.
LEMMA CommitExplained ==
  ASSUME CommitsAreExplained, NEW s \in Branch, NEW events \in Seq(Event),
         NEW source \in Branch \cup {None}, NEW patch \in Patch \cup {<<>>},
         Commit(s, events, source, patch),
         PatchValidated(Current(s), [events |-> events, source |-> source, patch |-> patch]),
         DependentsInvalidated(Current(s), [events |-> events, source |-> source, patch |-> patch])
  PROVE  \A t \in Branch : Explained(stream'[t])
<1> DEFINE c == [events |-> events, source |-> source, patch |-> patch]
           w == Current(s)
<1>1. /\ stream' = [stream EXCEPT ![s] = Append(stream[s], c)]
      /\ stream \in [Branch -> Seq(StoredCommit)]
      /\ \A t \in Branch : Explained(stream[t])
  BY DEF Commit, CommitsAreExplained, StreamsHoldEvents
<1>2. c \in StoredCommit
  BY DEF StoredCommit
<1>3. w = Replay(Upto(stream[s], Len(stream[s])))
  BY DEF Current, StateAfter, EventsUpTo, Upto
<1>4. PatchValidated(w, c) /\ DependentsInvalidated(w, c)
  OBVIOUS
<1> HIDE DEF c, w
<1>5. stream[s] \in Seq(StoredCommit)
  BY <1>1
<1>6. Explained(Append(stream[s], c))
  BY <1>1, <1>2, <1>3, <1>4, <1>5, ExplainedGrows
<1>7. ASSUME NEW t \in Branch PROVE stream'[t] = IF t = s THEN Append(stream[s], c) ELSE stream[t]
  BY <1>1
<1>8. ASSUME NEW t \in Branch PROVE Explained(stream'[t])
  <2>1. CASE t = s
    BY <1>6, <1>7, <2>1
  <2>2. CASE t # s
    BY <1>1, <1>7, <2>2
  <2> QED BY <2>1, <2>2
<1> QED BY <1>8

\* Of a commit without a patch and without changes there is nothing to say.
LEMMA QuietCommitExplained ==
  ASSUME CommitsAreExplained, NEW s \in Branch, NEW e \in Event,
         e.type \notin {"edited", "moved"}, Persist(s, <<e>>)
  PROVE  \A t \in Branch : Explained(stream'[t])
<1> DEFINE c == [events |-> <<e>>, source |-> None, patch |-> <<>>]
<1>1. <<e>> \in Seq(Event) /\ Range(<<e>>) = {e}
  BY DEF Range
<1>2. PatchValidated(Current(s), c)
  BY DEF PatchValidated
<1>3. DependentsInvalidated(Current(s), c)
  BY <1>1 DEF DependentsInvalidated
<1> QED BY <1>1, <1>2, <1>3, CommitExplained DEF Persist

\* SetToSeq forgets nothing.
LEMMA SetToSeqElements ==
  ASSUME NEW S, IsFiniteSet(S)
  PROVE  Range(SetToSeq(S)) = S
<1> DEFINE n == Cardinality(S)
           f == SetToSeq(S)
<1>1. n \in Nat /\ ExistsBijection(1..n, S)
  BY FS_CardinalityType
<1>2. \E g \in [1..n -> S] : IsInjective(g)
  BY <1>1 DEF ExistsBijection, Bijection, Injection
<1>3. f \in [1..n -> S] /\ IsInjective(f)
  BY <1>2 DEF SetToSeq
<1> HIDE DEF f
<1>4. f \in Injection(1..n, S)
  BY <1>3 DEF Injection
<1>5. Cardinality(1..n) = n
  BY <1>1, FS_Interval
<1> HIDE DEF n
<1>6. f \in Surjection(1..n, S)
  BY <1>4, <1>5, FS_Injection DEF n
<1>7. DOMAIN f = 1..n
  BY <1>3
<1> QED BY <1>3, <1>6, <1>7 DEF Surjection, Range, f

\* There is an invalidation for every dependent, and nothing else.
LEMMA InvalidationsReach ==
  ASSUME NEW w \in SoundWork, NEW b \in BlockId
  PROVE  Range(Invalidations(w, b)) = {Invalidated(r) : r \in TransitiveDependents(w.deps, b)}
<1> DEFINE S == TransitiveDependents(w.deps, b)
           rs == SetToSeq(S)
<1>1. S \in SUBSET Resource
  <2>1. w.deps \in SUBSET Dependency /\ b \in Resource
    BY WorkAssumption DEF SoundWork
  <2> QED BY <2>1, DependentsAreResources
<1>2. IsFiniteSet(S)
  BY <1>1, WorkAssumption, FS_Subset
<1> HIDE DEF S
<1>3. Range(rs) = S
  BY <1>2, SetToSeqElements
<1>4. Invalidations(w, b) = [i \in DOMAIN rs |-> Invalidated(rs[i])]
  BY DEF Invalidations, S
<1> HIDE DEF rs
<1> QED BY <1>3, <1>4 DEF Range, S

\* What the events of an operation are.
LEMMA OperationElements ==
  ASSUME NEW w \in SoundWork, NEW o \in Operation, FitsSnapshot(w, o)
  PROVE  /\ OperationEvents(w, o) \in Seq(Event)
         /\ \A x \in Range(OperationEvents(w, o)) :
              /\ x.type # "registered"
              /\ x.type \in {"edited", "moved"} =>
                   \A r \in TransitiveDependents(w.deps, x.id) :
                     Invalidated(r) \in Range(OperationEvents(w, o))
<1> DEFINE q == OperationEvents(w, o)
           first == FirstEvent(w, o)
           rest == Invalidations(w, o.id)
<1>1. q \in Seq(Event)
  BY OperationEventsType, QuietEventsAreEvents
<1>2. o.id \in BlockId
  BY DEF Operation
<1>3. rest \in Seq(Event) /\ Range(rest) = {Invalidated(r) : r \in TransitiveDependents(w.deps, o.id)}
  BY <1>2, InvalidationsInvalidate, InvalidationsReach
<1>4. first.type # "registered" /\ (first.type \in {"edited", "moved"} => first.id = o.id)
  BY DEF Operation, FirstEvent, Added, Deleted, Moved, Edited
<1>5. /\ q = <<first>> /\ first.type \notin {"edited", "moved"}
      \/ q = <<first>> \o rest
  <2> HIDE DEF rest
  <2>1. CASE o.op = "insert"
    BY <2>1 DEF OperationEvents, FirstEvent, Added
  <2>2. CASE o.op = "delete"
    BY <2>2 DEF OperationEvents, FirstEvent, Deleted
  <2>3. CASE o.op = "move"
    BY <2>3 DEF OperationEvents, FirstEvent, rest
  <2>4. CASE o.op = "replace"
    BY <2>4 DEF OperationEvents, FirstEvent, rest
  <2> QED BY <2>1, <2>2, <2>3, <2>4 DEF Operation
<1> HIDE DEF first, rest, q
<1>6. \A r : Invalidated(r).type = "invalidated"
  BY DEF Invalidated
<1>7. CASE q = <<first>> /\ first.type \notin {"edited", "moved"}
  <2>1. Range(q) = {first}
    BY <1>7 DEF Range
  <2> QED BY <1>1, <1>4, <1>7, <2>1 DEF q
<1>8. CASE q = <<first>> \o rest
  <2>1. first \in Event
    <3>1. q[1] = first /\ q[1] \in Event
      BY <1>1, <1>3, <1>8
    <3> QED BY <3>1
  <2>2. <<first>> \in Seq(Event) /\ Range(<<first>>) = {first}
    BY <2>1 DEF Range
  <2>3. Range(q) = {first} \cup Range(rest)
    <3>1. rest \in Seq(Event)
      BY <1>3
    <3>2. Range(<<first>> \o rest) = Range(<<first>>) \cup Range(rest)
      <4> DEFINE one == <<first>>
      <4>1. one \in Seq(Event)
        BY <2>2
      <4> HIDE DEF one
      <4>2. Range(one \o rest) = Range(one) \cup Range(rest)
        BY <3>1, <4>1, RangeOfConcat
      <4> QED BY <4>2 DEF one
    <3> QED BY <1>8, <2>2, <3>2
  <2> QED BY <1>1, <1>3, <1>4, <1>6, <2>3 DEF q
<1> QED BY <1>5, <1>7, <1>8

\* A patch that changes a block invalidates what depends on it.
LEMMA PatchInvalidates ==
  ASSUME NEW w \in SoundWork, NEW ops \in Seq(Operation),
         \A i \in 1..Len(ops) : FitsSnapshot(w, ops[i]), NEW x \in Range(PatchEvents(w, ops))
  PROVE  /\ x.type # "registered"
         /\ x.type \in {"edited", "moved"} =>
              \A r \in TransitiveDependents(w.deps, x.id) :
                Invalidated(r) \in Range(PatchEvents(w, ops))
<1> DEFINE ss == [i \in DOMAIN ops |-> OperationEvents(w, ops[i])]
           N == Len(ops)
<1>1. /\ N \in Nat /\ DOMAIN ops = 1..N
      /\ \A i \in 1..N : ops[i] \in Operation
  OBVIOUS
<1>2. ASSUME NEW i \in 1..N
      PROVE  /\ OperationEvents(w, ops[i]) \in Seq(Event)
             /\ \A y \in Range(OperationEvents(w, ops[i])) :
                  /\ y.type # "registered"
                  /\ y.type \in {"edited", "moved"} =>
                       \A r \in TransitiveDependents(w.deps, y.id) :
                         Invalidated(r) \in Range(OperationEvents(w, ops[i]))
  BY <1>1, OperationElements
<1> HIDE DEF N
<1>3. ss \in Seq(Seq(Event)) /\ Len(ss) = N /\ \A i \in 1..N : ss[i] = OperationEvents(w, ops[i])
  BY <1>1, <1>2
<1>4. PatchEvents(w, ops) = FlattenSeq(ss)
  BY DEF PatchEvents
<1> HIDE DEF ss
<1>5. \A y : y \in Range(FlattenSeq(ss)) <=> \E i \in 1..N : y \in Range(ss[i])
  BY <1>3, FlattenSeqElements
<1>6. PICK i \in 1..N : x \in Range(ss[i])
  BY <1>4, <1>5
<1>7. /\ x.type # "registered"
      /\ x.type \in {"edited", "moved"} =>
           \A r \in TransitiveDependents(w.deps, x.id) : Invalidated(r) \in Range(ss[i])
  BY <1>2, <1>3, <1>6
<1> QED BY <1>4, <1>5, <1>7

LEMMA ExplainedInit == Init => CommitsAreExplained
<1>1. Explained(<<>>)
  BY DEF Explained
<1> QED BY <1>1, InitHolds DEF Init, CommitsAreExplained

LEMMA ExplainedStep ==
  ASSUME CommitsAreExplained, [Next]_stream
  PROVE  \A t \in Branch : Explained(stream'[t])
<1>0. StreamsHoldEvents
  BY DEF CommitsAreExplained
<1>1. CASE UNCHANGED stream
  BY <1>1 DEF CommitsAreExplained
<1>2. ASSUME NEW s \in Branch, CreateWork(s) PROVE \A t \in Branch : Explained(stream'[t])
  <2>1. Created \in Event /\ Created.type \notin {"edited", "moved"}
    BY DEF Created, Event
  <2> QED BY <1>2, <2>1, QuietCommitExplained DEF CreateWork
<1>3. ASSUME NEW s \in Branch, NEW d \in Draft, AddContentBlock(s, d.id, d.block)
      PROVE  \A t \in Branch : Explained(stream'[t])
  <2>1. Added(d.id, d.block) \in Event /\ Added(d.id, d.block).type \notin {"edited", "moved"}
    BY StreamAssumption DEF Added, Event
  <2> QED BY <1>3, <2>1, QuietCommitExplained DEF AddContentBlock
<1>4. ASSUME NEW s \in Branch, NEW d \in Draft, EditContentBlock(s, d.id, d.block)
      PROVE  \A t \in Branch : Explained(stream'[t])
  <2> DEFINE w == Current(s)
             first == Edited(d.id, d.block)
             rest == Invalidations(w, d.id)
             q == <<first>> \o rest
             c == [events |-> q, source |-> None, patch |-> <<>>]
  <2>1. first \in Event /\ first.type # "registered" /\ first.id = d.id /\ d.id \in BlockId
    BY StreamAssumption DEF Edited, Event
  <2>2. w # None /\ w \in SoundWork
    BY <1>0, <1>4, CurrentIsSound DEF EditContentBlock
  <2>3. Commit(s, q, None, <<>>)
    BY <1>4 DEF EditContentBlock, Persist
  <2> HIDE DEF w, first
  <2>4. /\ rest \in Seq(Event)
        /\ Range(rest) = {Invalidated(r) : r \in TransitiveDependents(w.deps, d.id)}
    BY <2>1, <2>2, InvalidationsInvalidate, InvalidationsReach
  <2> HIDE DEF rest
  <2>5. q \in Seq(Event) /\ Range(q) = {first} \cup Range(rest)
    <3>1. <<first>> \in Seq(Event) /\ Range(<<first>>) = {first}
      BY <2>1 DEF Range
    <3>2. rest \in Seq(Event)
      BY <2>4
    <3>3. Range(<<first>> \o rest) = Range(<<first>>) \cup Range(rest)
      <4> DEFINE one == <<first>>
      <4>1. one \in Seq(Event)
        BY <3>1
      <4> HIDE DEF one
      <4>2. Range(one \o rest) = Range(one) \cup Range(rest)
        BY <3>2, <4>1, RangeOfConcat
      <4> QED BY <4>2 DEF one
    <3> QED BY <3>1, <3>2, <3>3
  <2> HIDE DEF q
  <2>6. \A r : Invalidated(r).type = "invalidated"
    BY DEF Invalidated
  <2>7. DependentsInvalidated(w, c)
    BY <2>1, <2>2, <2>4, <2>5, <2>6 DEF DependentsInvalidated
  <2>8. PatchValidated(w, c)
    BY DEF PatchValidated
  <2> QED BY <2>3, <2>5, <2>7, <2>8, CommitExplained DEF w
<1>5. ASSUME NEW s \in Branch, NEW link \in Link, RegisterDependency(s, link[1], link[2])
      PROVE  \A t \in Branch : Explained(stream'[t])
  <2>1. /\ Registered(link[1], link[2]) \in Event
        /\ Registered(link[1], link[2]).type \notin {"edited", "moved"}
    BY StreamAssumption DEF Registered, Event
  <2> QED BY <1>5, <2>1, QuietCommitExplained DEF RegisterDependency
<1>6. ASSUME NEW s \in Branch, NEW ops \in Patch, ApplyApprovedPatch(s, ops)
      PROVE  \A t \in Branch : Explained(stream'[t])
  <2> DEFINE w == Current(s)
             c == [events |-> PatchEvents(w, ops), source |-> None, patch |-> ops]
  <2>1. w # None /\ w \in SoundWork /\ ValidatedGraph(w, ops) # None
        /\ Commit(s, PatchEvents(w, ops), None, ops)
    BY <1>0, <1>6, CurrentIsSound DEF ApplyApprovedPatch
  <2> HIDE DEF w
  <2>2. PatchEvents(w, ops) \in Seq(Event)
    BY <2>1, PatchEventsType, QuietEventsAreEvents
  <2>3. IsPatch(ops) /\ ops \in Seq(Operation)
    BY StreamAssumption DEF IsPatch
  <2>4. \A i \in 1..Len(ops) : FitsSnapshot(w, ops[i])
    BY <2>1, <2>3, ValidatedIsWalk DEF Validates
  <2>5. \A x \in Range(PatchEvents(w, ops)) :
          /\ x.type # "registered"
          /\ x.type \in {"edited", "moved"} =>
               \A r \in TransitiveDependents(w.deps, x.id) :
                 Invalidated(r) \in Range(PatchEvents(w, ops))
    BY <2>1, <2>3, <2>4, PatchInvalidates
  <2>6. DependentsInvalidated(w, c)
    BY <2>1, <2>5 DEF DependentsInvalidated
  <2>7. PatchValidated(w, c)
    BY <2>1, <2>3 DEF PatchValidated
  <2> QED BY <2>1, <2>2, <2>6, <2>7, CommitExplained DEF w
<1>7. ASSUME NEW s \in Branch, NEW f \in Finding, NEW revision \in 1..MaxVersion,
             RecordReviewFinding(s, f, revision)
      PROVE  \A t \in Branch : Explained(stream'[t])
  <2>1. revision \in Nat
    BY StreamAssumption
  <2>2. Recorded(f, revision) \in Event /\ Recorded(f, revision).type \notin {"edited", "moved"}
    BY <2>1 DEF Recorded, Event
  <2> QED BY <1>7, <2>2, QuietCommitExplained DEF RecordReviewFinding
<1>8. ASSUME NEW s \in Branch, NEW f \in Finding, DecideReviewFinding(s, f)
      PROVE  \A t \in Branch : Explained(stream'[t])
  <2>1. PICK e \in RecordedIn(Events(s)) : Persist(s, <<Decided(f, e.revision)>>)
    BY <1>8 DEF DecideReviewFinding
  <2>2. e \in Event /\ e.type = "recorded"
    BY <1>0, EventsType DEF RecordedIn, Range
  <2>3. e.revision \in Nat
    BY <2>2 DEF Event
  <2>4. Decided(f, e.revision) \in Event /\ Decided(f, e.revision).type \notin {"edited", "moved"}
    BY <2>3 DEF Decided, Event
  <2> QED BY <2>1, <2>4, QuietCommitExplained
<1>9. ASSUME NEW s \in Branch, NEW source \in Branch, NEW cutoff \in 0..MaxVersion,
             CreateBranch(s, source, cutoff)
      PROVE  \A t \in Branch : Explained(stream'[t])
  <2> DEFINE es == Events(source)
             q == SubSeq(es, 1, cutoff)
             c == [events |-> q, source |-> source, patch |-> <<>>]
  <2>1. es \in Seq(Event)
    BY <1>0, EventsType
  <2>2. cutoff \in Nat /\ cutoff >= 1 /\ cutoff <= Len(es) /\ Commit(s, q, source, <<>>)
    BY <1>9, StreamAssumption DEF CreateBranch
  <2> HIDE DEF es
  <2>3. q \in Seq(Event)
    BY <2>1, <2>2
  <2>4. source # None
    BY StreamAssumption
  <2> HIDE DEF q
  <2>5. DependentsInvalidated(Current(s), c) /\ PatchValidated(Current(s), c)
    BY <2>4 DEF DependentsInvalidated, PatchValidated
  <2> QED BY <2>2, <2>3, <2>5, CommitExplained
<1> QED BY <1>1, <1>2, <1>3, <1>4, <1>5, <1>6, <1>7, <1>8, <1>9 DEF Next

LEMMA CommitsStayExplained == Spec => []CommitsAreExplained
<1>1. CommitsAreExplained /\ [Next]_stream => CommitsAreExplained'
  <2> SUFFICES ASSUME CommitsAreExplained, [Next]_stream PROVE CommitsAreExplained'
    OBVIOUS
  <2>1. StreamsHoldEvents'
    BY NextKeeps DEF CommitsAreExplained
  <2>2. \A t \in Branch : Explained(stream'[t])
    BY ExplainedStep
  <2> QED BY <2>1, <2>2 DEF CommitsAreExplained
<1> QED BY <1>1, ExplainedInit, PTL DEF Spec

\* A commit of a stream, and the works before and after it.
LEMMA CommitsGoOn ==
  ASSUME CommitsAreExplained, NEW s \in Branch, NEW n \in DOMAIN stream[s]
  PROVE  /\ EventsUpTo(s, n - 1) \in Seq(Event) /\ stream[s][n].events \in Seq(Event)
         /\ EventsUpTo(s, n) = EventsUpTo(s, n - 1) \o stream[s][n].events
         /\ StateAfter(s, n - 1) \in SoundWork \cup {None}
         /\ PatchValidated(StateAfter(s, n - 1), stream[s][n])
         /\ DependentsInvalidated(StateAfter(s, n - 1), stream[s][n])
<1> DEFINE q == stream[s]
<1>1. q \in Seq(StoredCommit) /\ Explained(q)
  BY DEF CommitsAreExplained, StreamsHoldEvents
<1>2. n \in 1..Len(q)
  BY <1>1
<1>3. /\ EventsUpTo(s, n - 1) = Upto(q, n - 1) /\ EventsUpTo(s, n) = Upto(q, n)
      /\ StateAfter(s, n - 1) = Replay(Upto(q, n - 1))
  BY DEF EventsUpTo, StateAfter, Upto
<1> HIDE DEF q
<1>4. /\ Upto(q, n - 1) \in Seq(Event) /\ q[n].events \in Seq(Event)
      /\ Upto(q, n) = Upto(q, n - 1) \o q[n].events
  BY <1>1, <1>2, UptoOneMore
<1>5. Replay(Upto(q, n - 1)) \in SoundWork \cup {None}
  BY <1>4, ReplaySound
<1>6. /\ PatchValidated(Replay(Upto(q, n - 1)), q[n])
      /\ DependentsInvalidated(Replay(Upto(q, n - 1)), q[n])
  <2>1. n \in DOMAIN q
    BY <1>1, <1>2
  <2> QED BY <1>1, <2>1 DEF Explained
<1> QED BY <1>3, <1>4, <1>5, <1>6 DEF q

\* The work after a patch has the graph that was validated.
LEMMA PatchesReplay ==
  ASSUME CommitsAreExplained, NEW s \in Branch, NEW n \in DOMAIN stream[s],
         NEW p, p = stream[s][n].patch, p # <<>>, NEW w, w = StateAfter(s, n - 1)
  PROVE  /\ w \in SoundWork /\ IsPatch(p)
         /\ \E f : /\ Validates(f, w, p)
                   /\ StateAfter(s, n) # None /\ StateAfter(s, n).blocks = f[Len(p)]
<1> DEFINE es == EventsUpTo(s, n - 1)
<1>1. /\ es \in Seq(Event) /\ w = Replay(es) /\ w \in SoundWork /\ w # None
      /\ IsPatch(p) /\ ValidatedGraph(w, p) # None
      /\ StateAfter(s, n) = Replay(es \o PatchEvents(w, p))
  <2>1. w \in SoundWork \cup {None} /\ PatchValidated(w, stream[s][n]) /\ es \in Seq(Event)
        /\ EventsUpTo(s, n) = es \o stream[s][n].events
    BY CommitsGoOn
  <2>2. w # None /\ IsPatch(p) /\ ValidatedGraph(w, p) # None
        /\ stream[s][n].events = PatchEvents(w, p)
    BY <2>1 DEF PatchValidated
  <2> QED BY <2>1, <2>2 DEF StateAfter
<1> HIDE DEF es
<1>2. PICK f : Validates(f, w, p)
  <2>1. p \in Seq(Operation)
    BY <1>1 DEF IsPatch
  <2> QED BY <1>1, <2>1, ValidatedIsWalk
<1>3. StateAfter(s, n) # None /\ StateAfter(s, n).blocks = f[Len(p)]
  <2>1. Validates(f, Replay(es), p) /\ Replay(es) # None
    BY <1>1, <1>2
  <2>2. /\ Replay(es \o PatchEvents(Replay(es), p)) # None
        /\ Replay(es \o PatchEvents(Replay(es), p)).blocks = f[Len(p)]
    BY <1>1, <2>1, PatchReplays
  <2> QED BY <1>1, <2>2
<1> QED BY <1>1, <1>2, <1>3

----------------------------------------------------------------------------
(* Dependencies: what a commit leaves of them *)

\* d is one of deps, at least as stale.
Descends(d, deps) ==
  \E x \in deps : /\ x.source = d.source /\ x.dependent = d.dependent
                  /\ x.stale => d.stale

\* Marking keeps the dependencies, and makes stale those of the dependent.
LEMMA MarkedStale ==
  ASSUME NEW deps \in SUBSET Dependency, NEW r, NEW d \in MarkStale(deps, r)
  PROVE  d \in Dependency /\ Descends(d, deps) /\ (d.dependent = r => d.stale)
<1>1. PICK x \in deps : d = [x EXCEPT !.stale = x.stale \/ x.dependent = r]
  BY DEF MarkStale
<1>2. /\ x \in Dependency /\ x.stale \in BOOLEAN /\ x.source \in Resource /\ x.dependent \in Resource
      /\ x = [source |-> x.source, dependent |-> x.dependent, stale |-> x.stale]
  BY DEF Dependency
<1> DEFINE late == x.stale \/ x.dependent = r
<1>3. late \in BOOLEAN
  BY Zenon
<1>4. d = [x EXCEPT !.stale = late]
  BY <1>1, Zenon
<1> HIDE DEF late
<1>5. d = [source |-> x.source, dependent |-> x.dependent, stale |-> late]
  BY <1>2, <1>4
<1>6. d.source = x.source /\ d.dependent = x.dependent /\ d.stale = late
  BY <1>5
<1>7. (x.stale => d.stale) /\ (d.dependent = r => d.stale)
  BY <1>6, Zenon DEF late
<1>8. d \in Dependency
  BY <1>2, <1>3, <1>5 DEF Dependency
<1> QED BY <1>6, <1>7, <1>8 DEF Descends

\* What the events of a commit that registers nothing make of the dependencies.
LEMMA DependenciesGoOn ==
  ASSUME NEW w \in SoundWork, NEW q \in Seq(Event), \A e \in Range(q) : e.type # "registered",
         NEW h, GoesOn(h, w, q), h[Len(q)] # None, NEW d \in h[Len(q)].deps
  PROVE  /\ Descends(d, w.deps)
         /\ \A e \in Range(q) : e.type = "invalidated" /\ e.dependent = d.dependent => d.stale
<1> DEFINE n == Len(q)
           Marked(i, x) == \A j \in 1..i :
             q[j].type = "invalidated" /\ q[j].dependent = x.dependent => x.stale
           Good(i) == \A x \in h[i].deps : Descends(x, w.deps) /\ Marked(i, x)
           T == {i \in Nat : i <= n => Good(i)}
<1>1. n \in Nat /\ DOMAIN q = 1..n /\ \A i \in 1..n : q[i].type # "registered"
  BY DEF Range
<1>2. \A i \in 0..n : h[i] # None
  BY LostWorksStayLost
<1>3. \A i \in 0..n : h[i] \in SoundWork /\ h[i].deps \in SUBSET Dependency
  BY <1>2 DEF GoesOn, SoundWork
<1> HIDE DEF n
<1>4. 0 \in T
  <2>1. h[0] = w
    BY DEF GoesOn
  <2>2. Good(0)
    BY <2>1 DEF Descends
  <2> HIDE DEF Good
  <2> QED BY <2>2
<1>5. ASSUME NEW i \in T PROVE i + 1 \in T
  <2> SUFFICES ASSUME i + 1 <= n PROVE Good(i + 1)
    <3> HIDE DEF Good
    <3> QED OBVIOUS
  <2>1. i \in Nat /\ i \in 0..n /\ i + 1 \in 0..n /\ i + 1 \in 1..n /\ (i + 1) - 1 = i
    BY <1>1
  <2>2. Good(i)
    <3> HIDE DEF Good
    <3> QED BY <1>1, <2>1
  <2> DEFINE e == q[i + 1]
             deps == h[i].deps
  <2>3. h[i + 1] = Apply(h[i], e)
    <3>1. ~(h[i] # None /\ Applies(h[i], e)) => h[i + 1] = None
      BY <2>1 DEF GoesOn, n
    <3>2. h[i] # None /\ Applies(h[i], e) => h[i + 1] = Apply(h[i], e)
      BY <2>1 DEF GoesOn, n
    <3> HIDE DEF e
    <3> QED BY <1>2, <2>1, <3>1, <3>2
  <2>4. h[i + 1].deps = DepsAfter(deps, e)
    BY <2>3 DEF Apply
  <2>5. e.type # "registered" /\ deps \in SUBSET Dependency
    BY <1>1, <1>3, <2>1
  <2>6. \A x \in deps : Descends(x, w.deps) /\ Marked(i, x)
    BY <2>2
  <2>7. \A j \in 1..(i + 1) : j \in 1..i \/ q[j] = e
    BY <2>1
  <2> HIDE DEF e, deps
  <2>8. ASSUME NEW x \in h[i + 1].deps PROVE Descends(x, w.deps) /\ Marked(i + 1, x)
    <3>1. CASE e.type = "invalidated"
      <4>1. x \in MarkStale(deps, e.dependent)
        BY <2>4, <3>1 DEF DepsAfter
      <4>2. Descends(x, deps) /\ (x.dependent = e.dependent => x.stale)
        BY <2>5, <4>1, MarkedStale
      <4>3. PICK y \in deps : /\ y.source = x.source /\ y.dependent = x.dependent
                              /\ y.stale => x.stale
        BY <4>2 DEF Descends
      <4>4. Descends(y, w.deps) /\ Marked(i, y)
        BY <2>6
      <4>5. Descends(x, w.deps)
        BY <4>3, <4>4, Zenon DEF Descends
      <4>6. Marked(i + 1, x)
        BY <2>7, <4>2, <4>3, <4>4, Zenon
      <4> QED BY <4>5, <4>6
    <3>2. CASE e.type # "invalidated"
      <4>1. x \in deps
        BY <2>4, <2>5, <3>2 DEF DepsAfter
      <4>2. Marked(i + 1, x)
        BY <2>6, <2>7, <3>2, <4>1, Zenon
      <4> QED BY <2>6, <4>1, <4>2
    <3> QED BY <3>1, <3>2
  <2> QED BY <2>8
<1>6. T = Nat
  <2>1. T \in SUBSET Nat
    OBVIOUS
  <2> HIDE DEF T
  <2> QED BY <1>4, <1>5, <2>1, InductionOnNat
<1>7. Good(n)
  <2>1. n \in T
    <3> HIDE DEF T
    <3> QED BY <1>1, <1>6
  <2> HIDE DEF Good
  <2> QED BY <1>1, <2>1
<1>8. Descends(d, w.deps) /\ Marked(n, d)
  BY <1>7 DEF n
<1>9. \A e \in Range(q) : \E j \in 1..n : q[j] = e
  BY <1>1 DEF Range
<1> QED BY <1>8, <1>9, Zenon

----------------------------------------------------------------------------
(* Forests *)

\* Blocks that hang under one another, so that no walk up from them ends.
Circle(g, S) == S \subseteq DOMAIN g /\ S # {} /\ \A x \in S : g[x].parent \in S

Acyclic(g) == \A S \in SUBSET BlockId : ~Circle(g, S)

\* The walk up from a block.
LEMMA UpwardsIsWalk ==
  ASSUME NEW g \in Graph, NEW from \in BlockId \cup {None},
         NEW up, up = Upwards(g, from), NEW N, N = Cardinality(DOMAIN g)
  PROVE  /\ N \in Nat /\ IsFiniteSet(DOMAIN g) /\ up[0] = from
         /\ up = [n \in 0..N |-> up[n]] /\ DOMAIN up = 0..N
         /\ \A n \in 1..N : up[n] = IF up[n-1] \in DOMAIN g THEN g[up[n-1]].parent ELSE None
<1> DEFINE V == BlockId \cup {None}
           Step(x) == IF x \in DOMAIN g THEN g[x].parent ELSE None
           P(f) == f = [n \in 0..N |->
             IF n = 0 THEN from
             ELSE LET here == f[n-1] IN IF here \in DOMAIN g THEN g[here].parent ELSE None]
           F == CHOOSE f : P(f)
<1>1. N \in Nat /\ IsFiniteSet(DOMAIN g)
  <2>1. DOMAIN g \in SUBSET Resource
    BY GraphElements, WorkAssumption
  <2> QED BY <2>1, WorkAssumption, FS_Subset, FS_CardinalityType
<1>2. ASSUME NEW x \in V PROVE Step(x) \in V
  <2>1. x \in DOMAIN g => g[x] \in Block
    BY GraphElements
  <2> QED BY <2>1 DEF Block
<1>3. \E f : P(f)
  <2> DEFINE step == [n \in 1..N |-> [x \in V |-> Step(x)]]
  <2>1. step \in [1..N -> [V -> V]]
    <3> HIDE DEF Step, V
    <3> QED BY <1>2
  <2>2. from \in V
    OBVIOUS
  <2>3. PICK f \in [0..N -> V] : Recurs(f, N, from, step)
    <3> HIDE DEF step, V, P, F, Step
    <3> QED BY <1>1, <2>1, <2>2, RecursionExists
  <2>4. ASSUME NEW n \in 1..N PROVE f[n] = Step(f[n-1])
    <3>1. n - 1 \in 0..N
      BY <1>1
    <3>2. f[n-1] \in V
      BY <3>1
    <3> HIDE DEF V, Step
    <3> QED BY <2>3, <3>2 DEF Recurs
  <2>5. \A n \in 0..N : n # 0 => n \in 1..N
    BY <1>1
  <2>6. P(f)
    BY <2>3, <2>4, <2>5 DEF Recurs
  <2> QED BY <2>6
<1>4. P(F)
  <2> HIDE DEF P
  <2> QED BY <1>3
<1>5. up = F
  BY DEF Upwards
<1>6. F = [n \in 0..N |-> F[n]] /\ DOMAIN F = 0..N /\ F[0] = from
  <2> HIDE DEF F
  <2> QED BY <1>1, <1>4
<1>7. ASSUME NEW n \in 1..N PROVE F[n] = Step(F[n-1])
  <2>1. n \in 0..N /\ n # 0
    BY <1>1
  <2> HIDE DEF F
  <2> QED BY <1>4, <2>1
<1> HIDE DEF F
<1> QED BY <1>1, <1>5, <1>6, <1>7

\* A walk that enters blocks it cannot leave does not end.
LEMMA CircleHoldsWalk ==
  ASSUME NEW g \in Graph, NEW from \in BlockId, NEW S \in SUBSET BlockId, from \in S,
         NEW b, b = None \/ b \notin Range(Upwards(g, from)),
         S \subseteq DOMAIN g, \A x \in S : x # b => g[x].parent \in S
  PROVE  None \notin Range(Upwards(g, from))
<1> DEFINE up == Upwards(g, from)
           N == Cardinality(DOMAIN g)
<1>1. /\ N \in Nat /\ DOMAIN up = 0..N /\ up[0] = from
      /\ \A n \in 1..N : up[n] = IF up[n-1] \in DOMAIN g THEN g[up[n-1]].parent ELSE None
  BY UpwardsIsWalk
<1>2. \A x \in S : x # None
  BY WorkAssumption
<1> HIDE DEF up, N
<1>3. \A n \in 0..N : b = None \/ up[n] # b
  BY <1>1 DEF Range, up
<1>4. ASSUME NEW n \in 1..N, up[n-1] \in S PROVE up[n] \in S
  <2>1. n - 1 \in 0..N
    BY <1>1
  <2>2. up[n-1] # b /\ up[n-1] \in DOMAIN g
    BY <1>2, <1>3, <1>4, <2>1
  <2> QED BY <1>1, <1>4, <2>2
<1>5. ASSUME NEW m \in 0..N PROVE up[m] \in S
  <2>1. m \in Nat /\ up[0] \in S /\ \A n \in 1..m : n \in 1..N
    BY <1>1
  <2> QED BY <1>4, <2>1, RecursionStays
<1>6. \A n \in 0..N : up[n] # None
  BY <1>2, <1>5
<1> QED BY <1>1, <1>6 DEF Range, up

\* A forest has no circle.
LEMMA ForestsAreAcyclic ==
  ASSUME NEW g \in Graph, IsForest(g)
  PROVE  Acyclic(g)
<1> SUFFICES ASSUME NEW S \in SUBSET BlockId, Circle(g, S) PROVE FALSE
  BY DEF Acyclic
<1>1. PICK x \in S : TRUE
  BY DEF Circle
<1>2. x \in BlockId /\ x \in DOMAIN g
  BY DEF Circle
<1>3. None \notin Range(Upwards(g, x))
  <2>1. S \subseteq DOMAIN g /\ \A y \in S : y # None => g[y].parent \in S
    BY DEF Circle
  <2> QED BY <1>2, <2>1, CircleHoldsWalk
<1> QED BY <1>2, <1>3 DEF IsForest

\* Without a circle every walk ends: one of as many steps as there are blocks that does not
\* end meets a block twice, and the blocks in between are a circle.
LEMMA AcyclicAreForests ==
  ASSUME NEW g \in SoundGraph, Acyclic(g)
  PROVE  IsForest(g)
<1>0. g \in Graph /\ \A x \in DOMAIN g : ParentIn(g, g[x])
  BY DEF SoundGraph, Sound
<1> SUFFICES ASSUME NEW b \in DOMAIN g, None \notin Range(Upwards(g, b)) PROVE FALSE
  BY DEF IsForest
<1> DEFINE up == Upwards(g, b)
           D == DOMAIN g
           N == Cardinality(D)
<1>1. /\ N \in Nat /\ IsFiniteSet(D) /\ up[0] = b
      /\ up = [n \in 0..N |-> up[n]] /\ DOMAIN up = 0..N
      /\ \A n \in 1..N : up[n] = IF up[n-1] \in DOMAIN g THEN g[up[n-1]].parent ELSE None
  <2>1. b \in BlockId \cup {None}
    BY <1>0, GraphElements
  <2> QED BY <1>0, <2>1, UpwardsIsWalk
<1> HIDE DEF up, N
<1>2. \A n \in 0..N : up[n] # None
  BY <1>1 DEF Range, up
<1>3. ASSUME NEW n \in 1..N, up[n-1] \in D PROVE up[n] \in D
  <2>1. up[n] = g[up[n-1]].parent
    BY <1>1, <1>3
  <2>2. n \in 0..N
    BY <1>1
  <2> QED BY <1>0, <1>2, <1>3, <2>1, <2>2 DEF ParentIn
<1>4. ASSUME NEW m \in 0..N PROVE up[m] \in D
  <2>1. m \in Nat /\ up[0] \in D /\ \A n \in 1..m : n \in 1..N
    BY <1>1
  <2> HIDE DEF D
  <2> QED BY <1>3, <2>1, RecursionStays
<1>5. PICK i \in 0..N, j \in 0..N : i < j /\ up[i] = up[j]
  <2>1. up \in [0..N -> D]
    <3> HIDE DEF D
    <3> QED BY <1>1, <1>4
  <2>2. IsFiniteSet(0..N) /\ Cardinality(0..N) = N + 1
    <3>1. N \in Int /\ 0 \in Int /\ 0 <= N
      BY <1>1
    <3>2. IsFiniteSet(0..N) /\ Cardinality(0..N) = IF 0 > N THEN 0 ELSE N - 0 + 1
      BY <3>1, FS_Interval, Zenon
    <3> QED BY <3>1, <3>2
  <2>3. Cardinality(D) < Cardinality(0..N)
    BY <1>1, <2>2 DEF N
  <2> HIDE DEF D
  <2>4. PICK x \in 0..N, y \in 0..N : x # y /\ up[x] = up[y]
    BY <1>1, <2>1, <2>2, <2>3, FS_PigeonHole
  <2> QED BY <1>1, <2>4
<1> DEFINE S == {up[k] : k \in i..(j-1)}
<1>6. S \subseteq D /\ S # {}
  <2>1. i \in i..(j-1) /\ \A k \in i..(j-1) : k \in 0..N
    BY <1>1, <1>5
  <2> HIDE DEF D
  <2> QED BY <1>4, <2>1
<1>7. ASSUME NEW k \in i..(j-1) PROVE g[up[k]].parent \in S
  <2>1. k \in 0..N /\ k + 1 \in 1..N /\ (k + 1) - 1 = k
    BY <1>1, <1>5
  <2>2. up[k + 1] = g[up[k]].parent
    BY <1>1, <1>4, <2>1
  <2>3. k + 1 \in i..(j-1) \/ k + 1 = j
    BY <1>1, <1>5
  <2>4. up[k + 1] \in S
    <3>1. i \in i..(j-1)
      BY <1>1, <1>5
    <3> QED BY <1>5, <2>3, <3>1
  <2> QED BY <2>2, <2>4
<1>8. Circle(g, S)
  BY <1>6, <1>7 DEF Circle
<1>9. S \in SUBSET BlockId
  BY <1>0, <1>6, GraphElements
<1> HIDE DEF S
<1> QED BY <1>8, <1>9 DEF Acyclic

\* A new block closes no circle: nothing hangs under it yet.
LEMMA InsertAcyclic ==
  ASSUME NEW g \in SoundGraph, Acyclic(g), NEW b \in BlockId, b \notin DOMAIN g,
         NEW block, ParentIn(g, block)
  PROVE  Acyclic(Put(g, b, block))
<1> DEFINE h == Put(g, b, block)
<1> SUFFICES ASSUME NEW S \in SUBSET BlockId, Circle(h, S) PROVE FALSE
  BY DEF Acyclic
<1>1. DOMAIN h = DOMAIN g \cup {b} /\ h[b] = block /\ \A x \in DOMAIN g : h[x] = g[x]
  BY DEF Put
<1> HIDE DEF h
<1>2. \A x \in S : x # None
  BY WorkAssumption
<1>3. S \ {b} \subseteq DOMAIN g /\ S \ {b} \in SUBSET BlockId
  BY <1>1 DEF Circle
<1>4. S \ {b} # {}
  <2>1. CASE b \in S
    <3>1. block.parent \in S
      BY <1>1, <2>1 DEF Circle
    <3>2. block.parent \in DOMAIN g
      BY <1>2, <3>1 DEF ParentIn
    <3> QED BY <3>1, <3>2
  <2>2. CASE b \notin S
    BY <2>2 DEF Circle
  <2> QED BY <2>1, <2>2
<1>5. ASSUME NEW x \in S \ {b} PROVE g[x].parent \in S \ {b}
  <2>1. g[x].parent \in S /\ x \in DOMAIN g
    BY <1>1, <1>3 DEF Circle
  <2>2. ParentIn(g, g[x])
    BY <2>1 DEF SoundGraph, Sound
  <2> QED BY <1>2, <2>1, <2>2 DEF ParentIn
<1>6. Circle(g, S \ {b})
  BY <1>3, <1>4, <1>5 DEF Circle
<1> QED BY <1>3, <1>6 DEF Acyclic

\* Nor does a move, when the walk up from the new parent ends and not at the block.
LEMMA MoveAcyclic ==
  ASSUME NEW g \in Graph, Acyclic(g), NEW b \in BlockId, NEW place \in Place,
         CanMove(g, b, place)
  PROVE  Acyclic(Put(g, b, MovedTo(g[b], place)))
<1> DEFINE h == Put(g, b, MovedTo(g[b], place))
           p == place.parent
<1> SUFFICES ASSUME NEW S \in SUBSET BlockId, Circle(h, S) PROVE FALSE
  BY DEF Acyclic
<1>1. /\ b \in DOMAIN g /\ p # b
      /\ b \notin Range(Upwards(g, p)) /\ None \in Range(Upwards(g, p))
  BY DEF CanMove
<1>2. DOMAIN h = DOMAIN g /\ h[b].parent = p /\ \A x \in DOMAIN g : x # b => h[x] = g[x]
  BY <1>1 DEF Put, MovedTo
<1> HIDE DEF h, p
<1>3. S \subseteq DOMAIN g /\ \A x \in S : x # b => g[x].parent \in S
  BY <1>2 DEF Circle
<1>4. CASE b \in S
  <2>1. p \in S /\ p \in BlockId
    BY <1>2, <1>4 DEF Circle
  <2>2. None \notin Range(Upwards(g, p))
    BY <1>1, <1>3, <2>1, CircleHoldsWalk
  <2> QED BY <1>1, <2>2
<1>5. CASE b \notin S
  <2>1. Circle(g, S)
    BY <1>3, <1>5 DEF Circle
  <2> QED BY <2>1 DEF Acyclic
<1> QED BY <1>4, <1>5

\* A block that keeps its parent closes no circle, nor does one that goes.
LEMMA SameParentAcyclic ==
  ASSUME NEW g, Acyclic(g), NEW b \in DOMAIN g, NEW block, block.parent = g[b].parent
  PROVE  Acyclic(Put(g, b, block))
<1> DEFINE h == Put(g, b, block)
<1> SUFFICES ASSUME NEW S \in SUBSET BlockId, Circle(h, S) PROVE FALSE
  BY DEF Acyclic
<1>1. DOMAIN h = DOMAIN g /\ \A x \in DOMAIN g : h[x].parent = g[x].parent
  BY DEF Put
<1> HIDE DEF h
<1>2. Circle(g, S)
  BY <1>1 DEF Circle
<1> QED BY <1>2 DEF Acyclic

LEMMA WithoutAcyclic ==
  ASSUME NEW g, Acyclic(g), NEW b
  PROVE  Acyclic(Without(g, b))
<1> DEFINE h == Without(g, b)
<1> SUFFICES ASSUME NEW S \in SUBSET BlockId, Circle(h, S) PROVE FALSE
  BY DEF Acyclic
<1>1. DOMAIN h \subseteq DOMAIN g /\ \A x \in DOMAIN h : h[x] = g[x]
  BY DEF Without
<1> HIDE DEF h
<1>2. Circle(g, S)
  BY <1>1 DEF Circle
<1> QED BY <1>2 DEF Acyclic

\* What an operation makes of a forest is one.
LEMMA PerformedForest ==
  ASSUME NEW w \in SoundWork, NEW g \in SoundGraph, Acyclic(g), NEW o \in Operation,
         FitsSnapshot(w, o), FitsGraph(w, g, o), SameBlock(g, w.blocks, o.id)
  PROVE  Performed(w, g, o) \in SoundGraph /\ Acyclic(Performed(w, g, o))
<1>1. g \in Graph /\ w.blocks \in Graph /\ o.id \in BlockId
  BY SoundWorksAreWorks DEF SoundGraph, Operation
<1>2. CASE o.op = "insert"
  <2>1. CanAdd(g, o.id, o.block) /\ Performed(w, g, o) = Put(g, o.id, o.block)
    BY <1>2 DEF FitsGraph, Performed
  <2>2. o.block \in Block
    BY <1>2 DEF Operation
  <2> QED BY <1>1, <2>1, <2>2, PutSound, InsertAcyclic DEF CanAdd
<1>3. CASE o.op = "delete"
  <2>1. CanDelete(g, o.id) /\ Performed(w, g, o) = Without(g, o.id)
    BY <1>3 DEF FitsGraph, Performed
  <2> QED BY <1>1, <2>1, WithoutSound, IdsAreSome, WithoutAcyclic
<1>4. CASE o.op = "move"
  <2> DEFINE block == MovedTo(g[o.id], o.after)
  <2>1. CanMove(g, o.id, o.after) /\ Performed(w, g, o) = Put(g, o.id, block)
    BY <1>4 DEF FitsGraph, Performed
  <2>2. o.after \in Place
    BY <1>4 DEF Operation
  <2>3. o.id \in DOMAIN g /\ ParentIn(g, block) /\ block.content \notin Blank
    BY <2>1 DEF CanMove, CanEdit
  <2>4. block \in Block
    BY <1>1, <2>2, <2>3, GraphElements, MovedIsBlock
  <2>5. Acyclic(Put(g, o.id, block))
    BY <1>1, <2>1, <2>2, MoveAcyclic
  <2> HIDE DEF block
  <2> QED BY <1>1, <2>1, <2>3, <2>4, <2>5, PutSound
<1>5. CASE o.op = "replace"
  <2> DEFINE block == Rewritten(w.blocks, o)
  <2>1. CanEdit(g, o.id, block) /\ Performed(w, g, o) = Put(g, o.id, block)
    BY <1>5 DEF FitsGraph, Performed
  <2>2. o.after \in Content /\ o.id \in DOMAIN w.blocks
    BY <1>5 DEF Operation, FitsSnapshot
  <2>3. w.blocks[o.id] \in Block /\ g[o.id] = w.blocks[o.id] /\ o.id \in DOMAIN g
    BY <1>1, <2>1, <2>2, GraphElements DEF SameBlock, CanEdit
  <2>4. block \in Block /\ block.parent = g[o.id].parent
    BY <2>2, <2>3 DEF Rewritten, Block
  <2>5. ParentIn(g, block) /\ block.content \notin Blank
    BY <2>1 DEF CanEdit
  <2> HIDE DEF block
  <2> QED BY <1>1, <2>1, <2>3, <2>4, <2>5, PutSound, SameParentAcyclic
<1> QED BY <1>2, <1>3, <1>4, <1>5 DEF Operation

\* What a patch makes of a forest is one.
LEMMA ValidatedForest ==
  ASSUME NEW w \in SoundWork, NEW ops, IsPatch(ops), NEW f, Validates(f, w, ops),
         IsForest(w.blocks)
  PROVE  IsForest(f[Len(ops)])
<1> DEFINE V == {g \in SoundGraph : Acyclic(g)}
<1>1. Len(ops) \in Nat /\ \A n \in 1..Len(ops) : ops[n] \in Operation
  BY DEF IsPatch
<1>2. f[0] \in V
  <2>1. w.blocks \in SoundGraph /\ w.blocks \in Graph
    BY DEF SoundWork, SoundGraph
  <2> QED BY <2>1, ForestsAreAcyclic DEF Validates
<1>3. ASSUME NEW n \in 1..Len(ops), f[n-1] \in V PROVE f[n] \in V
  <2>1. /\ FitsSnapshot(w, ops[n]) /\ FitsGraph(w, f[n-1], ops[n])
        /\ f[n] = Performed(w, f[n-1], ops[n])
    BY DEF Validates
  <2>2. SameBlock(f[n-1], w.blocks, ops[n].id)
    BY NotYetNamed
  <2>3. f[n-1] \in SoundGraph /\ Acyclic(f[n-1])
    BY <1>3
  <2>4. Performed(w, f[n-1], ops[n]) \in SoundGraph /\ Acyclic(Performed(w, f[n-1], ops[n]))
    BY <1>1, <2>1, <2>2, <2>3, PerformedForest
  <2> QED BY <2>1, <2>4
<1>4. f[Len(ops)] \in V
  <2> HIDE DEF V
  <2> QED BY <1>1, <1>2, <1>3, RecursionStays
<1> QED BY <1>4, AcyclicAreForests

----------------------------------------------------------------------------
(* What the streams promise *)

\* Whatever is submitted, approved, forked, recorded and decided, the streams
\* hold well-formed events and every replay gives a well-formed work or raises.
THEOREM StreamsTypeCorrect == Spec => []TypeOK
<1>1. StreamsHoldEvents => TypeOK
  <2> SUFFICES ASSUME StreamsHoldEvents PROVE TypeOK
    OBVIOUS
  <2>1. ASSUME NEW s \in Branch, NEW n \in DOMAIN stream[s]
        PROVE  StateAfter(s, n) = None \/ IsWork(StateAfter(s, n))
    <3>1. stream[s] \in Seq(StoredCommit)
      BY DEF StreamsHoldEvents
    <3>2. n \in 0..Len(stream[s])
      BY <3>1
    <3> QED BY <3>2, StatesAreSound, SoundWorksAreWorks
  <2> QED BY <2>1 DEF TypeOK, StreamsHoldEvents, StoredCommit
<1> QED BY <1>1, StreamsStay, PTL

\* No stream that replays has an orphan or a block without text, for any blocks,
\* patches, forks and length: add_block, edit_block, delete_block and move_block
\* refuse the event that would make one, whoever produced it.
THEOREM NothingIsOrphaned == Spec => []NoOrphans
<1>1. StreamsHoldEvents => NoOrphans
  <2> SUFFICES ASSUME StreamsHoldEvents, NEW s \in Branch, Current(s) # None
               PROVE  \A b \in DOMAIN Current(s).blocks :
                        /\ ParentIn(Current(s).blocks, Current(s).blocks[b])
                        /\ Current(s).blocks[b].content \notin Blank
    BY DEF NoOrphans
  <2>1. Current(s) \in SoundWork
    BY CurrentIsSound
  <2>2. Sound(Current(s).blocks)
    BY <2>1, SoundWorksAreWorks
  <2> QED BY <2>2 DEF Sound
<1> QED BY <1>1, StreamsStay, PTL

\* A decision is about the text its finding was about: RecordReviewFinding and
\* DecideReviewFinding accept the current revision only, revisions never come
\* back, and a fork at any version copies a beginning of such a history.
THEOREM DecisionsStayCurrent == Spec => []DecisionsMeetTheirRevision
<1>1. HistoriesHold => DecisionsMeetTheirRevision
  <2> SUFFICES ASSUME HistoriesHold PROVE DecisionsMeetTheirRevision
    OBVIOUS
  <2>1. \A s \in Branch : Events(s) \in Seq(Event) /\ History(Events(s))
    BY EventsType DEF HistoriesHold
  <2>2. \A s \in Branch : \A k \in DOMAIN Events(s) : Events(s)[k].type = "decided" =>
          /\ \A m \in DOMAIN Events(s) :
               Events(s)[m].type = "decided" /\ Events(s)[m].finding = Events(s)[k].finding => m = k
          /\ \E j \in 1..k-1 :
               /\ Events(s)[j].type = "recorded" /\ Events(s)[j].finding = Events(s)[k].finding
               /\ \A m \in j..k : Events(s)[m].type \notin Material
    BY <2>1, HistoryMeaning
  <2> QED BY <2>2 DEF DecisionsMeetTheirRevision
<1> QED BY <1>1, HistoriesStay, PTL

\* A patch is applied whole and as approved, for any patch on any work: although its
\* operations are checked against the approved snapshot and the graph so far, and its events
\* are replayed one by one between invalidations, the commit always replays, and gives the
\* approved snapshot with all the operations made at once.
THEOREM PatchesApplyAsApproved == Spec => []PatchesApplyWhole
<1>1. CommitsAreExplained => PatchesApplyWhole
  <2> SUFFICES ASSUME CommitsAreExplained, NEW s \in Branch, NEW n \in DOMAIN stream[s],
                      stream[s][n].patch # <<>>
               PROVE  /\ StateAfter(s, n) # None
                      /\ StateAfter(s, n).blocks
                           = Intended(StateAfter(s, n - 1).blocks, stream[s][n].patch)
    BY DEF PatchesApplyWhole
  <2> DEFINE p == stream[s][n].patch
             w == StateAfter(s, n - 1)
  <2>1. w \in SoundWork /\ IsPatch(p)
    BY PatchesReplay
  <2>2. PICK f : /\ Validates(f, w, p)
                 /\ StateAfter(s, n) # None /\ StateAfter(s, n).blocks = f[Len(p)]
    BY PatchesReplay
  <2> HIDE DEF p, w
  <2>3. f[Len(p)] = Intended(w.blocks, p)
    BY <2>1, <2>2, ValidatedIsIntended
  <2> QED BY <2>2, <2>3 DEF p, w
<1> QED BY <1>1, CommitsStayExplained, PTL

\* No patch ties blocks in a circle, for any number of blocks and operations: move_block
\* walks up to the top, an inserted block has nothing under it, and the other operations
\* leave the parents alone.
THEOREM PatchesTieNoCircles == Spec => []PatchesKeepForests
<1>1. CommitsAreExplained => PatchesKeepForests
  <2> SUFFICES ASSUME CommitsAreExplained, NEW s \in Branch, NEW n \in DOMAIN stream[s],
                      stream[s][n].patch # <<>>, IsForest(StateAfter(s, n - 1).blocks)
               PROVE  IsForest(StateAfter(s, n).blocks)
    BY DEF PatchesKeepForests
  <2> DEFINE p == stream[s][n].patch
             w == StateAfter(s, n - 1)
  <2>1. w \in SoundWork /\ IsPatch(p) /\ IsForest(w.blocks)
    BY PatchesReplay
  <2>2. PICK f : Validates(f, w, p) /\ StateAfter(s, n).blocks = f[Len(p)]
    BY PatchesReplay
  <2> HIDE DEF p, w
  <2>3. IsForest(f[Len(p)])
    BY <2>1, <2>2, ValidatedForest
  <2> QED BY <2>2, <2>3
<1> QED BY <1>1, CommitsStayExplained, PTL

\* Whatever was registered, in whatever order, with chains and cycles: after an edit or a
\* patch every dependency into what depends on a changed block is stale, since
\* transitive_dependents misses no dependent and each gets an invalidation that applies.
THEOREM ChangesInvalidateDependents == Spec => []ChangesReachDependents
<1>1. CommitsAreExplained => ChangesReachDependents
  <2> SUFFICES ASSUME CommitsAreExplained, NEW s \in Branch, NEW n \in DOMAIN stream[s],
                      stream[s][n].source = None, StateAfter(s, n) # None,
                      NEW b \in Changes(stream[s][n]), NEW d \in StateAfter(s, n).deps,
                      d.dependent # b, DependsOn(StateAfter(s, n).deps, b, d.dependent)
               PROVE  d.stale
    BY DEF ChangesReachDependents
  <2> DEFINE q  == stream[s][n].events
             w  == StateAfter(s, n - 1)
             es == EventsUpTo(s, n - 1)
             S  == TransitiveDependents(w.deps, b) \cup {b}
  <2>1. PICK x \in Range(q) : x.type \in {"edited", "moved"} /\ x.id = b
    BY DEF Changes
  <2>2. /\ es \in Seq(Event) /\ q \in Seq(Event) /\ w \in SoundWork \cup {None}
        /\ w = Replay(es) /\ StateAfter(s, n) = Replay(es \o q)
        /\ DependentsInvalidated(w, stream[s][n])
    <3>1. /\ es \in Seq(Event) /\ q \in Seq(Event) /\ EventsUpTo(s, n) = es \o q
          /\ w \in SoundWork \cup {None} /\ DependentsInvalidated(w, stream[s][n])
      BY CommitsGoOn
    <3> QED BY <3>1 DEF StateAfter
  <2>3. /\ w # None /\ \A e \in Range(q) : e.type # "registered"
        /\ \A r \in TransitiveDependents(w.deps, b) : Invalidated(r) \in Range(q)
    BY <2>1, <2>2 DEF DependentsInvalidated
  <2>4. b \in Resource
    <3>1. x \in Event
      BY <2>1, <2>2 DEF Range
    <3>2. x.id \in BlockId
      BY <2>1, <3>1 DEF Event
    <3> QED BY <2>1, <3>2, WorkAssumption
  <2>5. w \in SoundWork /\ w.deps \in SUBSET Dependency
    BY <2>2, <2>3 DEF SoundWork
  <2> HIDE DEF q, w, es
  <2>6. S \in SUBSET Resource /\ b \in S /\ \A y \in w.deps : y.source \in S => y.dependent \in S
    <3> DEFINE deps == w.deps
    <3>1. deps \in SUBSET Dependency /\ S = TransitiveDependents(deps, b) \cup {b}
      BY <2>5
    <3> HIDE DEF deps, S
    <3>2. S \in SUBSET Resource /\ \A y \in deps : y.source \in S => y.dependent \in S
      BY <2>4, <3>1, DependentsAreClosed
    <3> QED BY <3>1, <3>2 DEF deps
  <2>7. PICK h : GoesOn(h, w, q) /\ Replay(es \o q) = h[Len(q)]
    BY <2>2, <2>3, ReplayGoesOn
  <2>8. h[Len(q)] # None /\ StateAfter(s, n).deps = h[Len(q)].deps
    BY <2>2, <2>7
  <2>9. \A y \in StateAfter(s, n).deps :
          /\ Descends(y, w.deps)
          /\ \A e \in Range(q) : e.type = "invalidated" /\ e.dependent = y.dependent => y.stale
    BY <2>3, <2>5, <2>2, <2>7, <2>8, DependenciesGoOn
  <2>10. d.dependent \in S
    <3> HIDE DEF S
    <3>1. \A y \in StateAfter(s, n).deps : y.source \in S => y.dependent \in S
      BY <2>6, <2>9 DEF Descends
    <3> QED BY <2>6, <3>1 DEF DependsOn
  <2>11. Invalidated(d.dependent) \in Range(q)
    BY <2>3, <2>10
  <2>12. /\ Invalidated(d.dependent).type = "invalidated"
         /\ Invalidated(d.dependent).dependent = d.dependent
    BY DEF Invalidated
  <2> QED BY <2>9, <2>11, <2>12, Zenon
<1> QED BY <1>1, CommitsStayExplained, PTL

=============================================================================
