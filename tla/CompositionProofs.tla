-------------------------- MODULE CompositionProofs --------------------------
(***************************************************************************)
(* DependenciesFirst for every catalog: the order that visit makes of the  *)
(* plugins puts each after what it requires, and holds each once.  A cycle *)
(* of requires never returns, because the frames above a node are what it  *)
(* requires in turn and none of them is in the order yet.                  *)
(*                                                                         *)
(* PlannedAsActivated and PlanExplains, of the plan made of that order:    *)
(* the reviewers it lists are those the active plugins ask for, and both   *)
(* ways to work them out agree unless a workflow came before a genre.      *)
(***************************************************************************)
EXTENDS PluginComposition, SequenceLemmas, SequenceTheorems, FiniteSetTheorems

Frame == [node : Nat, left : SUBSET Nat]

Ordering == {"order", "activate", "require", "plan", "planned"}

\* The plugins are in the order once, each after what it requires.
OrderSound ==
  /\ order \in Seq(Nat)
  /\ \A i, j \in DOMAIN order : order[i] = order[j] => i = j
  /\ \A i \in DOMAIN order : Requires(order[i]) \subseteq {order[j] : j \in 1..(i-1)}

\* A call in progress: of a plugin of the project that is not in the order, and
\* what it requires is still left, or in the order, or being visited by the next call.
CallSound(k) ==
  /\ stack[k].node \in project.asked \ ElementsOf(order)
  /\ stack[k].left \subseteq Requires(stack[k].node)
  /\ k < Len(stack) => stack[k+1].node \in Requires(stack[k].node)
  /\ \A d \in Requires(stack[k].node) \ stack[k].left :
       d \in ElementsOf(order) \/ (k < Len(stack) /\ d = stack[k+1].node)

\* What the loop has passed is in the order or is its call in progress.
LoopSound ==
  \A p \in project.asked \ todo :
    p \in ElementsOf(order) \/ (stack # <<>> /\ p = stack[1].node)

WhileOrdering ==
  /\ \A id \in project.asked : Requires(id) \subseteq project.asked
  /\ todo \subseteq project.asked
  /\ stack \in Seq(Frame)
  /\ ElementsOf(order) \subseteq project.asked
  /\ \A k \in DOMAIN stack : CallSound(k)
  /\ LoopSound

OrderInv ==
  /\ project \in Project
  /\ OrderSound
  /\ phase = "resolve" => order = <<>> /\ stack = <<>>
  /\ phase \in Ordering => WhileOrdering
  /\ phase \in Ordering \ {"order"} => todo = {} /\ stack = <<>>

\* The initial state.
LEMMA OrderInvInit == CompositionInit => OrderInv
BY DEF CompositionInit, OrderInv, OrderSound, Ordering

\* The invariant says what the property says.
LEMMA OrderInvImplies == OrderInv => DependenciesFirst
BY DEF OrderInv, OrderSound, WhileOrdering, LoopSound, DependenciesFirst, Ordering, ElementsOf

\* What depends on the order alone.
LEMMA OrderSame ==
  ASSUME OrderSound, UNCHANGED <<project, order>>
  PROVE  OrderSound'
BY DEF OrderSound, Requires, Plugin

\* What depends on the traversal alone.
LEMMA AllSame ==
  ASSUME WhileOrdering, UNCHANGED <<project, order, todo, stack>>
  PROVE  WhileOrdering'
BY DEF WhileOrdering, LoopSound, CallSound, Requires, Plugin, ElementsOf, Frame

\* An exception changes nothing of the order.
LEMMA FailKeeps == ASSUME OrderInv, NEW why, Fail(why) PROVE OrderInv'
BY OrderSame DEF OrderInv, Fail, Ordering

\* The project was found to be closed under requires.
LEMMA ResolveKeeps == ASSUME OrderInv, Resolve PROVE OrderInv'
<1>1. ASSUME /\ ~MissingDependency /\ phase' = "order" /\ todo' = project.asked
             /\ UNCHANGED <<project, stack, order>>
      PROVE  OrderInv'
  <2>1. order = <<>> /\ stack = <<>>
    BY DEF OrderInv, Resolve
  <2>2. OrderSound'
    BY <1>1, OrderSame DEF OrderInv
  <2>3. WhileOrdering'
    BY <1>1, <2>1 DEF WhileOrdering, LoopSound, MissingDependency, Requires, Plugin, ElementsOf
  <2> QED BY <1>1, <2>2, <2>3 DEF OrderInv, Ordering
<1> QED BY <1>1, FailKeeps DEF Resolve

\* One more call, of a plugin of the project that may be in the order already.
LEMMA EnteredFrames ==
  ASSUME ProjectAssumption, NEW id, id \in project.asked, project \in Project,
         \A i \in project.asked : Requires(i) \subseteq project.asked,
         NEW calls \in Seq(Frame)
  PROVE  /\ Entered(id, calls) \in Seq(Frame)
         /\ id \in ElementsOf(order) => Entered(id, calls) = calls
         /\ id \notin ElementsOf(order) =>
              /\ Len(Entered(id, calls)) = Len(calls) + 1
              /\ Entered(id, calls)[Len(calls) + 1] = [node |-> id, left |-> Requires(id)]
              /\ \A k \in 1..Len(calls) : Entered(id, calls)[k] = calls[k]
<1>1. id \in Nat /\ Requires(id) \subseteq Nat
  BY DEF ProjectAssumption
<1>2. Call(id) \in Frame /\ Call(id) = [node |-> id, left |-> Requires(id)]
  BY <1>1 DEF Call, Frame
<1> QED BY <1>2 DEF Entered

\* The loop goes on to the next plugin.
LEMMA VisitNextKeeps == ASSUME ProjectAssumption, OrderInv, VisitNext PROVE OrderInv'
<1>1. phase = "order" /\ stack = <<>> /\ WhileOrdering /\ UNCHANGED <<project, phase, order>>
  BY DEF VisitNext, OrderInv, Ordering
<1>2. PICK p \in todo : todo' = todo \ {p} /\ stack' = Entered(p, stack)
  BY DEF VisitNext
<1>3. p \in project.asked /\ project \in Project /\ stack \in Seq(Frame)
  BY <1>1 DEF WhileOrdering, OrderInv
<1>4. /\ stack' \in Seq(Frame)
      /\ p \in ElementsOf(order) => stack' = <<>>
      /\ p \notin ElementsOf(order) =>
           Len(stack') = 1 /\ stack'[1] = [node |-> p, left |-> Requires(p)]
  <2>1. \A i \in project.asked : Requires(i) \subseteq project.asked
    BY <1>1 DEF WhileOrdering
  <2> HIDE DEF ElementsOf
  <2>2. /\ Entered(p, stack) \in Seq(Frame)
        /\ p \in ElementsOf(order) => Entered(p, stack) = stack
        /\ p \notin ElementsOf(order) =>
             /\ Len(Entered(p, stack)) = Len(stack) + 1
             /\ Entered(p, stack)[Len(stack) + 1] = [node |-> p, left |-> Requires(p)]
    BY <1>3, <2>1, EnteredFrames
  <2>3. Len(stack) + 1 = 1
    BY <1>1
  <2> QED BY <1>1, <1>2, <2>2, <2>3
<1>5. OrderSound'
  BY <1>1, OrderSame DEF OrderInv
<1>6. ASSUME NEW k \in DOMAIN stack' PROVE CallSound(k)'
  <2>1. p \notin ElementsOf(order) /\ k = 1 /\ Len(stack') = 1
        /\ stack'[1] = [node |-> p, left |-> Requires(p)]
    BY <1>4
  <2> QED BY <1>1, <1>3, <2>1 DEF CallSound, Requires, Plugin, ElementsOf
<1>7. LoopSound'
  BY <1>1, <1>2, <1>4 DEF WhileOrdering, LoopSound, ElementsOf
<1>8. WhileOrdering'
  BY <1>1, <1>2, <1>4, <1>6, <1>7 DEF WhileOrdering, Requires, Plugin, ElementsOf
<1> QED BY <1>1, <1>5, <1>8 DEF OrderInv, Ordering

\* All but the last element.
LEMMA Shorter ==
  ASSUME NEW E, NEW s \in Seq(E), s # <<>>
  PROVE  /\ SubSeq(s, 1, Len(s) - 1) \in Seq(E) /\ Len(SubSeq(s, 1, Len(s) - 1)) = Len(s) - 1
         /\ \A k \in 1..(Len(s) - 1) : SubSeq(s, 1, Len(s) - 1)[k] = s[k]
<1> DEFINE n == Len(s) - 1
<1>1. n \in Nat /\ \A i \in 1..n : s[i] \in E
  OBVIOUS
<1> HIDE DEF n
<1>2. /\ SubSeq(s, 1, n) \in Seq(E)
      /\ Len(SubSeq(s, 1, n)) = IF 1 <= n THEN n-1+1 ELSE 0
      /\ \A i \in 1..(n-1+1) : SubSeq(s, 1, n)[i] = s[1+i-1]
  BY <1>1, SubSeqProperties
<1>3. /\ SubSeq(s, 1, n) \in Seq(E) /\ Len(SubSeq(s, 1, n)) = n
      /\ \A i \in 1..n : SubSeq(s, 1, n)[i] = s[i]
  BY <1>1, <1>2
<1> QED BY <1>3 DEF n

\* What the frame on top becomes when one of its requires is taken up.
LEMMA Taken ==
  ASSUME stack \in Seq(Frame), stack # <<>>, NEW d,
         NEW mid, mid = Append(Below, [node |-> Top.node, left |-> Top.left \ {d}])
  PROVE  /\ mid \in Seq(Frame) /\ Len(mid) = Len(stack) /\ Len(stack) \in Nat \ {0}
         /\ \A k \in 1..(Len(stack) - 1) : mid[k] = stack[k]
         /\ mid[Len(stack)] = [node |-> stack[Len(stack)].node,
                               left |-> stack[Len(stack)].left \ {d}]
<1>1. Len(stack) \in Nat \ {0} /\ Top = stack[Len(stack)] /\ Top \in Frame
  BY DEF Top
<1>2. [node |-> Top.node, left |-> Top.left \ {d}] \in Frame
  BY <1>1 DEF Frame
<1>3. /\ Below \in Seq(Frame) /\ Len(Below) = Len(stack) - 1
      /\ \A k \in 1..(Len(stack) - 1) : Below[k] = stack[k]
  BY Shorter DEF Below
<1> QED BY <1>1, <1>2, <1>3

\* visit goes down to a plugin that the one on top requires.
LEMMA VisitDependencyKeeps ==
  ASSUME ProjectAssumption, OrderInv, VisitDependency PROVE OrderInv'
<1> DEFINE n == Len(stack)
<1>1. /\ phase = "order" /\ stack # <<>> /\ WhileOrdering /\ stack \in Seq(Frame)
      /\ project \in Project
  BY DEF VisitDependency, OrderInv, Ordering, WhileOrdering
<1>2. SUFFICES ASSUME NEW d \in Top.left,
                      stack' = Entered(d, Append(Below, [node |-> Top.node, left |-> Top.left \ {d}])),
                      UNCHANGED <<project, phase, todo, order>>
               PROVE  OrderInv'
  BY FailKeeps DEF VisitDependency
<1> DEFINE mid == Append(Below, [node |-> Top.node, left |-> Top.left \ {d}])
<1>3. /\ mid \in Seq(Frame) /\ Len(mid) = n /\ n \in Nat \ {0}
      /\ \A k \in 1..(n-1) : mid[k] = stack[k]
      /\ mid[n] = [node |-> stack[n].node, left |-> stack[n].left \ {d}]
  BY <1>1, Taken
<1>4. d \in stack[n].left /\ d \in Requires(stack[n].node) /\ d \in project.asked
  BY <1>1, <1>3 DEF Top, WhileOrdering, CallSound
<1>5. \A i \in project.asked : Requires(i) \subseteq project.asked
  BY <1>1 DEF WhileOrdering
<1>6. /\ stack' \in Seq(Frame)
      /\ d \in ElementsOf(order) => stack' = mid
      /\ d \notin ElementsOf(order) =>
           /\ Len(stack') = n + 1
           /\ stack'[n + 1] = [node |-> d, left |-> Requires(d)]
           /\ \A k \in 1..n : stack'[k] = mid[k]
  <2> HIDE DEF mid
  <2>1. stack' = Entered(d, mid)
    BY <1>2 DEF mid
  <2>2. mid \in Seq(Frame) /\ Len(mid) = n
    BY <1>3
  <2>3. /\ Entered(d, mid) \in Seq(Frame)
        /\ d \in ElementsOf(order) => Entered(d, mid) = mid
        /\ d \notin ElementsOf(order) =>
             /\ Len(Entered(d, mid)) = Len(mid) + 1
             /\ Entered(d, mid)[Len(mid) + 1] = [node |-> d, left |-> Requires(d)]
             /\ \A k \in 1..Len(mid) : Entered(d, mid)[k] = mid[k]
    BY <1>1, <1>4, <1>5, <2>2, EnteredFrames
  <2> QED BY <2>1, <2>2, <2>3
<1>7. /\ \A k \in 1..(n-1) : stack'[k] = stack[k]
      /\ stack'[n] = [node |-> stack[n].node, left |-> stack[n].left \ {d}]
      /\ stack'[n].node = stack[n].node /\ stack'[n].left = stack[n].left \ {d}
      /\ Len(stack') = IF d \in ElementsOf(order) THEN n ELSE n + 1
  <2> HIDE DEF mid
  <2> QED BY <1>3, <1>6
<1> HIDE DEF mid
<1>8. OrderSound'
  BY <1>2, OrderSame DEF OrderInv
<1>9. \A id : Requires(id)' = Requires(id)
  BY <1>2 DEF Requires, Plugin
<1>10. ElementsOf(order)' = ElementsOf(order)
  BY <1>2 DEF ElementsOf
<1>11. ASSUME NEW k \in DOMAIN stack' PROVE CallSound(k)'
  <2>1. CASE k \in 1..(n-1)
    <3>1. CallSound(k) /\ stack'[k] = stack[k] /\ k + 1 \in 1..n /\ stack'[k+1].node = stack[k+1].node
      <4>1. k + 1 \in 1..(n-1) \/ k + 1 = n
        BY <2>1, <1>3
      <4> QED BY <1>1, <1>3, <1>7, <2>1, <4>1 DEF WhileOrdering
    <3>2. k < Len(stack) /\ k < Len(stack')
      BY <1>3, <1>7, <2>1
    <3> QED BY <1>2, <1>9, <1>10, <3>1, <3>2 DEF CallSound
  <2>2. CASE k = n
    <3>1. CallSound(n) /\ ~(n < n)
      BY <1>1, <1>3 DEF WhileOrdering
    <3>2. CASE d \in ElementsOf(order)
      BY <1>2, <1>3, <1>4, <1>7, <1>9, <1>10, <2>2, <3>1, <3>2 DEF CallSound
    <3>3. CASE d \notin ElementsOf(order)
      <4>1. n < Len(stack') /\ stack'[n+1].node = d
        BY <1>3, <1>6, <3>3
      <4> QED BY <1>2, <1>4, <1>7, <1>9, <1>10, <2>2, <3>1, <4>1 DEF CallSound
    <3> QED BY <3>2, <3>3
  <2>3. CASE k = n + 1
    <3>1. d \notin ElementsOf(order) /\ ~(k < Len(stack'))
      BY <1>3, <1>6, <1>7, <2>3
    <3>2. stack'[k].node = d /\ stack'[k].left = Requires(d)
      BY <1>6, <2>3, <3>1
    <3> QED BY <1>2, <1>4, <1>9, <1>10, <3>1, <3>2 DEF CallSound
  <2>4. k \in 1..(n-1) \/ k = n \/ k = n + 1
    BY <1>3, <1>6, <1>7
  <2> QED BY <2>1, <2>2, <2>3, <2>4
<1>12. LoopSound'
  <2>1. stack' # <<>> /\ stack'[1].node = stack[1].node
    <3>1. 1 \in 1..(n-1) \/ 1 = n
      BY <1>3
    <3> QED BY <1>3, <1>7, <1>6, <3>1
  <2> QED BY <1>1, <1>2, <1>10, <2>1 DEF WhileOrdering, LoopSound
<1>13. WhileOrdering'
  BY <1>1, <1>2, <1>6, <1>9, <1>10, <1>11, <1>12 DEF WhileOrdering
<1> QED BY <1>1, <1>2, <1>8, <1>13 DEF OrderInv, Ordering

\* visit returns: what the plugin requires is there, and now it is there itself.
LEMMA ReturnKeeps == ASSUME ProjectAssumption, OrderInv, Return PROVE OrderInv'
<1> DEFINE n == Len(stack)  node == stack[n].node
<1>1. /\ phase = "order" /\ stack # <<>> /\ WhileOrdering /\ stack \in Seq(Frame)
      /\ project \in Project /\ OrderSound /\ order \in Seq(Nat)
  BY DEF Return, OrderInv, OrderSound, Ordering, WhileOrdering
<1>2. /\ stack[n].left = {} /\ stack' = Below /\ order' = Append(order, node)
      /\ UNCHANGED <<project, phase, todo>>
  BY DEF Return, Top
<1>3. /\ stack' \in Seq(Frame) /\ Len(stack') = n - 1 /\ n \in Nat \ {0}
      /\ \A k \in 1..(n-1) : stack'[k] = stack[k]
  BY <1>1, <1>2, Shorter DEF Below
<1>4. /\ CallSound(n) /\ \A k \in 1..n : CallSound(k)
      /\ node \in project.asked \ ElementsOf(order) /\ Requires(node) \subseteq ElementsOf(order)
  <2>1. \A k \in 1..n : CallSound(k)
    BY <1>1 DEF WhileOrdering
  <2>2. CallSound(n) /\ ~(n < n)
    BY <1>3, <2>1
  <2> QED BY <1>2, <2>1, <2>2 DEF CallSound
<1>5. node \in Nat
  BY <1>1, <1>4 DEF ProjectAssumption
<1>6. /\ order' \in Seq(Nat) /\ Len(order') = Len(order) + 1
      /\ order'[Len(order) + 1] = node /\ \A i \in 1..Len(order) : order'[i] = order[i]
      /\ Len(order) \in Nat
  BY <1>1, <1>2, <1>5
<1>7. \A id : Requires(id)' = Requires(id)
  BY <1>2 DEF Requires, Plugin
<1>8. ElementsOf(order)' = ElementsOf(order) \cup {node}
  <2>1. DOMAIN order' = 1..(Len(order) + 1) /\ DOMAIN order = 1..Len(order)
    BY <1>1, <1>6
  <2> QED BY <1>6, <2>1 DEF ElementsOf
<1>9. OrderSound'
  <2> DEFINE m == Len(order)
  <2>1. DOMAIN order' = 1..(m + 1) /\ DOMAIN order = 1..m
    BY <1>1, <1>6
  <2>2. ASSUME NEW i \in 1..(m+1), NEW j \in 1..(m+1), order'[i] = order'[j] PROVE i = j
    <3>1. \A k \in 1..m : order[k] # node
      BY <1>4, <2>1 DEF ElementsOf
    <3>2. (i \in 1..m \/ i = m + 1) /\ (j \in 1..m \/ j = m + 1)
      BY <1>6
    <3> QED BY <1>1, <1>6, <2>1, <2>2, <3>1, <3>2 DEF OrderSound
  <2>3. ASSUME NEW i \in 1..(m+1) PROVE Requires(order'[i]) \subseteq {order'[j] : j \in 1..(i-1)}
    <3>1. CASE i \in 1..m
      <4>1. Requires(order[i]) \subseteq {order[j] : j \in 1..(i-1)}
        BY <1>1, <2>1, <3>1 DEF OrderSound
      <4>2. \A j \in 1..(i-1) : order'[j] = order[j]
        BY <1>6, <3>1
      <4> QED BY <1>6, <3>1, <4>1, <4>2
    <3>2. CASE i = m + 1
      <4>1. Requires(node) \subseteq {order[j] : j \in 1..m}
        BY <1>4, <2>1 DEF ElementsOf
      <4>2. order'[i] = node /\ i - 1 = m
        BY <1>6, <3>2
      <4>3. \A j \in 1..m : order[j] = order'[j]
        BY <1>6
      <4> QED BY <4>1, <4>2, <4>3
    <3>3. i \in 1..m \/ i = m + 1
      BY <1>6
    <3> QED BY <3>1, <3>2, <3>3
  <2>4. \A i, j \in DOMAIN order' : order'[i] = order'[j] => i = j
    BY <2>1, <2>2
  <2>5. \A i \in DOMAIN order' : Requires(order'[i]) \subseteq {order'[j] : j \in 1..(i-1)}
    BY <2>1, <2>3
  <2> QED BY <1>2, <1>6, <2>4, <2>5 DEF OrderSound, Requires, Plugin
<1>10. ASSUME NEW k \in DOMAIN stack' PROVE CallSound(k)'
  <2>1. /\ k \in 1..(n-1) /\ stack'[k] = stack[k] /\ k < n /\ k + 1 \in 1..n
        /\ CallSound(k) /\ CallSound(k+1)
    BY <1>3, <1>4
  <2>2. stack[k].node # node
    <3>1. stack[k+1].node \in Requires(stack[k].node) /\ stack[k+1].node \notin ElementsOf(order)
      BY <2>1 DEF CallSound
    <3> QED BY <1>4, <3>1
  <2>3. k < Len(stack') => k + 1 \in 1..(n-1) /\ stack'[k+1] = stack[k+1]
    BY <1>3, <2>1
  <2>4. ~(k < Len(stack')) => stack[k+1].node = node
    <3>1. ~(k < Len(stack')) => k + 1 = n
      BY <1>3, <2>1
    <3> QED BY <3>1
  <2> QED BY <1>2, <1>7, <1>8, <2>1, <2>2, <2>3, <2>4 DEF CallSound
<1>11. LoopSound'
  <2>1. CASE n = 1
    BY <1>1, <1>2, <1>8, <2>1 DEF WhileOrdering, LoopSound
  <2>2. CASE n # 1
    <3>1. stack' # <<>> /\ stack'[1] = stack[1]
      BY <1>3, <2>2
    <3> QED BY <1>1, <1>2, <1>8, <3>1 DEF WhileOrdering, LoopSound
  <2> QED BY <2>1, <2>2
<1>12. WhileOrdering'
  BY <1>1, <1>2, <1>3, <1>4, <1>7, <1>8, <1>10, <1>11 DEF WhileOrdering
<1> QED BY <1>1, <1>2, <1>9, <1>12 DEF OrderInv, Ordering

\* Everything after the order leaves it alone.
LEMMA OthersKeep ==
  ASSUME OrderInv,
         Ordered \/ Activate \/ Require \/ ActivateReviewer \/ Activated \/ ComposePlan
         \/ UNCHANGED compositionVars
  PROVE  OrderInv'
<1>1. SUFFICES ASSUME UNCHANGED <<project, todo, stack, order>>,
                      \/ phase = "order" /\ stack = <<>> /\ todo = {} /\ phase' = "activate"
                      \/ phase' = phase
                      \/ phase \in Ordering \ {"order"} /\ phase' \in Ordering \ {"order"}
               PROVE  OrderInv'
  BY FailKeeps DEF Ordered, Activate, Require, ActivateReviewer, Activated, ComposePlan,
                   compositionVars, Ordering
<1>2. OrderSound'
  BY <1>1, OrderSame DEF OrderInv
<1>3. WhileOrdering => WhileOrdering'
  BY <1>1, AllSame
<1> QED BY <1>1, <1>2, <1>3 DEF OrderInv, Ordering

\* DependenciesFirst, of compose_project, for every project, catalog and recursion
\* limit: what a plugin requires is composed before it, and no plugin is there twice.
THEOREM ComposedInOrder == CompositionSpec => []DependenciesFirst
<1>1. OrderInv /\ [CompositionNext]_compositionVars => OrderInv'
  BY ProjectAssumption, ResolveKeeps, VisitNextKeeps, VisitDependencyKeeps, ReturnKeeps, OthersKeep
     DEF CompositionNext
<1> QED BY <1>1, OrderInvInit, OrderInvImplies, PTL DEF CompositionSpec

----------------------------------------------------------------------------
(* _ordered_unique *)

\* Counting the elements of K up to each of them numbers them from 1.
LEMMA CountingNumbers ==
  ASSUME NEW n \in Nat, NEW K \in SUBSET (1..n)
  PROVE  /\ Cardinality(K) \in Nat
         /\ \A i \in K : Cardinality(K \cap 1..i) \in 1..Cardinality(K)
         /\ \A i, j \in K : Cardinality(K \cap 1..i) = Cardinality(K \cap 1..j) => i = j
         /\ \A m \in 1..Cardinality(K) : \E i \in K : Cardinality(K \cap 1..i) = m
<1> DEFINE count == [i \in K |-> Cardinality(K \cap 1..i)]
<1>1. IsFiniteSet(K) /\ Cardinality(K) \in Nat
  <2>1. IsFiniteSet(1..n)
    BY FS_Interval
  <2> QED BY <2>1, FS_Subset, FS_CardinalityType
<1>2. ASSUME NEW i \in K PROVE /\ IsFiniteSet(K \cap 1..i) /\ i \in K \cap 1..i
                               /\ Cardinality(K \cap 1..i) \in 1..Cardinality(K)
  <2>1. K \cap 1..i \in SUBSET K /\ i \in K \cap 1..i
    OBVIOUS
  <2>2. /\ IsFiniteSet(K \cap 1..i) /\ Cardinality(K \cap 1..i) <= Cardinality(K)
        /\ Cardinality(K \cap 1..i) \in Nat
    BY <1>1, <2>1, FS_Subset, FS_CardinalityType
  <2>3. Cardinality(K \cap 1..i) # 0
    BY <2>1, <2>2, FS_EmptySet
  <2> QED BY <1>1, <2>1, <2>2, <2>3
<1>3. ASSUME NEW i \in K, NEW j \in K, i < j
      PROVE  Cardinality(K \cap 1..i) < Cardinality(K \cap 1..j)
  <2>1. K \cap 1..i \in SUBSET ((K \cap 1..j) \ {j})
    BY <1>3
  <2>2. /\ IsFiniteSet((K \cap 1..j) \ {j})
        /\ Cardinality((K \cap 1..j) \ {j}) = Cardinality(K \cap 1..j) - 1
    BY <1>2, FS_RemoveElement
  <2>3. Cardinality(K \cap 1..i) <= Cardinality((K \cap 1..j) \ {j})
    BY <2>1, <2>2, FS_Subset
  <2>4. Cardinality(K \cap 1..i) \in Nat /\ Cardinality(K \cap 1..j) \in Nat
    BY <1>1, <1>2
  <2> QED BY <2>2, <2>3, <2>4
<1>4. ASSUME NEW i \in K, NEW j \in K, Cardinality(K \cap 1..i) = Cardinality(K \cap 1..j)
      PROVE  i = j
  <2>1. i \in Nat /\ j \in Nat
    OBVIOUS
  <2>2. Cardinality(K \cap 1..i) \in Nat /\ Cardinality(K \cap 1..j) \in Nat
    BY <1>1, <1>2
  <2>3. ~(i < j) /\ ~(j < i)
    BY <1>3, <1>4, <2>2
  <2> QED BY <2>1, <2>3
<1>5. count \in Injection(K, 1..Cardinality(K))
  <2>1. count \in [K -> 1..Cardinality(K)]
    BY <1>2
  <2> QED BY <1>4, <2>1 DEF Injection, IsInjective
<1>6. IsFiniteSet(1..Cardinality(K)) /\ Cardinality(1..Cardinality(K)) = Cardinality(K)
  BY <1>1, FS_Interval
<1>7. count \in Surjection(K, 1..Cardinality(K))
  BY <1>1, <1>5, <1>6, FS_Injection
<1>8. \A m \in 1..Cardinality(K) : \E i \in K : count[i] = m
  <2> HIDE DEF count
  <2> QED BY <1>7 DEF Surjection
<1> QED BY <1>1, <1>2, <1>4, <1>8

\* Nothing is lost and nothing is made up.
LEMMA UniqueElements ==
  ASSUME NEW E, NEW s \in Seq(E)
  PROVE  ElementsOf(OrderedUnique(s)) = ElementsOf(s)
<1> DEFINE new == {i \in DOMAIN s : \A j \in 1..(i-1) : s[j] # s[i]}
           count(i) == Cardinality(new \cap 1..i)
           u == OrderedUnique(s)
<1>1. Len(s) \in Nat /\ DOMAIN s = 1..Len(s) /\ new \in SUBSET (1..Len(s))
  OBVIOUS
<1>2. u = [n \in 1..Cardinality(new) |-> s[CHOOSE i \in new : count(i) = n]]
  BY DEF OrderedUnique
<1>3. /\ Cardinality(new) \in Nat
      /\ \A i \in new : count(i) \in 1..Cardinality(new)
      /\ \A i, j \in new : count(i) = count(j) => i = j
      /\ \A m \in 1..Cardinality(new) : \E i \in new : count(i) = m
  <2> HIDE DEF new
  <2> QED BY <1>1, CountingNumbers
<1>4. ASSUME NEW x \in ElementsOf(s) PROVE \E i \in new : s[i] = x
  <2> DEFINE I == {i \in 1..Len(s) : s[i] = x}
  <2>1. I \subseteq Nat /\ I # {}
    BY <1>1 DEF ElementsOf
  <2>2. PICK i \in I : \A j \in I : i <= j
    <3> HIDE DEF I
    <3> QED BY <2>1, LeastNat
  <2>3. i \in new /\ s[i] = x
    BY <1>1, <2>2
  <2> QED BY <2>3
<1>5. \A i \in new : s[i] \in ElementsOf(s)
  BY DEF ElementsOf
<1> HIDE DEF new, u
<1>6. ASSUME NEW n \in 1..Cardinality(new) PROVE u[n] \in ElementsOf(s)
  <2>1. (CHOOSE i \in new : count(i) = n) \in new
    BY <1>3
  <2> QED BY <1>2, <1>5, <2>1
<1>7. ASSUME NEW i \in new PROVE s[i] \in {u[n] : n \in 1..Cardinality(new)}
  <2>1. (CHOOSE j \in new : count(j) = count(i)) = i
    <3> DEFINE k == CHOOSE j \in new : count(j) = count(i)
    <3>1. k \in new /\ count(k) = count(i)
      OBVIOUS
    <3> QED BY <1>3, <3>1
  <2>2. count(i) \in 1..Cardinality(new)
    BY <1>3
  <2>3. u[count(i)] = s[i]
    BY <1>2, <2>1, <2>2
  <2> QED BY <2>2, <2>3
<1>8. DOMAIN u = 1..Cardinality(new)
  BY <1>2
<1>9. ElementsOf(u) = {u[n] : n \in 1..Cardinality(new)}
  BY <1>8 DEF ElementsOf
<1>10. ElementsOf(u) \subseteq ElementsOf(s)
  BY <1>6, <1>9
<1>11. ElementsOf(s) \subseteq ElementsOf(u)
  BY <1>4, <1>7, <1>9
<1> QED BY <1>10, <1>11 DEF u

----------------------------------------------------------------------------
(* What the plugins require *)

\* RequiredBy, of any plugins a of any catalog c.
Gathered(c, a, types) ==
  LET from[i \in 0..Len(a)] ==
        IF i = 0 THEN <<>>
        ELSE IF c[a[i]].type \in types THEN from[i-1] \o c[a[i]].reviewers
        ELSE from[i-1]
  IN from[Len(a)]

LEMMA RequiredByGathers ==
  \A types : RequiredBy(types) = Gathered(project.catalog, active, types)
BY DEF RequiredBy, Gathered, Plugin

\* The plugins of a name reviewers.
Named(c, a) == a \in Seq(Nat) /\ \A i \in 1..Len(a) : c[a[i]].reviewers \in Seq(Nat)

\* What has been gathered from the first plugins, up to each of them.
Gathers(f, c, a, types) ==
  /\ f \in [0..Len(a) -> Seq(Nat)] /\ f[0] = <<>>
  /\ \A i \in 1..Len(a) :
       /\ c[a[i]].type \in types => f[i] = f[i-1] \o c[a[i]].reviewers
       /\ c[a[i]].type \notin types => f[i] = f[i-1]

LEMMA GatheredIsLast ==
  ASSUME NEW c, NEW a, Named(c, a), NEW types
  PROVE  \E f : Gathers(f, c, a, types) /\ Gathered(c, a, types) = f[Len(a)]
<1> DEFINE N == Len(a)
           V == Seq(Nat)
           Step(i, q) == IF c[a[i]].type \in types THEN q \o c[a[i]].reviewers ELSE q
           P(f) == f = [i \in 0..N |->
             IF i = 0 THEN <<>>
             ELSE IF c[a[i]].type \in types THEN f[i-1] \o c[a[i]].reviewers
             ELSE f[i-1]]
           F == CHOOSE f : P(f)
<1>1. N \in Nat /\ \A i \in 1..N : c[a[i]].reviewers \in V
  BY DEF Named
<1> HIDE DEF N
<1>2. ASSUME NEW i \in 1..N, NEW q \in V PROVE Step(i, q) \in V
  BY <1>1, ConcatElements
<1>3. \E f : P(f)
  <2> DEFINE step == [i \in 1..N |-> [q \in V |-> Step(i, q)]]
  <2>1. step \in [1..N -> [V -> V]]
    <3> HIDE DEF Step, V
    <3> QED BY <1>2
  <2>2. <<>> \in V
    OBVIOUS
  <2>3. PICK f \in [0..N -> V] : Recurs(f, N, <<>>, step)
    <3> HIDE DEF step, V, P, F, Step
    <3> QED BY <1>1, <2>1, <2>2, RecursionExists
  <2>4. ASSUME NEW i \in 1..N PROVE f[i] = Step(i, f[i-1])
    <3>1. i - 1 \in 0..N
      BY <1>1
    <3>2. f[i-1] \in V
      BY <3>1
    <3> HIDE DEF V, Step
    <3> QED BY <2>3, <3>2 DEF Recurs
  <2>5. \A i \in 0..N : i # 0 => i \in 1..N
    BY <1>1
  <2>6. P(f)
    <3> HIDE DEF V
    <3> QED BY <2>3, <2>4, <2>5 DEF Recurs
  <2> QED BY <2>6
<1>4. P(F)
  <2> HIDE DEF P
  <2> QED BY <1>3
<1>5. Gathered(c, a, types) = F[N]
  BY DEF Gathered, N
<1>6. F[0] = <<>>
  <2> HIDE DEF F
  <2> QED BY <1>1, <1>4
<1>7. ASSUME NEW i \in 1..N PROVE F[i] = Step(i, F[i-1])
  <2>1. i \in 0..N /\ i # 0
    BY <1>1
  <2> HIDE DEF F
  <2> QED BY <1>4, <2>1
<1>8. ASSUME NEW i \in 1..N, F[i-1] \in V PROVE F[i] \in V
  <2> HIDE DEF F, V, Step
  <2> QED BY <1>2, <1>7, <1>8
<1>9. ASSUME NEW m \in 0..N PROVE F[m] \in V
  <2>1. m \in Nat /\ \A i \in 1..m : i \in 1..N
    BY <1>1
  <2>2. F[0] \in V
    <3> HIDE DEF F
    <3> QED BY <1>6
  <2> HIDE DEF F, V
  <2> QED BY <1>8, <2>1, <2>2, RecursionStays
<1>10. F \in [0..N -> V]
  <2>1. F = [i \in 0..N |-> F[i]]
    <3> HIDE DEF F
    <3> QED BY <1>4
  <2> HIDE DEF F, V
  <2> QED BY <1>9, <2>1
<1>11. Gathers(F, c, a, types)
  <2> HIDE DEF F, P
  <2> QED BY <1>6, <1>7, <1>10 DEF Gathers, N
<1>12. Gathered(c, a, types) = F[Len(a)]
  <2> HIDE DEF F
  <2> QED BY <1>5 DEF N
<1> HIDE DEF F
<1> QED BY <1>11, <1>12

\* The elements of two sequences in a row.
LEMMA ElementsOfConcat ==
  ASSUME NEW p \in Seq(Nat), NEW q \in Seq(Nat)
  PROVE  p \o q \in Seq(Nat) /\ ElementsOf(p \o q) = ElementsOf(p) \cup ElementsOf(q)
<1>1. /\ p \o q \in Seq(Nat) /\ Len(p \o q) = Len(p) + Len(q)
      /\ \A k \in 1..Len(p) : (p \o q)[k] = p[k]
      /\ \A k \in (Len(p) + 1)..(Len(p) + Len(q)) : (p \o q)[k] = q[k - Len(p)]
  BY ConcatElements
<1> DEFINE r == p \o q
<1>0. DOMAIN p = 1..Len(p) /\ DOMAIN q = 1..Len(q) /\ DOMAIN r = 1..Len(r)
  BY <1>1
<1>2. ASSUME NEW x \in ElementsOf(p) PROVE x \in ElementsOf(p \o q)
  <2>1. PICK k \in 1..Len(p) : p[k] = x
    BY <1>0 DEF ElementsOf
  <2>2. k \in 1..Len(p \o q) /\ (p \o q)[k] = x
    BY <1>1, <2>1
  <2> QED BY <1>1, <2>2 DEF ElementsOf
<1>3. ASSUME NEW x \in ElementsOf(q) PROVE x \in ElementsOf(p \o q)
  <2>1. PICK k \in 1..Len(q) : q[k] = x
    BY <1>0 DEF ElementsOf
  <2>2. Len(p) + k \in (Len(p) + 1)..(Len(p) + Len(q)) /\ (Len(p) + k) - Len(p) = k
    OBVIOUS
  <2>3. Len(p) + k \in DOMAIN r /\ r[Len(p) + k] = x
    BY <1>0, <1>1, <2>1, <2>2
  <2> HIDE DEF r
  <2>4. x \in ElementsOf(r)
    BY <2>3 DEF ElementsOf
  <2> QED BY <2>4 DEF r
<1>4. ASSUME NEW x \in ElementsOf(p \o q) PROVE x \in ElementsOf(p) \cup ElementsOf(q)
  <2>1. PICK k \in 1..(Len(p) + Len(q)) : (p \o q)[k] = x
    BY <1>1 DEF ElementsOf
  <2>2. CASE k \in 1..Len(p)
    BY <1>1, <2>1, <2>2 DEF ElementsOf
  <2>3. CASE k \notin 1..Len(p)
    <3>1. k \in (Len(p) + 1)..(Len(p) + Len(q)) /\ k - Len(p) \in 1..Len(q)
      BY <2>3
    <3>2. q[k - Len(p)] = x
      BY <1>1, <2>1, <3>1
    <3> QED BY <3>1, <3>2 DEF ElementsOf
  <2> QED BY <2>2, <2>3
<1> QED BY <1>1, <1>2, <1>3, <1>4

\* Only the empty sequence has none.
LEMMA NoElements == ASSUME NEW s \in Seq(Nat) PROVE ElementsOf(s) = {} <=> s = <<>>
<1>1. Len(s) \in Nat /\ DOMAIN s = 1..Len(s) /\ (s = <<>> <=> Len(s) = 0)
  OBVIOUS
<1>2. Len(s) # 0 => s[1] \in ElementsOf(s)
  BY <1>1 DEF ElementsOf
<1>3. Len(s) = 0 => ElementsOf(s) = {}
  BY <1>1 DEF ElementsOf
<1> QED BY <1>1, <1>2, <1>3

\* It is gathered from the plugins of those types, and from all of them.
LEMMA GatheredElements ==
  ASSUME NEW c, NEW a, Named(c, a), NEW types
  PROVE  /\ Gathered(c, a, types) \in Seq(Nat)
         /\ \A x : x \in ElementsOf(Gathered(c, a, types)) <=>
              \E i \in 1..Len(a) : c[a[i]].type \in types /\ x \in ElementsOf(c[a[i]].reviewers)
<1> DEFINE N == Len(a)
           From(x, i) == c[a[i]].type \in types /\ x \in ElementsOf(c[a[i]].reviewers)
<1>1. N \in Nat /\ \A i \in 1..N : c[a[i]].reviewers \in Seq(Nat)
  BY DEF Named
<1>2. PICK f : Gathers(f, c, a, types) /\ Gathered(c, a, types) = f[N]
  BY GatheredIsLast
<1>3. \A i \in 0..N : f[i] \in Seq(Nat)
  BY <1>2 DEF Gathers
<1> DEFINE T == {n \in Nat : n <= N =>
                   \A x : x \in ElementsOf(f[n]) <=> \E i \in 1..n : From(x, i)}
<1>4. 0 \in T
  <2>1. f[0] = <<>>
    BY <1>2 DEF Gathers
  <2>2. ElementsOf(f[0]) = {}
    BY <2>1 DEF ElementsOf
  <2> HIDE DEF From
  <2> QED BY <2>2
<1>5. ASSUME NEW n \in T PROVE n + 1 \in T
  <2> SUFFICES ASSUME n + 1 <= N, NEW x
               PROVE  x \in ElementsOf(f[n + 1]) <=> \E i \in 1..(n + 1) : From(x, i)
    OBVIOUS
  <2>1. /\ n \in Nat /\ n + 1 \in 1..N /\ (n + 1) - 1 = n /\ n \in 0..N
        /\ x \in ElementsOf(f[n]) <=> \E i \in 1..n : From(x, i)
    BY <1>1
  <2>2. (\E i \in 1..(n + 1) : From(x, i)) <=> (\E i \in 1..n : From(x, i)) \/ From(x, n + 1)
    <3> HIDE DEF From
    <3>1. \A i : i \in 1..(n + 1) <=> i \in 1..n \/ i = n + 1
      BY <2>1
    <3> QED BY <3>1
  <2>3. x \in ElementsOf(f[n + 1]) <=> x \in ElementsOf(f[n]) \/ From(x, n + 1)
    <3> HIDE DEF ElementsOf
    <3>1. CASE c[a[n + 1]].type \in types
      <4>1. f[n + 1] = f[n] \o c[a[n + 1]].reviewers
        BY <1>2, <2>1, <3>1 DEF Gathers
      <4> QED BY <1>1, <1>3, <2>1, <3>1, <4>1, ElementsOfConcat
    <3>2. CASE c[a[n + 1]].type \notin types
      <4>1. f[n + 1] = f[n]
        BY <1>2, <2>1, <3>2 DEF Gathers
      <4> QED BY <3>2, <4>1
    <3> QED BY <3>1, <3>2
  <2> HIDE DEF From
  <2> QED BY <2>1, <2>2, <2>3
<1>6. T = Nat
  <2>1. T \in SUBSET Nat
    OBVIOUS
  <2> HIDE DEF T
  <2> QED BY <1>4, <1>5, <2>1, InductionOnNat
<1>7. \A x : x \in ElementsOf(f[N]) <=> \E i \in 1..N : From(x, i)
  <2>1. N \in T
    <3> HIDE DEF T
    <3> QED BY <1>1, <1>6
  <2> HIDE DEF From
  <2> QED BY <1>1, <2>1
<1> QED BY <1>1, <1>2, <1>3, <1>7

\* A plugin of another type adds nothing.
LEMMA GatheredSame ==
  ASSUME NEW c, NEW a, Named(c, a), NEW types, NEW x \in Nat,
         c[x].reviewers \in Seq(Nat), c[x].type \notin types
  PROVE  /\ Named(c, Append(a, x))
         /\ Gathered(c, Append(a, x), types) = Gathered(c, a, types)
<1> DEFINE b == Append(a, x)
           N == Len(a)
<1>1. /\ a \in Seq(Nat) /\ N \in Nat /\ b \in Seq(Nat) /\ Len(b) = N + 1
      /\ b[N + 1] = x /\ \A i \in 1..N : b[i] = a[i]
  BY DEF Named
<1>2. \A i \in 1..N : c[a[i]].reviewers \in Seq(Nat)
  BY DEF Named
<1> HIDE DEF b, N
<1>3. Named(c, b)
  <2>1. ASSUME NEW i \in 1..(N + 1) PROVE c[b[i]].reviewers \in Seq(Nat)
    <3>1. i \in 1..N \/ i = N + 1
      BY <1>1
    <3> QED BY <1>1, <1>2, <3>1
  <2> QED BY <1>1, <2>1 DEF Named
<1>4. PICK f : Gathers(f, c, a, types) /\ Gathered(c, a, types) = f[N]
  BY GatheredIsLast DEF N
<1>5. PICK g : Gathers(g, c, b, types) /\ Gathered(c, b, types) = g[N + 1]
  BY <1>1, <1>3, GatheredIsLast
<1> DEFINE T == {n \in Nat : n <= N => g[n] = f[n]}
<1>6. 0 \in T
  BY <1>4, <1>5 DEF Gathers
<1>7. ASSUME NEW n \in T PROVE n + 1 \in T
  <2> SUFFICES ASSUME n + 1 <= N PROVE g[n + 1] = f[n + 1]
    OBVIOUS
  <2>1. /\ n + 1 \in 1..N /\ n + 1 \in 1..(N + 1) /\ (n + 1) - 1 = n /\ g[n] = f[n]
        /\ b[n + 1] = a[n + 1]
    BY <1>1
  <2>2. CASE c[a[n + 1]].type \in types
    <3>1. f[n + 1] = f[n] \o c[a[n + 1]].reviewers
      BY <1>4, <2>1, <2>2 DEF Gathers, N
    <3>2. g[n + 1] = g[n] \o c[b[n + 1]].reviewers
      BY <1>1, <1>5, <2>1, <2>2 DEF Gathers
    <3> QED BY <2>1, <3>1, <3>2
  <2>3. CASE c[a[n + 1]].type \notin types
    <3>1. f[n + 1] = f[n]
      BY <1>4, <2>1, <2>3 DEF Gathers, N
    <3>2. g[n + 1] = g[n]
      BY <1>1, <1>5, <2>1, <2>3 DEF Gathers
    <3> QED BY <2>1, <3>1, <3>2
  <2> QED BY <2>2, <2>3
<1>8. T = Nat
  <2>1. T \in SUBSET Nat
    OBVIOUS
  <2> HIDE DEF T
  <2> QED BY <1>6, <1>7, <2>1, InductionOnNat
<1>9. g[N] = f[N]
  <2>1. N \in T
    <3> HIDE DEF T
    <3> QED BY <1>1, <1>8
  <2> QED BY <1>1, <2>1
<1>10. g[N + 1] = g[N]
  <2>1. N + 1 \in 1..(N + 1) /\ (N + 1) - 1 = N
    BY <1>1
  <2> QED BY <1>1, <1>5, <2>1 DEF Gathers
<1> QED BY <1>3, <1>4, <1>5, <1>9, <1>10 DEF b

\* Genres that come before the workflows ask first.
LEMMA GatheredInTwo ==
  ASSUME NEW c, NEW a, Named(c, a),
         \A i, j \in 1..Len(a) :
           /\ c[a[i]].type = "workflow" /\ c[a[i]].reviewers # <<>>
           /\ c[a[j]].type = "genre" /\ c[a[j]].reviewers # <<>>
           => j < i
  PROVE  Gathered(c, a, {"genre", "workflow"})
           = Gathered(c, a, {"genre"}) \o Gathered(c, a, {"workflow"})
<1> DEFINE N == Len(a)
           Asks(i) == c[a[i]].type = "workflow" /\ c[a[i]].reviewers # <<>>
<1>0. \A x, y, z \in Seq(Nat) : (x \o y) \o z = x \o (y \o z)
  BY ConcatAssociative
<1>1. N \in Nat /\ \A i \in 1..N : c[a[i]].reviewers \in Seq(Nat)
  BY DEF Named
<1>2. PICK f : Gathers(f, c, a, {"genre"}) /\ Gathered(c, a, {"genre"}) = f[N]
  BY GatheredIsLast
<1>3. PICK g : Gathers(g, c, a, {"workflow"}) /\ Gathered(c, a, {"workflow"}) = g[N]
  BY GatheredIsLast
<1>4. PICK h : /\ Gathers(h, c, a, {"genre", "workflow"})
               /\ Gathered(c, a, {"genre", "workflow"}) = h[N]
  BY GatheredIsLast
<1>5. \A n \in 0..N : f[n] \in Seq(Nat) /\ g[n] \in Seq(Nat) /\ h[n] \in Seq(Nat)
  BY <1>2, <1>3, <1>4 DEF Gathers
<1> DEFINE Split(n) == h[n] = f[n] \o g[n]
           Late(n) == g[n] # <<>> => \E i \in 1..n : Asks(i)
           T == {n \in Nat : n <= N => Split(n) /\ Late(n)}
<1>6. 0 \in T
  <2>1. f[0] = <<>> /\ g[0] = <<>> /\ h[0] = <<>>
    BY <1>2, <1>3, <1>4 DEF Gathers
  <2>2. <<>> \in Seq(Nat)
    OBVIOUS
  <2>3. <<>> \o <<>> = <<>>
    BY <2>2, ConcatEmptySeq
  <2> QED BY <2>1, <2>3
<1>7. ASSUME NEW n \in T PROVE n + 1 \in T
  <2> SUFFICES ASSUME n + 1 <= N PROVE Split(n + 1) /\ Late(n + 1)
    <3> HIDE DEF Split, Late
    <3> QED OBVIOUS
  <2>1. /\ n \in Nat /\ n + 1 \in 1..N /\ (n + 1) - 1 = n /\ n \in 0..N
        /\ \A i \in 1..n : i \in 1..(n + 1) /\ i \in 1..N /\ i < n + 1 /\ ~(n + 1 < i)
        /\ n + 1 \in 1..(n + 1)
    BY <1>1
  <2>2. Split(n) /\ Late(n)
    <3> HIDE DEF Split, Late
    <3> QED BY <2>1
  <2> DEFINE r == c[a[n + 1]].reviewers
  <2>3. r \in Seq(Nat) /\ f[n] \in Seq(Nat) /\ g[n] \in Seq(Nat) /\ h[n] \in Seq(Nat)
    BY <1>1, <1>5, <2>1
  <2>4. CASE c[a[n + 1]].type = "genre"
    <3>1. f[n + 1] = f[n] \o r /\ g[n + 1] = g[n] /\ h[n + 1] = h[n] \o r
      BY <1>2, <1>3, <1>4, <2>1, <2>4 DEF Gathers
    <3>2. r = <<>> \/ g[n] = <<>>
      BY <2>1, <2>2, <2>4
    <3>3. CASE r = <<>>
      <4>1. f[n + 1] = f[n] /\ h[n + 1] = h[n]
        BY <2>3, <3>1, <3>3, ConcatEmptySeq
      <4> QED BY <2>1, <2>2, <3>1, <4>1
    <3>4. CASE g[n] = <<>>
      <4> HIDE DEF r
      <4>1. f[n] \o r \in Seq(Nat)
        BY <2>3, ConcatElements
      <4>2. f[n] \o <<>> = f[n] /\ (f[n] \o r) \o <<>> = f[n] \o r
        BY <2>3, <4>1, ConcatEmptySeq
      <4> QED BY <2>2, <3>1, <3>4, <4>2
    <3> QED BY <3>2, <3>3, <3>4
  <2>5. CASE c[a[n + 1]].type = "workflow"
    <3>1. f[n + 1] = f[n] /\ g[n + 1] = g[n] \o r /\ h[n + 1] = h[n] \o r
      BY <1>2, <1>3, <1>4, <2>1, <2>5 DEF Gathers
    <3>2. Split(n + 1)
      <4> HIDE DEF r
      <4>1. (f[n] \o g[n]) \o r = f[n] \o (g[n] \o r)
        BY <1>0, <2>3
      <4> QED BY <2>2, <3>1, <4>1
    <3>3. Late(n + 1)
      <4>1. CASE r = <<>>
        <5>1. g[n + 1] = g[n]
          BY <2>3, <3>1, <4>1, ConcatEmptySeq
        <5> QED BY <2>1, <2>2, <5>1
      <4>2. CASE r # <<>>
        <5>1. Asks(n + 1)
          BY <2>5, <4>2
        <5> HIDE DEF Asks
        <5> QED BY <2>1, <5>1
      <4> QED BY <4>1, <4>2
    <3> QED BY <3>2, <3>3
  <2>6. CASE c[a[n + 1]].type \notin {"genre", "workflow"}
    <3>1. f[n + 1] = f[n] /\ g[n + 1] = g[n] /\ h[n + 1] = h[n]
      BY <1>2, <1>3, <1>4, <2>1, <2>6 DEF Gathers
    <3> HIDE DEF Asks
    <3> QED BY <2>1, <2>2, <3>1
  <2> QED BY <2>4, <2>5, <2>6
<1>8. T = Nat
  <2>1. T \in SUBSET Nat
    OBVIOUS
  <2> HIDE DEF T
  <2> QED BY <1>6, <1>7, <2>1, InductionOnNat
<1>9. h[N] = f[N] \o g[N]
  <2>1. N \in T
    <3> HIDE DEF T
    <3> QED BY <1>1, <1>8
  <2>2. Split(N)
    <3> HIDE DEF Split, Late
    <3> QED BY <1>1, <2>1
  <2> QED BY <2>2
<1> QED BY <1>2, <1>3, <1>4, <1>9

----------------------------------------------------------------------------
(* The plan *)

Askers == {"genre", "workflow"}

\* Until the order is whole nothing is active.  What becomes active is the order, and
\* then nothing more that asks for reviewers, so what was required for the activation
\* is what the active plugins ask for.
PlanInv ==
  /\ project \in Project
  /\ active \in Seq(DOMAIN project.catalog)
  /\ phase \in Ordering => project.asked \subseteq DOMAIN project.catalog
  /\ phase \in {"resolve", "order"} => active = <<>>
  /\ phase = "activate" =>
       Len(active) <= Len(order) /\ \A i \in 1..Len(active) : active[i] = order[i]
  /\ phase \in {"require", "plan"} =>
       /\ project.asked \subseteq ElementsOf(active)
       /\ \A id \in ElementsOf(active) : Plugin(id).type \in Askers => id \in project.asked
       /\ required = OrderedUnique(project.reviewers \o Gathered(project.catalog, active, Askers))
  /\ phase # "failed" => problem = "none"
  /\ PlannedAsActivated
  /\ PlanExplains

\* Manifests of a catalog.
LEMMA CatalogIsTyped ==
  ASSUME ProjectAssumption, project \in Project
  PROVE  /\ project.reviewers \in Seq(Nat) /\ DOMAIN project.catalog \subseteq Nat
         /\ \A id \in DOMAIN project.catalog : Plugin(id).reviewers \in Seq(Nat)
<1>1. project.reviewers \in Seq(project.asked) /\ project.asked \subseteq Nat
  BY DEF ProjectAssumption
<1>2. project.reviewers \in Seq(Nat)
  BY <1>1
<1> QED BY <1>2 DEF ProjectAssumption, Plugin, Manifest

LEMMA ActiveIsNamed ==
  ASSUME ProjectAssumption, PlanInv
  PROVE  Named(project.catalog, active)
BY CatalogIsTyped DEF PlanInv, Named, Plugin

LEMMA PlanInvInit == CompositionInit => PlanInv
BY DEF CompositionInit, PlanInv, Ordering, PlannedAsActivated, PlanExplains

\* What depends on the state before the plan alone.
LEMMA FailKeepsPlan ==
  ASSUME PlanInv, NEW why, Fail(why), why \notin {"disagreement", "no reviewers", "none"}
  PROVE  PlanInv'
BY DEF PlanInv, Fail, Ordering, PlannedAsActivated, PlanExplains

\* A step that leaves what is active alone and does not end the composition.
LEMMA GoesOn ==
  ASSUME PlanInv, UNCHANGED <<project, problem, active>>,
         phase # "failed", phase' \in Ordering \ {"planned"},
         phase' \in Ordering => project.asked \subseteq DOMAIN project.catalog,
         phase' = "order" => active = <<>>,
         phase' = "activate" =>
           Len(active) <= Len(order') /\ \A i \in 1..Len(active) : active[i] = order'[i],
         phase' \in {"require", "plan"} =>
           /\ project.asked \subseteq ElementsOf(active)
           /\ \A id \in ElementsOf(active) : Plugin(id).type \in Askers => id \in project.asked
           /\ required' = OrderedUnique(project.reviewers \o Gathered(project.catalog, active, Askers))
  PROVE  PlanInv'
BY DEF PlanInv, Ordering, PlannedAsActivated, PlanExplains, Plugin, ElementsOf

LEMMA ResolveKeepsPlan == ASSUME PlanInv, Resolve PROVE PlanInv'
<1>1. ASSUME ~NotFound, phase = "resolve", phase' = "order",
             UNCHANGED <<project, problem, active>>
      PROVE  PlanInv'
  <2>1. project.asked \subseteq DOMAIN project.catalog
    BY <1>1 DEF NotFound, Known
  <2>2. active = <<>>
    BY <1>1 DEF PlanInv
  <2> QED BY <1>1, <2>1, <2>2, GoesOn DEF Ordering
<1> QED BY <1>1, FailKeepsPlan DEF Resolve

LEMMA OrderKeepsPlan ==
  ASSUME OrderInv, PlanInv, VisitNext \/ VisitDependency \/ Return \/ Ordered
  PROVE  PlanInv'
<1>1. ASSUME phase = "order", phase' \in {"order", "activate"},
             UNCHANGED <<project, problem, active>>,
             phase' = "activate" => order' = order
      PROVE  PlanInv'
  <2>1. active = <<>> /\ project.asked \subseteq DOMAIN project.catalog
    BY <1>1 DEF PlanInv, Ordering
  <2>2. Len(active) <= Len(order) /\ \A i \in 1..Len(active) : active[i] = order[i]
    BY <2>1 DEF OrderInv, OrderSound
  <2> QED BY <1>1, <2>1, <2>2, GoesOn DEF Ordering
<1> QED BY <1>1, FailKeepsPlan DEF VisitNext, VisitDependency, Return, Ordered

\* The next plugin of the order becomes active.
LEMMA ActivateKeepsPlan == ASSUME OrderInv, PlanInv, Activate PROVE PlanInv'
<1> DEFINE id == order[Len(active) + 1]
<1>1. /\ phase = "activate" /\ Len(active) < Len(order) /\ Len(active) \in Nat
      /\ \A i \in 1..Len(active) : active[i] = order[i]
      /\ active \in Seq(DOMAIN project.catalog) /\ problem = "none"
      /\ project.asked \subseteq DOMAIN project.catalog /\ project \in Project
  BY DEF Activate, PlanInv, Ordering
<1>2. order \in Seq(Nat) /\ ElementsOf(order) \subseteq project.asked
  BY <1>1 DEF OrderInv, OrderSound, WhileOrdering, Ordering
<1>3. id \in DOMAIN project.catalog
  <2>1. Len(active) + 1 \in DOMAIN order
    BY <1>1, <1>2
  <2> QED BY <1>1, <1>2, <2>1 DEF ElementsOf
<1>4. SUFFICES ASSUME active' = Append(active, id),
                      UNCHANGED <<project, phase, problem, order, required, plan>>
               PROVE  PlanInv'
  BY FailKeepsPlan DEF Activate
<1>5. /\ active' \in Seq(DOMAIN project.catalog) /\ Len(active') = Len(active) + 1
      /\ \A i \in 1..Len(active) : active'[i] = active[i]
      /\ active'[Len(active) + 1] = id
  <2> HIDE DEF id
  <2> QED BY <1>1, <1>3, <1>4, AppendProperties
<1>6. Len(active') <= Len(order) /\ \A i \in 1..Len(active') : active'[i] = order[i]
  <2>1. Len(active') <= Len(order)
    BY <1>1, <1>2, <1>5
  <2>2. ASSUME NEW i \in 1..Len(active') PROVE active'[i] = order[i]
    <3>1. i \in 1..Len(active) \/ i = Len(active) + 1
      BY <1>1, <1>5
    <3> QED BY <1>1, <1>5, <3>1
  <2> QED BY <2>1, <2>2
<1> QED BY <1>1, <1>4, <1>5, <1>6 DEF PlanInv, Ordering, PlannedAsActivated, PlanExplains

\* All the order is active.
LEMMA RequireKeepsPlan == ASSUME OrderInv, PlanInv, Require PROVE PlanInv'
<1>1. /\ phase = "activate" /\ phase' = "require" /\ required' = RequiredReviewers
      /\ UNCHANGED <<project, problem, active>>
      /\ Len(active) = Len(order) /\ \A i \in 1..Len(active) : active[i] = order[i]
      /\ project.asked \subseteq DOMAIN project.catalog
      /\ active \in Seq(DOMAIN project.catalog)
  BY DEF Require, PlanInv, Ordering
<1>2. order \in Seq(Nat) /\ ElementsOf(order) = project.asked
  <2>1. DependenciesFirst
    BY OrderInvImplies
  <2> QED BY <1>1, <2>1 DEF OrderInv, OrderSound, DependenciesFirst
<1>3. ElementsOf(active) = project.asked
  BY <1>1, <1>2 DEF ElementsOf
<1>4. required' = OrderedUnique(project.reviewers \o Gathered(project.catalog, active, Askers))
  BY <1>1, RequiredByGathers DEF RequiredReviewers, Askers
<1> QED BY <1>1, <1>3, <1>4, GoesOn DEF Ordering

\* A reviewer that becomes active asks for no other.
LEMMA ActivateReviewerKeepsPlan ==
  ASSUME ProjectAssumption, PlanInv, ActivateReviewer PROVE PlanInv'
<1> DEFINE id == required[checked + 1]
<1>1. /\ phase = "require" /\ problem = "none" /\ project \in Project
      /\ active \in Seq(DOMAIN project.catalog)
      /\ project.asked \subseteq ElementsOf(active)
      /\ project.asked \subseteq DOMAIN project.catalog
      /\ \A i \in ElementsOf(active) : Plugin(i).type \in Askers => i \in project.asked
      /\ required = OrderedUnique(project.reviewers \o Gathered(project.catalog, active, Askers))
  BY DEF ActivateReviewer, PlanInv, Ordering
<1>2. SUFFICES ASSUME id \in DOMAIN project.catalog, Plugin(id).type = "reviewer",
                      active' = IF id \in ElementsOf(active) THEN active ELSE Append(active, id),
                      UNCHANGED <<project, phase, problem, order, required, plan>>
               PROVE  PlanInv'
  BY FailKeepsPlan DEF ActivateReviewer, Known
<1> HIDE DEF id
<1>3. CASE active' = active
  BY <1>1, <1>2, <1>3, GoesOn DEF Ordering
<1>4. CASE active' = Append(active, id)
  <2>1. /\ active' \in Seq(DOMAIN project.catalog) /\ Len(active') = Len(active) + 1
        /\ \A i \in 1..Len(active) : active'[i] = active[i]
        /\ active'[Len(active) + 1] = id /\ Len(active) \in Nat
    <3>1. active \in Seq(DOMAIN project.catalog) /\ id \in DOMAIN project.catalog
      BY <1>1, <1>2
    <3> QED BY <1>4, <3>1, AppendProperties
  <2>2. ElementsOf(active') = ElementsOf(active) \cup {id}
    <3>1. DOMAIN active = 1..Len(active) /\ DOMAIN active' = 1..(Len(active) + 1)
      BY <1>1, <2>1
    <3> QED BY <2>1, <3>1 DEF ElementsOf
  <2>3. Gathered(project.catalog, active', Askers) = Gathered(project.catalog, active, Askers)
    <3>1. Named(project.catalog, active)
      BY ActiveIsNamed
    <3>2. /\ id \in Nat /\ project.catalog[id].reviewers \in Seq(Nat)
          /\ project.catalog[id].type \notin Askers
      BY <1>1, <1>2, CatalogIsTyped DEF Plugin, Askers
    <3> QED BY <1>4, <3>1, <3>2, GatheredSame
  <2>4. Plugin(id).type \notin Askers
    BY <1>2 DEF Askers
  <2>5. \A i : Plugin(i)' = Plugin(i)
    BY <1>2 DEF Plugin
  <2>6. /\ project'.asked \subseteq ElementsOf(active')
        /\ \A i \in ElementsOf(active') : Plugin(i)'.type \in Askers => i \in project'.asked
        /\ required' = OrderedUnique(project'.reviewers
                                     \o Gathered(project'.catalog, active', Askers))
    BY <1>1, <1>2, <2>2, <2>3, <2>4, <2>5
  <2>7. ElementsOf(active)' = ElementsOf(active')
    BY DEF ElementsOf
  <2>8. PlannedAsActivated' /\ PlanExplains'
    BY <1>1, <1>2 DEF PlannedAsActivated, PlanExplains
  <2> QED BY <1>1, <1>2, <2>1, <2>5, <2>6, <2>7, <2>8 DEF PlanInv, Ordering
<1> QED BY <1>2, <1>3, <1>4

LEMMA ActivatedKeepsPlan == ASSUME PlanInv, Activated PROVE PlanInv'
<1>1. /\ phase = "require" /\ phase' = "plan"
      /\ UNCHANGED <<project, problem, active, required>>
  BY DEF Activated
<1> QED BY <1>1, GoesOn DEF PlanInv, Ordering

\* What is required, and why.
LEMMA RequiredElements ==
  ASSUME ProjectAssumption, PlanInv, phase = "plan"
  PROVE  /\ ElementsOf(required) = ElementsOf(project.reviewers) \cup
              UNION {ElementsOf(Plugin(s).reviewers) : s \in
                       {s \in project.asked : Plugin(s).type \in Askers}}
         /\ {s \in ElementsOf(active) : Plugin(s).type \in Askers}
              = {s \in project.asked : Plugin(s).type \in Askers}
<1> DEFINE G == Gathered(project.catalog, active, Askers)
<1>1. /\ project.asked \subseteq ElementsOf(active) /\ project \in Project
      /\ active \in Seq(DOMAIN project.catalog)
      /\ \A i \in ElementsOf(active) : Plugin(i).type \in Askers => i \in project.asked
      /\ required = OrderedUnique(project.reviewers \o G)
  BY DEF PlanInv
<1>2. /\ G \in Seq(Nat)
      /\ \A x : x \in ElementsOf(G) <=>
           \E i \in 1..Len(active) : /\ Plugin(active[i]).type \in Askers
                                     /\ x \in ElementsOf(Plugin(active[i]).reviewers)
  BY ActiveIsNamed, GatheredElements DEF Plugin
<1>3. project.reviewers \in Seq(Nat)
  BY <1>1, CatalogIsTyped
<1> HIDE DEF G
<1>4. ElementsOf(required) = ElementsOf(project.reviewers) \cup ElementsOf(G)
  BY <1>1, <1>2, <1>3, ElementsOfConcat, UniqueElements
<1>5. {s \in ElementsOf(active) : Plugin(s).type \in Askers}
        = {s \in project.asked : Plugin(s).type \in Askers}
  BY <1>1
<1>6. \A x : x \in ElementsOf(G) <=>
        \E s \in ElementsOf(active) : /\ Plugin(s).type \in Askers
                                      /\ x \in ElementsOf(Plugin(s).reviewers)
  <2>1. ElementsOf(active) = {active[i] : i \in 1..Len(active)}
    BY <1>1 DEF ElementsOf
  <2> HIDE DEF ElementsOf
  <2> QED BY <1>2, <2>1
<1>7. ElementsOf(G) = UNION {ElementsOf(Plugin(s).reviewers) : s \in
                        {s \in project.asked : Plugin(s).type \in Askers}}
  <2> HIDE DEF ElementsOf
  <2> QED BY <1>5, <1>6
<1> QED BY <1>4, <1>5, <1>7

\* Both ways to work out the reviewers agree where genres come before workflows.
LEMMA GenresFirstAgree ==
  ASSUME ProjectAssumption, PlanInv, phase = "plan", GenresBeforeWorkflows
  PROVE  Reconciled = required
<1> DEFINE g == Gathered(project.catalog, active, {"genre"})
           w == Gathered(project.catalog, active, {"workflow"})
<1>1. project.reviewers \in Seq(Nat) /\ g \in Seq(Nat) /\ w \in Seq(Nat)
  <2>1. project.reviewers \in Seq(Nat)
    BY CatalogIsTyped DEF PlanInv
  <2> QED BY <2>1, ActiveIsNamed, GatheredElements
<1>2. Gathered(project.catalog, active, Askers) = g \o w
  <2>1. \A i, j \in 1..Len(active) :
          /\ project.catalog[active[i]].type = "workflow"
          /\ project.catalog[active[i]].reviewers # <<>>
          /\ project.catalog[active[j]].type = "genre"
          /\ project.catalog[active[j]].reviewers # <<>>
          => j < i
    BY DEF GenresBeforeWorkflows, PlanInv, Plugin
  <2> QED BY <2>1, ActiveIsNamed, GatheredInTwo DEF Askers
<1>3. Reconciled = OrderedUnique((project.reviewers \o g) \o w)
  BY RequiredByGathers DEF Reconciled
<1> HIDE DEF g, w
<1>4. (project.reviewers \o g) \o w = project.reviewers \o (g \o w)
  <2>1. \A x, y, z \in Seq(Nat) : (x \o y) \o z = x \o (y \o z)
    BY ConcatAssociative
  <2> QED BY <1>1, <2>1
<1> QED BY <1>2, <1>3, <1>4 DEF PlanInv

\* The plan of what was activated.
LEMMA ComposePlanKeepsPlan ==
  ASSUME ProjectAssumption, PlanInv, ComposePlan PROVE PlanInv'
<1>1. phase = "plan" /\ problem = "none"
  BY DEF ComposePlan, PlanInv
<1>2. ASSUME NEW why \in {"disagreement", "no reviewers"}, Fail(why),
             why = "disagreement" => ~GenresBeforeWorkflows,
             why = "no reviewers" => project.reviewers = <<>>
      PROVE  PlanInv'
  <2>1. UNCHANGED <<project, active>> /\ phase' = "failed" /\ problem' = why
    BY <1>2 DEF Fail
  <2>2. GenresBeforeWorkflows' = GenresBeforeWorkflows
    BY <2>1 DEF GenresBeforeWorkflows, Plugin
  <2>3. PlannedAsActivated' /\ PlanExplains'
    BY <1>2, <2>1, <2>2 DEF PlannedAsActivated, PlanExplains
  <2> QED BY <2>1, <2>3 DEF PlanInv, Ordering
<1>3. CASE Reconciled # required /\ Fail("disagreement")
  BY <1>1, <1>2, <1>3, GenresFirstAgree
<1>4. CASE required = <<>> /\ Fail("no reviewers")
  <2>1. ElementsOf(required) = {}
    <3>1. <<>> \in Seq(Nat)
      OBVIOUS
    <3> QED BY <1>4, <3>1, NoElements
  <2>2. ElementsOf(project.reviewers) = {}
    BY <1>1, <2>1, RequiredElements
  <2>3. project.reviewers \in Seq(Nat)
    BY CatalogIsTyped DEF PlanInv
  <2>4. project.reviewers = <<>>
    BY <2>2, <2>3, NoElements
  <2> QED BY <1>2, <1>4, <2>4
<1>5. ASSUME phase' = "planned", UNCHANGED <<project, problem, active>>,
             plan' = [n \in DOMAIN required |->
                        [order |-> n, reviewer |-> required[n], origins |-> Origins(required[n])]]
      PROVE  PlanInv'
  <2> DEFINE asking == {s \in project.asked : Plugin(s).type \in Askers}
  <2>1. /\ ElementsOf(required) = ElementsOf(project.reviewers) \cup
             UNION {ElementsOf(Plugin(s).reviewers) : s \in asking}
        /\ {s \in ElementsOf(active) : Plugin(s).type \in Askers} = asking
    BY <1>1, RequiredElements
  <2>2. /\ DOMAIN plan' = DOMAIN required
        /\ \A n \in DOMAIN plan' :
             /\ plan'[n].reviewer = required[n] /\ required[n] \in ElementsOf(required)
             /\ plan'[n].origins = AllOrigins(required[n])
    BY <1>5 DEF Origins, ElementsOf
  <2>3. {plan'[n].reviewer : n \in DOMAIN plan'} = ElementsOf(required)
    BY <2>2 DEF ElementsOf
  <2>4. \A id : ProjectOrigin \in AllOrigins(id) <=> id \in ElementsOf(project.reviewers)
    BY DEF AllOrigins, ProjectOrigin, Origin, ElementsOf
  <2>5. ASSUME NEW id, NEW s \in asking
        PROVE  Origin(Plugin(s).type, s) \in AllOrigins(id) <=> id \in ElementsOf(Plugin(s).reviewers)
    <3> HIDE DEF ElementsOf
    <3>1. Plugin(s).type \in {"genre", "workflow"} /\ s \in ElementsOf(active)
      BY <2>1 DEF Askers
    <3>2. \A t : Origin(Plugin(t).type, t) = Origin(Plugin(s).type, s) => t = s
      BY DEF Origin
    <3>3. Origin(Plugin(s).type, s) # ProjectOrigin
      BY <3>1 DEF Origin, ProjectOrigin
    <3> QED BY <3>1, <3>2, <3>3 DEF AllOrigins
  <2>6. ASSUME NEW id \in ElementsOf(required) PROVE AllOrigins(id) # {}
    <3>1. CASE id \in ElementsOf(project.reviewers)
      BY <2>4, <3>1
    <3>2. CASE \E s \in asking : id \in ElementsOf(Plugin(s).reviewers)
      BY <2>5, <3>2
    <3> HIDE DEF asking, ElementsOf
    <3> QED BY <2>1, <3>1, <3>2
  <2>7. PlanExplains'
    <3>1. \A s : Plugin(s)' = Plugin(s)
      BY <1>5 DEF Plugin
    <3>2. ElementsOf(project.reviewers)' = ElementsOf(project.reviewers)
          /\ \A s : ElementsOf(Plugin(s).reviewers)' = ElementsOf(Plugin(s).reviewers)
      BY <1>5 DEF ElementsOf, Plugin
    <3>3. {plan'[n].reviewer : n \in DOMAIN plan'} = ElementsOf(project.reviewers) \cup
            UNION {ElementsOf(Plugin(s).reviewers) : s \in
                     {s \in project.asked : Plugin(s).type \in {"genre", "workflow"}}}
      BY <2>1, <2>3 DEF Askers
    <3>4. ASSUME NEW n \in DOMAIN plan'
          PROVE  /\ plan'[n].origins # {}
                 /\ \A s \in project.asked : Plugin(s).type \in {"genre", "workflow"} =>
                      (Origin(Plugin(s).type, s) \in plan'[n].origins
                         <=> plan'[n].reviewer \in ElementsOf(Plugin(s).reviewers))
                 /\ ProjectOrigin \in plan'[n].origins
                      <=> plan'[n].reviewer \in ElementsOf(project.reviewers)
      <4> HIDE DEF ElementsOf
      <4> QED BY <2>2, <2>4, <2>5, <2>6 DEF Askers
    <3> HIDE DEF ElementsOf
    <3> QED BY <1>5, <3>1, <3>2, <3>3, <3>4 DEF PlanExplains
  <2>8. PlannedAsActivated'
    BY <1>1, <1>5 DEF PlannedAsActivated
  <2>9. project \in Project /\ active \in Seq(DOMAIN project.catalog)
        /\ project.asked \subseteq DOMAIN project.catalog
    BY <1>1 DEF PlanInv, Ordering
  <2> QED BY <1>1, <1>5, <2>7, <2>8, <2>9 DEF PlanInv, Ordering
<1> QED BY <1>3, <1>4, <1>5 DEF ComposePlan

LEMMA StepsKeepPlan ==
  ASSUME ProjectAssumption, OrderInv, PlanInv, [CompositionNext]_compositionVars
  PROVE  PlanInv'
<1>1. CASE UNCHANGED compositionVars
  <2>1. /\ UNCHANGED <<project, phase, problem, order, active, required, plan>>
        /\ \A id : Plugin(id)' = Plugin(id)
    BY <1>1 DEF compositionVars, Plugin
  <2>2. PlannedAsActivated'
    BY <2>1 DEF PlanInv, PlannedAsActivated, GenresBeforeWorkflows
  <2>3. PlanExplains'
    <3>1. PlanExplains
      BY DEF PlanInv
    <3>2. UNCHANGED <<project, phase, plan>>
      BY <2>1
    <3>3. /\ \A s : Plugin(s)' = Plugin(s)
          /\ \A s : ElementsOf(Plugin(s).reviewers)' = ElementsOf(Plugin(s).reviewers)
          /\ ElementsOf(project.reviewers)' = ElementsOf(project.reviewers)
      BY <3>2 DEF Plugin, ElementsOf
    <3>4. {plan'[n].reviewer : n \in DOMAIN plan'} = {plan[n].reviewer : n \in DOMAIN plan}
      BY <3>2
    <3>5. UNION {ElementsOf(Plugin(s).reviewers)' : s \in
                   {s \in project'.asked : Plugin(s)'.type \in {"genre", "workflow"}}}
            = UNION {ElementsOf(Plugin(s).reviewers) : s \in
                       {s \in project.asked : Plugin(s).type \in {"genre", "workflow"}}}
      BY <3>2, <3>3
    <3> HIDE DEF ElementsOf
    <3> QED BY <3>1, <3>2, <3>3, <3>4, <3>5 DEF PlanExplains, Origin, ProjectOrigin
  <2> QED BY <2>1, <2>2, <2>3 DEF PlanInv, ElementsOf
<1> QED BY <1>1, ResolveKeepsPlan, OrderKeepsPlan, ActivateKeepsPlan, RequireKeepsPlan,
           ActivateReviewerKeepsPlan, ActivatedKeepsPlan, ComposePlanKeepsPlan
        DEF CompositionNext

\* A step of the composition keeps what its theorems rest on.
LEMMA BothKept ==
  OrderInv /\ PlanInv /\ [CompositionNext]_compositionVars => OrderInv' /\ PlanInv'
BY ProjectAssumption, ResolveKeeps, VisitNextKeeps, VisitDependencyKeeps, ReturnKeeps, OthersKeep,
   StepsKeepPlan DEF CompositionNext

\* PlannedAsActivated, of _required_reviewer_ids and ReviewPlanComposer, for every project
\* and catalog: the plan disagrees with the activation only where a workflow that asks for
\* reviewers was composed before a genre that does.
THEOREM PlansAgree == CompositionSpec => []PlannedAsActivated
<1>1. PlanInv => PlannedAsActivated
  BY DEF PlanInv
<1> QED BY <1>1, BothKept, OrderInvInit, PlanInvInit, PTL DEF CompositionSpec

\* PlanExplains, of ReviewPlanComposer.compose, for every project and catalog: the plan has
\* an entry for each reviewer that is asked for and names all who ask for it.
THEOREM PlansExplain == CompositionSpec => []PlanExplains
<1>1. PlanInv => PlanExplains
  BY DEF PlanInv
<1> QED BY <1>1, BothKept, OrderInvInit, PlanInvInit, PTL DEF CompositionSpec

==============================================================================
