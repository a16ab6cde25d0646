-------------------------- MODULE MCEditorialStream --------------------------
(***************************************************************************)
(* The streams for TLC: what authors submit and what was approved in each  *)
(* run.  x and y are texts, blank is none.                                 *)
(***************************************************************************)
EXTENDS EditorialStream

CONSTANTS a, b, c, r, q, x, y, blank

At(parent, position) == [parent |-> parent, position |-> position]
Put1(parent, content) == [parent |-> parent, position |-> 0, content |-> content]

\* Two blocks, apart and under each other (which one of them alone may be), one
\* without text.
TreeDrafts ==
  {[id |-> a, block |-> Put1(None, x)], [id |-> a, block |-> Put1(b, x)],
   [id |-> b, block |-> Put1(None, x)], [id |-> b, block |-> Put1(a, x)],
   [id |-> b, block |-> Put1(None, blank)]}

TreeOperations ==
  {Insert(c, Put1(None, x)), Insert(c, Put1(a, x)), Insert(c, Put1(a, blank)),
   Replace(a, x, y), Replace(b, x, y), Replace(b, x, blank),
   Move(a, At(None, 0), At(b, 0)), Move(a, At(None, 0), At(c, 0)),
   Move(b, At(None, 0), At(a, 0)), Move(b, At(a, 0), At(None, 1)),
   Delete(a, Put1(None, x)), Delete(b, Put1(None, x)), Delete(b, Put1(a, x))}

\* Every patch of one or two of these operations.
TreePatches == {ops \in BoundedSeq(TreeOperations, 2) : IsPatch(ops)}

TreeLinks == {<<a, b>>}

\* One block, edited and moved, and what depends on it.
ChainDrafts == {[id |-> a, block |-> Put1(None, x)]}
ChainPatches == {<<Replace(a, x, y)>>, <<Move(a, At(None, 0), At(None, 1))>>}

\* A chain, a cycle through the block, and a resource under itself.
ChainLinks == {<<a, r>>, <<r, q>>, <<q, a>>, <<r, r>>}

\* A branch of one block and patches of two operations.
ForkDrafts == {[id |-> a, block |-> Put1(None, x)]}
ForkPatches == {<<Replace(a, x, y), Insert(b, Put1(None, x))>>}

============================================================================
