-------------------------------- MODULE Work --------------------------------
(***************************************************************************)
(* What the events of a stream mean: the Work aggregate, its expression    *)
(* graph (blocks under blocks), its dependency graph, the replay of a      *)
(* stream, and the events a patch produces.  Operators only.               *)
(*                                                                         *)
(* A block is a parent, a position and a content, where a content stands   *)
(* for everything else a block says (type, text, language, status,         *)
(* metadata); Blank are the contents without text that are not headings.   *)
(* A dependency is its two resources, types included.  The                 *)
(* aggregate_version of an event is its place in the stream, as            *)
(* EventStore!EventsAreNumbered shows, and None is an exception.           *)
(***************************************************************************)
EXTENDS Integers, Sequences, FiniteSets, SequencesExt

CONSTANTS
  BlockId,
  Content,
  Blank,        \* contents a block may not have
  Resource,     \* what depends and is depended on: blocks and derived resources
  Finding,      \* finding_id values
  None

Place == [parent : BlockId \cup {None}, position : Nat]
Block == [parent : BlockId \cup {None}, position : Nat, content : Content]
Dependency == [source : Resource, dependent : Resource, stale : BOOLEAN]

\* In particular, no graph and no work is None.
ASSUME WorkAssumption ==
  /\ BlockId \subseteq Resource /\ Blank \subseteq Content
  /\ IsFiniteSet(Resource)
  /\ None \notin Resource
  /\ \A ids \in SUBSET BlockId :
       LET Graphs == [ids -> Block] IN
       /\ None \notin Graphs
       /\ None \notin [version : Nat, manuscript : Nat, blocks : Graphs,
                      deps : SUBSET Dependency]

IsGraph(g) == DOMAIN g \subseteq BlockId /\ g \in [DOMAIN g -> Block]
IsWork(w) ==
  /\ w.version \in Nat /\ w.manuscript \in 1..w.version
  /\ IsGraph(w.blocks) /\ w.deps \subseteq Dependency

----------------------------------------------------------------------------
(* ExpressionGraph: a function from the ids it has to blocks *)

PlaceOf(block) == [parent |-> block.parent, position |-> block.position]
MovedTo(block, place) ==
  [parent |-> place.parent, position |-> place.position, content |-> block.content]

Children(g, b) == {x \in DOMAIN g : g[x].parent = b}

ParentIn(g, block) == block.parent = None \/ block.parent \in DOMAIN g

CanAdd(g, b, block) ==
  b \notin DOMAIN g /\ ParentIn(g, block) /\ block.content \notin Blank

CanEdit(g, b, block) ==
  b \in DOMAIN g /\ ParentIn(g, block) /\ block.content \notin Blank

\* add_block and edit_block put a block under its id.
Put(g, b, block) ==
  [x \in DOMAIN g \cup {b} |-> IF x = b THEN block ELSE g[x]]

\* A delete that leaves the children to the caller.
CanDeleteParent(g, b) == b \in DOMAIN g

CanDelete(g, b) == b \in DOMAIN g /\ Children(g, b) = {}

Without(g, b) == [x \in DOMAIN g \ {b} |-> g[x]]

\* The walk of move_block from a block up its parents, None when it is over.
Upwards(g, from) ==
  LET up[n \in 0..Cardinality(DOMAIN g)] ==
        IF n = 0 THEN from
        ELSE LET here == up[n-1] IN
             IF here \in DOMAIN g THEN g[here].parent ELSE None
  IN up

\* A move that looks one level up only.
CanMoveUnderChild(g, b, place) ==
  b \in DOMAIN g /\ place.parent # b /\ ParentIn(g, place)

\* The walk ends, and not at the block that moves.
CanMove(g, b, place) ==
  /\ b \in DOMAIN g /\ place.parent # b /\ ParentIn(g, place)
  /\ LET up == Upwards(g, place.parent) IN
     b \notin Range(up) /\ None \in Range(up)
  /\ CanEdit(g, b, MovedTo(g[b], place))

----------------------------------------------------------------------------
(* DependencyGraph: a set of dependencies *)

CanRegister(deps, source, dependent) ==
  /\ source # dependent
  /\ ~\E d \in deps : d.source = source /\ d.dependent = dependent

DirectDependents(deps, r) == {d.dependent : d \in {x \in deps : x.source = r}} \ {r}

\* The worklist of transitive_dependents, a round at a time; r itself is never
\* one of its dependents, even on a cycle.
TransitiveDependents(deps, r) ==
  LET met[n \in 0..Cardinality(deps)] ==
        IF n = 0 THEN {r}
        ELSE LET known == met[n-1] IN
             known \cup {d.dependent : d \in {x \in deps : x.source \in known}}
  IN met[Cardinality(deps)] \ {r}

MarkStale(deps, r) ==
  {[d EXCEPT !.stale = @ \/ d.dependent = r] : d \in deps}

----------------------------------------------------------------------------
(* Events *)

Created            == [type |-> "created"]
Added(b, block)    == [type |-> "added", id |-> b, block |-> block]
Edited(b, block)   == [type |-> "edited", id |-> b, block |-> block]
Deleted(b, before) == [type |-> "deleted", id |-> b, before |-> before]
Moved(b, before, after) ==
  [type |-> "moved", id |-> b, before |-> before, after |-> after]
Registered(source, dependent) ==
  [type |-> "registered", source |-> source, dependent |-> dependent]
Invalidated(r)     == [type |-> "invalidated", dependent |-> r]
Recorded(f, revision) == [type |-> "recorded", finding |-> f, revision |-> revision]
Decided(f, revision)  == [type |-> "decided", finding |-> f, revision |-> revision]

Event ==
  [type : {"created"}]
  \cup [type : {"added", "edited"}, id : BlockId, block : Block]
  \cup [type : {"deleted"}, id : BlockId, before : Block]
  \cup [type : {"moved"}, id : BlockId, before : Place, after : Place]
  \cup [type : {"registered"}, source : Resource, dependent : Resource]
  \cup [type : {"invalidated"}, dependent : Resource]
  \cup [type : {"recorded", "decided"}, finding : Finding, revision : Nat]

\* The events that make a new revision of the manuscript.
Material == {"added", "edited", "deleted", "moved"}

----------------------------------------------------------------------------
(* Work: create, apply, replay *)

NewWork == [version |-> 1, manuscript |-> 1, blocks |-> <<>>, deps |-> {}]

\* apply raises unless this holds.
Applies(w, e) ==
  \/ e.type = "added" /\ CanAdd(w.blocks, e.id, e.block)
  \/ e.type = "edited" /\ CanEdit(w.blocks, e.id, e.block)
  \/ /\ e.type = "deleted" /\ CanDelete(w.blocks, e.id)
     /\ w.blocks[e.id] = e.before
  \/ /\ e.type = "moved" /\ CanMove(w.blocks, e.id, e.after)
     /\ PlaceOf(w.blocks[e.id]) = e.before
  \/ e.type = "registered" /\ CanRegister(w.deps, e.source, e.dependent)
  \/ e.type \in {"invalidated", "recorded", "decided"}

BlocksAfter(g, e) ==
  CASE e.type \in {"added", "edited"} -> Put(g, e.id, e.block)
    [] e.type = "deleted"             -> Without(g, e.id)
    [] e.type = "moved"               -> Put(g, e.id, MovedTo(g[e.id], e.after))
    [] OTHER                          -> g

DepsAfter(deps, e) ==
  CASE e.type = "registered" ->
         deps \cup {[source |-> e.source, dependent |-> e.dependent, stale |-> FALSE]}
    [] e.type = "invalidated" -> MarkStale(deps, e.dependent)
    [] OTHER                  -> deps

\* An apply that forgets the version of the event.
ApplyUnversioned(w, e) ==
  [version    |-> w.version,
   manuscript |-> w.manuscript + (IF e.type \in Material THEN 1 ELSE 0),
   blocks     |-> BlocksAfter(w.blocks, e),
   deps       |-> DepsAfter(w.deps, e)]

Apply(w, e) ==
  [version    |-> w.version + 1,
   manuscript |-> w.manuscript + (IF e.type \in Material THEN 1 ELSE 0),
   blocks     |-> BlocksAfter(w.blocks, e),
   deps       |-> DepsAfter(w.deps, e)]

\* Work.replay: the state after a stream of events, None when it raises.
Replay(events) ==
  LET work[n \in 0..Len(events)] ==
        IF n = 0 THEN None
        ELSE IF n = 1 THEN IF events[1].type = "created" THEN NewWork ELSE None
        ELSE LET w == work[n-1] IN
             IF w # None /\ Applies(w, events[n]) THEN Apply(w, events[n]) ELSE None
  IN work[Len(events)]

----------------------------------------------------------------------------
(* ReviewHistory *)

RecordedIn(events)  == {e \in Range(events) : e.type = "recorded"}
DecidedIn(events) == {e.finding : e \in {x \in Range(events) : x.type = "decided"}}

----------------------------------------------------------------------------
(* Patches: what one operation needs, what it makes of the graph, its events *)

Insert(b, block)          == [op |-> "insert", id |-> b, block |-> block]
Delete(b, before)         == [op |-> "delete", id |-> b, before |-> before]
Move(b, before, after)    == [op |-> "move", id |-> b, before |-> before, after |-> after]
Replace(b, before, after) == [op |-> "replace", id |-> b, before |-> before, after |-> after]

Operation ==
  [op : {"insert"}, id : BlockId, block : Block]
  \cup [op : {"delete"}, id : BlockId, before : Block]
  \cup [op : {"move"}, id : BlockId, before : Place, after : Place]
  \cup [op : {"replace"}, id : BlockId, before : Content, after : Content]

\* A Patch is built with at least one operation, at most one for a block, and
\* none that changes nothing.
IsPatch(ops) ==
  /\ ops \in Seq(Operation) /\ ops # <<>>
  /\ \A i, j \in DOMAIN ops : ops[i].id = ops[j].id => i = j
  /\ \A i \in DOMAIN ops :
       ops[i].op \in {"move", "replace"} => ops[i].before # ops[i].after

\* The block a replace writes: the approved snapshot's, with the new content.
Rewritten(g, o) == [g[o.id] EXCEPT !.content = o.after]

\* The checks of one operation on the source snapshot w.
FitsSnapshot(w, o) ==
  \/ /\ o.op = "insert"
     /\ o.id \notin DOMAIN w.blocks /\ ParentIn(w.blocks, o.block)
  \/ /\ o.op = "delete" /\ CanDelete(w.blocks, o.id)
     /\ w.blocks[o.id] = o.before
     /\ ~\E d \in w.deps : o.id \in {d.source, d.dependent}
  \/ /\ o.op = "move" /\ CanMove(w.blocks, o.id, o.after)
     /\ PlaceOf(w.blocks[o.id]) = o.before
  \/ /\ o.op = "replace" /\ o.id \in DOMAIN w.blocks
     /\ w.blocks[o.id].content = o.before

FitsAnything(w, g, o) == TRUE

\* The checks of one operation on the graph the operations before it made.
FitsGraph(w, g, o) ==
  \/ o.op = "insert" /\ CanAdd(g, o.id, o.block)
  \/ o.op = "delete" /\ CanDelete(g, o.id)
  \/ o.op = "move" /\ CanMove(g, o.id, o.after)
  \/ o.op = "replace" /\ CanEdit(g, o.id, Rewritten(w.blocks, o))

Performed(w, g, o) ==
  CASE o.op = "insert"  -> Put(g, o.id, o.block)
    [] o.op = "delete"  -> Without(g, o.id)
    [] o.op = "move"    -> Put(g, o.id, MovedTo(g[o.id], o.after))
    [] o.op = "replace" -> Put(g, o.id, Rewritten(w.blocks, o))

\* The validated graph of a patch, None when the patch is refused.
ValidatedGraph(w, ops) ==
  LET graph[n \in 0..Len(ops)] ==
        IF n = 0 THEN w.blocks
        ELSE LET g == graph[n-1] IN
             IF g # None /\ FitsSnapshot(w, ops[n]) /\ FitsGraph(w, g, ops[n])
             THEN Performed(w, g, ops[n])
             ELSE None
  IN graph[Len(ops)]

\* An invalidation for each dependent; which comes first does not matter.
Invalidations(w, b) ==
  LET rs == SetToSeq(TransitiveDependents(w.deps, b)) IN
  [i \in DOMAIN rs |-> Invalidated(rs[i])]

OperationEvents(w, o) ==
  CASE o.op = "insert"  -> <<Added(o.id, o.block)>>
    [] o.op = "delete"  -> <<Deleted(o.id, w.blocks[o.id])>>
    [] o.op = "move"    -> <<Moved(o.id, o.before, o.after)>> \o Invalidations(w, o.id)
    [] o.op = "replace" -> <<Edited(o.id, Rewritten(w.blocks, o))>> \o Invalidations(w, o.id)

PatchEvents(w, ops) ==
  FlattenSeq([i \in DOMAIN ops |-> OperationEvents(w, ops[i])])

============================================================================
