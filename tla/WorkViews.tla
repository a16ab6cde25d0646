------------------------------ MODULE WorkViews ------------------------------
(***************************************************************************)
(* What is made out of one revision of a work and used later, when the     *)
(* work may have gone on: the text analysis with its reading order, the    *)
(* edition with its App Book package, and the memory with the context      *)
(* prepared from it for one operation.                                     *)
(*                                                                         *)
(* A digest is modelled by what it is the digest of.                       *)
(***************************************************************************)
EXTENDS Integers, Sequences, FiniteSets, SequencesExt, Ordering

CONSTANTS
  Book,         \* works to begin with, and what is made of them: [blocks, published, at]
  Wording,    \* contents an editor may give a block
  Query,        \* retrieval requests: [words, targets, limit]
  MaxChanges,   \* bound on the commands that change the work meanwhile
  Absent

VARIABLES
  manuscript,   \* [blocks, version, revision, published]
  session,      \* "edition" or "memory": what the desk is at
  approval,     \* an approved EditionApproval: the version and revision it names
  snapshot,     \* EditionSnapshot, or Absent
  package,      \* AppBookPackage, or Absent
  memory,       \* WorkMemoryProjection, or Absent
  context,      \* the PassMemory of a PreparedEditorialOperation, or Absent
  used,         \* the context an operation ran with, and the blocks it ran on
  changes       \* commands that changed the work so far

viewVars ==
  <<manuscript, session, approval, snapshot, package, memory, context, used, changes>>

Blocks == manuscript.blocks
Root == 0

\* Ids of blocks are compared with each other; each position is a number.
IsBook(B) ==
  /\ DOMAIN B \subseteq Int \ {Root} /\ IsFiniteSet(DOMAIN B)
  /\ B \in [DOMAIN B -> [parent : Int, position : Int, content : STRING, approved : BOOLEAN]]

ASSUME ViewsAssumption ==
  /\ \A book \in Book : IsBook(book.blocks)
  /\ \A q \in Query : q.limit \in Nat
  /\ Wording \subseteq STRING

----------------------------------------------------------------------------
(* _reading_order *)

SiblingBefore(B, b, c) ==
  B[b].position < B[c].position \/ (B[b].position = B[c].position /\ b < c)

Children(B, parent) ==
  LET siblings == {b \in DOMAIN B : B[b].parent = parent}
  IN SortedBy(siblings, {p \in siblings \X siblings : SiblingBefore(B, p[1], p[2])})

\* visit: each block, followed by what is under it down to so many levels.
Visit(B, levels) ==
  LET from[n \in 0..levels] ==
        [b \in DOMAIN B |->
           IF n = 0 THEN <<>>
           ELSE <<b>> \o FlattenSeq([i \in DOMAIN Children(B, b) |-> from[n-1][Children(B, b)[i]]])]
  IN from[levels]

\* Under a root there are no more levels than blocks; a cycle is under no root.
ReadingOrder(B) ==
  FlattenSeq([i \in DOMAIN Children(B, Root) |-> Visit(B, Cardinality(DOMAIN B))[Children(B, Root)[i]]])

----------------------------------------------------------------------------
(* The edition *)

Authorizes(a) == a # Absent /\ a.version = manuscript.version /\ a.revision = manuscript.revision

Publishable(exact) ==
  [b \in {c \in DOMAIN Blocks : exact \/ Blocks[c].approved} |-> Blocks[b]]

\* There is a published block, and every one has a text, which a heading need not,
\* and a published parent.
Complete(B) ==
  /\ DOMAIN B # {}
  /\ \A b \in DOMAIN B : B[b].content # "" /\ B[b].parent \in DOMAIN B \cup {Root}

\* EditionApproval.for_work and approve, of the work as it is now.
ApproveEdition ==
  /\ session = "edition" /\ approval = Absent
  /\ approval' = [version |-> manuscript.version, revision |-> manuscript.revision]
  /\ UNCHANGED <<manuscript, session, snapshot, package, memory, context, used, changes>>

\* EditionProjector.project.
ProjectEdition ==
  /\ session = "edition" /\ snapshot = Absent
  /\ LET exact == Authorizes(approval)  B == Publishable(exact) IN
     /\ manuscript.published \/ exact
     /\ Complete(B)
     /\ Len(ReadingOrder(B)) = Cardinality(DOMAIN B)
     /\ snapshot' = [order |-> ReadingOrder(B),
                     blocks |-> [i \in DOMAIN ReadingOrder(B) |-> B[ReadingOrder(B)[i]]],
                     exact |-> exact, revision |-> manuscript.revision]
  /\ UNCHANGED <<manuscript, session, approval, package, memory, context, used, changes>>

\* The version of the work is not what a snapshot goes out of date with.
IsStale(view) == view.revision # manuscript.revision

ManifestOf(s) == [order |-> s.order, revision |-> s.revision, snapshot |-> s]
ContentOf(order, blocks) == [order |-> order, blocks |-> blocks]
Checksums(manifest, content) ==
  LET base == [snapshot |-> manifest.snapshot, manifest |-> manifest, content |-> content]
  IN [base |-> base, package |-> <<manifest, content, base>>]

\* AppBookCompiler.compile.
Compile ==
  /\ snapshot # Absent /\ package = Absent
  /\ LET manifest == ManifestOf(snapshot) IN
     package' = [manifest |-> manifest, blocks |-> snapshot.blocks,
                 checksums |-> Checksums(manifest, ContentOf(snapshot.order, snapshot.blocks))]
  /\ UNCHANGED <<manuscript, session, approval, snapshot, memory, context, used, changes>>

\* Only the manifest is verified.
VerifyManifest(p) == p.checksums.base.manifest = p.manifest

VerifyIntegrity(p) == p.checksums = Checksums(p.manifest, ContentOf(p.manifest.order, p.blocks))

\* A reader's copy of the package has lost or changed something: a text, or the place
\* of a block.
Swapped(s, i) == [s EXCEPT ![1] = s[i], ![i] = s[1]]

Damage ==
  /\ package # Absent /\ package.blocks = snapshot.blocks /\ package.manifest.order = snapshot.order
  /\ \/ \E i \in DOMAIN package.blocks, text \in Wording :
          package' = [package EXCEPT !.blocks[i].content = text]
     \/ \E i \in 2..Len(package.blocks) :
          package' = [package EXCEPT !.blocks = Swapped(@, i),
                                     !.manifest.order = Swapped(@, i)]
  /\ UNCHANGED <<manuscript, session, approval, snapshot, memory, context, used, changes>>

----------------------------------------------------------------------------
(* The memory *)

\* WorkMemoryProjection.from_work.
Remember ==
  /\ session = "memory" /\ memory = Absent
  /\ memory' = [refs |-> DOMAIN Blocks, revision |-> manuscript.revision]
  /\ UNCHANGED <<manuscript, session, approval, snapshot, package, context, used, changes>>

Score(q, b) ==
  <<IF b \in q.targets THEN 1 ELSE 0, Cardinality(q.words \cap {Blocks[b].content})>>

Better(q, b, c) ==
  LET s == Score(q, b)  t == Score(q, c) IN
  \/ s[1] > t[1]
  \/ s[1] = t[1] /\ s[2] > t[2]
  \/ s = t /\ b < c

\* MemoryRetriever.retrieve: what scores at all, the best first, so many at most.
Retrieve(q) ==
  LET found == {b \in memory.refs : Score(q, b) # <<0, 0>>}
      scored == SortedBy(found, {p \in found \X found : Better(q, p[1], p[2])})
  IN SubSeq(scored, 1, IF Len(scored) < q.limit THEN Len(scored) ELSE q.limit)

\* SemanticContextService.prepare: retrieve, and ContextBuilder.build.
Prepare ==
  /\ memory # Absent /\ context = Absent
  /\ ~IsStale(memory)
  /\ \E q \in Query :
       context' = [refs |-> Retrieve(q), query |-> q, revision |-> manuscript.revision,
                   blocks |-> [i \in DOMAIN Retrieve(q) |-> Blocks[Retrieve(q)[i]]]]
  /\ UNCHANGED <<manuscript, session, approval, snapshot, package, memory, used, changes>>

\* A context is good for any revision.
OperateAnyhow ==
  /\ context # Absent /\ used = Absent
  /\ used' = [context |-> context, blocks |-> Blocks]
  /\ UNCHANGED <<manuscript, session, approval, snapshot, package, memory, context, changes>>

\* PreparedEditorialOperation.review and propose.
Operate ==
  /\ context # Absent /\ used = Absent
  /\ ~IsStale(context)
  /\ used' = [context |-> context, blocks |-> Blocks]
  /\ UNCHANGED <<manuscript, session, approval, snapshot, package, memory, context, changes>>

----------------------------------------------------------------------------
(* The work goes on *)

Above(B, b) ==
  LET up[n \in 0..Cardinality(DOMAIN B)] ==
        IF n = 0 THEN {b} ELSE up[n-1] \cup {B[c].parent : c \in up[n-1] \ {Root}}
  IN up[Cardinality(DOMAIN B)]

Becomes(blocks, revision) ==
  /\ changes < MaxChanges /\ changes' = changes + 1
  /\ manuscript' = [manuscript EXCEPT !.blocks = blocks, !.version = @ + 1, !.revision = revision]
  /\ UNCHANGED <<session, approval, snapshot, package, memory, context, used>>

MoveBlock ==
  \E b \in DOMAIN Blocks, parent \in DOMAIN Blocks \cup {Root}, position \in {0, 1} :
    /\ b \notin Above(Blocks, parent)
    /\ <<parent, position>> # <<Blocks[b].parent, Blocks[b].position>>
    /\ Becomes([Blocks EXCEPT ![b].parent = parent, ![b].position = position], manuscript.revision + 1)

EditContent ==
  \E b \in DOMAIN Blocks, text \in Wording :
    Becomes([Blocks EXCEPT ![b].content = text], manuscript.revision + 1)

\* An event that is not material: a finding, a decision, a dependency.
RecordEvent == Becomes(Blocks, manuscript.revision)

----------------------------------------------------------------------------

ViewsInit ==
  /\ \E book \in Book :
       /\ manuscript = [blocks |-> book.blocks, published |-> book.published,
                        version |-> 1, revision |-> 1]
       /\ session = book.at
  /\ approval = Absent /\ snapshot = Absent /\ package = Absent
  /\ memory = Absent /\ context = Absent /\ used = Absent
  /\ changes = 0

ViewsNext ==
  \/ ApproveEdition \/ ProjectEdition \/ Compile \/ Damage
  \/ Remember \/ Prepare \/ Operate
  \/ MoveBlock \/ EditContent \/ RecordEvent

ViewsSpec == ViewsInit /\ [][ViewsNext]_viewVars

----------------------------------------------------------------------------
(* Properties *)

\* b is read before c: it is above it, or stands before it where their ways part.
ReadBefore(B, b, c) ==
  \/ b \in Above(B, c)
  \/ \E d \in Above(B, b) \ Above(B, c), e \in Above(B, c) \ Above(B, b) :
       B[d].parent = B[e].parent /\ SiblingBefore(B, d, e)

InReadingOrder(order, B) ==
  /\ {order[i] : i \in DOMAIN order} = DOMAIN B
  /\ \A i, j \in DOMAIN order : i < j => order[i] # order[j] /\ ReadBefore(B, order[i], order[j])

\* A reader's copy that verifies, of an edition that is not out of date, is the work:
\* each publishable block once, as it stands now, in reading order, whatever was
\* moved, edited, recorded or damaged since the edition was approved.
VerifiedEditionIsTheWork ==
  package # Absent /\ VerifyIntegrity(package) /\ ~IsStale(package.manifest) =>
    LET B == Publishable(snapshot.exact)  order == package.manifest.order IN
    /\ InReadingOrder(order, B)
    /\ package.blocks = [i \in DOMAIN order |-> B[order[i]]]

\* An operation runs with a context that is what its query asks for on the very work
\* it runs on: blocks as they stand there, and none left out that scores better than
\* one that is in.
ContextIsCurrent ==
  used # Absent =>
    LET c == used.context IN
    /\ \A i \in DOMAIN c.refs : c.blocks[i] = used.blocks[c.refs[i]]
    /\ Len(c.refs) <= c.query.limit
    /\ \A b \in DOMAIN used.blocks :
         \/ b \in {c.refs[i] : i \in DOMAIN c.refs}
         \/ b \notin c.query.targets /\ used.blocks[b].content \notin c.query.words
         \/ /\ Len(c.refs) = c.query.limit
            /\ \A i \in DOMAIN c.refs : b \in c.query.targets => c.refs[i] \in c.query.targets

==============================================================================
