--------------------------- MODULE EditorialStream ---------------------------
(***************************************************************************)
(* The command handlers over the contents of the events.  A handler is one *)
(* step here: CommandProtocol!AppendsOntoWhatItReplayed shows that its     *)
(* commit goes in on the stream it replayed, or not at all, so reading,    *)
(* deciding and appending may be taken together.  expected_version and the *)
(* idempotency key are CommandProtocol's matter too: a command whose       *)
(* version is not the current one, or a repeated one, is no step.          *)
(*                                                                         *)
(* The state is the stream alone.  Everything a handler knows it replays   *)
(* from there, and a stream that does not replay lets no handler pass      *)
(* except CreateBranch, which never replays its source.                    *)
(***************************************************************************)
EXTENDS Work

CONSTANTS
  Branch,
  Draft,        \* [id, block] that authors submit, to be added or as an edit
  Link,         \* <<source, dependent>> that somebody registers
  Patch,        \* the sequences of operations somebody approved
  MaxVersion    \* bound: events in all the streams

ASSUME StreamAssumption ==
  /\ None \notin Branch
  /\ \A d \in Draft : d.id \in BlockId /\ d.block \in Block
  /\ Link \subseteq Resource \X Resource
  /\ \A ops \in Patch : IsPatch(ops)
  /\ MaxVersion \in Nat

\* [Branch -> Seq(commit)], a commit being its events, the branch it was forked
\* from and, as its message tells, the patch it applies.
VARIABLE stream

EventsUpTo(s, n) == FlattenSeq([i \in 1..n |-> stream[s][i].events])
Events(s)        == EventsUpTo(s, Len(stream[s]))
StateAfter(s, n) == Replay(EventsUpTo(s, n))
Current(s)       == StateAfter(s, Len(stream[s]))

EventCount == MapThenSumSet(LAMBDA s : Len(Events(s)), Branch)

\* append_commit, and the projection's replay, which may raise but undoes nothing.
Commit(s, events, source, patch) ==
  /\ EventCount + Len(events) <= MaxVersion
  /\ stream' = [stream EXCEPT ![s] =
       Append(@, [events |-> events, source |-> source, patch |-> patch])]

Persist(s, events) == Commit(s, events, None, <<>>)

----------------------------------------------------------------------------
(* The handlers *)

CreateWork(s) ==
  /\ stream[s] = <<>>
  /\ Persist(s, <<Created>>)

\* Neither handler asks whether the block fits the graph.
AddContentBlock(s, b, block) ==
  /\ Current(s) # None
  /\ Persist(s, <<Added(b, block)>>)

EditContentBlock(s, b, block) ==
  LET w == Current(s) IN
  /\ w # None
  /\ Persist(s, <<Edited(b, block)>> \o Invalidations(w, b))

\* Nor this one, whether the dependency is there already.
RegisterDependency(s, source, dependent) ==
  /\ Current(s) # None
  /\ Persist(s, <<Registered(source, dependent)>>)

ApplyApprovedPatch(s, ops) ==
  LET w == Current(s) IN
  /\ w # None
  /\ ValidatedGraph(w, ops) # None
  /\ Commit(s, PatchEvents(w, ops), None, ops)

RecordReviewFinding(s, f, revision) ==
  LET w == Current(s) IN
  /\ w # None
  /\ revision = w.manuscript
  /\ \A e \in RecordedIn(Events(s)) : e.finding # f
  /\ Persist(s, <<Recorded(f, revision)>>)

\* A decision on a finding whatever became of the manuscript since.
DecideStaleFinding(s, f) ==
  /\ Current(s) # None
  /\ f \notin DecidedIn(Events(s))
  /\ \E e \in RecordedIn(Events(s)) :
       e.finding = f /\ Persist(s, <<Decided(f, e.revision)>>)

DecideReviewFinding(s, f) ==
  LET w == Current(s) IN
  /\ w # None
  /\ f \notin DecidedIn(Events(s))
  /\ \E e \in RecordedIn(Events(s)) :
       /\ e.finding = f /\ e.revision = w.manuscript
       /\ Persist(s, <<Decided(f, e.revision)>>)

\* The cutoff is any version of the source, the last event of a commit or not.
CreateBranch(s, source, cutoff) ==
  /\ stream[source] # <<>> /\ stream[s] = <<>>
  /\ cutoff >= 1 /\ cutoff <= Len(Events(source))
  /\ Commit(s, SubSeq(Events(source), 1, cutoff), source, <<>>)

Init == stream = [s \in Branch |-> <<>>]

Next ==
  \E s \in Branch :
    \/ CreateWork(s)
    \/ \E d \in Draft : AddContentBlock(s, d.id, d.block)
    \/ \E d \in Draft : EditContentBlock(s, d.id, d.block)
    \/ \E link \in Link : RegisterDependency(s, link[1], link[2])
    \/ \E ops \in Patch : ApplyApprovedPatch(s, ops)
    \/ \E f \in Finding, revision \in 1..MaxVersion : RecordReviewFinding(s, f, revision)
    \/ \E f \in Finding : DecideReviewFinding(s, f)
    \/ \E source \in Branch, cutoff \in 0..MaxVersion : CreateBranch(s, source, cutoff)

Spec == Init /\ [][Next]_stream

----------------------------------------------------------------------------
(* Properties *)

\* Every commit has an event, every replay that succeeds gives a well-formed work.
TypeOK ==
  /\ stream \in [Branch -> Seq([events : Seq(Event), source : Branch \cup {None},
                               patch : Patch \cup {<<>>}])]
  /\ \A s \in Branch : \A n \in DOMAIN stream[s] :
       /\ stream[s][n].events # <<>>
       /\ StateAfter(s, n) = None \/ IsWork(StateAfter(s, n))

\* What a patch means, said at once and not operation by operation: every block
\* it names is as proposed and every other block is as it was.
Intended(g, ops) ==
  LET named(op) == {i \in DOMAIN ops : ops[i].op = op}
      ids(op)   == {ops[i].id : i \in named(op)}
      of(b)     == CHOOSE i \in DOMAIN ops : ops[i].id = b IN
  [b \in (DOMAIN g \cup ids("insert")) \ ids("delete") |->
     CASE b \in ids("insert")  -> ops[of(b)].block
       [] b \in ids("move")    -> MovedTo(g[b], ops[of(b)].after)
       [] b \in ids("replace") -> [g[b] EXCEPT !.content = ops[of(b)].after]
       [] OTHER                -> g[b]]

\* An approved patch is applied whole and as approved: although its operations
\* are checked against two graphs and its events are replayed one by one, the
\* commit never ends the stream, and the work after it is the approved snapshot
\* with all the operations made at once.
PatchesApplyWhole ==
  \A s \in Branch : \A n \in DOMAIN stream[s] :
    stream[s][n].patch # <<>> =>
      /\ StateAfter(s, n) # None
      /\ StateAfter(s, n).blocks = Intended(StateAfter(s, n-1).blocks, stream[s][n].patch)

IsForest(g) == \A b \in DOMAIN g : None \in Range(Upwards(g, b))

\* No patch makes a parental cycle, however its moves and inserts are combined and
\* although each is checked against the snapshot too.
PatchesKeepForests ==
  \A s \in Branch : \A n \in DOMAIN stream[s] :
    stream[s][n].patch # <<>> /\ IsForest(StateAfter(s, n-1).blocks)
      => IsForest(StateAfter(s, n).blocks)

\* Blocks always hang under blocks that exist and have a text, whatever authors
\* submit: a stream that breaks this does not replay.
NoOrphans ==
  \A s \in Branch :
    Current(s) # None =>
      LET g == Current(s).blocks IN
      \A b \in DOMAIN g : ParentIn(g, g[b]) /\ g[b].content \notin Blank

\* r depends on b, directly or through others: every set of resources that
\* contains b and is closed under dependence contains r.
DependsOn(deps, b, r) ==
  \A S \in SUBSET Resource :
    b \in S /\ (\A d \in deps : d.source \in S => d.dependent \in S) => r \in S

Changes(commit) ==
  {e.id : e \in {x \in Range(commit.events) : x.type \in {"edited", "moved"}}}

\* After a commit that edits or moves a block, every dependency into anything
\* that depends on the block is stale, through chains and cycles registered in
\* any order.  A fork that copies the whole commit has it too; one whose cutoff is
\* inside the commit lacks invalidations (ForksKeepPatchesWhole is violated), and is
\* not said to be otherwise.
ChangesReachDependents ==
  \A s \in Branch : \A n \in DOMAIN stream[s] :
    stream[s][n].source = None /\ StateAfter(s, n) # None =>
      LET deps == StateAfter(s, n).deps IN
      \A b \in Changes(stream[s][n]) : \A d \in deps :
        d.dependent # b /\ DependsOn(deps, b, d.dependent) => d.stale

\* A finding is decided at most once, after it was recorded, and with nothing in
\* the manuscript changed since, on every branch on its own: the decision is
\* about the text the finding was about.
DecisionsMeetTheirRevision ==
  \A s \in Branch : LET es == Events(s) IN
    \A k \in DOMAIN es : es[k].type = "decided" =>
      /\ \A m \in DOMAIN es :
           es[m].type = "decided" /\ es[m].finding = es[k].finding => m = k
      /\ \E j \in 1..k-1 :
           /\ es[j].type = "recorded" /\ es[j].finding = es[k].finding
           /\ \A m \in j..k : es[m].type \notin Material

\* "El event stream es la fuente de verdad para reconstruir Work": every stream
\* of a created work can be replayed (docs/decisions/008, line 8).
EveryStreamReplays ==
  \A s \in Branch : stream[s] # <<>> => Current(s) # None

\* "Un patch mixto se aplica completo o no se aplica" (docs/decisions/005, line
\* 112): if a branch holds an event of a patch of another it holds all of them.
ForksKeepPatchesWhole ==
  \A s, t \in Branch : \A n \in DOMAIN stream[s] :
    LET patched == stream[s][n] IN
    patched.patch # <<>> /\ stream[t] # <<>> /\ stream[t][1].source = s =>
      LET before == Len(EventsUpTo(s, n-1))
          copied == Len(stream[t][1].events) IN
      copied <= before \/ copied >= before + Len(patched.events)

============================================================================
