# Editorial TR.ES: verification development

Editorial TR.ES is an event-sourced editing kernel. A literary *work* is never stored as such:
commands produce events, events are grouped in commits, commits are appended to a stream (one per
tenant, editorial, work and *branch*), and everything else (the current text, the dependency graph,
the review history, the published edition) is recomputed from the stream. What must be right is
therefore the write path, what the events mean when they are replayed, and the phases that drive
them. This directory holds TLA+ models of those parts, the TLC runs that check them and the proofs
that TLAPS checks.

`P/` below is `src/platform/src/editorial_tres/`.

## 1. Inventory

| Part | State it keeps | Operations | Hard because |
|---|---|---|---|
| **Event store** `P/infrastructure/sqlite/event_store.py`, `P/infrastructure/memory/event_store.py` | commits, events, stream heads, idempotency keys, edition approvals | `append_commit`, `get_events`, `get_head_commit`, `get_idempotent_commit`, `branch_exists`, `save_edition_approval` | several processes on one file; an append is many statements; any caller may submit anything |
| **Command handlers** `P/application/handlers.py`, `commands.py` | none of their own; what a running call has read | create, add, edit, register dependency, fork, apply patch, record finding, decide finding | read, decide and append are separate calls with no lock; retries; crashes |
| **Projection** `P/application/projections.py` | the read model of each branch, in memory | `rebuild_work`, `apply` | lost by a crash, rebuilt by some commands only |
| **Work aggregate** `P/domain/work.py`, `P/domain/graphs/*` | blocks, dependencies, versions, all derived | `apply`, `replay`, `add/edit/delete/move_block`, `register`, `mark_stale`, `transitive_dependents` | one event that cannot be applied ends the stream; forests and cycles; staleness through chains |
| **Review history** `P/domain/review_history.py` | findings and decisions, derived | `replay` | decisions must meet the manuscript revision they were made on |
| **Patches and approvals** `P/domain/patches.py`, `approvals.py` | none | build, digest, approve | an approval binds one exact proposal over one exact version |
| **Edition** `P/domain/edition.py`, `P/application/edition_projector.py`, `app_book_compiler.py` | approvals in the store; snapshots and packages as values | approve, project in reading order, compile, verify | an edition may only show the approved version; copies are damaged or out of date |
| **Private factory** `P/application/private_factory.py`, `private_factory_cli.py` | the event store and a directory of JSON files | review (ingest, analyse, record), prepare (decide, patch, form), publish (check, save, export) | several commits and files per phase, several processes, restarted after crashes; one constant key for every patch; an approval id per work |
| **Web** `src/web/app.py` | an index file and the factory's files | run review, submit decisions, approve edition, show status | the same database as the command line; files one after another; a new time of signature on every retry |
| **Plugins and review plan** `P/plugin_runtime.py`, `composition.py`, `review_plan.py`, `capability_factory.py` | manifests, activated plugins | resolve, order, activate, require reviewers, plan | a recursion over `requires`, which may be cyclic; two computations of one list |
| **Passes** `P/domain/editorial_passes.py` | none; a patch that waits at its gate | propose from findings, from one finding, from a block; decide the gate | edits by position in one text; the block changes meanwhile |
| **Reviewers** `P/domain/reviews.py` | none | one review over all blocks | runs, thresholds, overlaps and ends of texts |
| **Semantic memory** `P/semantic_memory.py` | projections of one revision | remember, retrieve, prepare a context, operate | a context is used after the work went on |
| **Spanish correctors, segmentation, renderers, LLM adapter** | none | functions over prose, or output | what they report is data to the parts above |

Components interact by calls only: the factory and the web drive the handlers; a handler makes calls
on one event store and, after an append, rebuilds one entry of the projection. The only state that
processes share is the SQLite file; each desk (the web's directory of a project, the output directory of
the command line) has JSON files of its own.

What makes each part correct:

* event store: unbroken chains, unique ids, keys that name their commit, nothing rewritten;
* handlers: no lost update, one commit per command, answers that stay true, forks that are copies;
* work: every stream replays, a patch applies whole and as planned, every change reaches all its
  dependents, branches are independent;
* reviews: a finding is decided once and on the manuscript revision it was made on;
* factory: stored history replays for ever, a patch applies what the stored decisions accepted, files
  say what is stored, whatever crashes, rivals and re-runs happen;
* edition: one version is approved, when it is settled, and nothing else is given out; what verifies as
  the edition is the work;
* plan and passes: what a plugin requires comes before it, the plan is what was activated, a round of
  corrections does what its edits say on the text that was reviewed;
* reviewers and memory: findings are true of the text, an operation runs on what it was told about.

The full list of what is hard to test, line by line, is `hazards` in `PROJECT.json`.

## 2. Plan

The order is that of the damage a fault would do: first what is written, then what it means, then
the phases on top.

| # | Modules | Subject | State |
|---|---|---|---|
| 1 | `EventStore`, `MCEventStore`, `EventStoreProofs`, `SequenceLemmas` | the store's contract: one atomic append | done, proved |
| 2 | `CommandProtocol`, `SerialCommands`, `MCCommandProtocol`, `CommandProtocolProofs` | every call of a handler on the store, several processes, crashes, retries; built on 1, and serializable | done, proved |
| 3 | `SQLiteTransaction`, `MCSQLiteTransaction`, `SQLiteProofs` | the statements of the SQLite store, several connections; implements 1 | done, proved |
| 4 | `Work`, `EditorialStream`, `MCEditorialStream`, `WorkProofs` | what events mean, and the handlers over their contents | done, proved |
| 5 | `PrivateFactory`, `FactoryDesks`, `EditionPromise`, `MCFactory`, `FactoryProofs` | the phases of the factory over the stored stream, the desks with their files, and what they promise together | done, proved |
| 6 | `PluginComposition`, `CompositionProofs` | from a project to its review plan | done, proved |
| 7 | `Reviewers` | the deterministic reviewers and their engine | done, proved |
| 8 | `Corrections`, `Ordering`, `ReviewProofs` for 7 to 9 | from accepted findings to one applied patch, while the work goes on | done, proved |
| 9 | `WorkViews`, and `MCReviewDesk` for 6 to 9 | edition, App Book and memory of one revision, used later | done, proved |
| 10 | `ReadModel` | `CurrentWorkProjection` after a restart and after an idempotent answer | left |
| 11 | an index module | `projects.json`, read and rewritten by create_project | left |

Abstract specifications: `EventStore` is what `SQLiteTransaction` refines (`StoreIsImplemented`) and what
`CommandProtocol` is built on. `SerialCommands` is what the handlers refine (`CommandsAreSerial`): every
command is carried out in one step, at most once, on the work as it is at that step. `EditionPromise` is
what the factory refines (`PromiseKept`): versions become settled, one of them is approved for ever, only
that one is released.

Every safety property of a passing run is the statement of a theorem by now; what is left of the plan
are modules 10 and 11, whose hazards are listed with the reasons why no property covers them.

## 3. The modules and the code

### EventStore
A *stream* is one scope (tenant, editorial, work, branch). `log[s]` is the rows of `commits` and
`events` of that scope in `stream_position` order, `streams[s]` its row of `streams` (no row is head
`None`, version 0), `keys` the table `idempotency_keys`. `Key` stands for the pair (command_type,
idempotency_key). A commit keeps the columns that some check reads: id, parent, parent_branch
(`source`) and events; an event keeps id, aggregate_version and origin. `AppendCommit` is
`append_commit`; its guard `Accepts` is the conjunction of the code's checks. A refused append
raises, so it is no step. `StoreNext` assumes nothing of the caller.

`SQLiteEventStore` and `MemoryEventStore` differ in one check: only the former refuses one event id
twice in a commit. The model has the SQLite check (`IdsAreNew`); the mutant `IdsAreNewButInside` is
the memory store's, and it violates `IdsAreUnique`.

### CommandProtocol
A handler is straight-line code; each of its calls on the store is an action: `Lookup` (`_idempotent`),
`Replay` (`get_events` and the version check) or `CheckBranches` and `ReadSource` (CreateBranch),
`ReadHead` (`_persist`), `AppendDraft`, `Project` (`rebuild_work` and the result). `Process` runs one
command at a time; all processes share the tables of `EventStore`, which the module extends, and have
a projection each. `Crash` is the death of a process at any point: its projection and its answer go,
the tables stay, and the same command may be submitted again. `answers` records results that
callers got, for the properties only. All commands with an `expected_version` are one kind, `update`:
that they differ in content is module 4's matter. Versions of a draft come from the replayed
state and its parent from the later read of the head, as in `_persist`.

### SerialCommands
What a caller may assume of the handlers: there is one list of commits for each stream, one filing of the
commands carried out and the answers given, and a command is `Perform`ed in one step or answered
(`Reply`). There are no processes, snapshots, heads or version checks of a store: an update fits when the
work has as many events as it expects, a creation or a fork when the stream is empty. A fork may copy
what its source had at some earlier moment, since the code reads the source before it appends. The
variables are those of `CommandProtocol` under their own names; streams, processes and projections are
hidden by leaving them out.

### SQLiteTransaction
The tables of `EventStore` are what is committed, `dirty` what the connection with the write lock
sees beyond that. Of `append_commit`: `Begin` (BEGIN IMMEDIATE), `Check` (the queries), `InsertCommit`,
`InsertEvent`, `UpdateHead`, `InsertKey`, `CommitTransaction`; `FailAppend` is any statement raising,
with the rollback of the `except` clause. Of `save_edition_approval`: `SelectApproval`,
`InsertApproval`, `CommitTransaction`; `FailApproval` is any of them raising, where nothing rolls
back, so that the transaction, with the lock if it had it, stays open until `Close`. `Crash` rolls
back what the process had not committed. SQLite itself (one write lock, isolation, atomic COMMIT) is
assumed as documented; readers' locks appear only as a commit that raises.

### Work and EditorialStream
`Work` translates `Work.apply`/`replay`, the two graphs and the planning of a patch into operators.
A work is a record (version, manuscript version, blocks, dependencies); `None` is a replay that
raises. `EditorialStream` has one action per handler; its only variable is the stream, because
everything a handler knows it replays. A handler is one step here, which is justified by
`CommandProtocol`: `AppendsOntoWhatItReplayed`, proved there for every instance, says a commit goes
in on the stream its handler replayed or not at all. A patch is a sequence of insert, delete, move
and replace operations; `ValidatedGraph` is the double check of each against the approved snapshot
and against the graph as changed so far, `PatchEvents` the planning of its events.

Abstracted: texts are model values (`Blank` are those the constructor refuses), a finding is its id
and its revision, the digests and approvals of a patch are the membership in `Patch`, the dependency
type and the order in which invalidations are emitted do not matter to `Apply`. The recursions of the
code are recursive functions, so that they can be proved about: `Replay` over the events,
`TransitiveDependents` in as many rounds as there are dependencies. `WorkAssumption` says that `None`,
the replay that raises, is no work and no graph.

### PrivateFactory
`log` is the stream of one work with one event for each thing the factory stores: `ingested` (the blocks
of a manuscript), `recorded` and `decided` (a finding), `patched` (the corrections of one patch, with
what follows from them). A call is a record in `run`: its place in the code (`pc`), what it was given,
and what it holds. A `Work` in hand is a length of the log, since `Work.replay` of the same events is the
same work; `work` is the one whose version goes into the next command, `text` the one that was analysed,
`known` the history that was read. Every read and every command is a step: `Load`, `Ingest`, `Reread`,
`History`, `Record` (one finding), `Reviewed`, `Resolve`, `Decide` (one finding), `Resolved`,
`ApplyAccepted`, `Prepared`, `Check`, `Save`. That a command is one step, accepted only onto the version
it names, is what `CommandProtocol` proves (`AppendsOntoWhatItReplayed`).

Of a manuscript only its *flaws* are kept, the places at which the correctors report something; they are
numbered in reading order, and the order in which findings are recorded is that order. `Flaws` gives for
each text and each set of corrected flaws what the correctors report then: what was not corrected, less
or more. A finding is a flaw with the manuscript version it was seen at, as its id is a hash that includes
it and all its contents (so that the refusal of a stored finding with the same id and other contents,
`private_factory.py:732`, is about a collision and has no step). Whether two accepted corrections overlap
is in the text: any two may be sent back to arbitration (`Resolved`), after their decisions were stored.
`Save` may raise once the approval is stored, as the projector and the renderers come after it. Keys: a finding's
command is keyed by the finding, so that `Record` answers an equal one from the stored commit; the key of
a decision carries the time of its call, so a used one is refused; the key of the patch is a constant, so
the second patch of a work is refused (`ApplyAccepted`). The approval is stored under one id per work.

### FactoryDesks
A desk is a process with its directory: those in `Console` are `src/web/app.py`, the others the command
line. A desk has one call at a time. `StartReview`, `StartPrepare`, `SignAndPublish`, `Sign` and
`StartPublish` are the requests and invocations; `TakeAnswer` is what comes back from the factory, with
the command line's comparison with `project.yaml` (`AsExpected`, which happens after the factory has
stored its commits) and its way on to prepare when there are no findings (`GoesOn`). `WriteFile` writes
one file; the order of files is that of the code. `Crash` ends a call at any step; a file that was being
written is as before or `Torn`. `ProjectStatus` is `_project_status`. What a run plays (which desks do
what, with which text, how many signatures and crashes) is a `scenario`, chosen at the start.
`MCFactory` gives it values.

### EditionPromise
Three variables: `settled`, `approved`, `released`. The mapping takes `SettledVersions` (versions at
which everything recorded is decided, by now, and every correction accepted on the first text is in), the
version of the stored approval, and the versions in the exports that are whole.

### PluginComposition
Ids are numbers in alphabetical order. `Resolve` is the sequence of refusals of `compose_project`; the
recursion of `visit` is a stack of frames with one step for each call (`VisitNext`, `VisitDependency`)
and each return (`Return`), and `RecursionLimit` the interpreter's; `Activate`, then the required
reviewers one by one, then the plan with the reasons for each entry. That a behavior validates
(`executable`) and that an implementation takes its parameters (`builds`) are Booleans of a plugin.

### Reviewers
The content of a block is a sequence of tokens: words, `Stop` for a run of sentence marks, `Break` for the
end of a line. Each kind of reviewer is one operator; `RunReviewer` runs the next one of the engine over
all blocks. Findings are a set: their order is by a hash. `FindingsMatchTheText` says what each reviewer
finds by positions in the text, without the scans and counters of the code: `RepetitionsAreCounted` (as
many occurrences as fit beside one another), `RepetitionsAreSpread` (over how many blocks),
`ContradictionsFollow`, `RunsAreReported`, `LinesAreCounted` and `ThemesAreCounted` (what is reported is
the set of what the text repeats, with its number), and `SentencesAreRead`, which is about
what the rhythm reviewer measures before it looks for runs: that its sentences are those between the
stops of the text, with their words. Three kinds are modelled and have no such property, because their
code already says what they count: `voice_drift`, `uniform_sentence_length` and `repeated_opening`. `ReviewersAssumption` is what the pydantic validators let through:
phrases and markers are not empty, thresholds are positive; and it keeps the kinds of tokens apart.

### Corrections
A text is a sequence of characters. The edits that `SequenceMatcher` makes of a finding's evidence and
proposal are given with the finding: any set of edits is allowed that leads from the one to the other.
`ProposeCorrections` checks, merges and applies the edits of all findings block by block;
`ProposeFromFinding` and `ProposeBlockEdit` are the other two passes; `DecideGate` and `ApplyPatch` the
gate and the handler. `EditBlock` and `Annotate` are another editor's commands in between. `Sorted` is
the sort key of `propose`, by way of `Ordering`: an element's place is the number of those before it,
which is what `sorted` does with the elements of a set in a strict order. `Written` says what the edits of
a block describe position by position, without applying one to the result of another.

### WorkViews
A work in hand, what is made of it, and commands that change it meanwhile. `ReadingOrder` is the recursion
of the projector, written down to as many levels as there are blocks, `ReadBefore` its reference
definition. A digest is what it is a digest of, so that two
digests are equal exactly when their inputs are: collisions are left out. `Damage` and `Swapped` are the
world's: a reader's copy loses or changes something.

## 4. What the runs check

Every property of a passing run has a mutant in `PROJECT.json`: a plausible bug in one definition
with which TLC finds the property violated under the same bounds.

| Run | Instance and bounds | Distinct states | Shows |
|---|---|---|---|
| `store` | 2 streams, 3 commit ids, 4 event ids, 1 key, 2 payloads; submitted commits have at most `MaxEvents` = 2 events and versions up to `MaxVersion` = 4, fitting or not; ids are interchangeable (symmetry) | 265 | `StreamsAreChains`, `EventsAreNumbered`, `IdsAreUnique`, `KeysNameTheirCommit`, `AppendOnly` |
| `handlers` | 2 interchangeable processes and 7 commands: a creation, three updates (the same version under two keys, one key with two payloads), two forks of one branch under one key, one with a cutoff that may fall inside a commit, an update of the branch that fits some of them; up to 3 commits, `MaxEvents` = 2 events per update | 891,831 | `AppendsOntoWhatItReplayed`, `OneCommitPerCommand`, `AnswersAreDurable`, `ForksCopyAPrefix`, `ViewsShowCommits`, `CommandsAreSerial` (refinement) |
| `statements` | 2 connections; appends that race for a stream's first place and for a key, that continue either, with an event id that is taken; approvals that share an id with equal and other contents | 4,976 | `StoreIsImplemented` (refinement), `ApprovalsStand`, `WritesEnd` (liveness) |
| `manuscript` | 1 branch, 3 blocks, every well-formed patch of one or two of 13 operations, authors' additions and edits that need not fit; at most `MaxVersion` = 6 events | 19,004 | `PatchesApplyWhole`, `PatchesKeepForests`, `NoOrphans` |
| `derived` | 2 branches, 1 block, dependencies that form a chain, a cycle through the block and a self-loop, 1 finding, forks; at most 7 events | 150,605 | `ChangesReachDependents`, `DecisionsMeetTheirRevision` |
| `factory` | a console and a command line on one work; scenarios below | 849,396 | `HistoryReplays`, `PatchesApplyWhatWasAccepted`, `ApprovedIsSettled`, `ExportsAgree`, `PapersAreTrue`, `StatusNeverGoesBack`, `PromiseKept` (refinement) |
| `review_desk` | modules 6 to 9, one of them at a time; instances below | 356,565 | `DependenciesFirst`, `PlannedAsActivated`, `PlanExplains`, `FindingsMatchTheText`, `CorrectedAsAccepted`, `ArbitratedNotMerged`, `AppliedToTheReviewedText`, `VerifiedEditionIsTheWork`, `ContextIsCurrent` |
| `saved_twice` | as `statements` | violation | finding: `SavesAreIdempotent` |
| `unreplayable` | as `manuscript`, 4 events | violation | finding: `EveryStreamReplays` |
| `fork_inside` | 2 branches, one patch of two operations, 8 events | violation | finding: `ForksKeepPatchesWhole` |
| `resume` | as `factory` | violation | finding: `ResumesWhereItStopped` |
| `second_round` | as `factory` | violation | finding: `AcceptedCorrectionsAreApplied` |

`EventStore`, `CommandProtocol`, `SQLiteTransaction`, `EditorialStream` and `FactoryDesks` have their
type invariants checked too, in one run each. Why the bounds are enough: two processes or connections make
every pairwise race, and a third adds only a second rival that the first already is to it, as every
check of the store is against the tables alone; the proofs below do not bound them. In the run of
`CommandProtocol` the ids bound the number of commits (a handler waits when none are left; it can
still crash, so no deadlock is reported and none is hidden). Three blocks are the least in which a
move under a descendant, a delete of a parent and an insert under a new block meet in one patch; the
event bound leaves room for two authors' events, a patch of two operations with an invalidation, and
one event more. In `derived` the seven events are a creation, a block, two or three dependencies, an
edit with its invalidations and, on the fork, its first commit.

The scenarios of `factory`: *Alone*, each desk by itself with two flaws, one crash anywhere and two
signatures, and once with a text whose second flaw shows only when the first is corrected; *Together*, both desks doing everything with one flaw and two signatures; *Deciding*, both
reviewing and deciding two flaws; *Reviewing*, one desk reviewing while the other goes all the way;
*Mistaken*, the command line with another text, another editor and the hash of another project. Two flaws
are the least in which some decisions of a call are stored and others are not, in which a correction
leaves a flaw that comes back under a new id, and in which two desks differ on one finding and agree on
the other. One crash suffices because a dead call leaves no memory but the log and the files; the proofs
bound none of this. The number of calls is not bounded at all, and deadlock is checked.

The instances of `review_desk`: three plugins of different categories that require each other in every
possible way (cycles included), with reviewers that each of them and the project may ask for in several
orders and twice, and nine ways in which a plugin may be amiss, with a `RecursionLimit` of 4, just
what the longest acyclic chain needs; all texts of up to five tokens in the first block beside three second blocks,
with one reviewer of each kind and thresholds of two and three, so that each threshold is missed by one
and met; every pair of single edits on a block of three characters, with empty, equal, touching and
crossing ones, a finding of two edits, one of another block, stale and rejected ones; books of four blocks
in every forest with equal and different positions, one block drafted or none, and one command in between
(`MaxChanges`).

`CHECK_DEADLOCK FALSE` stands where the bounds or the finite ids let the instance stop: `store`, the runs
of `EditorialStream`, those of `SQLiteTransaction`, where every request may have been stored, and
`review_desk`, whose compositions, reviews and rounds end.

### Fairness
Only `SQLiteTransaction!FairSpec` assumes any: weak fairness of `Step(p)`, that is, a call in
progress goes on or raises, and a connection whose call raised is closed by its caller. The calls are
straight-line code without loops over anything but the events of one commit, and every caller closes
in a `finally` clause or a `with` block (`src/web/app.py:681`, `P/composition.py:306`). No request has to be made, and a
crash is always possible. All else is safety under `[][Next]_vars`: nothing in the code makes an editor
decide or sign, or anybody start a phase again.

### Findings
* `unreplayable`: Add, Edit and RegisterDependency persist their event before anything asks whether it
  applies. `handlers.py:45`: the append comes first, the replay that raises afterwards. One block under
  a missing parent ends the stream: no handler but CreateBranch can pass it again.
* `fork_inside`: CreateBranch takes any version as its cutoff, one inside a commit too: the new branch
  has a part of an approved patch.
* `saved_twice`: two connections that save the same approval: one may get an IntegrityError although
  its approval is stored exactly as it gave it.
* `resume`: `EVIDENCE.md:86` of the pilot calls review, findings, decisions and approval resumable between
  processes. A process that dies between the patch and the form cannot be followed by the same prepare:
  its decisions are of findings the corrected text does not have. A new review and a prepare with the
  decisions of what *that* finds (none, if all was accepted) gets the form.
* `second_round`: `EDITORIAL_TRES_FINAL_PRODUCT_EXPERIENCE.md:282` says that an accepted finding can feed a
  pass that transforms the text. The key of the patch is a constant (`private_factory.py:828`), so a work
  takes one: what a review of the corrected text finds and the editor accepts is stored as accepted and
  refused as a patch, now and whenever the same decisions are brought again.

## 5. What is proved

TLAPS checks all of this from the assumptions named in the modules: ids, keys, streams and the like
do not contain `None`; commands are well typed and a key belongs to one command type; requests are
well typed; resources are finitely many, block ids among them; `FactoryAssumption`, `DeskAssumption` and
`NoneAssumption` type the flaws and the scenarios and keep `None` and `Torn` apart from what files hold;
`ProjectAssumption` types the manifests and `ReviewersAssumption` the texts and reviewers, as the
validators of `reviews.py` do; `CorrectionsAssumption` and `ViewsAssumption` type rounds, books
and queries, a round having finitely many edits and a book finitely many blocks. No other set is assumed finite, and none to have a particular
size: the number of flaws, desks, signatures and crashes is free.

**EventStore.** `StoreTypeCorrect`, `StreamsStayChains`, `EventsStayNumbered`, `IdsStayUnique`,
`KeysStayTrue`, `StoreAppendsOnly`. `StreamsAreChains` is inductive with the types: a stream's row
names its last commit, so the two checks an append passes (parent is the head, versions are next)
extend the chain. `EventsAreNumbered` follows from it through the fold in `get_events`; `IdsAreUnique`
needs that stored ids are checked over *all* streams and inside the commit; `KeysNameTheirCommit` is
inductive alone.

**CommandProtocol.** `TypeCorrect`, `NoLostUpdate`, `CommandsTakeEffectOnce`, `AnswersStayTrue`,
`ViewsStayWhole`, `ForksStayCopies`, `HandlersAreSerial`. The inductive invariant
`HandlersInv` adds to the types and the chains what a handler carries from its reads to its write: the
commits it replayed are still a prefix of the stream, and its draft continues *their* last version. An
append that the store accepts has the version after the head's, so the prefix has the stream's last
version; in a chain versions grow, so the prefix is the whole stream. That is why the handlers need
no lock although head and stream are read apart. `ProtocolInv` adds, for the next four, what a handler
knows of its key and its draft: that an answer, a key and a commit with that key name one another, that
a projection is a replay of a prefix of its stream, and that the draft of a fork copies a prefix of a
source that can only grow. `HandlersAreSerial`, the refinement of `SerialCommands`, needs `SerialInv`: of
what a handler decided on (`DecidedOn`), that the stream it replayed had the version its command names,
and that its draft is what the command asks for. When the append is accepted, what was decided on is
still so, and the five calls amount to one step at that moment; a lookup that finds the key amounts to
one step too, and all other calls to none.

**SQLiteTransaction.** `TransactionsTypeCorrect`, `StatementsImplementStore`, `ApprovalsStandForEver`,
`TransactionsKeepChains`. The invariant `Progress(p)` says for each statement what the connection has
checked and what it has put aside: after n events exactly the append with n events. It is stable under
the others' steps because they change neither the tables nor the changes aside without the lock. At
COMMIT it says that what gets published is one accepted append, or one approval whose id has no row.

**EditorialStream.** `StreamsTypeCorrect` and `NothingIsOrphaned`. The invariant is about the streams
only (`StreamsHoldEvents`: every commit has an event, all are well formed); that every replay of
well-formed events gives a *sound* work (`SoundWork`: parents exist, texts are not blank) or raises
is a lemma by induction over the replay. So `NoOrphans` depends on no handler's checks but on
`Work.apply` alone.

`DecisionsStayCurrent` rests on `HistoriesHold`: along a stream the manuscript revision of a replay
only grows, and a decision was stored on the replay it was checked against.

`PatchesApplyAsApproved`, `PatchesTieNoCircles` and `ChangesInvalidateDependents` rest on
`CommitsAreExplained`: of every commit in every stream, forks included, that it was made from the replay of
what stands before it, and how. Three lemmas carry the weight. `PatchReplays`: the events planned by a
patch that passed validation, appended to the stream, replay to the blocks that the validation
computed operation by operation, with the invalidations last; the plan and the replay walk the
operations in different state, so the induction relates the two after every event.
`AcyclicAreForests`: where no block is among those above its parent, walking up from any block ends
at a root, since a walk longer than the number of blocks would visit one twice. `DependentsAreClosed`:
the rounds of `TransitiveDependents` suffice, because each round that reaches a new block uses up a
dependency; so whatever depends on a changed block, through any chain or circle, is reached.

**Factory.** `StoredHistoryReplays`, `PatchesFollowDecisions`, `ApprovalIsOfASettledText`,
`ExportsAreTheApprovedEdition`, `PapersTellTheTruth`, `DesksAreTyped`, `StatusOnlyAdvances` and
`DesksKeepThePromise`, the refinement of `EditionPromise`. All rest on one invariant, `FactoryInv`. Its idea is that the log only
grows, so that what a call has *read* stays true of a prefix, and what it must still *check* is whether
its prefix is the whole. `CallGood` says what a call in hand knows at each place: where its works are
(`Placed`), which findings of its text are stored (`Records`), that the decisions it brought and has
passed are the stored ones, its own or equal (`Decides`), at which revision it may patch (`Applies`), what
its form stands for (`Publishes`). The last is the delicate one: `publish` reads the work before the
history, so that findings may be recorded and decided in between. It is safe because a form exists only
for a version that was prepared (`FormStands`), at which nothing accepted is left unapplied, and because
the history that is read later holds all that is recorded in the approved prefix: if nothing is open in
the former, nothing of the latter is, and a decision is never undone. `WriteGood` and `PapersGood` say the same of the files: which of an operation are there before the
one being written, and that what is in them is stored. `LogInv` makes the log replayable, `ApprovalInv`
settles the approved version. `StatusOnlyAdvances` adds `FormsFollowExports`: a form is marked approved only
when the exports have been written, and no call takes a file away.

**PluginComposition.** `ComposedInOrder`, `PlansAgree` and `PlansExplain`. The first by `OrderInv`: of each frame of `visit`, what its plugin requires
is still to be visited, in the order, or being visited by the frame above it. A frame returns when
nothing is left, hence with all it requires in the order, and a plugin on a cycle cannot return at all;
so the order never holds a part of a cycle, whatever the recursion limit is. The other two by
`PlanInv`: what becomes active is the order, then the reviewers, and what is required is what the project
and the active genres and workflows ask for, each once. The plan gathers the genres first and the
activation takes them as they come, so the two lists differ only where a workflow that asks for
reviewers comes before a genre that does; as sets they never do, and the origins of an entry are all
who ask for it.

**Reviewers.** `ReviewersAreExact`, for any texts, engine, phrases and thresholds, and texts of any
length. `ReviewInv` says no more than that the findings so far are those of the reviewers that have run; the
work is in what one reviewer finds. `CountIsDisjoint`: the scan of `str.count`, which takes an occurrence
when it meets one and goes on after its end, counts as many as any choice that does not overlap, because
taking the first loses at most one of the others (`TakingIsBest`), so that a threshold is met exactly when
the text has that many. `LongestRunIsLongest`: after i sentences the loop holds the first of the longest
runs in them and where the run that ends there began (`Kept`). `ContinuityIsFound`: comparing the first
places of the markers of both sides finds every contradiction that comes after what it contradicts.
`LinesOfText`: the paragraphs the code keeps are all the stretches between line ends, each at the place
where it starts (`StretchIsLine`), so that counting those that say p counts the places where it stands as
a line; `ThemesOfStructure` is `CountIsDisjoint` again.
`SentencesAreOfTheText`: a sentence that is kept is a stretch without a stop (`StretchFrom`); the number of
stops before it is the same all over a stretch and grows from one to the next (`NumbersGrow`), and choosing
the starts by rank lists them in their order (`PlacesAscend`), so the n-th sentence that has words is the n-th
number that has some. Its words are then found place by place (`WordsAreRead`, `WordsOfStretch`).

**Corrections.** `AppliedAsReviewed`, `OverlapsAreArbitrated` and `RoundsAreWritten`. The first by
`ReviewedInv`: a work that still has the revision of the findings has the text they were made on, and
a patch that waits for its gate was proposed on it or no longer fits. The second needs that looking at
neighbours in the sort order finds every overlap (`SortedEditsDoNotMeet`), and that, that the sort key
is a strict order of the edits (`EditsAreOrdered`, from `AlphabeticalOrders`) and that `SortedBy` sorts
(`SortedBySorts`: ranks are different and below the number of elements). The third by `RoundInv` and
`AppliedIsWritten`, for every text and every set of edits that do not overlap: splicing an edit into a
text in which all later ones are written gives the text with one more written (`WriteOneMore`), because
no later edit has moved anything before its own start. Insertions at one place and an insertion where a
replacement begins are where the order of the sort key matters, and the lemma covers them.

**WorkViews.** `ContextsStayCurrent`, by `ViewsInv`: a memory or a context whose revision is the work's
is of the blocks as they stand, and what the retriever cuts off scores no better than what it keeps.
`VerifiedEditionsAreTheWork`, by `EditionInv`: a snapshot whose revision is still the work's lists the
publishable blocks as they stand, in reading order, and the checksums of a package are always those of the
snapshot, whatever has damaged the rest of it; a package that verifies therefore has the snapshot's
blocks and order. What is left is about the projector alone (`ReadingOrderIsReading`): where the list
its recursion makes is as long as there are blocks, which `project` checks, it has each of them once, a parent before what is
under it, siblings with what is under them in the order of their positions. Two facts about forests carry
it. What is above a block is the least set closed under parents (`AboveIsClosed`), so that no block under
the root is above its own parent (`RootedIsUnderNoCircle`); and two children of one block are not both
above a third (`WaysPart`), so that what the recursion puts in one place it puts nowhere else.

The lemmas of `SequenceLemmas` are what these proofs have in common: induction on the naturals in the
form the provers can use (a set that has 0 and every successor), that a recursive function over 0..n
exists and keeps what every step keeps (`RecursionExists`, `RecursionStays`), and what `FlattenSeq` does
with its elements and its order, that of a sorted sequence of sorted sequences included (`Ascends`).

### Model-checked only
`WritesEnd`, which is liveness and out of the prover's reach. The statements of the runs that
expect a violation are false of the code and have no proof.

## 6. Not modelled

* `create_project` and the index `projects.json` of the web: one read and one write of one file, which no
  document promises to be safe. The hazard is listed. Downloads and `template.py` are output.
* The Spanish rules of `grammar.py` and `proofreading.py`, the segmentation of `text_analysis.py` beyond
  reading order and staleness, and `llm_repetition.py`: regular expressions over prose and a model's
  answers. What they find is a constant of the factory (`Flaws`, for every set of corrected flaws) and
  given with the rounds of `Corrections`. Two rounds of the factory's patch are told apart by their
  versions alone, and `SettledVersions` asks for the corrections of the first only: those of a second
  cannot be applied (run `second_round`), and where a rival has accepted one, a desk that reads the work
  again after its own patch may get, and publish, an edition without it.
* The parser of manuscripts: in the factory a text is its hash and its flaws.
* The fields of behaviors in plugin manifests, the freezing of the registry, `deactivate`.
* Editorial and author memories, which are cut to a length and handed on; knowledge and narrative nodes
  and graphs, which no event creates.
* Renderers and the LLM adapter: output only.
* `tools/verify_active_task.py`: a script of the repository's own housekeeping, without state.
* The read model of a process after a restart: nothing reads it to decide anything.
* Reviewer ids that are blank and the field validators of App Books, which refuse more than the models do.
* The refusal of a correction whose block is gone (`editorial_passes.py:253`): a deletion makes another
  manuscript version, which is refused before.
* A `parent_id` that is the empty string, which the code treats in some places as none.
* Page layout, metadata and visual assets of an App Book.
