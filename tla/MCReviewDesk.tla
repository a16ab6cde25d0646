---------------------------- MODULE MCReviewDesk ----------------------------
(***************************************************************************)
(* The parts of the review that share no state, for TLC: a run of the      *)
(* program is at one of them, and the others are off.                      *)
(***************************************************************************)
EXTENDS PluginComposition, Reviewers, Corrections, WorkViews

vars == <<compositionVars, reviewVars, correctionVars, viewVars>>

Off == "off"

CompositionOff ==
  /\ project = CHOOSE p \in Project : TRUE
  /\ phase = Off /\ problem = "none"
  /\ todo = {} /\ stack = <<>> /\ order = <<>>
  /\ active = <<>> /\ required = <<>> /\ checked = 0 /\ plan = <<>>

ReviewOff == content = <<>> /\ done = Len(Engine) /\ findings = {}

CorrectionsOff ==
  /\ work = [text |-> <<>>, version |-> 1, revision |-> 1] /\ seen = work
  /\ round = <<>> /\ patch = None /\ gate = None /\ outcome = Off

ViewsOff ==
  /\ manuscript = [blocks |-> <<>>, published |-> FALSE, version |-> 1, revision |-> 1]
  /\ session = Off
  /\ approval = Absent /\ snapshot = Absent /\ package = Absent
  /\ memory = Absent /\ context = Absent /\ used = Absent
  /\ changes = MaxChanges

MCInit ==
  \/ CompositionInit /\ ReviewOff /\ CorrectionsOff /\ ViewsOff
  \/ CompositionOff /\ ReviewInit /\ CorrectionsOff /\ ViewsOff
  \/ CompositionOff /\ ReviewOff /\ CorrectionsInit /\ ViewsOff
  \/ CompositionOff /\ ReviewOff /\ CorrectionsOff /\ ViewsInit

MCNext ==
  \/ CompositionNext /\ UNCHANGED <<reviewVars, correctionVars, viewVars>>
  \/ RunReviewer /\ UNCHANGED <<compositionVars, correctionVars, viewVars>>
  \/ CorrectionsNext /\ UNCHANGED <<compositionVars, reviewVars, viewVars>>
  \/ ViewsNext /\ UNCHANGED <<compositionVars, reviewVars, correctionVars>>

MCSpec == MCInit /\ [][MCNext]_vars

----------------------------------------------------------------------------
(* Projects: a genre (1), a style (4) and a workflow (5) that require each     *)
(* other in every way, and reviewers (2, 3) that all of them may ask for.      *)

MCCategory ==
  <<"editorial", "genre", "voice", "narrator", "research_method", "workflow", "style",
    "reviewer", "visual", "visual_type", "visual_style", "output">>

MCRecursionLimit == 4

MCPlugin(type, requires, compatible, reviewers, executable, builds) ==
  [type |-> type, requires |-> requires, compatible |-> compatible, reviewers |-> reviewers,
   executable |-> executable, builds |-> builds]

Sound(type, requires, reviewers) == MCPlugin(type, requires, [ids |-> {}, types |-> {}], reviewers, TRUE, TRUE)

Catalog(needs, genre, workflow) ==
  [i \in 1..5 |->
     CASE i = 1 -> Sound("genre", needs[1], genre)
       [] i = 4 -> Sound("style", needs[4], <<>>)
       [] i = 5 -> Sound("workflow", needs[5], workflow)
       [] OTHER -> Sound("reviewer", {}, <<>>)]

Composed(catalog, reviewers) ==
  [asked |-> {1, 4, 5} \cup {reviewers[i] : i \in DOMAIN reviewers}, twice |-> {},
   reviewers |-> reviewers, catalog |-> catalog]

Needs == {n \in [{1, 4, 5} -> SUBSET {1, 3, 4, 5}] : \A i \in {1, 4, 5} : i \notin n[i]}
Asked == {<<>>, <<2>>, <<3, 2, 3>>}
Plainly == [i \in {1, 4, 5} |-> {}]

\* Something is wrong with one plugin of an otherwise sound project.
Amiss(p) ==
  {[p EXCEPT !.twice = {4}],
   [p EXCEPT !.asked = @ \cup {6}],
   [p EXCEPT !.catalog = [i \in {1, 3, 4, 5} |-> @[i]], !.asked = {1, 4, 5}, !.reviewers = <<>>],
   [p EXCEPT !.catalog[4].compatible.types = {"genre"}],
   [p EXCEPT !.catalog[4].compatible = [ids |-> {5}, types |-> {"genre", "reviewer"}]],
   [p EXCEPT !.catalog[4].executable = FALSE],
   [p EXCEPT !.catalog[2].executable = FALSE],
   [p EXCEPT !.catalog[2].type = "visual"],
   [p EXCEPT !.catalog[2].builds = FALSE]}

MCProject ==
  {Composed(Catalog(n, g, w), r) : n \in Needs, g \in Asked, w \in Asked, r \in Asked}
  \cup UNION {Amiss(Composed(Catalog(Plainly, g, w), <<>>)) : g \in Asked, w \in Asked}

----------------------------------------------------------------------------
(* Texts of two blocks, and one reviewer of each kind.                         *)

CONSTANTS Word1, Word2

MCText ==
  LET tokens == {Word1, Word2, Stop, Break} IN
  {<<t, u>> : t \in UNION {[1..n -> tokens] : n \in 0..5},
              u \in {<<>>, <<Word1>>, <<Word2, Word1, Stop, Word2, Stop>>}}

MCEngine ==
  <<[kind |-> "repeated_phrase", phrase |-> <<1, 1>>, minimum |-> 2],
    [kind |-> "cross_block", phrases |-> {<<1>>, <<2, 1>>}, minimum |-> 3, blocks |-> 2],
    [kind |-> "voice_drift", markers |-> {<<1, 2>>, <<2>>}, minimum |-> 2],
    [kind |-> "continuity", rule |-> "rule", established |-> {<<1, 2>>, <<2, 2>>},
     conflicting |-> {<<2, 1>>}],
    [kind |-> "structural", phrases |-> {<<2>>}, minimum |-> 3],
    [kind |-> "rhythm", short |-> 1, long |-> 2, shortRun |-> 2, longRun |-> 2,
     uniform |-> 3, range |-> 0, opening |-> 1, openings |-> 2]>>

----------------------------------------------------------------------------
(* Corrections of a block of three characters, and one of a second block.      *)

MCManuscript == {<<(<<1, 2, 3>>), (<<4, 5>>)>>}
MCRewriting == {<<1, 7, 3>>, <<1, 2, 3>>}

\* One edit of the first block, with as much of the text around it as there is.
Around(e, about, accepted) ==
  LET s == IF e.start = 0 THEN 0 ELSE e.start - 1
      t == IF e.end = 3 THEN 3 ELSE e.end + 1
  IN Item(1, s, t, Slice(<<1, 2, 3>>, s, t), {e}, about, accepted)

SingleEdits ==
  {Edit(s, e, x) : s \in 0..3, e \in 0..3, x \in {<<>>, <<8>>, <<9>>, <<1>>}}

MCEdits == {e \in SingleEdits : e.start <= e.end /\ e.inserted # Slice(<<1, 2, 3>>, e.start, e.end)}

\* Two edits of one proposal, and one of the other block.
TwoEdits == Item(1, 0, 3, <<1, 2, 3>>, {Edit(0, 1, <<8, 9>>), Edit(2, 3, <<>>)}, 1, TRUE)
Elsewhere == Item(2, 0, 2, <<4, 5>>, {Edit(1, 1, <<8>>)}, 1, TRUE)

MCRound ==
  {<<>>}
  \cup {<<Around(e, 1, a)>> : e \in {Edit(1, 2, <<8>>), Edit(0, 0, <<9>>)}, a \in BOOLEAN}
  \cup {<<[Around(Edit(1, 2, <<8>>), 1, TRUE) EXCEPT !.proposed = p, !.spread = s]>> :
          p \in BOOLEAN, s \in BOOLEAN}
  \cup {<<Around(e, 1, TRUE), Around(f, 1, TRUE)>> : e \in MCEdits, f \in MCEdits}
  \cup {<<TwoEdits, Around(e, 1, TRUE), Elsewhere>> : e \in MCEdits}
  \cup {<<Around(e, v, a), Elsewhere>> : e \in {Edit(1, 2, <<8>>)}, v \in {0, 1}, a \in BOOLEAN}

----------------------------------------------------------------------------
(* Books of four blocks, in every shape that puts the second at the top or     *)
(* under the first.                                                            *)

Forest(parent) ==
  \A b \in 1..4 : LET up[n \in 0..4] == IF n = 0 THEN b ELSE IF up[n-1] = 0 THEN 0 ELSE parent[up[n-1]]
                  IN up[4] = 0

Shapes == {p \in [1..4 -> 0..4] : p[1] = 0 /\ p[2] \in {0, 1} /\ Forest(p)}
Positions == {[b \in 1..4 |-> 0], [b \in 1..4 |-> IF b = 1 THEN 1 ELSE 0]}

MCBook ==
  {[blocks |-> [b \in 1..4 |-> [parent |-> parent[b], position |-> position[b],
                                content |-> "b", approved |-> b # draft]],
    published |-> TRUE, at |-> "edition"] :
     parent \in Shapes, position \in Positions, draft \in {0, 4}}
  \cup
  {[blocks |-> [b \in 1..3 |-> [parent |-> IF b = 2 THEN 1 ELSE 0, position |-> 0,
                                content |-> c[b], approved |-> FALSE]],
    published |-> FALSE, at |-> s] :
     c \in [1..3 -> {"a", "b", ""}], s \in {"edition", "memory"}}

MCWording == {"z"}
MCQuery ==
  {[words |-> {"a"}, targets |-> {3}, limit |-> 2], [words |-> {"b"}, targets |-> {}, limit |-> 1]}

==============================================================================
