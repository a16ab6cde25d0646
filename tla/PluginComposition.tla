-------------------------- MODULE PluginComposition --------------------------
(***************************************************************************)
(* From a project.yaml to a ReviewPlan: compose_project resolves the       *)
(* plugins of the project and orders them, activate_project_composition    *)
(* activates them in that order and then the reviewers they require, and   *)
(* ReviewPlanComposer works out once more which reviewers those are.       *)
(*                                                                         *)
(* Ids are numbered in alphabetical order.  The recursion of visit is a    *)
(* stack of frames, one step for each call and each return, so that what   *)
(* happens on a cycle of requires can be seen.                             *)
(***************************************************************************)
EXTENDS Integers, Sequences, FiniteSets

CONSTANTS
  Project,      \* the projects, each with the catalog of plugins it is composed from
  Category,     \* CATEGORY_PRIORITY
  RecursionLimit

VARIABLES
  project,      \* the one that is composed
  phase,        \* "resolve", "order", "activate", "require", "plan", "planned" or "failed"
  problem,      \* the exception, if it failed
  todo,         \* plugins of ordered_plugins the loop has not come to
  stack,        \* the calls of visit in progress
  order,        \* composition_order
  active,       \* activated_plugins, by id
  required,     \* required_reviewer_ids
  checked,      \* how many of them the activation has built
  plan          \* entries of the ReviewPlan

compositionVars ==
  <<project, phase, problem, todo, stack, order, active, required, checked, plan>>

\* A manifest.  executable: its behavior has what its type must declare; builds:
\* the factory of its implementation takes its parameters.
Manifest ==
  [type : {Category[i] : i \in DOMAIN Category}, requires : SUBSET Nat,
   compatible : [ids : SUBSET Nat, types : SUBSET {Category[i] : i \in DOMAIN Category}],
   reviewers : Seq(Nat), executable : BOOLEAN, builds : BOOLEAN]

ASSUME ProjectAssumption ==
  \A p \in Project :
    /\ p.asked \subseteq Nat /\ p.twice \subseteq Nat
    /\ p.reviewers \in Seq(p.asked)
    /\ DOMAIN p.catalog \subseteq Nat
    /\ \A i \in DOMAIN p.catalog : p.catalog[i] \in Manifest

ElementsOf(s) == {s[i] : i \in DOMAIN s}

\* _ordered_unique.
OrderedUnique(s) ==
  LET new == {i \in DOMAIN s : \A j \in 1..(i-1) : s[j] # s[i]}
  IN [n \in 1..Cardinality(new) |->
        s[CHOOSE i \in new : Cardinality(new \cap 1..i) = n]]

Plugin(id) == project.catalog[id]
Known(id) == id \in DOMAIN project.catalog
Requires(id) == Plugin(id).requires

----------------------------------------------------------------------------
(* compose_project *)

\* discover_plugins finds ids that two plugin.yaml have; then registry.get for every
\* id of the project; then requires; then compatible_with.
Duplicate == project.twice # {}
NotFound == \E id \in project.asked : ~Known(id)
MissingDependency == \E id \in project.asked : ~(Requires(id) \subseteq project.asked)
Incompatible ==
  \E id \in project.asked : \E other \in project.asked \ {id} :
    LET allowed == Plugin(id).compatible IN
    /\ allowed # [ids |-> {}, types |-> {}]
    /\ other \notin allowed.ids /\ Plugin(other).type \notin allowed.types

Fail(why) ==
  /\ phase' = "failed" /\ problem' = why
  /\ UNCHANGED <<project, todo, stack, order, active, required, checked, plan>>

Resolve ==
  /\ phase = "resolve"
  /\ \/ Duplicate /\ Fail("duplicate")
     \/ ~Duplicate /\ NotFound /\ Fail("not found")
     \/ ~Duplicate /\ ~NotFound /\ MissingDependency /\ Fail("missing dependency")
     \/ /\ ~Duplicate /\ ~NotFound /\ ~MissingDependency /\ Incompatible
        /\ Fail("incompatible")
     \/ /\ ~Duplicate /\ ~NotFound /\ ~MissingDependency /\ ~Incompatible
        /\ phase' = "order" /\ todo' = project.asked
        /\ UNCHANGED <<project, problem, stack, order, active, required, checked, plan>>

\* By category, then by id.
RankOf(id) == CHOOSE i \in DOMAIN Category : Category[i] = Plugin(id).type
Precedes(p, q) == RankOf(p) < RankOf(q) \/ (RankOf(p) = RankOf(q) /\ p <= q)

Call(id) == [node |-> id, left |-> Requires(id)]

\* A call of visit on a plugin that is there already returns at once.
Entered(id, calls) == IF id \in ElementsOf(order) THEN calls ELSE Append(calls, Call(id))

\* for p in ordered_plugins: visit(p.id)
VisitNext ==
  /\ phase = "order" /\ stack = <<>> /\ todo # {}
  /\ \E p \in todo :
       /\ \A q \in todo : Precedes(p, q)
       /\ todo' = todo \ {p}
       /\ stack' = Entered(p, stack)
  /\ UNCHANGED <<project, phase, problem, order, active, required, checked, plan>>

Top == stack[Len(stack)]
Below == SubSeq(stack, 1, Len(stack) - 1)

\* for dep in sorted(deps_graph[node]): visit(dep), to whatever depth it takes.
VisitDependency ==
  /\ phase = "order" /\ stack # <<>> /\ Top.left # {}
  /\ \/ Len(stack) >= RecursionLimit /\ Fail("recursion")
     \/ /\ Len(stack) < RecursionLimit
        /\ \E d \in Top.left :
             /\ \A e \in Top.left : d <= e
             /\ stack' = Entered(d, Append(Below, [node |-> Top.node, left |-> Top.left \ {d}]))
        /\ UNCHANGED <<project, phase, problem, todo, order, active, required, checked, plan>>

\* The plugin comes before what it requires.
ReturnEarly ==
  /\ phase = "order" /\ stack # <<>>
  /\ stack' = Below
  /\ order' = Append(order, Top.node)
  /\ UNCHANGED <<project, phase, problem, todo, active, required, checked, plan>>

\* The end of visit.
Return ==
  /\ phase = "order" /\ stack # <<>> /\ Top.left = {}
  /\ stack' = Below
  /\ order' = Append(order, Top.node)
  /\ UNCHANGED <<project, phase, problem, todo, active, required, checked, plan>>

Ordered ==
  /\ phase = "order" /\ stack = <<>> /\ todo = {}
  /\ phase' = "activate"
  /\ UNCHANGED <<project, problem, todo, stack, order, active, required, checked, plan>>

----------------------------------------------------------------------------
(* activate_project_composition *)

\* PluginRuntime.activate validates the behavior of the plugin.
Activate ==
  /\ phase = "activate" /\ Len(active) < Len(order)
  /\ LET id == order[Len(active) + 1] IN
     \/ ~Plugin(id).executable /\ Fail("behavior")
     \/ /\ Plugin(id).executable
        /\ active' = Append(active, id)
        /\ UNCHANGED <<project, phase, problem, todo, stack, order, required, checked, plan>>

\* What the plugins of a type require, in their order of activation.
RequiredBy(types) ==
  LET from[i \in 0..Len(active)] ==
        IF i = 0 THEN <<>>
        ELSE IF Plugin(active[i]).type \in types THEN from[i-1] \o Plugin(active[i]).reviewers
        ELSE from[i-1]
  IN from[Len(active)]

\* Without what the project asks for itself.
RequiredReviewersOfPlugins == OrderedUnique(RequiredBy({"genre", "workflow"}))

\* _required_reviewer_ids: one walk over the activated plugins.
RequiredReviewers ==
  OrderedUnique(project.reviewers \o RequiredBy({"genre", "workflow"}))

Require ==
  /\ phase = "activate" /\ Len(active) = Len(order)
  /\ phase' = "require"
  /\ required' = RequiredReviewers
  /\ UNCHANGED <<project, problem, todo, stack, order, active, checked, plan>>

\* One required reviewer: found in the catalog, activated if it was not part of the
\* composition (whatever it requires and is compatible with), and built.
ActivateReviewer ==
  /\ phase = "require" /\ checked < Len(required)
  /\ LET id == required[checked + 1] IN
     \/ ~Known(id) /\ Fail("required reviewer not found")
     \/ Known(id) /\ ~Plugin(id).executable /\ Fail("behavior")
     \/ Known(id) /\ Plugin(id).executable /\ Plugin(id).type # "reviewer" /\ Fail("not a reviewer")
     \/ /\ Known(id) /\ Plugin(id).executable /\ Plugin(id).type = "reviewer"
        /\ ~Plugin(id).builds /\ Fail("cannot be built")
     \/ /\ Known(id) /\ Plugin(id).executable /\ Plugin(id).type = "reviewer" /\ Plugin(id).builds
        /\ active' = IF id \in ElementsOf(active) THEN active ELSE Append(active, id)
        /\ checked' = checked + 1
        /\ UNCHANGED <<project, phase, problem, todo, stack, order, required, plan>>

Activated ==
  /\ phase = "require" /\ checked = Len(required)
  /\ phase' = "plan"
  /\ UNCHANGED <<project, problem, todo, stack, order, active, required, checked, plan>>

----------------------------------------------------------------------------
(* ReviewPlanComposer.compose *)

\* The project, then all the genres, then all the workflows.
Reconciled ==
  OrderedUnique(project.reviewers \o RequiredBy({"genre"}) \o RequiredBy({"workflow"}))

Origin(kind, id) == [kind |-> kind, source |-> id]
ProjectOrigin == Origin("project", 0)

AllOrigins(id) ==
  {ProjectOrigin : i \in {j \in DOMAIN project.reviewers : project.reviewers[j] = id}}
  \cup {Origin(Plugin(s).type, s) : s \in
          {s \in ElementsOf(active) : /\ Plugin(s).type \in {"genre", "workflow"}
                                      /\ id \in ElementsOf(Plugin(s).reviewers)}}

\* Only what asked for it first.
FirstOrigins(id) ==
  IF ProjectOrigin \in AllOrigins(id) THEN {ProjectOrigin} ELSE AllOrigins(id)

\* add_requirement keeps every origin, each once.
Origins(id) == AllOrigins(id)

ComposePlan ==
  /\ phase = "plan"
  /\ \/ Reconciled # required /\ Fail("disagreement")
     \/ Reconciled = required /\ required = <<>> /\ Fail("no reviewers")
     \/ /\ Reconciled = required /\ required # <<>>
        /\ phase' = "planned"
        /\ plan' = [n \in DOMAIN required |->
                      [order |-> n, reviewer |-> required[n], origins |-> Origins(required[n])]]
        /\ UNCHANGED <<project, problem, todo, stack, order, active, required, checked>>

----------------------------------------------------------------------------

CompositionInit ==
  /\ project \in Project
  /\ phase = "resolve" /\ problem = "none"
  /\ todo = {} /\ stack = <<>> /\ order = <<>>
  /\ active = <<>> /\ required = <<>> /\ checked = 0
  /\ plan = <<>>

CompositionNext ==
  \/ Resolve
  \/ VisitNext \/ VisitDependency \/ Return \/ Ordered
  \/ Activate \/ Require \/ ActivateReviewer \/ Activated
  \/ ComposePlan

CompositionSpec == CompositionInit /\ [][CompositionNext]_compositionVars

----------------------------------------------------------------------------
(* Properties *)

\* What a plugin requires is composed, and later activated, before it, and each
\* plugin of the project once, whatever the catalog requires; a cycle never gets a
\* plugin in without what it requires.
DependenciesFirst ==
  /\ \A i, j \in DOMAIN order : order[i] = order[j] => i = j
  /\ \A i \in DOMAIN order : Requires(order[i]) \subseteq {order[j] : j \in 1..(i-1)}
  /\ phase \in {"activate", "require", "plan", "planned"} => ElementsOf(order) = project.asked

\* Genres come before the workflows, among those that require reviewers.
GenresBeforeWorkflows ==
  \A i, j \in DOMAIN active :
    /\ Plugin(active[i]).type = "workflow" /\ Plugin(active[i]).reviewers # <<>>
    /\ Plugin(active[j]).type = "genre" /\ Plugin(active[j]).reviewers # <<>>
    => j < i

\* Two operators work out the required reviewers, one for activation and one for the
\* plan.  A composition that was activated gets its plan, unless it has no
\* reviewers or a requires turned genre and workflow round.
PlannedAsActivated ==
  /\ problem = "disagreement" => ~GenresBeforeWorkflows
  /\ problem = "no reviewers" => project.reviewers = <<>>

\* The plan says of each reviewer why it is there, and all that is why: an entry for
\* each that is required, whose origins are exactly the project, genre and workflow
\* that require it, each of them activated.
PlanExplains ==
  phase = "planned" =>
    /\ {plan[n].reviewer : n \in DOMAIN plan} = ElementsOf(project.reviewers) \cup
         UNION {ElementsOf(Plugin(s).reviewers) : s \in
                  {s \in project.asked : Plugin(s).type \in {"genre", "workflow"}}}
    /\ \A n \in DOMAIN plan :
         /\ plan[n].origins # {}
         /\ \A s \in project.asked : Plugin(s).type \in {"genre", "workflow"} =>
              (Origin(Plugin(s).type, s) \in plan[n].origins
                 <=> plan[n].reviewer \in ElementsOf(Plugin(s).reviewers))
         /\ ProjectOrigin \in plan[n].origins
              <=> plan[n].reviewer \in ElementsOf(project.reviewers)

==============================================================================
