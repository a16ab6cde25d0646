------------------------------ MODULE MCFactory ------------------------------
(***************************************************************************)
(* FactoryDesks for TLC: a console and a command line on one work.         *)
(***************************************************************************)
EXTENDS FactoryDesks, TLC

CONSTANTS console, cli, short, long, layered, a1, a2

MCDesk == {console, cli}

\* The short text has one flaw, the long one two; in the layered one the second
\* shows when the first is corrected.
MCFlaws ==
  (short :> [c \in SUBSET Flaw |-> {1} \ c])
  @@ (long :> [c \in SUBSET Flaw |-> {1, 2} \ c])
  @@ (layered :> [c \in SUBSET Flaw |-> IF 1 \in c THEN {2} \ c ELSE {1}])

Both(x) == [d \in MCDesk |-> x]
OneText(s) == Both({s})

\* Two flaws and one process at a time that may die once.
Alone(d, s) ==
  [manuscript |-> OneText(s), expected |-> Both(None), operator |-> Both({a1}),
   duties |-> (d :> Operation) @@ Both({}), clicks |-> 2, crashes |-> 1]

\* One flaw and two desks that do everything.
Together ==
  [manuscript |-> OneText(short), expected |-> Both(None), operator |-> Both({a1}),
   duties |-> Both(Operation), clicks |-> 2, crashes |-> 0]

\* Two flaws, and two desks that review and decide.
Deciding ==
  [manuscript |-> OneText(long), expected |-> Both(None), operator |-> Both({a1}),
   duties |-> Both({"review", "prepare"}), clicks |-> 0, crashes |-> 0]

\* Two flaws, and a desk that only reviews while the other does everything.
Reviewing ==
  [manuscript |-> OneText(long), expected |-> Both(None), operator |-> Both({a1}),
   duties |-> (cli :> {"review"}) @@ Both(Operation), clicks |-> 1, crashes |-> 0]

\* The command line has another text or another editor from time to time.
Mistaken ==
  [manuscript |-> (cli :> {short, long}) @@ OneText(short),
   expected |-> (cli :> short) @@ Both(None),
   operator |-> (cli :> {a1, a2}) @@ Both({a1}),
   duties |-> (cli :> Operation) @@ Both({"review"}), clicks |-> 1, crashes |-> 0]

MCScenario ==
  {Alone(console, long), Alone(cli, long), Alone(cli, layered),
   Together, Deciding, Reviewing, Mistaken}

==============================================================================
