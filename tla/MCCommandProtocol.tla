-------------------------- MODULE MCCommandProtocol --------------------------
(***************************************************************************)
(* The handlers for TLC: two processes and small sets of commands.         *)
(***************************************************************************)
EXTENDS CommandProtocol

CONSTANTS main, fork

Command(kind, stream, idem, expected, source, cutoff) ==
  [kind |-> kind, stream |-> stream, key |-> <<kind, idem>>,
   expected |-> expected, source |-> source, cutoff |-> cutoff]

MCStream == {main, fork}

\* Updates that race for one version with the same and with different keys, a
\* key used again with another payload, and a second update after the first; two
\* forks of different cutoffs, one inside a commit, under one key, while the
\* source is created and grows, and an update of the branch that fits some of them.
Race ==
  {Command("create", main, "k1", 0, main, 0),
   Command("update", main, "k1", 1, main, 0),
   Command("update", main, "k2", 1, main, 0),
   Command("update", main, "k2", 2, main, 0),
   Command("fork", fork, "k1", 0, main, 0),
   Command("fork", fork, "k1", 0, main, 2),
   Command("update", fork, "k1", 2, main, 0)}

MCKey == {p.key : p \in Payload}

ProcessSymmetry == Permutations(Process)

============================================================================
