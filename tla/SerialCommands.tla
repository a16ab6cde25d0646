--------------------------- MODULE SerialCommands ---------------------------
(***************************************************************************)
(* What the handlers promise to those who send commands: every command is  *)
(* carried out in one step, at most once, on the work as it is at that     *)
(* step, and is answered by what it did.  There are no processes here, no  *)
(* snapshots, no heads and no version checks of a store: the version of a  *)
(* work is the number of its events.                                       *)
(*                                                                         *)
(* CommandProtocol implements this module.                                 *)
(***************************************************************************)
EXTENDS Integers, Sequences, SequencesExt

CONSTANTS
  Payload,      \* the commands
  None          \* no source

VARIABLES
  log,          \* the commits of each stream
  keys,         \* the commands carried out, each under its stream and key
  answers       \* the results given: [command, commit]

serialVars == <<log, keys, answers>>

\* The events of a list of commits, in order.
EventsOf(commits) == FlattenSeq([i \in DOMAIN commits |-> commits[i].events])

\* A work begins with one event.
Creates(p, c) ==
  /\ p.kind = "create"
  /\ log[p.stream] = <<>>
  /\ c.source = None
  /\ Len(c.events) = 1 /\ c.events[1].version = 1

\* An update continues the work it was made for, at the version it names.
Updates(p, c) ==
  /\ p.kind = "update"
  /\ log[p.stream] # <<>>
  /\ Len(EventsOf(log[p.stream])) = p.expected
  /\ c.source = None
  /\ \A i \in DOMAIN c.events : c.events[i].version = p.expected + i

\* A branch begins with the events of its source up to the cutoff, or with all
\* that the source had at some moment: it goes on while it is copied.
Forks(p, c) ==
  /\ p.kind = "fork"
  /\ log[p.stream] = <<>>
  /\ c.source = p.source
  /\ \E n \in 0..Len(log[p.source]) :
       LET origin == EventsOf(SubSeq(log[p.source], 1, n)) IN
       /\ Len(c.events) = IF p.cutoff = 0 THEN Len(origin) ELSE p.cutoff
       /\ Len(c.events) <= Len(origin)
       /\ \A k \in DOMAIN c.events :
            c.events[k].origin = origin[k].id /\ c.events[k].version = k

\* A command that was not carried out yet makes the commit c and is filed.
CarriesOut(p, c) ==
  /\ ~ \E row \in keys : row.stream = p.stream /\ row.key = p.key
  /\ c.events # <<>>
  /\ Creates(p, c) \/ Updates(p, c) \/ Forks(p, c)
  /\ log' = [log EXCEPT ![p.stream] = Append(@, c)]
  /\ keys' = keys \cup {[stream |-> p.stream, key |-> p.key, payload |-> p, commit |-> c.id]}
  /\ UNCHANGED answers

\* The commit is the one that ends the stream afterwards.
Perform(p) == log'[p.stream] # <<>> /\ CarriesOut(p, Last(log'[p.stream]))

\* A command that was carried out is answered, as often as it is asked about.
Reply(p) ==
  /\ \E row \in keys :
       /\ row.stream = p.stream /\ row.key = p.key /\ row.payload = p
       /\ answers' = answers \cup {[command |-> p, commit |-> row.commit]}
  /\ UNCHANGED <<log, keys>>

SerialInit ==
  /\ \A s \in DOMAIN log : log[s] = <<>>
  /\ keys = {} /\ answers = {}

SerialNext == \E p \in Payload : Perform(p) \/ Reply(p)

SerialSpec == SerialInit /\ [][SerialNext]_serialVars

=============================================================================
