-------------------------- MODULE SQLiteTransaction --------------------------
(***************************************************************************)
(* SQLiteEventStore on one database file, from several connections: the    *)
(* statements of append_commit and of save_edition_approval one by one,    *)
(* any of which may raise, with a rollback or without, and a process that  *)
(* may die between any two.                                                *)
(*                                                                         *)
(* log, streams, keys and approvals are the tables as committed, what any  *)
(* other connection reads.  SQLite gives one connection at a time the      *)
(* write lock, at BEGIN IMMEDIATE or at the first write of a transaction,  *)
(* and keeps its changes apart until COMMIT; a connection that waits too   *)
(* long for the lock raises.  A row of the streams table without a commit  *)
(* is a stream of version 0 here.                                          *)
(***************************************************************************)
EXTENDS EventStore

CONSTANTS
  Connection,
  Request,      \* [stream, commit, key, payload] given to append_commit
  Approval      \* [id, content] given to save_edition_approval

ASSUME RequestAssumption ==
  /\ None \notin Connection
  /\ \A r \in Request : /\ r.stream \in Stream /\ r.commit \in Commit
                        /\ r.key \in Key \cup {None} /\ r.payload \in Payload
  /\ Request \cap Approval = {}

VARIABLES
  approvals,    \* edition_approvals table
  pc,           \* [Connection -> the statement it executes next]
  call,         \* [Connection -> Request \cup Approval \cup {None}]: the call in hand
  lock,         \* the connection with the write lock, or None
  dirty         \* the tables as that connection sees them, or None before it writes

tables == <<log, streams, keys, approvals>>
sqliteVars == <<log, streams, keys, approvals, pc, call, lock, dirty>>

Goto(p, label) == pc' = [pc EXCEPT ![p] = label]

\* What a connection that has written nothing would write on.
Committed == [log |-> log, streams |-> streams, keys |-> keys, approvals |-> approvals]

\* A write takes the lock unless its transaction has it.
TakeLock(p) == lock \in {None, p} /\ lock' = p

\* The lock is let go with the changes still there for the next one.
ReleaseLockOnly(p) ==
  /\ IF lock = p THEN lock' = None ELSE UNCHANGED lock
  /\ UNCHANGED dirty

\* Changes are dropped and the lock is let go; a connection that has no lock
\* has nothing to drop.
Release(p) ==
  IF lock = p THEN lock' = None /\ dirty' = None ELSE UNCHANGED <<lock, dirty>>

\* An except clause without its rollback.
RaiseUnrolled(p) ==
  /\ Goto(p, "open")
  /\ call' = [call EXCEPT ![p] = None]
  /\ UNCHANGED <<tables, lock, dirty>>

\* rollback(), and the exception goes to the caller.
RollBack(p) ==
  /\ Release(p)
  /\ Goto(p, "open")
  /\ call' = [call EXCEPT ![p] = None]
  /\ UNCHANGED tables

\* commit(): all the changes at once.
Publish(p) ==
  /\ log' = dirty.log /\ streams' = dirty.streams
  /\ keys' = dirty.keys /\ approvals' = dirty.approvals
  /\ lock' = None /\ dirty' = None

----------------------------------------------------------------------------
(* append_commit *)

\* BEGIN IMMEDIATE.  Without the lock it waits, then raises and rolls back nothing.
Begin(p, r) ==
  /\ pc[p] = "open"
  /\ \A i, j \in DOMAIN r.commit.events :
       r.commit.events[i].id = r.commit.events[j].id => i = j
  /\ lock = None /\ lock' = p
  /\ call' = [call EXCEPT ![p] = r]
  /\ Goto(p, "check")
  /\ UNCHANGED <<tables, dirty>>

\* The queries on commits, events, streams and idempotency_keys.
Check(p) ==
  LET r == call[p] IN
  /\ pc[p] = "check"
  /\ IF Accepts(r.stream, r.commit, r.key)
     THEN Goto(p, "commits") /\ UNCHANGED <<tables, call, lock, dirty>>
     ELSE RollBack(p)

\* INSERT INTO commits.
InsertCommit(p) ==
  LET r == call[p] IN
  /\ pc[p] = "commits"
  /\ dirty' = [Committed EXCEPT
       !.log[r.stream] = Append(@, [r.commit EXCEPT !.events = <<>>])]
  /\ Goto(p, "events")
  /\ UNCHANGED <<tables, call, lock>>

\* The commit row as inserted, with the events so far.
Inserted(p) == Last(dirty.log[call[p].stream])

\* INSERT INTO events, once for each event.
InsertEvent(p) ==
  LET r == call[p]
      n == Len(Inserted(p).events) IN
  /\ pc[p] = "events" /\ n < Len(r.commit.events)
  /\ dirty' = [dirty EXCEPT !.log[r.stream] = Append(Front(@),
       [Inserted(p) EXCEPT !.events = Append(Inserted(p).events, r.commit.events[n+1])])]
  /\ UNCHANGED <<tables, pc, call, lock>>

\* UPDATE streams that ends the transaction too early.
UpdateHeadAndCommit(p) ==
  LET r == call[p] IN
  /\ pc[p] = "events" /\ Len(Inserted(p).events) = Len(r.commit.events)
  /\ dirty' = [dirty EXCEPT
       !.streams[r.stream] = [head |-> r.commit.id, version |-> LastVersion(r.commit)]]
  /\ log' = dirty'.log /\ streams' = dirty'.streams
  /\ Goto(p, "keys")
  /\ UNCHANGED <<keys, approvals, call, lock>>

\* UPDATE streams.
UpdateHead(p) ==
  LET r == call[p] IN
  /\ pc[p] = "events" /\ Len(Inserted(p).events) = Len(r.commit.events)
  /\ dirty' = [dirty EXCEPT
       !.streams[r.stream] = [head |-> r.commit.id, version |-> LastVersion(r.commit)]]
  /\ Goto(p, "keys")
  /\ UNCHANGED <<tables, call, lock>>

\* INSERT INTO idempotency_keys, if there is a key.
InsertKey(p) ==
  LET r == call[p] IN
  /\ pc[p] = "keys"
  /\ dirty' = IF r.key = None THEN dirty
              ELSE [dirty EXCEPT !.keys =
                      @ \cup {KeyRowFor(r.stream, r.commit, r.key, r.payload)}]
  /\ Goto(p, "commit")
  /\ UNCHANGED <<tables, call, lock>>

----------------------------------------------------------------------------
(* save_edition_approval *)

Rows(id) == {a \in approvals : a.id = id}

\* SELECT, outside any transaction.  An approval that is there already is left
\* alone, and one of its id with another content raises: no step.
SelectApproval(p, a) ==
  /\ pc[p] = "open"
  /\ Rows(a.id) = {}
  /\ call' = [call EXCEPT ![p] = a]
  /\ Goto(p, "insert")
  /\ UNCHANGED <<tables, lock, dirty>>

\* An INSERT OR REPLACE.
ReplaceApproval(p) ==
  /\ pc[p] = "insert"
  /\ TakeLock(p)
  /\ dirty' = [Committed EXCEPT !.approvals = (@ \ Rows(call[p].id)) \cup {call[p]}]
  /\ Goto(p, "commit")
  /\ UNCHANGED <<tables, call>>

\* INSERT INTO edition_approvals opens a transaction and takes the lock.  When the
\* id has a row by now it raises, and the transaction stays open.
InsertApproval(p) ==
  /\ pc[p] = "insert"
  /\ TakeLock(p)
  /\ IF Rows(call[p].id) = {}
     THEN /\ dirty' = [Committed EXCEPT !.approvals = @ \cup {call[p]}]
          /\ Goto(p, "commit")
     ELSE UNCHANGED dirty /\ Goto(p, "refused")
  /\ UNCHANGED <<tables, call>>

----------------------------------------------------------------------------
(* Both *)

CommitTransaction(p) ==
  /\ pc[p] = "commit"
  /\ Publish(p)
  /\ Goto(p, "open")
  /\ call' = [call EXCEPT ![p] = None]

\* A statement of append_commit raises: the disk is full, a reader did not let the
\* commit through.
FailAppend(p) ==
  /\ pc[p] \in {"check", "commits", "events", "keys", "commit"} /\ call[p] \in Request
  /\ RollBack(p)

\* A statement of save_edition_approval raises, because the lock was another's or
\* otherwise.  Nothing rolls back: what was done stays in an open transaction.
FailApproval(p) ==
  /\ pc[p] \in {"insert", "commit"} /\ call[p] \in Approval
  /\ TakeLock(p) \/ UNCHANGED lock
  /\ Goto(p, "raised")
  /\ UNCHANGED <<tables, call, dirty>>

\* close() in the finally clause of every caller, and the connection of the next one.
Close(p) ==
  /\ pc[p] \in {"raised", "refused"}
  /\ RollBack(p)

\* The process dies; whoever opens the file next rolls its changes back.
Crash(p) ==
  /\ pc[p] # "open"
  /\ RollBack(p)

Init ==
  /\ StoreInit
  /\ approvals = {}
  /\ pc = [p \in Connection |-> "open"]
  /\ call = [p \in Connection |-> None]
  /\ lock = None /\ dirty = None

\* What a call in hand does next.
Step(p) ==
  \/ Check(p) \/ InsertCommit(p) \/ InsertEvent(p) \/ UpdateHead(p) \/ InsertKey(p)
  \/ InsertApproval(p)
  \/ CommitTransaction(p)
  \/ FailAppend(p) \/ FailApproval(p)
  \/ Close(p)

Next ==
  \E p \in Connection :
    \/ \E r \in Request : Begin(p, r)
    \/ \E a \in Approval : SelectApproval(p, a)
    \/ Step(p)
    \/ Crash(p)

Spec == Init /\ [][Next]_sqliteVars

\* A call is straight-line code: it goes on unless its process dies.
FairSpec == Spec /\ \A p \in Connection : WF_sqliteVars(Step(p))

----------------------------------------------------------------------------
(* Properties *)

\* The connections and what they have not committed yet.  Only the connection
\* with the lock has something uncommitted.
TypeOK ==
  /\ StoreTypeOK /\ approvals \subseteq Approval
  /\ pc \in [Connection -> {"open", "check", "commits", "events", "keys", "insert",
                            "commit", "raised", "refused"}]
  /\ call \in [Connection -> Request \cup Approval \cup {None}]
  /\ lock \in Connection \cup {None}
  /\ \/ dirty = None
     \/ /\ lock # None
        /\ dirty \in [log : [Stream -> Seq(Commit)],
                      streams : [Stream -> [head : CommitId \cup {None}, version : Nat]],
                      keys : SUBSET KeyRow, approvals : SUBSET Approval]

\* "BEGIN IMMEDIATE serializes appenders at the database boundary" (class
\* docstring): with every statement a step, rivals on other connections, failures
\* and crashes, what a reader finds changes only by one whole append that passes
\* the checks of the store at that moment.
StoreIsImplemented == StoreSpec

\* An approval stays as it was given and stays the only one under its id, although
\* it is looked up outside the transaction that inserts it.
ApprovalsStand ==
  [][/\ approvals \subseteq approvals'
     /\ \A a, b \in approvals' : a.id = b.id => a = b]_sqliteVars

\* No call, failed or not, keeps the database locked: after an exception of
\* save_edition_approval that is up to the close() of its caller.
WritesEnd == \A p \in Connection : lock = p ~> lock # p

\* "Persist one exact human publication approval idempotently" (docstring of
\* save_edition_approval): a caller that saves an approval that is stored, as it
\* gives it, is not refused.
SavesAreIdempotent ==
  \A p \in Connection : pc[p] = "refused" => call[p] \notin approvals

=============================================================================
