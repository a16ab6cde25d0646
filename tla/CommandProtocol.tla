--------------------------- MODULE CommandProtocol ---------------------------
(***************************************************************************)
(* The command handlers over one event store, seen from several processes. *)
(* A handler is straight-line code, but every call on the store is a       *)
(* separate read or write: the lookup of the idempotency key, get_events,  *)
(* get_head_commit, append_commit and the get_events that rebuilds the     *)
(* projection.  Other processes act in between, and a process may die      *)
(* between any two, losing its projection and its answer, and send the     *)
(* same command again.                                                     *)
(*                                                                         *)
(* What the events say is left to EditorialStream; here an update is any   *)
(* handler that takes an expected_version, and a commit is its versions.   *)
(***************************************************************************)
EXTENDS EventStore

CONSTANTS
  Process,      \* processes that run handlers, one command at a time each
  MaxEvents     \* bound: events an update produces from one snapshot

(***************************************************************************)
(* _hash(command) covers every field of the command, so Payload is the set *)
(* of commands themselves.  A command_type is part of the key.  expected   *)
(* is 0 for the commands without one, cutoff is 0 for source_version None. *)
(***************************************************************************)
Kind == {"create", "update", "fork"}

ASSUME CommandAssumption ==
  /\ None \notin Payload
  /\ \A p \in Payload :
       /\ p.kind \in Kind /\ p.stream \in Stream /\ p.key \in Key
       /\ p.expected \in Nat /\ p.cutoff \in Nat /\ p.source \in Stream
ASSUME KeyHasOneType ==
  \A p, q \in Payload : p.key = q.key => p.kind = q.kind
ASSUME MaxEventsAssumption == MaxEvents \in Nat \ {0}

VARIABLES
  pc,        \* [Process -> the call the handler makes next]
  cmd,       \* [Process -> Payload \cup {None}]: the command in hand
  seen,      \* [Process -> Seq(Commit)]: what get_events returned, by commit
  draft,     \* [Process -> Commit]: the commit built for append_commit
  view,      \* [Process -> [Stream -> Nat]]: CurrentWorkProjection, 0 = no entry
  answers    \* observation: [command, commit] of every CommandResult returned

handlerVars == <<pc, cmd, seen, draft, view>>
vars == <<log, streams, keys, pc, cmd, seen, draft, view, answers>>

Exists(s) == streams[s].head # None              \* branch_exists
VersionOf(commits) == IF commits = <<>> THEN 0 ELSE LastVersion(commits[Len(commits)])

NoCommit == [id |-> None, parent |-> None, source |-> None, events |-> <<>>]

\* Ids are uuids: new ones are nobody's, and which ones does not matter.
FreshCommitIds == CommitId \ (UsedCommitIds \cup {draft[h].id : h \in Process})
FreshEventIds(n) ==
  Injection(1..n, EventId \ (UsedEventIds \cup UNION {EventIdsOf(draft[h]) : h \in Process}))

\* Bound: a handler waits for ever when the constant sets have no ids left.
IdsRemain(n) == FreshCommitIds # {} /\ FreshEventIds(n) # {}

\* A commit whose events were never given ids of their own.
BuildUnnamed(parent, source, events) ==
  [id |-> CHOOSE id \in FreshCommitIds : TRUE, parent |-> parent, source |-> source,
   events |-> events]

\* The commit with this parent and source and an event for each of these, under new ids.
Build(parent, source, events) ==
  LET ids == CHOOSE ids \in FreshEventIds(Len(events)) : TRUE IN
  [id |-> CHOOSE id \in FreshCommitIds : TRUE, parent |-> parent, source |-> source,
   events |-> [i \in DOMAIN events |-> [events[i] EXCEPT !.id = ids[i]]]]

Goto(h, label) == pc' = [pc EXCEPT ![h] = label]

\* The handler returns or raises; the store is as it was.
Finish(h) ==
  /\ Goto(h, "idle")
  /\ cmd' = [cmd EXCEPT ![h] = None]
  /\ seen' = [seen EXCEPT ![h] = <<>>]
  /\ draft' = [draft EXCEPT ![h] = NoCommit]

Answer(h, commit) ==
  answers' = answers \cup {[command |-> cmd[h], commit |-> commit]}

----------------------------------------------------------------------------
(* The handlers *)

Submit(h, p) ==
  /\ pc[h] = "idle"
  /\ Goto(h, "lookup")
  /\ cmd' = [cmd EXCEPT ![h] = p]
  /\ UNCHANGED <<storeVars, seen, draft, view, answers>>

\* A lookup that answers for a key without comparing the payload hash.
LookupAnyPayload(h) ==
  LET rows == KeyRows(cmd[h].stream, cmd[h].key) IN
  /\ pc[h] = "lookup"
  /\ \/ rows = {} /\ Goto(h, "replay") /\ UNCHANGED <<cmd, seen, draft, answers>>
     \/ (\E row \in rows : Answer(h, row.commit)) /\ Finish(h)
  /\ UNCHANGED <<storeVars, view>>

\* _idempotent: a stored key either answers, or conflicts, or is new.
Lookup(h) ==
  LET p == cmd[h]
      rows == KeyRows(p.stream, p.key) IN
  /\ pc[h] = "lookup"
  /\ \/ /\ rows = {}
        /\ Goto(h, "replay")
        /\ UNCHANGED <<cmd, seen, draft, answers>>
     \/ /\ \E row \in rows :
             IF row.payload = p THEN Answer(h, row.commit) ELSE UNCHANGED answers
        /\ Finish(h)
  /\ UNCHANGED <<storeVars, view>>

\* An update that goes on from whatever version it finds.
ReplayAnyVersion(h) ==
  LET p == cmd[h]
      stream == log[p.stream] IN
  /\ pc[h] = "replay" /\ p.kind # "fork"
  /\ IF p.kind = "create" <=> stream = <<>>
     THEN /\ Goto(h, "head")
          /\ seen' = [seen EXCEPT ![h] = stream]
          /\ UNCHANGED <<cmd, draft>>
     ELSE Finish(h)
  /\ UNCHANGED <<storeVars, view, answers>>

\* CreateWorkHandler and the update handlers: read the stream and check it.
\* An empty stream cannot be replayed; a stale expected_version is refused.
Replay(h) ==
  LET p == cmd[h]
      stream == log[p.stream] IN
  /\ pc[h] = "replay" /\ p.kind # "fork"
  /\ IF IF p.kind = "create" THEN stream = <<>>
        ELSE stream # <<>> /\ VersionOf(stream) = p.expected
     THEN /\ Goto(h, "head")
          /\ seen' = [seen EXCEPT ![h] = stream]
          /\ UNCHANGED <<cmd, draft>>
     ELSE Finish(h)
  /\ UNCHANGED <<storeVars, view, answers>>

\* A _persist that numbers the events from the head row it reads, not from the
\* state the handler replayed.
ReadHeadAndVersion(h) ==
  LET p == cmd[h] IN
  /\ pc[h] = "head"
  /\ IdsRemain(1)
  /\ draft' = [draft EXCEPT ![h] =
       Build(streams[p.stream].head, None,
             <<[id |-> None, version |-> streams[p.stream].version + 1, origin |-> None]>>)]
  /\ Goto(h, "append")
  /\ UNCHANGED <<storeVars, cmd, seen, view, answers>>

\* _persist: the head is read after the stream was; the versions come from the
\* replayed state.  An update yields one event plus its invalidations.
ReadHead(h) ==
  LET p == cmd[h] IN
  /\ pc[h] = "head"
  /\ \E n \in IF p.kind = "create" THEN {1} ELSE 1..MaxEvents :
       /\ IdsRemain(n)
       /\ draft' = [draft EXCEPT ![h] =
            Build(streams[p.stream].head, None,
                  [i \in 1..n |-> [id |-> None, version |-> VersionOf(seen[h]) + i, origin |-> None]])]
  /\ Goto(h, "append")
  /\ UNCHANGED <<storeVars, cmd, seen, view, answers>>

\* CreateBranchHandler: both branch_exists checks.
CheckBranches(h) ==
  LET p == cmd[h] IN
  /\ pc[h] = "replay" /\ p.kind = "fork"
  /\ IF Exists(p.source) /\ ~Exists(p.stream)
     THEN Goto(h, "source") /\ UNCHANGED <<cmd, seen, draft>>
     ELSE Finish(h)
  /\ UNCHANGED <<storeVars, view, answers>>

\* CreateBranchHandler: copy the source up to the cutoff as one parentless commit.
ReadSource(h) ==
  LET p == cmd[h]
      last == VersionOf(log[p.source])
      cutoff == IF p.cutoff = 0 THEN last ELSE p.cutoff
      copied == UpTo(GetEvents(p.source), cutoff) IN
  /\ pc[h] = "source"
  /\ IF cutoff <= last
     THEN /\ IdsRemain(Len(copied))
          /\ draft' = [draft EXCEPT ![h] =
               Build(None, p.source,
                     [i \in DOMAIN copied |-> [copied[i] EXCEPT !.origin = copied[i].id]])]
          /\ Goto(h, "append")
          /\ seen' = [seen EXCEPT ![h] = log[p.source]]
          /\ UNCHANGED cmd
     ELSE Finish(h)
  /\ UNCHANGED <<storeVars, view, answers>>

\* An append that trusts what the handler read and checks nothing again.
AppendDraftUnchecked(h) ==
  LET p == cmd[h] IN
  /\ pc[h] = "append"
  /\ log' = [log EXCEPT ![p.stream] = Append(@, draft[h])]
  /\ streams' = [streams EXCEPT ![p.stream] =
       [head |-> draft[h].id, version |-> LastVersion(draft[h])]]
  /\ keys' = keys \cup {KeyRowFor(p.stream, draft[h], p.key, p)}
  /\ Goto(h, "project")
  /\ UNCHANGED <<cmd, seen, draft, view, answers>>

\* append_commit: all of it or an exception.
AppendDraft(h) ==
  LET p == cmd[h] IN
  /\ pc[h] = "append"
  /\ \/ /\ AppendCommit(p.stream, draft[h], p.key, p)
        /\ Goto(h, "project")
        /\ UNCHANGED <<cmd, seen, draft>>
     \/ /\ ~Accepts(p.stream, draft[h], p.key)
        /\ Finish(h)
        /\ UNCHANGED storeVars
  /\ UNCHANGED <<view, answers>>

\* A projection that stops at the first event of the new commit.
ProjectFirstEvent(h) ==
  LET s == cmd[h].stream IN
  /\ pc[h] = "project"
  /\ view' = [view EXCEPT ![h][s] = FirstVersion(draft[h])]
  /\ Answer(h, draft[h].id)
  /\ Finish(h)
  /\ UNCHANGED storeVars

\* rebuild_work over a fresh get_events, then the result.
Project(h) ==
  LET s == cmd[h].stream IN
  /\ pc[h] = "project"
  /\ view' = [view EXCEPT ![h][s] = VersionOf(log[s])]
  /\ Answer(h, draft[h].id)
  /\ Finish(h)
  /\ UNCHANGED storeVars

\* The process dies: its memory goes, the store stays.
Crash(h) ==
  /\ view' = [view EXCEPT ![h] = [s \in Stream |-> 0]]
  /\ Finish(h)
  /\ UNCHANGED <<storeVars, answers>>

Init ==
  /\ StoreInit
  /\ pc = [h \in Process |-> "idle"]
  /\ cmd = [h \in Process |-> None]
  /\ seen = [h \in Process |-> <<>>]
  /\ draft = [h \in Process |-> NoCommit]
  /\ view = [h \in Process |-> [s \in Stream |-> 0]]
  /\ answers = {}

Next ==
  \E h \in Process :
    \/ \E p \in Payload : Submit(h, p)
    \/ Lookup(h)
    \/ Replay(h)
    \/ ReadHead(h)
    \/ CheckBranches(h)
    \/ ReadSource(h)
    \/ AppendDraft(h)
    \/ Project(h)
    \/ Crash(h)

Spec == Init /\ [][Next]_vars

----------------------------------------------------------------------------
(* Properties *)

\* The variables of the handlers, beside the tables (StoreTypeOK).
TypeOK ==
  /\ StoreTypeOK
  /\ pc \in [Process -> {"idle", "lookup", "replay", "source", "head", "append", "project"}]
  /\ cmd \in [Process -> Payload \cup {None}]
  /\ \A h \in Process : cmd[h] = None <=> pc[h] = "idle"
  /\ seen \in [Process -> Seq(Commit)]
  /\ draft \in [Process -> Commit \cup {NoCommit}]
  /\ \A h \in Process : pc[h] \in {"append", "project"} => draft[h] # NoCommit
  /\ view \in [Process -> [Stream -> Nat]]
  /\ answers \subseteq [command : Payload, commit : CommitId]

\* No lost update: a handler decides on the stream it replayed, reads the head
\* later and writes later still, and yet whenever its commit goes in, the stream
\* is exactly the one it replayed.  No command is applied to a state its handler
\* never saw, although the handlers take no lock (_persist, append_commit).
AppendsOntoWhatItReplayed ==
  [][\A h \in Process :
       pc[h] = "append" /\ pc'[h] = "project" /\ cmd[h].kind # "fork"
         => log[cmd[h].stream] = seen[h]]_vars

\* A command takes effect at most once, whatever the retries, crashes and
\* concurrent duplicates: every commit is the effect of one stored command and
\* no command has two.
OneCommitPerCommand ==
  \A s \in Stream : \A i \in DOMAIN log[s] :
    /\ \E row \in keys : row.stream = s /\ row.commit = log[s][i].id
    /\ \A r, q \in keys :
         r.commit = log[s][i].id /\ (q.commit = r.commit \/ q.payload = r.payload) => r = q

\* A result is never wrong later: the commit a caller was told about is stored,
\* in the caller's stream, under the caller's own command, so that a retry of
\* the command gets the same result and a reuse of the key never does.
AnswersAreDurable ==
  \A a \in answers :
    \E row \in keys :
      /\ row.stream = a.command.stream /\ row.key = a.command.key
      /\ row.payload = a.command /\ row.commit = a.commit
      /\ \E i \in DOMAIN log[row.stream] : log[row.stream][i].id = a.commit

\* A branch starts as an exact copy of a prefix of its source, event by event and
\* up to the version the command asked for, although the source grows while the
\* copy is being made and ever after.
ForksCopyAPrefix ==
  \A s \in Stream : \A i \in DOMAIN log[s] :
    log[s][i].source # None =>
      LET copy == log[s][i].events
          origin == GetEvents(log[s][i].source) IN
      /\ i = 1 /\ Len(copy) <= Len(origin)
      /\ \A k \in DOMAIN copy :
           copy[k].origin = origin[k].id /\ copy[k].version = origin[k].version
      /\ \E row \in keys :
           /\ row.stream = s /\ row.commit = log[s][i].id
           /\ row.payload.cutoff \in {0, Len(copy)}

\* Serializability: although a handler reads and writes in five separate calls,
\* takes no lock and may be asked the same twice or die anywhere, what the
\* tables and the answers show is what commands show that are carried out one
\* at a time, each at most once, on the version it names and on the work as it is.
Serial == INSTANCE SerialCommands
CommandsAreSerial == Serial!SerialSpec

\* A projection shows the state after some whole commit, never the inside of
\* one and never a version the stream does not have.
ViewsShowCommits ==
  \A h \in Process, s \in Stream :
    view[h][s] \in {0} \cup {LastVersion(c) : c \in Range(log[s])}

============================================================================
