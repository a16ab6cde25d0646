----------------------------- MODULE EventStore -----------------------------
(***************************************************************************)
(* The event store: what MemoryEventStore and SQLiteEventStore promise to  *)
(* any caller.  A stream is one (tenant, editorial, work, branch) scope;   *)
(* append_commit is one atomic operation on three tables: the commits of   *)
(* each stream in stream_position order, the stream heads and the          *)
(* idempotency keys.  A refused append raises and changes nothing, so it   *)
(* is a stuttering step here.                                              *)
(*                                                                         *)
(* Nothing is assumed of the caller: StoreNext lets anybody submit any     *)
(* commit over the constant sets.  CommandProtocol (the handlers) submits  *)
(* its commits to this store; SQLiteTransaction (the statements)           *)
(* implements it.                                                          *)
(***************************************************************************)
EXTENDS Integers, Sequences, FiniteSets, SequencesExt

CONSTANTS
  Stream,         \* scopes: (tenant, editorial, work, branch)
  CommitId,       \* commit_id values
  EventId,        \* event_id values
  Key,            \* (command_type, idempotency_key) pairs
  Payload,        \* payload_hash values
  None            \* Python's None: no parent, no key, no origin

ASSUME NoneAssumption ==
  /\ None \notin CommitId /\ None \notin EventId
  /\ None \notin Key /\ None \notin Stream

VARIABLES
  log,       \* [Stream -> Seq(Commit)]: commits and events tables, by stream_position
  streams,   \* [Stream -> [head, version]]: streams table; head None = no row
  keys       \* idempotency_keys table

storeVars == <<log, streams, keys>>

----------------------------------------------------------------------------
(* Rows *)

Event == [id : EventId, version : Nat, origin : EventId \cup {None}]

Commit == [id     : CommitId,
           parent : CommitId \cup {None},
           source : Stream \cup {None},      \* parent_branch
           events : Seq(Event)]

KeyRow == [stream : Stream, key : Key, payload : Payload, commit : CommitId]

\* range(head_version + 1, ...) of a commit: its first and its last version.
FirstVersion(c) == c.events[1].version
LastVersion(c)  == c.events[Len(c.events)].version

\* The rows of the commits and of the events tables, whatever the stream.
Commits      == UNION {Range(log[s]) : s \in Stream}
EventIdsOf(c) == {c.events[i].id : i \in DOMAIN c.events}
UsedCommitIds == {c.id : c \in Commits}
UsedEventIds  == UNION {EventIdsOf(c) : c \in Commits}

\* get_events: the events of a stream ORDER BY stream_position, event_position.
GetEvents(s) == FlattenSeq([i \in DOMAIN log[s] |-> log[s][i].events])

\* The comparison without its equality.
Before(events, version) == SelectSeq(events, LAMBDA e : e.version < version)

\* [e for e in events if e.aggregate_version <= version]
UpTo(events, version) ==
  LET kept[n \in 0..Len(events)] ==
        IF n = 0 THEN <<>>
        ELSE IF events[n].version <= version THEN Append(kept[n-1], events[n])
        ELSE kept[n-1]
  IN kept[Len(events)]

\* get_idempotent_commit: the row stored for a key, if any.
KeyRows(s, k) == {row \in keys : row.stream = s /\ row.key = k}

----------------------------------------------------------------------------
(* append_commit *)

\* The checks made before the transaction and inside it, each after a weaker
\* form of it that the runs show to be too weak.
IdsAreNewButInside(c) ==
  c.id \notin UsedCommitIds /\ EventIdsOf(c) \cap UsedEventIds = {}

IdsAreNew(c) ==
  /\ \A i, j \in DOMAIN c.events : c.events[i].id = c.events[j].id => i = j
  /\ c.id \notin UsedCommitIds
  /\ EventIdsOf(c) \cap UsedEventIds = {}

ParentIsStored(s, c) == c.parent \in {None} \cup {d.id : d \in Range(log[s])}

ParentIsHead(s, c) == c.parent = streams[s].head

FirstVersionIsNext(s, c) == FirstVersion(c) = streams[s].version + 1

VersionsAreNext(s, c) ==
  \A i \in DOMAIN c.events : c.events[i].version = streams[s].version + i

AnyKey(s, k) == TRUE

KeyIsFree(s, k) == k # None => KeyRows(s, k) = {}

Accepts(s, c, k) ==
  /\ c.events # <<>>
  /\ IdsAreNew(c)
  /\ ParentIsHead(s, c)
  /\ VersionsAreNext(s, c)
  /\ KeyIsFree(s, k)

KeyRowFor(s, c, k, p) == [stream |-> s, key |-> k, payload |-> p, commit |-> c.id]

\* Three broken forms of the insertion: a row for no key, no row for a key, and
\* a commit written over the last one.
AppendKeyingNone(s, c, k, p) ==
  /\ Accepts(s, c, k)
  /\ log' = [log EXCEPT ![s] = Append(@, c)]
  /\ streams' = [streams EXCEPT ![s] = [head |-> c.id, version |-> LastVersion(c)]]
  /\ keys' = keys \cup {KeyRowFor(s, c, k, p)}

AppendWithoutKey(s, c, k, p) ==
  /\ Accepts(s, c, k)
  /\ log' = [log EXCEPT ![s] = Append(@, c)]
  /\ streams' = [streams EXCEPT ![s] = [head |-> c.id, version |-> LastVersion(c)]]
  /\ UNCHANGED keys

AppendOverLast(s, c, k, p) ==
  /\ Accepts(s, c, k)
  /\ log' = [log EXCEPT ![s] = Append(IF @ = <<>> THEN @ ELSE Front(@), c)]
  /\ streams' = [streams EXCEPT ![s] = [head |-> c.id, version |-> LastVersion(c)]]
  /\ keys' = IF k = None THEN keys ELSE keys \cup {KeyRowFor(s, c, k, p)}

\* The commit, its events, the head and the key become visible together.
AppendCommit(s, c, k, p) ==
  /\ Accepts(s, c, k)
  /\ log' = [log EXCEPT ![s] = Append(@, c)]
  /\ streams' = [streams EXCEPT ![s] = [head |-> c.id, version |-> LastVersion(c)]]
  /\ keys' = IF k = None THEN keys ELSE keys \cup {KeyRowFor(s, c, k, p)}

\* _create_schema: no rows.
StoreInit ==
  /\ log = [s \in Stream |-> <<>>]
  /\ streams = [s \in Stream |-> [head |-> None, version |-> 0]]
  /\ keys = {}

(***************************************************************************)
(* One append, of any commit by anybody: the commit is the one that ends   *)
(* its stream afterwards, so no finite set of commits has to be named.     *)
(***************************************************************************)
StoreNext ==
  \E s \in Stream, k \in Key \cup {None}, p \in Payload :
    /\ log'[s] # <<>>
    /\ Last(log'[s]) \in Commit
    /\ AppendCommit(s, Last(log'[s]), k, p)

StoreSpec == StoreInit /\ [][StoreNext]_storeVars

----------------------------------------------------------------------------
(* Properties *)

\* The tables are well formed.
StoreTypeOK ==
  /\ log \in [Stream -> Seq(Commit)]
  /\ streams \in [Stream -> [head : CommitId \cup {None}, version : Nat]]
  /\ keys \subseteq KeyRow

\* A stream row names the last commit of its stream and that commit's last version.
HeadIsLastCommit(s) ==
  LET n == Len(log[s]) IN
  IF n = 0 THEN streams[s] = [head |-> None, version |-> 0]
  ELSE streams[s] = [head |-> log[s][n].id, version |-> LastVersion(log[s][n])]

\* Each commit points at the one before it and continues its versions.
Chained(s) ==
  \A i \in DOMAIN log[s] :
    IF i = 1 THEN log[s][1].parent = None /\ FirstVersion(log[s][1]) = 1
    ELSE /\ log[s][i].parent = log[s][i-1].id
         /\ FirstVersion(log[s][i]) = LastVersion(log[s][i-1]) + 1

\* Inside a commit versions are consecutive, and later commits have later versions.
Increasing(s) ==
  /\ \A i \in DOMAIN log[s] :
       /\ log[s][i].events # <<>>
       /\ \A k \in DOMAIN log[s][i].events :
            log[s][i].events[k].version = FirstVersion(log[s][i]) + k - 1
  /\ \A i, j \in DOMAIN log[s] : i < j => LastVersion(log[s][i]) < FirstVersion(log[s][j])

\* Whatever the callers submit and in whatever order, every stream is one
\* unbroken chain of commits whose versions run from 1 to the recorded head
\* without a gap or a repetition: what expected_version and Work.apply rely on.
StreamsAreChains ==
  \A s \in Stream : HeadIsLastCommit(s) /\ Chained(s) /\ Increasing(s)

\* The list get_events returns, which replay folds over, has the version k at
\* its k-th place: the same fact seen through the reader's query.
EventsAreNumbered ==
  \A s \in Stream :
    /\ Len(GetEvents(s)) = streams[s].version
    /\ \A k \in DOMAIN GetEvents(s) : GetEvents(s)[k].version = k

\* commit_id and event_id are primary keys over all streams: no commit and no
\* event is stored twice, not in another branch and not in one commit.
IdsAreUnique ==
  /\ \A s, t \in Stream : \A i \in DOMAIN log[s], j \in DOMAIN log[t] :
       log[s][i].id = log[t][j].id => s = t /\ i = j
  /\ \A c, d \in Commits : \A i \in DOMAIN c.events, j \in DOMAIN d.events :
       c.events[i].id = d.events[j].id => c = d /\ i = j

\* An idempotency key of a stream stands for one commit, and that commit is in
\* that stream: an answer given from the table is an answer about the stream.
KeysNameTheirCommit ==
  /\ \A r, q \in keys : r.stream = q.stream /\ r.key = q.key => r = q
  /\ \A r \in keys : \E i \in DOMAIN log[r.stream] : log[r.stream][i].id = r.commit

\* No step rewrites or drops what was stored: readers of a prefix, and branches
\* copied from it, stay right for ever.
AppendOnly ==
  [][/\ \A s \in Stream : IsPrefix(log[s], log'[s])
     /\ keys \subseteq keys']_storeVars

============================================================================
