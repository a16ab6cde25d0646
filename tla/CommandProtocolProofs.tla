----------------------- MODULE CommandProtocolProofs -----------------------
(***************************************************************************)
(* Proofs about CommandProtocol, for any number of processes, commands,    *)
(* streams and ids: the handlers are well typed, they use the event store  *)
(* only through its one atomic operation, no command is ever applied to a  *)
(* state its handler did not replay, and every command takes effect once,  *)
(* with answers, projections and copies that stay right.                   *)
(***************************************************************************)
EXTENDS CommandProtocol, EventStoreProofs

----------------------------------------------------------------------------
(* Types *)

\* The last version of any sequence of commits that a stream can be.
LEMMA VersionOfType ==
  ASSUME NEW commits \in Seq(Commit), \A i \in DOMAIN commits : commits[i].events # <<>>
  PROVE  VersionOf(commits) \in Nat
<1>1. CASE commits = <<>>
  BY <1>1 DEF VersionOf
<1>2. CASE commits # <<>>
  <2> DEFINE c == commits[Len(commits)]
  <2>1. c \in Commit /\ c.events # <<>>
    BY <1>2
  <2>2. c.events[Len(c.events)] \in Event
    BY <2>1 DEF Commit
  <2> QED BY <1>2, <2>2 DEF VersionOf, LastVersion, Event
<1> QED BY <1>1, <1>2

\* The events of a draft before they get their ids.
Unnamed == [id : EventId \cup {None}, version : Nat, origin : EventId \cup {None}]

\* A commit made of these parts, its events in the given order under new ids.
IsBuilt(c, parent, source, events) ==
  /\ c \in Commit /\ c.parent = parent /\ c.source = source
  /\ Len(c.events) = Len(events)
  /\ \A i \in 1..Len(events) :
       c.events[i].version = events[i].version /\ c.events[i].origin = events[i].origin

\* What Build builds.
LEMMA BuildType ==
  ASSUME NEW parent \in CommitId \cup {None}, NEW source \in Stream \cup {None},
         NEW events \in Seq(Unnamed), IdsRemain(Len(events))
  PROVE  IsBuilt(Build(parent, source, events), parent, source, events)
<1> DEFINE ids == CHOOSE ids \in FreshEventIds(Len(events)) : TRUE
           id == CHOOSE id \in FreshCommitIds : TRUE
           named == [i \in DOMAIN events |-> [events[i] EXCEPT !.id = ids[i]]]
<1>1. ids \in FreshEventIds(Len(events)) /\ id \in FreshCommitIds
  BY DEF IdsRemain
<1>2. ids \in [1..Len(events) -> EventId]
  BY <1>1 DEF FreshEventIds, Injection
<1>3. id \in CommitId
  BY <1>1 DEF FreshCommitIds
<1> HIDE DEF ids, id
<1>4. DOMAIN events = 1..Len(events) /\ Len(events) \in Nat
  BY DEF Unnamed
<1>5. ASSUME NEW i \in 1..Len(events)
      PROVE  [events[i] EXCEPT !.id = ids[i]] \in Event
  <2>1. events[i] \in Unnamed
    BY <1>4
  <2>2. ids[i] \in EventId
    BY <1>2
  <2> QED BY <2>1, <2>2 DEF Unnamed, Event
<1>6. named \in Seq(Event) /\ Len(named) = Len(events)
  BY <1>4, <1>5
<1>7. ASSUME NEW i \in 1..Len(events)
      PROVE  named[i].version = events[i].version /\ named[i].origin = events[i].origin
  <2>1. events[i] \in Unnamed /\ named[i] = [events[i] EXCEPT !.id = ids[i]]
    BY <1>4
  <2> QED BY <2>1 DEF Unnamed
<1>8. Build(parent, source, events) =
        [id |-> id, parent |-> parent, source |-> source, events |-> named]
  BY DEF Build, ids, id
<1> HIDE DEF named
<1> QED BY <1>3, <1>6, <1>7, <1>8 DEF Commit, IsBuilt

----------------------------------------------------------------------------
(* The inductive invariant *)

\* What a handler carries from its reads to its write: the commits it replayed
\* are still the beginning of the stream, and its draft continues them.
Snapshot(h) ==
  /\ pc[h] = "head" => cmd[h].kind # "fork"
  /\ pc[h] = "source" => cmd[h].kind = "fork"
  /\ pc[h] \in {"head", "append"} /\ cmd[h].kind # "fork" =>
       IsPrefix(seen[h], log[cmd[h].stream])
  /\ pc[h] = "append" /\ cmd[h].kind # "fork" /\ draft[h].events # <<>> =>
       FirstVersion(draft[h]) = VersionOf(seen[h]) + 1

HandlersInv ==
  /\ TypeOK
  /\ StreamsAreChains
  /\ \A h \in Process : Snapshot(h)

\* The command in the hands of a busy handler.
LEMMA Busy ==
  ASSUME TypeOK, NEW h \in Process, pc[h] # "idle"
  PROVE  /\ cmd[h] \in Payload /\ cmd[h] # None
         /\ cmd[h].stream \in Stream /\ cmd[h].source \in Stream
         /\ cmd[h].key \in Key /\ cmd[h].key # None
         /\ cmd[h].kind \in Kind /\ cmd[h].cutoff \in Nat
BY CommandAssumption, NoneAssumption DEF TypeOK

\* The version of a stored stream is the one its head row has.
LEMMA VersionOfStream ==
  ASSUME StoreTypeOK, StreamsAreChains, NEW s \in Stream
  PROVE  VersionOf(log[s]) \in Nat /\ VersionOf(log[s]) = streams[s].version
<1>1. log[s] \in Seq(Commit) /\ HeadIsLastCommit(s) /\ streams[s].version \in Nat
  BY DEF StoreTypeOK, StreamsAreChains
<1> QED BY <1>1 DEF VersionOf, HeadIsLastCommit

\* A prefix of a stream with the version of the stream is the stream: how the
\* version check of append_commit tells that nothing came in between.
LEMMA SameVersionSameStream ==
  ASSUME StoreTypeOK, StreamsAreChains, NEW s \in Stream, NEW q \in Seq(Commit),
         IsPrefix(q, log[s]), VersionOf(q) = VersionOf(log[s])
  PROVE  q = log[s]
<1> DEFINE m == Len(q)
           n == Len(log[s])
<1>1. log[s] \in Seq(Commit) /\ n \in Nat /\ m \in Nat /\ m <= n
  BY DEF StoreTypeOK, IsPrefix
<1>2. \A i \in 1..m : q[i] = log[s][i]
  <2>1. q = SubSeq(log[s], 1, m)
    BY <1>1 DEF IsPrefix
  <2> QED BY <2>1, <1>1
<1>3. ASSUME m < n PROVE FALSE
  <2>1. n \in DOMAIN log[s] /\ VersionOf(log[s]) = LastVersion(log[s][n])
    BY <1>1, <1>3 DEF VersionOf
  <2>2. VersionOf(log[s]) \in Nat \ {0}
    BY <2>1, StoredVersions
  <2>3. CASE m = 0
    BY <2>2, <2>3 DEF VersionOf
  <2>4. CASE m # 0
    <3>1. m \in DOMAIN log[s] /\ VersionOf(q) = LastVersion(log[s][m])
      BY <2>4, <1>1, <1>2 DEF VersionOf
    <3>2. LastVersion(log[s][m]) < LastVersion(log[s][n])
      BY <2>1, <3>1, <1>3, LaterVersions
    <3>3. LastVersion(log[s][m]) \in Nat
      BY <3>1, StoredVersions
    <3> QED BY <2>1, <2>2, <3>1, <3>2, <3>3
  <2> QED BY <2>3, <2>4
<1>4. m = n
  BY <1>1, <1>3
<1> QED BY <1>1, <1>2, <1>4

----------------------------------------------------------------------------
(* Type correctness, step by step *)

\* Every way out of a handler leaves it idle and empty-handed.
LEMMA FinishType ==
  ASSUME TypeOK, NEW h \in Process, Finish(h)
  PROVE  /\ pc' \in [Process -> {"idle", "lookup", "replay", "source", "head", "append", "project"}]
         /\ cmd' \in [Process -> Payload \cup {None}]
         /\ \A g \in Process : cmd'[g] = None <=> pc'[g] = "idle"
         /\ seen' \in [Process -> Seq(Commit)]
         /\ draft' \in [Process -> Commit \cup {NoCommit}]
         /\ \A g \in Process : pc'[g] \in {"append", "project"} => draft'[g] # NoCommit
<1>1. pc' \in [Process -> {"idle", "lookup", "replay", "source", "head", "append", "project"}]
  BY DEF TypeOK, Finish, Goto
<1>2. cmd' \in [Process -> Payload \cup {None}]
  BY DEF TypeOK, Finish
<1>3. \A g \in Process : cmd'[g] = None <=> pc'[g] = "idle"
  BY DEF TypeOK, Finish, Goto
<1>4. seen' \in [Process -> Seq(Commit)]
  BY DEF TypeOK, Finish
<1>5. draft' \in [Process -> Commit \cup {NoCommit}]
  BY DEF TypeOK, Finish
<1>6. \A g \in Process : pc'[g] \in {"append", "project"} => draft'[g] # NoCommit
  BY DEF TypeOK, Finish, Goto
<1> QED BY <1>1, <1>2, <1>3, <1>4, <1>5, <1>6

\* Nothing of TypeOK needs the tables except their own types.
LEMMA SameStoreType ==
  ASSUME StoreTypeOK, UNCHANGED storeVars
  PROVE  StoreTypeOK'
BY DEF StoreTypeOK, storeVars

\* A commit is never the empty draft.
LEMMA CommitIsSome == \A c \in Commit : c # NoCommit
BY NoneAssumption DEF Commit, NoCommit

\* Going on to the next call with the same command, what was read and a draft.
LEMMA GotoType ==
  ASSUME TypeOK, NEW h \in Process, pc[h] # "idle",
         NEW label \in {"lookup", "replay", "source", "head", "append", "project"},
         Goto(h, label), UNCHANGED <<cmd, view, answers>>,
         NEW q \in Seq(Commit), seen' = [seen EXCEPT ![h] = q],
         NEW d \in Commit \cup {NoCommit}, draft' = [draft EXCEPT ![h] = d],
         label \in {"append", "project"} => d # NoCommit,
         StoreTypeOK'
  PROVE  TypeOK'
<1>1. pc' \in [Process -> {"idle", "lookup", "replay", "source", "head", "append", "project"}]
  BY DEF TypeOK, Goto
<1>2. cmd' \in [Process -> Payload \cup {None}]
  BY DEF TypeOK
<1>3. \A g \in Process : cmd'[g] = None <=> pc'[g] = "idle"
  BY DEF TypeOK, Goto
<1>4. seen' \in [Process -> Seq(Commit)]
  BY DEF TypeOK
<1>5. draft' \in [Process -> Commit \cup {NoCommit}]
  BY DEF TypeOK
<1>6. \A g \in Process : pc'[g] \in {"append", "project"} => draft'[g] # NoCommit
  BY DEF TypeOK, Goto
<1>7. view' \in [Process -> [Stream -> Nat]] /\ answers' \subseteq [command : Payload, commit : CommitId]
  BY DEF TypeOK
<1> QED BY <1>1, <1>2, <1>3, <1>4, <1>5, <1>6, <1>7 DEF TypeOK

\* The handler hands back a command's result, or nothing.
LEMMA OutType ==
  ASSUME TypeOK, NEW h \in Process, Finish(h), StoreTypeOK',
         view' \in [Process -> [Stream -> Nat]],
         \/ UNCHANGED answers
         \/ \E c \in CommitId : cmd[h] \in Payload /\ Answer(h, c)
  PROVE  TypeOK'
<1>1. answers' \subseteq [command : Payload, commit : CommitId]
  BY DEF TypeOK, Answer
<1> QED BY <1>1, FinishType DEF TypeOK

LEMMA SubmitType ==
  ASSUME TypeOK, NEW h \in Process, NEW p \in Payload, Submit(h, p)
  PROVE  TypeOK'
<1>1. StoreTypeOK'
  BY SameStoreType DEF TypeOK, Submit, storeVars
<1>2. pc' \in [Process -> {"idle", "lookup", "replay", "source", "head", "append", "project"}]
  BY DEF TypeOK, Submit, Goto
<1>3. cmd' \in [Process -> Payload \cup {None}]
  BY DEF TypeOK, Submit
<1>4. \A g \in Process : cmd'[g] = None <=> pc'[g] = "idle"
  BY CommandAssumption DEF TypeOK, Submit, Goto
<1>5. \A g \in Process : pc'[g] \in {"append", "project"} => draft'[g] # NoCommit
  BY DEF TypeOK, Submit, Goto
<1> QED BY <1>1, <1>2, <1>3, <1>4, <1>5 DEF TypeOK, Submit

LEMMA LookupType ==
  ASSUME TypeOK, NEW h \in Process, Lookup(h)
  PROVE  TypeOK'
<1>1. StoreTypeOK' /\ cmd[h] \in Payload /\ UNCHANGED view /\ pc[h] # "idle"
  BY SameStoreType, Busy DEF TypeOK, Lookup, storeVars
<1>2. CASE Goto(h, "replay") /\ UNCHANGED <<cmd, seen, draft, answers>>
  <2>1. seen' = [seen EXCEPT ![h] = seen[h]] /\ draft' = [draft EXCEPT ![h] = draft[h]]
    BY <1>2 DEF TypeOK
  <2>2. seen[h] \in Seq(Commit) /\ draft[h] \in Commit \cup {NoCommit}
    BY DEF TypeOK
  <2> QED BY <1>1, <1>2, <2>1, <2>2, GotoType
<1>3. CASE /\ \E row \in KeyRows(cmd[h].stream, cmd[h].key) :
                IF row.payload = cmd[h] THEN Answer(h, row.commit) ELSE UNCHANGED answers
           /\ Finish(h)
  <2>1. \A row \in KeyRows(cmd[h].stream, cmd[h].key) : row.commit \in CommitId
    BY DEF KeyRows, TypeOK, StoreTypeOK, KeyRow
  <2> QED BY <1>1, <1>3, <2>1, OutType DEF TypeOK
<1> QED BY <1>2, <1>3 DEF Lookup

LEMMA ReplayType ==
  ASSUME TypeOK, NEW h \in Process, Replay(h)
  PROVE  TypeOK'
<1>1. /\ StoreTypeOK' /\ cmd[h] \in Payload /\ UNCHANGED <<view, answers>>
      /\ pc[h] # "idle" /\ log[cmd[h].stream] \in Seq(Commit)
  BY SameStoreType, Busy DEF TypeOK, StoreTypeOK, Replay, storeVars
<1>2. CASE /\ Goto(h, "head") /\ seen' = [seen EXCEPT ![h] = log[cmd[h].stream]]
           /\ UNCHANGED <<cmd, draft>>
  <2>1. draft' = [draft EXCEPT ![h] = draft[h]] /\ draft[h] \in Commit \cup {NoCommit}
    BY <1>2 DEF TypeOK
  <2> QED BY <1>1, <1>2, <2>1, GotoType
<1>3. CASE Finish(h)
  BY <1>1, <1>3, OutType DEF TypeOK
<1> QED BY <1>2, <1>3 DEF Replay

LEMMA CheckBranchesType ==
  ASSUME TypeOK, NEW h \in Process, CheckBranches(h)
  PROVE  TypeOK'
<1>1. StoreTypeOK' /\ cmd[h] \in Payload /\ UNCHANGED <<view, answers>> /\ pc[h] # "idle"
  BY SameStoreType, Busy DEF TypeOK, CheckBranches, storeVars
<1>2. CASE Goto(h, "source") /\ UNCHANGED <<cmd, seen, draft>>
  <2>1. seen' = [seen EXCEPT ![h] = seen[h]] /\ draft' = [draft EXCEPT ![h] = draft[h]]
    BY <1>2 DEF TypeOK
  <2>2. seen[h] \in Seq(Commit) /\ draft[h] \in Commit \cup {NoCommit}
    BY DEF TypeOK
  <2> QED BY <1>1, <1>2, <2>1, <2>2, GotoType
<1>3. CASE Finish(h)
  BY <1>1, <1>3, OutType DEF TypeOK
<1> QED BY <1>2, <1>3 DEF CheckBranches

LEMMA ProjectType ==
  ASSUME HandlersInv, NEW h \in Process, Project(h)
  PROVE  TypeOK'
<1>1. StoreTypeOK' /\ cmd[h] \in Payload /\ pc[h] # "idle" /\ cmd[h].stream \in Stream
  BY SameStoreType, Busy DEF HandlersInv, TypeOK, Project, storeVars
<1>2. draft[h].id \in CommitId
  BY DEF HandlersInv, TypeOK, Project, Commit
<1>3. VersionOf(log[cmd[h].stream]) \in Nat
  BY <1>1, VersionOfStream DEF HandlersInv, TypeOK
<1>4. view' \in [Process -> [Stream -> Nat]]
  BY <1>3 DEF HandlersInv, TypeOK, Project
<1> QED BY <1>1, <1>2, <1>4, OutType DEF HandlersInv, Project

LEMMA CrashType ==
  ASSUME TypeOK, NEW h \in Process, Crash(h)
  PROVE  TypeOK'
<1>1. StoreTypeOK'
  BY SameStoreType DEF TypeOK, Crash, storeVars
<1>2. view' \in [Process -> [Stream -> Nat]]
  BY DEF TypeOK, Crash
<1> QED BY <1>1, <1>2, OutType DEF Crash

\* What a handler replayed has a version.
LEMMA SeenVersion ==
  ASSUME HandlersInv, NEW h \in Process, pc[h] \in {"head", "append"}, cmd[h].kind # "fork"
  PROVE  seen[h] \in Seq(Commit) /\ VersionOf(seen[h]) \in Nat
<1> DEFINE s == cmd[h].stream
<1>1. /\ s \in Stream /\ seen[h] \in Seq(Commit) /\ log[s] \in Seq(Commit)
      /\ IsPrefix(seen[h], log[s])
  BY Busy DEF HandlersInv, TypeOK, StoreTypeOK, Snapshot
<1>2. seen[h] = SubSeq(log[s], 1, Len(seen[h])) /\ Len(seen[h]) <= Len(log[s])
  BY <1>1 DEF IsPrefix
<1>3. \A i \in DOMAIN seen[h] : i \in DOMAIN log[s] /\ seen[h][i] = log[s][i]
  BY <1>1, <1>2
<1>4. \A i \in DOMAIN seen[h] : seen[h][i].events # <<>>
  BY <1>1, <1>3 DEF HandlersInv, StreamsAreChains, Increasing
<1> QED BY <1>1, <1>4, VersionOfType

\* The draft of _persist: a commit whose versions run on from what was replayed.
LEMMA ReadHeadDraft ==
  ASSUME HandlersInv, NEW h \in Process, ReadHead(h)
  PROVE  \E d \in Commit :
           /\ draft' = [draft EXCEPT ![h] = d]
           /\ d.events # <<>> /\ FirstVersion(d) = VersionOf(seen[h]) + 1
           /\ cmd[h].kind = "create" => Len(d.events) = 1
<1> DEFINE parent == streams[cmd[h].stream].head
           events(n) == [i \in 1..n |-> [id |-> None, version |-> VersionOf(seen[h]) + i, origin |-> None]]
<1>1. PICK n \in IF cmd[h].kind = "create" THEN {1} ELSE 1..MaxEvents :
        IdsRemain(n) /\ draft' = [draft EXCEPT ![h] = Build(parent, None, events(n))]
  BY DEF ReadHead
<1>2. n \in Nat \ {0} /\ (cmd[h].kind = "create" => n = 1)
  BY MaxEventsAssumption
<1>3. VersionOf(seen[h]) \in Nat /\ parent \in CommitId \cup {None}
  BY SeenVersion, Busy DEF ReadHead, HandlersInv, Snapshot, TypeOK, StoreTypeOK
<1>4. \A i \in 1..n : events(n)[i] \in Unnamed
  BY <1>2, <1>3 DEF Unnamed
<1>5. events(n) \in Seq(Unnamed) /\ Len(events(n)) = n
  BY <1>2, <1>4
<1>6. events(n)[1].version = VersionOf(seen[h]) + 1
  BY <1>2
<1> DEFINE d == Build(parent, None, events(n))
<1>7. /\ d \in Commit /\ Len(d.events) = n
      /\ \A i \in 1..n : d.events[i].version = events(n)[i].version
  <2> HIDE DEF events, parent
  <2>1. IdsRemain(Len(events(n)))
    BY <1>1, <1>5
  <2>2. IsBuilt(d, parent, None, events(n))
    BY <1>3, <1>5, <2>1, BuildType
  <2> QED BY <1>5, <2>2 DEF IsBuilt
<1>8. d.events # <<>> /\ FirstVersion(d) = VersionOf(seen[h]) + 1
  <2> HIDE DEF d, events
  <2>1. d.events \in Seq(Event)
    BY <1>7 DEF Commit
  <2> QED BY <1>2, <1>6, <1>7, <2>1 DEF FirstVersion
<1> HIDE DEF events, parent
<1> QED BY <1>1, <1>7, <1>8

LEMMA ReadHeadType ==
  ASSUME HandlersInv, NEW h \in Process, ReadHead(h)
  PROVE  TypeOK'
<1>1. PICK d \in Commit : draft' = [draft EXCEPT ![h] = d]
  BY ReadHeadDraft
<1>2. TypeOK /\ StoreTypeOK' /\ pc[h] # "idle"
  BY SameStoreType DEF HandlersInv, TypeOK, ReadHead, storeVars
<1>3. seen' = [seen EXCEPT ![h] = seen[h]] /\ seen[h] \in Seq(Commit) /\ d # NoCommit
  BY <1>2, CommitIsSome DEF TypeOK, ReadHead
<1> QED BY <1>1, <1>2, <1>3, GotoType DEF ReadHead

\* The draft of CreateBranchHandler: the source's events up to the cutoff.
LEMMA ReadSourceDraft ==
  ASSUME HandlersInv, NEW h \in Process, ReadSource(h), ~Finish(h)
  PROVE  \E v \in Nat, d \in Commit :
           /\ draft' = [draft EXCEPT ![h] = d]
           /\ v <= Len(GetEvents(cmd[h].source))
           /\ v = IF cmd[h].cutoff = 0 THEN Len(GetEvents(cmd[h].source)) ELSE cmd[h].cutoff
           /\ d.parent = None /\ d.source = cmd[h].source
           /\ Len(d.events) = v /\ cmd[h].cutoff \in {0, v}
           /\ \A k \in 1..v : /\ d.events[k].version = GetEvents(cmd[h].source)[k].version
                             /\ d.events[k].origin = GetEvents(cmd[h].source)[k].id
<1> DEFINE src == cmd[h].source
           last == VersionOf(log[src])
           v == IF cmd[h].cutoff = 0 THEN last ELSE cmd[h].cutoff
           copied == UpTo(GetEvents(src), v)
           events == [i \in DOMAIN copied |-> [copied[i] EXCEPT !.origin = copied[i].id]]
<1>1. /\ v <= last /\ IdsRemain(Len(copied))
      /\ draft' = [draft EXCEPT ![h] = Build(None, src, events)]
  BY DEF ReadSource
<1>2. /\ src \in Stream /\ last \in Nat /\ v \in Nat /\ last = streams[src].version
      /\ GetEvents(src) \in Seq(Event) /\ StoreTypeOK /\ StreamsAreChains
  BY Busy, VersionOfStream, GetEventsType DEF HandlersInv, TypeOK, ReadSource
<1>3. Len(GetEvents(src)) = last /\ \A k \in 1..last : GetEvents(src)[k].version = k
  BY <1>2, ChainsAreNumbered
<1>4. copied = SubSeq(GetEvents(src), 1, v)
  <2> HIDE DEF v, last, src
  <2> QED BY <1>1, <1>2, <1>3, UpToIsPrefix
<1>10. /\ cmd[h].cutoff \in {0, v}
       /\ v = IF cmd[h].cutoff = 0 THEN Len(GetEvents(src)) ELSE cmd[h].cutoff
  BY <1>3
<1> HIDE DEF copied, v, last
<1>5. /\ copied \in Seq(Event) /\ Len(copied) = v
      /\ \A k \in 1..v : copied[k] = GetEvents(src)[k]
  BY <1>1, <1>2, <1>3, <1>4
<1>6. ASSUME NEW k \in 1..v
      PROVE  /\ events[k] \in Unnamed /\ events[k].version = copied[k].version
             /\ events[k].origin = copied[k].id
  <2>1. copied[k] \in Event /\ events[k] = [copied[k] EXCEPT !.origin = copied[k].id]
    BY <1>2, <1>5
  <2> QED BY <2>1 DEF Event, Unnamed
<1>7. events \in Seq(Unnamed) /\ Len(events) = v
  BY <1>2, <1>5, <1>6
<1> DEFINE d == Build(None, src, events)
<1>8. /\ d \in Commit /\ d.parent = None /\ d.source = src /\ Len(d.events) = v
      /\ \A k \in 1..v : /\ d.events[k].version = events[k].version
                        /\ d.events[k].origin = events[k].origin
  <2> HIDE DEF events, src
  <2>1. IdsRemain(Len(events))
    BY <1>1, <1>5, <1>7
  <2>2. IsBuilt(d, None, src, events)
    BY <1>2, <1>7, <2>1, BuildType
  <2> QED BY <1>7, <2>2 DEF IsBuilt
<1> HIDE DEF d, events, src
<1>9. \A k \in 1..v : /\ d.events[k].version = GetEvents(src)[k].version
                     /\ d.events[k].origin = GetEvents(src)[k].id
  BY <1>5, <1>6, <1>8
<1> QED BY <1>1, <1>2, <1>3, <1>8, <1>9, <1>10 DEF d, src

LEMMA ReadSourceType ==
  ASSUME HandlersInv, NEW h \in Process, ReadSource(h)
  PROVE  TypeOK'
<1>1. /\ TypeOK /\ StoreTypeOK' /\ pc[h] # "idle" /\ log[cmd[h].source] \in Seq(Commit)
      /\ UNCHANGED <<view, answers>>
  BY SameStoreType, Busy DEF HandlersInv, TypeOK, StoreTypeOK, ReadSource, storeVars
<1>2. CASE Finish(h)
  BY <1>1, <1>2, OutType DEF TypeOK
<1>3. CASE ~Finish(h)
  <2>1. PICK d \in Commit : draft' = [draft EXCEPT ![h] = d]
    BY <1>3, ReadSourceDraft
  <2>2. /\ Goto(h, "append") /\ UNCHANGED cmd
        /\ seen' = [seen EXCEPT ![h] = log[cmd[h].source]]
    BY <1>3 DEF ReadSource
  <2> QED BY <1>1, <2>1, <2>2, CommitIsSome, GotoType
<1> QED BY <1>2, <1>3

\* An append by a handler is an append the store knows.
LEMMA AppendDraftStores ==
  ASSUME HandlersInv, NEW h \in Process, AppendCommit(cmd[h].stream, draft[h], cmd[h].key, cmd[h]),
         pc[h] = "append"
  PROVE  /\ cmd[h].stream \in Stream /\ cmd[h].key \in Key /\ cmd[h] \in Payload
         /\ draft[h] \in Commit
         /\ StoreNext
<1> DEFINE s == cmd[h].stream
<1>1. /\ s \in Stream /\ cmd[h].key \in Key /\ cmd[h] \in Payload /\ draft[h] \in Commit
      /\ log[s] \in Seq(Commit) /\ log \in [Stream -> Seq(Commit)]
  BY Busy DEF HandlersInv, TypeOK, StoreTypeOK
<1>2. log'[s] = Append(log[s], draft[h])
  BY <1>1 DEF AppendCommit
<1>3. log'[s] # <<>> /\ Last(log'[s]) = draft[h]
  <2> HIDE DEF s
  <2>1. Append(log[s], draft[h]) # <<>> /\ Last(Append(log[s], draft[h])) = draft[h]
    BY <1>1, LastOfAppend
  <2> QED BY <1>2, <2>1
<1> QED BY <1>1, <1>3 DEF StoreNext

LEMMA AppendDraftType ==
  ASSUME HandlersInv, NEW h \in Process, AppendDraft(h)
  PROVE  TypeOK'
<1>1. TypeOK /\ pc[h] # "idle" /\ UNCHANGED <<view, answers>>
  BY DEF HandlersInv, AppendDraft
<1>2. CASE /\ AppendCommit(cmd[h].stream, draft[h], cmd[h].key, cmd[h])
           /\ Goto(h, "project") /\ UNCHANGED <<cmd, seen, draft>>
  <2>1. /\ cmd[h].stream \in Stream /\ cmd[h].key \in Key /\ cmd[h] \in Payload
        /\ draft[h] \in Commit
    BY <1>2, AppendDraftStores DEF AppendDraft
  <2>2. StoreTypeOK'
    BY <1>1, <1>2, <2>1, TypeStep DEF TypeOK
  <2>3. /\ seen' = [seen EXCEPT ![h] = seen[h]] /\ seen[h] \in Seq(Commit)
        /\ draft' = [draft EXCEPT ![h] = draft[h]]
    BY <1>1, <1>2 DEF TypeOK
  <2> QED BY <1>1, <1>2, <2>1, <2>2, <2>3, CommitIsSome, GotoType
<1>3. CASE Finish(h) /\ UNCHANGED storeVars
  BY <1>1, <1>3, SameStoreType, OutType DEF TypeOK
<1> QED BY <1>2, <1>3 DEF AppendDraft

----------------------------------------------------------------------------
(* The invariant is inductive *)

\* Every step of a handler is a step of the store or leaves the store alone:
\* append_commit is the only call that writes, and it is called whole.
LEMMA HandlersUseTheStore ==
  ASSUME HandlersInv, [Next]_vars
  PROVE  [StoreNext]_storeVars
<1>1. CASE UNCHANGED vars
  BY <1>1 DEF vars, storeVars
<1>2. ASSUME NEW h \in Process, AppendDraft(h)
      PROVE  [StoreNext]_storeVars
  <2>1. CASE AppendCommit(cmd[h].stream, draft[h], cmd[h].key, cmd[h])
    BY <1>2, <2>1, AppendDraftStores DEF AppendDraft
  <2>2. CASE UNCHANGED storeVars
    BY <2>2
  <2> QED BY <1>2, <2>1, <2>2 DEF AppendDraft
<1>3. ASSUME NEW h \in Process,
             \/ \E p \in Payload : Submit(h, p)
             \/ Lookup(h) \/ Replay(h) \/ ReadHead(h) \/ CheckBranches(h)
             \/ ReadSource(h) \/ Project(h) \/ Crash(h)
      PROVE  UNCHANGED storeVars
  BY <1>3 DEF Submit, Lookup, Replay, ReadHead, CheckBranches, ReadSource, Project, Crash, storeVars
<1> QED BY <1>1, <1>2, <1>3 DEF Next

LEMMA NextType ==
  ASSUME HandlersInv, [Next]_vars
  PROVE  TypeOK'
<1>1. TypeOK
  BY DEF HandlersInv
<1>2. CASE UNCHANGED vars
  BY <1>1, <1>2 DEF vars, TypeOK, StoreTypeOK
<1>3. CASE Next
  BY <1>1, <1>3, SubmitType, LookupType, ReplayType, ReadHeadType, CheckBranchesType,
     ReadSourceType, AppendDraftType, ProjectType, CrashType DEF Next
<1> QED BY <1>2, <1>3

\* A handler that does not move keeps its snapshot: streams only grow.
LEMMA SnapshotStays ==
  ASSUME HandlersInv, [StoreNext]_storeVars, NEW g \in Process,
         pc'[g] = pc[g], cmd'[g] = cmd[g], seen'[g] = seen[g], draft'[g] = draft[g]
  PROVE  Snapshot(g)'
<1>1. TypeOK /\ StoreTypeOK /\ Snapshot(g) /\ StoreTypeOK'
  BY TypePreserved DEF HandlersInv, TypeOK
<1>2. ASSUME pc[g] \in {"head", "append"}, cmd[g].kind # "fork"
      PROVE  IsPrefix(seen[g], log'[cmd[g].stream])
  <2> DEFINE s == cmd[g].stream
  <2>1. s \in Stream /\ seen[g] \in Seq(Commit)
    BY <1>1, <1>2, Busy DEF TypeOK
  <2>2. /\ log[s] \in Seq(Commit) /\ log'[s] \in Seq(Commit)
        /\ IsPrefix(log[s], log'[s]) /\ IsPrefix(seen[g], log[s])
    BY <1>1, <1>2, <2>1, OnlyAppends DEF StoreTypeOK, Snapshot
  <2> HIDE DEF s
  <2> QED BY <2>1, <2>2, PrefixTransitive DEF s
<1> QED BY <1>1, <1>2 DEF Snapshot, FirstVersion, VersionOf, LastVersion

\* Idle handlers and handlers that have not read yet have nothing to keep.
LEMMA SnapshotFree ==
  ASSUME NEW h, pc'[h] \in {"idle", "lookup", "replay", "project"}
  PROVE  Snapshot(h)'
BY DEF Snapshot

LEMMA SnapshotStep ==
  ASSUME HandlersInv, NEW h \in Process,
         \/ \E p \in Payload : Submit(h, p)
         \/ Lookup(h) \/ Replay(h) \/ ReadHead(h) \/ CheckBranches(h)
         \/ ReadSource(h) \/ AppendDraft(h) \/ Project(h) \/ Crash(h)
  PROVE  Snapshot(h)'
<1>1. /\ pc \in [Process -> {"idle", "lookup", "replay", "source", "head", "append", "project"}]
      /\ seen \in [Process -> Seq(Commit)] /\ TypeOK /\ StoreTypeOK
      /\ DOMAIN draft = Process /\ DOMAIN cmd = Process
  BY DEF HandlersInv, TypeOK
<1>2. ASSUME Finish(h) PROVE Snapshot(h)'
  BY <1>1, <1>2, SnapshotFree DEF Finish, Goto
<1>3. CASE (\E p \in Payload : Submit(h, p)) \/ Lookup(h) \/ Project(h) \/ Crash(h)
  BY <1>1, <1>2, <1>3, SnapshotFree DEF Submit, Lookup, Project, Crash, Goto
<1>4. CASE Replay(h)
  <2>1. CASE Finish(h)
    BY <1>2, <2>1
  <2>2. CASE Goto(h, "head") /\ seen' = [seen EXCEPT ![h] = log[cmd[h].stream]] /\ cmd' = cmd
    <3>1. pc'[h] = "head" /\ seen'[h] = log[cmd[h].stream] /\ cmd'[h] = cmd[h] /\ log' = log
      BY <1>1, <1>4, <2>2 DEF Goto, Replay, storeVars
    <3>2. log[cmd[h].stream] \in Seq(Commit) /\ cmd[h].kind # "fork"
      BY <1>1, <1>4, Busy DEF Replay, StoreTypeOK
    <3>3. IsPrefix(log[cmd[h].stream], log[cmd[h].stream])
      BY <3>2, PrefixOfAppend
    <3> QED BY <3>1, <3>2, <3>3 DEF Snapshot
  <2> QED BY <1>4, <2>1, <2>2 DEF Replay
<1>5. CASE ReadHead(h)
  <2>1. PICK d \in Commit : /\ draft' = [draft EXCEPT ![h] = d]
                            /\ FirstVersion(d) = VersionOf(seen[h]) + 1
    BY <1>5, ReadHeadDraft
  <2>2. /\ pc'[h] = "append" /\ pc[h] = "head" /\ draft'[h] = d
        /\ seen' = seen /\ cmd' = cmd /\ log' = log
    BY <1>1, <1>5, <2>1 DEF ReadHead, Goto, storeVars
  <2>3. IsPrefix(seen[h], log[cmd[h].stream])
    BY <2>2 DEF HandlersInv, Snapshot
  <2>4. FirstVersion(d) = VersionOf(seen'[h]) + 1
    BY <2>1, <2>2
  <2> QED BY <2>2, <2>3, <2>4 DEF Snapshot, FirstVersion, VersionOf, LastVersion
<1>6. CASE CheckBranches(h)
  <2>1. CASE Finish(h)
    BY <1>2, <2>1
  <2>2. CASE Goto(h, "source") /\ cmd' = cmd
    BY <1>1, <1>6, <2>2 DEF CheckBranches, Goto, Snapshot
  <2> QED BY <1>6, <2>1, <2>2 DEF CheckBranches
<1>7. CASE ReadSource(h)
  <2>1. CASE Finish(h)
    BY <1>2, <2>1
  <2>2. CASE Goto(h, "append") /\ cmd' = cmd
    <3>1. cmd[h].kind = "fork"
      BY <1>7 DEF ReadSource, HandlersInv, Snapshot
    <3> QED BY <1>1, <2>2, <3>1 DEF Goto, Snapshot
  <2> QED BY <1>7, <2>1, <2>2 DEF ReadSource
<1>8. CASE AppendDraft(h)
  BY <1>1, <1>2, <1>8, SnapshotFree DEF AppendDraft, Goto
<1> QED BY <1>3, <1>4, <1>5, <1>6, <1>7, <1>8

\* A step of one handler moves no other.
LEMMA OneAtATime ==
  ASSUME HandlersInv, NEW h \in Process, NEW g \in Process \ {h},
         \/ \E p \in Payload : Submit(h, p)
         \/ Lookup(h) \/ Replay(h) \/ ReadHead(h) \/ CheckBranches(h)
         \/ ReadSource(h) \/ AppendDraft(h) \/ Project(h) \/ Crash(h)
  PROVE  pc'[g] = pc[g] /\ cmd'[g] = cmd[g] /\ seen'[g] = seen[g] /\ draft'[g] = draft[g]
<1>1. ASSUME NEW f, NEW e, NEW f1, f1 = [f EXCEPT ![h] = e] PROVE f1[g] = f[g]
  BY <1>1
<1> QED BY DEF Submit, Lookup, Replay, ReadHead, CheckBranches, ReadSource, AppendDraft,
            Project, Crash, Finish, Goto, HandlersInv, TypeOK

\* HandlersInv survives every step.
LEMMA InvPreserved ==
  ASSUME HandlersInv, [Next]_vars
  PROVE  HandlersInv'
<1>1. TypeOK' /\ [StoreNext]_storeVars
  BY NextType, HandlersUseTheStore
<1>2. StreamsAreChains'
  BY <1>1, ChainsPreserved DEF HandlersInv, TypeOK
<1>3. ASSUME NEW g \in Process PROVE Snapshot(g)'
  <2>1. CASE UNCHANGED vars
    BY <2>1, <1>1, SnapshotStays DEF vars
  <2>2. CASE Next
    <3>1. PICK h \in Process :
            \/ \E p \in Payload : Submit(h, p)
            \/ Lookup(h) \/ Replay(h) \/ ReadHead(h) \/ CheckBranches(h)
            \/ ReadSource(h) \/ AppendDraft(h) \/ Project(h) \/ Crash(h)
      BY <2>2 DEF Next
    <3>2. CASE g = h
      BY <3>1, <3>2, SnapshotStep
    <3>3. CASE g # h
      BY <3>1, <3>3, <1>1, OneAtATime, SnapshotStays
    <3> QED BY <3>2, <3>3
  <2> QED BY <2>1, <2>2
<1> QED BY <1>1, <1>2, <1>3 DEF HandlersInv

LEMMA InitInv == Init => HandlersInv
<1> SUFFICES ASSUME Init PROVE HandlersInv
  OBVIOUS
<1>1. StoreTypeOK /\ StreamsAreChains
  BY DEF Init, StoreInit, StoreTypeOK, StreamsAreChains, HeadIsLastCommit, Chained, Increasing
<1>2. TypeOK
  BY <1>1 DEF Init, TypeOK
<1>3. \A h \in Process : Snapshot(h)
  BY DEF Init, Snapshot
<1> QED BY <1>1, <1>2, <1>3 DEF HandlersInv

LEMMA Invariance == Spec => []HandlersInv
<1>1. HandlersInv /\ [Next]_vars => HandlersInv'
  BY InvPreserved
<1> QED BY <1>1, InitInv, PTL DEF Spec

\* A commit of _persist that is accepted goes in on top of what was replayed: the
\* versions of the draft run on from the snapshot and from the head.
LEMMA AppendedOntoSeen ==
  ASSUME HandlersInv, NEW g \in Process, pc[g] = "append", cmd[g].kind # "fork",
         AppendCommit(cmd[g].stream, draft[g], cmd[g].key, cmd[g])
  PROVE  log[cmd[g].stream] = seen[g]
<1> DEFINE s == cmd[g].stream
           c == draft[g]
<1>1. AppendCommit(s, c, cmd[g].key, cmd[g])
  OBVIOUS
<1>2. /\ s \in Stream /\ cmd[g].key \in Key /\ c \in Commit
      /\ StoreTypeOK /\ StreamsAreChains
  BY <1>1, AppendDraftStores DEF HandlersInv, TypeOK
<1>3. FirstVersion(c) = streams[s].version + 1 /\ c.events # <<>>
  BY <1>1, <1>2, AcceptedVersions DEF AppendCommit, Accepts
<1>4. seen[g] \in Seq(Commit) /\ VersionOf(seen[g]) \in Nat
  BY SeenVersion
<1>5. /\ FirstVersion(c) = VersionOf(seen[g]) + 1
      /\ IsPrefix(seen[g], log[s])
  BY <1>3 DEF HandlersInv, Snapshot
<1>6. VersionOf(seen[g]) = VersionOf(log[s])
  <2>1. VersionOf(log[s]) \in Nat /\ VersionOf(log[s]) = streams[s].version
    BY <1>2, VersionOfStream
  <2> HIDE DEF s, c
  <2> QED BY <1>3, <1>4, <1>5, <2>1
<1> QED BY <1>2, <1>4, <1>5, <1>6, SameVersionSameStream

----------------------------------------------------------------------------
(* Commands, their keys and their commits *)

\* A row is filed under the stream and the key of its command, and no commit has two.
RowsAreTrue ==
  /\ \A r \in keys : r.stream = r.payload.stream /\ r.key = r.payload.key
  /\ \A r, q \in keys : r.commit = q.commit => r = q

\* No commit without its row: the handlers always have a key.
CommitsHaveRows ==
  \A s \in Stream : \A i \in DOMAIN log[s] :
    \E row \in keys : row.stream = s /\ row.commit = log[s][i].id

\* The row of the commit whose result a handler is about to give.
RowStored(h) ==
  pc[h] = "project" => KeyRowFor(cmd[h].stream, draft[h], cmd[h].key, cmd[h]) \in keys

\* The row that an answer was given from.
AnswersHaveRows ==
  \A a \in answers :
    \E row \in keys :
      /\ row.stream = a.command.stream /\ row.key = a.command.key
      /\ row.payload = a.command /\ row.commit = a.commit

\* The events of a list of commits: GetEvents(s) is EventsIn(log[s]).
EventsIn(commits) == FlattenSeq([i \in DOMAIN commits |-> commits[i].events])

\* c has the events of its source, one by one, up to the cutoff if there is one.
IsCopyOf(c, events, cutoff) ==
  /\ c.parent = None
  /\ Len(c.events) <= Len(events) /\ cutoff \in {0, Len(c.events)}
  /\ \A k \in DOMAIN c.events :
       c.events[k].origin = events[k].id /\ c.events[k].version = events[k].version

\* What kind of draft a handler has made.
DraftFits(h) ==
  pc[h] = "append" =>
    IF cmd[h].kind = "fork"
    THEN /\ draft[h].source = cmd[h].source
         /\ IsCopyOf(draft[h], EventsIn(log[cmd[h].source]), cmd[h].cutoff)
    ELSE draft[h].source = None

\* A commit with a source is the first of its stream, and a copy.
ForksAreCopies ==
  \A s \in Stream : \A i \in DOMAIN log[s] :
    log[s][i].source # None =>
      /\ i = 1
      /\ \E row \in keys :
           /\ row.stream = s /\ row.commit = log[s][i].id
           /\ IsCopyOf(log[s][i], EventsIn(log[log[s][i].source]), row.payload.cutoff)

ProtocolInv ==
  /\ HandlersInv /\ IdsAreUnique /\ KeysNameTheirCommit
  /\ RowsAreTrue /\ CommitsHaveRows /\ AnswersHaveRows
  /\ ForksAreCopies /\ ViewsShowCommits
  /\ \A h \in Process : RowStored(h) /\ DraftFits(h)

\* The one step that writes: an accepted append, after which the handler has only
\* its projection and its answer to make.
Appends(h) ==
  /\ AppendCommit(cmd[h].stream, draft[h], cmd[h].key, cmd[h])
  /\ pc[h] = "append" /\ pc' = [pc EXCEPT ![h] = "project"]
  /\ UNCHANGED <<cmd, seen, draft, view, answers>>

\* Every step writes one commit so, or nothing.
LEMMA WritesOrNot ==
  ASSUME HandlersInv, [Next]_vars
  PROVE  UNCHANGED storeVars \/ \E h \in Process : Appends(h)
<1>1. CASE UNCHANGED vars
  BY <1>1 DEF vars, storeVars
<1>2. ASSUME NEW h \in Process, AppendDraft(h)
      PROVE  UNCHANGED storeVars \/ Appends(h)
  BY <1>2 DEF AppendDraft, Appends, Goto
<1>3. ASSUME NEW h \in Process,
             \/ \E p \in Payload : Submit(h, p)
             \/ Lookup(h) \/ Replay(h) \/ ReadHead(h) \/ CheckBranches(h)
             \/ ReadSource(h) \/ Project(h) \/ Crash(h)
      PROVE  UNCHANGED storeVars
  BY <1>3 DEF Submit, Lookup, Replay, ReadHead, CheckBranches, ReadSource, Project, Crash, storeVars
<1> QED BY <1>1, <1>2, <1>3 DEF Next

\* What an append leaves in the tables.
LEMMA AppendedTables ==
  ASSUME HandlersInv, NEW h \in Process, Appends(h)
  PROVE  LET s == cmd[h].stream  n == Len(log[s]) IN
         /\ s \in Stream /\ cmd[h] \in Payload /\ cmd[h].key \in Key /\ draft[h] \in Commit
         /\ n \in Nat /\ DOMAIN log'[s] = 1..(n + 1) /\ log'[s][n + 1] = draft[h]
         /\ DOMAIN log[s] = 1..n /\ \A i \in 1..n : log'[s][i] = log[s][i]
         /\ \A t \in Stream \ {s} : log'[t] = log[t]
         /\ keys' = keys \cup {KeyRowFor(s, draft[h], cmd[h].key, cmd[h])}
<1> DEFINE s == cmd[h].stream
<1>1. /\ s \in Stream /\ cmd[h] \in Payload /\ cmd[h].key \in Key /\ draft[h] \in Commit
      /\ log[s] \in Seq(Commit) /\ log \in [Stream -> Seq(Commit)]
  BY AppendDraftStores DEF Appends, HandlersInv, TypeOK, StoreTypeOK
<1>2. log' = [log EXCEPT ![s] = Append(log[s], draft[h])]
  BY DEF Appends, AppendCommit
<1>3. keys' = keys \cup {KeyRowFor(s, draft[h], cmd[h].key, cmd[h])}
  BY <1>1, NoneAssumption DEF Appends, AppendCommit
<1>4. /\ log'[s] = Append(log[s], draft[h])
      /\ \A t \in Stream \ {s} : log'[t] = log[t]
  BY <1>1, <1>2
<1> QED BY <1>1, <1>3, <1>4

\* Rows stay true, since the id of a new commit is nobody's; and a commit comes
\* with its row.
LEMMA RowsPreserved ==
  ASSUME HandlersInv, KeysNameTheirCommit, RowsAreTrue, CommitsHaveRows, [Next]_vars
  PROVE  RowsAreTrue' /\ CommitsHaveRows'
<1>1. CASE UNCHANGED storeVars
  BY <1>1 DEF storeVars, RowsAreTrue, CommitsHaveRows
<1>2. ASSUME NEW h \in Process, Appends(h)
      PROVE  RowsAreTrue' /\ CommitsHaveRows'
  <2> DEFINE s == cmd[h].stream
             n == Len(log[s])
             row == KeyRowFor(s, draft[h], cmd[h].key, cmd[h])
  <2>1. /\ s \in Stream /\ DOMAIN log'[s] = 1..(n + 1) /\ log'[s][n + 1] = draft[h]
        /\ n \in Nat /\ DOMAIN log[s] = 1..n /\ \A i \in 1..n : log'[s][i] = log[s][i]
        /\ \A t \in Stream \ {s} : log'[t] = log[t]
        /\ keys' = keys \cup {row}
    BY <1>2, AppendedTables
  <2>2. /\ row.stream = row.payload.stream /\ row.key = row.payload.key
        /\ row.stream = s /\ row.commit = draft[h].id
    BY DEF KeyRowFor
  <2>3. \A r \in keys : r.commit # draft[h].id
    <3> SUFFICES ASSUME NEW r \in keys PROVE r.commit # draft[h].id
      OBVIOUS
    <3>1. r.stream \in Stream
      BY DEF HandlersInv, TypeOK, StoreTypeOK, KeyRow
    <3>2. r.commit \in UsedCommitIds
      BY <3>1 DEF KeysNameTheirCommit, UsedCommitIds, Commits, Range
    <3> QED BY <1>2, <3>2 DEF Appends, AppendCommit, Accepts, IdsAreNew
  <2> HIDE DEF row
  <2>4. RowsAreTrue'
    BY <2>1, <2>2, <2>3 DEF RowsAreTrue
  <2>5. ASSUME NEW t \in Stream, NEW i \in DOMAIN log'[t]
        PROVE  \E r \in keys' : r.stream = t /\ r.commit = log'[t][i].id
    <3>1. CASE t = s /\ i = n + 1
      BY <3>1, <2>1, <2>2
    <3>2. CASE ~(t = s /\ i = n + 1)
      <4>1. i \in DOMAIN log[t] /\ log'[t][i] = log[t][i]
        <5>1. CASE t = s
          <6>1. i \in 1..n
            BY <3>2, <2>1, <5>1
          <6> QED BY <6>1, <2>1, <5>1
        <5>2. CASE t # s
          BY <2>1, <5>2
        <5> QED BY <5>1, <5>2
      <4> QED BY <4>1, <2>1 DEF CommitsHaveRows
    <3> QED BY <3>1, <3>2
  <2> QED BY <2>4, <2>5 DEF CommitsHaveRows
<1> QED BY <1>1, <1>2, WritesOrNot

\* A handler that does not move keeps its row.
LEMMA RowStoredStays ==
  ASSUME HandlersInv, NEW g \in Process, RowStored(g), keys \subseteq keys',
         pc'[g] = pc[g], cmd'[g] = cmd[g], draft'[g] = draft[g]
  PROVE  RowStored(g)'
BY DEF RowStored, KeyRowFor

\* No call but append_commit leads to the projection.
LEMMA RowStoredStep ==
  ASSUME HandlersInv, NEW h \in Process,
         \/ \E p \in Payload : Submit(h, p)
         \/ Lookup(h) \/ Replay(h) \/ ReadHead(h) \/ CheckBranches(h)
         \/ ReadSource(h) \/ AppendDraft(h) \/ Project(h) \/ Crash(h)
  PROVE  RowStored(h)'
<1>1. pc \in [Process -> {"idle", "lookup", "replay", "source", "head", "append", "project"}]
  BY DEF HandlersInv, TypeOK
<1>2. CASE pc'[h] # "project"
  BY <1>2 DEF RowStored
<1>3. CASE pc'[h] = "project"
  <2>1. AppendDraft(h) /\ ~Finish(h)
    BY <1>1, <1>3 DEF Submit, Lookup, Replay, ReadHead, CheckBranches, ReadSource, Project,
       Crash, Finish, Goto
  <2>2. Appends(h)
    BY <2>1 DEF AppendDraft, Appends, Goto
  <2>3. KeyRowFor(cmd[h].stream, draft[h], cmd[h].key, cmd[h]) \in keys'
    BY <2>2, AppendedTables
  <2> QED BY <2>2, <2>3 DEF RowStored, Appends, KeyRowFor
<1> QED BY <1>2, <1>3

\* An answer is given from a row: the one that was looked up, or the one that the
\* append of the same call has left.
LEMMA AnswersPreserved ==
  ASSUME HandlersInv, AnswersHaveRows, \A h \in Process : RowStored(h), [Next]_vars
  PROVE  AnswersHaveRows'
<1>1. keys \subseteq keys'
  BY HandlersUseTheStore, OnlyAppends DEF HandlersInv, TypeOK
<1>2. ASSUME UNCHANGED answers
      PROVE  AnswersHaveRows'
  BY <1>1, <1>2 DEF AnswersHaveRows
<1>3. ASSUME NEW h \in Process, NEW row \in keys, Answer(h, row.commit),
             row.stream = cmd[h].stream, row.key = cmd[h].key, row.payload = cmd[h]
      PROVE  AnswersHaveRows'
  <2>1. \A a \in answers' : a \in answers \/ a = [command |-> cmd[h], commit |-> row.commit]
    BY <1>3 DEF Answer
  <2> QED BY <1>1, <1>3, <2>1 DEF AnswersHaveRows
<1>4. ASSUME NEW h \in Process, Lookup(h)
      PROVE  AnswersHaveRows'
  <2>1. CASE UNCHANGED answers
    BY <2>1, <1>2
  <2>2. CASE \E row \in KeyRows(cmd[h].stream, cmd[h].key) :
               row.payload = cmd[h] /\ Answer(h, row.commit)
    BY <2>2, <1>3 DEF KeyRows
  <2> QED BY <1>4, <2>1, <2>2 DEF Lookup
<1>5. ASSUME NEW h \in Process, Project(h)
      PROVE  AnswersHaveRows'
  <2> DEFINE row == KeyRowFor(cmd[h].stream, draft[h], cmd[h].key, cmd[h])
  <2>1. row \in keys /\ Answer(h, draft[h].id)
    BY <1>5 DEF Project, RowStored
  <2>2. /\ row.stream = cmd[h].stream /\ row.key = cmd[h].key
        /\ row.payload = cmd[h] /\ row.commit = draft[h].id
    BY DEF KeyRowFor
  <2> QED BY <2>1, <2>2, <1>3
<1>6. ASSUME NEW h \in Process,
             \/ \E p \in Payload : Submit(h, p)
             \/ Replay(h) \/ ReadHead(h) \/ CheckBranches(h)
             \/ ReadSource(h) \/ AppendDraft(h) \/ Crash(h)
      PROVE  UNCHANGED answers
  BY <1>6 DEF Submit, Replay, ReadHead, CheckBranches, ReadSource, AppendDraft, Crash
<1>7. UNCHANGED vars => UNCHANGED answers
  BY DEF vars
<1> QED BY <1>2, <1>4, <1>5, <1>6, <1>7 DEF Next

----------------------------------------------------------------------------
(* Projections *)

\* A projection is emptied or rebuilt up to the last commit; commits are not lost.
LEMMA ViewsPreserved ==
  ASSUME HandlersInv, ViewsShowCommits, [Next]_vars
  PROVE  ViewsShowCommits'
<1> DEFINE Versions(s) == {0} \cup {LastVersion(c) : c \in Range(log[s])}
<1>1. ASSUME NEW s \in Stream
      PROVE  Versions(s) \subseteq Versions(s)'
  <2>1. CASE UNCHANGED storeVars
    BY <2>1 DEF storeVars
  <2>2. ASSUME NEW h \in Process, Appends(h)
        PROVE  Range(log[s]) \subseteq Range(log'[s])
    <3>1. CASE s = cmd[h].stream
      <4>1. \A i \in DOMAIN log[s] : i \in DOMAIN log'[s] /\ log'[s][i] = log[s][i]
        BY <2>2, <3>1, AppendedTables
      <4> QED BY <4>1 DEF Range
    <3>2. CASE s # cmd[h].stream
      BY <2>2, <3>2, AppendedTables
    <3> QED BY <3>1, <3>2
  <2>3. Range(log[s]) \subseteq Range(log'[s]) => Versions(s) \subseteq Versions(s)'
    BY DEF LastVersion
  <2> QED BY <2>1, <2>2, <2>3, WritesOrNot
<1>2. ASSUME NEW h \in Process, NEW s \in Stream
      PROVE  view'[h][s] \in Versions(s)'
  <2>1. CASE view'[h][s] = view[h][s]
    BY <2>1, <1>1 DEF ViewsShowCommits
  <2>2. CASE view'[h][s] = 0
    BY <2>2
  <2>3. CASE view'[h][s] = VersionOf(log[s]) /\ UNCHANGED storeVars
    <3>1. log[s] \in Seq(Commit) /\ log' = log
      BY <2>3 DEF HandlersInv, TypeOK, StoreTypeOK, storeVars
    <3>2. CASE log[s] = <<>>
      BY <2>3, <3>2 DEF VersionOf
    <3>3. CASE log[s] # <<>>
      <4>1. Len(log[s]) \in DOMAIN log[s] /\ VersionOf(log[s]) = LastVersion(log[s][Len(log[s])])
        BY <3>1, <3>3 DEF VersionOf
      <4>2. log[s][Len(log[s])] \in Range(log[s])
        BY <4>1 DEF Range
      <4>3. VersionOf(log[s]) \in Versions(s)
        BY <4>1, <4>2
      <4> QED BY <2>3, <4>3, <1>1
    <3> QED BY <3>2, <3>3
  <2>4. view'[h][s] = view[h][s] \/ view'[h][s] = 0
        \/ (view'[h][s] = VersionOf(log[s]) /\ UNCHANGED storeVars)
    <3>1. view \in [Process -> [Stream -> Nat]]
      BY DEF HandlersInv, TypeOK
    <3>2. CASE UNCHANGED vars
      BY <3>2 DEF vars
    <3>3. ASSUME NEW g \in Process, Project(g)
          PROVE  view'[h][s] = view[h][s]
                 \/ (view'[h][s] = VersionOf(log[s]) /\ UNCHANGED storeVars)
      <4>1. view' = [view EXCEPT ![g][cmd[g].stream] = VersionOf(log[cmd[g].stream])]
            /\ UNCHANGED storeVars
        BY <3>3 DEF Project
      <4>2. CASE g = h /\ cmd[g].stream = s
        BY <3>1, <4>1, <4>2
      <4>3. CASE g # h \/ cmd[g].stream # s
        BY <3>1, <4>1, <4>3
      <4> QED BY <4>2, <4>3
    <3>4. ASSUME NEW g \in Process, Crash(g)
          PROVE  view'[h][s] = view[h][s] \/ view'[h][s] = 0
      BY <3>1, <3>4 DEF Crash
    <3>5. ASSUME NEW g \in Process,
                 \/ \E p \in Payload : Submit(g, p)
                 \/ Lookup(g) \/ Replay(g) \/ ReadHead(g) \/ CheckBranches(g)
                 \/ ReadSource(g) \/ AppendDraft(g)
          PROVE  UNCHANGED view
      BY <3>5 DEF Submit, Lookup, Replay, ReadHead, CheckBranches, ReadSource, AppendDraft
    <3> QED BY <3>2, <3>3, <3>4, <3>5 DEF Next
  <2> QED BY <2>1, <2>2, <2>3, <2>4
<1> QED BY <1>2 DEF ViewsShowCommits

----------------------------------------------------------------------------
(* Forks *)

\* What get_events returned stays the beginning of what it returns.
LEMMA EventsGrow ==
  ASSUME HandlersInv, [Next]_vars, NEW s \in Stream
  PROVE  /\ EventsIn(log[s]) \in Seq(Event) /\ EventsIn(log'[s]) \in Seq(Event)
         /\ Len(EventsIn(log[s])) <= Len(EventsIn(log'[s]))
         /\ \A k \in 1..Len(EventsIn(log[s])) : EventsIn(log'[s])[k] = EventsIn(log[s])[k]
<1>1. StoreTypeOK /\ EventsIn(log[s]) \in Seq(Event)
  BY GetEventsType DEF HandlersInv, TypeOK, GetEvents, EventsIn
<1>2. CASE log'[s] = log[s]
  <2>1. EventsIn(log'[s]) = EventsIn(log[s])
    BY <1>2
  <2> QED BY <1>1, <2>1
<1>3. ASSUME NEW c \in Commit, log'[s] = Append(log[s], c)
      PROVE  EventsIn(log'[s]) = EventsIn(log[s]) \o c.events /\ c.events \in Seq(Event)
  <2> DEFINE lists(q) == [i \in DOMAIN q |-> q[i].events]
  <2>1. log[s] \in Seq(Commit) /\ c.events \in Seq(Event)
    BY <1>1 DEF StoreTypeOK, Commit
  <2>2. lists(log[s]) \in Seq(Seq(Event))
    <3>1. ASSUME NEW i \in 1..Len(log[s]) PROVE log[s][i].events \in Seq(Event)
      <4>1. log[s][i] \in Commit
        BY <2>1
      <4> QED BY <4>1 DEF Commit
    <3> QED BY <2>1, <3>1
  <2>3. lists(Append(log[s], c)) = Append(lists(log[s]), c.events)
    BY <2>1
  <2>4. EventsIn(log[s]) = FlattenSeq(lists(log[s])) /\ EventsIn(log'[s]) = FlattenSeq(lists(Append(log[s], c)))
    BY <1>3 DEF EventsIn
  <2> HIDE DEF lists
  <2> QED BY <2>1, <2>2, <2>3, <2>4, FlattenSeqAppend
<1>4. ASSUME NEW c \in Commit, log'[s] = Append(log[s], c)
      PROVE  /\ EventsIn(log'[s]) \in Seq(Event)
             /\ Len(EventsIn(log[s])) <= Len(EventsIn(log'[s]))
             /\ \A k \in 1..Len(EventsIn(log[s])) : EventsIn(log'[s])[k] = EventsIn(log[s])[k]
  <2>1. EventsIn(log'[s]) = EventsIn(log[s]) \o c.events /\ c.events \in Seq(Event)
    BY <1>3, <1>4
  <2> HIDE DEF EventsIn
  <2> DEFINE old == EventsIn(log[s])
             new == EventsIn(log'[s])
             more == c.events
  <2>2. old \in Seq(Event) /\ more \in Seq(Event) /\ new = old \o more
    BY <1>1, <2>1
  <2> HIDE DEF old, new, more
  <2>3. /\ new \in Seq(Event) /\ Len(old) <= Len(new)
        /\ \A k \in 1..Len(old) : new[k] = old[k]
    BY <2>2, ConcatElements
  <2> QED BY <2>3 DEF old, new
<1>5. log'[s] = log[s] \/ \E c \in Commit : log'[s] = Append(log[s], c)
  <2>1. CASE UNCHANGED storeVars
    BY <2>1 DEF storeVars
  <2>2. ASSUME NEW h \in Process, Appends(h)
        PROVE  log'[s] = log[s] \/ \E c \in Commit : log'[s] = Append(log[s], c)
    <3>1. draft[h] \in Commit
      BY <2>2, AppendedTables
    <3>2. log' = [log EXCEPT ![cmd[h].stream] = Append(log[cmd[h].stream], draft[h])]
          /\ log \in [Stream -> Seq(Commit)]
      BY <2>2, <1>1 DEF Appends, AppendCommit, StoreTypeOK
    <3> QED BY <3>1, <3>2
  <2> QED BY <2>1, <2>2, WritesOrNot
<1> QED BY <1>1, <1>2, <1>4, <1>5

\* A copy stays a copy while its source grows.
LEMMA CopyOfMore ==
  ASSUME HandlersInv, [Next]_vars
  PROVE  \A s \in Stream, c \in Commit : \A cutoff :
           IsCopyOf(c, EventsIn(log[s]), cutoff) => IsCopyOf(c, EventsIn(log'[s]), cutoff)
<1> SUFFICES ASSUME NEW s \in Stream, NEW c \in Commit, NEW cutoff,
                    IsCopyOf(c, EventsIn(log[s]), cutoff)
             PROVE  IsCopyOf(c, EventsIn(log'[s]), cutoff)
  OBVIOUS
<1> DEFINE m == Len(c.events)
           old == EventsIn(log[s])
           new == EventsIn(log'[s])
<1>1. m \in Nat /\ DOMAIN c.events = 1..m
  BY DEF Commit
<1>2. /\ old \in Seq(Event) /\ new \in Seq(Event) /\ Len(old) <= Len(new)
      /\ \A k \in 1..Len(old) : new[k] = old[k]
  BY EventsGrow
<1>3. m <= Len(old) /\ \A k \in 1..m : c.events[k].origin = old[k].id /\ c.events[k].version = old[k].version
  BY <1>1 DEF IsCopyOf
<1>4. m <= Len(new) /\ \A k \in 1..m : c.events[k].origin = new[k].id /\ c.events[k].version = new[k].version
  <2> HIDE DEF m, old, new
  <2> QED BY <1>1, <1>2, <1>3
<1> QED BY <1>1, <1>4 DEF IsCopyOf

\* The draft of CreateBranchHandler is a copy when it is made, the draft of
\* _persist has no source, and both stay so until they are appended.
LEMMA DraftFitsStep ==
  ASSUME HandlersInv, NEW h \in Process, [Next]_vars,
         \/ \E p \in Payload : Submit(h, p)
         \/ Lookup(h) \/ Replay(h) \/ ReadHead(h) \/ CheckBranches(h)
         \/ ReadSource(h) \/ AppendDraft(h) \/ Project(h) \/ Crash(h)
  PROVE  DraftFits(h)'
<1>1. /\ pc \in [Process -> {"idle", "lookup", "replay", "source", "head", "append", "project"}]
      /\ DOMAIN draft = Process
  BY DEF HandlersInv, TypeOK
<1>2. CASE pc'[h] # "append"
  BY <1>2 DEF DraftFits
<1>3. CASE pc'[h] = "append" /\ ReadHead(h)
  <2>1. /\ cmd'[h] = cmd[h] /\ cmd[h].kind # "fork"
        /\ cmd[h].stream \in Stream /\ streams[cmd[h].stream].head \in CommitId \cup {None}
    BY <1>3, Busy DEF ReadHead, HandlersInv, Snapshot, TypeOK, StoreTypeOK
  <2>2. \E parent, events : draft'[h] = Build(parent, None, events)
    BY <1>1, <1>3 DEF ReadHead
  <2>3. draft'[h].source = None
    BY <2>2 DEF Build
  <2> QED BY <2>1, <2>3 DEF DraftFits
<1>4. CASE pc'[h] = "append" /\ ReadSource(h)
  <2> DEFINE src == cmd[h].source
  <2>1. ~Finish(h)
    BY <1>1, <1>4 DEF Finish, Goto
  <2>2. PICK v \in Nat, d \in Commit :
          /\ draft' = [draft EXCEPT ![h] = d]
          /\ v <= Len(GetEvents(src))
          /\ v = IF cmd[h].cutoff = 0 THEN Len(GetEvents(src)) ELSE cmd[h].cutoff
          /\ d.parent = None /\ d.source = src
          /\ Len(d.events) = v /\ cmd[h].cutoff \in {0, v}
          /\ \A k \in 1..v : /\ d.events[k].version = GetEvents(src)[k].version
                            /\ d.events[k].origin = GetEvents(src)[k].id
    BY <1>4, <2>1, ReadSourceDraft
  <2>3. DOMAIN d.events = 1..v
    BY <2>2 DEF Commit
  <2>4. draft'[h] = d /\ cmd' = cmd /\ src \in Stream /\ log' = log
    BY <1>1, <1>4, <2>1, <2>2, Busy DEF ReadSource, HandlersInv, storeVars
  <2>5. IsCopyOf(d, EventsIn(log[src]), cmd[h].cutoff) /\ EventsIn(log'[src]) = EventsIn(log[src])
    BY <2>2, <2>3, <2>4 DEF IsCopyOf, GetEvents, EventsIn
  <2>6. cmd[h].kind = "fork"
    BY <1>4 DEF ReadSource, HandlersInv, Snapshot
  <2>7. cmd'[h] = cmd[h] /\ draft'[h].source = cmd[h].source
        /\ IsCopyOf(draft'[h], EventsIn(log'[src]), cmd[h].cutoff)
    BY <2>2, <2>4, <2>5
  <2> QED BY <2>4, <2>6, <2>7 DEF DraftFits, IsCopyOf, EventsIn
<1>5. CASE pc'[h] = "append" /\ ~ReadHead(h) /\ ~ReadSource(h)
  BY <1>1, <1>5 DEF Submit, Lookup, Replay, CheckBranches, AppendDraft, Project, Crash, Finish, Goto
<1> QED BY <1>2, <1>3, <1>4, <1>5

LEMMA DraftFitsStays ==
  ASSUME HandlersInv, NEW g \in Process, DraftFits(g), [Next]_vars,
         pc'[g] = pc[g], cmd'[g] = cmd[g], draft'[g] = draft[g]
  PROVE  DraftFits(g)'
<1>1. CASE pc[g] = "append" /\ cmd[g].kind = "fork"
  <2>1. draft[g] \in Commit /\ draft[g].source = cmd[g].source /\ cmd[g].source \in Stream
    BY <1>1, Busy DEF HandlersInv, TypeOK, DraftFits
  <2>2. IsCopyOf(draft[g], EventsIn(log[cmd[g].source]), cmd[g].cutoff)
    BY <1>1 DEF DraftFits
  <2>3. IsCopyOf(draft[g], EventsIn(log'[cmd[g].source]), cmd[g].cutoff)
    BY <2>1, <2>2, CopyOfMore
  <2> QED BY <1>1, <2>1, <2>3 DEF DraftFits, IsCopyOf, EventsIn
<1>2. CASE ~(pc[g] = "append" /\ cmd[g].kind = "fork")
  BY <1>2 DEF DraftFits
<1> QED BY <1>1, <1>2

\* A fork goes in as the first commit of its branch, with its row.
LEMMA ForksPreserved ==
  ASSUME HandlersInv, ForksAreCopies, \A h \in Process : DraftFits(h), [Next]_vars
  PROVE  ForksAreCopies'
<1>1. keys \subseteq keys' /\ StoreTypeOK
  BY HandlersUseTheStore, OnlyAppends DEF HandlersInv, TypeOK
<1>2. ASSUME NEW s \in Stream, NEW i \in DOMAIN log[s], log'[s][i] = log[s][i],
             log[s][i].source # None
      PROVE  /\ i = 1
             /\ \E row \in keys' :
                  /\ row.stream = s /\ row.commit = log[s][i].id
                  /\ IsCopyOf(log[s][i], EventsIn(log'[log[s][i].source]), row.payload.cutoff)
  <2>1. log[s][i] \in Commit /\ log[s][i].source \in Stream
    <3>1. log[s][i] \in Commit
      BY <1>1 DEF StoreTypeOK
    <3> QED BY <1>2, <3>1 DEF Commit
  <2>2. PICK row \in keys :
          /\ i = 1 /\ row.stream = s /\ row.commit = log[s][i].id
          /\ IsCopyOf(log[s][i], EventsIn(log[log[s][i].source]), row.payload.cutoff)
    BY <1>2 DEF ForksAreCopies
  <2>3. IsCopyOf(log[s][i], EventsIn(log'[log[s][i].source]), row.payload.cutoff)
    BY <2>1, <2>2, CopyOfMore
  <2> QED BY <1>1, <2>2, <2>3
<1>3. ASSUME NEW h \in Process, Appends(h), draft[h].source # None
      PROVE  /\ Len(log[cmd[h].stream]) = 0
             /\ \E row \in keys' :
                  /\ row.stream = cmd[h].stream /\ row.commit = draft[h].id
                  /\ IsCopyOf(draft[h], EventsIn(log'[draft[h].source]), row.payload.cutoff)
  <2> DEFINE s == cmd[h].stream
  <2>1. /\ s \in Stream /\ draft[h] \in Commit /\ Len(log[s]) \in Nat
        /\ KeyRowFor(s, draft[h], cmd[h].key, cmd[h]) \in keys'
    BY <1>3, AppendedTables
  <2>2. /\ draft[h].source = cmd[h].source
        /\ IsCopyOf(draft[h], EventsIn(log[cmd[h].source]), cmd[h].cutoff)
    BY <1>3 DEF Appends, DraftFits
  <2>3. draft[h].source \in Stream
    BY <1>3, <2>1 DEF Commit
  <2>4. IsCopyOf(draft[h], EventsIn(log'[draft[h].source]), cmd[h].cutoff)
    BY <2>1, <2>2, <2>3, CopyOfMore
  <2>5. Len(log[s]) = 0
    <3>1. streams[s].head = None
      BY <1>3, <2>2 DEF Appends, AppendCommit, Accepts, ParentIsHead, IsCopyOf
    <3>2. HeadIsLastCommit(s)
      BY <2>1 DEF HandlersInv, StreamsAreChains
    <3>3. log[s] \in Seq(Commit) /\ \A c \in Commit : c.id # None
      BY <1>1, <2>1, NoneAssumption DEF StoreTypeOK, Commit
    <3>4. Len(log[s]) # 0 => Len(log[s]) \in DOMAIN log[s]
      BY <3>3
    <3> QED BY <2>1, <3>1, <3>2, <3>3, <3>4 DEF HeadIsLastCommit
  <2> QED BY <2>1, <2>4, <2>5 DEF KeyRowFor
<1>4. ASSUME NEW s \in Stream, NEW i \in DOMAIN log'[s], log'[s][i].source # None
      PROVE  /\ i = 1
             /\ \E row \in keys' :
                  /\ row.stream = s /\ row.commit = log'[s][i].id
                  /\ IsCopyOf(log'[s][i], EventsIn(log'[log'[s][i].source]), row.payload.cutoff)
  <2>1. CASE UNCHANGED storeVars
    BY <1>2, <1>4, <2>1 DEF storeVars
  <2>2. ASSUME NEW h \in Process, Appends(h)
        PROVE  /\ i = 1
               /\ \E row \in keys' :
                    /\ row.stream = s /\ row.commit = log'[s][i].id
                    /\ IsCopyOf(log'[s][i], EventsIn(log'[log'[s][i].source]), row.payload.cutoff)
    <3> DEFINE t == cmd[h].stream
               n == Len(log[t])
    <3>1. /\ DOMAIN log'[t] = 1..(n + 1) /\ log'[t][n + 1] = draft[h] /\ n \in Nat
          /\ DOMAIN log[t] = 1..n /\ \A j \in 1..n : log'[t][j] = log[t][j]
          /\ \A u \in Stream \ {t} : log'[u] = log[u]
      BY <2>2, AppendedTables
    <3>2. CASE s = t /\ i = n + 1
      <4>1. log'[s][i] = draft[h]
        BY <3>1, <3>2
      <4>2. /\ n = 0
            /\ \E row \in keys' :
                 /\ row.stream = t /\ row.commit = draft[h].id
                 /\ IsCopyOf(draft[h], EventsIn(log'[draft[h].source]), row.payload.cutoff)
        BY <1>3, <1>4, <2>2, <4>1
      <4>3. EventsIn(log'[log'[s][i].source]) = EventsIn(log'[draft[h].source])
        BY <4>1
      <4> HIDE DEF n, t
      <4> QED BY <3>2, <4>1, <4>2, <4>3
    <3>3. CASE ~(s = t /\ i = n + 1)
      <4>1. i \in DOMAIN log[s] /\ log'[s][i] = log[s][i]
        <5>1. CASE s = t
          <6>1. i \in 1..n
            BY <1>4, <3>1, <3>3, <5>1
          <6> QED BY <6>1, <3>1, <5>1
        <5>2. CASE s # t
          BY <1>4, <3>1, <5>2
        <5> QED BY <5>1, <5>2
      <4>2. EventsIn(log'[log'[s][i].source]) = EventsIn(log'[log[s][i].source])
        BY <4>1
      <4> QED BY <1>2, <1>4, <4>1, <4>2
    <3> QED BY <3>2, <3>3
  <2> QED BY <2>1, <2>2, WritesOrNot
<1> QED BY <1>4 DEF ForksAreCopies, IsCopyOf, EventsIn


----------------------------------------------------------------------------
(* ProtocolInv is inductive *)

LEMMA ProtocolPreserved ==
  ASSUME ProtocolInv, [Next]_vars
  PROVE  ProtocolInv'
<1> USE DEF ProtocolInv
<1>1. HandlersInv' /\ [StoreNext]_storeVars /\ StoreTypeOK
  BY InvPreserved, HandlersUseTheStore DEF HandlersInv, TypeOK
<1>2. IdsAreUnique' /\ KeysNameTheirCommit' /\ keys \subseteq keys'
  BY <1>1, IdsPreserved, KeysPreserved, OnlyAppends
<1>3. RowsAreTrue' /\ CommitsHaveRows' /\ AnswersHaveRows' /\ ForksAreCopies' /\ ViewsShowCommits'
  BY RowsPreserved, AnswersPreserved, ForksPreserved, ViewsPreserved
<1>4. ASSUME NEW g \in Process PROVE RowStored(g)' /\ DraftFits(g)'
  <2>1. CASE UNCHANGED vars
    <3>1. pc'[g] = pc[g] /\ cmd'[g] = cmd[g] /\ draft'[g] = draft[g]
      BY <2>1 DEF vars
    <3> QED BY <3>1, <1>2, RowStoredStays, DraftFitsStays
  <2>2. CASE Next
    <3>1. PICK h \in Process :
            \/ \E p \in Payload : Submit(h, p)
            \/ Lookup(h) \/ Replay(h) \/ ReadHead(h) \/ CheckBranches(h)
            \/ ReadSource(h) \/ AppendDraft(h) \/ Project(h) \/ Crash(h)
      BY <2>2 DEF Next
    <3>2. CASE g = h
      BY <3>1, <3>2, RowStoredStep, DraftFitsStep
    <3>3. CASE g # h
      <4>1. pc'[g] = pc[g] /\ cmd'[g] = cmd[g] /\ draft'[g] = draft[g]
        BY <3>1, <3>3, OneAtATime
      <4> QED BY <4>1, <1>2, RowStoredStays, DraftFitsStays
    <3> QED BY <3>2, <3>3
  <2> QED BY <2>1, <2>2
<1> QED BY <1>1, <1>2, <1>3, <1>4

LEMMA ProtocolInit == Init => ProtocolInv
<1> SUFFICES ASSUME Init PROVE ProtocolInv
  OBVIOUS
<1>1. \A s \in Stream : log[s] = <<>>
  BY DEF Init, StoreInit
<1>2. IdsAreUnique
  <2>1. Commits = {}
    BY <1>1 DEF Commits, Range
  <2> QED BY <1>1, <2>1 DEF IdsAreUnique
<1>3. KeysNameTheirCommit /\ RowsAreTrue /\ CommitsHaveRows /\ AnswersHaveRows /\ ForksAreCopies
  BY <1>1 DEF Init, StoreInit, KeysNameTheirCommit, RowsAreTrue, CommitsHaveRows, AnswersHaveRows,
     ForksAreCopies
<1>4. ViewsShowCommits /\ \A h \in Process : RowStored(h) /\ DraftFits(h)
  BY DEF Init, ViewsShowCommits, RowStored, DraftFits
<1> QED BY <1>2, <1>3, <1>4, InitInv DEF ProtocolInv

LEMMA ProtocolInvariance == Spec => []ProtocolInv
<1>1. ProtocolInv /\ [Next]_vars => ProtocolInv'
  BY ProtocolPreserved
<1> QED BY <1>1, ProtocolInit, PTL DEF Spec

----------------------------------------------------------------------------
(* One command at a time *)

\* c has the events of these commits, all of them or up to the cutoff of p.
CopiesFrom(c, p, commits) ==
  LET origin == EventsIn(commits) IN
  /\ Len(c.events) = IF p.cutoff = 0 THEN Len(origin) ELSE p.cutoff
  /\ Len(c.events) <= Len(origin)
  /\ \A k \in DOMAIN c.events :
       c.events[k].origin = origin[k].id /\ c.events[k].version = k

\* What a handler has decided on the snapshot it carries to its write.
DecidedOn(h) ==
  /\ pc[h] \in {"head", "append"} /\ cmd[h].kind = "create" => seen[h] = <<>>
  /\ pc[h] \in {"head", "append"} /\ cmd[h].kind = "update" =>
       seen[h] # <<>> /\ VersionOf(seen[h]) = cmd[h].expected
  /\ pc[h] = "append" /\ cmd[h].kind = "create" => Len(draft[h].events) = 1
  /\ pc[h] = "append" /\ cmd[h].kind = "fork" =>
       IsPrefix(seen[h], log[cmd[h].source]) /\ CopiesFrom(draft[h], cmd[h], seen[h])

SerialInv == ProtocolInv /\ \A h \in Process : DecidedOn(h)

\* A handler that does not move keeps its decision: streams only grow.
LEMMA DecidedOnStays ==
  ASSUME HandlersInv, [StoreNext]_storeVars, NEW g \in Process, DecidedOn(g),
         pc'[g] = pc[g], cmd'[g] = cmd[g], seen'[g] = seen[g], draft'[g] = draft[g]
  PROVE  DecidedOn(g)'
<1>1. TypeOK /\ StoreTypeOK /\ StoreTypeOK'
  BY TypePreserved DEF HandlersInv, TypeOK
<1>2. ASSUME pc[g] = "append", cmd[g].kind = "fork"
      PROVE  IsPrefix(seen[g], log'[cmd[g].source])
  <2> DEFINE s == cmd[g].source
  <2>1. s \in Stream /\ seen[g] \in Seq(Commit)
    BY <1>1, <1>2, Busy DEF TypeOK
  <2>2. /\ log[s] \in Seq(Commit) /\ log'[s] \in Seq(Commit)
        /\ IsPrefix(log[s], log'[s]) /\ IsPrefix(seen[g], log[s])
    BY <1>1, <1>2, <2>1, OnlyAppends DEF StoreTypeOK, DecidedOn
  <2> HIDE DEF s
  <2> QED BY <2>1, <2>2, PrefixTransitive DEF s
<1> QED BY <1>1, <1>2 DEF DecidedOn, VersionOf, LastVersion, CopiesFrom, EventsIn

\* Only what is read at "head" and at "append" is decided on.
LEMMA DecidedOnFree ==
  ASSUME NEW h, pc'[h] \notin {"head", "append"}
  PROVE  DecidedOn(h)'
BY DEF DecidedOn

LEMMA DecidedOnStep ==
  ASSUME HandlersInv, NEW h \in Process, DecidedOn(h),
         \/ \E p \in Payload : Submit(h, p)
         \/ Lookup(h) \/ Replay(h) \/ ReadHead(h) \/ CheckBranches(h)
         \/ ReadSource(h) \/ AppendDraft(h) \/ Project(h) \/ Crash(h)
  PROVE  DecidedOn(h)'
<1>1. /\ pc \in [Process -> {"idle", "lookup", "replay", "source", "head", "append", "project"}]
      /\ DOMAIN seen = Process /\ DOMAIN draft = Process /\ DOMAIN cmd = Process
      /\ TypeOK /\ StoreTypeOK /\ StreamsAreChains
  BY DEF HandlersInv, TypeOK
<1>2. ASSUME Finish(h) PROVE DecidedOn(h)'
  BY <1>1, <1>2, DecidedOnFree DEF Finish, Goto
<1>3. CASE (\E p \in Payload : Submit(h, p)) \/ Lookup(h) \/ CheckBranches(h)
           \/ AppendDraft(h) \/ Project(h) \/ Crash(h)
  BY <1>1, <1>2, <1>3, DecidedOnFree
     DEF Submit, Lookup, CheckBranches, AppendDraft, Project, Crash, Goto
<1>4. CASE Replay(h) /\ ~Finish(h)
  <2>1. /\ pc'[h] = "head" /\ seen'[h] = log[cmd[h].stream] /\ cmd'[h] = cmd[h]
        /\ cmd[h].kind # "fork"
    BY <1>1, <1>4 DEF Replay, Goto
  <2>2. IF cmd[h].kind = "create" THEN log[cmd[h].stream] = <<>>
        ELSE log[cmd[h].stream] # <<>> /\ VersionOf(log[cmd[h].stream]) = cmd[h].expected
    BY <1>4 DEF Replay
  <2> QED BY <2>1, <2>2 DEF DecidedOn, VersionOf, LastVersion
<1>5. CASE ReadHead(h)
  <2>1. PICK d \in Commit : /\ draft' = [draft EXCEPT ![h] = d]
                            /\ cmd[h].kind = "create" => Len(d.events) = 1
    BY <1>5, ReadHeadDraft
  <2>2. /\ pc'[h] = "append" /\ pc[h] = "head" /\ draft'[h] = d
        /\ seen' = seen /\ cmd' = cmd /\ cmd[h].kind # "fork"
    BY <1>1, <1>5, <2>1 DEF ReadHead, Goto, HandlersInv, Snapshot
  <2> QED BY <2>1, <2>2 DEF DecidedOn, VersionOf, LastVersion
<1>6. CASE ReadSource(h) /\ ~Finish(h)
  <2> DEFINE src == cmd[h].source
  <2>1. PICK v \in Nat, d \in Commit :
          /\ draft' = [draft EXCEPT ![h] = d]
          /\ v <= Len(GetEvents(src))
          /\ v = IF cmd[h].cutoff = 0 THEN Len(GetEvents(src)) ELSE cmd[h].cutoff
          /\ d.parent = None /\ d.source = src
          /\ Len(d.events) = v /\ cmd[h].cutoff \in {0, v}
          /\ \A k \in 1..v : /\ d.events[k].version = GetEvents(src)[k].version
                            /\ d.events[k].origin = GetEvents(src)[k].id
    BY <1>6, ReadSourceDraft
  <2>2. /\ pc'[h] = "append" /\ draft'[h] = d /\ seen'[h] = log[src]
        /\ cmd'[h] = cmd[h] /\ log' = log /\ src \in Stream
        /\ cmd[h].kind = "fork" /\ log[src] \in Seq(Commit)
    BY <1>1, <1>6, <2>1, Busy DEF ReadSource, Goto, storeVars, HandlersInv, Snapshot, StoreTypeOK
  <2>3. DOMAIN d.events = 1..v
    BY <2>1 DEF Commit
  <2>4. GetEvents(src) \in Seq(Event) /\ \A k \in DOMAIN GetEvents(src) : GetEvents(src)[k].version = k
    BY <1>1, <2>2, ChainsAreNumbered, GetEventsType
  <2>5. \A k \in 1..v : d.events[k].version = k
    BY <2>1, <2>4
  <2>6. GetEvents(src) = EventsIn(log[src])
    BY DEF GetEvents, EventsIn
  <2>7. CopiesFrom(d, cmd[h], log[src])
    <3> HIDE DEF src
    <3> QED BY <2>1, <2>3, <2>5, <2>6 DEF CopiesFrom
  <2>8. IsPrefix(log[src], log[src])
    BY <2>2, PrefixOfAppend
  <2>9. CopiesFrom(draft'[h], cmd'[h], seen'[h]) /\ IsPrefix(seen'[h], log'[cmd'[h].source])
    BY <2>2, <2>7, <2>8
  <2>10. cmd'[h].kind = "fork" /\ pc'[h] = "append"
    BY <2>2
  <2> QED BY <2>9, <2>10 DEF DecidedOn, CopiesFrom, EventsIn
<1> QED BY <1>2, <1>3, <1>4, <1>5, <1>6

LEMMA SerialInvariance == Spec => []SerialInv
<1>1. Init => SerialInv
  BY ProtocolInit DEF Init, SerialInv, DecidedOn
<1>2. SerialInv /\ [Next]_vars => SerialInv'
  <2> SUFFICES ASSUME SerialInv, [Next]_vars PROVE SerialInv'
    OBVIOUS
  <2>1. ProtocolInv' /\ HandlersInv /\ [StoreNext]_storeVars
    BY ProtocolPreserved, HandlersUseTheStore DEF SerialInv, ProtocolInv
  <2>2. ASSUME NEW g \in Process PROVE DecidedOn(g)'
    <3>1. DecidedOn(g)
      BY DEF SerialInv
    <3>2. CASE UNCHANGED vars
      BY <2>1, <3>1, <3>2, DecidedOnStays DEF vars
    <3>3. CASE Next
      <4>1. PICK h \in Process :
              \/ \E p \in Payload : Submit(h, p)
              \/ Lookup(h) \/ Replay(h) \/ ReadHead(h) \/ CheckBranches(h)
              \/ ReadSource(h) \/ AppendDraft(h) \/ Project(h) \/ Crash(h)
        BY <3>3 DEF Next
      <4>2. CASE g = h
        BY <2>1, <3>1, <4>1, <4>2, DecidedOnStep
      <4>3. CASE g # h
        <5>1. pc'[g] = pc[g] /\ cmd'[g] = cmd[g] /\ seen'[g] = seen[g] /\ draft'[g] = draft[g]
          BY <2>1, <4>1, <4>3, OneAtATime
        <5> QED BY <2>1, <3>1, <5>1, DecidedOnStays
      <4> QED BY <4>2, <4>3
    <3> QED BY <3>2, <3>3
  <2> QED BY <2>1, <2>2 DEF SerialInv
<1> QED BY <1>1, <1>2, PTL DEF Spec

\* A stream without a head has no commits.
LEMMA EmptyWithoutHead ==
  ASSUME StoreTypeOK, StreamsAreChains, NEW s \in Stream, streams[s].head = None
  PROVE  log[s] = <<>>
<1>1. HeadIsLastCommit(s) /\ log[s] \in Seq(Commit) /\ \A c \in Commit : c.id # None
  BY NoneAssumption DEF StreamsAreChains, StoreTypeOK, Commit
<1>2. Len(log[s]) # 0 => log[s][Len(log[s])] \in Commit
  BY <1>1
<1>3. Len(log[s]) = 0
  BY <1>1, <1>2 DEF HeadIsLastCommit
<1> QED BY <1>1, <1>3

\* The events of a list of commits, there and here.
LEMMA SameEvents == \A commits : Serial!EventsOf(commits) = EventsIn(commits)
BY DEF Serial!EventsOf, EventsIn, Serial!FlattenSeq, FlattenSeq

\* The commit that an append stores is what its command does, in one step, to the
\* work as it is.
LEMMA StoresWhatItsCommandDoes ==
  ASSUME SerialInv, NEW h \in Process, Appends(h)
  PROVE  \/ Serial!Creates(cmd[h], draft[h])
         \/ Serial!Updates(cmd[h], draft[h])
         \/ Serial!Forks(cmd[h], draft[h])
<1> DEFINE p == cmd[h]
           c == draft[h]
           s == cmd[h].stream
<1>1. /\ HandlersInv /\ TypeOK /\ StoreTypeOK /\ StreamsAreChains
      /\ DecidedOn(h) /\ DraftFits(h) /\ pc[h] = "append"
      /\ AppendCommit(s, c, p.key, p)
  BY DEF SerialInv, ProtocolInv, HandlersInv, TypeOK, Appends
<1>2. /\ s \in Stream /\ p \in Payload /\ p.key \in Key /\ c \in Commit /\ log[s] \in Seq(Commit)
      /\ p.kind \in Kind /\ p.cutoff \in Nat /\ p.source \in Stream
  BY <1>1, AppendedTables, Busy DEF StoreTypeOK
<1>3. Accepts(s, c, p.key) /\ c.events \in Seq(Event) /\ streams[s].version \in Nat
  BY <1>1, <1>2 DEF AppendCommit, Commit, StoreTypeOK
<1>4. \A i \in DOMAIN c.events : c.events[i].version = streams[s].version + i
  BY <1>3 DEF Accepts, VersionsAreNext
<1>5. /\ Len(Serial!EventsOf(log[s])) = streams[s].version
      /\ VersionOf(log[s]) = streams[s].version
  <2>1. Serial!EventsOf(log[s]) = GetEvents(s)
    BY SameEvents DEF GetEvents, EventsIn
  <2> QED BY <1>1, <1>2, <2>1, ChainsAreNumbered, VersionOfStream
<1>6. p.kind # "fork" => log[s] = seen[h] /\ c.source = None
  BY <1>1, AppendedOntoSeen DEF DraftFits
<1>7. CASE p.kind = "create"
  <2>1. log[s] = <<>> /\ Len(c.events) = 1
    BY <1>1, <1>6, <1>7 DEF DecidedOn
  <2>2. streams[s].version = 0
    BY <1>5, <2>1 DEF VersionOf
  <2>3. c.events[1].version = 1
    BY <1>3, <1>4, <2>1, <2>2
  <2> QED BY <1>6, <1>7, <2>1, <2>3 DEF Serial!Creates
<1>8. CASE p.kind = "update"
  <2>1. log[s] # <<>> /\ VersionOf(log[s]) = p.expected
    BY <1>1, <1>6, <1>8 DEF DecidedOn
  <2>2. Len(Serial!EventsOf(log[s])) = p.expected /\ streams[s].version = p.expected
    BY <1>5, <2>1
  <2>3. \A i \in DOMAIN c.events : c.events[i].version = p.expected + i
    BY <1>4, <2>2
  <2> QED BY <1>6, <1>8, <2>1, <2>2, <2>3 DEF Serial!Updates
<1>9. CASE p.kind = "fork"
  <2> DEFINE n == Len(seen[h])
             origin == EventsIn(seen[h])
  <2>1. /\ c.source = p.source /\ c.parent = None
        /\ IsPrefix(seen[h], log[p.source]) /\ CopiesFrom(c, p, seen[h])
    BY <1>1, <1>9 DEF DraftFits, DecidedOn, IsCopyOf
  <2>2. log[s] = <<>>
    BY <1>1, <1>2, <1>3, <2>1, EmptyWithoutHead DEF Accepts, ParentIsHead
  <2>3. seen[h] \in Seq(Commit) /\ log[p.source] \in Seq(Commit)
    BY <1>1, <1>2 DEF TypeOK, StoreTypeOK
  <2>4. n \in 0..Len(log[p.source]) /\ SubSeq(log[p.source], 1, n) = seen[h]
    BY <2>1, <2>3 DEF IsPrefix
  <2>5. Serial!EventsOf(SubSeq(log[p.source], 1, n)) = origin
    BY <2>4, SameEvents
  <2>6. /\ Len(c.events) = IF p.cutoff = 0 THEN Len(origin) ELSE p.cutoff
        /\ Len(c.events) <= Len(origin)
        /\ \A k \in DOMAIN c.events : c.events[k].origin = origin[k].id /\ c.events[k].version = k
    BY <2>1 DEF CopiesFrom
  <2> HIDE DEF n, origin
  <2> QED BY <1>9, <2>1, <2>2, <2>4, <2>5, <2>6 DEF Serial!Forks
<1> QED BY <1>2, <1>7, <1>8, <1>9 DEF Kind

\* An append is the one step of its command.
LEMMA AppendPerforms ==
  ASSUME SerialInv, NEW h \in Process, Appends(h)
  PROVE  Serial!Perform(cmd[h])
<1> DEFINE p == cmd[h]
           c == draft[h]
           s == cmd[h].stream
<1>1. HandlersInv /\ StoreTypeOK /\ AppendCommit(s, c, p.key, p)
  BY DEF SerialInv, ProtocolInv, HandlersInv, TypeOK, Appends
<1>2. /\ s \in Stream /\ p.key \in Key /\ c \in Commit /\ log[s] \in Seq(Commit)
      /\ log \in [Stream -> Seq(Commit)]
      /\ keys' = keys \cup {KeyRowFor(s, c, p.key, p)}
  BY <1>1, AppendedTables DEF StoreTypeOK
<1>3. log' = [log EXCEPT ![s] = Append(log[s], c)] /\ c.events # <<>>
  BY <1>1 DEF AppendCommit, Accepts
<1>4. log'[s] # <<>> /\ Last(log'[s]) = c
  <2>1. log'[s] = Append(log[s], c)
    BY <1>2, <1>3
  <2> HIDE DEF s, c
  <2> QED BY <1>2, <2>1, LastOfAppend
<1>5. ~ \E row \in keys : row.stream = p.stream /\ row.key = p.key
  BY <1>1, <1>2, NoneAssumption DEF AppendCommit, Accepts, KeyIsFree, KeyRows
<1>6. Serial!Creates(p, c) \/ Serial!Updates(p, c) \/ Serial!Forks(p, c)
  BY StoresWhatItsCommandDoes
<1>7. keys' = keys \cup {[stream |-> p.stream, key |-> p.key, payload |-> p, commit |-> c.id]}
  BY <1>2 DEF KeyRowFor
<1>8. UNCHANGED answers
  BY DEF Appends
<1>9. Serial!CarriesOut(p, c)
  BY <1>3, <1>5, <1>6, <1>7, <1>8 DEF Serial!CarriesOut
<1> QED BY <1>4, <1>9 DEF Serial!Perform, Last, Serial!Last

\* An answer is the reply to a command that was carried out.
LEMMA AnswersReply ==
  ASSUME SerialInv, NEW h \in Process, Lookup(h) \/ Project(h)
  PROVE  Serial!Reply(cmd[h]) \/ UNCHANGED <<log, keys, answers>>
<1>1. UNCHANGED storeVars /\ cmd[h] \in Payload /\ RowStored(h)
  BY Busy DEF SerialInv, ProtocolInv, HandlersInv, Lookup, Project
<1>2. CASE UNCHANGED answers
  BY <1>1, <1>2 DEF storeVars
<1>3. ASSUME NEW row \in keys, row.stream = cmd[h].stream, row.key = cmd[h].key,
             row.payload = cmd[h], Answer(h, row.commit)
      PROVE  Serial!Reply(cmd[h])
  BY <1>1, <1>3 DEF Serial!Reply, Answer, storeVars
<1>4. CASE Lookup(h) /\ ~UNCHANGED answers
  <2>1. \E row \in KeyRows(cmd[h].stream, cmd[h].key) :
          row.payload = cmd[h] /\ Answer(h, row.commit)
    BY <1>4 DEF Lookup
  <2> QED BY <2>1, <1>3 DEF KeyRows
<1>5. CASE Project(h)
  <2> DEFINE row == KeyRowFor(cmd[h].stream, draft[h], cmd[h].key, cmd[h])
  <2>1. row \in keys /\ Answer(h, row.commit)
    BY <1>1, <1>5 DEF Project, RowStored, KeyRowFor
  <2>2. row.stream = cmd[h].stream /\ row.key = cmd[h].key /\ row.payload = cmd[h]
    BY DEF KeyRowFor
  <2> HIDE DEF row
  <2> QED BY <2>1, <2>2, <1>3
<1> QED BY <1>2, <1>4, <1>5

----------------------------------------------------------------------------
(* The theorems *)

\* The handlers' variables and the tables keep their types, with any number of
\* processes, crashes and retries.
THEOREM TypeCorrect == Spec => []TypeOK
<1>1. HandlersInv => TypeOK
  BY DEF HandlersInv
<1> QED BY <1>1, Invariance, PTL

\* No lost update: without any lock, a create or an update goes in only on top
\* of exactly the commits its handler replayed (_persist, append_commit).
THEOREM NoLostUpdate == Spec => AppendsOntoWhatItReplayed
<1>1. ASSUME HandlersInv, [Next]_vars, NEW g \in Process,
             pc[g] = "append", pc'[g] = "project", cmd[g].kind # "fork"
      PROVE  log[cmd[g].stream] = seen[g]
  <2>1. Next
    BY <1>1 DEF vars
  <2>2. PICK h \in Process :
          \/ \E p \in Payload : Submit(h, p)
          \/ Lookup(h) \/ Replay(h) \/ ReadHead(h) \/ CheckBranches(h)
          \/ ReadSource(h) \/ AppendDraft(h) \/ Project(h) \/ Crash(h)
    BY <2>1 DEF Next
  <2>3. h = g
    <3>1. h # g => pc'[g] = pc[g]
      BY <1>1, <2>2, OneAtATime
    <3> QED BY <1>1, <3>1
  <2>4. AppendDraft(g)
    BY <1>1, <2>2, <2>3 DEF Submit, Lookup, Replay, ReadHead, CheckBranches, ReadSource,
       Project, Crash, Finish, Goto, HandlersInv, TypeOK
  <2>5. ~Finish(g)
    BY <1>1 DEF Finish, Goto, HandlersInv, TypeOK
  <2>6. AppendCommit(cmd[g].stream, draft[g], cmd[g].key, cmd[g])
    BY <2>4, <2>5 DEF AppendDraft
  <2> QED BY <1>1, <2>6, AppendedOntoSeen
<1>2. HandlersInv /\ [Next]_vars =>
        [\A h \in Process :
           pc[h] = "append" /\ pc'[h] = "project" /\ cmd[h].kind # "fork"
             => log[cmd[h].stream] = seen[h]]_vars
  BY <1>1
<1> QED BY <1>2, Invariance, PTL DEF Spec, AppendsOntoWhatItReplayed

\* Serializability: the handlers implement the specification in which a command
\* is one step on the work as it is, at the version it names, at most once, and
\* every result is that of a command carried out.  The append is that step; the
\* reads before it are steps of nobody, because what they decided still holds.
THEOREM HandlersAreSerial == Spec => CommandsAreSerial
<1>1. Init => Serial!SerialInit
  BY DEF Init, StoreInit, Serial!SerialInit
<1>2. SerialInv /\ [Next]_vars => [Serial!SerialNext]_(Serial!serialVars)
  <2> SUFFICES ASSUME SerialInv, [Next]_vars
               PROVE  (\E p \in Payload : Serial!Perform(p) \/ Serial!Reply(p))
                      \/ UNCHANGED <<log, keys, answers>>
    BY DEF Serial!SerialNext, Serial!serialVars
  <2>1. HandlersInv
    BY DEF SerialInv, ProtocolInv
  <2>2. ASSUME NEW h \in Process, Appends(h) PROVE \E p \in Payload : Serial!Perform(p)
    BY <2>1, <2>2, AppendPerforms, AppendedTables
  <2>3. ASSUME NEW h \in Process, Lookup(h) \/ Project(h)
        PROVE  (\E p \in Payload : Serial!Reply(p)) \/ UNCHANGED <<log, keys, answers>>
    <3>1. cmd[h] \in Payload
      BY <2>1, <2>3, Busy DEF HandlersInv, Lookup, Project
    <3> QED BY <2>3, <3>1, AnswersReply
  <2>4. ASSUME NEW h \in Process, AppendDraft(h)
        PROVE  Appends(h) \/ UNCHANGED <<log, keys, answers>>
    BY <2>4 DEF AppendDraft, Appends, Goto, storeVars
  <2>5. ASSUME NEW h \in Process,
               \/ \E p \in Payload : Submit(h, p)
               \/ Replay(h) \/ ReadHead(h) \/ CheckBranches(h) \/ ReadSource(h) \/ Crash(h)
        PROVE  UNCHANGED <<log, keys, answers>>
    BY <2>5 DEF Submit, Replay, ReadHead, CheckBranches, ReadSource, Crash, storeVars
  <2>6. UNCHANGED vars => UNCHANGED <<log, keys, answers>>
    BY DEF vars
  <2> QED BY <2>2, <2>3, <2>4, <2>5, <2>6 DEF Next
<1> QED BY <1>1, <1>2, SerialInvariance, PTL DEF Spec, CommandsAreSerial, Serial!SerialSpec

\* A command takes effect once, whatever the retries, crashes and concurrent
\* duplicates: the key lookup of _idempotent may be long past, and still no
\* command has two commits and no commit two commands.
THEOREM CommandsTakeEffectOnce == Spec => []OneCommitPerCommand
<1>1. ProtocolInv => OneCommitPerCommand
  <2> SUFFICES ASSUME ProtocolInv, NEW s \in Stream, NEW i \in DOMAIN log[s]
               PROVE  /\ \E row \in keys : row.stream = s /\ row.commit = log[s][i].id
                      /\ \A r, q \in keys :
                           r.commit = log[s][i].id /\ (q.commit = r.commit \/ q.payload = r.payload)
                             => r = q
    BY DEF OneCommitPerCommand
  <2>1. \E row \in keys : row.stream = s /\ row.commit = log[s][i].id
    BY DEF ProtocolInv, CommitsHaveRows
  <2>2. \A r, q \in keys : r.payload = q.payload => r = q
    BY DEF ProtocolInv, RowsAreTrue, KeysNameTheirCommit
  <2>3. \A r, q \in keys : r.commit = q.commit => r = q
    BY DEF ProtocolInv, RowsAreTrue
  <2> QED BY <2>1, <2>2, <2>3
<1> QED BY <1>1, ProtocolInvariance, PTL

\* A result stays true: what _idempotent or the end of a handler returned names a
\* stored commit of the caller's stream, filed under the caller's own command.
THEOREM AnswersStayTrue == Spec => []AnswersAreDurable
<1>1. ProtocolInv => AnswersAreDurable
  <2> SUFFICES ASSUME ProtocolInv, NEW a \in answers
               PROVE  \E row \in keys :
                        /\ row.stream = a.command.stream /\ row.key = a.command.key
                        /\ row.payload = a.command /\ row.commit = a.commit
                        /\ \E i \in DOMAIN log[row.stream] : log[row.stream][i].id = a.commit
    BY DEF AnswersAreDurable
  <2>1. PICK row \in keys :
          /\ row.stream = a.command.stream /\ row.key = a.command.key
          /\ row.payload = a.command /\ row.commit = a.commit
    BY DEF ProtocolInv, AnswersHaveRows
  <2>2. \E i \in DOMAIN log[row.stream] : log[row.stream][i].id = row.commit
    BY DEF ProtocolInv, KeysNameTheirCommit
  <2> QED BY <2>1, <2>2
<1> QED BY <1>1, ProtocolInvariance, PTL

\* A projection shows whole commits: rebuild_work folds over one get_events.
THEOREM ViewsStayWhole == Spec => []ViewsShowCommits
<1>1. ProtocolInv => ViewsShowCommits
  BY DEF ProtocolInv
<1> QED BY <1>1, ProtocolInvariance, PTL

\* A branch is and stays a copy of the beginning of its source, up to the version
\* its command asked for, while CreateBranchHandler reads the source without a
\* lock and the source grows.
THEOREM ForksStayCopies == Spec => []ForksCopyAPrefix
<1>1. ProtocolInv => ForksCopyAPrefix
  <2> SUFFICES ASSUME ProtocolInv, NEW s \in Stream, NEW i \in DOMAIN log[s], log[s][i].source # None
               PROVE  LET copy == log[s][i].events
                          origin == GetEvents(log[s][i].source) IN
                      /\ i = 1 /\ Len(copy) <= Len(origin)
                      /\ \A k \in DOMAIN copy :
                           copy[k].origin = origin[k].id /\ copy[k].version = origin[k].version
                      /\ \E row \in keys :
                           /\ row.stream = s /\ row.commit = log[s][i].id
                           /\ row.payload.cutoff \in {0, Len(copy)}
    BY DEF ForksCopyAPrefix
  <2>1. PICK row \in keys :
          /\ i = 1 /\ row.stream = s /\ row.commit = log[s][i].id
          /\ IsCopyOf(log[s][i], EventsIn(log[log[s][i].source]), row.payload.cutoff)
    BY DEF ProtocolInv, ForksAreCopies
  <2>2. EventsIn(log[log[s][i].source]) = GetEvents(log[s][i].source)
    BY DEF EventsIn, GetEvents
  <2> QED BY <2>1, <2>2 DEF IsCopyOf
<1> QED BY <1>1, ProtocolInvariance, PTL

============================================================================
