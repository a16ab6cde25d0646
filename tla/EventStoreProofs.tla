-------------------------- MODULE EventStoreProofs --------------------------
(***************************************************************************)
(* Proofs about EventStore, for every value of its constants.  One append  *)
(* is the only step, so each invariant is shown to survive AppendCommit    *)
(* of an arbitrary commit that Accepts lets through.                       *)
(***************************************************************************)
EXTENDS EventStore, SequenceLemmas

\* A step of the store is one accepted append of a well-formed commit.
LEMMA StoreStep ==
  ASSUME StoreNext
  PROVE  \E s \in Stream, c \in Commit, k \in Key \cup {None}, p \in Payload :
           AppendCommit(s, c, k, p)
BY DEF StoreNext

\* The tables stay well formed through every append.
LEMMA TypeStep ==
  ASSUME StoreTypeOK, NEW s \in Stream, NEW c \in Commit,
         NEW k \in Key \cup {None}, NEW p \in Payload, AppendCommit(s, c, k, p)
  PROVE  StoreTypeOK'
<1>1. log' \in [Stream -> Seq(Commit)]
  BY DEF StoreTypeOK, AppendCommit
<1>2. LastVersion(c) \in Nat
  <2>1. c.events \in Seq(Event) /\ c.events # <<>>
    BY DEF AppendCommit, Accepts, Commit
  <2>2. c.events[Len(c.events)] \in Event
    BY <2>1
  <2> QED BY <2>2 DEF LastVersion, Event
<1>3. streams' \in [Stream -> [head : CommitId \cup {None}, version : Nat]]
  BY <1>2 DEF StoreTypeOK, AppendCommit, Commit
<1>4. keys' \subseteq KeyRow
  BY DEF StoreTypeOK, AppendCommit, KeyRowFor, KeyRow, Commit
<1> QED BY <1>1, <1>3, <1>4 DEF StoreTypeOK

\* Types survive every step.
LEMMA TypePreserved ==
  ASSUME StoreTypeOK, [StoreNext]_storeVars
  PROVE  StoreTypeOK'
<1>1. CASE StoreNext
  BY <1>1, StoreStep, TypeStep
<1>2. CASE UNCHANGED storeVars
  BY <1>2 DEF storeVars, StoreTypeOK
<1> QED BY <1>1, <1>2

\* The tables are well formed in every state (append_commit, _create_schema).
THEOREM StoreTypeCorrect == StoreSpec => []StoreTypeOK
<1>1. StoreInit => StoreTypeOK
  BY DEF StoreInit, StoreTypeOK
<1>2. StoreTypeOK /\ [StoreNext]_storeVars => StoreTypeOK'
  BY TypePreserved
<1> QED BY <1>1, <1>2, PTL DEF StoreSpec

----------------------------------------------------------------------------
(* Streams are chains *)

\* What an accepted commit looks like: its versions run on from the head's.
LEMMA AcceptedVersions ==
  ASSUME StoreTypeOK, NEW s \in Stream, NEW c \in Commit,
         NEW k \in Key \cup {None}, Accepts(s, c, k)
  PROVE  /\ Len(c.events) \in Nat \ {0}
         /\ FirstVersion(c) = streams[s].version + 1
         /\ LastVersion(c) = streams[s].version + Len(c.events)
         /\ \A i \in DOMAIN c.events : c.events[i].version = FirstVersion(c) + i - 1
<1>1. c.events \in Seq(Event) /\ c.events # <<>>
  BY DEF Accepts, Commit
<1>2. Len(c.events) \in Nat \ {0} /\ DOMAIN c.events = 1..Len(c.events)
  BY <1>1
<1>3. streams[s].version \in Nat
  BY DEF StoreTypeOK
<1>4. \A i \in DOMAIN c.events : c.events[i].version = streams[s].version + i
  BY DEF Accepts, VersionsAreNext
<1>5. FirstVersion(c) = streams[s].version + 1
  BY <1>2, <1>4 DEF FirstVersion
<1>6. LastVersion(c) = streams[s].version + Len(c.events)
  BY <1>2, <1>4 DEF LastVersion
<1>7. ASSUME NEW i \in DOMAIN c.events
      PROVE  c.events[i].version = FirstVersion(c) + i - 1
  <2>1. c.events[i].version = streams[s].version + i /\ i \in Nat
    BY <1>2, <1>4
  <2> QED BY <2>1, <1>3, <1>5
<1> QED BY <1>2, <1>5, <1>6, <1>7

\* The versions of a stored commit: it has some, and they start at 1 or later.
LEMMA StoredVersions ==
  ASSUME StoreTypeOK, StreamsAreChains, NEW s \in Stream, NEW i \in DOMAIN log[s]
  PROVE  /\ FirstVersion(log[s][i]) \in Nat \ {0}
         /\ LastVersion(log[s][i]) \in Nat
         /\ FirstVersion(log[s][i]) <= LastVersion(log[s][i])
<1> DEFINE c == log[s][i]
           n == Len(c.events)
<1>1. log[s] \in Seq(Commit) /\ Chained(s) /\ Increasing(s)
  BY DEF StoreTypeOK, StreamsAreChains
<1>2. c.events \in Seq(Event) /\ c.events # <<>>
  <2>1. c \in Commit /\ c.events # <<>>
    BY <1>1 DEF Increasing
  <2> QED BY <2>1 DEF Commit
<1>3. n \in Nat \ {0} /\ n \in DOMAIN c.events /\ 1 \in DOMAIN c.events
  BY <1>2
<1>4. c.events[1] \in Event /\ c.events[n] \in Event
  BY <1>2, <1>3
<1>5. FirstVersion(c) \in Nat /\ LastVersion(c) \in Nat
  BY <1>4 DEF FirstVersion, LastVersion, Event
<1>6. LastVersion(c) = FirstVersion(c) + n - 1
  BY <1>1, <1>3 DEF Increasing, LastVersion
<1>7. FirstVersion(c) # 0
  <2>1. CASE i = 1
    BY <2>1, <1>1 DEF Chained
  <2>2. CASE i # 1
    <3>1. i - 1 \in DOMAIN log[s] /\ log[s][i-1] \in Commit /\ log[s][i-1].events # <<>>
      BY <2>2, <1>1 DEF Increasing
    <3>2. log[s][i-1].events[Len(log[s][i-1].events)] \in Event
      BY <3>1 DEF Commit
    <3>3. FirstVersion(c) = LastVersion(log[s][i-1]) + 1
      BY <2>2, <1>1 DEF Chained
    <3> QED BY <3>2, <3>3 DEF LastVersion, Event
  <2> QED BY <2>1, <2>2
<1> QED BY <1>3, <1>5, <1>6, <1>7

\* Later commits of a stream end at later versions.
LEMMA LaterVersions ==
  ASSUME StoreTypeOK, StreamsAreChains, NEW s \in Stream,
         NEW i \in DOMAIN log[s], NEW j \in DOMAIN log[s], i < j
  PROVE  LastVersion(log[s][i]) < LastVersion(log[s][j])
<1>1. LastVersion(log[s][i]) < FirstVersion(log[s][j])
  BY DEF StreamsAreChains, Increasing
<1> QED BY <1>1, StoredVersions

\* The stream that grows is still one chain ...
LEMMA ChainStep ==
  ASSUME StoreTypeOK, StreamsAreChains, NEW s \in Stream, NEW c \in Commit,
         NEW k \in Key \cup {None}, NEW p \in Payload, AppendCommit(s, c, k, p)
  PROVE  (HeadIsLastCommit(s) /\ Chained(s) /\ Increasing(s))'
<1> DEFINE n == Len(log[s])
<1>1. /\ log[s] \in Seq(Commit) /\ n \in Nat
      /\ log'[s] = Append(log[s], c)
      /\ streams'[s] = [head |-> c.id, version |-> LastVersion(c)]
  BY DEF StoreTypeOK, AppendCommit
<1>2. /\ Len(log'[s]) = n + 1 /\ DOMAIN log'[s] = 1..(n + 1)
      /\ log'[s][n + 1] = c
      /\ \A i \in 1..n : log'[s][i] = log[s][i]
  BY <1>1
<1>3. Accepts(s, c, k)
  BY DEF AppendCommit
<1>4. /\ FirstVersion(c) = streams[s].version + 1
      /\ LastVersion(c) = streams[s].version + Len(c.events)
      /\ Len(c.events) \in Nat \ {0}
      /\ \A i \in DOMAIN c.events : c.events[i].version = FirstVersion(c) + i - 1
  BY <1>3, AcceptedVersions
<1>5. streams[s].version \in Nat
  BY DEF StoreTypeOK
<1>6. HeadIsLastCommit(s) /\ Chained(s) /\ Increasing(s)
  BY DEF StreamsAreChains
<1>7. c.parent = streams[s].head
  BY <1>3 DEF Accepts, ParentIsHead
<1>8. HeadIsLastCommit(s)'
  BY <1>1, <1>2 DEF HeadIsLastCommit, LastVersion
<1>9. Chained(s)'
  <2> SUFFICES ASSUME NEW i \in 1..(n + 1)
      PROVE IF i = 1 THEN log'[s][1].parent = None /\ FirstVersion(log'[s][1]) = 1
            ELSE /\ log'[s][i].parent = log'[s][i-1].id
                 /\ FirstVersion(log'[s][i]) = LastVersion(log'[s][i-1]) + 1
    BY <1>2 DEF Chained, FirstVersion, LastVersion
  <2>1. CASE i \in 1..n
    BY <2>1, <1>1, <1>2, <1>6 DEF Chained
  <2>2. CASE i = n + 1 /\ n = 0
    BY <2>2, <1>2, <1>4, <1>6, <1>7 DEF HeadIsLastCommit
  <2>3. CASE i = n + 1 /\ n # 0
    BY <2>3, <1>1, <1>2, <1>4, <1>6, <1>7 DEF HeadIsLastCommit
  <2> QED BY <1>1, <2>1, <2>2, <2>3
<1>10. Increasing(s)'
  <2>1. ASSUME NEW i \in 1..(n + 1)
        PROVE  /\ log'[s][i].events # <<>>
               /\ \A j \in DOMAIN log'[s][i].events :
                    log'[s][i].events[j].version = FirstVersion(log'[s][i]) + j - 1
    <3>1. CASE i \in 1..n
      BY <3>1, <1>1, <1>2, <1>6 DEF Increasing
    <3>2. CASE i = n + 1
      BY <3>2, <1>2, <1>3, <1>4 DEF Accepts
    <3> QED BY <1>1, <3>1, <3>2
  <2>2. ASSUME NEW i \in 1..(n + 1), NEW j \in 1..(n + 1), i < j
        PROVE  LastVersion(log'[s][i]) < FirstVersion(log'[s][j])
    <3>1. CASE j \in 1..n
      BY <3>1, <2>2, <1>1, <1>2, <1>6 DEF Increasing
    <3>2. CASE j = n + 1
      <4>1. i \in 1..n /\ n # 0
        BY <3>2, <2>2, <1>1
      <4>2. streams[s].version = LastVersion(log[s][n])
        BY <4>1, <1>6 DEF HeadIsLastCommit
      <4>3. i \in DOMAIN log[s] /\ n \in DOMAIN log[s]
        BY <4>1, <1>1
      <4>4. LastVersion(log[s][i]) \in Nat /\ LastVersion(log[s][i]) <= LastVersion(log[s][n])
        BY <4>1, <4>3, LaterVersions, StoredVersions
      <4> QED BY <3>2, <4>1, <4>2, <4>3, <4>4, <1>2, <1>4, <1>5
    <3> QED BY <1>1, <3>1, <3>2
  <2> QED BY <2>1, <2>2, <1>2 DEF Increasing, FirstVersion, LastVersion
<1> QED BY <1>8, <1>9, <1>10

\* ... and no other stream moves.
LEMMA OtherStreams ==
  ASSUME StoreTypeOK, StreamsAreChains, NEW s \in Stream, NEW t \in Stream \ {s},
         NEW c \in Commit, NEW k \in Key \cup {None}, NEW p \in Payload,
         AppendCommit(s, c, k, p)
  PROVE  (HeadIsLastCommit(t) /\ Chained(t) /\ Increasing(t))'
<1>1. log'[t] = log[t] /\ streams'[t] = streams[t]
  BY DEF StoreTypeOK, AppendCommit
<1>2. HeadIsLastCommit(t) /\ Chained(t) /\ Increasing(t)
  BY DEF StreamsAreChains
<1> QED BY <1>1, <1>2 DEF HeadIsLastCommit, Chained, Increasing, FirstVersion, LastVersion

\* Chains survive every step.
LEMMA ChainsPreserved ==
  ASSUME StoreTypeOK, StreamsAreChains, [StoreNext]_storeVars
  PROVE  StreamsAreChains'
<1>1. CASE StoreNext
  <2>1. PICK s \in Stream, c \in Commit, k \in Key \cup {None}, p \in Payload :
          AppendCommit(s, c, k, p)
    BY <1>1, StoreStep
  <2> QED BY <2>1, ChainStep, OtherStreams DEF StreamsAreChains
<1>2. CASE UNCHANGED storeVars
  BY <1>2 DEF storeVars, StreamsAreChains, HeadIsLastCommit, Chained, Increasing,
              FirstVersion, LastVersion
<1> QED BY <1>1, <1>2

\* Whatever is submitted, every stream is one unbroken chain numbered from 1 to
\* the recorded head (append_commit's parent and version checks).
THEOREM StreamsStayChains == StoreSpec => []StreamsAreChains
<1>1. StoreInit => StreamsAreChains
  BY DEF StoreInit, StreamsAreChains, HeadIsLastCommit, Chained, Increasing
<1>2. StoreTypeOK /\ StreamsAreChains /\ [StoreNext]_storeVars => StreamsAreChains'
  BY ChainsPreserved
<1> QED BY <1>1, <1>2, StoreTypeCorrect, PTL DEF StoreSpec

----------------------------------------------------------------------------
(* Ids *)

\* A new commit brings only ids that no stored commit has.
LEMMA IdStep ==
  ASSUME StoreTypeOK, IdsAreUnique, NEW s \in Stream, NEW c \in Commit,
         NEW k \in Key \cup {None}, NEW p \in Payload, AppendCommit(s, c, k, p)
  PROVE  IdsAreUnique'
<1> DEFINE n == Len(log[s])
<1>1. /\ log[s] \in Seq(Commit) /\ n \in Nat
      /\ log' = [log EXCEPT ![s] = Append(log[s], c)]
      /\ IdsAreNew(c)
  BY DEF StoreTypeOK, AppendCommit, Accepts
<1>2. /\ DOMAIN log'[s] = 1..(n + 1)
      /\ log'[s][n + 1] = c
      /\ \A i \in 1..n : log'[s][i] = log[s][i]
      /\ \A t \in Stream \ {s} : log'[t] = log[t]
      /\ DOMAIN log[s] = 1..n
  BY <1>1 DEF StoreTypeOK
<1>3. ASSUME NEW t \in Stream, NEW i \in DOMAIN log'[t]
      PROVE  \/ t = s /\ i = n + 1 /\ log'[t][i] = c
             \/ i \in DOMAIN log[t] /\ log'[t][i] = log[t][i] /\ log[t][i] \in Commits
  <2>1. CASE t = s /\ i = n + 1
    BY <2>1, <1>2
  <2>2. CASE ~(t = s /\ i = n + 1)
    <3>1. i \in DOMAIN log[t] /\ log'[t][i] = log[t][i]
      BY <2>2, <1>1, <1>2
    <3> QED BY <3>1 DEF Commits, Range
  <2> QED BY <2>1, <2>2
<1>4. \A d \in Commits : d.id # c.id /\ EventIdsOf(c) \cap EventIdsOf(d) = {}
  BY <1>1 DEF IdsAreNew, UsedCommitIds, UsedEventIds
<1>5. \A d \in Commits : \A i \in DOMAIN c.events, j \in DOMAIN d.events :
        c.events[i].id # d.events[j].id
  BY <1>4 DEF EventIdsOf
<1>6. \A t, u \in Stream : \A i \in DOMAIN log'[t], j \in DOMAIN log'[u] :
        log'[t][i].id = log'[u][j].id => t = u /\ i = j
  BY <1>3, <1>4 DEF IdsAreUnique
<1>7. Commits' \subseteq Commits \cup {c}
  <2> SUFFICES ASSUME NEW d \in Commits' PROVE d \in Commits \cup {c}
    OBVIOUS
  <2>1. PICK t \in Stream : \E i \in DOMAIN log'[t] : d = log'[t][i]
    BY DEF Commits, Range
  <2> QED BY <2>1, <1>3
<1>8. \A d, e \in Commits' : \A i \in DOMAIN d.events, j \in DOMAIN e.events :
        d.events[i].id = e.events[j].id => d = e /\ i = j
  BY <1>1, <1>5, <1>7 DEF IdsAreUnique, IdsAreNew
<1> QED BY <1>6, <1>8 DEF IdsAreUnique

\* Unique ids survive every step.
LEMMA IdsPreserved ==
  ASSUME StoreTypeOK, IdsAreUnique, [StoreNext]_storeVars
  PROVE  IdsAreUnique'
<1>1. CASE StoreNext
  BY <1>1, StoreStep, IdStep
<1>2. CASE UNCHANGED storeVars
  <2>1. log' = log
    BY <1>2 DEF storeVars
  <2>2. Commits' = Commits
    BY <2>1 DEF Commits
  <2> QED BY <2>1, <2>2 DEF IdsAreUnique
<1> QED BY <1>1, <1>2

\* No commit_id and no event_id is ever stored twice, in any branch (the
\* primary keys of commits and events, checked before the transaction).
THEOREM IdsStayUnique == StoreSpec => []IdsAreUnique
<1>1. StoreInit => IdsAreUnique
  BY DEF StoreInit, IdsAreUnique, Commits, Range
<1>2. StoreTypeOK /\ IdsAreUnique /\ [StoreNext]_storeVars => IdsAreUnique'
  BY IdsPreserved
<1> QED BY <1>1, <1>2, StoreTypeCorrect, PTL DEF StoreSpec

----------------------------------------------------------------------------
(* Idempotency keys *)

\* One row a key, and the commit it names is in the stream of the key.
LEMMA KeyStep ==
  ASSUME StoreTypeOK, KeysNameTheirCommit, NEW s \in Stream, NEW c \in Commit,
         NEW k \in Key \cup {None}, NEW p \in Payload, AppendCommit(s, c, k, p)
  PROVE  KeysNameTheirCommit'
<1> DEFINE n == Len(log[s])
           new == [stream |-> s, key |-> k, payload |-> p, commit |-> c.id]
<1>1. \A t \in Stream : \A i \in DOMAIN log[t] : i \in DOMAIN log'[t] /\ log'[t][i] = log[t][i]
  BY DEF StoreTypeOK, AppendCommit
<1>2. log[s] \in Seq(Commit) /\ n + 1 \in DOMAIN log'[s] /\ log'[s][n + 1] = c
  BY DEF StoreTypeOK, AppendCommit
<1>3. \A r \in keys : r.stream \in Stream
  BY DEF StoreTypeOK, KeyRow
<1>4. CASE k = None
  <2>1. keys' = keys
    BY <1>4 DEF AppendCommit
  <2> QED BY <2>1, <1>1, <1>3 DEF KeysNameTheirCommit
<1>5. CASE k # None
  <2>1. keys' = keys \cup {new}
    BY <1>5 DEF AppendCommit, KeyRowFor
  <2>2. \A r \in keys : ~(r.stream = s /\ r.key = k)
    BY <1>5 DEF AppendCommit, Accepts, KeyIsFree, KeyRows
  <2>3. \A r, q \in keys' : r.stream = q.stream /\ r.key = q.key => r = q
    BY <2>1, <2>2 DEF KeysNameTheirCommit
  <2>4. ASSUME NEW r \in keys'
        PROVE  \E i \in DOMAIN log'[r.stream] : log'[r.stream][i].id = r.commit
    <3>1. CASE r = new
      BY <3>1, <1>2
    <3>2. CASE r \in keys
      BY <3>2, <1>1, <1>3 DEF KeysNameTheirCommit
    <3> QED BY <2>1, <3>1, <3>2
  <2> QED BY <2>3, <2>4 DEF KeysNameTheirCommit
<1> QED BY <1>4, <1>5

\* The key table survives every step.
LEMMA KeysPreserved ==
  ASSUME StoreTypeOK, KeysNameTheirCommit, [StoreNext]_storeVars
  PROVE  KeysNameTheirCommit'
<1>1. CASE StoreNext
  BY <1>1, StoreStep, KeyStep
<1>2. CASE UNCHANGED storeVars
  BY <1>2 DEF storeVars, KeysNameTheirCommit
<1> QED BY <1>1, <1>2

\* An idempotency key never stands for two commits, nor for a commit of another
\* stream or of none (idempotency_keys, written with its commit).
THEOREM KeysStayTrue == StoreSpec => []KeysNameTheirCommit
<1>1. StoreInit => KeysNameTheirCommit
  BY DEF StoreInit, KeysNameTheirCommit
<1>2. StoreTypeOK /\ KeysNameTheirCommit /\ [StoreNext]_storeVars => KeysNameTheirCommit'
  BY KeysPreserved
<1> QED BY <1>1, <1>2, StoreTypeCorrect, PTL DEF StoreSpec

----------------------------------------------------------------------------
(* Nothing stored is rewritten *)

\* What was stored is still there, in its place, after every step.
LEMMA OnlyAppends ==
  ASSUME StoreTypeOK, [StoreNext]_storeVars
  PROVE  /\ \A s \in Stream : IsPrefix(log[s], log'[s])
         /\ keys \subseteq keys'
<1>1. CASE StoreNext
  <2>1. PICK s \in Stream, c \in Commit, k \in Key \cup {None}, p \in Payload :
          AppendCommit(s, c, k, p)
    BY <1>1, StoreStep
  <2>2. keys \subseteq keys'
    BY <2>1 DEF AppendCommit
  <2>3. ASSUME NEW t \in Stream PROVE IsPrefix(log[t], log'[t])
    <3>1. /\ log[t] \in Seq(Commit)
          /\ log'[t] = log[t] \/ log'[t] = Append(log[t], c)
      BY <2>1 DEF StoreTypeOK, AppendCommit
    <3> QED BY <3>1, PrefixOfAppend
  <2> QED BY <2>2, <2>3
<1>2. CASE UNCHANGED storeVars
  <2>1. log' = log /\ keys' = keys /\ \A s \in Stream : log[s] \in Seq(Commit)
    BY <1>2 DEF storeVars, StoreTypeOK
  <2> QED BY <2>1, PrefixOfAppend
<1> QED BY <1>1, <1>2

\* Every append extends one stream at its end and keeps every key, so what a
\* reader or a branch copied stays true (there is no UPDATE or DELETE of them).
THEOREM StoreAppendsOnly == StoreSpec => AppendOnly
<1>1. StoreTypeOK /\ [StoreNext]_storeVars =>
        [/\ \A s \in Stream : IsPrefix(log[s], log'[s])
         /\ keys \subseteq keys']_storeVars
  BY OnlyAppends
<1> QED BY <1>1, StoreTypeCorrect, PTL DEF StoreSpec, AppendOnly

----------------------------------------------------------------------------
(* Reading a stream *)

\* What the store returns for a stream is made of events.
LEMMA GetEventsType ==
  ASSUME StoreTypeOK, NEW s \in Stream
  PROVE  GetEvents(s) \in Seq(Event)
<1>1. log[s] \in Seq(Commit)
  BY DEF StoreTypeOK
<1>2. [i \in DOMAIN log[s] |-> log[s][i].events] \in Seq(Seq(Event))
  <2>1. ASSUME NEW i \in 1..Len(log[s]) PROVE log[s][i].events \in Seq(Event)
    <3>1. log[s][i] \in Commit
      BY <1>1
    <3> QED BY <3>1 DEF Commit
  <2>2. DOMAIN log[s] = 1..Len(log[s]) /\ Len(log[s]) \in Nat
    BY <1>1
  <2> QED BY <2>1, <2>2
<1> QED BY <1>2, FlattenSeqType DEF GetEvents

\* What UpTo's recursive function satisfies on 0..n.
Keeps(f, events, version, n) ==
  f = [i \in 0..n |->
         IF i = 0 THEN <<>>
         ELSE IF events[i].version <= version THEN Append(f[i-1], events[i])
         ELSE f[i-1]]

\* Such a function exists.
LEMMA KeepsExists ==
  ASSUME NEW events \in Seq(Event), NEW version \in Nat
  PROVE  \E f : Keeps(f, events, version, Len(events))
<1> DEFINE T == {n \in Nat : n <= Len(events) =>
                   \E f \in [0..n -> Seq(Event)] : Keeps(f, events, version, n)}
<1>1. 0 \in T
  <2> DEFINE f == [i \in 0..0 |-> <<>>]
  <2>1. f \in [0..0 -> Seq(Event)] /\ Keeps(f, events, version, 0)
    BY DEF Keeps
  <2> QED BY <2>1
<1>2. ASSUME NEW n \in T PROVE n + 1 \in T
  <2> SUFFICES ASSUME n + 1 <= Len(events)
               PROVE  \E g \in [0..(n + 1) -> Seq(Event)] : Keeps(g, events, version, n + 1)
    OBVIOUS
  <2>1. PICK f \in [0..n -> Seq(Event)] : Keeps(f, events, version, n)
    OBVIOUS
  <2> DEFINE g == [i \in 0..(n + 1) |->
                     IF i \in 0..n THEN f[i]
                     ELSE IF events[i].version <= version THEN Append(f[i-1], events[i])
                     ELSE f[i-1]]
  <2>2. g \in [0..(n + 1) -> Seq(Event)]
    <3>1. events[n + 1] \in Event /\ f[n] \in Seq(Event)
      OBVIOUS
    <3> QED BY <3>1
  <2>3. ASSUME NEW i \in 0..(n + 1)
        PROVE  g[i] = IF i = 0 THEN <<>>
                      ELSE IF events[i].version <= version THEN Append(g[i-1], events[i])
                      ELSE g[i-1]
    <3>1. CASE i \in 0..n
      <4>1. f[i] = IF i = 0 THEN <<>>
                   ELSE IF events[i].version <= version THEN Append(f[i-1], events[i])
                   ELSE f[i-1]
        BY <2>1, <3>1 DEF Keeps
      <4>2. i # 0 => i - 1 \in 0..n /\ i - 1 \in 0..(n + 1)
        BY <3>1
      <4> QED BY <3>1, <4>1, <4>2
    <3>2. CASE i = n + 1
      <4>1. i \notin 0..n /\ i # 0 /\ i - 1 \in 0..n /\ i - 1 \in 0..(n + 1)
        BY <3>2
      <4> QED BY <4>1
    <3> QED BY <3>1, <3>2
  <2>4. Keeps(g, events, version, n + 1)
    BY <2>3 DEF Keeps
  <2> QED BY <2>2, <2>4
<1>3. T = Nat
  <2>1. T \in SUBSET Nat
    OBVIOUS
  <2> HIDE DEF T
  <2> QED BY <1>1, <1>2, <2>1, InductionOnNat
<1>4. Len(events) \in T
  <2> HIDE DEF T
  <2> QED BY <1>3
<1> QED BY <1>4

\* UpTo is the last value of such a function.
LEMMA UpToIsLast ==
  ASSUME NEW events \in Seq(Event), NEW version \in Nat
  PROVE  \E f : Keeps(f, events, version, Len(events)) /\ UpTo(events, version) = f[Len(events)]
<1> DEFINE P(f) == f = [i \in 0..Len(events) |->
                          IF i = 0 THEN <<>>
                          ELSE IF events[i].version <= version THEN Append(f[i-1], events[i])
                          ELSE f[i-1]]
           F == CHOOSE f : P(f)
<1>1. \E f : P(f)
  BY KeepsExists DEF Keeps
<1>2. P(F)
  <2> HIDE DEF P
  <2> QED BY <1>1
<1>3. UpTo(events, version) = F[Len(events)]
  BY DEF UpTo
<1>4. Keeps(F, events, version, Len(events))
  BY <1>2 DEF Keeps
<1> QED BY <1>3, <1>4

\* Of events numbered from 1, UpTo keeps the first version of them.
LEMMA UpToIsPrefix ==
  ASSUME NEW events \in Seq(Event), NEW version \in Nat,
         \A i \in 1..Len(events) : events[i].version = i, version <= Len(events)
  PROVE  UpTo(events, version) = SubSeq(events, 1, version)
<1>1. PICK f : Keeps(f, events, version, Len(events)) /\ UpTo(events, version) = f[Len(events)]
  BY UpToIsLast
<1> DEFINE kept(n) == IF n <= version THEN n ELSE version
           T == {n \in Nat : n <= Len(events) => f[n] = SubSeq(events, 1, kept(n))}
<1>2. 0 \in T
  <2>1. f[0] = <<>>
    BY <1>1 DEF Keeps
  <2>2. SubSeq(events, 1, kept(0)) = <<>>
    OBVIOUS
  <2> QED BY <2>1, <2>2
<1>3. ASSUME NEW n \in T PROVE n + 1 \in T
  <2> SUFFICES ASSUME n + 1 <= Len(events)
               PROVE  f[n + 1] = SubSeq(events, 1, kept(n + 1))
    OBVIOUS
  <2>1. f[n] = SubSeq(events, 1, kept(n))
    OBVIOUS
  <2>2. f[n + 1] = IF events[n + 1].version <= version THEN Append(f[n], events[n + 1]) ELSE f[n]
    <3>1. n + 1 \in 0..Len(events) /\ n + 1 # 0 /\ (n + 1) - 1 = n
      OBVIOUS
    <3> QED BY <1>1, <3>1 DEF Keeps
  <2>3. events[n + 1].version = n + 1
    OBVIOUS
  <2>4. CASE n + 1 <= version
    <3>1. kept(n) = n /\ kept(n + 1) = n + 1
      BY <2>4
    <3>2. f[n + 1] = Append(SubSeq(events, 1, n), events[n + 1])
      BY <2>1, <2>2, <2>3, <2>4, <3>1
    <3>3. Append(SubSeq(events, 1, n), events[n + 1]) = SubSeq(events, 1, n + 1)
      OBVIOUS
    <3> QED BY <3>1, <3>2, <3>3
  <2>5. CASE ~(n + 1 <= version)
    <3>1. kept(n) = version /\ kept(n + 1) = version
      BY <2>5
    <3> QED BY <2>1, <2>2, <2>3, <2>5, <3>1
  <2> QED BY <2>4, <2>5
<1>4. T = Nat
  <2>1. T \in SUBSET Nat
    OBVIOUS
  <2> HIDE DEF T
  <2> QED BY <1>2, <1>3, <2>1, InductionOnNat
<1>5. f[Len(events)] = SubSeq(events, 1, kept(Len(events)))
  <2>1. Len(events) \in T
    <3> HIDE DEF T
    <3> QED BY <1>4
  <2> QED BY <2>1
<1>6. kept(Len(events)) = version
  OBVIOUS
<1> QED BY <1>1, <1>5, <1>6

\* The list get_events returns has one event for each version of the stream.
LEMMA ChainsAreNumbered ==
  ASSUME StoreTypeOK, StreamsAreChains, NEW s \in Stream
  PROVE  /\ Len(GetEvents(s)) = streams[s].version
         /\ \A k \in DOMAIN GetEvents(s) : GetEvents(s)[k].version = k
<1> DEFINE ss == [i \in DOMAIN log[s] |-> log[s][i].events]
           m == Len(log[s])
<1>1. /\ log[s] \in Seq(Commit) /\ m \in Nat /\ DOMAIN log[s] = 1..m
      /\ HeadIsLastCommit(s) /\ Chained(s) /\ Increasing(s)
  BY DEF StoreTypeOK, StreamsAreChains
<1>2. ASSUME NEW i \in 1..m PROVE log[s][i].events \in Seq(Event)
  <2>1. log[s][i] \in Commit
    BY <1>1
  <2> QED BY <2>1 DEF Commit
<1>3. ss \in Seq(Seq(Event)) /\ Len(ss) = m /\ \A i \in 1..m : ss[i] = log[s][i].events
  BY <1>1, <1>2
<1> HIDE DEF ss
<1>4. CASE m = 0
  <2>1. GetEvents(s) = <<>>
    BY <1>1, <1>3, <1>4 DEF GetEvents, FlattenSeq, ss
  <2> QED BY <2>1, <1>1, <1>4 DEF HeadIsLastCommit
<1>5. CASE m # 0
  <2>1. PICK f : Flattens(f, ss, m) /\ FlattenSeq(ss) = f[m]
    BY <1>3, <1>5, FlattenSeqIsLast
  <2> DEFINE Numbered(q, last) ==
               /\ q \in Seq(Event) /\ Len(q) = last
               /\ \A k \in 1..last : q[k].version = k
             T == {n \in Nat : n \in 1..m => Numbered(f[n], LastVersion(log[s][n]))}
  <2>2. 0 \in T
    OBVIOUS
  <2>3. ASSUME NEW n \in T PROVE n + 1 \in T
    <3> SUFFICES ASSUME n + 1 \in 1..m PROVE Numbered(f[n + 1], LastVersion(log[s][n + 1]))
      OBVIOUS
    <3> DEFINE c == log[s][n + 1]
    <3>1. f[n + 1] = IF n + 1 = 1 THEN ss[n + 1] ELSE f[(n + 1) - 1] \o ss[n + 1]
      BY <2>1 DEF Flattens
    <3>2. /\ ss[n + 1] = c.events /\ c.events \in Seq(Event)
          /\ Len(c.events) \in Nat \ {0}
          /\ \A k \in 1..Len(c.events) : c.events[k].version = FirstVersion(c) + k - 1
      <4>1. ss[n + 1] = c.events /\ c.events \in Seq(Event)
        BY <1>2, <1>3
      <4>2. c.events # <<>> /\ \A k \in DOMAIN c.events : c.events[k].version = FirstVersion(c) + k - 1
        BY <1>1 DEF Increasing
      <4> QED BY <4>1, <4>2
    <3>3. LastVersion(c) = FirstVersion(c) + Len(c.events) - 1
      <4>1. Len(c.events) \in 1..Len(c.events)
        BY <3>2
      <4> QED BY <3>2, <4>1 DEF LastVersion
    <3>4. CASE n = 0
      <4>1. FirstVersion(c) = 1
        BY <1>1, <3>4 DEF Chained
      <4>2. f[n + 1] = c.events
        BY <3>1, <3>2, <3>4
      <4> QED BY <3>2, <3>3, <4>1, <4>2
    <3>5. CASE n # 0
      <4> DEFINE b == log[s][n]
      <4>1. n \in 1..m /\ (n + 1) - 1 = n
        BY <3>5
      <4>2. Numbered(f[n], LastVersion(b)) /\ LastVersion(b) \in Nat
        BY <1>1, <4>1, StoredVersions
      <4>3. FirstVersion(c) = LastVersion(b) + 1
        <5>1. n + 1 \in DOMAIN log[s] /\ n + 1 # 1
          BY <1>1, <3>5
        <5>2. FirstVersion(c) = LastVersion(log[s][(n + 1) - 1]) + 1
          BY <1>1, <5>1 DEF Chained
        <5> QED BY <4>1, <5>2
      <4>4. f[n + 1] = f[n] \o c.events
        <5>1. n + 1 # 1
          BY <3>5
        <5>2. f[n + 1] = f[(n + 1) - 1] \o ss[n + 1]
          BY <3>1, <5>1
        <5> QED BY <3>2, <4>1, <5>2
      <4> DEFINE old == LastVersion(b)
                 new == Len(c.events)
      <4>5. /\ f[n + 1] \in Seq(Event) /\ Len(f[n + 1]) = old + new
            /\ \A k \in 1..old : f[n + 1][k] = f[n][k]
            /\ \A k \in (old + 1)..(old + new) : f[n + 1][k] = c.events[k - old]
        <5>1. f[n] \in Seq(Event) /\ c.events \in Seq(Event) /\ Len(f[n]) = old
          BY <3>2, <4>2
        <5> HIDE DEF old, new, c
        <5>2. /\ f[n] \o c.events \in Seq(Event) /\ Len(f[n] \o c.events) = Len(f[n]) + Len(c.events)
              /\ \A k \in 1..Len(f[n]) : (f[n] \o c.events)[k] = f[n][k]
              /\ \A k \in (Len(f[n]) + 1)..(Len(f[n]) + Len(c.events)) :
                   (f[n] \o c.events)[k] = c.events[k - Len(f[n])]
          BY <5>1, ConcatElements
        <5> QED BY <4>4, <5>1, <5>2 DEF new
      <4>6. LastVersion(c) = old + new /\ new \in Nat /\ old \in Nat /\ FirstVersion(c) = old + 1
        <5>1. LastVersion(b) \in Nat /\ Len(c.events) \in Nat
          BY <3>2, <4>2
        <5> HIDE DEF c, b
        <5> QED BY <5>1, <3>3, <4>3
      <4>7. \A k \in 1..old : f[n][k].version = k
        BY <4>2
      <4>8. \A j \in 1..new : c.events[j].version = FirstVersion(c) + j - 1
        BY <3>2
      <4>9. ASSUME NEW k \in 1..(old + new) PROVE f[n + 1][k].version = k
        <5> HIDE DEF old, new, b, c
        <5>1. CASE k \in 1..old
          BY <4>5, <4>7, <5>1
        <5>2. CASE k \notin 1..old
          <6>1. k \in (old + 1)..(old + new) /\ k - old \in 1..new
            BY <4>6, <5>2
          <6>2. f[n + 1][k] = c.events[k - old]
            BY <4>5, <6>1
          <6>3. c.events[k - old].version = FirstVersion(c) + (k - old) - 1
            BY <4>8, <6>1
          <6>4. FirstVersion(c) + (k - old) - 1 = k
            BY <4>6, <6>1
          <6> QED BY <6>2, <6>3, <6>4
        <5> QED BY <5>1, <5>2
      <4> QED BY <4>5, <4>6, <4>9
    <3> QED BY <3>4, <3>5
  <2>4. T = Nat
    <3>1. T \in SUBSET Nat
      OBVIOUS
    <3> HIDE DEF T
    <3> QED BY <2>2, <2>3, <3>1, InductionOnNat
  <2>5. Numbered(f[m], LastVersion(log[s][m]))
    <3>1. m \in T /\ m \in 1..m
      <4> HIDE DEF T
      <4> QED BY <2>4, <1>1, <1>5
    <3> QED BY <3>1
  <2>6. GetEvents(s) = f[m]
    BY <2>1 DEF GetEvents, ss
  <2>7. streams[s].version = LastVersion(log[s][m])
    BY <1>1, <1>5 DEF HeadIsLastCommit
  <2> QED BY <2>5, <2>6, <2>7
<1> QED BY <1>4, <1>5

\* However the stream was built, the query of get_events returns the versions
\* 1, 2, 3, ... in order: what Work.replay and expected_version count on.
THEOREM EventsStayNumbered == StoreSpec => []EventsAreNumbered
<1>1. StoreTypeOK /\ StreamsAreChains => EventsAreNumbered
  BY ChainsAreNumbered DEF EventsAreNumbered
<1> QED BY <1>1, StoreTypeCorrect, StreamsStayChains, PTL

============================================================================
