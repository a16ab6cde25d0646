---------------------------- MODULE SQLiteProofs ----------------------------
(***************************************************************************)
(* The statements of the SQLite store implement the one-step store, for    *)
(* any number of connections, requests and approvals.                      *)
(*                                                                         *)
(* What has to be known is what a connection has done so far: until its    *)
(* COMMIT the tables are those that its checks saw, because it has the     *)
(* lock, and what it has written aside is exactly a part of one append.    *)
(***************************************************************************)
EXTENDS SQLiteTransaction, EventStoreProofs

----------------------------------------------------------------------------
(* The inductive invariant *)

\* The tables after the append in hand.
LogWith(p, events) ==
  [log EXCEPT ![call[p].stream] = Append(@, [call[p].commit EXCEPT !.events = events])]

WholeLog(p) == [log EXCEPT ![call[p].stream] = Append(@, call[p].commit)]

HeadMoved(p) ==
  [streams EXCEPT ![call[p].stream] =
     [head |-> call[p].commit.id, version |-> LastVersion(call[p].commit)]]

KeysWith(p) ==
  IF call[p].key = None THEN keys
  ELSE keys \cup {KeyRowFor(call[p].stream, call[p].commit, call[p].key, call[p].payload)}

Accepted(p) == Accepts(call[p].stream, call[p].commit, call[p].key)

\* The four tables in one record, as dirty holds them.
Aside(l, s, k, a) == [log |-> l, streams |-> s, keys |-> k, approvals |-> a]

FirstEvents(p, n) ==
  dirty = Aside(LogWith(p, SubSeq(call[p].commit.events, 1, n)), streams, keys, approvals)

AppendReady(p) ==
  /\ call[p] \in Request /\ Accepted(p)
  /\ dirty = Aside(WholeLog(p), HeadMoved(p), KeysWith(p), approvals)

ApprovalReady(p) ==
  /\ call[p] \in Approval /\ Rows(call[p].id) = {}
  /\ dirty = Aside(log, streams, keys, approvals \cup {call[p]})

\* How far a connection is, statement by statement.
Progress(p) ==
  /\ pc[p] \in {"check", "commits", "events", "keys"} => call[p] \in Request /\ lock = p
  /\ pc[p] \in {"commits", "events", "keys"} => Accepted(p)
  /\ pc[p] = "events" => \E n \in 0..Len(call[p].commit.events) : FirstEvents(p, n)
  /\ pc[p] = "keys" => dirty = Aside(WholeLog(p), HeadMoved(p), keys, approvals)
  /\ pc[p] = "insert" => call[p] \in Approval
  /\ pc[p] = "commit" => lock = p /\ (AppendReady(p) \/ ApprovalReady(p))

SQLiteInv == TypeOK /\ \A p \in Connection : Progress(p)

----------------------------------------------------------------------------
(* Steps that leave a connection alone *)

\* The checks read the tables only.
LEMMA AcceptedStays ==
  ASSUME NEW p, UNCHANGED <<log, streams, keys>>, call'[p] = call[p]
  PROVE  Accepted(p)' = Accepted(p)
BY DEF Accepted, Accepts, IdsAreNew, UsedCommitIds, UsedEventIds, Commits, ParentIsHead,
       VersionsAreNext, KeyIsFree, KeyRows, EventIdsOf

\* A connection stays where it is while another one moves, because the other one
\* cannot touch the tables or the changes aside without the lock.
LEMMA OthersStay ==
  ASSUME NEW g, Progress(g), pc'[g] = pc[g], call'[g] = call[g],
         lock = g => UNCHANGED <<tables, lock, dirty>>
  PROVE  Progress(g)'
<1>1. CASE lock = g
  <2>1. UNCHANGED <<log, streams, keys, approvals, lock, dirty>>
    BY <1>1 DEF tables
  <2>2. Accepted(g)' = Accepted(g)
    BY <2>1, AcceptedStays
  <2>3. /\ \A n : FirstEvents(g, n)' = FirstEvents(g, n)
        /\ Aside(WholeLog(g), HeadMoved(g), keys, approvals)'
             = Aside(WholeLog(g), HeadMoved(g), keys, approvals)
        /\ ApprovalReady(g)' = ApprovalReady(g)
    BY <2>1 DEF FirstEvents, LogWith, Aside, WholeLog, HeadMoved, LastVersion, ApprovalReady,
                Rows
  <2>4. AppendReady(g)' = AppendReady(g)
    BY <2>1, <2>2 DEF AppendReady, Aside, WholeLog, HeadMoved, LastVersion, KeysWith, KeyRowFor
  <2> QED BY <2>1, <2>2, <2>3, <2>4 DEF Progress
<1>2. CASE lock # g
  BY <1>2 DEF Progress
<1> QED BY <1>1, <1>2

\* The invariant after a step of p that leaves the others alone.
LEMMA OneMoves ==
  ASSUME SQLiteInv, NEW p \in Connection, TypeOK', Progress(p)',
         \A g \in Connection \ {p} : pc'[g] = pc[g] /\ call'[g] = call[g],
         lock \in {None, p} \/ UNCHANGED <<tables, lock, dirty>>
  PROVE  SQLiteInv'
<1>1. ASSUME NEW g \in Connection, g # p PROVE Progress(g)'
  <2>1. lock = g => UNCHANGED <<tables, lock, dirty>>
    BY <1>1, RequestAssumption
  <2> QED BY <1>1, <2>1, OthersStay DEF SQLiteInv
<1> QED BY <1>1 DEF SQLiteInv

\* A request is well typed.
LEMMA RequestType ==
  ASSUME NEW r \in Request
  PROVE  /\ r.stream \in Stream /\ r.commit \in Commit
         /\ r.key \in Key \cup {None} /\ r.payload \in Payload
BY RequestAssumption

\* A rollback leaves the tables as they were and the connection idle.
LEMMA RollBackStays ==
  ASSUME SQLiteInv, NEW p \in Connection, RollBack(p)
  PROVE  SQLiteInv' /\ UNCHANGED storeVars
<1>1. /\ UNCHANGED <<log, streams, keys, approvals>>
      /\ pc' = [pc EXCEPT ![p] = "open"] /\ call' = [call EXCEPT ![p] = None]
      /\ IF lock = p THEN lock' = None /\ dirty' = None ELSE UNCHANGED <<lock, dirty>>
  BY DEF RollBack, Release, Goto, tables
<1>2. TypeOK'
  BY <1>1 DEF SQLiteInv, TypeOK, StoreTypeOK
<1>3. Progress(p)'
  <2>1. pc'[p] = "open"
    BY <1>1 DEF SQLiteInv, TypeOK
  <2> QED BY <2>1 DEF Progress
<1>4. lock \in {None, p} \/ UNCHANGED <<tables, lock, dirty>>
  BY <1>1 DEF tables
<1>5. \A g \in Connection \ {p} : pc'[g] = pc[g] /\ call'[g] = call[g]
  BY <1>1 DEF SQLiteInv, TypeOK
<1> QED BY <1>1, <1>2, <1>3, <1>4, <1>5, OneMoves DEF storeVars

----------------------------------------------------------------------------
(* The statements of append_commit *)

\* BEGIN IMMEDIATE gives the connection the lock; it has read nothing yet.
LEMMA BeginStays ==
  ASSUME SQLiteInv, NEW p \in Connection, NEW r \in Request, Begin(p, r)
  PROVE  SQLiteInv' /\ UNCHANGED storeVars
<1>1. /\ UNCHANGED <<log, streams, keys, approvals, dirty>>
      /\ lock = None /\ lock' = p
      /\ pc' = [pc EXCEPT ![p] = "check"] /\ call' = [call EXCEPT ![p] = r]
  BY DEF Begin, Goto, tables
<1>2. TypeOK'
  BY <1>1, RequestAssumption DEF SQLiteInv, TypeOK, StoreTypeOK
<1>3. pc'[p] = "check" /\ call'[p] = r
  BY <1>1 DEF SQLiteInv, TypeOK
<1>4. Progress(p)'
  BY <1>1, <1>3 DEF Progress
<1>5. \A g \in Connection \ {p} : pc'[g] = pc[g] /\ call'[g] = call[g]
  BY <1>1 DEF SQLiteInv, TypeOK
<1> QED BY <1>1, <1>2, <1>4, <1>5, OneMoves DEF storeVars

\* The queries of append_commit find what they look for, or it rolls back.
LEMMA CheckStays ==
  ASSUME SQLiteInv, NEW p \in Connection, Check(p)
  PROVE  SQLiteInv' /\ UNCHANGED storeVars
<1>1. CASE /\ Accepted(p) /\ pc' = [pc EXCEPT ![p] = "commits"]
           /\ UNCHANGED <<log, streams, keys, approvals, call, lock, dirty>>
  <2>1. pc[p] = "check" /\ call[p] \in Request /\ lock = p
    BY DEF Check, SQLiteInv, Progress
  <2>2. TypeOK'
    BY <1>1 DEF SQLiteInv, TypeOK, StoreTypeOK
  <2>3. pc'[p] = "commits"
    BY <1>1 DEF SQLiteInv, TypeOK
  <2>4. Accepted(p)'
    BY <1>1, AcceptedStays
  <2>5. Progress(p)'
    BY <1>1, <2>1, <2>3, <2>4 DEF Progress
  <2>6. \A g \in Connection \ {p} : pc'[g] = pc[g] /\ call'[g] = call[g]
    BY <1>1 DEF SQLiteInv, TypeOK
  <2> QED BY <1>1, <2>1, <2>2, <2>5, <2>6, OneMoves DEF storeVars
<1>2. CASE RollBack(p)
  BY <1>2, RollBackStays
<1> QED BY <1>1, <1>2 DEF Check, Goto, tables, Accepted

\* What is common to the statements that write aside: the connection has the
\* lock, and only dirty and its own program counter change.
Writes(p, label, record) ==
  /\ lock = p /\ pc' = [pc EXCEPT ![p] = label] /\ dirty' = record
  /\ UNCHANGED <<log, streams, keys, approvals, call, lock>>

\* A write aside that keeps the progress keeps the invariant.
LEMMA WritesStay ==
  ASSUME SQLiteInv, NEW p \in Connection, NEW label, NEW l, NEW s, NEW k, NEW a,
         Writes(p, label, Aside(l, s, k, a)), Progress(p)',
         label \in {"events", "keys", "commit"},
         l \in [Stream -> Seq(Commit)],
         s \in [Stream -> [head : CommitId \cup {None}, version : Nat]],
         k \in SUBSET KeyRow, a \in SUBSET Approval
  PROVE  SQLiteInv' /\ UNCHANGED storeVars
<1>1. Aside(l, s, k, a) \in [log : [Stream -> Seq(Commit)],
                             streams : [Stream -> [head : CommitId \cup {None}, version : Nat]],
                             keys : SUBSET KeyRow, approvals : SUBSET Approval]
  BY DEF Aside
<1> HIDE DEF Aside
<1>2. TypeOK'
  <2>1. StoreTypeOK' /\ (approvals \subseteq Approval)'
    BY DEF Writes, SQLiteInv, TypeOK, StoreTypeOK
  <2>2. pc' \in [Connection -> {"open", "check", "commits", "events", "keys", "insert",
                                "commit", "raised", "refused"}]
    BY DEF Writes, SQLiteInv, TypeOK
  <2>3. call' = call /\ lock' = p /\ dirty' = Aside(l, s, k, a)
    BY DEF Writes
  <2> QED BY <1>1, <2>1, <2>2, <2>3, RequestAssumption DEF SQLiteInv, TypeOK
<1>3. \A g \in Connection \ {p} : pc'[g] = pc[g] /\ call'[g] = call[g]
  BY DEF Writes, SQLiteInv, TypeOK
<1>4. lock \in {None, p} /\ UNCHANGED storeVars
  BY DEF Writes, storeVars
<1> QED BY <1>2, <1>3, <1>4, OneMoves

\* The tables aside are well typed.
LEMMA AsideTypes ==
  ASSUME SQLiteInv, NEW p \in Connection, call[p] \in Request, Accepted(p)
  PROVE  /\ \A events \in Seq(Event) : LogWith(p, events) \in [Stream -> Seq(Commit)]
         /\ WholeLog(p) \in [Stream -> Seq(Commit)]
         /\ HeadMoved(p) \in [Stream -> [head : CommitId \cup {None}, version : Nat]]
         /\ KeysWith(p) \in SUBSET KeyRow
<1> DEFINE r == call[p]
<1>1. /\ r.stream \in Stream /\ r.commit \in Commit
      /\ r.key \in Key \cup {None} /\ r.payload \in Payload
  BY RequestType
<1>2. log \in [Stream -> Seq(Commit)] /\ keys \subseteq KeyRow
      /\ streams \in [Stream -> [head : CommitId \cup {None}, version : Nat]]
  BY DEF SQLiteInv, TypeOK, StoreTypeOK
<1>3. \A events \in Seq(Event) : [r.commit EXCEPT !.events = events] \in Commit
  BY <1>1 DEF Commit
<1>4. LastVersion(r.commit) \in Nat
  <2>1. r.commit.events \in Seq(Event) /\ r.commit.events # <<>>
    BY <1>1 DEF Accepted, Accepts, Commit
  <2>2. r.commit.events[Len(r.commit.events)] \in Event
    BY <2>1
  <2> QED BY <2>2 DEF LastVersion, Event
<1>5. r.commit.id \in CommitId
  BY <1>1 DEF Commit
<1>6. \A events \in Seq(Event) : LogWith(p, events) \in [Stream -> Seq(Commit)]
  BY <1>1, <1>2, <1>3 DEF LogWith
<1>7. WholeLog(p) \in [Stream -> Seq(Commit)]
  BY <1>1, <1>2 DEF WholeLog
<1>8. HeadMoved(p) \in [Stream -> [head : CommitId \cup {None}, version : Nat]]
  BY <1>1, <1>2, <1>4, <1>5 DEF HeadMoved
<1>9. KeysWith(p) \in SUBSET KeyRow
  BY <1>1, <1>2, <1>5 DEF KeysWith, KeyRowFor, KeyRow
<1> QED BY <1>6, <1>7, <1>8, <1>9

\* A write aside changes none of the things Progress speaks of but dirty.
LEMMA WritesKeep ==
  ASSUME SQLiteInv, NEW p \in Connection, NEW label, NEW record, Writes(p, label, record)
  PROVE  /\ pc'[p] = label /\ call'[p] = call[p] /\ lock' = p /\ dirty' = record
         /\ Accepted(p)' <=> Accepted(p)
         /\ \A n : FirstEvents(p, n)' <=>
              (record = Aside(LogWith(p, SubSeq(call[p].commit.events, 1, n)),
                              streams, keys, approvals))
         /\ Aside(WholeLog(p), HeadMoved(p), keys, approvals)'
              = Aside(WholeLog(p), HeadMoved(p), keys, approvals)
         /\ Aside(WholeLog(p), HeadMoved(p), KeysWith(p), approvals)'
              = Aside(WholeLog(p), HeadMoved(p), KeysWith(p), approvals)
         /\ Aside(log, streams, keys, approvals \cup {call[p]})'
              = Aside(log, streams, keys, approvals \cup {call[p]})
<1>1. /\ UNCHANGED <<log, streams, keys, approvals, call>>
      /\ lock' = p /\ dirty' = record /\ pc'[p] = label
  BY DEF Writes, SQLiteInv, TypeOK
<1>2. Accepted(p)' = Accepted(p)
  BY <1>1, AcceptedStays
<1> QED BY <1>1, <1>2
           DEF FirstEvents, LogWith, WholeLog, HeadMoved, KeysWith, KeyRowFor, LastVersion, Aside

\* INSERT INTO commits: the commit is there with none of its events.
LEMMA InsertCommitStays ==
  ASSUME SQLiteInv, NEW p \in Connection, InsertCommit(p)
  PROVE  SQLiteInv' /\ UNCHANGED storeVars
<1> DEFINE record == Aside(LogWith(p, <<>>), streams, keys, approvals)
<1>1. call[p] \in Request /\ lock = p /\ Accepted(p) /\ pc[p] = "commits"
  BY DEF InsertCommit, SQLiteInv, Progress
<1>2. Writes(p, "events", record)
  <2>1. dirty' = record
    BY DEF InsertCommit, Committed, LogWith, Aside
  <2> HIDE DEF record
  <2> QED BY <1>1, <2>1 DEF InsertCommit, Writes, Goto, tables
<1> HIDE DEF record
<1>3. 0 \in 0..Len(call[p].commit.events) /\ SubSeq(call[p].commit.events, 1, 0) = <<>>
  <2>1. call[p].commit.events \in Seq(Event)
    BY <1>1, RequestType DEF Commit
  <2> QED BY <2>1
<1>4. FirstEvents(p, 0)'
  BY <1>2, <1>3, WritesKeep DEF record
<1>5. Progress(p)'
  <2>1. pc'[p] = "events" /\ call'[p] = call[p] /\ lock' = p /\ Accepted(p)'
    BY <1>1, <1>2, WritesKeep
  <2> QED BY <1>1, <1>3, <1>4, <2>1 DEF Progress
<1>6. <<>> \in Seq(Event) /\ keys \in SUBSET KeyRow /\ approvals \in SUBSET Approval
      /\ streams \in [Stream -> [head : CommitId \cup {None}, version : Nat]]
  BY DEF SQLiteInv, TypeOK, StoreTypeOK
<1>7. LogWith(p, <<>>) \in [Stream -> Seq(Commit)]
  BY <1>1, <1>6, AsideTypes
<1> QED BY <1>2, <1>5, <1>6, <1>7, WritesStay DEF record

\* The commit row aside, while its events are inserted.
LEMMA InsertedSoFar ==
  ASSUME SQLiteInv, NEW p \in Connection, pc[p] = "events",
         NEW n \in 0..Len(call[p].commit.events), FirstEvents(p, n)
  PROVE  LET r == call[p] IN
         /\ r.stream \in Stream /\ r.commit \in Commit
         /\ log[r.stream] \in Seq(Commit)
         /\ Inserted(p) = [r.commit EXCEPT !.events = SubSeq(r.commit.events, 1, n)]
         /\ Len(Inserted(p).events) = n
         /\ Front(dirty.log[r.stream]) = log[r.stream]
<1> DEFINE r == call[p]
           row == [r.commit EXCEPT !.events = SubSeq(r.commit.events, 1, n)]
<1>1. call[p] \in Request
  BY DEF SQLiteInv, Progress
<1>2. r.stream \in Stream /\ r.commit \in Commit /\ r.commit.events \in Seq(Event)
  BY <1>1, RequestType DEF Commit
<1>3. log \in [Stream -> Seq(Commit)]
  BY DEF SQLiteInv, TypeOK, StoreTypeOK
<1>4. row \in Commit /\ row.events = SubSeq(r.commit.events, 1, n) /\ Len(row.events) = n
  <2>1. SubSeq(r.commit.events, 1, n) \in Seq(Event) /\ Len(SubSeq(r.commit.events, 1, n)) = n
    BY <1>2
  <2> QED BY <1>2, <2>1 DEF Commit
<1> HIDE DEF row
<1>5. dirty.log[r.stream] = Append(log[r.stream], row)
  BY <1>2, <1>3 DEF FirstEvents, Aside, LogWith, row
<1>6. Last(Append(log[r.stream], row)) = row
  BY <1>2, <1>3, <1>4, LastOfAppend
<1>7. Front(Append(log[r.stream], row)) = log[r.stream]
  BY <1>2, <1>3, <1>4 DEF Front
<1> QED BY <1>2, <1>3, <1>4, <1>5, <1>6, <1>7 DEF Inserted, row

\* INSERT INTO events: one more of the events is there.
LEMMA InsertEventStays ==
  ASSUME SQLiteInv, NEW p \in Connection, InsertEvent(p)
  PROVE  SQLiteInv' /\ UNCHANGED storeVars
<1> DEFINE r == call[p]
           events == r.commit.events
<1>1. call[p] \in Request /\ lock = p /\ Accepted(p) /\ pc[p] = "events"
  BY DEF InsertEvent, SQLiteInv, Progress
<1>2. PICK n \in 0..Len(events) : FirstEvents(p, n)
  BY <1>1 DEF SQLiteInv, Progress
<1> DEFINE before == SubSeq(events, 1, n)
           after == SubSeq(events, 1, n + 1)
           record == Aside(LogWith(p, after), streams, keys, approvals)
<1>3. /\ r.stream \in Stream /\ r.commit \in Commit /\ log[r.stream] \in Seq(Commit)
      /\ Inserted(p) = [r.commit EXCEPT !.events = before]
      /\ Len(Inserted(p).events) = n
      /\ Front(dirty.log[r.stream]) = log[r.stream]
  BY <1>1, <1>2, InsertedSoFar
<1>4. events \in Seq(Event)
  BY <1>3 DEF Commit
<1>5. n < Len(events)
  BY <1>3 DEF InsertEvent
<1>6. Append(before, events[n + 1]) = after /\ after \in Seq(Event) /\ n + 1 \in 0..Len(events)
  BY <1>4, <1>5
<1>7. [Inserted(p) EXCEPT !.events = Append(Inserted(p).events, events[n + 1])] = [r.commit EXCEPT !.events = after]
  <2>1. Inserted(p).events = before
    BY <1>3 DEF Commit
  <2>2. [Inserted(p) EXCEPT !.events = Append(Inserted(p).events, events[n + 1])]
          = [Inserted(p) EXCEPT !.events = after]
    BY <1>6, <2>1
  <2> HIDE DEF after, before
  <2> QED BY <1>3, <2>2 DEF Commit
<1>8. log \in [Stream -> Seq(Commit)]
  BY DEF SQLiteInv, TypeOK, StoreTypeOK
<1>9. dirty' = [dirty EXCEPT !.log[r.stream] =
                  Append(log[r.stream], [r.commit EXCEPT !.events = after])]
  <2>1. dirty' = [dirty EXCEPT !.log[r.stream] =
                    Append(Front(@), [r.commit EXCEPT !.events = after])]
    BY <1>3, <1>7 DEF InsertEvent
  <2> HIDE DEF after
  <2> QED BY <1>3, <2>1
<1>10. dirty' = record
  <2>1. dirty = Aside(LogWith(p, before), streams, keys, approvals)
    BY <1>2 DEF FirstEvents
  <2>2. [LogWith(p, before) EXCEPT ![r.stream] =
           Append(log[r.stream], [r.commit EXCEPT !.events = after])] = LogWith(p, after)
    BY <1>3, <1>8 DEF LogWith
  <2> HIDE DEF after, before
  <2> QED BY <1>9, <2>1, <2>2 DEF Aside
<1>11. Writes(p, "events", record)
  <2>1. pc' = [pc EXCEPT ![p] = "events"]
    BY <1>1 DEF InsertEvent, SQLiteInv, TypeOK
  <2> QED BY <1>1, <1>10, <2>1 DEF InsertEvent, Writes, tables
<1>12. FirstEvents(p, n + 1)'
  BY <1>11, WritesKeep
<1> HIDE DEF record
<1>13. Progress(p)'
  BY <1>1, <1>6, <1>11, <1>12, WritesKeep DEF Progress
<1>14. keys \in SUBSET KeyRow /\ approvals \in SUBSET Approval
       /\ streams \in [Stream -> [head : CommitId \cup {None}, version : Nat]]
  BY DEF SQLiteInv, TypeOK, StoreTypeOK
<1>15. LogWith(p, after) \in [Stream -> Seq(Commit)]
  BY <1>1, <1>6, AsideTypes
<1> QED BY <1>11, <1>13, <1>14, <1>15, WritesStay DEF record

\* All the events are there: the log aside ends with the whole commit.
LEMMA UpdateHeadStays ==
  ASSUME SQLiteInv, NEW p \in Connection, UpdateHead(p)
  PROVE  SQLiteInv' /\ UNCHANGED storeVars
<1> DEFINE r == call[p]
           record == Aside(WholeLog(p), HeadMoved(p), keys, approvals)
<1>1. call[p] \in Request /\ lock = p /\ Accepted(p) /\ pc[p] = "events"
  BY DEF UpdateHead, SQLiteInv, Progress
<1>2. PICK n \in 0..Len(r.commit.events) : FirstEvents(p, n)
  BY <1>1 DEF SQLiteInv, Progress
<1>3. r.commit \in Commit /\ n = Len(r.commit.events)
  BY <1>1, <1>2, InsertedSoFar DEF UpdateHead
<1>4. SubSeq(r.commit.events, 1, n) = r.commit.events
  BY <1>3 DEF Commit
<1>5. [r.commit EXCEPT !.events = r.commit.events] = r.commit
  BY <1>3 DEF Commit
<1>6. dirty = Aside(WholeLog(p), streams, keys, approvals)
  BY <1>2, <1>4, <1>5 DEF FirstEvents, LogWith, WholeLog
<1>7. Writes(p, "keys", record)
  BY <1>1, <1>6 DEF UpdateHead, Aside, HeadMoved, Writes, Goto, tables
<1> HIDE DEF record
<1>8. Progress(p)'
  <2>1. pc'[p] = "keys" /\ call'[p] = call[p] /\ lock' = p /\ Accepted(p)'
    BY <1>1, <1>7, WritesKeep
  <2>2. dirty' = Aside(WholeLog(p), HeadMoved(p), keys, approvals)'
    <3>1. Aside(WholeLog(p), HeadMoved(p), keys, approvals)' = record
      BY <1>7, WritesKeep DEF record
    <3>2. dirty' = record
      BY <1>7 DEF Writes
    <3> QED BY <3>1, <3>2
  <2> QED BY <1>1, <2>1, <2>2 DEF Progress
<1>9. keys \in SUBSET KeyRow /\ approvals \in SUBSET Approval
  BY DEF SQLiteInv, TypeOK, StoreTypeOK
<1> QED BY <1>1, <1>7, <1>8, <1>9, WritesStay, AsideTypes DEF record

\* INSERT INTO idempotency_keys: the append is complete, aside.
LEMMA InsertKeyStays ==
  ASSUME SQLiteInv, NEW p \in Connection, InsertKey(p)
  PROVE  SQLiteInv' /\ UNCHANGED storeVars
<1> DEFINE record == Aside(WholeLog(p), HeadMoved(p), KeysWith(p), approvals)
<1>1. /\ call[p] \in Request /\ lock = p /\ Accepted(p) /\ pc[p] = "keys"
      /\ dirty = Aside(WholeLog(p), HeadMoved(p), keys, approvals)
  BY DEF InsertKey, SQLiteInv, Progress
<1>2. Writes(p, "commit", record)
  BY <1>1 DEF InsertKey, Aside, KeysWith, Writes, Goto, tables
<1> HIDE DEF record
<1>3. Progress(p)'
  <2>1. AppendReady(p)'
    BY <1>1, <1>2, WritesKeep DEF AppendReady, record
  <2>2. pc'[p] = "commit" /\ lock' = p
    BY <1>2, WritesKeep
  <2> QED BY <2>1, <2>2 DEF Progress
<1>4. approvals \in SUBSET Approval
  BY DEF SQLiteInv, TypeOK
<1> QED BY <1>1, <1>2, <1>3, <1>4, WritesStay, AsideTypes DEF record

----------------------------------------------------------------------------
(* The statements of save_edition_approval, and the ends of both *)

\* The SELECT of save_edition_approval changes no table.
LEMMA SelectApprovalStays ==
  ASSUME SQLiteInv, NEW p \in Connection, NEW a \in Approval, SelectApproval(p, a)
  PROVE  SQLiteInv' /\ UNCHANGED storeVars
<1>1. /\ UNCHANGED <<log, streams, keys, approvals, lock, dirty>>
      /\ pc' = [pc EXCEPT ![p] = "insert"] /\ call' = [call EXCEPT ![p] = a]
  BY DEF SelectApproval, Goto, tables
<1>2. TypeOK'
  BY <1>1 DEF SQLiteInv, TypeOK, StoreTypeOK
<1>3. pc'[p] = "insert" /\ call'[p] = a
  BY <1>1 DEF SQLiteInv, TypeOK
<1>4. Progress(p)'
  BY <1>3 DEF Progress
<1>5. \A g \in Connection \ {p} : pc'[g] = pc[g] /\ call'[g] = call[g]
  BY <1>1 DEF SQLiteInv, TypeOK
<1> QED BY <1>1, <1>2, <1>4, <1>5, OneMoves DEF storeVars, tables

\* The connection that gets or has the lock without writing aside.
LEMMA WaitsForClose ==
  ASSUME SQLiteInv, NEW p \in Connection, NEW label, label \in {"raised", "refused"},
         Goto(p, label), UNCHANGED <<tables, call, dirty>>,
         TakeLock(p) \/ UNCHANGED lock
  PROVE  SQLiteInv' /\ UNCHANGED storeVars
<1>1. /\ UNCHANGED <<log, streams, keys, approvals, call, dirty>>
      /\ pc' = [pc EXCEPT ![p] = label]
      /\ (lock \in {None, p} /\ lock' = p) \/ lock' = lock
  BY DEF Goto, tables, TakeLock
<1>2. TypeOK'
  <2>1. pc' \in [Connection -> {"open", "check", "commits", "events", "keys", "insert",
                                "commit", "raised", "refused"}]
    BY <1>1 DEF SQLiteInv, TypeOK
  <2>2. StoreTypeOK' /\ (approvals \subseteq Approval)'
    BY <1>1 DEF SQLiteInv, TypeOK, StoreTypeOK
  <2>3. lock' \in Connection \cup {None} /\ (lock # None => lock' # None)
    BY <1>1, RequestAssumption DEF SQLiteInv, TypeOK
  <2> QED BY <1>1, <2>1, <2>2, <2>3 DEF SQLiteInv, TypeOK
<1>3. pc'[p] = label
  BY <1>1 DEF SQLiteInv, TypeOK
<1>4. Progress(p)'
  BY <1>3 DEF Progress
<1>5. \A g \in Connection \ {p} : pc'[g] = pc[g] /\ call'[g] = call[g]
  BY <1>1 DEF SQLiteInv, TypeOK
<1>6. lock \in {None, p} \/ UNCHANGED <<tables, lock, dirty>>
  BY <1>1 DEF tables
<1> QED BY <1>1, <1>2, <1>4, <1>5, <1>6, OneMoves DEF storeVars

\* INSERT INTO edition_approvals writes one approval aside, or waits for close().
LEMMA InsertApprovalStays ==
  ASSUME SQLiteInv, NEW p \in Connection, InsertApproval(p)
  PROVE  SQLiteInv' /\ UNCHANGED storeVars
<1>1. call[p] \in Approval /\ UNCHANGED <<log, streams, keys, approvals, call>>
      /\ lock \in {None, p} /\ lock' = p
  BY DEF InsertApproval, SQLiteInv, Progress, tables, TakeLock
<1>2. CASE /\ Rows(call[p].id) = {}
           /\ dirty' = [Committed EXCEPT !.approvals = @ \cup {call[p]}] /\ Goto(p, "commit")
  <2>1. dirty' = Aside(log, streams, keys, approvals \cup {call[p]})
    BY <1>2 DEF Committed, Aside
  <2>2. pc' = [pc EXCEPT ![p] = "commit"] /\ pc'[p] = "commit"
    BY <1>2 DEF Goto, SQLiteInv, TypeOK
  <2>3. Aside(log, streams, keys, approvals \cup {call[p]}) \in
           [log : [Stream -> Seq(Commit)],
            streams : [Stream -> [head : CommitId \cup {None}, version : Nat]],
            keys : SUBSET KeyRow, approvals : SUBSET Approval]
    BY <1>1 DEF Aside, SQLiteInv, TypeOK, StoreTypeOK
  <2>4. TypeOK'
    <3>1. StoreTypeOK' /\ (approvals \subseteq Approval)'
      BY <1>1 DEF SQLiteInv, TypeOK, StoreTypeOK
    <3>2. pc' \in [Connection -> {"open", "check", "commits", "events", "keys", "insert",
                                  "commit", "raised", "refused"}]
      BY <2>2 DEF SQLiteInv, TypeOK
    <3> QED BY <1>1, <2>1, <2>3, <3>1, <3>2, RequestAssumption DEF SQLiteInv, TypeOK
  <2>5. Progress(p)'
    <3>1. ApprovalReady(p)'
      BY <1>1, <1>2, <2>1 DEF ApprovalReady, Aside, Rows
    <3> QED BY <1>1, <2>2, <3>1 DEF Progress
  <2>6. \A g \in Connection \ {p} : pc'[g] = pc[g] /\ call'[g] = call[g]
    BY <1>1, <2>2 DEF SQLiteInv, TypeOK
  <2> QED BY <1>1, <2>4, <2>5, <2>6, OneMoves DEF storeVars
<1>3. CASE UNCHANGED dirty /\ Goto(p, "refused")
  BY <1>1, <1>3, WaitsForClose DEF TakeLock, tables
<1> QED BY <1>2, <1>3 DEF InsertApproval

\* COMMIT publishes one accepted append, or one approval.
LEMMA CommitPublishes ==
  ASSUME SQLiteInv, NEW p \in Connection, CommitTransaction(p)
  PROVE  StoreTypeOK' /\ (approvals \subseteq Approval)' /\ [StoreNext]_storeVars
<1>1. /\ lock = p /\ lock' = None /\ dirty' = None
      /\ pc' = [pc EXCEPT ![p] = "open"] /\ call' = [call EXCEPT ![p] = None]
      /\ log' = dirty.log /\ streams' = dirty.streams /\ keys' = dirty.keys
      /\ approvals' = dirty.approvals
  BY DEF CommitTransaction, Publish, Goto, SQLiteInv, Progress
<1>2. CASE AppendReady(p)
  <2> DEFINE r == call[p]
  <2>1. AppendCommit(r.stream, r.commit, r.key, r.payload) /\ approvals' = approvals
    BY <1>1, <1>2 DEF AppendReady, Accepted, AppendCommit, Aside, WholeLog, HeadMoved, KeysWith
  <2>2. /\ r.stream \in Stream /\ r.commit \in Commit
        /\ r.key \in Key \cup {None} /\ r.payload \in Payload
    BY <1>2, RequestType DEF AppendReady
  <2>3. log[r.stream] \in Seq(Commit) /\ log'[r.stream] = Append(log[r.stream], r.commit)
    BY <2>1, <2>2 DEF SQLiteInv, TypeOK, StoreTypeOK, AppendCommit
  <2>4. log'[r.stream] # <<>> /\ Last(log'[r.stream]) = r.commit
    BY <2>2, <2>3, LastOfAppend
  <2>5. StoreTypeOK'
    BY <2>1, <2>2, TypeStep DEF SQLiteInv, TypeOK
  <2> QED BY <2>1, <2>2, <2>4, <2>5 DEF StoreNext, SQLiteInv, TypeOK
<1>3. CASE ApprovalReady(p)
  <2>1. UNCHANGED <<log, streams, keys>> /\ approvals' = approvals \cup {call[p]}
    BY <1>1, <1>3 DEF ApprovalReady, Aside
  <2> QED BY <1>3, <2>1 DEF ApprovalReady, storeVars, SQLiteInv, TypeOK, StoreTypeOK
<1> QED BY <1>2, <1>3 DEF CommitTransaction, SQLiteInv, Progress

\* After a COMMIT nobody has the lock and nothing is aside.
LEMMA CommitStays ==
  ASSUME SQLiteInv, NEW p \in Connection, CommitTransaction(p)
  PROVE  SQLiteInv'
<1>1. /\ lock = p /\ lock' = None /\ dirty' = None
      /\ pc' = [pc EXCEPT ![p] = "open"] /\ call' = [call EXCEPT ![p] = None]
  BY DEF CommitTransaction, Publish, Goto, SQLiteInv, Progress
<1>2. TypeOK'
  <2>1. StoreTypeOK' /\ (approvals \subseteq Approval)'
    BY CommitPublishes
  <2> QED BY <1>1, <2>1 DEF SQLiteInv, TypeOK
<1>3. pc'[p] = "open"
  BY <1>1 DEF SQLiteInv, TypeOK
<1>4. Progress(p)'
  BY <1>3 DEF Progress
<1>5. \A g \in Connection \ {p} : pc'[g] = pc[g] /\ call'[g] = call[g]
  BY <1>1 DEF SQLiteInv, TypeOK
<1> QED BY <1>1, <1>2, <1>4, <1>5, OneMoves

----------------------------------------------------------------------------
(* The theorems *)

\* An empty database has no call in hand.
LEMMA InitHolds == Init => SQLiteInv /\ StoreInit
<1> SUFFICES ASSUME Init PROVE SQLiteInv /\ StoreInit
  OBVIOUS
<1>1. StoreInit /\ StoreTypeOK
  BY DEF Init, StoreInit, StoreTypeOK
<1>2. TypeOK
  BY <1>1 DEF Init, TypeOK
<1>3. \A p \in Connection : Progress(p)
  BY DEF Init, Progress
<1> QED BY <1>1, <1>2, <1>3 DEF SQLiteInv

\* Every statement, failure and crash keeps the invariant and is, for a reader of
\* the tables, one append or nothing.
LEMMA StepHolds ==
  ASSUME SQLiteInv, [Next]_sqliteVars
  PROVE  SQLiteInv' /\ [StoreNext]_storeVars
<1>1. CASE UNCHANGED sqliteVars
  <2>1. UNCHANGED <<log, streams, keys, approvals, pc, call, lock, dirty>>
    BY <1>1 DEF sqliteVars
  <2>2. TypeOK'
    BY <2>1 DEF SQLiteInv, TypeOK, StoreTypeOK
  <2>3. \A g \in Connection : Progress(g)'
    BY <2>1, OthersStay DEF SQLiteInv, tables
  <2> QED BY <2>1, <2>2, <2>3 DEF SQLiteInv, storeVars
<1>2. CASE \E p \in Connection, r \in Request : Begin(p, r)
  BY <1>2, BeginStays
<1>3. CASE \E p \in Connection, a \in Approval : SelectApproval(p, a)
  BY <1>3, SelectApprovalStays
<1>4. ASSUME NEW p \in Connection, Step(p) \/ Crash(p)
      PROVE  SQLiteInv' /\ [StoreNext]_storeVars
  <2>1. CASE Check(p)
    BY <2>1, CheckStays
  <2>2. CASE InsertCommit(p)
    BY <2>2, InsertCommitStays
  <2>3. CASE InsertEvent(p)
    BY <2>3, InsertEventStays
  <2>4. CASE UpdateHead(p)
    BY <2>4, UpdateHeadStays
  <2>5. CASE InsertKey(p)
    BY <2>5, InsertKeyStays
  <2>6. CASE InsertApproval(p)
    BY <2>6, InsertApprovalStays
  <2>7. CASE CommitTransaction(p)
    BY <2>7, CommitStays, CommitPublishes
  <2>8. CASE FailAppend(p) \/ Close(p) \/ Crash(p)
    BY <2>8, RollBackStays DEF FailAppend, Close, Crash
  <2>9. CASE FailApproval(p)
    BY <2>9, WaitsForClose DEF FailApproval
  <2> QED BY <1>4, <2>1, <2>2, <2>3, <2>4, <2>5, <2>6, <2>7, <2>8, <2>9 DEF Step
<1> QED BY <1>1, <1>2, <1>3, <1>4 DEF Next

\* The connections, the lock and the changes aside stay well formed: nothing is
\* uncommitted unless a connection has the lock (append_commit,
\* save_edition_approval).
THEOREM TransactionsTypeCorrect == Spec => []TypeOK
<1>1. SQLiteInv => TypeOK
  BY DEF SQLiteInv
<1> QED BY <1>1, InitHolds, StepHolds, PTL DEF Spec

\* The SQLite store, statement by statement, with any number of connections,
\* failures and crashes, is the store whose appends are atomic.
THEOREM StatementsImplementStore == Spec => StoreIsImplemented
BY InitHolds, StepHolds, PTL DEF Spec, StoreIsImplemented, StoreSpec

OneApprovalPerId == \A a, b \in approvals : a.id = b.id => a = b

\* Approvals change by the COMMIT of one whose id had no row, and it still has
\* none then, because the lock was taken before it was looked up again.
LEMMA ApprovalStep ==
  ASSUME SQLiteInv, OneApprovalPerId, [Next]_sqliteVars
  PROVE  approvals \subseteq approvals' /\ OneApprovalPerId'
<1>1. CASE UNCHANGED approvals
  BY <1>1 DEF OneApprovalPerId
<1>2. CASE \E p \in Connection : CommitTransaction(p)
  <2>1. PICK p \in Connection : CommitTransaction(p)
    BY <1>2
  <2>2. approvals' = dirty.approvals /\ (AppendReady(p) \/ ApprovalReady(p))
    BY <2>1 DEF CommitTransaction, Publish, SQLiteInv, Progress
  <2>3. CASE AppendReady(p)
    BY <1>1, <2>2, <2>3 DEF AppendReady, Aside
  <2>4. CASE ApprovalReady(p)
    <3>1. approvals' = approvals \cup {call[p]} /\ \A a \in approvals : a.id # call[p].id
      BY <2>2, <2>4 DEF ApprovalReady, Aside, Rows
    <3> QED BY <3>1 DEF OneApprovalPerId
  <2> QED BY <2>2, <2>3, <2>4
<1>3. UNCHANGED approvals \/ \E p \in Connection : CommitTransaction(p)
  BY DEF Next, Step, sqliteVars, tables, Begin, SelectApproval, Check, InsertCommit, InsertEvent,
         UpdateHead, InsertKey, InsertApproval, FailAppend, FailApproval, Close, Crash, RollBack
<1> QED BY <1>1, <1>2, <1>3

\* An approval is never replaced and never doubled, although save_edition_approval
\* looks it up outside the transaction that inserts it.
THEOREM ApprovalsStandForEver == Spec => ApprovalsStand
<1>1. Init => OneApprovalPerId
  BY DEF Init, OneApprovalPerId
<1>2. SQLiteInv /\ OneApprovalPerId /\ [Next]_sqliteVars
        => [/\ approvals \subseteq approvals'
            /\ \A a, b \in approvals' : a.id = b.id => a = b]_sqliteVars /\ OneApprovalPerId'
  BY ApprovalStep DEF OneApprovalPerId
<1> QED BY <1>1, <1>2, InitHolds, StepHolds, PTL DEF Spec, ApprovalsStand

\* The tables have what is proved of the atomic store.
COROLLARY TransactionsKeepChains == Spec => []StreamsAreChains
BY StatementsImplementStore, StreamsStayChains DEF StoreIsImplemented

=============================================================================
