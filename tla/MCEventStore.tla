---------------------------- MODULE MCEventStore ----------------------------
(***************************************************************************)
(* EventStore for TLC: callers submit any commit over small sets, with     *)
(* versions, parents and ids that need not fit, so that every check of     *)
(* append_commit both accepts and refuses.                                 *)
(***************************************************************************)
EXTENDS EventStore

CONSTANTS
  MaxEvents,      \* bound: events in one submitted commit
  MaxVersion      \* bound: highest aggregate_version submitted

SubmittedEvents ==
  BoundedSeq([id : EventId, version : 1..MaxVersion, origin : {None}], MaxEvents) \ {<<>>}

SubmittedCommit ==
  [id : CommitId, parent : CommitId \cup {None}, source : {None}, events : SubmittedEvents]

MCNext ==
  \E s \in Stream, c \in SubmittedCommit, k \in Key \cup {None}, p \in Payload :
    AppendCommit(s, c, k, p)

MCSpec == StoreInit /\ [][MCNext]_storeVars

IdSymmetry == Permutations(CommitId) \cup Permutations(EventId)

============================================================================
