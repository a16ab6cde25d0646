------------------------- MODULE MCSQLiteTransaction -------------------------
(***************************************************************************)
(* The database for TLC: two connections, appends that race for the first  *)
(* place of a stream and for a key, one that continues a stream, one with  *)
(* an event that is stored already, and approvals that share an id.        *)
(***************************************************************************)
EXTENDS SQLiteTransaction

CONSTANTS main, c1, c2, c3, e1, e2, e3, k1, p1, x, y

Stored(id, version) == [id |-> id, version |-> version, origin |-> None]

Append1(id, parent, events, key) ==
  [stream |-> main, key |-> key, payload |-> p1,
   commit |-> [id |-> id, parent |-> parent, source |-> None, events |-> events]]

MCRequest ==
  {Append1(c1, None, <<Stored(e1, 1), Stored(e2, 2)>>, k1),
   Append1(c2, None, <<Stored(e3, 1)>>, k1),
   Append1(c3, c1, <<Stored(e3, 3)>>, None),
   Append1(c3, c2, <<Stored(e3, 2)>>, k1)}

MCApproval == {[id |-> 1, content |-> x], [id |-> 1, content |-> y], [id |-> 2, content |-> x]}

=============================================================================
