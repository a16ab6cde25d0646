SPECIFICATION FairSpec
CONSTANTS
  main = main
  c1 = c1
  c2 = c2
  c3 = c3
  e1 = e1
  e2 = e2
  e3 = e3
  k1 = k1
  p1 = p1
  x = x
  y = y
  None = None
  Stream = {main}
  CommitId = {c1, c2, c3}
  EventId = {e1, e2, e3}
  Key = {k1}
  Payload = {p1}
  Connection = {s1, s2}
  Request <- MCRequest
  Approval <- MCApproval
INVARIANTS
  TypeOK
PROPERTIES
  StoreIsImplemented
  ApprovalsStand
  WritesEnd
CHECK_DEADLOCK FALSE
