SPECIFICATION MCSpec
CONSTANTS
  Stream = {main, draft}
  CommitId = {c1, c2, c3}
  EventId = {e1, e2, e3, e4}
  Key = {k1}
  Payload = {p1, p2}
  None = None
  MaxEvents = 2
  MaxVersion = 4
SYMMETRY IdSymmetry
INVARIANTS
  StoreTypeOK
  StreamsAreChains
  EventsAreNumbered
  IdsAreUnique
  KeysNameTheirCommit
PROPERTY AppendOnly
CHECK_DEADLOCK FALSE
