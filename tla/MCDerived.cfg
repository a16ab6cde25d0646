SPECIFICATION Spec
CONSTANTS
  a = a
  b = b
  c = c
  r = r
  q = q
  x = x
  y = y
  blank = blank
  None = None
  Branch = {main, fork}
  BlockId = {a}
  Content = {x, y, blank}
  Blank = {blank}
  Resource = {a, r, q}
  Finding = {f}
  Draft <- ChainDrafts
  Link <- ChainLinks
  Patch <- ChainPatches
  MaxVersion = 7
INVARIANTS
  ChangesReachDependents
  DecisionsMeetTheirRevision
CHECK_DEADLOCK FALSE
