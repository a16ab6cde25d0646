SPECIFICATION Spec
CONSTANTS
  a = a
  b = b
  c = c
  r = r
  q = q
  x = x
  y = y
  blank = blank
  None = None
  Branch = {main}
  BlockId = {a, b, c}
  Content = {x, y, blank}
  Blank = {blank}
  Resource = {a, b, c}
  Finding = {}
  Draft <- TreeDrafts
  Link <- TreeLinks
  Patch <- TreePatches
  MaxVersion = 6
INVARIANTS
  TypeOK
  PatchesApplyWhole
  PatchesKeepForests
  NoOrphans
CHECK_DEADLOCK FALSE
