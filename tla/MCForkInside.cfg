SPECIFICATION Spec
CONSTANTS
  a = a
  b = b
  c = c
  r = r
  q = q
  x = x
  y = y
  blank = blank
  None = None
  Branch = {main, fork}
  BlockId = {a, b}
  Content = {x, y, blank}
  Blank = {blank}
  Resource = {a, b}
  Finding = {}
  Draft <- ForkDrafts
  Link = {}
  Patch <- ForkPatches
  MaxVersion = 8
INVARIANTS
  ForksKeepPatchesWhole
CHECK_DEADLOCK FALSE
