SPECIFICATION MCSpec
CONSTANTS
  None = None
  Absent = Absent
  Stop = Stop
  Break = Break
  Word1 = 1
  Word2 = 2
  Chapter = {1, 2}
  MaxChanges = 1
CONSTANT Category <- MCCategory
CONSTANT RecursionLimit <- MCRecursionLimit
CONSTANT Project <- MCProject
CONSTANT Text <- MCText
CONSTANT Engine <- MCEngine
CONSTANT Manuscript <- MCManuscript
CONSTANT Rewriting <- MCRewriting
CONSTANT Round <- MCRound
CONSTANT Book <- MCBook
CONSTANT Wording <- MCWording
CONSTANT Query <- MCQuery
CHECK_DEADLOCK FALSE
INVARIANTS
  DependenciesFirst
  PlannedAsActivated
  PlanExplains
  FindingsMatchTheText
  CorrectedAsAccepted
  ArbitratedNotMerged
  VerifiedEditionIsTheWork
  ContextIsCurrent
PROPERTIES
  AppliedToTheReviewedText
