SPECIFICATION Spec
CONSTANTS
  main = main
  fork = fork
  Stream <- MCStream
  Payload <- Race
  Key <- MCKey
  CommitId = {1, 2, 3}
  EventId = {1, 2, 3, 4, 5, 6}
  Process = {h1, h2}
  None = None
  MaxEvents = 2
SYMMETRY ProcessSymmetry
INVARIANTS
  TypeOK
  OneCommitPerCommand
  AnswersAreDurable
  ForksCopyAPrefix
  ViewsShowCommits
PROPERTIES
  AppendsOntoWhatItReplayed
  CommandsAreSerial
