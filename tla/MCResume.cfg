SPECIFICATION DeskSpec
CONSTANTS
  None = None
  Torn = Torn
  console = console
  cli = cli
  short = short
  long = long
  layered = layered
  a1 = a1
  a2 = a2
  Actor = {a1, a2}
  Source = {short, long, layered}
  Console = {console}
  Flaw = {1, 2}
CONSTANT Desk <- MCDesk
CONSTANT Flaws <- MCFlaws
CONSTANT Scenario <- MCScenario
PROPERTY ResumesWhereItStopped
