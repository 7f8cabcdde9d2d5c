CONSTANTS
  Clients <- OneClient
  Letters <- OneLetter
  Blank = " "
  Newline = "n"
  BufSize = 3
  MaxSent = 6
SPECIFICATION Spec
INVARIANTS
  RunsWhatWasSent
  RunsTailsOfLines
PROPERTIES
  HangUpRunsTheRest
  CommandsRun
