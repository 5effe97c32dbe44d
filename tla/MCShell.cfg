SPECIFICATION ShellSpec
CONSTANTS
  Lines <- MCLines
  Commands <- MCCommands
  ClearCmd <- MCClear
  BufSize = 6
  ArgMax = 3
  ListCap = 2
  QueueCap = 1
  Blank = " "
  Nul = "0"
  Freed = Freed
  Patient = TRUE
INVARIANTS
  RunsWhatWasEntered
  HistoryKept
PROPERTIES
  ArrowsFindLines
