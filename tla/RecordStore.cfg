\* Processes start with no file, initialize it over each other, and modify it.
SPECIFICATION FairSpec
CONSTANTS
  Processes = {a, b}
  NoProcess = NoProcess
  RecordCount = 2
  Initial = Initial
  Values = {v, w}
  Hole = Hole
  Missing = Missing
  Unread = Unread
  FileExists = FALSE
INVARIANTS
  InitComplete
PROPERTIES
  UserAnswered
CHECK_DEADLOCK FALSE
