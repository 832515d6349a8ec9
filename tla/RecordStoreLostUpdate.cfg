\* Two processes modify one record.
SPECIFICATION Spec
CONSTANTS
  Processes = {a, b}
  NoProcess = NoProcess
  RecordCount = 1
  Initial = Initial
  Values = {v, w}
  Hole = Hole
  Missing = Missing
  Unread = Unread
  FileExists = TRUE
PROPERTIES
  NoLostUpdate
SYMMETRY Symmetry
CHECK_DEADLOCK FALSE
