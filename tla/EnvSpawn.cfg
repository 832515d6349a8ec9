\* Three lines of up to two keys; execve may fail each time.
SPECIFICATION SpawnSpec
CONSTANTS
  Processes = {p0, p1, p2, p3}
  Root = p0
  MAX_CHILD = 2
  Lines <- Keys
  MaxTyped = 3
INVARIANTS
  NamesDistinct
PROPERTIES
  QuitEnds
CHECK_DEADLOCK FALSE
