\* Three lines, typed or from a file, and a server stopped at any time.
SPECIFICATION FairSpec
CONSTANTS
  MaxRequests = 3
INVARIANTS
  InStep
PROPERTIES
  Synchronized
  HandlerEnds
CHECK_DEADLOCK FALSE
