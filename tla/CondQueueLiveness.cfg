\* Messages are consumed and kills return, unless a kill leaves the mutex taken.
SPECIFICATION FairSpec
CONSTANTS
  Producers = {p1}
  Consumers = {c1, c2}
  NoThread = NoThread
  DeadOwner = DeadOwner
  MAX_THREADS = 2
  Commands = {"p", "c", "P", "C", "+", "-", "q"}
  FIXED_SIZE = 3
  QUEUE_SIZE = 1
  SizeLimit = 2
  MaxProduced = 2
PROPERTIES
  Delivered
  KillReturns
CHECK_DEADLOCK FALSE
