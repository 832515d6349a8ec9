\* Every key: two producers and two consumers over a ring that wraps and fills.
SPECIFICATION FairSpec
CONSTANTS
  Producers = {p1, p2}
  Consumers = {c1, c2}
  NoThread = NoThread
  MAX_THREADS = 2
  Commands = {"p", "c", "P", "C", "+", "-", "s", "q"}
  FIXED_SIZE = 2
  QUEUE_SIZE = 1
  MaxProduced = 3
INVARIANTS
  TypeOK
  TokensConserved
  InOrder
  StatusCount
PROPERTIES
  ImplementsFifo
  CommandsReturn
  Delivered
CHECK_DEADLOCK FALSE
