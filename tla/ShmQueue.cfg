\* Every key: one producer and two consumers, killed at any point.
SPECIFICATION FairSpec
CONSTANTS
  Producers = {p1}
  Consumers = {c1, c2}
  NoProcess = NoProcess
  Commands = {"p", "c", "P", "C", "q"}
  FIXED_SIZE = 2
  MaxProduced = 3
INVARIANTS
  MutexHeldByLiving
  InOrder
PROPERTIES
  TokensKept
  ImplementsFifo
  Delivered
  SignalEnds
CHECK_DEADLOCK FALSE
