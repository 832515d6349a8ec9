\* Every key: two producers and two consumers, one slot of the ring left unused.
SPECIFICATION Spec
CONSTANTS
  Producers = {p1, p2}
  Consumers = {c1, c2}
  NoThread = NoThread
  DeadOwner = DeadOwner
  MAX_THREADS = 2
  Commands = {"p", "c", "P", "C", "+", "-", "s", "q"}
  FIXED_SIZE = 3
  QUEUE_SIZE = 1
  SizeLimit = 2
  MaxProduced = 5
INVARIANTS
  TypeOK
  NoLostWakeup
  CountFromIndices
  InOrder
PROPERTIES
  ImplementsFifo
SYMMETRY Symmetry
CHECK_DEADLOCK FALSE
