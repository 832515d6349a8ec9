\* Two clients, room for two descriptors beside the listener, any number of SIGINTs.
SPECIFICATION ServerSpec
CONSTANTS
  Clients = {c1, c2}
  Nobody = Nobody
  MAX_FD = 2
INVARIANTS
  SocketsOwned
PROPERTIES
  Served
  ShutdownEnds
CHECK_DEADLOCK FALSE
