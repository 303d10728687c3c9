SPECIFICATION ElectionSpec
CONSTANTS
  Agents = {a0, a1, a2}
  Clients = {c1, c2}
  Inodes = {i1, i2}
  Old = a0
  NoOne = NoOne
INVARIANT ListenersAreReachable
PROPERTY ClientsConnect
CHECK_DEADLOCK FALSE
