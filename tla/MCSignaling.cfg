SPECIFICATION Spec
CONSTANTS
  Peers = {a, b, c}
  Groups = {"g1"}
  Group <- OneGroup
  Infos = {i1, i2}
  Capacity = 2
  ClientBuffer = 1
  MaxConnections = 2
  MaxRequests = 2
  MaxHours = 1
  None = None
INVARIANTS
  MembersKnown
  NewcomersExact
SYMMETRY Symmetric
CHECK_DEADLOCK FALSE
