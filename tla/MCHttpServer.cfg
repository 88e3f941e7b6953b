SPECIFICATION Spec
CONSTANTS
  c1 = c1
  c2 = c2
  p1 = p1
  p2 = p2
  Conns = {c1, c2}
  Peers = {p1, p2}
  From <- MCFrom
  Cert <- MCCert
  Config <- MCConfig
  MaxStarts = 2
  Capacity = 1
  CacheSize = 1
  MaxPinAttempts = 2
  None = None
INVARIANTS
  ServerSafe
PROPERTIES
  PinCounts
  CallsReturn
CHECK_DEADLOCK FALSE
