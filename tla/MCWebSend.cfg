SPECIFICATION FairWebSpec
CONSTANTS
  Prepares = {"r1", "r2", "r3"}
  Downloads = {d1}
  Browsers = {"p1", "p2"}
  PeerOf <- TwoTabs
  WebCapacity = 1
  UnguardedDrop = {"r3"}
  NoPeer = NoPeer
INVARIANTS
  SessionsGuarded
PROPERTIES
  AcceptedUntilRenewed
  EntrySettles
CHECK_DEADLOCK FALSE
