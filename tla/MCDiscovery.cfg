SPECIFICATION Spec
CONSTANTS
    Devices = {"a", "b"}
    Own = "own"
    Hosts = {"h1", "h2", "h6"}
    V6 = {"h6"}
    Interfaces = {"eth"}
    SubnetOf <- MCSubnetOf
    Known = {"h1"}
    Networks <- MCNetworks
    MaxLogs = 2
    EventCapacity = 1
    Concurrency = 1
    Rounds = 1
    PeersAt <- MCPeersAt
    MaxInputs = 2
    None = None
INVARIANTS
  StoreFaithful
  ScansComplete
PROPERTIES
  ScansEnd
CHECK_DEADLOCK FALSE
