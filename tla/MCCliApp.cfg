SPECIFICATION Spec
CONSTANTS
    a = a
    b = b
    Devices = {a, b}
    Addresses <- MCAddresses
    MaxSlot = 1
    Attempts = 2
    EventPlaces = 1
    Tree <- MCTree
    Parent <- MCParent
    Queries <- MCQueries
    Worlds <- MCWorlds
INVARIANTS
  Consent
  SessionsTracked
  KeptOnDisk
PROPERTIES
  Selections
  Settles
CHECK_DEADLOCK FALSE
