SPECIFICATION ServiceSpec
CONSTANTS
    Names <- MCNames
    AddressesOf <- MCAddressesOf
    V6Addresses <- MCV6
    Indexed <- MCNames
    Filters <- MCFilters
    MaxStarts = 2
    MaxErrors = 2
    Capacity = 1
    ListenCapacity = 1
    Nobody = Nobody
INVARIANTS
  OneDiscovery
PROPERTIES
  CallsReturn
CHECK_DEADLOCK FALSE
