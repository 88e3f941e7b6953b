SPECIFICATION FairSpec
CONSTANTS
  Prepares = {"r1", "r2"}
  Uploads = {u1}
  Cancels = {}
  Peers = {"p1"}
  Files = {"f1", "f2"}
  Sender <- OneSender
  Offered <- OfferFewer
  Capacity = 1
  MaxUploadAttempts = 2
  MaxPinAttempts = 1
  PinRequired = FALSE
  Registering = {}
  None = None
INVARIANTS
  PendingSlotNotLeaked
  FileNotStuck
  AttemptsBounded
PROPERTIES
  UploadsSettle
CHECK_DEADLOCK FALSE
