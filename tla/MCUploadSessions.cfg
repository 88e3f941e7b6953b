SPECIFICATION Spec
CONSTANTS
  Prepares = {"r1", "r2"}
  Uploads = {u1, u2}
  Cancels = {"c1"}
  Peers = {"p1", "p2"}
  Files = {f1}
  Sender <- TwoSenders
  Offered <- OfferAll
  Capacity = 1
  MaxUploadAttempts = 2
  MaxPinAttempts = 1
  PinRequired = TRUE
  Registering = {"p1"}
  None = None
INVARIANTS
  GuardOwnsSlot
  OneReceiverPerFile
  SessionEndsOnce
PROPERTIES
  ImplementsSessionSlot
SYMMETRY Symmetric
CHECK_DEADLOCK FALSE
