SPECIFICATION FairSpec
CONSTANTS
  Requests = {1, 2}
  Files = {"0"}
  Offered <- OneEach
  MaxAttempts = 2
  Retrying = {1}
INVARIANTS
  FilesAccountedFor
PROPERTIES
  CancelledGetsNoTarget
  ComesToRest
CHECK_DEADLOCK FALSE
