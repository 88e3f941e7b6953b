SPECIFICATION TransferSpec
CONSTANTS
    Size = 2
    ChannelCapacity = 1
    SenderAttempts = 3
    ReceiverAttempts = 3
INVARIANTS
  WholeFiles
PROPERTIES
  RetriesSafe
  EveryPartEnds
CHECK_DEADLOCK FALSE
