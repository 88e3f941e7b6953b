SPECIFICATION MCSpec
CONSTANTS
  Requests = {"q1", "q2", "q3", "q4", "q5", "q6"}
  Kind <- MCKind
  Target <- MCTarget
  Dest <- MCDest
  Overwrite = {"q1"}
  Paths = {"a", "b", "c"}
  Roots = {"r1", "r2"}
  RootOf <- RootOfABC
  InitialFiles = {"a"}
  Policies <- SharedOrNot
  MaxConcurrent = 2
  Capacity = 1
  None = None
INVARIANTS
  OperationsBounded
  OkMeansDone
  ReadOnlyUntouched
PROPERTIES
  LiveRequestKept
  RequestsEnd
CHECK_DEADLOCK FALSE
