SPECIFICATION Spec
CONSTANTS
    f1 = f1
    f2 = f2
    None = None
    Files = {f1, f2}
    Size <- MCSize
    MaxTries = 2
    Capacity = 2
INVARIANTS ProtocolFits DataBelongs
PROPERTY EachEndEnds
CHECK_DEADLOCK FALSE
