SPECIFICATION Spec
CONSTANTS
    Delays = {0, 1}
    MaxPendingReads = 3
    MaxTime = 3
    MaxCalls = 3
    MaxFrames = 3
INVARIANTS
    PendingIsAccounted
PROPERTIES
    StopReturns
CHECK_DEADLOCK FALSE
