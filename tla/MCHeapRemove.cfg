SPECIFICATION Spec
CONSTANTS
    MaxUid = 11
    MaxDestroyUid = 4
    MaxWithdrawn = 1
    Delays = {0, 1}
    WidthModulus = 8
    SchedulerKinds = {"heap"}
    RemovingKinds = {"heap"}
INVARIANT
    NoAssertionFails
CHECK_DEADLOCK FALSE
