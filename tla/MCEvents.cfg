SPECIFICATION Spec
CONSTANTS
    MaxUid = 9
    MaxDestroyUid = 5
    MaxWithdrawn = 1
    Delays = {0, 2, 4}
    WidthModulus = 8
    SchedulerKinds = {"list", "map", "heap", "calendar"}
    RemovingKinds = {"list", "map", "calendar"}
INVARIANTS
    NoAssertionFails
    ExpiredIsExact
    EventsAccounted
PROPERTY
    ImplementsSimulator
CHECK_DEADLOCK FALSE
