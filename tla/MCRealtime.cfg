SPECIFICATION FairSpec
CONSTANTS
    Threads = {t1}
    Delays = {0, 5}
    Epoch = 11
    Jiffy = 1
    Second = 6
    MaxClock = 17
    MaxUid = 6
    MaxRuns = 2
INVARIANTS
    NoAssertionFails
    NoWakeupIsLost
    DueWhenTaken
PROPERTY
    EventsRun
CHECK_DEADLOCK FALSE
