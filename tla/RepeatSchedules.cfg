SPECIFICATION FairSpec
CONSTANTS
    Schedules = {s1, s2, s3}
    NoSchedule = NoSchedule
    MaxFaults = 3
    MaxTimeouts = 2
INVARIANTS TypeOK ActiveIsReal ClosedIsQuiet
PROPERTY RestoredUnlessTimedOut
CHECK_DEADLOCK FALSE
