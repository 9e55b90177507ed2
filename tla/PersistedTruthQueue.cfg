SPECIFICATION FairSpec
CONSTANTS
    Jobs = {j1}
    Callers = {c1, c2, c3}
    NoCaller = NoCaller
    MaxFaults = 2
INVARIANTS TypeOK AcceptedWorkSurvives OneReplacer
PROPERTIES LockOnlyFreedByOwner RequiredWorkIsDone
