SPECIFICATION FairSpec
CONSTANTS
    Imports = {i1}
    Workers = {w1, w2}
    None = None
    Lease = 2
    Window = 3
    MayStall = TRUE
    MaxFaults = 1
INVARIANTS TypeOK ClaimExcludes
PROPERTY EveryImportSettles
