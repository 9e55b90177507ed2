SPECIFICATION FairSpec
CONSTANTS
  Creators = {c1}
  Completers = {k1}
  Workers = {w1, w2}
  SessionTtl = 2
  UrlTtl = 1
  Retention = 1
  StaleClaim = 1
  MayMiscommit = TRUE
  MayStall = TRUE
  MaxClock = 3
  MaxFaults = 2
  MaxRefs = 1
INVARIANTS TypeOK StagingStaysDeleted ReadyHasItsObject ReferencedIsKept
PROPERTIES EndedStaysEnded ImplementsLifecycle ClosedIsCleaned
CHECK_DEADLOCK FALSE
