SPECIFICATION Spec
CONSTANTS
  Creators = {c1}
  Completers = {k1}
  Workers = {w1, w2}
  SessionTtl = 2
  UrlTtl = 1
  Retention = 1
  StaleClaim = 1
  MayMiscommit = FALSE
  MayStall = TRUE
  MaxClock = 2
  MaxFaults = 3
  MaxRefs = 1
INVARIANT ReferencedObjectRetained
CHECK_DEADLOCK FALSE
