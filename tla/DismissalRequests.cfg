SPECIFICATION FairSpec
CONSTANTS
  Calls = {c1, c2}
  Students = {s1, s2}
  Keys = {k1}
  NoKey = NoKey
  Actors = {a1}
  Expirers = {e1}
  Threshold = 1
  BatchSize = 2
  Stuck = {c1}
  MaxClock = 2
  MaxFaults = 1
INVARIANTS TypeOK OneActivePerStudent AnswerIsTheCallersOwn OneRequestPerKey HandoverIsOnRecord
PROPERTIES ExpiryEndsActiveOnly EveryRequestEnds
CHECK_DEADLOCK FALSE
