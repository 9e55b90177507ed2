SPECIFICATION FairSpec
CONSTANTS
  Calls = {c1, c2}
  Students = {s1}
  Keys = {k1}
  NoKey = NoKey
  Actors = {a1, a2}
  Expirers = {e1}
  Threshold = 1
  BatchSize = 1
  Stuck = {}
  MaxClock = 2
  MaxFaults = 1
PROPERTIES TerminalIsFinal
CHECK_DEADLOCK FALSE
