SPECIFICATION FairSpec
CONSTANTS
  Sockets = {s1, s2}
  Requests = {h1}
  AllowLocalFallback = FALSE
  MaxOutages = 0
  MaxGeneration = 1
INVARIANTS NoGhostSocket
CHECK_DEADLOCK FALSE
