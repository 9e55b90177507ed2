SPECIFICATION FairSpec
CONSTANTS
  Sockets = {s1, s2}
  Requests = {h1}
  AllowLocalFallback = FALSE
  MaxOutages = 2
  MaxGeneration = 3
INVARIANTS TypeOK CloseIsQuiet OneAdapterGeneration
PROPERTIES ShutdownEnds PresenceIsRestored
CHECK_DEADLOCK FALSE
