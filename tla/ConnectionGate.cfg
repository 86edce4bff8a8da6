SPECIFICATION FairSpec
CONSTANTS
  Connects = {c1, c2, c3}
  Origins = {a, b}
  Semaphores = {s1, s2}
  Global = Global
  MaxConnections = 1
  MaxPerHost = 1
  CleanupThreshold = 1
  MaxAttempts = 4
  NoSemaphore = NoSemaphore
  NoOrigin = NoOrigin
INVARIANTS ConnectionLimits ConnectionPermitsConserved
PROPERTY WaitersServed
CHECK_DEADLOCK FALSE
