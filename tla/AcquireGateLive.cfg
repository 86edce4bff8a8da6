SPECIFICATION FairSpec
CONSTANTS
  Requests = {r1, r2, r3}
  Origins = {a}
  Semaphores = {s1}
  MaxActive = 1
  OriginLimited = FALSE
  MaxPerOrigin = 1
  MaxPending = 2
  CleanupThreshold = 2
  MaxAttempts = 3
  NoSemaphore = NoSemaphore
  NoOrigin = NoOrigin
  NoRequest = NoRequest
CHECK_DEADLOCK FALSE
PROPERTIES
  QueuedLeaves
