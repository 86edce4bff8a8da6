SPECIFICATION Spec
CONSTANTS
  Requests = {r1, r2, r3}
  Origins = {a, b}
  Semaphores = {s1, s2, s3}
  MaxActive = 2
  OriginLimited = TRUE
  MaxPerOrigin = 1
  MaxPending = 2
  CleanupThreshold = 1
  MaxAttempts = 4
  NoSemaphore = NoSemaphore
  NoOrigin = NoOrigin
  NoRequest = NoRequest
SYMMETRY Identities
CHECK_DEADLOCK FALSE
INVARIANTS
  PermitsConserved
  NoLostWakeup
PROPERTIES
  NoBypass
  ImplementsSlots
