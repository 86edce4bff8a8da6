SPECIFICATION Spec
CONSTANTS
  Connections = {k1, k2}
  Requests = {r1, r2}
  MaxUses = 2
  None = None
SYMMETRY Identities
INVARIANTS IdleIsReusable NoWriteOverIncomplete EveryUseEnds AbortedIsWoken
CHECK_DEADLOCK FALSE
