SPECIFICATION Spec
CONSTANTS
  Opens = {c1, c2}
  Requests = {r1, r2}
  Closer = Closer
  Capacity = 2
  MaxEvents = 2
  NoOne = NoOne
  NoEvent = NoEvent
SYMMETRY Identities
INVARIANTS OpensSettled JournalAccounts
PROPERTY SealedIsFinal
CHECK_DEADLOCK FALSE
