SPECIFICATION FairSpec
CONSTANTS
  Reads = {c1, c2}
  NoRead = NoRead
  MaxFrames = 3
INVARIANTS SingleOwner NoPoisonedReuse BusyHasReader NoGap
PROPERTIES EndsOnce ReadReturns
CHECK_DEADLOCK FALSE
