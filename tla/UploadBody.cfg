SPECIFICATION FairSpec
CONSTANTS
  MaxAttempts = 1
  MaxFrames = 3
  Capacity = 1
  Kinds = {"sync", "async"}
  Lengths = {0, 1, 3}
INVARIANTS CompleteIsWhole LastChunkFinishes
PROPERTY FeedersEnd
CHECK_DEADLOCK FALSE
