SPECIFICATION FairSpec
CONSTANTS
  MaxLayers = 2
  InputSize = 1
  OutputSize = 2
  Limits = {NoLimit, 2}
  NoLimit = NoLimit
  MaxItems = 3
  MaxBody = 2
  Expand = 2
INVARIANTS NothingOverwritten FinishedIsComplete NoFalseFailure
PROPERTY DecodeEnds
CHECK_DEADLOCK FALSE
