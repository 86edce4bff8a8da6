SPECIFICATION Spec
CONSTANTS
  MaxAttempts = 2
  MaxFrames = 1
  Capacity = 1
  Kinds = {"sync", "async"}
  Lengths = {0}
INVARIANTS NoAttemptLeftOpen NoLostWakeup
CHECK_DEADLOCK FALSE
