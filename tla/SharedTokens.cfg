SPECIFICATION Spec
CONSTANTS
  RecoverForward = TRUE
  MaxOperations = 3
  MaxFaults = 2
INVARIANTS
  OneKeyPerGeneration
  ConsumersCurrent
CHECK_DEADLOCK FALSE
