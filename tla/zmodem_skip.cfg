SPECIFICATION Spec
CONSTANTS
  Transfers <- SkipBatch
  MaxRetries = 2
  NegRetries = 2
  MaxBatchFiles = 3
  MaxFaults = 1
  FaultKinds = {"delay"}
INVARIANT SkippedWasTurnedDown
