SPECIFICATION Spec
CONSTANTS
  Transfers <- WindowedStreams
  Numbers = 8
  MaxRetries = 2
  InitAttempts = 2
  NoProgress = 3
  MaxBatchFiles = 2
  MaxFaults = 2
  FaultKinds = {"loss"}
INVARIANT ZAckConfirms
