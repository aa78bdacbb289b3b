SPECIFICATION FairSpec
CONSTANTS
  Transfers <- MCTransfers
  Numbers = 5
  MaxRetries = 1
  InitAttempts = 2
  NoProgress = 3
  MaxBatchFiles = 2
  MaxFaults = 2
  FaultKinds = {"loss", "damage", "delay", "cancel", "hangup"}
INVARIANT TransferSound
PROPERTY BothReturn
PROPERTY KeepsPromise
