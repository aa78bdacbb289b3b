SPECIFICATION FairSpec
CONSTANTS
  Transfers <- MCTransfers
  MaxRetries = 2
  NegRetries = 2
  MaxBatchFiles = 2
  MaxFaults = 3
  FaultKinds = {"loss", "damage", "delay", "cancel", "hangup"}
INVARIANT TransferSound
PROPERTY BothReturn
PROPERTY KeepsPromise
