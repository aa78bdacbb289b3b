SPECIFICATION FairSpec
CONSTANTS
  Transfers <- MCTransfers
  NegProbes = 3
  Probes = 2
  MaxRetries = 2
  MaxBadRounds = 3
  MaxFaults = 2
  FaultKinds = {"loss", "damage", "delay", "cancel", "hangup"}
INVARIANT TransferSound
PROPERTY BothReturn
PROPERTY KeepsPromise
