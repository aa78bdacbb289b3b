SPECIFICATION Spec
CONSTANTS
  Transfers <- MCTransfers
  NegProbes = 3
  Probes = 2
  MaxRetries = 2
  MaxBadRounds = 3
  MaxFaults = 3
  FaultKinds = {"delay", "damage"}
INVARIANT NeverSilentlyWrong
