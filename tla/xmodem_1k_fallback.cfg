SPECIFICATION Spec
CONSTANTS
  Transfers <- MCBig
  BigUnits = 2
  SeqMod = 5
  MaxRetries = 2
  CrcAttempts = 2
  MaxStray = 2
  MaxUnits = 7
  MaxBatchFiles = 2
  MaxFaults = 1
  NoiseToR = {}
  NoiseToS = {}
INVARIANT FallbackKeepsBytes
