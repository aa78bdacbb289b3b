SPECIFICATION FairSpec
CONSTANTS
  Transfers <- MCAll
  BigUnits = 2
  SeqMod = 5
  MaxRetries = 1
  CrcAttempts = 2
  MaxStray = 2
  MaxUnits = 7
  MaxBatchFiles = 2
  MaxFaults = 2
  NoiseToR = {"EOT","CAN","ESC","junk"}
  NoiseToS = {"ACK","NAK","C","CAN","ESC","junk"}
INVARIANT BytesInPlace
INVARIANT ReceiverSuccessIsWhole
INVARIANT SenderSuccessIsWhole
PROPERTY FilesKept
PROPERTY BothReturn
