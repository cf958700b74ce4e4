SPECIFICATION FloppyDmaSpec
CONSTANTS
  r1 = r1
  r2 = r2
  None = None
  Reader <- MCReader
  Lba <- MCLba
  num_blocks = 2880
  TRIES = 2
  SeekErrors = TRUE
  ReadErrors = FALSE
  FoundDmac <- MCFoundDmac
INVARIANTS
  ReadsRequestedBlock
  NoStaleInterrupt
  MotorRuns
  TransferInBuffer
PROPERTY ImplementsBlockDevice
