SPECIFICATION FsSpec
CONSTANTS
  fd0 = fd0
  fd1 = fd1
  m1 = m1
  m2 = m2
  None = None
  NoMount = NoMount
  NoEntry = NoEntry
  NoMemory = NoMemory
  Device <- MCDevice
  Mount <- MCMount
  Path <- MCPath
  Disks <- MCDisks
  max_block_devices = 2
  INIT_MPOINTS = 5
  MaxMounts = 3
  STEP = 2
  PER_BLOCK = 2
  BASE = 2
  EXT = 1
INVARIANTS
  FileSystemTypeOK
  KnowsLayout
  OpensNamedFile
