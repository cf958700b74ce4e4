SPECIFICATION ElfSpec
CONSTANTS
  NUL = NUL
  NULL = NULL
  NoFile = NoFile
  WORD = 64
  Buffer = {1, 2, 3, 4, 5, 6, 7, 8, 9, 10, 11, 12, 13, 14, 15}
  PathIn <- MCPathIn
  PATHMAX = 8
  Mounted = {"fd0"}
  File <- MCFile
  Stack <- MCStack
  HDR = 2
  PHDR = 1
  PAGE = 4
  Shared = {0, 1, 2, 3, 12, 13, 15}
  Kernel = {12}
  FRAMES = 3
  MaxSpawn = 2
INVARIANTS
  ImagesIntact
  SpawnOutcome
\* The bound on the calls is reached, or the kernel has stopped.
CHECK_DEADLOCK FALSE
