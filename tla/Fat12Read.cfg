SPECIFICATION Fat12Spec
CONSTANTS
  last_cluster = 5
  bytes_per_sector = 3
  sectors_per_cluster = 1
  data_area_start = 2
  WORD = 32
  Request <- MCRequest
  Position <- MCPosition
  Foreign <- MCForeign
  BlockErrors = 0
INVARIANTS
  ReadsFileBytes
  FollowsChain
PROPERTY ImplementsByteStream
