SPECIFICATION NoMemorySpec
CONSTANTS
  k = k
  t1 = t1
  t2 = t2
  t3 = t3
  kp = kp
  p1 = p1
  p2 = p2
  p3 = p3
  kernel_thread = k
  kernel_process = kp
  NULL = NULL
  Proc <- MCProc
  Thread <- MCThreadSmall
  Caller <- KernelOnly
  SLICE = 2
  MaxNested = 1
  SLOTS = 1
  MaxPid = 4
SYMMETRY Symmetry
INVARIANTS
  ParentAlive
CHECK_DEADLOCK FALSE
