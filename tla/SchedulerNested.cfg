SPECIFICATION SafeSpec
CONSTANTS
  k = k
  t1 = t1
  t2 = t2
  t3 = t3
  kp = kp
  p1 = p1
  kernel_thread = k
  kernel_process = kp
  NULL = NULL
  Proc <- MCProc
  Thread <- MCThreadSmall
  SLICE = 2
  MaxNested = 1
INVARIANT ResumesIntact
CHECK_DEADLOCK FALSE
