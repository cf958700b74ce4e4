SPECIFICATION Spec
CONSTANTS
  k = k
  t1 = t1
  t2 = t2
  t3 = t3
  kp = kp
  p1 = p1
  kernel_thread = k
  kernel_process = kp
  NULL = NULL
  Proc <- MCOneProc
  Thread <- MCThread
  SLICE = 2
  MaxNested = 0
PROPERTIES
  PostedThreadRuns
  ImplementsRoundRobin
