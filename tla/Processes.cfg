SPECIFICATION ProcessesSpec
CONSTANTS
  k = k
  t1 = t1
  t2 = t2
  t3 = t3
  kp = kp
  p1 = p1
  p2 = p2
  p3 = p3
  kernel_thread = k
  kernel_process = kp
  NULL = NULL
  Proc <- MCProc
  Thread <- MCThreadSmall
  Caller <- KernelOnly
  SLICE = 1
  MaxNested = 0
  SLOTS = 3
  MaxPid = 4
SYMMETRY Symmetry
INVARIANTS
  TableLive
  ParentAlive
  ThreadListExact
  Findable
\* thread_exit can find an empty queue after the last one in it was destroyed.
CHECK_DEADLOCK FALSE
