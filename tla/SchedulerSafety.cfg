\* Three ticks a turn, up to two of them inside one scheduler_tick.
SPECIFICATION SafeSpec
CONSTANTS
  k = k
  t1 = t1
  t2 = t2
  t3 = t3
  kp = kp
  p1 = p1
  kernel_thread = k
  kernel_process = kp
  NULL = NULL
  Proc <- MCProc
  Thread <- MCThread
  SLICE = 3
  MaxNested = 2
SYMMETRY Symmetry
INVARIANTS
  TypeOK
  ReadyQueueIntact
  NoFreedThreadReached
  NeverSpins
  AddressSpaceMatches
  KernelStackMatches
  QueuedHaveFrames
  NestedTickReturns
PROPERTY TerminatedNeverRuns
\* A thread resumed from a lost frame stops the machine.
CHECK_DEADLOCK FALSE
