SPECIFICATION UntimedSpec
CONSTANTS
  idle_ = idle_
  t1 = t1
  t2 = t2
  t3 = t3
  m1 = m1
  Threads = {idle_, t1, t2, t3}
  Idle = idle_
  WaitQueues = {m1}
  MaxPriority = 1
  NewPriorities = {}
  Quantum = 1
  Delays = {}
  Timeouts = {}
  WakeErrors = {}
  BootQueues <- Equal
  None = None
INVARIANTS LineInv
PROPERTIES DestroyedNotScribbled LineSpec AcquireEnds
