SPECIFICATION Spec
CONSTANTS
  idle_ = idle_
  t1 = t1
  t2 = t2
  t3 = t3
  w1 = w1
  w2 = w2
  Threads = {idle_, t1, t2}
  Idle = idle_
  WaitQueues = {w1}
  MaxPriority = 2
  NewPriorities = {1, 3}
  Quantum = 2
  Delays = {1}
  Timeouts = {1}
  WakeErrors = {"NO_ERROR"}
  BootQueues <- OneThread
  None = None
INVARIANTS CriticalSectionInv
