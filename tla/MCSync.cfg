SPECIFICATION SyncSpec
CONSTANTS
  idle_ = idle_
  t1 = t1
  t2 = t2
  t3 = t3
  q1 = q1
  q2 = q2
  Threads = {idle_, t1, t2, t3}
  Idle = idle_
  WaitQueues = {q1, q2}
  Autounsignal = {q1}
  MaxPriority = 2
  NewPriorities = {}
  Quantum = 1
  Delays = {1}
  Timeouts = {1}
  WakeErrors = {}
  BootQueues <- Above
  None = None
INVARIANTS EventInv CountInv
PROPERTIES PromiseSpec
