SPECIFICATION LiveSpec
CONSTANTS
  idle_ = idle_
  dpc_ = dpc_
  t1 = t1
  t2 = t2
  w1 = w1
  Threads = {idle_, dpc_, t1, t2}
  Idle = idle_
  DpcThread = dpc_
  dpc_event = w1
  WaitQueues = {w1}
  Autounsignal = {}
  MaxPriority = 2
  NewPriorities = {1, 2}
  Quantum = 1
  Delays = {1}
  Timeouts = {2}
  WakeErrors = {"NO_ERROR"}
  BootQueues <- Beside
  None = None
INVARIANTS DpcInv BalancedUntimed
PROPERTIES TimedWaitEnds DeadIsFreedByDpc EqualsShare
