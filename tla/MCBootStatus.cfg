SPECIFICATION BootSpec
CONSTANTS
  Polls = 1
  MaxCuts = 2
  MaxFaults = 1
INVARIANTS FailureReported
CHECK_DEADLOCK FALSE
