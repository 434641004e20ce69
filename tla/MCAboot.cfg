SPECIFICATION AbootSpec
CONSTANTS
  Controls = {"config", "unconfig", "clear_out"}
  MaxResets = 2
  Commands = {"download", "toolarge", "flash", "continue", "unknown"}
  CommandLengths = {1}
  BUF_SIZE = 2
  Lengths = {0, 3}
  PatientHost = FALSE
  Polls = 1
  MaxCuts = 2
  MaxFaults = 1
INVARIANTS UsbInv NoPartialDownload BootInv
PROPERTIES CommandOnce PatientHostServed RecoveryOnce EveryBootEnds
CHECK_DEADLOCK FALSE
