SPECIFICATION PlatformSpec
CONSTANTS
  HEAP_START = 16
  HEAP_LEN = 21
  Requests = {0, 1, 3, 4}
  Alignments = {0, 1, 6, 8}
  NULL = NULL
  Lengths <- CountedLengths
  Retries = 1
  MaxTrouble = 2
  DexCallers = {"c1", "c2"}
  Targets = {"msm7200a", "msm7227"}
  Vregs = {1}
  MaxCommands = 2
  QupLists <- Lists
  OutBlock = 8
  OutFifo = 16
  MaxBad = 1
  ClockUsers = {"t1", "t2"}
  Clocks = {"GRP", "VDC", "VFE", "SDC1", "SDC1_PCLK"}
  Rated = {"SDC1"}
  Pins = {1, 2}
  Samples = 5
  LoopLimit = 1
  Drivers = {"d1", "d2"}
  ClockIds = {1, 2}
  ScreenUsers = {"t1", "t2"}
  ScreenHandlers = {"isr"}
  width = 26
  height = 24
  FONT_WIDTH = 8
  FONT_HEIGHT = 8
  MaxPosition = 4
  noutputs = 3
  ninputs = 3
  Wired = {0, 1}
  MaxLevel = 7
  LowBytes = 2
  Low = 4
  High = 6
  Patience = 12
  DelayHandlers = {"isr"}
  Usecs = {1, 250}
  Msecs = {1}
  PerMsec = 5
  MaxDelays = 3
  BufferSize = 7
  MaxArgs = 2
  Blocks <- CommandBlocks
  Formats <- FormatSet
  Lens = {2, 4, 6, 64}
  MaxString = 4
  MaxEndpoint = 2
  Strings <- DeviceStrings
  MaxStarts = 7
INVARIANTS HeapInv BoardRight DataWhole ClocksInOrder KeysRight WaitsRight UsbServed
PROPERTIES PromiseSpec DriversReturn
CHECK_DEADLOCK FALSE
