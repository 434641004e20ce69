SPECIFICATION StorageDriverSpec
CONSTANTS
  First = 1
  Length = 3
  ChipBlocks = 5
  PerBlock = 2
  Versions = {0, 1}
  ImagePages <- TwoImages
  MaxFaults = 2
  MaxCalls = 2
INVARIANTS StorageInv
PROPERTIES WritesPromised PagesRespected CallEnds SuccessMeansDone
CHECK_DEADLOCK FALSE
