SPECIFICATION KeySpec
CONSTANTS
  Pins = {1, 2}
  Samples = 5
  LoopLimit = 1
PROPERTIES BothEdges
