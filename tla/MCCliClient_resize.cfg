SPECIFICATION FairSpec
CONSTANTS
  ResizeCap = 1
  NetCap = 1
  MaxSize = 2
  MaxIn = 1
PROPERTIES
  ResizeForwarded
CHECK_DEADLOCK FALSE
