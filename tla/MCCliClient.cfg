SPECIFICATION FairSpec
CONSTANTS
  ResizeCap = 1
  NetCap = 1
  MaxSize = 3
  MaxIn = 2
INVARIANTS
  TypeOK
  InputConserved
  InitialSizeFirst
PROPERTIES
  NoticedResizeArrives
  ClientStops
CHECK_DEADLOCK FALSE
