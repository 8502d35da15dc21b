SPECIFICATION Spec
CONSTANTS
  c1 = c1
  c2 = c2
  c3 = c3
  Conns <- MCTwo
  NoSocket = NoSocket
  MaxMounts = 1
  MaxSize = 1
INVARIANTS
  OutputPreserved
CHECK_DEADLOCK FALSE
