SPECIFICATION SystemFairSpec
CONSTANTS
  c1 = c1
  c2 = c2
  c3 = c3
  Conns <- MCConns
  NoSocket = NoSocket
  MaxMounts = 1
  MaxSize = 0
  PoolSize = 2
PROPERTIES
  RestartOnlyAfterLoss
  CommandsEnd
  ExitReaches
CHECK_DEADLOCK FALSE
