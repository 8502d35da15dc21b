SPECIFICATION FairSpec
CONSTANTS
  c1 = c1
  c2 = c2
  c3 = c3
  Conns <- MCConns
  NoSocket = NoSocket
  MaxMounts = 2
  MaxSize = 2
INVARIANTS
  TypeOK
  OneConnection
  StatusIsTrue
  NoticeHasTimer
  SizeIsKnown
PROPERTIES
  ExitIsFinal
  UnmountIsQuiet
  ReconnectEnds
CHECK_DEADLOCK FALSE
