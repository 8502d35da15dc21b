SPECIFICATION Spec
CONSTANTS
  sh = sh
  m1 = m1
  Leader = sh
  Codes <- MCCodes
  Members <- MCNone
  Jobs <- MCNone
  Detaching <- MCLeader
  Elevating <- MCNone
  ChanCap = 1
  InCap = 1
  OutCap = 1
  NetCap = 1
  ReadMax = 1
  MaxIn = 2
  MaxOut = 2
  MaxOdd = 1
  Program = "any"
  ReadErrors = TRUE
INVARIANTS
  SessionTypeOK
  OutputConserved
  InputConserved
  ExitCodeTrue
  ReturnReaps
  WaitAfterHangup
PROPERTIES
  TerminalSpec
CHECK_DEADLOCK FALSE
