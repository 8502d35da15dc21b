SPECIFICATION FairSpec
CONSTANTS
  sh = sh
  m1 = m1
  Leader = sh
  Codes <- MCCodes
  Members <- MCNone
  Jobs <- MCNone
  Detaching <- MCLeader
  Elevating <- MCNone
  ChanCap = 1
  InCap = 1
  OutCap = 1
  NetCap = 1
  ReadMax = 1
  MaxIn = 0
  MaxOut = 1
  MaxOdd = 0
  Program = "any"
  ReadErrors = FALSE
PROPERTIES
  CloseKillsChild
CHECK_DEADLOCK FALSE
