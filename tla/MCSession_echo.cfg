SPECIFICATION FairSpec
CONSTANTS
  sh = sh
  m1 = m1
  Leader = sh
  Codes <- MCCodes
  Members <- MCNone
  Jobs <- MCNone
  Detaching <- MCNone
  Elevating <- MCNone
  ChanCap = 1
  InCap = 1
  OutCap = 1
  NetCap = 1
  ReadMax = 1
  MaxIn = 6
  MaxOut = 0
  MaxOdd = 0
  Program = "echo"
  ReadErrors = FALSE
PROPERTIES
  InputForwarded
CHECK_DEADLOCK FALSE
