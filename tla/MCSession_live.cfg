SPECIFICATION FairSpec
CONSTANTS
  sh = sh
  m1 = m1
  Leader = sh
  Codes <- MCCodes
  Members <- MCMembers
  Jobs <- MCMembers
  Detaching <- MCNone
  Elevating <- MCLeader
  ChanCap = 1
  InCap = 1
  OutCap = 1
  NetCap = 1
  ReadMax = 1
  MaxIn = 1
  MaxOut = 1
  MaxOdd = 0
  Program = "any"
  ReadErrors = FALSE
PROPERTIES
  PtySpec
  DisconnectEnds
  HangupReported
  OutputArrives
  ReaderEnds
  LeaderReaped
CHECK_DEADLOCK FALSE
