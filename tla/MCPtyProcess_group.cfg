SPECIFICATION PtySpec
CONSTANTS
  sh = sh
  m1 = m1
  m2 = m2
  Leader = sh
  Members <- MCMembers
  Codes <- MCCodes
  Jobs <- MCNone
  Detaching <- MCNone
  Elevating <- MCNone
INVARIANTS
  GroupTerminated
CHECK_DEADLOCK FALSE
