SPECIFICATION PtyFairSpec
CONSTANTS
  sh = sh
  m1 = m1
  m2 = m2
  Leader = sh
  Members <- MCMembers
  Codes <- MCCodes
  Jobs <- MCMembers
  Detaching <- MCProcs
  Elevating <- MCProcs
INVARIANTS
  MutexHeld
  TermWhileOwned
  OneCleanup
  NoSurvivors
  FinishedMeansReaped
PROPERTIES
  CleanupCompletes
CHECK_DEADLOCK FALSE
