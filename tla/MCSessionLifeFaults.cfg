SPECIFICATION FairSessionSpec
CONSTANTS
  Tab = {t1}
  Applicant = TRUE
  IdleTtl = 3
  AbsoluteTtl = 6
  Warning = 2
  MinDelay = 1
  BootIsFast = TRUE
  MaxTime = 7
  MaxHandles = 2
  MaxCloses = 1
  MaxErrors = 1
  MaxThrows = 1
INVARIANTS ExpiredMeansLost SignedOutMeansRevoked OrphansHadExpired
PROPERTIES CeilingIsShown
CHECK_DEADLOCK FALSE
