SPECIFICATION SessionSpec
CONSTANTS
  Tab = {t1}
  Applicant = FALSE
  IdleTtl = 4
  AbsoluteTtl = 9
  Warning = 2
  MinDelay = 1
  BootIsFast = TRUE
  MaxTime = 11
  MaxHandles = 1
  MaxCloses = 1
  MaxErrors = 0
  MaxThrows = 0
INVARIANTS ActiveUserKeepsSession
CHECK_DEADLOCK FALSE
