SPECIFICATION PatientSpec
CONSTANTS
  OfflineQueue = FALSE
  MaxRecords = 2
  Call = {c1}
  Nobody = Nobody
  Pages = {"physical"}
  Resolver = {}
  MaxFaults = 1
INVARIANT ClaimsBacked
PROPERTIES EveryCaptureIsDecided InterruptedReturns
CHECK_DEADLOCK FALSE
