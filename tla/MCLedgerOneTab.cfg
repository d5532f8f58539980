SPECIFICATION FairLedgerSpec
CONSTANTS
  OfflineQueue = FALSE
  Tab = {t1}
  MaxRecords = 3
  MaxApplies = 2
  MaxFaults = 1
INVARIANTS InCaptureOrder
PROPERTIES ActsAtomically TailRunsEmpty
CHECK_DEADLOCK FALSE
