SPECIFICATION PortalSpec
CONSTANTS
  c1 = c1
  c2 = c2
  alevel = alevel
  university = university
  identity = identity
  diploma = diploma
  Campaign = {c1, c2}
  Category = {alevel, university}
  Credential = {x}
  None = none
  Offered <- MCOffered
  PathOf <- MCPathOf
  MaxKeys = 2
  MaxPages = 2
  Catalogue <- MCCatalogue
  File = {scan, photo}
  NoType = NoType
  NoFile = NoFile
  MaxUploads = 2
  SentWait = 3
  MaxNumbers = 3
INVARIANTS KeyNamesOneBody AnswerIsOfThisForm OnlyTheOfferedIsSent RetryIsReplayed ReceiptIsTrue FailureIsTrue FieldComesBack SpentPassIsTakenDown
CHECK_DEADLOCK FALSE
