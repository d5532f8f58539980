SPECIFICATION FairSignInSpec
CONSTANTS
  Phone = {p1}
  WellFormed = {p1}
  NoPhone = none
  Call = {c1, c2}
  MaxAttempts = 2
  Ttl = 1
  MaxTokens = 2
INVARIANTS ConfirmedHasToken 
PROPERTIES ExpiryIsDriven SpinnerEnds
CHECK_DEADLOCK FALSE
