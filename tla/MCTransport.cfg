SPECIFICATION TransportSpec
CONSTANTS
  Call = {c1}
  Statuses = {200, 409, 500, 502, 503}
  ClientRetries = 2
  EdgeRetries = 2
  ScreenRetries = 2
INVARIANTS WithinBudget RefusalMeansNotApplied
CHECK_DEADLOCK FALSE
