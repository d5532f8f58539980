SPECIFICATION ConsoleSpec
CONSTANTS
  Text = {on, off}
  Active = {on}
  Posts <- MCPosts
  MaxPresses = 3
  Rows = 2
  Starting <- MCStarting
  MaxDecisions = 2
  MaxMoves = 1
  Filter = {everyone, cleared}
  AllFilter = everyone
  LastPage = 3
  MaxReads = 3
  MaxLoads = 3
  Erasable = {e1, e2}
  NoRequest = NoRequest
  MaxVerdicts = 3
  MaxElsewhere = 1
INVARIANTS AnswerShownOnce WrittenOnce BulkReportIsTrue RefusalIsOfThisDialog PagesFollowOn
CHECK_DEADLOCK FALSE
