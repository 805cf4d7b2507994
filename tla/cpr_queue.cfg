SPECIFICATION Spec
CONSTANTS
  None = None
  Chunks <- AllChunks
  Places = 2
  MaxQueue = 3
  Ids = 4
  Stale = 2
  Loses = TRUE
INVARIANTS TypeOK QueueMatches EveryReportIsClaimed
PROPERTY AnswersOwnQuery
CHECK_DEADLOCK FALSE
