SPECIFICATION FairSpec
CONSTANTS
  site = site
  v = v
  w = w
  None = None
  Sites <- OneSite
  Words <- TwoWords
  MaxMessages = 1
  Capacity = 2
  MaxGeneration = 2
  Blocks = FALSE
  Direct = TRUE
INVARIANTS TypeOK LoadingIsAnswered ShowsCurrentRun SkipRepeatsTrigger ChannelOfGeneration
PROPERTIES MergesMatchBuffer LoadingEnds
CHECK_DEADLOCK FALSE
