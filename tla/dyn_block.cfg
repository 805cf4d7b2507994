SPECIFICATION ChattySpec
CONSTANTS
  site = site
  v = v
  w = w
  None = None
  Sites <- OneSite
  Words <- OneWord
  MaxMessages = 1
  Capacity = 2
  MaxGeneration = 2
  Blocks = TRUE
  Direct = FALSE
PROPERTIES LoadingEnds
CHECK_DEADLOCK FALSE
