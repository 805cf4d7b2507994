SPECIFICATION TriggerSpec
CONSTANTS
  Keys <- AllKeys
  MaxKeys = 3
  Reloads = 1
  Delay = TRUE
CHECK_DEADLOCK FALSE
INVARIANT MisplacedGoes
PROPERTY ReportsAreAnswered
