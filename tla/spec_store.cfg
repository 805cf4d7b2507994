SPECIFICATION StoreSpec
CONSTANTS
  None = None
  Readers = {r1, r2}
  Aliases = {"a", "b", "c"}
  Installations <- TwoDirs
  Embedded = 2
  Ttl = 2
  Cap = 1
  Warm = {"c"}
  MaxClock = 5
  Edits = 1
SYMMETRY AnyReader
INVARIANTS AliasesInOrder FirstThatParses CapIsReached
PROPERTY RecentSurvives
CHECK_DEADLOCK FALSE
