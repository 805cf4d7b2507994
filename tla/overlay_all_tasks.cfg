SPECIFICATION Spec
CONSTANTS
  s1 = s1
  s2 = s2
  None = None
  Shapes <- TwoShapes
  Tasks = {"stdin", "pty", "debounce", "merge", "detail", "feedback", "config", "signal"}
  TooSmall = TRUE
  MaxEpoch = 3
INVARIANTS Ledger GhostFree
PROPERTIES AcknowledgesUnlessBorrowed StaleDropQuietUnlessBorrowed
SYMMETRY Symmetry
CHECK_DEADLOCK FALSE
