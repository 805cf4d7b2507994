SPECIFICATION Spec
CONSTANTS
  None = None
  Failed = Failed
  Callers = {c1, c2, c3}
  Keys = {k1, k2}
  Values = {v}
  Threshold = 1
INVARIANTS Bounded
PROPERTIES WaitersWake ImplementsSingleFlight
