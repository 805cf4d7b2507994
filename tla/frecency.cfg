SPECIFICATION Spec
CONSTANTS
  Shells = {s1, s2}
  Keys = {k1, k2}
  SaveEvery = 2
  MaxEntries = 1
  MaxStored = 2
SYMMETRY ShellSymmetry
INVARIANTS SavedStays CleanIsSaved
PROPERTY NewerIsSpared
