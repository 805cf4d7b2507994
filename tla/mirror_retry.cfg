SPECIFICATION Spec
CONSTANTS
  Files <- TwoFiles
  Body <- Bodies
  Scripts <- OneScript
  Releases = 2
  Starts = {p1}
  Lines = {}
  Changes = 0
  Edit = Edit
  Torn = Torn
  None = None
INVARIANTS StampTellsEdits
CHECK_DEADLOCK FALSE
