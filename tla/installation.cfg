SPECIFICATION Spec
CONSTANTS
  Files <- TwoFiles
  Scripts <- OneScript
  Body <- Bodies
  Releases = 2
  Starts = {p1}
  Lines = {"x"}
  Changes = 1
  Edit = Edit
  Torn = Torn
  None = None
INVARIANTS RcFindsScripts UserLinesStay EditsSurvive StampTellsEditsUndisturbed
CHECK_DEADLOCK FALSE
