SPECIFICATION Spec
CONSTANTS
  None = None
  Runs = {"first", "second"}
  Gens = {"p", "o", "f", "c", "t"}
  Calls <- TwoThenAny
  Kind <- KindOf
  Script <- ScriptOf
  ByDir <- OnlyFunction
  ReadsTokens <- OnlyPost
  GeneratorId <- FirstOfPlace
  MaxConcurrent = 1
  DemoteAfter = 1
CHECK_DEADLOCK FALSE
INVARIANTS JsAnswersOwn TimeoutIsLate
PROPERTIES RunsReturn
