SPECIFICATION Spec
CONSTANTS
  MaxPid = 11
  Starts = 2
INVARIANTS NoStackedProxies PlainShellHasReason NoShellLeftBehind
PROPERTIES TabsGetShells ProxiesEnd
CHECK_DEADLOCK FALSE
