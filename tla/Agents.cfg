SPECIFICATION MCSpec
CONSTANTS
  Sessions = {s1, s2}
  Calls = {1}
  Views = {1, 2, 3, 4, 5}
  QueueMax = 2
  FailureLimit = 3
  MaxSwitches = 3
  MaxCuts = 2
  MaxToggles = 0
  Window = FALSE
  None = None
  Terminals = {1, 2}
  Waits = {1, 2}
INVARIANTS AgentsTypeOK OpensArrive
PROPERTIES OpensGetThrough NoShellLeft WaitsAreAnswered
CHECK_DEADLOCK FALSE
