SPECIFICATION MCSpec
CONSTANTS
  Threads = {1, 2}
  EventsCap = 2
  MaxRows = 3
  MaxMoves = 4
  MaxCuts = 1
  MaxPulls = 2
  None = None
  Calls = {1, 2, 3}
  Models = {m1, m2}
  DefaultModel = m1
INVARIANTS SidechatTypeOK ThreadsHold
PROPERTIES TakenOverOnce ShowsOwnTail ShowsAllInTheEnd
CHECK_DEADLOCK FALSE
