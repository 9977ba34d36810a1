SPECIFICATION MCSpec
CONSTANTS
  Workspaces = {w1}
  Sessions = {s1}
  WorkspaceOf <- MCWorkspaceOf
  Terms = {t1, t2}
  Calls = {c1, c2}
  MaxPerWorkspace = 2
  MaxGlobal = 2
  RetainedFactor = 2
  MaxViews = 0
  DetachGrace = 1
  ExitRetention = 1
  IdleRetention = 1
  Integrations = {FALSE}
  NoSession = NoSession
  NoCall = NoCall
  Timer = Timer
  OneTerm = {r1}
  OneCall = {d1}
INVARIANTS ManagerTypeOK NoneTooMany NoShellLost
PROPERTIES ReclaimsOnlyTheUnused
SYMMETRY Symmetry
VIEW View
CHECK_DEADLOCK FALSE
