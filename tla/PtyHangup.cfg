SPECIFICATION Spec
CONSTANTS
  Sessions = {s1, s2}
  Tabs = {t1}
  Cwds = {home, proj}
  Ptys = {p1, p2}
  Conns = {c1, c2}
  MaxPerSession = 1
  NoPty = noPty
  NoCwd = noCwd
  NoConn = noConn
  HangupWhileConnecting = TRUE
  LateHangup = FALSE
CHECK_DEADLOCK FALSE
INVARIANT NoForgottenShell
