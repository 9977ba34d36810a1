SPECIFICATION Spec
CONSTANTS
  Sessions = {s1, s2}
  Tabs = {t1, t2}
  Cwds = {home, proj}
  Ptys = {p1, p2}
  Conns = {c1, c2}
  MaxPerSession = 1
  NoPty = noPty
  NoCwd = noCwd
  NoConn = noConn
  HangupWhileConnecting = TRUE
  LateHangup = TRUE
SYMMETRY Symmetry
CHECK_DEADLOCK FALSE
INVARIANTS TypeOK NoStrayProcess QuotaRespected MarksConsistent
PROPERTIES ParkedSurvives
