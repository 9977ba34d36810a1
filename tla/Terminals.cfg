SPECIFICATION MCSpec
CONSTANTS
  Sessions = {s1, s2}
  Tabs = {t1}
  Cwds = {home}
  Ptys = {p1, p2}
  Conns = {c1, c2}
  MaxPerSession = 1
  NoPty = noPty
  NoCwd = noCwd
  NoConn = noConn
  HangupWhileConnecting = FALSE
  LateHangup = FALSE
  Terms = {u1}
  Calls = {d1, d2}
  NoSession = NoSession
  NoCall = NoCall
  Timer = Timer
  Sockets = {k1, k2, k3}
  Builds = {b1, b2}
INVARIANTS AttachedNotDoomed NothingRunsUnowned
PROPERTIES NothingWaitsForever CatalogConverges
CHECK_DEADLOCK FALSE
