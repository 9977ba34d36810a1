SPECIFICATION MCSpec
CONSTANTS
  Names = {a, b}
  Callers = {e1}
  Overlap = FALSE
  Careless = TRUE
  Browsed = {}
  MaxOps = 3
  Dir = Dir
  Nothing = Nothing
  Dirs = {d1, d2}
  Conns = {c1, c2, c3}
  NoConn = NoConn
  Variants = {v1, v2}
  Readers = {r1, r2}
  Tabs = {t1}
INVARIANTS TreeTypeOK ServedFresh RowsSettle HistoryHolds
PROPERTIES TreeFollows KeepsPromise
CHECK_DEADLOCK FALSE
