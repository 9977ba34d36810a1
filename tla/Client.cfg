SPECIFICATION MCSpec
CONSTANTS
  Files = {f1, f2}
  Diffs = {d1, d2}
  Agents = {a1}
  None = None
  LoneSelfDrops = FALSE
  DiffsAlone = FALSE
  Sessions = {s1, s2, s3}
  Openers = {o1, o2, o3}
  Keys = {k1, k2}
  Listeners = {l1, l2}
  polled = polled
  silent = silent
  Local = Local
SYMMETRY Symmetry
INVARIANTS ClientTypeOK StoreCoherent ChunkIsFresh KeepsToggles
PROPERTIES KeepsTabs SummariesSettle
CHECK_DEADLOCK FALSE
