SPECIFICATION MCSpec
CONSTANTS
  Tabs = {a}
  TypesInSave = FALSE
  Overlap = FALSE
  Renames = "clean"
  MaxTexts = 3
  MaxSaves = 2
  MaxLoads = 0
  MaxFailures = 1
  Viewers = {v1, v2}
  w1 = w1
  w2 = w2
  None = None
  Callers = {p1, p2}
  Files = {f1, f2}
  Replacements = {x, y}
INVARIANTS EditorTypeOK DraftsAreSafe NeverBlind ToldTheTruth
PROPERTIES PreviewsSettle
CHECK_DEADLOCK FALSE
