SPECIFICATION Spec
CONSTANTS
  Tabs = {a}
  TypesInSave = TRUE
  Overlap = FALSE
  Renames = "never"
  MaxTexts = 3
  MaxSaves = 1
  MaxLoads = 1
  MaxFailures = 0
INVARIANTS DraftsAreGuarded
CHECK_DEADLOCK FALSE
