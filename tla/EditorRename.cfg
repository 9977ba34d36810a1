SPECIFICATION Spec
CONSTANTS
  Tabs = {a}
  TypesInSave = FALSE
  Overlap = FALSE
  Renames = "any"
  MaxTexts = 3
  MaxSaves = 1
  MaxLoads = 1
  MaxFailures = 0
INVARIANTS NothingLost
CHECK_DEADLOCK FALSE
